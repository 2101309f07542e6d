----------------------------- MODULE FilingLoop -----------------------------
(***************************************************************************)
(* Filing one capture and deleting knowledge: the view of a layer, the plan  *)
(* of the model, its gates and its one correction, the projection of the     *)
(* view into the layer, and the sweep of what pointed at deleted knowledge   *)
(* (_capture, _apply_filing_plan, _delete and _sweep_deleted_references of   *)
(* knowledge/writer.py, knowledge/layered.py, knowledge/lint.py).            *)
(*                                                                          *)
(* A page is the set of its units.  A unit is a text and whether its         *)
(* wikilink is live or plain text; a text may cite one source, link one page *)
(* and be a contradiction callout.  Wording, headings, titles, aliases and   *)
(* page metadata are left out.  A source is named by the capture it archives.*)
(*                                                                          *)
(* A definition introduced as a SLIP is a plausible mistake in the one it    *)
(* precedes; it is no part of the specification.                            *)
(***************************************************************************)
EXTENDS Naturals, FiniteSets

CONSTANTS
    Layers, Public,  \* audience layers, the public one among them
    Names,           \* virtual page paths
    Captures,        \* captures, and the sources they archive
    Texts,           \* unit texts
    Callouts,        \* the texts that are contradiction callouts
    Cites,           \* [Texts -> Captures or None]: the source a text cites
    LinkOf,          \* [Texts -> Names or None]: the page a text links
    Resolves,        \* [Captures -> Callouts or None]: intent.resolution_of
    None,
    MaxDeletes       \* bound: deletions asked for

ASSUME FilingAssumption ==
    /\ Public \in Layers /\ Callouts \subseteq Texts
    /\ Cites \in [Texts -> Captures \cup {None}]
    /\ LinkOf \in [Texts -> Names \cup {None}]
    /\ Resolves \in [Captures -> Callouts \cup {None}]
    /\ None \notin Captures \cup Names \cup Texts \cup Layers /\ Names \cap Captures = {}
    /\ MaxDeletes \in Nat

VARIABLES
    corpus,    \* the repository: [Layers -> [Names -> page]]
    archived,  \* [Captures -> the layer its source is archived in, or None]
    settled,   \* captures landed or failed
    deletes,
    work,      \* the ephemeral worktree: [pages, sources]
    tree,      \* the layer view: [Names -> page]
    job        \* [pc, cap, layer, plan, cut, gone, rejected]

vars == <<corpus, archived, settled, deletes, work, tree, job>>
-----------------------------------------------------------------------------
(* Pages, views and the corpus check.                                        *)

Units == {u \in Texts \X BOOLEAN : u[2] => LinkOf[u[1]] # None}
NoPage == {}
Pages == SUBSET Units
TextsOf(page) == {u[1] : u \in page}
Cited(page) == {u \in page : Cites[u[1]] # None}
Marks(page) == {u \in page : u[1] \in Callouts}
Living(t) == {n \in Names : t[n] # NoPage}

\* layered.build_view: public and the layer, each virtual path merged.
View(pages, l) == [n \in Names |-> pages[Public][n] \cup pages[l][n]]

\* lint._relationship_violations of a tree: links that reach no page.
DeadLinks(t) ==
    {n \in Names : \E u \in t[n] : u[2] /\ LinkOf[u[1]] \notin Living(t)}

\* The same over the repository: a page resolves links and sources among its own
\* layer and public.
Violations(pages, sources) ==
    {v \in Layers \X Names \X Units :
        LET l == v[1]
            u == v[3]
        IN /\ u \in pages[l][v[2]]
           /\ \/ u[2] /\ LinkOf[u[1]] \notin Living(View(pages, l))
              \/ Cites[u[1]] # None /\ sources[Cites[u[1]]] \notin {l, Public}}

\* lint._editorial_violations: a page this write changed cites a declared source.
Unsourced(t, changed) == {n \in changed : t[n] # NoPage /\ Cited(t[n]) = {}}
-----------------------------------------------------------------------------
(* A plan and its application.                                               *)

NoChange == [action |-> "none", body |-> NoPage]
NoPlan == [change |-> [n \in Names |-> NoChange], mark |-> None, clears |-> FALSE]

\* What the model may write in a page: texts of this source or of none, and what
\* the page holds.
Sayable(c, page) == {<<t, LinkOf[t] # None>> : t \in {t \in Texts : Cites[t] \in {c, None}}}
                    \cup page
ChangesOf(c, page) ==
    {NoChange, [action |-> "delete", body |-> NoPage]}
    \cup [action : {"create", "update", "replace"},
          body : (SUBSET Sayable(c, page)) \ {NoPage}]

\* The model's answers: at most one change of each page, "replace" being a
\* deletion and a creation of one path, a contradiction on one page, and the callout
\* of a resolution cleared.
Plans(c, t) ==
    LET changes == [n \in Names |-> ChangesOf(c, t[n])]
        all == {f \in [Names -> UNION {changes[n] : n \in Names}] :
                  \A n \in Names : f[n] \in changes[n]}
    IN [change : all, mark : Names \cup {None},
        clears : IF Resolves[c] = None THEN {FALSE} ELSE BOOLEAN]

Changed(plan) == {n \in Names : plan.change[n].action # "none"}
Proposes(plan) == Changed(plan) # {} \/ plan.mark # None
Made(plan) == {n \in Names : plan.change[n].action \in {"create", "replace"}}

\* _canonical_links, _resolve_links: a link that reaches no page of the view and
\* none of the plan becomes its text.
Resolved(plan, t, body) ==
    {<<u[1], u[2] /\ LinkOf[u[1]] \in Living(t) \cup Made(plan)>> : u \in body}

\* _preserve_contradictions: callouts an update leaves out are put back.
Body(plan, t, n) ==
    LET body == Resolved(plan, t, plan.change[n].body)
    IN IF plan.change[n].action = "update" THEN body \cup Marks(t[n]) ELSE body

\* _apply_page_mutation: what cannot be applied.
Impossible(plan, t, n) ==
    CASE plan.change[n].action = "none" -> FALSE
      [] plan.change[n].action = "create" ->
           t[n] # NoPage \/ Marks(plan.change[n].body) # {}
      [] plan.change[n].action = "update" ->
           t[n] = NoPage \/ ~(Marks(plan.change[n].body) \subseteq Marks(t[n]))
      [] plan.change[n].action = "delete" -> t[n] = NoPage \/ Marks(t[n]) # {}
      [] plan.change[n].action = "replace" ->
           t[n] = NoPage \/ Marks(t[n]) # {} \/ Marks(plan.change[n].body) # {}

\* SLIP: an update is taken as the model wrote it.
LosesNever(plan, t, n) == FALSE

\* _lost_source_backed_lines: an update that drops a cited line.
Loses(plan, t, n) ==
    /\ plan.change[n].action = "update"
    /\ ~(Cited(t[n]) \subseteq Body(plan, t, n))

\* The mutations of `done` are applied, whichever came first.
Mutated(plan, t, done) == [n \in Names |-> IF n \in done THEN Body(plan, t, n) ELSE t[n]]

\* The callout of the capture, if its plan has one, and where it may be put.
MarkOf(c) == {<<k, FALSE>> : k \in {k \in Callouts : Cites[k] = c}}
Marked(plan, c, t) ==
    IF plan.mark = None THEN t ELSE [t EXCEPT ![plan.mark] = @ \cup MarkOf(c)]

\* _remove_contradiction: only from pages the plan updates.
Holding(c, t) == {n \in Names : Resolves[c] \in TextsOf(t[n])}
Cleared(c, t) == [n \in Names |-> {u \in t[n] : u[1] # Resolves[c]}]

\* _apply_filing_plan, from the view t: the outcome and what it leaves in the view,
\* where a plan that fails may have been applied in part.
Applied(plan, c, t) ==
    LET broken == {n \in Names : Impossible(plan, t, n)}
        lossy == {n \in Names : Loses(plan, t, n)}
        sound == Changed(plan) \ (broken \cup lossy)
        whole == Marked(plan, c, Mutated(plan, t, sound))
        final == IF plan.clears THEN Cleared(c, whole) ELSE whole
        ok == /\ broken \cup lossy = {}
              /\ plan.mark # None => /\ Mutated(plan, t, sound)[plan.mark] # NoPage
                                     /\ MarkOf(c) # {}
                                     /\ \A n \in Names : MarkOf(c) \cap t[n] = {}
              /\ plan.clears =>
                   \A n \in Holding(c, whole) : plan.change[n].action = "update"
    IN IF ok THEN {<<"ok", final>>}
       ELSE {<<"bad", Mutated(plan, t, done)>> :
               done \in IF broken = {} /\ lossy # {} THEN {} ELSE SUBSET sound}
            \cup {<<"lossy", Mutated(plan, t, done)>> :
                    done \in IF lossy # {} THEN SUBSET sound ELSE {}}

-----------------------------------------------------------------------------
(* Filing a capture.                                                         *)

Idle == [pc |-> "idle", cap |-> None, layer |-> None, plan |-> NoPlan,
         cut |-> {}, gone |-> {}, rejected |-> FALSE]
Nothing == [n \in Names |-> NoPage]
Blank == [pages |-> [l \in Layers |-> Nothing], sources |-> [c \in Captures |-> None]]

Init ==
    /\ corpus = Blank.pages /\ archived = Blank.sources
    /\ settled = {} /\ deletes = 0
    /\ work = Blank /\ tree = Nothing /\ job = Idle

repo == <<corpus, archived, settled, deletes>>
Snapshot == View(work.pages, job.layer)   \* _snapshot_mutable of the fresh view

\* SLIP: the view is not restored.
RestoredNot == tree

\* _restore_mutable.
Restored == Snapshot

Idling == work' = Blank /\ tree' = Nothing /\ job' = Idle

\* The attempt begins: the source is written in its layer and in the view.
Begin(c, l) ==
    /\ job.pc = "idle" /\ c \notin settled
    /\ work' = [pages |-> corpus, sources |-> [archived EXCEPT ![c] = l]]
    /\ tree' = View(corpus, l)
    /\ job' = [Idle EXCEPT !.pc = "plan", !.cap = c, !.layer = l]
    /\ UNCHANGED repo

\* The author left the layer, the view cannot be read, or a planner call fails.
Abandon ==
    /\ job.pc \in {"plan", "correct"}
    /\ Idling
    /\ \/ settled' = settled \cup {job.cap}
       \/ UNCHANGED settled
    /\ UNCHANGED <<corpus, archived, deletes>>

Cuts(plan) == {n \in Names : plan.change[n].action \in {"delete", "replace"}}
Touched(plan, c, t) ==
    Changed(plan) \cup ({plan.mark} \ {None})
    \cup (IF plan.clears THEN Holding(c, t) ELSE {})
Passes(plan, c, t, final) ==
    DeadLinks(final) = {} /\ Unsourced(final, Touched(plan, c, t)) = {}

Accept(plan) ==
    job' = [job EXCEPT !.pc = "project", !.plan = NoPlan, !.cut = Cuts(plan)]
Reject == job' = [job EXCEPT !.pc = "fallback", !.plan = NoPlan, !.rejected = TRUE]

\* The first plan: applied and gated.  A plan that fails goes to its correction, for
\* which a request is always left: the plan is given max_turns - 1 of three.
Draft ==
    /\ job.pc = "plan" /\ DeadLinks(tree) = {}
    /\ \E plan \in Plans(job.cap, tree) : \E out \in Applied(plan, job.cap, tree) :
         /\ tree' = out[2]
         /\ IF /\ out[1] = "ok" /\ Proposes(plan)
               /\ Passes(plan, job.cap, tree, out[2])
            THEN Accept(plan)
            ELSE job' = [job EXCEPT !.pc = "correct"]
    /\ UNCHANGED <<repo, work>>

\* The corrected plan starts from the view as it was.
Correct ==
    /\ job.pc = "correct"
    /\ \E plan \in Plans(job.cap, Snapshot) : \E out \in Applied(plan, job.cap, Restored) :
         /\ tree' = out[2]
         /\ CASE out[1] = "lossy" -> job' = [job EXCEPT !.pc = "drop", !.plan = plan]
              [] out[1] = "ok" /\ Passes(plan, job.cap, Restored, out[2]) ->
                   Accept(plan)
              [] OTHER -> Reject
    /\ UNCHANGED <<repo, work>>

\* SLIP: the lossy update stays in the plan.
WithoutNone(plan, n) == plan

Without(plan, n) == [plan EXCEPT !.change[n] = NoChange]

\* The update that would drop cited lines is taken out and the rest applied again.
Drop ==
    /\ job.pc = "drop"
    /\ \E n \in Names :
         /\ Loses(job.plan, Snapshot, n)
         /\ LET plan == Without(job.plan, n)
            IN \E out \in Applied(plan, job.cap, Restored) :
                 /\ tree' = out[2]
                 /\ CASE out[1] = "lossy" -> job' = [job EXCEPT !.plan = plan]
                      [] /\ out[1] = "ok" /\ Changed(plan) # {}
                         /\ Passes(plan, job.cap, Restored, out[2]) ->
                           Accept(plan)
                      [] OTHER -> Reject
    /\ UNCHANGED <<repo, work>>

\* A rejected plan leaves nothing: the source is archived alone.
Fallback ==
    /\ job.pc = "fallback"
    /\ tree' = Restored
    /\ job' = [job EXCEPT !.pc = "project"]
    /\ UNCHANGED <<repo, work>>
-----------------------------------------------------------------------------
(* The projection of the view into its layer.                                *)

\* layered.project of one page of a restricted layer.
Stored(base, own, old, new) ==
    CASE new = old -> own
      [] new # old /\ new = NoPage -> NoPage
      [] new # old /\ new # NoPage /\ base = NoPage -> new
      [] OTHER -> IF new \ base = {} THEN own ELSE new \ base

Projected ==
    [work.pages EXCEPT ![job.layer] =
        IF job.layer = Public THEN tree
        ELSE [n \in Names |-> Stored(work.pages[Public][n], work.pages[job.layer][n],
                                      Snapshot[n], tree[n])]]

\* strict: a resolution may neither delete nor change a public page from a layer.
Overreaches ==
    /\ Resolves[job.cap] # None /\ job.layer # Public
    /\ \E n \in Names :
         /\ tree[n] # Snapshot[n]
         /\ IF tree[n] = NoPage THEN work.pages[job.layer][n] = NoPage
            ELSE ~(work.pages[Public][n] \subseteq tree[n])

\* A public page that is gone leaves links in the other layers to sweep.
Project ==
    /\ job.pc = "project"
    /\ IF Overreaches
       THEN Idling /\ settled' = settled \cup {job.cap}
       ELSE LET gone == IF job.layer # Public THEN {}
                        ELSE {n \in Names : tree[n] = NoPage /\ Snapshot[n] # NoPage}
            IN /\ work' = [work EXCEPT !.pages = Projected]
               /\ job' = [job EXCEPT !.pc = "sweep", !.gone = {<<Public, n>> : n \in gone}]
               /\ UNCHANGED <<tree, settled>>
    /\ UNCHANGED <<corpus, archived, deletes>>
-----------------------------------------------------------------------------
(* Deletion, and the sweep of what pointed at it.                            *)

\* _delete: sources and pages an administrator names, each of one layer.
Targets == {<<archived[c], c>> : c \in {c \in Captures : archived[c] # None}}
           \cup {p \in Layers \X Names : corpus[p[1]][p[2]] # NoPage}

Delete ==
    /\ job.pc = "idle" /\ deletes < MaxDeletes
    /\ \E gone \in {g \in SUBSET Targets : Cardinality(g) \in 1 .. 2} :
         /\ work' = [pages |-> [l \in Layers |-> [n \in Names |->
                                  IF <<l, n>> \in gone THEN NoPage ELSE corpus[l][n]]],
                     sources |-> [c \in Captures |->
                                  IF <<archived[c], c>> \in gone THEN None ELSE archived[c]]]
         /\ job' = [Idle EXCEPT !.pc = "sweep", !.gone = gone]
    /\ deletes' = deletes + 1
    /\ UNCHANGED <<corpus, archived, settled, tree>>

\* What a layer can no longer resolve of what is gone.
InScope(l, gone) == {g[2] : g \in {g \in gone : g[1] \in {l, Public}}}
DeadNames(l, gone, pages) == (InScope(l, gone) \cap Names) \ Living(View(pages, l))
DeadSources(l, gone) == InScope(l, gone) \cap Captures

\* SLIP: what links dead knowledge goes with it.
SweptAll(page, names, sources) ==
    {u \in page : Cites[u[1]] \notin sources /\ LinkOf[u[1]] \notin names}

\* The units left of a page: links to dead names are plain text, units and
\* callouts that cite a dead source go.
Swept(page, names, sources) ==
    {<<u[1], u[2] /\ LinkOf[u[1]] \notin names>> :
        u \in {u \in page : Cites[u[1]] \notin sources}}

SweepLayer(l, gone, pages) ==
    [pages EXCEPT ![l] = [n \in Names |->
        Swept(pages[l][n], DeadNames(l, gone, pages), DeadSources(l, gone))]]

\* One round over the layers, public first unless only the layers are swept.
Round(gone, pages, layersOnly) ==
    LET first == IF layersOnly THEN pages ELSE SweepLayer(Public, gone, pages)
    IN [l \in Layers |->
          IF l = Public THEN first[Public] ELSE SweepLayer(l, gone, first)[l]]

\* SLIP: one round is taken for enough.
EmptiedNone(before, after) == {}

\* Pages left with nothing are gone in turn, and swept for in the next round.
Emptied(before, after) ==
    {p \in Layers \X Names : before[p[1]][p[2]] # NoPage /\ after[p[1]][p[2]] = NoPage}

Sweep ==
    /\ job.pc = "sweep"
    /\ IF job.gone = {}
       THEN job' = [job EXCEPT !.pc = "gate"] /\ UNCHANGED work
       ELSE LET after == Round(job.gone, work.pages, job.cap # None)
            IN /\ work' = [work EXCEPT !.pages = after]
               /\ job' = [job EXCEPT !.gone = Emptied(work.pages, after)]
    /\ UNCHANGED <<repo, tree>>

\* SLIP: the view was gated, so the repository is not.
IntroducedNever == {}

\* The last gate over the repository, and the commit.
Introduced == Violations(work.pages, work.sources) \ Violations(corpus, archived)

Gate ==
    /\ job.pc = "gate"
    /\ IF Introduced = {}
       THEN corpus' = work.pages /\ archived' = work.sources
       ELSE UNCHANGED <<corpus, archived>>
    /\ settled' = settled \cup ({job.cap} \ {None})
    /\ Idling
    /\ UNCHANGED deletes

File == Draft \/ Correct \/ Drop \/ Fallback \/ Project \/ Sweep \/ Gate

Next ==
    \/ \E c \in Captures, l \in Layers : Begin(c, l)
    \/ File
    \/ Abandon
    \/ Delete

\* What follows the last answer of the model runs on its own.
Finish == Drop \/ Fallback \/ Project \/ Sweep \/ Gate

Spec == Init /\ [][Next]_vars
FairSpec == Spec /\ WF_vars(Finish)
-----------------------------------------------------------------------------
TypeOK ==
    /\ corpus \in [Layers -> [Names -> Pages]]
    /\ archived \in [Captures -> Layers \cup {None}]
    /\ settled \subseteq Captures /\ deletes \in 0 .. MaxDeletes
    /\ work \in [pages : [Layers -> [Names -> Pages]],
                  sources : [Captures -> Layers \cup {None}]]
    /\ tree \in [Names -> Pages]
    /\ job.cap \in Captures \cup {None}

\* lint.check: whatever is filed and deleted, in whatever order of layers, every
\* live link of the repository reaches a page its layer can read, and every
\* citation a source archived in that layer or in the public one.
CorpusIsSound ==
    \A l \in Layers, n \in Names : \A u \in corpus[l][n] :
        /\ u[2] => \E m \in {l, Public} : corpus[m][LinkOf[u[1]]] # NoPage
        /\ Cites[u[1]] # None => archived[Cites[u[1]]] \in {l, Public}

\* writer.py:1680-1722: the sweeps of a deletion, and those of a public capture
\* over the layers it does not see, leave nothing for the last gate to refuse.
SweepIsEnough ==
    job.pc = "gate" /\ job.layer \in {None, Public} => Introduced = {}

\* writer.py:1037-1043: of a plan that is rejected nothing reaches the repository:
\* the source is archived and no page changes.
RejectedArchivesOnly == [][job.rejected => corpus' = corpus]_vars

\* writer.py:1602-1621: a capture leaves every cited text readable where it was,
\* except on a page its accepted plan deletes and the callout it resolves.
CitedSurvives ==
    [][job.cap # None =>
         \A l \in Layers, n \in Names \ job.cut :
           \A u \in Cited(corpus[l][n]) :
             \/ u[1] = Resolves[job.cap]
             \/ u[1] \in TextsOf(View(corpus', l)[n])]_vars

\* layered.project, _sweep_other_layers: a capture changes its own layer; a public
\* one leaves in the others only plain text where links were.
LayersKeepApart ==
    [][job.cap # None =>
         \A l \in Layers \ {job.layer} : \A n \in Names :
           IF job.layer = Public THEN TextsOf(corpus'[l][n]) = TextsOf(corpus[l][n])
           ELSE corpus'[l][n] = corpus[l][n]]_vars

\* writer.py:982-1020: once the model has answered for the last time, the loop that
\* drops lossy updates and the rounds of the sweep come to an end.
FilingEnds ==
    job.pc \in {"drop", "fallback", "project", "sweep", "gate"} ~> job.pc = "idle"

\* What a capture changes is what its accepted plan says, in its layer: everything else stays readable.
FilingKeepsTheRest ==
    /\ RejectedArchivesOnly
    /\ CitedSurvives
    /\ LayersKeepApart
    /\ FilingEnds
=============================================================================
