------------------------------ MODULE Recompile ------------------------------
(***************************************************************************)
(* Recompiling the derived knowledge from the archived sources in one commit *)
(* (_recompile, _recompile_layers and _recompile_derived of                  *)
(* knowledge/writer.py): public first, then each layer over the recompiled   *)
(* public pages.                                                            *)
(*                                                                          *)
(* A page is named by the set of sources that back it, {} being no page.     *)
(* What the model writes, page identities and aliases are left out.          *)
(*                                                                          *)
(* A definition introduced as a SLIP is a plausible mistake in the one it    *)
(* precedes; it is no part of the specification.                            *)
(***************************************************************************)
EXTENDS Naturals, Sequences, FiniteSets

CONSTANTS
    Shelving,  \* the layers in the order they are compiled, the public one first
    Titles,    \* virtual page paths
    Origins,   \* archived sources
    ShelfOf,   \* [Origins -> layers]: the layer a source is archived in
    Reading,   \* [layers -> sequences of Origins]: what each archives, in the order of the paths
    MaxDisputed  \* bound: pages with an unresolved contradiction

Shelves == {Shelving[i] : i \in DOMAIN Shelving}
Common == Shelving[1]

ASSUME RecompileAssumption ==
    /\ DOMAIN Shelving = 1 .. Len(Shelving) /\ Len(Shelving) \in Nat \ {0}
    /\ \A i, j \in DOMAIN Shelving : i # j => Shelving[i] # Shelving[j]
    /\ ShelfOf \in [Origins -> Shelves] /\ Reading \in [Shelves -> Seq(Origins)]
    /\ \A l \in Shelves : \A i \in DOMAIN Reading[l] : ShelfOf[Reading[l][i]] = l
    /\ MaxDisputed \in Nat

VARIABLES
    library,   \* the repository: [Shelves -> [Titles -> SUBSET Origins]]
    disputed,  \* its pages with an unresolved contradiction
    shelf,     \* the worktree
    desk,      \* the view compiled: [Titles -> SUBSET Origins]
    round      \* [pc, at, left, tombs, own, corrected]

recompileVars == <<library, disputed, shelf, desk, round>>
-----------------------------------------------------------------------------
Bare == [n \in Titles |-> {}]
Holds(pages) == {n \in Titles : pages[n] # {}}
SourcesIn(l) == Reading[l]

\* Sources back the pages of their own layer; a layer's pages may cite public ones.
MayBack(l) == {s \in Origins : ShelfOf[s] \in {l, Common}}
WellBacked(l, by) == by # {} => by \subseteq MayBack(l) /\ \E s \in by : ShelfOf[s] = l

\* own: the public pages the layer's view adds to; tombs: who asked for each page to go.
Opening(l) == [pc |-> "open", at |-> l, left |-> <<>>, own |-> {}, corrected |-> FALSE,
               tombs |-> [m \in Shelves |-> Bare]]
Ended(how) == [Opening(1) EXCEPT !.pc = how]

RecompileInit ==
    /\ library \in {lib \in [Shelves -> [Titles -> SUBSET Origins]] :
                      \A l \in Shelves, n \in Titles : WellBacked(l, lib[l][n])}
    /\ disputed \in SUBSET {p \in Shelves \X Titles : library[p[1]][p[2]] # {}}
    /\ Cardinality(disputed) \leq MaxDisputed
    /\ shelf = library /\ desk = Bare
    /\ round = Opening(1)

Layer == Shelving[round.at]
Previous == library[Layer]

\* The pages of public a layer's view shows, which its compilation keeps.
Keep == IF Layer = Common THEN {} ELSE Holds(shelf[Common])

\* A refusal or a failed call abandons the worktree.
Refuse == shelf' = library /\ desk' = Bare /\ round' = Ended("refused")

Onward ==
    LET next == IF round.at < Len(Shelving) THEN Opening(round.at + 1) ELSE Ended("land")
    IN [next EXCEPT !.tombs = round.tombs]

\* A layer's own pages are taken away before its view is opened; one with neither page
\* nor source is passed over, and pages without any source are refused.
OpenLayer ==
    /\ round.pc = "open"
    /\ CASE SourcesIn(Layer) # <<>> ->
              /\ shelf' = [shelf EXCEPT ![Layer] = Bare]
              /\ desk' = IF Layer = Common THEN Bare ELSE shelf[Common]
              /\ round' = [round EXCEPT !.pc = "read", !.left = SourcesIn(Layer)]
         [] SourcesIn(Layer) = <<>> /\ Layer # Common /\ Holds(Previous) = {} ->
              round' = Onward /\ UNCHANGED <<shelf, desk>>
         [] OTHER -> Refuse
    /\ UNCHANGED <<library, disputed>>
-----------------------------------------------------------------------------
(* The plan of one source.                                                   *)

Source == Head(round.left)
Prior == {n \in Titles : Source \in Previous[n]}   \* _recompile_prior_pages

Doing(plan, what) == {n \in Titles : plan.change[n] = what}
NoClaim == [page |-> {}, other |-> Source]

\* The model's answers: a change of each page, which updates add something to a public
\* page, and a contradiction with another source recorded on a page.
Answers ==
    {plan \in [change : [Titles -> {"none", "create", "update", "delete"}],
               adds : SUBSET Keep,
               claim : {NoClaim} \cup [page : {{n} : n \in Titles}, other : MayBack(Layer)]] :
       plan.adds \subseteq Doing(plan, "update")}

\* SLIP: a page in dispute may be tombstoned.
DisposedAny(plan) ==
    /\ Doing(plan, "delete") \subseteq Prior
    /\ Prior \subseteq Doing(plan, "create") \cup Doing(plan, "update") \cup Doing(plan, "delete")

\* _prepare_recompile_plan: each prior page is written again or tombstoned.
Disposed(plan) ==
    /\ Doing(plan, "delete") \subseteq {n \in Prior : <<Layer, n>> \notin disputed}
    /\ Prior \subseteq Doing(plan, "create") \cup Doing(plan, "update") \cup Doing(plan, "delete")

\* _apply_filing_plan of what is left of the plan, tombstones taken out.
Applies(plan) ==
    /\ \A n \in Doing(plan, "create") : desk[n] = {}
    /\ \A n \in Doing(plan, "update") : desk[n] # {}
    /\ plan.claim.page \subseteq Holds(desk) \cup Doing(plan, "create")

Written(plan) ==
    [n \in Titles |->
        desk[n]
        \cup (IF n \in Doing(plan, "create") \cup Doing(plan, "update") THEN {Source} ELSE {})
        \cup (IF n \in plan.claim.page THEN {Source, plan.claim.other} ELSE {})]

\* The first plan or its one correction, which starts from the view as it was; a source
\* whose plans fail, or whose planner does, ends the whole recompile.
Compile ==
    /\ round.pc = "read" /\ round.left # <<>>
    /\ \/ \E plan \in Answers :
            /\ Disposed(plan) /\ Applies(plan)
            /\ desk' = Written(plan)
            /\ round' = [round EXCEPT
                           !.left = Tail(@), !.corrected = FALSE,
                           !.own = @ \cup (Keep \cap (plan.adds \cup plan.claim.page)),
                           !.tombs[Layer] = [n \in Titles |->
                             IF n \in Doing(plan, "delete") THEN @[n] \cup {Source} ELSE @[n]]]
            /\ UNCHANGED shelf
       \/ ~round.corrected /\ round' = [round EXCEPT !.corrected = TRUE]
          /\ UNCHANGED <<shelf, desk>>
       \/ Refuse
    /\ UNCHANGED <<library, disputed>>
-----------------------------------------------------------------------------
\* SLIP: one source's tombstone is enough.
VanishedOne == {n \in Titles : Previous[n] # {} /\ desk[n] = {} /\ round.tombs[Layer][n] = {}}

\* _gate_recompile_disappearance: pages gone that a backing source did not give up.
Vanished == {n \in Titles : Previous[n] # {} /\ desk[n] = {} /\ round.tombs[Layer][n] # Previous[n]}

\* SLIP: a layer stores the public pages its view shows.
PartWhole(n) == desk[n]

\* layered.project: of a public page a layer stores what it adds, if anything.
Part(n) ==
    CASE n \notin Keep -> desk[n]
      [] n \in Keep /\ n \in round.own -> desk[n] \ shelf[Common][n]
      [] OTHER -> {}

\* The layer is compiled; the corpus checks may refuse what it makes.
CloseLayer ==
    /\ round.pc = "read" /\ round.left = <<>>
    /\ \/ /\ Vanished = {}
          /\ shelf' = [shelf EXCEPT ![Layer] = [n \in Titles |-> Part(n)]]
          /\ desk' = Bare
          /\ round' = Onward
       \/ Refuse
    /\ UNCHANGED <<library, disputed>>

\* One commit holds every layer, or nothing.
Land ==
    /\ round.pc = "land"
    /\ \/ library' = shelf /\ round' = Ended("landed")
       \/ UNCHANGED library /\ round' = Ended("refused")
    /\ UNCHANGED <<disputed, shelf, desk>>

RecompileNext == OpenLayer \/ Compile \/ CloseLayer \/ Land
RecompileSpec == RecompileInit /\ [][RecompileNext]_recompileVars
-----------------------------------------------------------------------------
RecompileTypeOK ==
    /\ {library, shelf} \subseteq [Shelves -> [Titles -> SUBSET Origins]]
    /\ disputed \subseteq Shelves \X Titles
    /\ desk \in [Titles -> SUBSET Origins]
    /\ round.at \in DOMAIN Shelving /\ round.own \subseteq Titles

Lost(l) == {n \in Titles : library[l][n] # {} /\ library'[l][n] = {}}
Shown(l) == IF l = Common THEN {} ELSE Holds(library'[Common])

\* writer.py:759 "A vanished page requires an explicit tombstone from every backing
\* source": of a page of a layer that is gone from the commit every source that backed
\* it was read in this recompile and gave it up.  Paths public holds as well are
\* excepted: see VanishesUnasked.
GivenUpByAll ==
    [][\A l \in Shelves : \A n \in Lost(l) \ Shown(l) :
         round.tombs[l][n] = library[l][n]]_recompileVars

\* writer.py:738-742: a page with an unresolved contradiction is never lost, whatever
\* its sources' plans say and whichever layer comes first.
DisputedStays ==
    [][\A l \in Shelves : \A n \in Lost(l) \ Shown(l) : <<l, n>> \notin disputed]_recompileVars

\* A recompile loses a page only when every source that backs it gives it up, and never a contradiction.
RecompileKeepsTheRest ==
    /\ GivenUpByAll
    /\ DisputedStays

\* layered.py:133-218: what is stored of a layer compiled over public is its own: one
\* of its sources backs every page, and no source of a narrower layer does.
LayersBackTheirPages ==
    \A l \in Shelves, n \in Titles : WellBacked(l, library[l][n])

-----------------------------------------------------------------------------
(* What the code does not keep, which no run checks (README, section 5).     *)

\* writer.py:759, without the exception: a layer's own part of a page that public holds
\* too may vanish though no source gave it up.
VanishesUnasked ==
    [][\A l \in Shelves : \A n \in Lost(l) : round.tombs[l][n] = library[l][n]]_recompileVars
=============================================================================
