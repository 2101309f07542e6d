--------------------------- MODULE ChannelAnswers ---------------------------
(***************************************************************************)
(* A question asked of the brain in a Slack channel or in private: the     *)
(* placeholder, the answering agent and its ledger of evidence, the        *)
(* verifier and the strict gate, the one corrective run, the recovery of a *)
(* run that died, the delivery of the result, and the fuller answer sent   *)
(* in private (src/stigmergy/slack/mention.py, answer/service.py,          *)
(* answer/verify_answer.py, answer/synthesize.py, answer/brain.py).        *)
(*                                                                         *)
(* A page is a set of rows, one per layer and part; a row states one       *)
(* claim.  A claim stands for a figure and for the quotation that holds    *)
(* it.  While a question runs, rows are withdrawn: the index follows the   *)
(* writer.                                                                 *)
(***************************************************************************)
EXTENDS Naturals, FiniteSets

CONSTANTS
    Pages, Claims, Layers, Public, Unrestricted,
    Rows,            \* what the index holds when the question arrives
    Snippets,        \* the rows whose claim a search result already shows
    Queries, Question,
    Hits,            \* the pages a query ranks, before the reader's scope
    ChannelScopes,   \* the scopes a channel may be mapped to
    AskerScopes,     \* the scopes the asker may hold
    MaxTools,        \* bound: tool calls of one run of the agent
    MaxWithdrawn     \* bound: rows that leave the index meanwhile

Row == [page: Pages, layer: Layers, part: {"head", "tail"}, claim: Claims]
Scope == {Unrestricted} \union SUBSET Layers

ASSUME RowsAssumption ==
    /\ IsFiniteSet(Pages) /\ IsFiniteSet(Claims)
    /\ Rows \subseteq Row /\ Snippets \subseteq Rows
ASSUME ScopesAssumption ==
    /\ Public \in Layers
    /\ \A scope \in SUBSET Layers : scope # Unrestricted
    /\ ChannelScopes \subseteq SUBSET Layers
    /\ AskerScopes \subseteq Scope
ASSUME QueriesAssumption == Question \in Queries /\ Hits \in [Queries -> SUBSET Pages]
ASSUME BoundsAssumption == MaxTools \in Nat /\ MaxWithdrawn \in Nat

Refusal == [refused |-> TRUE, figures |-> {}, cites |-> {}]
Draft == {Refusal} \union
    [refused: {FALSE}, figures: SUBSET Claims, cites: SUBSET (Pages \X Claims)]
Verdict == [figures: SUBSET Claims, problems: Nat]
Ledger == [evidence: SUBSET Claims, surfaced: SUBSET Pages,
           searched: SUBSET Queries, windows: SUBSET Pages]
Kinds == {"none", "answer", "refusal", "suppressed", "budget", "timeout", "throttled", "error"}
Outcome == [kind: Kinds, claims: SUBSET Claims, pages: SUBSET Pages, searched: SUBSET Queries]

VARIABLES
    corpus,       \* the rows the index serves now
    pc,           \* where the listener is
    inDM,         \* the question was asked in private
    fuller,       \* this is the second, private answer
    channel, asker,  \* the two scopes, resolved when the event arrived
    ledger, tools,   \* what this run of ask() has recorded, and its tool calls
    first,        \* the first draft, its verdict and its rank, while a corrective run is out
    outcome,      \* what the finished ask() returned or raised
    tries,        \* attempts to deliver it
    posted,       \* the last message with content: who sees it and what it says
    told,         \* whether the asker has been told: "no", "yes" or "lost"
    returned,     \* the queries whose search came back
    cut           \* the queries of the agent the database cancelled

asked == <<inDM, channel, asker>>
ghosts == <<returned, cut>>
vars == <<corpus, pc, fuller, asked, ledger, tools, first, outcome, tries, posted, told, ghosts>>

EmptyLedger == [evidence |-> {}, surfaced |-> {}, searched |-> {}, windows |-> {}]
NoDraft == [out |-> Refusal, verdict |-> [figures |-> {}, problems |-> 0], rank |-> 0]
NoOutcome == [kind |-> "none", claims |-> {}, pages |-> {}, searched |-> {}]
NoMessage == [to |-> {}, claims |-> {}, pages |-> {}]

----------------------------------------------------------------------------
(* What a scope may read. *)

Reads(scope, layer) == layer = Public \/ scope = Unrestricted \/ layer \in scope

\* Slip: the asker's own scope is forgotten in a channel.
NarrowToChannel(wide, scope) == wide

Narrow(wide, scope) == IF scope = Unrestricted THEN wide ELSE wide \intersect scope

\* The scope the answer is computed at.
Effective == IF inDM \/ fuller THEN asker ELSE Narrow(channel, asker)

ReadableRows(scope) == {r \in corpus : Reads(scope, r.layer)}
VisiblePages(scope) == {r.page : r \in ReadableRows(scope)}

----------------------------------------------------------------------------
(* The tools and the ledger they write. *)

\* A search names its query first, then the pages and the matches that came back.
WithSearch(led, q, rows) ==
    [led EXCEPT !.searched = @ \union {q},
                !.surfaced = @ \union {r.page : r \in rows},
                !.evidence = @ \union {r.claim : r \in rows \intersect Snippets}]

Found(q) == {r \in ReadableRows(Effective) : r.page \in Hits[q]}

\* A page the reader cannot see reads as unknown and records nothing.
WithRead(led, p, part) ==
    IF p \notin VisiblePages(Effective) THEN led ELSE
    [led EXCEPT !.surfaced = @ \union {p},
                !.windows = IF part = "tail" THEN @ \union {p} ELSE @,
                !.evidence = @ \union {r.claim : r \in
                    {s \in ReadableRows(Effective) : s.page = p /\ s.part = part}}]

\* Slip: what was noted before the cancelled statement stays.
NotRewound(mark, led) == led

Rewound(mark, led) == mark

----------------------------------------------------------------------------
(* The verifier and the strict gate. *)

\* The page a quotation is checked against: its head and the windows this run read.
AsRead(led, p) ==
    {r.claim : r \in {s \in ReadableRows(Effective) :
                        s.page = p /\ (s.part = "head" \/ p \in led.windows)}}

CitationHolds(led, c) == c[1] \in led.surfaced /\ c[2] \in AsRead(led, c[1])

Verify(out, led) ==
    IF out.refused THEN [figures |-> {}, problems |-> 0] ELSE
    [figures |-> out.figures \ led.evidence,
     problems |-> Cardinality({c \in out.cites : ~CitationHolds(led, c)})
                    + (IF out.cites = {} THEN 1 ELSE 0)]

Quotes(out) == {c[2] : c \in out.cites}

\* Slip: the gate reads the text of the answer only.
TextFindings(out, verdict, led) == IF out.refused THEN {} ELSE verdict.figures

\* Every figure that would ship untraced, those inside quotations included.
GateFindings(out, verdict, led) ==
    IF out.refused THEN {} ELSE verdict.figures \union (Quotes(out) \ led.evidence)

\* 0 ships clean, 1 ships as partial, 2 is suppressed.
ShipRank(figs, verdict) == IF figs # {} \/ verdict.problems >= 2 THEN 2 ELSE verdict.problems

Named(pages) == pages \intersect VisiblePages(Effective)

Shape(out, verdict, led) ==
    IF out.refused
      THEN [kind |-> "refusal", claims |-> {}, pages |-> Named(led.surfaced), searched |-> led.searched]
    ELSE IF ShipRank(GateFindings(out, verdict, led), verdict) = 2
      THEN [kind |-> "suppressed", claims |-> {}, pages |-> Named({c[1] : c \in out.cites}),
            searched |-> led.searched]
    ELSE [kind |-> "answer", claims |-> out.figures \union Quotes(out), pages |-> {}, searched |-> {}]

BudgetRefusal(led) ==
    [kind |-> "budget", claims |-> {}, pages |-> Named(led.surfaced), searched |-> led.searched]

Raised(kind) == [NoOutcome EXCEPT !.kind = kind]

----------------------------------------------------------------------------
Init ==
    /\ corpus = Rows /\ pc = "idle" /\ fuller = FALSE
    /\ inDM \in BOOLEAN /\ channel \in ChannelScopes /\ asker \in AskerScopes
    /\ ledger = EmptyLedger /\ tools = 0 /\ first = NoDraft
    /\ outcome = NoOutcome /\ tries = 0 /\ posted = NoMessage /\ told = "no"
    /\ returned = {} /\ cut = {}

\* The writer's last publication reaches the index: a row is gone.
Withdraw(r) ==
    /\ r \in corpus
    /\ Cardinality(Rows \ corpus) < MaxWithdrawn
    /\ pc \notin {"idle", "done"}
    /\ corpus' = corpus \ {r}
    /\ UNCHANGED <<pc, fuller, asked, ledger, tools, first, outcome, tries, posted, told, ghosts>>

\* The event arrives: an identity that does not resolve is told so in private, a
\* channel whose scope cannot be read gets an error, and nothing else follows.
TurnAway ==
    /\ pc = "idle"
    /\ pc' = "done"
    /\ UNCHANGED <<corpus, fuller, asked, ledger, tools, first, outcome, tries, posted, told, ghosts>>

\* The placeholder is posted, or Slack is down and only the log says so.
PostPlaceholder ==
    /\ pc = "idle"
    /\ \/ pc' = "ask" /\ told' = told
       \/ pc' = "done" /\ told' = "lost"
    /\ UNCHANGED <<corpus, fuller, asked, ledger, tools, first, outcome, tries, posted, ghosts>>

\* ask() leaves its loop: the outcome goes to delivery.
Finish(result) ==
    /\ outcome' = result
    /\ pc' = "deliver"
    /\ first' = NoDraft
    /\ tools' = 0

\* The service is built and the first search runs on the server.  A cancelled
\* search is rewound and the agent starts without it.
FirstSearch ==
    /\ pc = "ask"
    /\ pc' = "agent"
    /\ LET after == WithSearch(ledger, Question, Found(Question)) IN
       \/ ledger' = after /\ returned' = returned \union {Question}
       \/ ledger' = Rewound(ledger, [ledger EXCEPT !.searched = @ \union {Question}])
          /\ UNCHANGED returned
    /\ UNCHANGED <<corpus, fuller, asked, tools, first, outcome, tries, posted, told, cut>>

\* A search, a listing or a lookup of the agent.
ToolSearch(q) ==
    /\ pc \in {"agent", "retry"} /\ tools < MaxTools
    /\ tools' = tools + 1
    /\ ledger' = WithSearch(ledger, q, Found(q))
    /\ returned' = returned \union {q}
    /\ UNCHANGED <<corpus, pc, fuller, asked, first, outcome, tries, posted, told, cut>>

ToolRead(p, part) ==
    /\ pc \in {"agent", "retry"} /\ tools < MaxTools
    /\ tools' = tools + 1
    /\ ledger' = WithRead(ledger, p, part)
    /\ UNCHANGED <<corpus, pc, fuller, asked, first, outcome, tries, posted, told, ghosts>>

\* The end of a run that died.  The first run goes to the recovery with what its
\* ledger holds; a corrective run leaves the first draft, shaped from the ledger as
\* it now stands.
Dies(led) ==
    \/ /\ pc = "agent"
       /\ pc' = "recover"
       /\ UNCHANGED <<first, outcome, tools>>
    \/ /\ pc = "retry"
       /\ Finish(Shape(first.out, first.verdict, led))

\* The budget of requests or the deadline of the phase ends the run.
RunDies ==
    /\ Dies(ledger)
    /\ UNCHANGED <<corpus, fuller, asked, ledger, tries, posted, told, ghosts>>

\* The database cancels a search of the agent, whose query is already noted.
ToolCut(q) ==
    /\ pc \in {"agent", "retry"} /\ tools < MaxTools
    /\ ledger' = [ledger EXCEPT !.searched = @ \union {q}]
    /\ cut' = cut \union {q}
    /\ Dies(ledger')
    /\ UNCHANGED <<corpus, fuller, asked, tries, posted, told, returned>>

\* The agent answers.  A draft the gate would suppress earns one corrective run.
FirstDraft(out) ==
    LET verdict == Verify(out, ledger)
        rank == ShipRank(GateFindings(out, verdict, ledger), verdict)
    IN  /\ pc = "agent"
        /\ IF ~out.refused /\ rank = 2
             THEN /\ pc' = "retry"
                  /\ first' = [out |-> out, verdict |-> verdict, rank |-> rank]
                  /\ tools' = 0
                  /\ UNCHANGED outcome
             ELSE Finish(Shape(out, verdict, ledger))
        /\ UNCHANGED <<corpus, fuller, asked, ledger, tries, posted, told, ghosts>>

\* The corrective run answers: it wins only with a better rank at the gate.
Redraft(out) ==
    LET again == Verify(out, ledger) IN
    /\ pc = "retry"
    /\ IF ShipRank(GateFindings(out, again, ledger), again) < first.rank
         THEN Finish(Shape(out, again, ledger))
         ELSE Finish(Shape(first.out, first.verdict, ledger))
    /\ UNCHANGED <<corpus, fuller, asked, ledger, tries, posted, told, ghosts>>

\* The server gathers for a dead run: one search if it surfaced nothing and never
\* tried the question, then the surfaced pages.  A cancelled statement undoes it.
Recover ==
    LET searches == ledger.surfaced = {} /\ Question \notin ledger.searched
        searched == IF searches THEN WithSearch(ledger, Question, Found(Question)) ELSE ledger
        read == [searched EXCEPT !.evidence = @ \union
                    {r.claim : r \in {s \in ReadableRows(Effective) :
                                        s.page \in searched.surfaced /\ s.part = "head"}}]
    IN  /\ pc = "recover"
        /\ \/ /\ IF searched.surfaced = {}
                   THEN /\ pc' = "deliver" /\ ledger' = searched
                        /\ outcome' = BudgetRefusal(searched)
                   ELSE /\ pc' = "complete" /\ ledger' = read
                        /\ UNCHANGED outcome
              /\ returned' = returned \union (searched.searched \ ledger.searched)
           \/ /\ searches \/ searched.surfaced # {}
              /\ pc' = "deliver" /\ ledger' = Rewound(ledger, searched)
              /\ outcome' = BudgetRefusal(ledger')
              /\ UNCHANGED returned
        /\ tools' = 0
        /\ UNCHANGED <<corpus, fuller, asked, first, tries, posted, told, cut>>

\* One answer over the evidence gathered ships only if nothing is wrong with it.
Complete(out) ==
    LET verdict == Verify(out, ledger) IN
    /\ pc = "complete"
    /\ IF ~out.refused /\ ShipRank(GateFindings(out, verdict, ledger), verdict) = 0
         THEN Finish(Shape(out, verdict, ledger))
         ELSE Finish(BudgetRefusal(ledger))
    /\ UNCHANGED <<corpus, fuller, asked, ledger, tries, posted, told, ghosts>>

CompletionFails ==
    /\ pc = "complete"
    /\ Finish(BudgetRefusal(ledger))
    /\ UNCHANGED <<corpus, fuller, asked, ledger, tries, posted, told, ghosts>>

\* ask() raises: its outer time limit, the reader's own allowance, which the private
\* follow-up never spends, or anything else, a statement cancelled while the
\* verifier reads a page among it.
AskRaises(kind) ==
    /\ \/ kind = "error" /\ pc \in {"ask", "agent", "retry", "recover", "complete"}
       \/ kind = "timeout" /\ pc \in {"agent", "retry", "complete"}
       \/ kind = "throttled" /\ pc \in {"ask", "agent", "retry", "recover"} /\ ~fuller
    /\ Finish(Raised(kind))
    /\ UNCHANGED <<corpus, fuller, asked, ledger, tries, posted, told, ghosts>>

----------------------------------------------------------------------------
(* Delivery. *)

Attempts == 4   \* two edits of the placeholder, a post with blocks, a post of text

Message == [to |-> IF inDM \/ fuller THEN {asker} ELSE {channel, asker},
            claims |-> outcome.claims, pages |-> outcome.pages]

\* What follows the delivery: a channel question that ran goes to the comparison.
AfterDelivery ==
    IF ~inDM /\ outcome.kind \notin {"timeout", "throttled", "error"} THEN "compare" ELSE "done"

\* Slip: the last refusal of Slack is left unhandled, and the listener ends there.
DeliverOnce ==
    /\ pc = "deliver" /\ ~fuller
    /\ \/ posted' = Message /\ told' = "yes" /\ pc' = AfterDelivery
       \/ UNCHANGED <<posted, told>> /\ pc' = AfterDelivery
    /\ UNCHANGED <<corpus, fuller, asked, ledger, tools, first, outcome, tries, ghosts>>

Deliver ==
    /\ pc = "deliver" /\ ~fuller
    /\ \/ /\ posted' = Message /\ told' = "yes" /\ pc' = AfterDelivery
          /\ UNCHANGED tries
       \/ /\ tries + 1 < Attempts
          /\ tries' = tries + 1
          /\ UNCHANGED <<posted, told, pc>>
       \/ /\ tries + 1 = Attempts
          /\ told' = "lost" /\ pc' = AfterDelivery
          /\ UNCHANGED <<posted, tries>>
    /\ UNCHANGED <<corpus, fuller, asked, ledger, tools, first, outcome, ghosts>>

Wider == IF asker = Unrestricted THEN TRUE ELSE ~(asker \subseteq Narrow(channel, asker))

\* The two searches of the comparison: the asker's scope surfaces a page the channel's
\* did not, so the question is asked again for the asker alone.
Compare ==
    /\ pc = "compare"
    /\ \/ /\ Wider
          /\ VisiblePages(asker) \intersect Hits[Question]
                \notin SUBSET VisiblePages(Narrow(channel, asker))
          /\ pc' = "ask" /\ fuller' = TRUE
          /\ ledger' = EmptyLedger /\ outcome' = NoOutcome /\ tries' = 0
          /\ returned' = {} /\ cut' = {}
       \/ /\ pc' = "done"
          /\ UNCHANGED <<fuller, ledger, outcome, tries, ghosts>>
    /\ UNCHANGED <<corpus, asked, tools, first, posted, told>>

\* The fuller answer is sent once; a failure of any kind is only logged.
SendFuller ==
    /\ pc = "deliver" /\ fuller
    /\ pc' = "done"
    /\ \/ /\ outcome.kind \notin {"timeout", "error"}
          /\ posted' = Message
       \/ UNCHANGED posted
    /\ UNCHANGED <<corpus, fuller, asked, ledger, tools, first, outcome, tries, told, ghosts>>

----------------------------------------------------------------------------
Finished == pc = "done" /\ UNCHANGED vars

Listener ==
    \/ FirstSearch \/ RunDies \/ Recover \/ CompletionFails
    \/ Deliver \/ Compare \/ SendFuller

Agent ==
    \/ \E q \in Queries : ToolSearch(q) \/ ToolCut(q)
    \/ \E p \in Pages, part \in {"head", "tail"} : ToolRead(p, part)
    \/ \E out \in Draft : FirstDraft(out) \/ Redraft(out) \/ Complete(out)

Next ==
    \/ \E r \in Rows : Withdraw(r)
    \/ TurnAway \/ PostPlaceholder
    \/ Listener \/ Agent
    \/ \E kind \in {"timeout", "throttled", "error"} : AskRaises(kind)
    \/ Finished

Spec == Init /\ [][Next]_vars
\* The event loop keeps running the listener, and every wait has its deadline.
FairSpec == Spec /\ WF_vars(Listener)

----------------------------------------------------------------------------
TypeOK ==
    /\ corpus \subseteq Rows
    /\ pc \in {"idle", "ask", "agent", "retry", "recover", "complete", "deliver", "compare", "done"}
    /\ inDM \in BOOLEAN /\ fuller \in BOOLEAN
    /\ channel \in SUBSET Layers /\ asker \in Scope
    /\ ledger \in Ledger /\ tools \in 0..MaxTools
    /\ first \in [out: Draft, verdict: Verdict, rank: Nat]
    /\ outcome \in Outcome /\ tries \in 0..Attempts
    /\ posted \in [to: SUBSET Scope, claims: SUBSET Claims, pages: SUBSET Pages]
    /\ told \in {"no", "yes", "lost"}
    /\ returned \subseteq Queries /\ cut \subseteq Queries

\* What a scope could read when the question arrived.
ClaimsFor(scope) == {r.claim : r \in {s \in Rows : Reads(scope, s.layer)}}
PagesFor(scope) == {r.page : r \in {s \in Rows : Reads(scope, s.layer)}}

\* Nobody is told what his scope does not hold: an answer in a channel states only
\* claims, and a refusal names only pages, that the channel's readers and the asker
\* may all read, although the agent writes what it likes and the fuller answer is
\* computed at a wider scope (mention.py:175-185, service.py:443-470, acl.py:23-33).
NothingBeyondScope ==
    \A scope \in posted.to :
        posted.claims \subseteq ClaimsFor(scope) /\ posted.pages \subseteq PagesFor(scope)

\* No untraced figure leaves the brain: every figure of an answer that ships, inside
\* a quotation too, came back from a tool of this run, whichever draft won and
\* whatever a corrective or recovered run changed in the ledger (service.py:1-9).
NoUntracedFigure ==
    outcome.kind = "answer" => outcome.claims \subseteq ledger.evidence

\* A refusal reports only searches that came back in this run, whatever was undone
\* after a cancelled statement; the agent's own cancelled search is the exception,
\* its query noted before it is sent (brain.py:31-34, service.py:348-357, 366-385).
ReportsWhatCameBack == outcome.searched \subseteq returned \union cut

\* What an outcome says, its figures and the searches it reports, came back in this run.
OutcomeIsTraced ==
    /\ NoUntracedFigure
    /\ ReportsWhatCameBack

\* Who was shown the placeholder is told in the end, or every way Slack offers was
\* tried and refused: no failure of the run leaves the placeholder standing
\* (mention.py:52-86, 212-236).
AskerIsTold == (pc = "ask") ~> (told # "no")

============================================================================
