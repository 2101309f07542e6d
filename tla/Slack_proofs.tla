---------------------------- MODULE Slack_proofs ----------------------------
(***************************************************************************)
(* Theorems about what Slack is given: about ChannelAnswers, that nobody   *)
(* is told what his scope does not hold, and what an outcome says came     *)
(* back in this run; about SlackSubmissions, that a thread one reacted in  *)
(* is answered.                                                            *)
(*                                                                         *)
(* None is inductive alone.  What is posted is the outcome, an outcome is  *)
(* shaped from a draft and the ledger, and the verdict of a first draft is *)
(* used again after a corrective run has added to the ledger: so one must  *)
(* know that the ledger holds nothing beyond the scope the answer is       *)
(* computed at, that it forgets no evidence while an answer is sought, and *)
(* that the kept verdict names every figure of its draft that is untraced. *)
(*                                                                         *)
(* A delivery that meets another row of its thread ends without a word: so *)
(* one must know that a row is of the thread it names, that a reservation  *)
(* is of a delivery at work while nothing stopped, failed unheard or       *)
(* stalled, and that a submission has the thread's item.  That the item    *)
(* has one row needs that deliveries of a thread look one at a time and    *)
(* that who is about to commit is alone with its reservation.              *)
(***************************************************************************)
EXTENDS ChannelAnswers, SlackSubmissions, FiniteSetTheorems, TLAPS

\* The ledger holds evidence the scope of the answer may read.
LedgerInScope == ledger.evidence \subseteq ClaimsFor(Effective)

\* Every query in the ledger came back, or was cut by the database.
LedgerIsOfThisRun == ledger.searched \subseteq returned \union cut

\* What the kept verdict of a first draft does not name is traced.
FirstVerdictHolds ==
    pc = "retry" => first.out.figures \ ledger.evidence \subseteq first.verdict.figures

\* A result that states evidence of a ledger, names pages of the scope and reports
\* searches of the run.
Backed(result, led, queries) ==
    /\ result.claims \subseteq led.evidence
    /\ result.pages \subseteq PagesFor(Effective)
    /\ result.searched \subseteq queries

AnswerInv ==
    /\ TypeOK
    /\ LedgerInScope
    /\ LedgerIsOfThisRun
    /\ FirstVerdictHolds
    /\ Backed(outcome, ledger, returned \union cut)
    /\ NothingBeyondScope

-----------------------------------------------------------------------------
(* What the operators of the model keep. *)

\* What a scope reads of the rows left was there for it when the question came.
LEMMA ReadableIsOfTheScope ==
    ASSUME TypeOK, NEW scope
    PROVE  /\ ReadableRows(scope) \subseteq Rows
           /\ \A r \in ReadableRows(scope) : /\ r.claim \in ClaimsFor(scope)
                                             /\ r.page \in PagesFor(scope)
           /\ VisiblePages(scope) \subseteq PagesFor(scope)
           /\ VisiblePages(scope) \subseteq Pages
  BY RowsAssumption DEF TypeOK, ReadableRows, VisiblePages, ClaimsFor, PagesFor, Row

\* A scope reads nothing that its narrowing to a channel hides from the channel or
\* from the asker.
LEMMA NarrowReadsForBoth ==
    ASSUME NEW wide \in SUBSET Layers, NEW scope \in Scope, NEW layer \in Layers,
           Reads(Narrow(wide, scope), layer)
    PROVE  Reads(wide, layer) /\ Reads(scope, layer)
<1>1. CASE scope = Unrestricted
  BY <1>1 DEF Reads, Narrow
<1>2. CASE scope # Unrestricted
  <2>1. Narrow(wide, scope) = wide \intersect scope
    BY <1>2 DEF Narrow
  <2>2. wide \intersect scope \in SUBSET Layers
    OBVIOUS
  <2>3. wide \intersect scope # Unrestricted
    BY <2>2, ScopesAssumption
  <2> QED
    BY <2>1, <2>3 DEF Reads
<1> QED
  BY <1>1, <1>2

\* Whoever receives the message could read all that the answer was computed from.
LEMMA RecipientsReadTheScope ==
    ASSUME TypeOK, NEW scope \in Message.to
    PROVE  /\ ClaimsFor(Effective) \subseteq ClaimsFor(scope)
           /\ PagesFor(Effective) \subseteq PagesFor(scope)
<1>1. ASSUME NEW r \in Rows, Reads(Effective, r.layer)
      PROVE  Reads(scope, r.layer)
  <2>1. r.layer \in Layers
    BY RowsAssumption DEF Row
  <2>2. CASE inDM \/ fuller
    BY <1>1, <2>2 DEF Message, Effective
  <2>3. CASE ~(inDM \/ fuller)
    <3>1. Effective = Narrow(channel, asker) /\ scope \in {channel, asker}
      BY <2>3 DEF Message, Effective
    <3>2. channel \in SUBSET Layers /\ asker \in Scope
      BY DEF TypeOK
    <3>3. Reads(channel, r.layer) /\ Reads(asker, r.layer)
      BY <1>1, <2>1, <3>1, <3>2, NarrowReadsForBoth
    <3> QED
      BY <3>1, <3>3
  <2> QED
    BY <2>2, <2>3
<1> QED
  BY <1>1 DEF ClaimsFor, PagesFor

\* A search adds its query and what the rows that came back show.
LEMMA SearchAdds ==
    ASSUME NEW led \in Ledger, NEW q \in Queries, NEW rows \in SUBSET Rows
    PROVE  /\ WithSearch(led, q, rows) \in Ledger
           /\ WithSearch(led, q, rows).evidence
                = led.evidence \union {r.claim : r \in rows \intersect Snippets}
           /\ WithSearch(led, q, rows).searched = led.searched \union {q}
           /\ WithSearch(led, q, rows).surfaced = led.surfaced \union {r.page : r \in rows}
<1> DEFINE named == [led EXCEPT !.searched = @ \union {q}]
           seen == [named EXCEPT !.surfaced = @ \union {r.page : r \in rows}]
           found == {r.claim : r \in rows \intersect Snippets}
<1>1. /\ named \in Ledger
      /\ named.searched = led.searched \union {q}
      /\ named.surfaced = led.surfaced /\ named.evidence = led.evidence
  BY DEF Ledger
<1>2. {r.page : r \in rows} \in SUBSET Pages /\ found \in SUBSET Claims
  BY RowsAssumption DEF Row
<1>3. /\ seen \in Ledger
      /\ seen.searched = led.searched \union {q}
      /\ seen.surfaced = led.surfaced \union {r.page : r \in rows}
      /\ seen.evidence = led.evidence
  <2> HIDE DEF named
  <2> QED
    BY <1>1, <1>2 DEF Ledger
<1>4. WithSearch(led, q, rows) = [seen EXCEPT !.evidence = @ \union found]
  BY DEF WithSearch
<1>5. /\ WithSearch(led, q, rows) \in Ledger
      /\ WithSearch(led, q, rows).searched = led.searched \union {q}
      /\ WithSearch(led, q, rows).surfaced = led.surfaced \union {r.page : r \in rows}
      /\ WithSearch(led, q, rows).evidence = led.evidence \union found
  <2> HIDE DEF seen, found
  <2> QED
    BY <1>2, <1>3, <1>4 DEF Ledger
<1> QED
  BY <1>5

\* A search at a scope adds evidence of that scope.
LEMMA SearchStaysInScope ==
    ASSUME TypeOK, LedgerInScope, NEW q \in Queries
    PROVE  /\ WithSearch(ledger, q, Found(q)) \in Ledger
           /\ ledger.evidence \subseteq WithSearch(ledger, q, Found(q)).evidence
           /\ WithSearch(ledger, q, Found(q)).evidence \subseteq ClaimsFor(Effective)
           /\ WithSearch(ledger, q, Found(q)).searched = ledger.searched \union {q}
<1>1. Found(q) \in SUBSET Rows /\ Found(q) \subseteq ReadableRows(Effective)
  BY ReadableIsOfTheScope DEF Found
<1>2. \A r \in Found(q) : r.claim \in ClaimsFor(Effective)
  BY <1>1, ReadableIsOfTheScope
<1>3. ledger \in Ledger
  BY DEF TypeOK
<1> QED
  BY <1>1, <1>2, <1>3, SearchAdds DEF LedgerInScope

\* A page that is read adds evidence of the scope, and no query.
LEMMA ReadStaysInScope ==
    ASSUME TypeOK, LedgerInScope, NEW p \in Pages, NEW part \in {"head", "tail"}
    PROVE  /\ WithRead(ledger, p, part) \in Ledger
           /\ ledger.evidence \subseteq WithRead(ledger, p, part).evidence
           /\ WithRead(ledger, p, part).evidence \subseteq ClaimsFor(Effective)
           /\ WithRead(ledger, p, part).searched = ledger.searched
<1>1. ledger \in Ledger
  BY DEF TypeOK
<1>2. CASE p \notin VisiblePages(Effective)
  BY <1>1, <1>2 DEF WithRead, LedgerInScope
<1>3. CASE p \in VisiblePages(Effective)
  <2> DEFINE more == {r.claim : r \in
                {s \in ReadableRows(Effective) : s.page = p /\ s.part = part}}
  <2>1. more \subseteq ClaimsFor(Effective) /\ more \subseteq Claims
    BY ReadableIsOfTheScope, RowsAssumption DEF Row
  <2> DEFINE seen == [ledger EXCEPT !.surfaced = @ \union {p}]
             opened == [seen EXCEPT !.windows = IF part = "tail" THEN @ \union {p} ELSE @]
  <2>2. /\ seen \in Ledger /\ seen.evidence = ledger.evidence
        /\ seen.searched = ledger.searched
    BY <1>1 DEF Ledger
  <2>3. /\ opened \in Ledger /\ opened.evidence = ledger.evidence
        /\ opened.searched = ledger.searched
    <3> HIDE DEF seen
    <3> QED
      BY <2>2 DEF Ledger
  <2>4. WithRead(ledger, p, part) = [opened EXCEPT !.evidence = @ \union more]
    BY <1>3 DEF WithRead
  <2> HIDE DEF more, opened
  <2> QED
    BY <1>1, <2>1, <2>3, <2>4 DEF Ledger, LedgerInScope
<1> QED
  BY <1>2, <1>3

\* A refusal has the fields of a draft.
LEMMA DraftFields ==
    ASSUME NEW out \in Draft
    PROVE  out.figures \in SUBSET Claims /\ out.cites \in SUBSET (Pages \X Claims)
<1>1. CASE out = Refusal
  BY <1>1 DEF Refusal
<1>2. CASE out \in [refused: {FALSE}, figures: SUBSET Claims, cites: SUBSET (Pages \X Claims)]
  BY <1>2
<1> QED
  BY <1>1, <1>2 DEF Draft

\* The verdict on a draft names every figure of it that the ledger does not hold.
LEMMA VerdictNamesUntraced ==
    ASSUME NEW out \in Draft, NEW led \in Ledger
    PROVE  /\ Verify(out, led) \in Verdict
           /\ ~out.refused => out.figures \ led.evidence \subseteq Verify(out, led).figures
<1>1. out.figures \in SUBSET Claims /\ out.cites \in SUBSET (Pages \X Claims)
  BY DraftFields
<1>2. IsFiniteSet(out.cites)
  BY <1>1, RowsAssumption, FS_Product, FS_Subset
<1>3. Cardinality({c \in out.cites : ~CitationHolds(led, c)}) \in Nat
  BY <1>2, FS_Subset, FS_CardinalityType
<1> QED
  BY <1>1, <1>3 DEF Verify, Verdict

\* Only a draft at whose gate nothing is found ships.
LEMMA ShapeIsBacked ==
    ASSUME TypeOK, NEW out \in Draft, NEW verdict \in Verdict, NEW led \in Ledger,
           ~out.refused => out.figures \ led.evidence \subseteq verdict.figures
    PROVE  /\ Shape(out, verdict, led) \in Outcome
           /\ Backed(Shape(out, verdict, led), led, led.searched)
<1>1. out.figures \in SUBSET Claims /\ out.cites \in SUBSET (Pages \X Claims)
  BY DraftFields
<1>2. Quotes(out) \in SUBSET Claims /\ {c[1] : c \in out.cites} \in SUBSET Pages
  BY <1>1 DEF Quotes
<1>3. \A pages \in SUBSET Pages : /\ Named(pages) \in SUBSET Pages
                                  /\ Named(pages) \subseteq PagesFor(Effective)
  BY ReadableIsOfTheScope DEF Named
<1>4. led.surfaced \in SUBSET Pages /\ led.searched \in SUBSET Queries
  BY DEF Ledger
<1>5. CASE out.refused
  BY <1>3, <1>4, <1>5 DEF Shape, Outcome, Kinds, Backed
<1>6. CASE ~out.refused /\ ShipRank(GateFindings(out, verdict, led), verdict) = 2
  BY <1>2, <1>3, <1>4, <1>6 DEF Shape, Outcome, Kinds, Backed
<1>7. CASE ~out.refused /\ ShipRank(GateFindings(out, verdict, led), verdict) # 2
  <2>1. GateFindings(out, verdict, led) = {}
    BY <1>7 DEF ShipRank
  <2>2. out.figures \union Quotes(out) \subseteq led.evidence
    BY <1>7, <2>1 DEF GateFindings
  <2> QED
    BY <1>1, <1>2, <1>4, <1>7, <2>2 DEF Shape, Outcome, Kinds, Backed
<1> QED
  BY <1>5, <1>6, <1>7

\* A refusal of the budget states nothing and names pages of the scope.
LEMMA BudgetRefusalIsBacked ==
    ASSUME TypeOK, NEW led \in Ledger
    PROVE  /\ BudgetRefusal(led) \in Outcome
           /\ Backed(BudgetRefusal(led), led, led.searched)
<1>1. led.surfaced \in SUBSET Pages /\ led.searched \in SUBSET Queries
  BY DEF Ledger
<1>2. /\ Named(led.surfaced) \in SUBSET Pages
      /\ Named(led.surfaced) \subseteq PagesFor(Effective)
  BY <1>1, ReadableIsOfTheScope DEF Named
<1> QED
  BY <1>1, <1>2 DEF BudgetRefusal, Outcome, Kinds, Backed

-----------------------------------------------------------------------------
(* The steps. *)

\* A result that is shaped or refused before the run ends is backed after it.
LEMMA SameScope ==
    ASSUME UNCHANGED <<fuller, asked>>
    PROVE  Effective' = Effective
  BY DEF Effective, asked

\* A step of the run that changes no outcome, adds to the ledger evidence of the scope
\* and queries that came back or were cut, and starts no corrective run, keeps what is
\* known of the answer.
LEMMA RunGoesOn ==
    ASSUME AnswerInv, TypeOK',
           UNCHANGED <<fuller, asked, first, outcome, posted>>,
           pc' = "retry" => pc = "retry",
           ledger.evidence \subseteq ledger'.evidence,
           ledger'.evidence \subseteq ClaimsFor(Effective),
           ledger'.searched \subseteq (returned \union cut)',
           returned \union cut \subseteq (returned \union cut)'
    PROVE  AnswerInv'
<1>1. Effective' = Effective
  BY SameScope
<1>2. FirstVerdictHolds'
  BY DEF AnswerInv, FirstVerdictHolds
<1>3. Backed(outcome, ledger, returned \union cut)'
  BY <1>1 DEF AnswerInv, Backed, PagesFor
<1>4. LedgerInScope' /\ LedgerIsOfThisRun'
  BY <1>1 DEF LedgerInScope, LedgerIsOfThisRun, ClaimsFor
<1>5. NothingBeyondScope'
  BY DEF AnswerInv, NothingBeyondScope, ClaimsFor, PagesFor
<1> QED
  BY <1>2, <1>3, <1>4, <1>5 DEF AnswerInv

\* So does a step that ends the run with a result the ledger backs.
LEMMA RunEnds ==
    ASSUME AnswerInv, TypeOK', NEW result,
           outcome' = result, pc' = "deliver",
           UNCHANGED <<fuller, asked, posted>>,
           ledger.evidence \subseteq ledger'.evidence,
           ledger'.evidence \subseteq ClaimsFor(Effective),
           ledger'.searched \subseteq (returned \union cut)',
           Backed(result, ledger', (returned \union cut)')
    PROVE  AnswerInv'
<1>1. Effective' = Effective
  BY SameScope
<1>2. FirstVerdictHolds'
  BY DEF FirstVerdictHolds
<1>3. Backed(outcome, ledger, returned \union cut)'
  BY <1>1 DEF Backed, PagesFor
<1>4. LedgerInScope' /\ LedgerIsOfThisRun'
  BY <1>1 DEF LedgerInScope, LedgerIsOfThisRun, ClaimsFor
<1>5. NothingBeyondScope'
  BY DEF AnswerInv, NothingBeyondScope, ClaimsFor, PagesFor
<1> QED
  BY <1>2, <1>3, <1>4, <1>5 DEF AnswerInv

\* What is delivered is in the scope of all who see it.
LEMMA MessageIsInScope ==
    ASSUME AnswerInv, posted' = Message
    PROVE  NothingBeyondScope'
<1>1. /\ Message.claims = outcome.claims /\ Message.pages = outcome.pages
  BY DEF Message
<1>2. /\ outcome.claims \subseteq ClaimsFor(Effective)
      /\ outcome.pages \subseteq PagesFor(Effective)
  BY DEF AnswerInv, Backed, LedgerInScope
<1>3. \A scope \in Message.to : /\ Message.claims \subseteq ClaimsFor(scope)
                                /\ Message.pages \subseteq PagesFor(scope)
  BY <1>1, <1>2, RecipientsReadTheScope DEF AnswerInv
<1> QED
  BY <1>3 DEF NothingBeyondScope, ClaimsFor, PagesFor

\* The initial state.
LEMMA AnswerInit == Init => AnswerInv
<1> SUFFICES ASSUME Init PROVE AnswerInv
  OBVIOUS
<1>1. NoDraft \in [out : Draft, verdict : Verdict, rank : Nat]
  BY DEF NoDraft, Draft, Verdict
<1>2. EmptyLedger \in Ledger /\ NoOutcome \in Outcome
  BY DEF EmptyLedger, Ledger, NoOutcome, Outcome, Kinds
<1>3. TypeOK
  <2>1. channel \in SUBSET Layers /\ asker \in Scope
    BY ScopesAssumption DEF Init
  <2>2. posted \in [to : SUBSET Scope, claims : SUBSET Claims, pages : SUBSET Pages]
    BY DEF Init, NoMessage
  <2>3. tools \in 0..MaxTools /\ tries \in 0..Attempts
    BY BoundsAssumption DEF Init, Attempts
  <2> QED
    BY <1>1, <1>2, <2>1, <2>2, <2>3 DEF Init, TypeOK
<1>4. LedgerInScope /\ LedgerIsOfThisRun /\ FirstVerdictHolds
  BY DEF Init, LedgerInScope, LedgerIsOfThisRun, FirstVerdictHolds, EmptyLedger
<1>5. Backed(outcome, ledger, returned \union cut)
  BY DEF Init, Backed, NoOutcome
<1>6. NothingBeyondScope
  BY DEF Init, NothingBeyondScope, NoMessage
<1> QED
  BY <1>3, <1>4, <1>5, <1>6 DEF AnswerInv

\* What ends a run: its types, and the first draft is dropped.
LEMMA FinishTypes ==
    ASSUME NEW result \in Outcome, Finish(result)
    PROVE  /\ pc' = "deliver" /\ outcome' = result
           /\ outcome' \in Outcome
           /\ first' \in [out : Draft, verdict : Verdict, rank : Nat]
           /\ tools' \in 0..MaxTools
  BY BoundsAssumption DEF Finish, NoDraft, Draft, Verdict

\* A result of a raised error says nothing.
LEMMA RaisedIsBacked ==
    ASSUME NEW kind \in {"timeout", "throttled", "error"}, NEW led, NEW queries
    PROVE  Raised(kind) \in Outcome /\ Backed(Raised(kind), led, queries)
  BY DEF Raised, NoOutcome, Outcome, Kinds, Backed

\* What the agent and its tools do.
LEMMA AgentKeeps ==
    ASSUME AnswerInv,
           \/ FirstSearch
           \/ \E q \in Queries : ToolSearch(q)
           \/ \E p \in Pages, part \in {"head", "tail"} : ToolRead(p, part)
    PROVE  AnswerInv'
<1>0. /\ TypeOK /\ LedgerInScope /\ ledger \in Ledger
      /\ ledger.evidence \subseteq ClaimsFor(Effective)
      /\ ledger.searched \subseteq returned \union cut
  BY DEF AnswerInv, TypeOK, LedgerInScope, LedgerIsOfThisRun
<1>1. ASSUME NEW q \in Queries, ToolSearch(q)
      PROVE  AnswerInv'
  <2>1. ledger' = WithSearch(ledger, q, Found(q)) /\ returned' = returned \union {q}
    BY <1>1 DEF ToolSearch
  <2>2. TypeOK'
    BY <1>0, <1>1, <2>1, SearchStaysInScope, BoundsAssumption
       DEF TypeOK, ToolSearch, asked
  <2> QED
    BY <1>0, <1>1, <2>1, <2>2, SearchStaysInScope, RunGoesOn DEF ToolSearch
<1>2. ASSUME NEW p \in Pages, NEW part \in {"head", "tail"}, ToolRead(p, part)
      PROVE  AnswerInv'
  <2>1. ledger' = WithRead(ledger, p, part)
    BY <1>2 DEF ToolRead
  <2>2. TypeOK'
    BY <1>0, <1>2, <2>1, ReadStaysInScope, BoundsAssumption DEF TypeOK, ToolRead, asked, ghosts
  <2> QED
    BY <1>0, <1>2, <2>1, <2>2, ReadStaysInScope, RunGoesOn DEF ToolRead, ghosts
<1>3. CASE FirstSearch
  <2>1. Question \in Queries
    BY QueriesAssumption
  <2>2. CASE /\ ledger' = WithSearch(ledger, Question, Found(Question))
             /\ returned' = returned \union {Question}
    <3>1. TypeOK'
      BY <1>0, <1>3, <2>1, <2>2, SearchStaysInScope DEF TypeOK, FirstSearch, asked
    <3> QED
      BY <1>0, <1>3, <2>1, <2>2, <3>1, SearchStaysInScope, RunGoesOn DEF FirstSearch
  <2>3. CASE ledger' = ledger /\ returned' = returned
    <3>1. TypeOK'
      BY <1>0, <1>3, <2>3 DEF TypeOK, FirstSearch, asked
    <3> QED
      BY <1>0, <1>3, <2>3, <3>1, RunGoesOn DEF FirstSearch
  <2> QED
    BY <1>3, <2>2, <2>3 DEF FirstSearch, Rewound
<1> QED
  BY <1>1, <1>2, <1>3

\* How a run ends without a draft: it dies, its search is cut, or it raises.
LEMMA DeathKeeps ==
    ASSUME AnswerInv,
           \/ RunDies
           \/ \E q \in Queries : ToolCut(q)
           \/ \E kind \in {"timeout", "throttled", "error"} : AskRaises(kind)
           \/ CompletionFails
    PROVE  AnswerInv'
<1>0. /\ TypeOK /\ LedgerInScope /\ ledger \in Ledger
      /\ ledger.evidence \subseteq ClaimsFor(Effective)
      /\ ledger.searched \subseteq returned \union cut
  BY DEF AnswerInv, TypeOK, LedgerInScope, LedgerIsOfThisRun
\* The first draft, shaped from the ledger as the corrective run left it.
<1>1. ASSUME NEW led \in Ledger, Dies(led), ledger' = led,
             led.evidence = ledger.evidence,
             led.searched \subseteq (returned \union cut)',
             returned \union cut \subseteq (returned \union cut)',
             returned' \subseteq Queries, cut' \subseteq Queries,
             UNCHANGED <<corpus, fuller, asked, tries, posted, told>>
      PROVE  AnswerInv'
  <2>1. CASE pc = "agent" /\ pc' = "recover" /\ UNCHANGED <<first, outcome, tools>>
    <3>1. TypeOK'
      BY <1>0, <1>1, <2>1 DEF TypeOK, asked
    <3> QED
      BY <1>0, <1>1, <2>1, <3>1, RunGoesOn
  <2>2. CASE pc = "retry" /\ Finish(Shape(first.out, first.verdict, led))
    <3> DEFINE result == Shape(first.out, first.verdict, led)
    <3>1. first.out \in Draft /\ first.verdict \in Verdict
      BY <1>0 DEF TypeOK
    <3>2. first.out.figures \ led.evidence \subseteq first.verdict.figures
      BY <1>1, <2>2 DEF AnswerInv, FirstVerdictHolds
    <3>3. result \in Outcome /\ Backed(result, led, led.searched)
      BY <1>0, <3>1, <3>2, ShapeIsBacked
    <3>4. Backed(result, led, (returned \union cut)')
      BY <1>1, <3>3 DEF Backed
    <3>5. /\ pc' = "deliver" /\ outcome' = result /\ outcome' \in Outcome
          /\ first' \in [out : Draft, verdict : Verdict, rank : Nat]
          /\ tools' \in 0..MaxTools
      BY <2>2, <3>3, FinishTypes
    <3> HIDE DEF result
    <3>6. TypeOK'
      BY <1>0, <1>1, <3>5 DEF TypeOK, asked
    <3> QED
      BY <1>0, <1>1, <3>4, <3>5, <3>6, RunEnds
  <2> QED
    BY <1>1, <2>1, <2>2 DEF Dies
<1>2. CASE RunDies
  <2>1. returned' \subseteq Queries /\ cut' \subseteq Queries
    BY <1>0, <1>2 DEF RunDies, ghosts, TypeOK
  <2> QED
    BY <1>0, <1>1, <1>2, <2>1 DEF RunDies, ghosts
<1>3. ASSUME NEW q \in Queries, ToolCut(q)
      PROVE  AnswerInv'
  <2>1. /\ ledger' \in Ledger /\ ledger'.evidence = ledger.evidence
        /\ ledger'.searched = ledger.searched \union {q}
    BY <1>0, <1>3 DEF ToolCut, Ledger
  <2>2. cut' = cut \union {q} /\ returned' = returned
    BY <1>3 DEF ToolCut
  <2>3. Dies(ledger')
    BY <1>3 DEF ToolCut
  <2>4. returned' \subseteq Queries /\ cut' \subseteq Queries
    BY <1>0, <2>2 DEF TypeOK
  <2>5. UNCHANGED <<corpus, fuller, asked, tries, posted, told>>
    BY <1>3 DEF ToolCut
  <2> DEFINE led == ledger'
  <2>6. /\ led \in Ledger /\ Dies(led) /\ ledger' = led /\ led.evidence = ledger.evidence
        /\ led.searched \subseteq (returned \union cut)'
        /\ returned \union cut \subseteq (returned \union cut)'
    BY <1>0, <2>1, <2>2, <2>3
  <2> HIDE DEF led
  <2> QED
    BY <1>1, <2>4, <2>5, <2>6
<1>4. ASSUME NEW result \in Outcome, Finish(result),
             Backed(result, ledger, returned \union cut),
             UNCHANGED <<corpus, fuller, asked, ledger, tries, posted, told, ghosts>>
      PROVE  AnswerInv'
  <2>1. /\ pc' = "deliver" /\ outcome' = result /\ outcome' \in Outcome
        /\ first' \in [out : Draft, verdict : Verdict, rank : Nat]
        /\ tools' \in 0..MaxTools
    BY <1>4, FinishTypes
  <2>2. TypeOK'
    BY <1>0, <1>4, <2>1 DEF TypeOK, asked, ghosts
  <2>3. /\ ledger' = ledger /\ (returned \union cut)' = returned \union cut
        /\ UNCHANGED <<fuller, asked, posted>>
    BY <1>4 DEF ghosts
  <2>4. Backed(result, ledger', (returned \union cut)')
    BY <1>4, <2>3 DEF Backed
  <2> QED
    BY <1>0, <2>1, <2>2, <2>3, <2>4, RunEnds
<1>5. ASSUME NEW kind \in {"timeout", "throttled", "error"}, AskRaises(kind)
      PROVE  AnswerInv'
  BY <1>4, <1>5, RaisedIsBacked DEF AskRaises
<1>6. CASE CompletionFails
  <2>1. BudgetRefusal(ledger) \in Outcome /\ Backed(BudgetRefusal(ledger), ledger, ledger.searched)
    BY <1>0, BudgetRefusalIsBacked
  <2>2. Backed(BudgetRefusal(ledger), ledger, returned \union cut)
    BY <1>0, <2>1 DEF Backed
  <2> QED
    BY <1>4, <1>6, <2>1, <2>2 DEF CompletionFails
<1> QED
  BY <1>2, <1>3, <1>5, <1>6

\* A run that ends with a result the ledger backs, and nothing else.
LEMMA FinishKeeps ==
    ASSUME AnswerInv, NEW result \in Outcome, Finish(result),
           Backed(result, ledger, ledger.searched),
           UNCHANGED <<corpus, fuller, asked, ledger, tries, posted, told, ghosts>>
    PROVE  AnswerInv'
<1>1. /\ pc' = "deliver" /\ outcome' = result /\ outcome' \in Outcome
      /\ first' \in [out : Draft, verdict : Verdict, rank : Nat]
      /\ tools' \in 0..MaxTools
  BY FinishTypes
<1>2. TypeOK'
  BY <1>1 DEF AnswerInv, TypeOK, asked, ghosts
<1>3. /\ ledger' = ledger /\ (returned \union cut)' = returned \union cut
      /\ UNCHANGED <<fuller, asked, posted>>
  BY DEF ghosts
<1>4. /\ ledger.evidence \subseteq ClaimsFor(Effective)
      /\ ledger.searched \subseteq returned \union cut
  BY DEF AnswerInv, LedgerInScope, LedgerIsOfThisRun
<1>5. Backed(result, ledger', (returned \union cut)')
  BY <1>3, <1>4 DEF Backed
<1> QED
  BY <1>1, <1>2, <1>3, <1>4, <1>5, RunEnds

\* The drafts of the agent, whichever wins.
LEMMA DraftKeeps ==
    ASSUME AnswerInv, NEW out \in Draft, FirstDraft(out) \/ Redraft(out) \/ Complete(out)
    PROVE  AnswerInv'
<1> DEFINE verdict == Verify(out, ledger)
<1>0. TypeOK /\ ledger \in Ledger
  BY DEF AnswerInv, TypeOK
<1>1. verdict \in Verdict /\ (~out.refused => out.figures \ ledger.evidence \subseteq verdict.figures)
  BY <1>0, VerdictNamesUntraced
<1>2. /\ Shape(out, verdict, ledger) \in Outcome
      /\ Backed(Shape(out, verdict, ledger), ledger, ledger.searched)
  BY <1>0, <1>1, ShapeIsBacked
<1>3. CASE FirstDraft(out)
  <2> DEFINE rank == ShipRank(GateFindings(out, verdict, ledger), verdict)
  <2>0. UNCHANGED <<corpus, fuller, asked, ledger, tries, posted, told, ghosts>>
    BY <1>3 DEF FirstDraft
  <2>1. CASE ~out.refused /\ rank = 2
    <3>1. /\ pc' = "retry" /\ first' = [out |-> out, verdict |-> verdict, rank |-> rank]
          /\ tools' = 0 /\ outcome' = outcome
      BY <1>3, <2>1 DEF FirstDraft
    <3>2. first' \in [out : Draft, verdict : Verdict, rank : Nat]
      <4> HIDE DEF verdict
      <4> QED
        BY <1>1, <2>1, <3>1
    <3>3. TypeOK'
      BY <1>0, <2>0, <3>1, <3>2, BoundsAssumption DEF TypeOK, asked, ghosts
    <3>4. FirstVerdictHolds'
      <4> HIDE DEF verdict, rank
      <4> QED
        BY <1>1, <2>0, <2>1, <3>1 DEF FirstVerdictHolds
    <3>5. Effective' = Effective
      BY <2>0, SameScope
    <3>6. Backed(outcome, ledger, returned \union cut)'
      BY <2>0, <3>1, <3>5 DEF AnswerInv, Backed, PagesFor, ghosts
    <3>7. LedgerInScope' /\ LedgerIsOfThisRun'
      BY <2>0, <3>5 DEF AnswerInv, LedgerInScope, LedgerIsOfThisRun, ClaimsFor, ghosts
    <3>8. NothingBeyondScope'
      BY <2>0 DEF AnswerInv, NothingBeyondScope, ClaimsFor, PagesFor
    <3> QED
      BY <3>3, <3>4, <3>6, <3>7, <3>8 DEF AnswerInv
  <2>2. CASE ~(~out.refused /\ rank = 2)
    <3>1. Finish(Shape(out, verdict, ledger))
      BY <1>3, <2>2 DEF FirstDraft
    <3> QED
      BY <1>2, <2>0, <3>1, FinishKeeps
  <2> QED
    BY <2>1, <2>2
<1>4. CASE Redraft(out)
  <2>0. /\ UNCHANGED <<corpus, fuller, asked, ledger, tries, posted, told, ghosts>>
        /\ pc = "retry"
    BY <1>4 DEF Redraft
  <2>1. CASE Finish(Shape(out, verdict, ledger))
    BY <1>2, <2>0, <2>1, FinishKeeps
  <2>2. CASE Finish(Shape(first.out, first.verdict, ledger))
    <3>1. first.out \in Draft /\ first.verdict \in Verdict
      BY <1>0 DEF TypeOK
    <3>2. first.out.figures \ ledger.evidence \subseteq first.verdict.figures
      BY <2>0 DEF AnswerInv, FirstVerdictHolds
    <3>3. /\ Shape(first.out, first.verdict, ledger) \in Outcome
          /\ Backed(Shape(first.out, first.verdict, ledger), ledger, ledger.searched)
      BY <1>0, <3>1, <3>2, ShapeIsBacked
    <3> QED
      BY <2>0, <2>2, <3>3, FinishKeeps
  <2> QED
    BY <1>4, <2>1, <2>2 DEF Redraft
<1>5. CASE Complete(out)
  <2>0. UNCHANGED <<corpus, fuller, asked, ledger, tries, posted, told, ghosts>>
    BY <1>5 DEF Complete
  <2>1. CASE Finish(Shape(out, verdict, ledger))
    BY <1>2, <2>0, <2>1, FinishKeeps
  <2>2. CASE Finish(BudgetRefusal(ledger))
    BY <1>0, <2>0, <2>2, BudgetRefusalIsBacked, FinishKeeps
  <2> QED
    BY <1>5, <2>1, <2>2 DEF Complete
<1> QED
  BY <1>3, <1>4, <1>5

\* The recovery of a dead run: what it gathers is of the scope, and what it undoes
\* leaves the ledger as it was.
LEMMA RecoveryKeeps ==
    ASSUME AnswerInv, Recover
    PROVE  AnswerInv'
<1> DEFINE searches == ledger.surfaced = {} /\ Question \notin ledger.searched
           searched == IF searches THEN WithSearch(ledger, Question, Found(Question)) ELSE ledger
           heads == {r.claim : r \in {s \in ReadableRows(Effective) :
                                        s.page \in searched.surfaced /\ s.part = "head"}}
           read == [searched EXCEPT !.evidence = @ \union heads]
<1>0. /\ TypeOK /\ LedgerInScope /\ ledger \in Ledger /\ outcome \in Outcome
      /\ ledger.evidence \subseteq ClaimsFor(Effective)
      /\ ledger.searched \subseteq returned \union cut
  BY DEF AnswerInv, TypeOK, LedgerInScope, LedgerIsOfThisRun
<1>1. /\ searched \in Ledger
      /\ ledger.evidence \subseteq searched.evidence
      /\ searched.evidence \subseteq ClaimsFor(Effective)
      /\ searched.searched \in SUBSET Queries
  <2>1. Question \in Queries
    BY QueriesAssumption
  <2>2. /\ searched \in Ledger
        /\ ledger.evidence \subseteq searched.evidence
        /\ searched.evidence \subseteq ClaimsFor(Effective)
    BY <1>0, <2>1, SearchStaysInScope
  <2> HIDE DEF searched
  <2> QED
    BY <2>2 DEF Ledger
<1>2. heads \subseteq ClaimsFor(Effective) /\ heads \subseteq Claims
  BY <1>0, ReadableIsOfTheScope, RowsAssumption DEF Row
<1> HIDE DEF searched, heads
<1>3. /\ read \in Ledger
      /\ ledger.evidence \subseteq read.evidence
      /\ read.evidence \subseteq ClaimsFor(Effective)
      /\ read.searched = searched.searched
  BY <1>1, <1>2 DEF Ledger
<1> HIDE DEF read
<1>4. UNCHANGED <<corpus, fuller, asked, first, tries, posted, told, cut>> /\ tools' = 0
      /\ pc = "recover"
  BY DEF Recover
<1>5. ASSUME NEW led \in Ledger, ledger' = led, pc' \in {"deliver", "complete"},
             outcome' \in Outcome, returned' \subseteq Queries
      PROVE  TypeOK'
  BY <1>0, <1>4, <1>5, BoundsAssumption DEF TypeOK, asked
<1>6. CASE /\ searched.surfaced = {}
           /\ pc' = "deliver" /\ ledger' = searched /\ outcome' = BudgetRefusal(searched)
           /\ returned' = returned \union (searched.searched \ ledger.searched)
  <2>1. /\ BudgetRefusal(searched) \in Outcome
        /\ Backed(BudgetRefusal(searched), searched, searched.searched)
    BY <1>0, <1>1, BudgetRefusalIsBacked
  <2>2. returned' \subseteq Queries /\ searched.searched \subseteq (returned \union cut)'
    BY <1>0, <1>1, <1>4, <1>6 DEF TypeOK
  <2>3. Backed(BudgetRefusal(searched), ledger', (returned \union cut)')
    BY <1>6, <2>1, <2>2 DEF Backed
  <2>4. TypeOK'
    BY <1>1, <1>5, <1>6, <2>1, <2>2
  <2> QED
    BY <1>1, <1>4, <1>6, <2>2, <2>3, <2>4, RunEnds
<1>7. CASE /\ pc' = "complete" /\ ledger' = read /\ outcome' = outcome
           /\ returned' = returned \union (searched.searched \ ledger.searched)
  <2>1. returned' \subseteq Queries /\ read.searched \subseteq (returned \union cut)'
    BY <1>0, <1>1, <1>3, <1>4, <1>7 DEF TypeOK
  <2>2. TypeOK'
    BY <1>0, <1>3, <1>5, <1>7, <2>1
  <2>3. returned \union cut \subseteq (returned \union cut)'
    BY <1>4, <1>7
  <2> QED
    BY <1>3, <1>4, <1>7, <2>1, <2>2, <2>3, RunGoesOn
<1>8. CASE /\ pc' = "deliver" /\ ledger' = ledger /\ outcome' = BudgetRefusal(ledger)
           /\ returned' = returned
  <2>1. /\ BudgetRefusal(ledger) \in Outcome
        /\ Backed(BudgetRefusal(ledger), ledger, ledger.searched)
    BY <1>0, BudgetRefusalIsBacked
  <2>2. (returned \union cut)' = returned \union cut
    BY <1>4, <1>8
  <2>3. Backed(BudgetRefusal(ledger), ledger', (returned \union cut)')
    BY <1>0, <1>8, <2>1, <2>2 DEF Backed
  <2>4. TypeOK'
    BY <1>0, <1>5, <1>8, <2>1 DEF TypeOK
  <2> QED
    BY <1>0, <1>4, <1>8, <2>2, <2>3, <2>4, RunEnds
<1> QED
  <2> USE DEF searched, heads, read
  <2> QED
    BY <1>6, <1>7, <1>8 DEF Recover, Rewound

\* A step that leaves the ledger, the drafts, the outcome and the scopes alone, and
\* starts no corrective run, keeps what is known if what is posted is in scope.
LEMMA AsideKeeps ==
    ASSUME AnswerInv, TypeOK', NothingBeyondScope',
           UNCHANGED <<fuller, asked, ledger, first, outcome, ghosts>>,
           pc' = "retry" => pc = "retry"
    PROVE  AnswerInv'
<1>1. Effective' = Effective
  BY SameScope
<1>2. LedgerInScope' /\ LedgerIsOfThisRun'
  BY <1>1 DEF AnswerInv, LedgerInScope, LedgerIsOfThisRun, ClaimsFor, ghosts
<1>3. FirstVerdictHolds'
  BY DEF AnswerInv, FirstVerdictHolds
<1>4. Backed(outcome, ledger, returned \union cut)'
  BY <1>1 DEF AnswerInv, Backed, PagesFor, ghosts
<1> QED
  BY <1>2, <1>3, <1>4 DEF AnswerInv

\* What happens beside the run: a row goes, the event is turned away or its placeholder
\* is posted, and what is found is delivered.
LEMMA DeliveryKeeps ==
    ASSUME AnswerInv,
           \/ \E r \in Rows : Withdraw(r)
           \/ TurnAway \/ PostPlaceholder \/ Deliver \/ SendFuller \/ Finished
    PROVE  AnswerInv'
<1>0. TypeOK /\ NothingBeyondScope
  BY DEF AnswerInv
<1>1. ASSUME UNCHANGED posted PROVE NothingBeyondScope'
  BY <1>0, <1>1 DEF NothingBeyondScope, ClaimsFor, PagesFor
<1>2. Message \in [to : SUBSET Scope, claims : SUBSET Claims, pages : SUBSET Pages]
  <2>1. outcome.claims \in SUBSET Claims /\ outcome.pages \in SUBSET Pages
    BY <1>0 DEF TypeOK, Outcome
  <2>2. channel \in Scope /\ asker \in Scope
    BY <1>0 DEF TypeOK, Scope
  <2> QED
    BY <2>1, <2>2 DEF Message
<1>3. ASSUME NEW r \in Rows, Withdraw(r)
      PROVE  AnswerInv'
  <2>1. TypeOK'
    BY <1>0, <1>3 DEF TypeOK, Withdraw, asked, ghosts
  <2> QED
    BY <1>1, <1>3, <2>1, AsideKeeps DEF Withdraw
<1>4. CASE TurnAway \/ PostPlaceholder
  <2>1. TypeOK'
    BY <1>0, <1>4 DEF TypeOK, TurnAway, PostPlaceholder, asked, ghosts
  <2> QED
    BY <1>1, <1>4, <2>1, AsideKeeps DEF TurnAway, PostPlaceholder
<1>5. AfterDelivery \in {"compare", "done"}
  BY DEF AfterDelivery
<1>6. CASE Deliver
  <2>1. UNCHANGED <<corpus, fuller, asked, ledger, tools, first, outcome, ghosts>>
    BY <1>6 DEF Deliver
  <2>2. \/ /\ posted' = Message /\ told' = "yes" /\ pc' = AfterDelivery /\ tries' = tries
        \/ /\ tries + 1 < Attempts /\ tries' = tries + 1 /\ UNCHANGED <<posted, told, pc>>
        \/ /\ told' = "lost" /\ pc' = AfterDelivery /\ UNCHANGED <<posted, tries>>
    BY <1>6 DEF Deliver
  <2>3. TypeOK'
    <3> HIDE DEF Message
    <3>1. tries \in 0..Attempts /\ Attempts \in Nat
      BY <1>0 DEF TypeOK, Attempts
    <3>2. tries' \in 0..Attempts
      BY <2>2, <3>1
    <3>3. /\ pc' \in {"idle", "ask", "agent", "retry", "recover", "complete", "deliver",
                      "compare", "done"}
          /\ told' \in {"no", "yes", "lost"}
          /\ posted' \in [to : SUBSET Scope, claims : SUBSET Claims, pages : SUBSET Pages]
      BY <1>0, <1>2, <1>5, <2>2 DEF TypeOK
    <3> QED
      BY <1>0, <2>1, <3>2, <3>3 DEF TypeOK, asked, ghosts
  <2>4. NothingBeyondScope'
    BY <1>1, <2>2, MessageIsInScope
  <2>5. pc' = "retry" => pc = "retry"
    BY <1>5, <2>2
  <2> QED
    BY <2>1, <2>3, <2>4, <2>5, AsideKeeps
<1>7. CASE SendFuller
  <2>1. /\ UNCHANGED <<corpus, fuller, asked, ledger, tools, first, outcome, tries, told, ghosts>>
        /\ pc' = "done" /\ (posted' = Message \/ UNCHANGED posted)
    BY <1>7 DEF SendFuller
  <2>2. TypeOK'
    BY <1>0, <1>2, <2>1 DEF TypeOK, asked, ghosts
  <2>3. NothingBeyondScope'
    BY <1>1, <2>1, MessageIsInScope
  <2> QED
    BY <2>1, <2>2, <2>3, AsideKeeps
<1>8. CASE Finished
  <2>1. TypeOK'
    BY <1>0, <1>8 DEF TypeOK, Finished, vars, asked, ghosts
  <2> QED
    BY <1>1, <1>8, <2>1, AsideKeeps DEF Finished, vars
<1> QED
  BY <1>3, <1>4, <1>5, <1>6, <1>7, <1>8

\* The comparison: the fuller answer starts from nothing, and what was posted stands.
LEMMA CompareKeeps ==
    ASSUME AnswerInv, Compare
    PROVE  AnswerInv'
<1>0. TypeOK /\ NothingBeyondScope
  BY DEF AnswerInv
<1>1. NothingBeyondScope'
  BY <1>0 DEF Compare, NothingBeyondScope, ClaimsFor, PagesFor
<1>2. CASE UNCHANGED <<fuller, ledger, outcome, tries, ghosts>> /\ pc' = "done"
  <2>1. TypeOK'
    BY <1>0, <1>2 DEF Compare, TypeOK, asked, ghosts
  <2> QED
    BY <1>1, <1>2, <2>1, AsideKeeps DEF Compare
<1>3. CASE /\ pc' = "ask" /\ fuller' = TRUE
           /\ ledger' = EmptyLedger /\ outcome' = NoOutcome /\ tries' = 0
           /\ returned' = {} /\ cut' = {}
  <2>1. EmptyLedger \in Ledger /\ NoOutcome \in Outcome
    BY DEF EmptyLedger, Ledger, NoOutcome, Outcome, Kinds
  <2>2. TypeOK'
    BY <1>0, <1>3, <2>1 DEF Compare, TypeOK, asked, Attempts
  <2>3. LedgerInScope' /\ LedgerIsOfThisRun' /\ FirstVerdictHolds'
    BY <1>3 DEF LedgerInScope, LedgerIsOfThisRun, FirstVerdictHolds, EmptyLedger
  <2>4. Backed(outcome, ledger, returned \union cut)'
    BY <1>3 DEF Backed, NoOutcome
  <2> QED
    BY <1>1, <2>2, <2>3, <2>4 DEF AnswerInv
<1> QED
  BY <1>2, <1>3 DEF Compare

\* Every step keeps what is known of the answer.
LEMMA AnswerStep == AnswerInv /\ [Next]_vars => AnswerInv'
<1> SUFFICES ASSUME AnswerInv, [Next]_vars
             PROVE  AnswerInv'
  OBVIOUS
<1>1. CASE Listener
  BY <1>1, AgentKeeps, DeathKeeps, RecoveryKeeps, DeliveryKeeps, CompareKeeps DEF Listener
<1>2. CASE Agent
  BY <1>2, AgentKeeps, DeathKeeps, DraftKeeps DEF Agent
<1>3. CASE (\E r \in Rows : Withdraw(r)) \/ TurnAway \/ PostPlaceholder \/ Finished
  BY <1>3, DeliveryKeeps
<1>4. CASE \E kind \in {"timeout", "throttled", "error"} : AskRaises(kind)
  BY <1>4, DeathKeeps
<1>5. CASE UNCHANGED vars
  <2>1. TypeOK' /\ NothingBeyondScope'
    BY <1>5 DEF AnswerInv, TypeOK, NothingBeyondScope, ClaimsFor, PagesFor, vars, asked, ghosts
  <2> QED
    BY <1>5, <2>1, AsideKeeps DEF vars
<1> QED
  BY <1>1, <1>2, <1>3, <1>4, <1>5 DEF Next

-----------------------------------------------------------------------------

\* The question, its run, the drafts and the messages keep their types for any
\* corpus, any scopes and any number of tool calls (slack/mention.py, answer/service.py).
THEOREM AnswerTypeCorrect == Spec => []TypeOK
<1>1. AnswerInv => TypeOK
  BY DEF AnswerInv
<1> QED
  BY <1>1, AnswerInit, AnswerStep, PTL DEF Spec

\* Nobody is told what his scope does not hold, whatever the agent writes, whichever
\* draft wins and whether the answer is the channel's or the private fuller one
\* (mention.py:151-166, 233-309, acl.py:23-33).
THEOREM AnswersStayInScope == Spec => []NothingBeyondScope
<1>1. AnswerInv => NothingBeyondScope
  BY DEF AnswerInv
<1> QED
  BY <1>1, AnswerInit, AnswerStep, PTL DEF Spec

\* The figures of an answer that ships and the searches a refusal reports came back in
\* this run, through a corrective run, a recovery and cancelled statements
\* (answer/service.py:296-383, brain.py:31-34).
THEOREM OutcomesAreTraced == Spec => []OutcomeIsTraced
<1>1. AnswerInv => OutcomeIsTraced
  BY DEF AnswerInv, Backed, OutcomeIsTraced, NoUntracedFigure, ReportsWhatCameBack
<1> QED
  BY <1>1, AnswerInit, AnswerStep, PTL DEF Spec

-----------------------------------------------------------------------------
(* Threads captured from Slack.                                            *)

\* A delivery at work, and the rows that hold the item of a thread.
Live(e) == step[e] \notin {"new", "done"}
Holders(t) == {e \in Events : HasRow(e) /\ row[e].attached /\ row[e].thread = t}

\* A row is of its thread once a submission is attached to it, and of its message before.
RowIsOfItsThread ==
    \A e \in Events : HasRow(e) =>
        row[e].thread = IF row[e].attached THEN EventThread(e) ELSE Msg[e]

\* Nothing was done for a delivery that did not come yet.
NewHasNothing ==
    \A e \in Events : /\ step[e] = "new" => row[e] = NoRow
                      /\ step[e] # "done" => reply[e] = "nothing"

\* One delivery of a thread at most is between its look and its commit.
OneIsLocked ==
    \A e, f \in Events : LockedThread(e) /\ LockedThread(f) /\ EventThread(e) = EventThread(f) => e = f

\* A delivery that is about to commit has its reservation, and nobody else has a row of the thread.
BoundIsAlone == \A e \in Events : Binding(e) => Reserved(e) /\ Others(e) = {}

\* The item of a thread is there with the one row that holds it.
ItemHasItsRow ==
    \A t \in Threads : IF item[t] = "none" THEN Holders(t) = {} ELSE \E e \in Events : Holders(t) = {e}

\* Nothing happened that may leave a thread without an answer, but an erasure.
Calm == ~stopped /\ ~unheard /\ ~stalled

\* While nothing stopped, failed unheard or stalled, a reservation is young and of a delivery at
\* work, and a delivery that has reserved keeps its reservation until it commits or gives up.
ReservationsAreAtWork ==
    Calm => \A e \in Events :
        /\ HasRow(e) => ~row[e].old
        /\ Reserved(e) => Live(e)
        /\ step[e] \in {"reserved", "acquired", "looked", "bound"} => Reserved(e)

\* What is about to be recorded as reported was posted.
MarkedWasPosted ==
    \A p \in Processes : \A r \in marking[p] : r.status \in reported[EventThread(r.row)]

\* What holds of the rows and the items, whatever stopped or failed.
RowsInv ==
    /\ SlackTypeOK /\ RowIsOfItsThread /\ NewHasNothing
    /\ OneIsLocked /\ BoundIsAlone /\ ItemHasItsRow

SlackInv ==
    /\ RowsInv /\ ReservationsAreAtWork /\ SilenceHasAReason
    /\ MarkedWasPosted /\ RecordedWasPosted

-----------------------------------------------------------------------------
\* A row is not the absence of one.
LEMMA NoRowIsNone == NoRow \notin ThreadRows
  BY SlackAssumption DEF NoRow, ThreadRows

\* What a row and the message of a delivery are.
LEMMA RowFacts ==
    ASSUME SlackTypeOK, NEW e \in Events
    PROVE  /\ HasRow(e) <=> row[e] \in ThreadRows
           /\ HasRow(e) => row[e].thread \in Messages /\ row[e].attached \in BOOLEAN
           /\ Msg[e] \in Messages /\ EventThread(e) \in Threads /\ EventThread(e) \in Messages
           /\ ThreadOf[EventThread(e)] = EventThread(e)
<1>1. row[e] \in ThreadRows \cup {NoRow}
  BY DEF SlackTypeOK
<1>2. NoRow \notin ThreadRows
  BY NoRowIsNone
<1>3. \A r \in ThreadRows : r.thread \in Messages /\ r.attached \in BOOLEAN
  BY DEF ThreadRows
<1> QED
  BY <1>1, <1>2, <1>3, SlackAssumption DEF HasRow, EventThread

\* The thread a row names is that of its delivery, as far as it is one.
LEMMA RowNamesItsThread ==
    ASSUME SlackTypeOK, RowIsOfItsThread, NEW e \in Events, HasRow(e), row[e].thread \in Threads
    PROVE  row[e].thread = EventThread(e)
  BY RowFacts, SlackAssumption DEF RowIsOfItsThread, EventThread

\* The row of e becomes another one, and every other row stays.
Edited(e, thread, attached, last, old) ==
    /\ row' \in [Events -> ThreadRows \cup {NoRow}]
    /\ \A f \in Events \ {e} : row'[f] = row[f]
    /\ row'[e] \in ThreadRows
    /\ row'[e].thread = thread /\ row'[e].attached = attached
    /\ row'[e].last = last /\ row'[e].old = old

\* The row of a report takes its status, and nothing else changes.
Recorded(r) == Edited(r.row, row[r.row].thread, row[r.row].attached, r.status, row[r.row].old)

\* A row replaced as a whole.
LEMMA RowIsEdited ==
    ASSUME SlackTypeOK, NEW e \in Events, NEW r \in ThreadRows, row' = [row EXCEPT ![e] = r]
    PROVE  Edited(e, r.thread, r.attached, r.last, r.old)
  BY DEF SlackTypeOK, Edited

\* Troubles stay within their bound.
LEMMA TroubleFact == SlackTypeOK /\ Trouble => troubles' \in 0 .. MaxTroubles
<1>1. SlackTypeOK => troubles \in 0 .. MaxTroubles
  BY DEF SlackTypeOK
<1>2. troubles \in 0 .. MaxTroubles /\ Trouble => troubles' \in 0 .. MaxTroubles
  BY SlackAssumption DEF Trouble
<1> QED
  BY <1>1, <1>2

\* A lease that passes changes the age of a reservation and nothing else of it.
LEMMA AgeParts ==
    ASSUME SlackTypeOK, NEW e \in Events, Age(e)
    PROVE  Edited(e, row[e].thread, row[e].attached, row[e].last, TRUE)
<1> DEFINE r == [row[e] EXCEPT !.old = TRUE]
<1>1. row[e] \in ThreadRows
  BY RowFacts DEF Age, Reserved
<1>2. row' = [row EXCEPT ![e] = r]
  BY DEF Age
<1>3. /\ r \in ThreadRows /\ r.thread = row[e].thread /\ r.attached = row[e].attached
      /\ r.last = row[e].last /\ r.old = TRUE
  BY <1>1 DEF ThreadRows
<1> HIDE DEF r
<1>4. Edited(e, r.thread, r.attached, r.last, r.old)
  BY <1>2, <1>3, RowIsEdited
<1> QED
  BY <1>3, <1>4

\* A submission names the thread, holds its item, and is young.
LEMMA SubmittedParts ==
    ASSUME SlackTypeOK, NEW e \in Events, HasRow(e), Submitted(e)
    PROVE  Edited(e, EventThread(e), TRUE, row[e].last, FALSE)
<1> DEFINE r == [row[e] EXCEPT !.thread = EventThread(e), !.attached = TRUE, !.old = FALSE]
<1>1. row[e] \in ThreadRows /\ EventThread(e) \in Messages
  BY RowFacts
<1>2. row' = [row EXCEPT ![e] = r]
  BY DEF Submitted
<1>3. /\ r \in ThreadRows /\ r.thread = EventThread(e) /\ r.attached = TRUE
      /\ r.last = row[e].last /\ r.old = FALSE
  BY <1>1 DEF ThreadRows
<1> HIDE DEF r
<1>4. Edited(e, r.thread, r.attached, r.last, r.old)
  BY <1>2, <1>3, RowIsEdited
<1> QED
  BY <1>3, <1>4

\* A reservation is taken unless a row that stays holds the message, and expired reservations go.
LEMMA ReserveParts ==
    ASSUME SlackTypeOK, NEW e \in Events, NEW p \in Processes, Reserve(e, p), row[e] = NoRow
    PROVE  /\ row' \in [Events -> ThreadRows \cup {NoRow}] /\ step[e] = "new" /\ ~MustWait(e)
           /\ \A f \in Events \ {e} : row'[f] = IF HasRow(f) /\ f \notin Expired THEN row[f] ELSE NoRow
           /\ \/ /\ step' = [step EXCEPT ![e] = "reserved"]
                 /\ row'[e] \in ThreadRows /\ row'[e].thread = Msg[e] /\ ~row'[e].attached
                 /\ row'[e].last = "" /\ ~row'[e].old
                 /\ \A f \in Events \ Expired : HasRow(f) => Msg[f] # Msg[e] /\ row[f].thread # Msg[e]
              \/ /\ step' = [step EXCEPT ![e] = "done"]
                 /\ row'[e] = NoRow
                 /\ \E f \in Events \ Expired :
                        f # e /\ HasRow(f) /\ (Msg[f] = Msg[e] \/ row[f].thread = Msg[e])
<1> DEFINE kept == {f \in Events : HasRow(f)} \ Expired
           new == [thread |-> Msg[e], attached |-> FALSE, last |-> "", old |-> FALSE]
           free == \A f \in kept : Msg[f] # Msg[e] /\ row[f].thread # Msg[e]
<1>1. row' = [f \in Events |-> IF f = e /\ free THEN new ELSE IF f \in kept THEN row[f] ELSE NoRow]
      /\ step' = [step EXCEPT ![e] = IF free THEN "reserved" ELSE "done"]
  BY DEF Reserve, ReserveAmong
<1>2. /\ new \in ThreadRows /\ new.thread = Msg[e] /\ ~new.attached /\ new.last = "" /\ ~new.old
  BY SlackAssumption DEF ThreadRows
<1>3. e \notin kept
  BY DEF HasRow
<1>4. step[e] = "new" /\ ~MustWait(e) /\ row \in [Events -> ThreadRows \cup {NoRow}]
  BY DEF Reserve, SlackTypeOK
<1> HIDE DEF new
<1>5. CASE free
  BY <1>1, <1>2, <1>3, <1>4, <1>5
<1>6. CASE ~free
  BY <1>1, <1>3, <1>4, <1>6
<1> QED
  BY <1>5, <1>6

\* The status of the report is all that a mark changes, in one row.
LEMMA MarkParts ==
    ASSUME SlackTypeOK, NEW p \in Processes, Mark(p)
    PROVE  \E r \in marking[p] : r \in Reports /\
             \/ HasRow(r.row) /\ Recorded(r)
             \/ UNCHANGED row
<1>1. PICK r \in marking[p] :
         row' \in {[row EXCEPT ![r.row] = IF HasRow(r.row) THEN [@ EXCEPT !.last = r.status] ELSE @], row}
  BY DEF Mark
<1>2. r \in Reports /\ r.row \in Events /\ r.status \in Terminal
  <2>1. marking[p] \in SUBSET Reports
    BY DEF SlackTypeOK
  <2> QED
    BY <2>1 DEF Reports
<1>3. CASE UNCHANGED row
  BY <1>2, <1>3
<1>4. CASE HasRow(r.row) /\ ~UNCHANGED row
  <2> DEFINE new == [row[r.row] EXCEPT !.last = r.status]
  <2>1. row[r.row] \in ThreadRows
    BY <1>2, <1>4, RowFacts
  <2>2. row' = [row EXCEPT ![r.row] = new]
    BY <1>1, <1>4
  <2>3. /\ new \in ThreadRows /\ new.thread = row[r.row].thread /\ new.attached = row[r.row].attached
        /\ new.last = r.status /\ new.old = row[r.row].old
    BY <1>2, <2>1 DEF ThreadRows
  <2> HIDE DEF new
  <2>4. Edited(r.row, new.thread, new.attached, new.last, new.old)
    BY <1>2, <2>2, <2>3, RowIsEdited
  <2> QED
    BY <1>2, <1>4, <2>3, <2>4 DEF Recorded
<1>5. CASE ~HasRow(r.row)
  <2>1. row' = row
    BY <1>1, <1>5 DEF SlackTypeOK
  <2> QED
    BY <1>2, <2>1
<1> QED
  BY <1>3, <1>4, <1>5

\* The steps of a delivery keep the types.
LEMMA DeliveryType ==
    ASSUME SlackTypeOK, NewHasNothing, BoundIsAlone, NEW e \in Events,
           (\E p \in Processes : Reserve(e, p) \/ Refuse(e, p)) \/ Handle(e) \/ Age(e)
    PROVE  SlackTypeOK'
<1>1. CASE \E p \in Processes : Reserve(e, p)
  <2>1. PICK p \in Processes : Reserve(e, p)
    BY <1>1
  <2>2. row[e] = NoRow
    BY <2>1 DEF Reserve, NewHasNothing
  <2>3. row' \in [Events -> ThreadRows \cup {NoRow}] /\ step' \in [Events -> Steps]
    BY <2>1, <2>2, ReserveParts DEF SlackTypeOK, Steps
  <2> QED
    BY <2>1, <2>3 DEF Reserve, SlackTypeOK, processVars, pollerVars, faultVars
<1>2. CASE \E p \in Processes : Refuse(e, p)
  <2>1. PICK p \in Processes : Refuse(e, p)
    BY <1>2
  <2>2. troubles' \in 0 .. MaxTroubles
    BY <2>1, TroubleFact DEF Refuse, SlackTypeOK
  <2> QED
    BY <2>1, <2>2 DEF Refuse, SlackTypeOK, Steps, processVars, pollerVars, faultVars
<1>3. CASE Acquire(e)
  <2>1. troubles' \in 0 .. MaxTroubles
    BY <1>3, TroubleFact DEF Acquire, SlackTypeOK
  <2> QED
    BY <1>3, <2>1 DEF Acquire, SlackTypeOK, Steps, processVars, pollerVars
<1>4. CASE Look(e)
  BY <1>4 DEF Look, SlackTypeOK, Steps, processVars, pollerVars, faultVars
<1>5. CASE Bind(e)
  BY <1>5 DEF Bind, SlackTypeOK, Steps, processVars, pollerVars, faultVars
<1>6. CASE Commit(e)
  <2>a. HasRow(e)
    BY <1>6 DEF Commit, BoundIsAlone, Binding, Reserved
  <2>1. row' \in [Events -> ThreadRows \cup {NoRow}]
    BY <1>6, <2>a, SubmittedParts DEF Commit, SlackTypeOK, Edited
  <2>2. troubles' \in 0 .. MaxTroubles
    BY <1>6, TroubleFact DEF Commit, SlackTypeOK
  <2>3. item' \in [Threads -> {"none", "queued"} \cup Terminal]
    BY <1>6, RowFacts DEF Commit, Submitted, SlackTypeOK
  <2> QED
    BY <1>6, <2>1, <2>2, <2>3 DEF Commit, SlackTypeOK, Steps, processVars, pollerVars
<1>7. CASE GiveUp(e)
  <2>1. troubles' \in 0 .. MaxTroubles
    BY <1>7, TroubleFact DEF GiveUp, SlackTypeOK
  <2> QED
    BY <1>7, <2>1 DEF GiveUp, SlackTypeOK, Steps, processVars, pollerVars
<1>8. CASE Age(e)
  <2>1. row' \in [Events -> ThreadRows \cup {NoRow}]
    BY <1>8, AgeParts DEF Edited
  <2>2. troubles' \in 0 .. MaxTroubles
    BY <1>8, TroubleFact DEF Age, SlackTypeOK
  <2> QED
    BY <1>8, <2>1, <2>2 DEF Age, SlackTypeOK, handlerVars, processVars, pollerVars
<1> QED
  BY <1>1, <1>2, <1>3, <1>4, <1>5, <1>6, <1>7, <1>8 DEF Handle

\* So do those of the poller, the processes, the writer and the erasure.
LEMMA OtherType ==
    ASSUME SlackTypeOK, NEW p \in Processes, NEW t,
           \/ List(p) \/ Post(p) \/ Mark(p) \/ Start(p) \/ Stop(p) \/ LoseLock(p)
           \/ Settle(t) \/ Retry(t) \/ Close \/ Erase
    PROVE  SlackTypeOK'
<1>1. CASE List(p)
  <2>1. Due \in SUBSET Reports
    <3> SUFFICES ASSUME NEW e \in Events, item[EventThread(e)] \in Terminal
                 PROVE  [row |-> e, status |-> item[EventThread(e)]] \in Reports
      BY DEF Due
    <3> QED
      BY DEF Reports
  <2> QED
    BY <1>1, <2>1 DEF List, SlackTypeOK, handlerVars, processVars, faultVars
<1>2. CASE Post(p)
  <2>1. troubles' \in 0 .. MaxTroubles
    BY <1>2, TroubleFact DEF Post, SlackTypeOK
  <2>2. PICK r \in todo[p] :
           /\ todo' = [todo EXCEPT ![p] = @ \ {r}]
           /\ \/ /\ marking' = [marking EXCEPT ![p] = {r}]
                 /\ shown' = [shown EXCEPT ![EventThread(r.row)] = r.status]
                 /\ reported' = [reported EXCEPT ![EventThread(r.row)] = @ \cup {r.status}]
              \/ UNCHANGED <<marking, shown, reported>>
    BY <1>2 DEF Post
  <2>3. r \in Reports /\ r.row \in Events /\ r.status \in Terminal
    <3>1. todo[p] \in SUBSET Reports
      BY DEF SlackTypeOK
    <3> QED
      BY <3>1 DEF Reports
  <2>4. EventThread(r.row) \in Threads
    BY <2>3, RowFacts
  <2>5. /\ todo \in [Processes -> SUBSET Reports] /\ marking \in [Processes -> SUBSET Reports]
        /\ shown \in [Threads -> Terminal \cup {""}] /\ reported \in [Threads -> SUBSET Terminal]
    BY DEF SlackTypeOK
  <2>6. todo' \in [Processes -> SUBSET Reports] /\ marking' \in [Processes -> SUBSET Reports]
    <3>1. {r} \in SUBSET Reports /\ todo[p] \ {r} \in SUBSET Reports
      BY <2>3, <2>5
    <3> QED
      BY <2>2, <2>5, <3>1
  <2>7. shown' \in [Threads -> Terminal \cup {""}]
    BY <2>2, <2>3, <2>4, <2>5
  <2>8. reported' \in [Threads -> SUBSET Terminal]
    <3>1. reported[EventThread(r.row)] \cup {r.status} \in SUBSET Terminal
      BY <2>3, <2>4, <2>5
    <3> QED
      BY <2>2, <2>4, <2>5, <3>1
  <2> QED
    BY <1>2, <2>1, <2>6, <2>7, <2>8 DEF Post, SlackTypeOK, handlerVars, processVars
<1>3. CASE Mark(p)
  <2>1. row' \in [Events -> ThreadRows \cup {NoRow}]
    BY <1>3, MarkParts DEF SlackTypeOK, Recorded, Edited
  <2>2. troubles' \in 0 .. MaxTroubles
    BY <1>3, TroubleFact DEF Mark, SlackTypeOK
  <2>3. todo' \in [Processes -> SUBSET Reports] /\ marking' \in [Processes -> SUBSET Reports]
    BY <1>3 DEF Mark, SlackTypeOK
  <2> QED
    BY <1>3, <2>1, <2>2, <2>3 DEF Mark, SlackTypeOK, handlerVars, processVars
<1>4. CASE Start(p)
  BY <1>4 DEF Start, SlackTypeOK, handlerVars, pollerVars, faultVars
<1>5. CASE Stop(p) \/ LoseLock(p)
  <2>1. troubles' \in 0 .. MaxTroubles
    BY <1>5, TroubleFact DEF Stop, LoseLock
  <2>2. \A q, o \in lock' : q = o
    BY <1>5 DEF Stop, LoseLock, SlackTypeOK
  <2>3. step' \in [Events -> Steps]
    BY <1>5 DEF Stop, LoseLock, SlackTypeOK, handlerVars, Steps
  <2> QED
    BY <1>5, <2>1, <2>2, <2>3 DEF Stop, LoseLock, SlackTypeOK, handlerVars, pollerVars
<1>6. CASE Settle(t)
  BY <1>6 DEF Settle, SlackTypeOK, handlerVars, processVars, pollerVars, faultVars
<1>7. CASE Retry(t)
  <2>1. troubles' \in 0 .. MaxTroubles
    BY <1>7, TroubleFact DEF Retry
  <2> QED
    BY <1>7, <2>1 DEF Retry, SlackTypeOK, handlerVars, processVars, pollerVars
<1>8. CASE Close
  BY <1>8 DEF Close, SlackTypeOK, handlerVars, processVars, pollerVars, faultVars
<1>9. CASE Erase
  BY <1>9 DEF Erase, SlackTypeOK, handlerVars, processVars, pollerVars, faultVars
<1> QED
  BY <1>1, <1>2, <1>3, <1>4, <1>5, <1>6, <1>7, <1>8, <1>9

-----------------------------------------------------------------------------
\* The rows that hold a submission are what they were.
HoldersStay ==
    \A f \in Events :
        /\ (HasRow(f) /\ row[f].attached) <=> (HasRow(f)' /\ row'[f].attached)
        /\ HasRow(f) /\ row[f].attached => row'[f].thread = row[f].thread

\* Then every item keeps the one row that holds it.
LEMMA ItemsKeepTheirRows ==
    ASSUME SlackTypeOK, ItemHasItsRow, HoldersStay,
           \A t \in Threads : (item[t] = "none") <=> (item'[t] = "none")
    PROVE  ItemHasItsRow'
<1> SUFFICES ASSUME NEW t \in Threads
             PROVE  IF item'[t] = "none" THEN Holders(t)' = {} ELSE \E e \in Events : Holders(t)' = {e}
  BY DEF ItemHasItsRow
<1>1. Holders(t)' = Holders(t)
  BY DEF HoldersStay, Holders
<1> QED
  BY <1>1 DEF ItemHasItsRow

\* A step of the handler of e touches no other delivery.
OnlyTouches(e) ==
    \A f \in Events \ {e} : row'[f] = row[f] /\ step'[f] = step[f] /\ reply'[f] = reply[f]

\* A reservation drops no row of a submission, and waits for one that is about to commit.
LEMMA ReserveKeepsRows ==
    ASSUME RowsInv, NEW e \in Events, NEW p \in Processes, Reserve(e, p)
    PROVE  RowsInv'
<1>0. SlackTypeOK /\ RowIsOfItsThread /\ NewHasNothing /\ OneIsLocked /\ BoundIsAlone /\ ItemHasItsRow
  BY DEF RowsInv
<1>1. row[e] = NoRow /\ step[e] = "new" /\ ~MustWait(e) /\ UNCHANGED <<reply, item>>
  BY <1>0 DEF Reserve, NewHasNothing
<1>2. SlackTypeOK'
  BY <1>0, DeliveryType
<1>3. /\ \A f \in Events \ {e} : row'[f] = IF HasRow(f) /\ f \notin Expired THEN row[f] ELSE NoRow
      /\ step' \in {[step EXCEPT ![e] = "reserved"], [step EXCEPT ![e] = "done"]}
      /\ \/ row'[e] \in ThreadRows /\ row'[e].thread = Msg[e] /\ ~row'[e].attached
         \/ row'[e] = NoRow
  BY <1>0, <1>1, ReserveParts
<1>4. step \in [Events -> Steps]
  BY <1>0 DEF SlackTypeOK
<1>5. \A f \in Events \ {e} : step'[f] = step[f] /\ (HasRow(f)' => HasRow(f) /\ row'[f] = row[f])
  BY <1>3, <1>4 DEF HasRow
<1>6. step'[e] \in {"reserved", "done"}
  BY <1>3, <1>4
<1>7. RowIsOfItsThread'
  BY <1>0, <1>3, <1>5 DEF RowIsOfItsThread, HasRow, EventThread
<1>8. NewHasNothing'
  BY <1>0, <1>1, <1>5, <1>6 DEF NewHasNothing, HasRow
<1>9. OneIsLocked'
  BY <1>0, <1>5, <1>6 DEF OneIsLocked, LockedThread, EventThread
<1>10. BoundIsAlone'
  <2> SUFFICES ASSUME NEW f \in Events, Binding(f)' PROVE Reserved(f)' /\ Others(f)' = {}
    BY DEF BoundIsAlone
  <2>1. f # e /\ Binding(f)
    BY <1>5, <1>6 DEF Binding
  <2>2. f \notin Expired /\ EventThread(f) # Msg[e]
    BY <1>1, <2>1 DEF MustWait
  <2>3. Reserved(f) /\ Others(f) = {}
    BY <1>0, <2>1 DEF BoundIsAlone
  <2>4. Reserved(f)'
    BY <1>3, <2>1, <2>2, <2>3 DEF Reserved, HasRow
  <2>5. ASSUME NEW g \in Others(f)' PROVE FALSE
    <3>1. g \in Events \ {f} /\ HasRow(g)' /\ row'[g].thread = EventThread(f)
      BY <2>5 DEF Others, EventThread
    <3>2. g # e
      BY <1>3, <2>2, <3>1 DEF HasRow
    <3> QED
      BY <1>5, <2>3, <3>1, <3>2 DEF Others
  <2> QED
    BY <2>4, <2>5
<1>11. HoldersStay
  <2>1. \A f \in Expired : ~row[f].attached
    BY DEF Expired, Reserved
  <2> QED
    BY <1>1, <1>3, <1>5, <2>1 DEF HoldersStay, HasRow
<1>12. ItemHasItsRow'
  BY <1>0, <1>1, <1>11, ItemsKeepTheirRows
<1> QED
  BY <1>2, <1>7, <1>8, <1>9, <1>10, <1>12 DEF RowsInv

\* What a step of the handler of e but its reservation may do: e keeps its row, or gives it back
\* while it is a reservation; or its submission is attached.
Touched(e) ==
    /\ OnlyTouches(e)
    /\ step'[e] # "new" /\ (step'[e] # "done" => reply'[e] = "nothing")
    /\ LockedThread(e)' => \/ LockedThread(e)
                           \/ \A f \in Events \ {e} : LockedThread(f) => EventThread(f) # EventThread(e)
    /\ Binding(e)' => Reserved(e) /\ row'[e] = row[e] /\ Others(e) = {}
    /\ \/ (row'[e] = row[e] \/ (Reserved(e) /\ row'[e] = NoRow)) /\ UNCHANGED item
       \/ Binding(e) /\ Submitted(e)

\* Every other step of a handler is of that kind.
LEMMA HandlerTouches ==
    ASSUME RowsInv, NEW e \in Events, (\E p \in Processes : Refuse(e, p)) \/ Handle(e)
    PROVE  Touched(e)
<1>1. SlackTypeOK /\ NewHasNothing /\ BoundIsAlone
  BY DEF RowsInv
<1>2. /\ step \in [Events -> Steps] /\ reply \in [Events -> {"nothing", "declined", "failed", "accepted"}]
      /\ row \in [Events -> ThreadRows \cup {NoRow}]
  BY <1>1 DEF SlackTypeOK
<1>3. step[e] # "done" => reply[e] = "nothing"
  BY <1>1 DEF NewHasNothing
<1>4. CASE \E p \in Processes : Refuse(e, p)
  BY <1>2, <1>3, <1>4 DEF Refuse, Touched, OnlyTouches, LockedThread, Binding
<1>5. CASE Acquire(e)
  BY <1>2, <1>3, <1>5 DEF Acquire, Touched, OnlyTouches, LockedThread, Binding
<1>6. CASE Look(e)
  BY <1>2, <1>3, <1>6 DEF Look, Touched, OnlyTouches, LockedThread, Binding, EventThread
<1>7. CASE Bind(e)
  BY <1>2, <1>3, <1>7 DEF Bind, Touched, OnlyTouches, LockedThread, Binding
<1>8. CASE Commit(e)
  <2>1. HasRow(e) /\ Binding(e)
    BY <1>1, <1>8 DEF Commit, BoundIsAlone, Binding, Reserved
  <2>2. \A f \in Events \ {e} : row'[f] = row[f]
    BY <1>8, <1>1, <2>1, SubmittedParts DEF Commit, Edited
  <2> QED
    BY <1>2, <1>3, <1>8, <2>1, <2>2 DEF Commit, Touched, OnlyTouches, LockedThread, Binding
<1>9. CASE GiveUp(e)
  BY <1>2, <1>3, <1>9 DEF GiveUp, Touched, OnlyTouches, LockedThread, Binding
<1> QED
  BY <1>4, <1>5, <1>6, <1>7, <1>8, <1>9 DEF Handle

\* Such steps keep the rows and the items as they must be.
LEMMA TouchedKeepsRows ==
    ASSUME RowsInv, NEW e \in Events, (\E p \in Processes : Refuse(e, p)) \/ Handle(e)
    PROVE  RowsInv'
<1>0. SlackTypeOK /\ RowIsOfItsThread /\ NewHasNothing /\ OneIsLocked /\ BoundIsAlone /\ ItemHasItsRow
  BY DEF RowsInv
<1>1. SlackTypeOK'
  BY <1>0, DeliveryType
<1>2. Touched(e)
  BY HandlerTouches
<1>3. /\ \A f \in Events \ {e} : row'[f] = row[f] /\ step'[f] = step[f] /\ reply'[f] = reply[f]
      /\ step'[e] # "new" /\ (step'[e] # "done" => reply'[e] = "nothing")
      /\ Binding(e)' => Reserved(e) /\ row'[e] = row[e] /\ Others(e) = {}
  BY <1>2 DEF Touched, OnlyTouches
<1>4. NewHasNothing'
  BY <1>0, <1>3 DEF NewHasNothing
<1>5. OneIsLocked'
  <2> SUFFICES ASSUME NEW f \in Events, NEW g \in Events, LockedThread(f)', LockedThread(g)',
                      EventThread(f) = EventThread(g)
               PROVE  f = g
    BY DEF OneIsLocked, EventThread
  <2>1. \A h \in Events \ {e} : LockedThread(h)' => LockedThread(h)
    BY <1>3 DEF LockedThread
  <2> QED
    BY <1>0, <1>2, <2>1 DEF OneIsLocked, Touched
<1>6. CASE (row'[e] = row[e] \/ (Reserved(e) /\ row'[e] = NoRow)) /\ UNCHANGED item
  <2>1. \A f \in Events : HasRow(f)' => HasRow(f) /\ row'[f] = row[f]
    BY <1>3, <1>6 DEF HasRow
  <2>2. RowIsOfItsThread'
    BY <1>0, <2>1 DEF RowIsOfItsThread, EventThread
  <2>3. BoundIsAlone'
    <3> SUFFICES ASSUME NEW f \in Events, Binding(f)' PROVE Reserved(f)' /\ Others(f)' = {}
      BY DEF BoundIsAlone
    <3>1. Reserved(f) /\ Others(f) = {} /\ row'[f] = row[f]
      BY <1>0, <1>3 DEF BoundIsAlone, Binding
    <3>2. \A g \in Others(f)' : g \in Others(f)
      BY <2>1 DEF Others, EventThread
    <3> QED
      BY <3>1, <3>2 DEF Reserved, HasRow
  <2>4. HoldersStay
    BY <1>3, <1>6 DEF HoldersStay, HasRow, Reserved
  <2>5. ItemHasItsRow'
    BY <1>0, <1>6, <2>4, ItemsKeepTheirRows
  <2> QED
    BY <1>1, <1>4, <1>5, <2>2, <2>3, <2>5 DEF RowsInv
<1>7. CASE Binding(e) /\ Submitted(e)
  <2>1. Reserved(e) /\ Others(e) = {} /\ HasRow(e) /\ ~row[e].attached
    BY <1>0, <1>7 DEF BoundIsAlone, Reserved
  <2>2. row'[e] \in ThreadRows /\ row'[e].thread = EventThread(e) /\ row'[e].attached
    BY <1>0, <1>7, <2>1, SubmittedParts DEF Edited
  <2>3. HasRow(e)'
    BY <2>2, NoRowIsNone DEF HasRow
  <2>4. \A f \in Events \ {e} : HasRow(f)' <=> HasRow(f)
    BY <1>3 DEF HasRow
  <2>5. RowIsOfItsThread'
    BY <1>0, <1>3, <2>2, <2>4 DEF RowIsOfItsThread, EventThread
  <2>6. ~Binding(e)'
    BY <1>3, <2>1, <2>2
  <2>7. BoundIsAlone'
    <3> SUFFICES ASSUME NEW f \in Events, Binding(f)' PROVE Reserved(f)' /\ Others(f)' = {}
      BY DEF BoundIsAlone
    <3>1. f # e /\ Binding(f)
      BY <1>3, <2>6 DEF Binding
    <3>2. EventThread(f) # EventThread(e)
      BY <1>0, <1>7, <3>1 DEF OneIsLocked, LockedThread, Binding
    <3>3. Reserved(f) /\ Others(f) = {}
      BY <1>0, <3>1 DEF BoundIsAlone
    <3>4. \A g \in Others(f)' : g \in Others(f)
      BY <1>3, <2>2, <2>4, <3>2 DEF Others, EventThread
    <3> QED
      BY <1>3, <2>4, <3>1, <3>3, <3>4 DEF Reserved
  <2>8. ItemHasItsRow'
    <3> SUFFICES ASSUME NEW t \in Threads
                 PROVE  IF item'[t] = "none" THEN Holders(t)' = {} ELSE \E h \in Events : Holders(t)' = {h}
      BY DEF ItemHasItsRow
    <3>0. item' = [item EXCEPT ![EventThread(e)] = IF @ = "none" THEN "queued" ELSE @]
          /\ item \in [Threads -> {"none", "queued"} \cup Terminal] /\ EventThread(e) \in Threads
      BY <1>0, <1>7, RowFacts DEF Submitted, SlackTypeOK
    <3>1. CASE t = EventThread(e)
      <4>1. Holders(t)' = {e}
        BY <1>3, <2>1, <2>2, <2>3, <2>4, <3>1 DEF Holders, Others
      <4>2. item'[t] # "none"
        BY <3>0, <3>1
      <4> QED
        BY <4>1, <4>2
    <3>2. CASE t # EventThread(e)
      <4>1. Holders(t)' = Holders(t)
        BY <1>3, <2>1, <2>2, <2>4, <3>2 DEF Holders
      <4>2. item'[t] = item[t]
        BY <3>0, <3>2
      <4> QED
        BY <1>0, <4>1, <4>2 DEF ItemHasItsRow
    <3> QED
      BY <3>1, <3>2
  <2> QED
    BY <1>1, <1>4, <1>5, <2>5, <2>7, <2>8 DEF RowsInv
<1> QED
  BY <1>2, <1>6, <1>7 DEF Touched

\* Rows keep their threads and what is attached to them, deliveries only end, and items stay.
RowsKeepTheirThreads ==
    /\ UNCHANGED <<reply, item>>
    /\ \A f \in Events :
         /\ step'[f] = step[f] \/ (step'[f] = "done" /\ step[f] # "new")
         /\ HasRow(f)' <=> HasRow(f)
         /\ HasRow(f) => row'[f].thread = row[f].thread /\ row'[f].attached = row[f].attached
         /\ ~HasRow(f) => row'[f] = row[f]

\* So does a step that leaves every row its thread and its submission.
LEMMA KeptThreads ==
    ASSUME RowsInv, SlackTypeOK', RowsKeepTheirThreads
    PROVE  RowsInv'
<1>0. SlackTypeOK /\ RowIsOfItsThread /\ NewHasNothing /\ OneIsLocked /\ BoundIsAlone /\ ItemHasItsRow
  BY DEF RowsInv
<1>1. RowIsOfItsThread'
  BY <1>0 DEF RowIsOfItsThread, RowsKeepTheirThreads, EventThread
<1>2. NewHasNothing'
  BY <1>0 DEF NewHasNothing, RowsKeepTheirThreads, HasRow
<1>3. OneIsLocked'
  BY <1>0 DEF OneIsLocked, RowsKeepTheirThreads, LockedThread, EventThread
<1>4. BoundIsAlone'
  <2> SUFFICES ASSUME NEW f \in Events, Binding(f)' PROVE Reserved(f)' /\ Others(f)' = {}
    BY DEF BoundIsAlone
  <2>1. Reserved(f) /\ Others(f) = {}
    BY <1>0 DEF BoundIsAlone, RowsKeepTheirThreads, Binding
  <2>2. \A g \in Others(f)' : g \in Others(f)
    BY DEF Others, RowsKeepTheirThreads, EventThread
  <2> QED
    BY <2>1, <2>2 DEF RowsKeepTheirThreads, Reserved
<1>5. HoldersStay
  BY DEF HoldersStay, RowsKeepTheirThreads
<1>6. ItemHasItsRow'
  BY <1>0, <1>5, ItemsKeepTheirRows DEF RowsKeepTheirThreads
<1> QED
  BY <1>1, <1>2, <1>3, <1>4, <1>6 DEF RowsInv

\* The lease passes over a reservation.
LEMMA AgeKeepsRows ==
    ASSUME RowsInv, NEW e \in Events, Age(e)
    PROVE  RowsInv'
<1>1. SlackTypeOK
  BY DEF RowsInv
<1>2. SlackTypeOK'
  BY <1>1, DeliveryType DEF RowsInv
<1>3. Edited(e, row[e].thread, row[e].attached, row[e].last, TRUE) /\ HasRow(e)
  BY <1>1, AgeParts DEF Age, Reserved
<1>4. HasRow(e)'
  BY <1>3, NoRowIsNone DEF Edited, HasRow
<1>5. RowsKeepTheirThreads
  BY <1>3, <1>4 DEF RowsKeepTheirThreads, Age, Edited, HasRow, handlerVars
<1> QED
  BY <1>2, <1>5, KeptThreads

\* The poller, the processes, the writer and the erasure.
LEMMA OtherKeepsRows ==
    ASSUME RowsInv, NEW p \in Processes, NEW t,
           \/ List(p) \/ Post(p) \/ Mark(p) \/ Start(p) \/ Stop(p) \/ LoseLock(p)
           \/ Settle(t) \/ Retry(t) \/ Close \/ Erase
    PROVE  RowsInv'
<1>0. SlackTypeOK /\ RowIsOfItsThread /\ NewHasNothing /\ OneIsLocked /\ BoundIsAlone /\ ItemHasItsRow
  BY DEF RowsInv
<1>1. SlackTypeOK'
  BY <1>0, OtherType
<1>2. CASE List(p) \/ Post(p) \/ Start(p) \/ LoseLock(p) \/ Close
  <2>1. UNCHANGED <<step, row, reply, item>>
    BY <1>2 DEF List, Post, Start, LoseLock, Close, handlerVars
  <2>2. RowsKeepTheirThreads
    BY <2>1 DEF RowsKeepTheirThreads, HasRow
  <2> QED
    BY <1>1, <2>2, KeptThreads
<1>3. CASE Mark(p)
  <2>1. UNCHANGED <<step, reply, item>>
    BY <1>3 DEF Mark, handlerVars
  <2>2. PICK r \in marking[p] : r \in Reports /\
             \/ HasRow(r.row) /\ Recorded(r)
             \/ UNCHANGED row
    BY <1>0, <1>3, MarkParts
  <2>3. CASE UNCHANGED row
    <3>1. RowsKeepTheirThreads
      BY <2>1, <2>3 DEF RowsKeepTheirThreads, HasRow
    <3> QED
      BY <1>1, <3>1, KeptThreads
  <2>4. CASE HasRow(r.row) /\ Recorded(r)
    <3>1. HasRow(r.row)'
      BY <2>4, <2>2, NoRowIsNone DEF Recorded, Edited, HasRow
    <3>2. RowsKeepTheirThreads
      BY <2>1, <2>4, <3>1 DEF RowsKeepTheirThreads, Recorded, Edited, HasRow
    <3> QED
      BY <1>1, <3>2, KeptThreads
  <2> QED
    BY <2>2, <2>3, <2>4
<1>4. CASE Stop(p)
  <2>1. RowsKeepTheirThreads
    BY <1>4 DEF Stop, RowsKeepTheirThreads, HasRow
  <2> QED
    BY <1>1, <2>1, KeptThreads
<1>5. CASE Settle(t) \/ Retry(t)
  <2>1. UNCHANGED <<step, row, reply>>
    BY <1>5 DEF Settle, Retry, handlerVars
  <2>2. \A u \in Threads : (item[u] = "none") <=> (item'[u] = "none")
    BY <1>0, <1>5 DEF Settle, Retry, SlackTypeOK, Terminal
  <2>3. HoldersStay
    BY <2>1 DEF HoldersStay, HasRow
  <2>4. ItemHasItsRow'
    BY <1>0, <2>2, <2>3, ItemsKeepTheirRows
  <2>5. RowIsOfItsThread' /\ NewHasNothing' /\ OneIsLocked' /\ BoundIsAlone'
    BY <1>0, <2>1 DEF RowIsOfItsThread, NewHasNothing, OneIsLocked, BoundIsAlone, HasRow,
       Reserved, Binding,
       LockedThread, EventThread, Others
  <2> QED
    BY <1>1, <2>4, <2>5 DEF RowsInv
<1>6. CASE Erase
  <2>1. UNCHANGED <<step, reply>> /\ item' = [u \in Threads |-> "none"]
        /\ \A f \in Events : row'[f] = IF HasRow(f) /\ row[f].attached THEN NoRow ELSE row[f]
    BY <1>6 DEF Erase, handlerVars
  <2>2. \A f \in Events : HasRow(f)' => HasRow(f) /\ row'[f] = row[f] /\ ~row[f].attached
    BY <2>1 DEF HasRow
  <2>3. RowIsOfItsThread' /\ NewHasNothing' /\ OneIsLocked'
    BY <1>0, <2>1, <2>2 DEF RowIsOfItsThread, NewHasNothing, OneIsLocked, HasRow, LockedThread,
       EventThread
  <2>4. BoundIsAlone'
    BY <1>0, <2>1, <2>2 DEF BoundIsAlone, Binding, Reserved, HasRow, Others, EventThread
  <2>5. \A u \in Threads : Holders(u)' = {} /\ item'[u] = "none"
    BY <2>1, <2>2 DEF Holders
  <2>6. ItemHasItsRow'
    BY <2>5 DEF ItemHasItsRow
  <2> QED
    BY <1>1, <2>3, <2>4, <2>6 DEF RowsInv
<1> QED
  BY <1>2, <1>3, <1>4, <1>5, <1>6

-----------------------------------------------------------------------------
\* What Calm says of one delivery.
AtWork(e) ==
    /\ HasRow(e) => ~row[e].old
    /\ Reserved(e) => Live(e)
    /\ step[e] \in {"reserved", "acquired", "looked", "bound"} => Reserved(e)

\* What stopped, failed unheard or stalled stays so.
FaultsStay == Calm' => Calm

\* A step of one delivery is judged by that delivery alone.
LEMMA AtWorkStays ==
    ASSUME ReservationsAreAtWork, FaultsStay, NEW e \in Events, OnlyTouches(e), Calm /\ Calm' => AtWork(e)'
    PROVE  ReservationsAreAtWork'
<1> SUFFICES ASSUME Calm', NEW f \in Events PROVE AtWork(f)'
  BY DEF ReservationsAreAtWork, AtWork
<1>1. Calm
  BY DEF FaultsStay
<1>2. AtWork(f)
  BY <1>1 DEF ReservationsAreAtWork, AtWork
<1>3. CASE f = e
  BY <1>1, <1>3
<1>4. CASE f # e
  BY <1>2, <1>4 DEF AtWork, OnlyTouches, HasRow, Reserved, Live
<1> QED
  BY <1>3, <1>4

\* A new reservation is young and of a delivery at work, and while all is calm none has expired.
LEMMA ReserveKeepsWork ==
    ASSUME RowsInv, ReservationsAreAtWork, NEW e \in Events, NEW p \in Processes, Reserve(e, p)
    PROVE  ReservationsAreAtWork'
<1> SUFFICES ASSUME Calm', NEW f \in Events PROVE AtWork(f)'
  BY DEF ReservationsAreAtWork, AtWork
<1>1. SlackTypeOK /\ row[e] = NoRow /\ step \in [Events -> Steps]
  BY DEF Reserve, NewHasNothing, RowsInv, SlackTypeOK
<1>2. Calm
  BY DEF Reserve, Calm, processVars, faultVars
<1>3. Expired = {}
  BY <1>2 DEF ReservationsAreAtWork, Expired, Reserved
<1>4. /\ \A g \in Events \ {e} : row'[g] = row[g]
      /\ \/ /\ step' = [step EXCEPT ![e] = "reserved"]
            /\ row'[e] \in ThreadRows /\ ~row'[e].attached /\ ~row'[e].old
         \/ /\ step' = [step EXCEPT ![e] = "done"]
            /\ row'[e] = NoRow
  <2>1. \A g \in Events : HasRow(g) \/ row[g] = NoRow
    BY DEF HasRow
  <2> QED
    BY <1>1, <1>3, <2>1, ReserveParts
<1>5. CASE f = e
  BY <1>1, <1>4, <1>5, NoRowIsNone DEF AtWork, HasRow, Reserved, Live
<1>6. CASE f # e
  <2>1. AtWork(f)
    BY <1>2 DEF ReservationsAreAtWork, AtWork
  <2>2. row'[f] = row[f] /\ step'[f] = step[f]
    BY <1>1, <1>4, <1>6
  <2> QED
    BY <2>1, <2>2 DEF AtWork, HasRow, Reserved, Live
<1> QED
  BY <1>5, <1>6

\* A delivery gives its reservation back when it ends, or its submission is attached.
LEMMA HandlerKeepsWork ==
    ASSUME RowsInv, ReservationsAreAtWork, NEW e \in Events, (\E p \in Processes : Refuse(e, p)) \/ Handle(e)
    PROVE  ReservationsAreAtWork'
<1>1. SlackTypeOK /\ NewHasNothing /\ BoundIsAlone
  BY DEF RowsInv
<1>2. step \in [Events -> Steps] /\ row \in [Events -> ThreadRows \cup {NoRow}]
  BY <1>1 DEF SlackTypeOK
<1>3. OnlyTouches(e)
  BY HandlerTouches DEF Touched
<1>4. FaultsStay
  BY DEF FaultsStay, Calm, Refuse, Handle, Acquire, Look, Bind, Commit, GiveUp, processVars, faultVars
<1> SUFFICES ASSUME Calm, Calm' PROVE AtWork(e)'
  BY <1>3, <1>4, AtWorkStays
<1>5. AtWork(e)
  BY DEF ReservationsAreAtWork, AtWork
<1>6. CASE \E p \in Processes : Refuse(e, p)
  <2>1. row'[e] = NoRow /\ step'[e] \in {"done", "failing"}
    BY <1>1, <1>2, <1>6 DEF Refuse, NewHasNothing
  <2> QED
    BY <2>1 DEF AtWork, HasRow, Reserved
<1>7. CASE Acquire(e)
  BY <1>2, <1>5, <1>7 DEF Acquire, AtWork, HasRow, Reserved, Live
<1>8. CASE Look(e)
  BY <1>2, <1>5, <1>8 DEF Look, AtWork, HasRow, Reserved, Live
<1>9. CASE Bind(e)
  BY <1>2, <1>5, <1>9 DEF Bind, AtWork, HasRow, Reserved, Live
<1>10. CASE Commit(e)
  <2>1. HasRow(e)
    BY <1>1, <1>10 DEF Commit, BoundIsAlone, Binding, Reserved
  <2>2. step'[e] \in {"done", "failing"}
    BY <1>2, <1>10 DEF Commit
  <2>3. CASE Submitted(e)
    <3>1. row'[e].attached /\ ~row'[e].old
      BY <1>1, <2>1, <2>3, SubmittedParts DEF Edited
    <3> QED
      BY <2>2, <3>1 DEF AtWork, Reserved
  <2>4. CASE UNCHANGED row /\ step'[e] = "failing"
    BY <1>5, <2>4 DEF AtWork, HasRow, Reserved, Live
  <2> QED
    BY <1>2, <1>10, <2>3, <2>4 DEF Commit
<1>11. CASE GiveUp(e)
  <2>1. row' = [row EXCEPT ![e] = IF Reserved(e) THEN NoRow ELSE @] /\ step'[e] = "done"
    BY <1>2, <1>11 DEF GiveUp, Calm
  <2> QED
    BY <1>2, <1>5, <2>1 DEF AtWork, HasRow, Reserved
<1> QED
  BY <1>6, <1>7, <1>8, <1>9, <1>10, <1>11 DEF Handle

\* While all is calm no lease passes: it would pass over a delivery at work, which is a stall.
LEMMA AgeKeepsWork ==
    ASSUME RowsInv, ReservationsAreAtWork, NEW e \in Events, Age(e)
    PROVE  ReservationsAreAtWork'
<1>1. ~Calm'
  <2> SUFFICES ASSUME Calm' PROVE FALSE
    OBVIOUS
  <2>1. step[e] = "done" /\ Calm /\ Reserved(e)
    BY DEF Age, Calm, processVars
  <2> QED
    BY <2>1 DEF ReservationsAreAtWork, Live
<1> QED
  BY <1>1 DEF ReservationsAreAtWork

\* The rest neither ends a delivery nor ages a reservation, but for a process that stops.
LEMMA OtherKeepsWork ==
    ASSUME RowsInv, ReservationsAreAtWork, NEW p \in Processes, NEW t,
           \/ List(p) \/ Post(p) \/ Mark(p) \/ Start(p) \/ Stop(p) \/ LoseLock(p)
           \/ Settle(t) \/ Retry(t) \/ Close \/ Erase
    PROVE  ReservationsAreAtWork'
<1>1. CASE Stop(p)
  BY <1>1 DEF Stop, ReservationsAreAtWork, Calm
<1>2. CASE Mark(p)
  <2>1. UNCHANGED <<step, stopped, unheard, stalled>>
    BY <1>2 DEF Mark, handlerVars, processVars
  <2>2. PICK r \in marking[p] : r \in Reports /\
             \/ HasRow(r.row) /\ Recorded(r)
             \/ UNCHANGED row
    BY <1>2, MarkParts DEF RowsInv
  <2>3. r.row \in Events
    BY <2>2 DEF Reports
  <2>4. \A f \in Events : /\ HasRow(f)' => HasRow(f)
                          /\ HasRow(f) => HasRow(f)' /\ row'[f].old = row[f].old
                                          /\ row'[f].attached = row[f].attached
    <3>1. CASE UNCHANGED row
      BY <3>1 DEF HasRow
    <3>2. CASE HasRow(r.row) /\ Recorded(r)
      BY <2>3, <3>2, NoRowIsNone DEF HasRow, Recorded, Edited
    <3> QED
      BY <2>2, <3>1, <3>2
  <2> QED
    BY <2>1, <2>4 DEF ReservationsAreAtWork, Calm, Reserved, Live
<1>3. CASE Erase
  <2>1. UNCHANGED <<step, stopped, unheard, stalled>>
        /\ \A f \in Events : row'[f] = IF HasRow(f) /\ row[f].attached THEN NoRow ELSE row[f]
    BY <1>3 DEF Erase, handlerVars, processVars, faultVars
  <2> QED
    BY <2>1 DEF ReservationsAreAtWork, Calm, Reserved, Live, HasRow
<1>4. CASE List(p) \/ Post(p) \/ Start(p) \/ LoseLock(p) \/ Settle(t) \/ Retry(t) \/ Close
  <2>1. UNCHANGED <<step, row, stopped, unheard, stalled>>
    BY <1>4 DEF List, Post, Start, LoseLock, Settle, Retry, Close, handlerVars, processVars, faultVars
  <2> QED
    BY <2>1 DEF ReservationsAreAtWork, Calm, Reserved, Live, HasRow
<1> QED
  BY <1>1, <1>2, <1>3, <1>4

-----------------------------------------------------------------------------
\* A thread is queued, or a delivery of it other than e is at work or was told that it failed.
Answered(t, e) ==
    \/ item[t] # "none"
    \/ \E f \in Events \ {e} : EventThread(f) = t /\ (Live(f) \/ reply[f] = "failed")

Quiet == Calm /\ ~closed

\* Another row of a thread answers for it.
LEMMA RowAnswers ==
    ASSUME RowsInv, ReservationsAreAtWork, Calm, NEW e \in Events, NEW f \in Events \ {e}, HasRow(f),
           EventThread(f) = EventThread(e)
    PROVE  Answered(EventThread(e), e)
<1>1. SlackTypeOK /\ RowIsOfItsThread /\ ItemHasItsRow
  BY DEF RowsInv
<1>2. CASE row[f].attached
  <2>1. row[f].thread = EventThread(e) /\ EventThread(e) \in Threads
    BY <1>1, <1>2, RowFacts DEF RowIsOfItsThread
  <2>2. f \in Holders(EventThread(e))
    BY <1>2, <2>1 DEF Holders
  <2> QED
    BY <1>1, <2>1, <2>2 DEF ItemHasItsRow, Answered
<1>3. CASE ~row[f].attached
  <2>1. Live(f)
    BY <1>3 DEF ReservationsAreAtWork, Reserved
  <2> QED
    BY <2>1 DEF Answered
<1> QED
  BY <1>2, <1>3

\* A step of e that ends it without a word leaves its thread to another, and one that ends it with
\* a word queues the thread or says that it failed.
LEMMA SilenceStays ==
    ASSUME SilenceHasAReason, Quiet' => Quiet, NEW e \in Events, OnlyTouches(e), SlackTypeOK,
           \A t \in Threads : item[t] # "none" => item'[t] # "none",
           Quiet /\ Quiet' => \/ Live(e)'
                              \/ reply'[e] = "failed"
                              \/ reply'[e] # "nothing" /\ (item'[EventThread(e)] # "none" \/ step[e] = "new")
                              \/ Answered(EventThread(e), e),
           step[e] # "done" => reply[e] = "nothing", step[e] # "done"
    PROVE  SilenceHasAReason'
<1> SUFFICES ASSUME Quiet', NEW f \in Events, step'[f] = "done", reply'[f] = "nothing"
             PROVE  \/ item'[EventThread(f)] # "none"
                    \/ \E g \in Events : EventThread(g) = EventThread(f) /\ (Live(g)' \/ reply'[g] = "failed")
  BY DEF SilenceHasAReason, Quiet, Calm, Live, EventThread
<1>0. Quiet
  OBVIOUS
<1>1. EventThread(e) \in Threads /\ EventThread(f) \in Threads
  BY RowFacts
<1>2. \A g \in Events \ {e} : Live(g)' = Live(g) /\ reply'[g] = reply[g] /\ step'[g] = step[g]
  BY DEF OnlyTouches, Live
<1>3. Answered(EventThread(e), e) =>
         \/ item'[EventThread(e)] # "none"
         \/ \E g \in Events : EventThread(g) = EventThread(e) /\ (Live(g)' \/ reply'[g] = "failed")
  BY <1>1, <1>2 DEF Answered
<1>4. CASE f = e
  BY <1>0, <1>3, <1>4 DEF Live
<1>5. CASE f # e
  <2>1. \/ item[EventThread(f)] # "none"
        \/ \E g \in Events : EventThread(g) = EventThread(f) /\ (Live(g) \/ reply[g] = "failed")
    BY <1>0, <1>2, <1>5 DEF SilenceHasAReason, Quiet, Calm, Live
  <2>2. CASE item[EventThread(f)] # "none"
    BY <1>1, <2>2
  <2>3. CASE \E g \in Events \ {e} : EventThread(g) = EventThread(f) /\ (Live(g) \/ reply[g] = "failed")
    BY <1>2, <2>3
  <2>4. CASE EventThread(e) = EventThread(f) /\ (Live(e) \/ reply[e] = "failed")
    <3>1. Live(e) /\ step[e] # "new"
      BY <2>4 DEF Live
    <3> QED
      BY <1>0, <1>3, <2>4, <3>1
  <2> QED
    BY <2>1, <2>2, <2>3, <2>4
<1> QED
  BY <1>4, <1>5

\* A delivery whose message is held ends without a word: the row that holds it is of its thread.
LEMMA ReserveKeepsSilence ==
    ASSUME RowsInv, ReservationsAreAtWork, SilenceHasAReason,
           NEW e \in Events, NEW p \in Processes, Reserve(e, p)
    PROVE  SilenceHasAReason'
<1>1. SlackTypeOK /\ row[e] = NoRow /\ step \in [Events -> Steps] /\ reply[e] = "nothing" /\ step[e] = "new"
  BY DEF Reserve, NewHasNothing, RowsInv, SlackTypeOK
<1>2. UNCHANGED <<reply, item, closed, stopped, unheard, stalled>>
  BY DEF Reserve, processVars, faultVars
<1> SUFFICES ASSUME Quiet', NEW f \in Events, step'[f] = "done", reply'[f] = "nothing"
             PROVE  \/ item[EventThread(f)] # "none"
                    \/ \E g \in Events : EventThread(g) = EventThread(f) /\ (Live(g)' \/ reply[g] = "failed")
  BY <1>2 DEF SilenceHasAReason, Quiet, Calm, Live, EventThread
<1>3. Quiet
  BY <1>2 DEF Quiet, Calm
<1>4. /\ \A g \in Events \ {e} : step'[g] = step[g]
      /\ \/ step'[e] = "reserved"
         \/ \E g \in Events : g # e /\ HasRow(g) /\ (Msg[g] = Msg[e] \/ row[g].thread = Msg[e])
  <2>1. \/ step' = [step EXCEPT ![e] = "reserved"]
        \/ /\ step' = [step EXCEPT ![e] = "done"]
           /\ \E g \in Events \ Expired :
                  g # e /\ HasRow(g) /\ (Msg[g] = Msg[e] \/ row[g].thread = Msg[e])
    BY <1>1, ReserveParts
  <2>2. \A g \in Events \ {e} : step'[g] = step[g]
    BY <1>1, <2>1
  <2>3. step' = [step EXCEPT ![e] = "reserved"] => step'[e] = "reserved"
    BY <1>1
  <2> QED
    BY <2>1, <2>2, <2>3
<1>5. CASE f = e
  <2>1. PICK g \in Events : g # e /\ HasRow(g) /\ (Msg[g] = Msg[e] \/ row[g].thread = Msg[e])
    BY <1>4, <1>5
  <2>2. EventThread(g) = EventThread(e)
    BY <1>1, <2>1, RowFacts DEF RowsInv, RowIsOfItsThread, EventThread
  <2>3. Answered(EventThread(e), e)
    BY <1>3, <2>1, <2>2, RowAnswers DEF Quiet
  <2> QED
    BY <1>4, <1>5, <2>3 DEF Answered, Live
<1>6. CASE f # e
  <2>1. \/ item[EventThread(f)] # "none"
        \/ \E g \in Events : EventThread(g) = EventThread(f) /\ (Live(g) \/ reply[g] = "failed")
    BY <1>2, <1>3, <1>4, <1>6 DEF SilenceHasAReason, Quiet, Calm, Live
  <2> QED
    BY <1>1, <1>4, <2>1 DEF Live
<1> QED
  BY <1>5, <1>6

\* So does one that meets another row of its thread in its look.
LEMMA HandlerKeepsSilence ==
    ASSUME RowsInv, ReservationsAreAtWork, SilenceHasAReason, NEW e \in Events,
           (\E p \in Processes : Refuse(e, p)) \/ Handle(e)
    PROVE  SilenceHasAReason'
<1>1. SlackTypeOK /\ NewHasNothing /\ BoundIsAlone
  BY DEF RowsInv
<1>2. /\ step \in [Events -> Steps] /\ reply \in [Events -> {"nothing", "declined", "failed", "accepted"}]
      /\ item \in [Threads -> {"none", "queued"} \cup Terminal]
  BY <1>1 DEF SlackTypeOK
<1>3. OnlyTouches(e)
  BY HandlerTouches DEF Touched
<1>4. step[e] # "done" /\ reply[e] = "nothing"
  BY <1>1 DEF NewHasNothing, Refuse, Handle, Acquire, Look, Bind, Commit, GiveUp
<1>5. Quiet' => Quiet
  BY DEF Quiet, Calm, Refuse, Handle, Acquire, Look, Bind, Commit, GiveUp, processVars, faultVars
<1>6. EventThread(e) \in Threads
  BY <1>1, RowFacts
<1>7. \A t \in Threads : item[t] # "none" => item'[t] # "none"
  <2>1. UNCHANGED item \/ Submitted(e)
    BY DEF Refuse, Handle, Acquire, Look, Bind, Commit, GiveUp
  <2> QED
    BY <1>2, <1>6, <2>1 DEF Submitted, Terminal
<1>8. ASSUME Quiet, Quiet'
      PROVE  \/ Live(e)'
             \/ reply'[e] = "failed"
             \/ reply'[e] # "nothing" /\ (item'[EventThread(e)] # "none" \/ step[e] = "new")
             \/ Answered(EventThread(e), e)
  <2>1. CASE \E p \in Processes : Refuse(e, p)
    BY <1>2, <2>1 DEF Refuse, Live
  <2>2. CASE Acquire(e)
    BY <1>2, <2>2 DEF Acquire, Live
  <2>3. CASE Look(e)
    <3>1. CASE Others(e) # {}
      <4>1. PICK f \in Events \ {e} : HasRow(f) /\ row[f].thread = EventThread(e)
        BY <3>1 DEF Others
      <4>2. EventThread(f) = EventThread(e)
        BY <1>6, <4>1, RowNamesItsThread DEF RowsInv
      <4> QED
        BY <1>8, <4>1, <4>2, RowAnswers DEF Quiet
    <3>2. CASE Others(e) = {}
      BY <1>2, <2>3, <3>2 DEF Look, Live
    <3> QED
      BY <3>1, <3>2
  <2>4. CASE Bind(e)
    <3>1. Reserved(e)
      BY <1>8, <2>4 DEF Bind, Quiet, ReservationsAreAtWork
    <3> QED
      BY <1>2, <2>4, <3>1 DEF Bind, Live
  <2>5. CASE Commit(e)
    <3>1. CASE step' = [step EXCEPT ![e] = "failing"]
      BY <1>2, <3>1 DEF Live
    <3>2. CASE Submitted(e) /\ reply' = [reply EXCEPT ![e] = "accepted"]
      <4>1. reply'[e] = "accepted"
        BY <1>2, <3>2
      <4>2. item'[EventThread(e)] # "none"
        BY <1>2, <1>6, <3>2 DEF Submitted
      <4> QED
        BY <4>1, <4>2
    <3> QED
      BY <2>5, <3>1, <3>2 DEF Commit
  <2>6. CASE GiveUp(e)
    BY <1>2, <1>8, <2>6 DEF GiveUp, Quiet, Calm
  <2> QED
    BY <2>1, <2>2, <2>3, <2>4, <2>5, <2>6 DEF Handle
<1> QED
  BY <1>1, <1>3, <1>4, <1>5, <1>7, <1>8, SilenceStays

\* No item goes but by the erasure, and no delivery ends but by a process that stops.
LEMMA OtherKeepsSilence ==
    ASSUME RowsInv, SilenceHasAReason, NEW p \in Processes, NEW t, NEW e,
           \/ List(p) \/ Post(p) \/ Mark(p) \/ Start(p) \/ Stop(p) \/ LoseLock(p)
           \/ Settle(t) \/ Retry(t) \/ Close \/ Erase \/ Age(e)
    PROVE  SilenceHasAReason'
<1>1. CASE Stop(p) \/ Close \/ Erase
  BY <1>1 DEF Stop, Close, Erase, SilenceHasAReason
<1>2. CASE List(p) \/ Post(p) \/ Mark(p) \/ Start(p) \/ LoseLock(p) \/ Settle(t) \/ Retry(t) \/ Age(e)
  <2>1. UNCHANGED <<step, reply, closed, stopped, unheard>> /\ (stalled => stalled')
    BY <1>2 DEF List, Post, Mark, Start, LoseLock, Settle, Retry, Age, handlerVars, processVars,
       faultVars
  <2>2. \A u \in Threads : item[u] # "none" => item'[u] # "none"
    <3>1. item \in [Threads -> {"none", "queued"} \cup Terminal]
      BY DEF RowsInv, SlackTypeOK
    <3> QED
      BY <1>2, <3>1 DEF List, Post, Mark, Start, LoseLock, Settle, Retry, Age, Terminal
  <2>3. \A f \in Events : EventThread(f) \in Threads
    BY RowFacts DEF RowsInv
  <2> QED
    BY <2>1, <2>2, <2>3 DEF SilenceHasAReason, EventThread
<1> QED
  BY <1>1, <1>2

-----------------------------------------------------------------------------
\* Nothing that was posted is forgotten.
PostsStay == \A t \in Threads : reported[t] \subseteq reported'[t]

\* What a row says was reported, it said before.
LastsStay == \A e \in Events : HasRow(e)' => row'[e].last = "" \/ (HasRow(e) /\ row'[e].last = row[e].last)

\* Then what is recorded was posted.
LEMMA RecordsStay ==
    ASSUME SlackTypeOK, RecordedWasPosted, PostsStay, LastsStay
    PROVE  RecordedWasPosted'
<1>1. \A e \in Events : EventThread(e) \in Threads
  BY RowFacts
<1> QED
  BY <1>1 DEF RecordedWasPosted, PostsStay, LastsStay, EventThread

\* So was what is about to be recorded, unless more is.
LEMMA MarksStay ==
    ASSUME SlackTypeOK, MarkedWasPosted, PostsStay, \A p \in Processes : marking'[p] \in {marking[p], {}}
    PROVE  MarkedWasPosted'
<1> SUFFICES ASSUME NEW p \in Processes, NEW r \in marking'[p]
             PROVE  r.status \in reported'[EventThread(r.row)]
  BY DEF MarkedWasPosted, EventThread
<1>1. r \in marking[p]
  OBVIOUS
<1>2. marking[p] \in SUBSET Reports
  BY DEF SlackTypeOK
<1>3. r.row \in Events
  BY <1>1, <1>2 DEF Reports
<1>4. EventThread(r.row) \in Threads
  BY <1>3, RowFacts
<1> QED
  BY <1>1, <1>4 DEF MarkedWasPosted, PostsStay

\* No step of a delivery records a report.
LEMMA DeliveryKeepsRecords ==
    ASSUME RowsInv, MarkedWasPosted, RecordedWasPosted, NEW e \in Events,
           (\E p \in Processes : Reserve(e, p) \/ Refuse(e, p)) \/ Handle(e) \/ Age(e)
    PROVE  MarkedWasPosted' /\ RecordedWasPosted'
<1>1. SlackTypeOK /\ NewHasNothing /\ BoundIsAlone
  BY DEF RowsInv
<1>2. UNCHANGED <<marking, reported>>
  BY DEF Reserve, Refuse, Handle, Age, Acquire, Look, Bind, Commit, GiveUp, pollerVars
<1>3. MarkedWasPosted'
  BY <1>1, <1>2, MarksStay DEF PostsStay
<1>4. LastsStay
  <2>1. CASE \E p \in Processes : Reserve(e, p)
    <3>1. PICK p \in Processes : Reserve(e, p)
      BY <2>1
    <3>2. row[e] = NoRow
      BY <1>1, <3>1 DEF Reserve, NewHasNothing
    <3>3. /\ \A f \in Events \ {e} : row'[f] = IF HasRow(f) /\ f \notin Expired THEN row[f] ELSE NoRow
          /\ row'[e] = NoRow \/ row'[e].last = ""
      BY <1>1, <3>1, <3>2, ReserveParts
    <3> QED
      BY <3>3 DEF LastsStay, HasRow
  <2>2. CASE (\E p \in Processes : Refuse(e, p)) \/ Handle(e)
    <3>1. Touched(e)
      BY <2>2, HandlerTouches
    <3>2. \A f \in Events \ {e} : row'[f] = row[f]
      BY <3>1 DEF Touched, OnlyTouches
    <3>3. CASE row'[e] \in {row[e], NoRow}
      BY <3>2, <3>3 DEF LastsStay, HasRow
    <3>4. CASE Binding(e) /\ Submitted(e)
      <4>1. HasRow(e)
        BY <1>1, <3>4 DEF BoundIsAlone, Reserved
      <4>2. row'[e].last = row[e].last
        BY <1>1, <3>4, <4>1, SubmittedParts DEF Edited
      <4> QED
        BY <3>2, <4>1, <4>2 DEF LastsStay, HasRow
    <3> QED
      BY <3>1, <3>3, <3>4 DEF Touched
  <2>3. CASE Age(e)
    <3>1. HasRow(e) /\ Edited(e, row[e].thread, row[e].attached, row[e].last, TRUE)
      BY <1>1, <2>3, AgeParts DEF Age, Reserved
    <3> QED
      BY <3>1 DEF Edited, LastsStay, HasRow
  <2> QED
    BY <2>1, <2>2, <2>3
<1> QED
  BY <1>1, <1>2, <1>3, <1>4, RecordsStay DEF PostsStay

\* A report is recorded after it was posted, and in the thread it was posted in.
LEMMA OtherKeepsRecords ==
    ASSUME RowsInv, MarkedWasPosted, RecordedWasPosted, NEW p \in Processes, NEW t,
           \/ List(p) \/ Post(p) \/ Mark(p) \/ Start(p) \/ Stop(p) \/ LoseLock(p)
           \/ Settle(t) \/ Retry(t) \/ Close \/ Erase
    PROVE  MarkedWasPosted' /\ RecordedWasPosted'
<1>0. SlackTypeOK
  BY DEF RowsInv
<1>1. /\ marking \in [Processes -> SUBSET Reports] /\ reported \in [Threads -> SUBSET Terminal]
      /\ todo \in [Processes -> SUBSET Reports]
  BY <1>0 DEF SlackTypeOK
<1>2. CASE List(p) \/ Start(p) \/ LoseLock(p) \/ Settle(t) \/ Retry(t) \/ Close
  <2>1. UNCHANGED <<row, marking, reported>>
    BY <1>2 DEF List, Start, LoseLock, Settle, Retry, Close, pollerVars
  <2> QED
    BY <1>0, <2>1, MarksStay, RecordsStay DEF PostsStay, LastsStay, HasRow
<1>3. CASE Stop(p) \/ Erase
  <2>1. /\ UNCHANGED reported /\ \A q \in Processes : marking'[q] \in {marking[q], {}}
        /\ \A e \in Events : row'[e] \in {row[e], NoRow}
    BY <1>1, <1>3 DEF Stop, Erase, pollerVars
  <2>2. LastsStay
    BY <2>1 DEF LastsStay, HasRow
  <2> QED
    BY <1>0, <2>1, <2>2, MarksStay, RecordsStay DEF PostsStay
<1>4. CASE Post(p)
  <2>1. PICK r \in todo[p] :
           \/ /\ marking' = [marking EXCEPT ![p] = {r}]
              /\ reported' = [reported EXCEPT ![EventThread(r.row)] = @ \cup {r.status}]
           \/ UNCHANGED <<marking, reported>>
    BY <1>4 DEF Post
  <2>2. r.row \in Events
    <3>1. todo[p] \in SUBSET Reports
      BY <1>1
    <3> QED
      BY <3>1 DEF Reports
  <2>3. EventThread(r.row) \in Threads
    BY <1>0, <2>2, RowFacts
  <2>4. PostsStay
    BY <1>1, <2>1, <2>3 DEF PostsStay
  <2>5. LastsStay
    BY <1>4 DEF Post, LastsStay, HasRow
  <2>6. CASE UNCHANGED <<marking, reported>>
    BY <1>0, <2>4, <2>5, <2>6, MarksStay, RecordsStay
  <2>7. CASE /\ marking' = [marking EXCEPT ![p] = {r}]
             /\ reported' = [reported EXCEPT ![EventThread(r.row)] = @ \cup {r.status}]
    <3>1. r.status \in reported'[EventThread(r.row)]
      BY <1>1, <2>3, <2>7
    <3>2. \A q \in Processes \ {p} : \A s \in marking[q] : s.status \in reported'[EventThread(s.row)]
      <4> SUFFICES ASSUME NEW q \in Processes \ {p}, NEW s \in marking[q]
                   PROVE  s.status \in reported'[EventThread(s.row)]
        OBVIOUS
      <4>1. marking[q] \in SUBSET Reports
        BY <1>1
      <4>2. s.row \in Events
        BY <4>1 DEF Reports
      <4>3. EventThread(s.row) \in Threads
        BY <1>0, <4>2, RowFacts
      <4> QED
        BY <2>4, <4>3 DEF MarkedWasPosted, PostsStay
    <3>3. MarkedWasPosted'
      BY <1>1, <2>7, <3>1, <3>2 DEF MarkedWasPosted, EventThread
    <3> QED
      BY <1>0, <2>4, <2>5, <3>3, RecordsStay
  <2> QED
    BY <2>1, <2>6, <2>7
<1>5. CASE Mark(p)
  <2>1. UNCHANGED reported /\ \A q \in Processes : marking'[q] \in {marking[q], {}}
    BY <1>1, <1>5 DEF Mark
  <2>2. MarkedWasPosted'
    BY <1>0, <2>1, MarksStay DEF PostsStay
  <2>3. PICK r \in marking[p] : r \in Reports /\
             \/ HasRow(r.row) /\ Recorded(r)
             \/ UNCHANGED row
    BY <1>0, <1>5, MarkParts
  <2>4. r.status \in reported'[EventThread(r.row)]
    BY <2>1 DEF MarkedWasPosted
  <2>5. RecordedWasPosted'
    BY <2>1, <2>3, <2>4 DEF RecordedWasPosted, Recorded, Edited, HasRow, EventThread
  <2> QED
    BY <2>2, <2>5
<1> QED
  BY <1>2, <1>3, <1>4, <1>5

-----------------------------------------------------------------------------
\* A step that changes nothing.
LEMMA KeptAll ==
    ASSUME SlackInv, UNCHANGED slackVars
    PROVE  SlackInv'
<1>1. UNCHANGED <<step, host, row, item, closed, reply, up, lock, todo, marking, shown, reported, troubles,
                  stopped, unheard, stalled, doubled>>
  BY DEF slackVars, handlerVars, processVars, pollerVars, faultVars
<1>2. SlackTypeOK' /\ RowIsOfItsThread' /\ NewHasNothing' /\ OneIsLocked'
  BY <1>1 DEF SlackInv, RowsInv, SlackTypeOK, RowIsOfItsThread, NewHasNothing, OneIsLocked,
     HasRow, LockedThread,
     EventThread
<1>3. BoundIsAlone' /\ ItemHasItsRow'
  BY <1>1 DEF SlackInv, RowsInv, BoundIsAlone, ItemHasItsRow, Binding, Reserved, Others, HasRow,
     EventThread, Holders
<1>4. ReservationsAreAtWork' /\ SilenceHasAReason'
  BY <1>1 DEF SlackInv, ReservationsAreAtWork, SilenceHasAReason, Calm, HasRow, Reserved, Live,
     EventThread
<1>5. MarkedWasPosted' /\ RecordedWasPosted'
  BY <1>1 DEF SlackInv, MarkedWasPosted, RecordedWasPosted, HasRow, EventThread
<1> QED
  BY <1>2, <1>3, <1>4, <1>5 DEF SlackInv, RowsInv

\* The invariant holds from the start and through every step.
LEMMA SlackInvHolds == SlackSpec => []SlackInv
<1>1. SlackInit => SlackInv
  <2> SUFFICES ASSUME SlackInit PROVE SlackInv
    OBVIOUS
  <2>1. (CHOOSE p \in Processes : TRUE) \in Processes
    BY SlackAssumption
  <2>2. SlackTypeOK
    <3>0. MaxTroubles \in Nat /\ troubles = 0
      BY SlackAssumption DEF SlackInit
    <3>1. troubles \in 0 .. MaxTroubles
      BY <3>0
    <3>2. step \in [Events -> Steps] /\ host \in [Events -> Processes]
      BY <2>1 DEF SlackInit, Steps
    <3> QED
      BY <3>1, <3>2 DEF SlackInit, SlackTypeOK
  <2>3. \A e \in Events : step[e] = "new" /\ ~HasRow(e) /\ reply[e] = "nothing" /\ row[e] = NoRow
    BY DEF SlackInit, HasRow
  <2>4. \A t \in Threads : item[t] = "none" /\ Holders(t) = {}
    BY <2>3 DEF SlackInit, Holders
  <2>5. ItemHasItsRow
    BY <2>4 DEF ItemHasItsRow
  <2>6. RowIsOfItsThread /\ NewHasNothing /\ OneIsLocked /\ BoundIsAlone
    BY <2>3 DEF RowIsOfItsThread, NewHasNothing, OneIsLocked, BoundIsAlone, LockedThread, Binding
  <2>7. ReservationsAreAtWork /\ SilenceHasAReason /\ RecordedWasPosted
    BY <2>3 DEF ReservationsAreAtWork, SilenceHasAReason, RecordedWasPosted, Reserved
  <2>8. MarkedWasPosted
    BY DEF SlackInit, MarkedWasPosted
  <2> QED
    BY <2>2, <2>5, <2>6, <2>7, <2>8 DEF SlackInv, RowsInv
<1>2. SlackInv /\ [SlackNext]_slackVars => SlackInv'
  <2> SUFFICES ASSUME SlackInv, [SlackNext]_slackVars PROVE SlackInv'
    OBVIOUS
  <2>0. RowsInv /\ ReservationsAreAtWork /\ SilenceHasAReason /\ MarkedWasPosted /\ RecordedWasPosted
    BY DEF SlackInv
  <2>p. \E p \in Processes : TRUE
    BY SlackAssumption
  <2>1. ASSUME NEW e \in Events, NEW p \in Processes, Reserve(e, p) PROVE SlackInv'
    BY <2>0, <2>1, ReserveKeepsRows, ReserveKeepsWork, ReserveKeepsSilence,
       DeliveryKeepsRecords DEF SlackInv
  <2>2. ASSUME NEW e \in Events, (\E p \in Processes : Refuse(e, p)) \/ Handle(e) PROVE SlackInv'
    BY <2>0, <2>2, TouchedKeepsRows, HandlerKeepsWork, HandlerKeepsSilence,
       DeliveryKeepsRecords DEF SlackInv
  <2>3. ASSUME NEW e \in Events, Age(e) PROVE SlackInv'
    BY <2>0, <2>3, <2>p, AgeKeepsRows, AgeKeepsWork, OtherKeepsSilence, DeliveryKeepsRecords
       DEF SlackInv
  <2>4. ASSUME NEW p \in Processes, NEW t,
               \/ List(p) \/ Post(p) \/ Mark(p) \/ Start(p) \/ Stop(p) \/ LoseLock(p)
               \/ Settle(t) \/ Retry(t) \/ Close \/ Erase
        PROVE  SlackInv'
    BY <2>0, <2>4, OtherKeepsRows, OtherKeepsWork, OtherKeepsSilence, OtherKeepsRecords DEF SlackInv
  <2>5. CASE UNCHANGED slackVars
    BY <2>0, <2>5, KeptAll
  <2>6. CASE \E e \in Events : \/ \E p \in Processes : Reserve(e, p) \/ Refuse(e, p)
                               \/ Handle(e) \/ Age(e)
    BY <2>1, <2>2, <2>3, <2>6
  <2>7. CASE \E p \in Processes : Poll(p) \/ Start(p) \/ Stop(p) \/ LoseLock(p)
    BY <2>4, <2>7 DEF Poll
  <2>8. CASE (\E t \in Threads : Settle(t) \/ Retry(t)) \/ Close \/ Erase
    BY <2>4, <2>8, <2>p
  <2> QED
    BY <2>5, <2>6, <2>7, <2>8 DEF SlackNext
<1> QED
  BY <1>1, <1>2, PTL DEF SlackSpec

\* Whatever is delivered twice, expires, stops, fails or is erased, a thread that is queued has one
\* row that holds its item, a delivery that ended without a word left its thread to another or there
\* is a reason, and no status is recorded that was not posted (slack/store.py, slack/capture.py,
\* slack/poller.py).
THEOREM ThreadsAreAnswered == SlackSpec => []ThreadIsAnswered
<1>1. SlackInv => ThreadIsAnswered
  <2> SUFFICES ASSUME SlackInv PROVE OneRowHoldsTheItem
    BY DEF SlackInv, ThreadIsAnswered
  <2> SUFFICES ASSUME NEW t \in Threads
               PROVE  Cardinality(Holders(t)) = IF item[t] = "none" THEN 0 ELSE 1
    BY DEF OneRowHoldsTheItem, Holders
  <2>1. CASE item[t] = "none"
    BY <2>1, FS_EmptySet DEF SlackInv, RowsInv, ItemHasItsRow
  <2>2. CASE item[t] # "none"
    <3>1. PICK e \in Events : Holders(t) = {e}
      BY <2>2 DEF SlackInv, RowsInv, ItemHasItsRow
    <3>2. Cardinality({e}) = 1
      BY FS_Singleton
    <3> QED
      BY <2>2, <3>1, <3>2
  <2> QED
    BY <2>1, <2>2
<1> QED
  BY <1>1, SlackInvHolds, PTL

\* The deliveries, rows, items, reports and processes keep their types.
THEOREM SlackTypeCorrect == SlackSpec => []SlackTypeOK
<1>1. SlackInv => SlackTypeOK
  BY DEF SlackInv, RowsInv
<1> QED
  BY <1>1, SlackInvHolds, PTL
=============================================================================
