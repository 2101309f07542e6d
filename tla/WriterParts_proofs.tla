------------------------- MODULE WriterParts_proofs -------------------------
(***************************************************************************)
(* Proofs about what happens inside one operation of the writer or around  *)
(* many of them: the budget of the calls of the model (ModelCalls), the     *)
(* names pages get (PageNames), the repairs of the gardener (GardenRepair), *)
(* the refiling of a workspace (Refile), and the waking and stopping of the *)
(* writer (WriterWake).  Each part has an inductive invariant of its own;   *)
(* the last section carries the results to the specification of them all    *)
(* (WriterParts).                                                           *)
(***************************************************************************)
EXTENDS WriterParts, WriterWake, FiniteSetTheorems, TLAPS

-----------------------------------------------------------------------------
(* The calls of the model: however long the model takes, whichever of two raced runs *)
(* answers and however calls fail, requests and slots are counted.                    *)

Run == [state : {"none", "asking", "valid", "failed", "exhausted"}, made : Nat]

\* The two runs of the call under way: there are none between calls, one that was started made between
\* one request and as many as its call may, and one races the other only when HedgeAfter is over.
RunsInv ==
    /\ runs \in [1 .. 2 -> Run]
    /\ \A r \in 1 .. 2 : runs[r].made <= limit /\ (runs[r].state = "none" <=> runs[r].made = 0)
    /\ runs[1].state = "none" => runs[2].state = "none"
    /\ ~Calling => runs[1].state = "none"
    /\ runs[2].state # "none" => elapsed >= HedgeAfter

\* The requests the attempt had sent before the call under way.
SentEarlier == sent - (runs[1].made + runs[2].made)

\* What the plan cost: as many requests as count, or with those of a run that was raced, which took
\* at least HedgeAfter of the attempt.
PlanCost(total) ==
    \/ total = used
    \/ /\ spent >= HedgeAfter
       /\ used <= total /\ total <= used + PlanLimit

BudgetInv ==
    /\ stage \in {"claimed", "planning", "gates", "revising", "ended"}
    /\ limit \in Nat /\ elapsed \in Nat /\ spent \in Nat /\ used \in Nat /\ sent \in Nat
    /\ RequestsPerFiling
    /\ stage = "claimed" => sent = 0 /\ used = 0 /\ spent = 0
    /\ stage = "planning" => limit = PlanLimit /\ used = 0 /\ spent = 0 /\ SentEarlier = 0
    /\ stage = "gates" => used \in 1 .. PlanLimit /\ PlanCost(sent)
    /\ stage = "revising" =>
          /\ used \in 1 .. PlanLimit /\ limit = MaxTurns - used /\ PlanCost(SentEarlier)
          /\ spent >= HedgeAfter => runs[2].state = "none"

\* Every waiting caller and every deserted request has a slot.
SlotsInv ==
    /\ free \in Nat /\ deserted \in Nat /\ IsFiniteSet(asking)
    /\ SlotsAreTheRequests

CallsInv == RunsInv /\ BudgetInv /\ ErrorsAreOfEveryRun /\ SlotsInv
-----------------------------------------------------------------------------
\* The limit of a plan leaves one request, of two at least.
LEMMA PlanLeavesOne == PlanLimit \in Nat \ {0} /\ PlanLimit = MaxTurns - 1
  BY ModelCallsAssumption DEF PlanLimit

\* The filing's actions leave the slots alone, and the slots' actions the filing.
LEMMA SlotsUntouched == SlotsInv /\ UNCHANGED slotVars => SlotsInv'
  BY DEF SlotsInv, SlotsAreTheRequests, slotVars

\* The slots are no part of what is kept of a filing.
LEMMA FilingUntouched ==
    RunsInv /\ BudgetInv /\ ErrorsAreOfEveryRun /\ UNCHANGED filingVars
        => (RunsInv /\ BudgetInv /\ ErrorsAreOfEveryRun)'
  BY DEF RunsInv, BudgetInv, ErrorsAreOfEveryRun, RequestsPerFiling, PlanCost, SentEarlier, Calling,
         filingVars

\* Nothing was asked to begin with, and every slot is free.
LEMMA CallsInit_Inv == CallsInit => CallsInv
<1> SUFFICES ASSUME CallsInit PROVE CallsInv
  OBVIOUS
<1> USE DEF CallsInit
<1>1. RunsInv
  BY DEF RunsInv, NoRuns, NoRun, Run, Calling
<1>2. BudgetInv
  BY ModelCallsAssumption DEF BudgetInv, RequestsPerFiling
<1>3. ErrorsAreOfEveryRun
  BY DEF ErrorsAreOfEveryRun, NoRuns, NoRun, Failures
<1>4. SlotsInv
  BY ModelCallsAssumption, FS_EmptySet DEF SlotsInv, SlotsAreTheRequests
<1> QED
  BY <1>1, <1>2, <1>3, <1>4 DEF CallsInv

\* A call of the model starts with one run that has made one request.
LEMMA StartsWithOne ==
    \A next \in {"planning", "revising"}, requests \in Nat \ {0}, sofar \in Nat :
        StartCall(next, requests, sofar)
            => /\ RunsInv' /\ ErrorsAreOfEveryRun'
               /\ SentEarlier' = sofar /\ sent' = sofar + 1
               /\ runs'[1].made = 1 /\ runs'[2].made = 0 /\ runs'[2].state = "none"
               /\ limit' = requests /\ stage' = next /\ elapsed' = 0
  BY DEF StartCall, RunsInv, ErrorsAreOfEveryRun, SentEarlier, NewRun, NoRun, NoRuns, Run, Failures,
         Calling

\* A plan is one run with one request made, within the limit of a plan.
LEMMA PlanStep == CallsInv /\ Plan => RunsInv' /\ BudgetInv' /\ ErrorsAreOfEveryRun'
<1> SUFFICES ASSUME CallsInv, Plan PROVE RunsInv' /\ BudgetInv' /\ ErrorsAreOfEveryRun'
  OBVIOUS
<1>1. StartCall("planning", PlanLimit, 0)
  BY DEF Plan
<1> DEFINE Started(next, requests, sofar) ==
               /\ RunsInv' /\ ErrorsAreOfEveryRun'
               /\ SentEarlier' = sofar /\ sent' = sofar + 1
               /\ runs'[1].made = 1 /\ runs'[2].made = 0 /\ runs'[2].state = "none"
               /\ limit' = requests /\ stage' = next /\ elapsed' = 0
<1>a. 0 \in Nat /\ PlanLimit \in Nat \ {0} /\ "planning" \in {"planning", "revising"}
  BY PlanLeavesOne
<1>2. Started("planning", PlanLimit, 0)
  BY <1>1, <1>a, StartsWithOne
<1>3. used' = 0 /\ spent' = 0
  BY DEF Plan, CallsInv, BudgetInv
<1>4. BudgetInv'
  BY <1>2, <1>3, PlanLeavesOne, ModelCallsAssumption DEF BudgetInv, RequestsPerFiling
<1> QED
  BY <1>2, <1>4

\* An answer is counted with the run that gave it, and leaves what the others made.
LEMMA AnswerStep ==
    ASSUME CallsInv, NEW r \in 1 .. 2, Answer(r)
    PROVE  RunsInv' /\ BudgetInv' /\ ErrorsAreOfEveryRun'
<1> DEFINE o == 3 - r
<1>1. runs \in [1 .. 2 -> Run] /\ runs[r].state = "asking" /\ runs[r].made \in 1 .. limit
      /\ o \in 1 .. 2 /\ o # r /\ runs[o].made \in Nat /\ runs[o].made <= limit
  BY DEF CallsInv, RunsInv, Answer, Run
<1>2. /\ stage' = stage /\ limit' = limit /\ elapsed' = elapsed /\ spent' = spent /\ used' = used
      /\ raised' = raised
      /\ runs' \in [1 .. 2 -> Run] /\ runs'[o] = runs[o] /\ runs'[r].state # "none"
      /\ runs'[r].made - runs[r].made = sent' - sent
      /\ runs'[r].made \in runs[r].made .. limit /\ sent' >= sent /\ sent' \in Nat
  BY <1>1 DEF CallsInv, BudgetInv, Answer, Run, Failures
<1>3. RunsInv'
  BY <1>1, <1>2 DEF CallsInv, RunsInv, Calling
<1>4. SentEarlier' = SentEarlier
  BY <1>1, <1>2 DEF SentEarlier, CallsInv, BudgetInv, Run
<1>5. stage \in {"planning", "revising"}
  BY DEF Answer, Calling
<1>6. /\ \A k \in 1 .. 2 : runs'[k].made \in Nat /\ runs'[k].made <= limit
      /\ runs'[2].state = "none" => runs'[2].made = 0
  BY <1>2, <1>3 DEF RunsInv, Run
<1>7. RequestsPerFiling'
  <2>1. sent' = SentEarlier + runs'[1].made + runs'[2].made
    BY <1>2, <1>4, <1>6 DEF SentEarlier, CallsInv, BudgetInv
  <2>2. CASE stage = "planning"
    BY <2>1, <2>2, <1>2, <1>6, PlanLeavesOne, ModelCallsAssumption
         DEF RequestsPerFiling, CallsInv, BudgetInv
  <2>3. CASE stage = "revising"
    <3>1. used \in 1 .. PlanLimit /\ limit = MaxTurns - used /\ PlanCost(SentEarlier)
          /\ (spent >= HedgeAfter => runs'[2].made = 0)
      BY <2>3, <1>1, <1>2, <1>6 DEF CallsInv, BudgetInv, RunsInv, Run
    <3>2. SentEarlier \in Nat /\ used <= SentEarlier
      BY <3>1, PlanLeavesOne, ModelCallsAssumption, <1>1
         DEF PlanCost, SentEarlier, CallsInv, BudgetInv, Run
    <3> QED
      BY <3>1, <3>2, <2>1, <1>2, <1>6, PlanLeavesOne, ModelCallsAssumption
         DEF RequestsPerFiling, CallsInv, BudgetInv, PlanCost
  <2> QED
    BY <1>5, <2>2, <2>3
<1>8. BudgetInv'
  BY <1>1, <1>2, <1>4, <1>5, <1>7 DEF CallsInv, BudgetInv, PlanCost, RunsInv
<1> QED
  BY <1>2, <1>3, <1>8 DEF CallsInv, ErrorsAreOfEveryRun

\* The run whose plan is taken is paid for, and the other one was raced only after HedgeAfter.
LEMMA ReturnStep == CallsInv /\ Return => RunsInv' /\ BudgetInv' /\ ErrorsAreOfEveryRun'
<1> SUFFICES ASSUME CallsInv, Return PROVE RunsInv' /\ BudgetInv' /\ ErrorsAreOfEveryRun'
  OBVIOUS
<1>1. PICK r \in 1 .. 2 : runs[r].state = "valid" /\ used' = used + runs[r].made
  BY DEF Return
<1>a. stage \in {"planning", "revising"}
  BY DEF Return, Calling
<1>2. /\ runs' = NoRuns /\ limit' = 0 /\ elapsed' = 0 /\ sent' = sent /\ raised' = raised
      /\ spent' = spent + elapsed
      /\ stage' = IF stage = "planning" THEN "gates" ELSE "ended"
  BY DEF Return
<1>b. r = 1 \/ r = 2
  OBVIOUS
<1>3. RunsInv'
  BY <1>2 DEF RunsInv, NoRuns, NoRun, Run, Calling
<1>4. /\ runs[1].made \in Nat /\ runs[2].made \in Nat /\ limit \in Nat
      /\ runs[1].made <= limit /\ runs[2].made <= limit /\ runs[r].made >= 1
      /\ runs[2].made = 0 => r = 1
      /\ runs[2].made = 0 \/ elapsed >= HedgeAfter
  BY <1>1 DEF CallsInv, RunsInv, BudgetInv, Run
<1>5. sent = SentEarlier + runs[1].made + runs[2].made /\ SentEarlier \in Int
  BY <1>4 DEF SentEarlier, CallsInv, BudgetInv
<1>6. CASE stage = "planning"
  <2>1. /\ sent = runs[1].made + runs[2].made /\ limit = PlanLimit
        /\ used' = runs[r].made /\ spent' = elapsed
        /\ elapsed \in Nat
    BY <1>1, <1>2, <1>4, <1>5, <1>6 DEF CallsInv, BudgetInv
  <2>2. used' \in 1 .. PlanLimit /\ used' <= sent /\ sent <= used' + PlanLimit
    BY <2>1, <1>b, <1>4, PlanLeavesOne
  <2>3. sent = used' \/ spent' >= HedgeAfter
    BY <2>1, <1>b, <1>4
  <2> QED
    BY <2>1, <2>2, <2>3, <1>2, <1>3, <1>6, PlanLeavesOne, ModelCallsAssumption
       DEF CallsInv, BudgetInv, RequestsPerFiling, PlanCost, ErrorsAreOfEveryRun
<1>7. CASE stage = "revising"
  <2>1. used \in 1 .. PlanLimit /\ limit = MaxTurns - used /\ used <= SentEarlier
    BY <1>5, <1>7, PlanLeavesOne DEF CallsInv, BudgetInv, PlanCost
  <2>2. used' <= MaxTurns /\ used' <= sent /\ used' \in Nat
    BY <2>1, <1>1, <1>4, <1>5, PlanLeavesOne, ModelCallsAssumption
  <2> QED
    BY <2>2, <1>2, <1>3, <1>7 DEF CallsInv, BudgetInv, RequestsPerFiling, ErrorsAreOfEveryRun
<1> QED
  BY <1>a, <1>6, <1>7

\* An attempt that ends leaves its counts as they are.
LEMMA EndsWithinBudget ==
    ASSUME CallsInv, NEW how, End(how), UNCHANGED sent
    PROVE  RunsInv' /\ BudgetInv'
<1>1. RunsInv'
  BY DEF End, RunsInv, NoRuns, NoRun, Run, Calling
<1>2. BudgetInv'
  BY DEF End, CallsInv, BudgetInv, RequestsPerFiling
<1> QED
  BY <1>1, <1>2

\* An error ends the call with no more requests than it had, and none of its runs may answer.
LEMMA FailStep == CallsInv /\ Fail => RunsInv' /\ BudgetInv' /\ ErrorsAreOfEveryRun'
<1> SUFFICES ASSUME CallsInv, Fail PROVE RunsInv' /\ BudgetInv' /\ ErrorsAreOfEveryRun'
  OBVIOUS
<1>1. PICK how : End(how)
  BY DEF Fail
<1>2. UNCHANGED sent /\ raised' = runs /\ Lost
  BY DEF Fail
<1>3. RunsInv' /\ BudgetInv'
  BY <1>1, <1>2, EndsWithinBudget
<1>4. ErrorsAreOfEveryRun'
  BY <1>2 DEF Lost, ErrorsAreOfEveryRun, Failures
<1> QED
  BY <1>3, <1>4

\* A call that runs out of time ends with no more requests than it had.
LEMMA RunOutStep == CallsInv /\ RunOut => RunsInv' /\ BudgetInv' /\ ErrorsAreOfEveryRun'
<1> SUFFICES ASSUME CallsInv, RunOut PROVE RunsInv' /\ BudgetInv' /\ ErrorsAreOfEveryRun'
  OBVIOUS
<1>1. PICK how : End(how)
  BY DEF RunOut
<1>2. UNCHANGED sent /\ UNCHANGED raised
  BY DEF RunOut
<1> QED
  BY <1>1, <1>2, EndsWithinBudget DEF CallsInv, ErrorsAreOfEveryRun

\* A run is raced only where the other call of the attempt was not: both together would take longer
\* than the attempt may.
LEMMA RaceStep == CallsInv /\ Race => RunsInv' /\ BudgetInv' /\ ErrorsAreOfEveryRun'
<1> SUFFICES ASSUME CallsInv, Race PROVE RunsInv' /\ BudgetInv' /\ ErrorsAreOfEveryRun'
  OBVIOUS
<1>1. /\ runs[2].state = "none" /\ elapsed = HedgeAfter /\ spent + elapsed < Budget
      /\ runs' = [runs EXCEPT ![2] = NewRun] /\ sent' = sent + 1
      /\ UNCHANGED <<stage, limit, elapsed, spent, used, raised>>
      /\ elapsed \in Nat /\ spent \in Nat
      /\ stage \in {"planning", "revising"}
  BY ModelCallsAssumption DEF Race, Waiting, Hedge, Alone, Expired, Calling, CallsInv, BudgetInv
<1>2. spent < HedgeAfter
  BY <1>1, ModelCallsAssumption
<1>3. /\ runs \in [1 .. 2 -> Run] /\ runs[1].state # "none" /\ runs[2].made = 0
      /\ runs[1].made \in 1 .. limit /\ limit \in Nat
      /\ runs'[1] = runs[1] /\ runs'[2] = NewRun /\ runs' \in [1 .. 2 -> Run]
  <2>1. \E k \in 1 .. 2 : runs[k].state = "asking"
    BY DEF Race, Waiting
  <2>2. runs[1].state # "none"
    BY <2>1, <1>1 DEF CallsInv, RunsInv
  <2> QED
    BY <2>2, <1>1 DEF CallsInv, RunsInv, BudgetInv, Run, NewRun
<1>4. RunsInv'
  BY <1>1, <1>3 DEF RunsInv, NewRun, CallsInv, Calling
<1>5. SentEarlier' = SentEarlier /\ sent' = SentEarlier + runs[1].made + 1 /\ SentEarlier \in Int
  BY <1>1, <1>3 DEF SentEarlier, NewRun, CallsInv, BudgetInv, Run
<1>6. RequestsPerFiling'
  <2>1. CASE stage = "planning"
    BY <2>1, <1>1, <1>3, <1>5, PlanLeavesOne, ModelCallsAssumption
         DEF RequestsPerFiling, CallsInv, BudgetInv
  <2>2. CASE stage = "revising"
    <3>1. used \in 1 .. PlanLimit /\ limit = MaxTurns - used /\ SentEarlier = used
      BY <2>2, <1>2, <1>1, ModelCallsAssumption DEF CallsInv, BudgetInv, PlanCost
    <3> QED
      BY <3>1, <1>1, <1>3, <1>5, PlanLeavesOne, ModelCallsAssumption
         DEF RequestsPerFiling, CallsInv, BudgetInv
  <2> QED
    BY <1>1, <2>1, <2>2
<1>7. BudgetInv'
  BY <1>1, <1>2, <1>5, <1>6, ModelCallsAssumption DEF CallsInv, BudgetInv, PlanCost
<1> QED
  BY <1>1, <1>4, <1>7 DEF CallsInv, ErrorsAreOfEveryRun

\* Time alone sends nothing.
LEMMA TickStep == CallsInv /\ Tick => RunsInv' /\ BudgetInv' /\ ErrorsAreOfEveryRun'
<1> SUFFICES ASSUME CallsInv, Tick PROVE RunsInv' /\ BudgetInv' /\ ErrorsAreOfEveryRun'
  OBVIOUS
<1>1. elapsed' = elapsed + 1 /\ UNCHANGED <<stage, runs, limit, spent, used, sent, raised>>
  BY DEF Tick
<1>2. RunsInv'
  BY <1>1, ModelCallsAssumption DEF CallsInv, RunsInv, BudgetInv, Calling
<1>3. BudgetInv'
  BY <1>1 DEF CallsInv, BudgetInv, RequestsPerFiling, PlanCost, SentEarlier
<1> QED
  BY <1>1, <1>2, <1>3 DEF CallsInv, ErrorsAreOfEveryRun

\* A plan passes the gates, or is corrected with the requests that are left.
LEMMA GatesStep == CallsInv /\ Gates => RunsInv' /\ BudgetInv' /\ ErrorsAreOfEveryRun'
<1> SUFFICES ASSUME CallsInv, Gates PROVE RunsInv' /\ BudgetInv' /\ ErrorsAreOfEveryRun'
  OBVIOUS
<1>1. CASE UNCHANGED <<sent, raised>> /\ \E how : End(how)
  BY <1>1, EndsWithinBudget DEF CallsInv, ErrorsAreOfEveryRun
<1>2. CASE StartCall("revising", Remaining, sent) /\ UNCHANGED <<spent, used, outcome>>
  <2>1. used \in 1 .. PlanLimit /\ PlanCost(sent) /\ sent \in Nat /\ spent \in Nat
    BY DEF Gates, CallsInv, BudgetInv
  <2>2. Remaining \in Nat \ {0} /\ Remaining = MaxTurns - used
    BY <2>1, PlanLeavesOne, ModelCallsAssumption DEF Remaining
  <2> DEFINE Started(next, requests, sofar) ==
                 /\ RunsInv' /\ ErrorsAreOfEveryRun'
                 /\ SentEarlier' = sofar /\ sent' = sofar + 1
                 /\ runs'[1].made = 1 /\ runs'[2].made = 0 /\ runs'[2].state = "none"
                 /\ limit' = requests /\ stage' = next /\ elapsed' = 0
  <2>a. "revising" \in {"planning", "revising"}
    OBVIOUS
  <2>3. Started("revising", Remaining, sent)
    BY <1>2, <2>1, <2>2, <2>a, StartsWithOne
  <2>4. used' = used /\ spent' = spent /\ used \in Nat
    BY <1>2, <2>1, PlanLeavesOne
  <2>5. PlanCost(SentEarlier)'
    BY <2>1, <2>3, <2>4, PlanLeavesOne DEF PlanCost, PlanLimit
  <2>6. RequestsPerFiling'
    BY <2>1, <2>3, <2>4, PlanLeavesOne, ModelCallsAssumption DEF RequestsPerFiling, PlanCost
  <2>7. BudgetInv'
    BY <2>1, <2>2, <2>3, <2>4, <2>5, <2>6, PlanLeavesOne, ModelCallsAssumption DEF BudgetInv, PlanLimit
  <2> QED
    BY <2>3, <2>7
<1> QED
  BY <1>1, <1>2 DEF Gates

\* A filing that is claimed again begins with nothing sent.
LEMMA ClaimAgainStep == CallsInv /\ ClaimAgain => RunsInv' /\ BudgetInv' /\ ErrorsAreOfEveryRun'
<1> SUFFICES ASSUME CallsInv, ClaimAgain PROVE RunsInv' /\ BudgetInv' /\ ErrorsAreOfEveryRun'
  OBVIOUS
<1>1. /\ stage = "ended" /\ stage' = "claimed" /\ spent' = 0 /\ used' = 0 /\ sent' = 0
      /\ raised' = NoRuns /\ UNCHANGED <<runs, limit, elapsed>>
  BY DEF ClaimAgain
<1>2. RunsInv'
  BY <1>1 DEF CallsInv, RunsInv, Calling
<1>3. BudgetInv'
  BY <1>1, ModelCallsAssumption DEF CallsInv, BudgetInv, RequestsPerFiling
<1>4. ErrorsAreOfEveryRun'
  BY <1>1 DEF ErrorsAreOfEveryRun, NoRuns, NoRun, Failures
<1> QED
  BY <1>2, <1>3, <1>4

\* A slot moves from the free ones to a caller, and from a caller to the free ones or to a deserted
\* request.
LEMMA SlotsStep ==
    ASSUME SlotsInv, NEW c \in Callers, Ask(c) \/ Decided(c) \/ Desert(c)
    PROVE  SlotsInv'
<1>1. Slots \in Nat /\ free \in Nat /\ deserted \in Nat /\ IsFiniteSet(asking)
      /\ free + Cardinality(asking) + deserted = Slots
  BY ModelCallsAssumption DEF SlotsInv, SlotsAreTheRequests
<1>2. Cardinality(asking) \in Nat
  BY <1>1, FS_CardinalityType
<1>3. CASE Ask(c)
  <2>1. /\ c \notin asking /\ free > 0
        /\ asking' = asking \cup {c} /\ free' = free - 1 /\ deserted' = deserted
    BY <1>3 DEF Ask
  <2>2. IsFiniteSet(asking') /\ Cardinality(asking') = Cardinality(asking) + 1
    BY <1>1, <2>1, FS_AddElement
  <2> QED
    BY <1>1, <1>2, <2>1, <2>2 DEF SlotsInv, SlotsAreTheRequests
<1>4. ASSUME c \in asking, asking' = asking \ {c}
      PROVE  IsFiniteSet(asking') /\ Cardinality(asking') = Cardinality(asking) - 1
  BY <1>1, <1>4, FS_RemoveElement
<1>5. CASE Decided(c)
  BY <1>1, <1>2, <1>4, <1>5 DEF Decided, SlotsInv, SlotsAreTheRequests
<1>6. CASE Desert(c)
  BY <1>1, <1>2, <1>4, <1>6 DEF Desert, KeepsItsSlot, SlotsInv, SlotsAreTheRequests
<1> QED
  BY <1>3, <1>5, <1>6

\* The invariant is inductive.
LEMMA CallsNext_Inv == CallsInv /\ [CallsNext]_callVars => CallsInv'
<1> SUFFICES ASSUME CallsInv, [CallsNext]_callVars PROVE CallsInv'
  OBVIOUS
<1>1. SlotsInv /\ RunsInv /\ BudgetInv /\ ErrorsAreOfEveryRun
  BY DEF CallsInv
<1>2. CASE Plan
  BY <1>1, <1>2, PlanStep, SlotsUntouched DEF Plan, CallsInv
<1>3. ASSUME NEW r \in 1 .. 2, Answer(r) PROVE CallsInv'
  <2>1. UNCHANGED slotVars
    BY <1>3 DEF Answer
  <2> QED
    BY <2>1, <1>1, <1>3, AnswerStep, SlotsUntouched DEF CallsInv
<1>4. CASE Return
  BY <1>1, <1>4, ReturnStep, SlotsUntouched DEF Return, CallsInv
<1>5. CASE Fail
  BY <1>1, <1>5, FailStep, SlotsUntouched DEF Fail, CallsInv
<1>6. CASE Race
  BY <1>1, <1>6, RaceStep, SlotsUntouched DEF Race, CallsInv
<1>7. CASE Tick
  BY <1>1, <1>7, TickStep, SlotsUntouched DEF Tick, CallsInv
<1>8. CASE RunOut
  BY <1>1, <1>8, RunOutStep, SlotsUntouched DEF RunOut, CallsInv
<1>9. CASE Gates
  BY <1>1, <1>9, GatesStep, SlotsUntouched DEF Gates, CallsInv
<1>10. CASE ClaimAgain
  BY <1>1, <1>10, ClaimAgainStep, SlotsUntouched DEF ClaimAgain, CallsInv
<1>11. ASSUME NEW c \in Callers, Ask(c) \/ Decided(c) \/ Desert(c) PROVE CallsInv'
  <2>1. UNCHANGED filingVars
    BY <1>11 DEF Ask, Decided, Desert
  <2> QED
    BY <2>1, <1>1, <1>11, SlotsStep, FilingUntouched DEF CallsInv
<1>12. CASE DesertedEnds
  <2>1. UNCHANGED filingVars
    BY <1>12 DEF DesertedEnds
  <2>2. SlotsInv'
    <3>1. Cardinality(asking) \in Nat
      BY <1>1, FS_CardinalityType DEF SlotsInv
    <3> QED
      BY <3>1, <1>1, <1>12, ModelCallsAssumption DEF DesertedEnds, SlotsInv, SlotsAreTheRequests
  <2> QED
    BY <2>1, <2>2, <1>1, FilingUntouched DEF CallsInv
<1>13. CASE UNCHANGED callVars
  <2>1. UNCHANGED filingVars /\ UNCHANGED slotVars
    BY <1>13 DEF callVars
  <2> QED
    BY <2>1, <1>1, FilingUntouched, SlotsUntouched DEF CallsInv
<1> QED
  BY <1>2, <1>3, <1>4, <1>5, <1>6, <1>7, <1>8, <1>9, <1>10, <1>11, <1>12, <1>13 DEF CallsNext

\* The invariant says what RequestsAreCounted asks.
LEMMA CallsInv_Counted == CallsInv => RequestsAreCounted
  BY PlanLeavesOne, ModelCallsAssumption
     DEF CallsInv, BudgetInv, SlotsInv, RequestsAreCounted, CorrectionHasARequest, Remaining

\* For every number of turns, callers and slots and every time-out, a filing sends no more requests
\* than twice its turns less one, keeps one for its correction, fails only when no run may answer,
\* and loses no slot of the typed decisions (planner.py:142-409, writer.py:933-937, llm.py:173-241).
THEOREM RequestsCounted == CallsSpec => []RequestsAreCounted
<1>1. CallsInit => CallsInv
  BY CallsInit_Inv
<1>2. CallsInv /\ [CallsNext]_callVars => CallsInv'
  BY CallsNext_Inv
<1>3. CallsInv => RequestsAreCounted
  BY CallsInv_Counted
<1> QED
  BY <1>1, <1>2, <1>3, PTL DEF CallsSpec

-----------------------------------------------------------------------------
(* The names of pages: what was accepted stays a name of its page, and the rotation of *)
(* the gardens passes over no variant.                                                *)

Found == [to : Names, shown : Names]
Link == [zone : Zones, to : Names, shown : Names]
Draft == [kind : {"none", "filing", "garden"}, zone : Nat, pages : SUBSET NamedPage,
          links : SUBSET Link, added : SUBSET Link, asked : SUBSET (Nat \X Found),
          accepted : SUBSET (Nat \X Found)]

\* The day of the last garden that ended.
LastDay == IF draft.kind = "garden" THEN days - 1 ELSE days

NamesType ==
    /\ named \in SUBSET NamedPage /\ variants \in SUBSET Link /\ draft \in Draft
    /\ report \in SUBSET (Nat \X Found) /\ sought \in SUBSET (Nat \X Found)
    /\ IsFiniteSet(variants) /\ IsFiniteSet(draft.links)
    /\ quiet \in Nat /\ days \in 0 .. MaxDays /\ quiet <= LastDay
    /\ namings \in 0 .. MaxNamings /\ given \in 0 .. MaxGiven
    /\ draft.kind = "filing" => draft.zone \in Zones

\* No name reaches two of the pages of a layer.
PagesApart(pages) ==
    \A p, q \in pages : p # q /\ p.zone = q.zone => AnswersTo(p) \cap AnswersTo(q) = {}

EntitiesApart(pages) ==
    \A p, q \in pages : p # q /\ p.zone = q.zone /\ p.role = "entity" /\ q.role = "entity"
                            => AnswersTo(p) \cap AnswersTo(q) = {}

NotesHaveNoAlias(pages) == \A p \in pages : p.role = "note" => p.aliases = {}

NamesApart(pages) ==
    /\ EntitiesApart(pages) /\ NotesHaveNoAlias(pages)
    /\ given = 0 => PagesApart(pages)

\* A name that was accepted is one of a page of its layer.
Has(pages, a) == \E p \in pages : p.zone = a[1] /\ p.title = a[2].to /\ a[2].shown \in p.aliases

AcceptedAreThere ==
    /\ \A a \in draft.accepted : Has(draft.pages, a) /\ (draft.kind = "filing" => a[1] = draft.zone)
    /\ \A a \in report : Has(named, a)

\* The texts that could be a name for the readers of a layer, as the branch is.
Unasked(z) == Candidates(Seen(named, z), z, {v \in variants : v.zone \in {0, z}})

AskedOn(d, z) == FirstAsked(Unasked(z), StartOf(d), GardenCap)

\* A garden has changed nothing of its worktree or gives a page a name it had not.
GardenSoFar ==
    draft.kind = "garden" =>
        /\ draft.links = variants
        /\ \A q \in named : \E p \in draft.pages :
               p.zone = q.zone /\ AnswersTo(q) \subseteq AnswersTo(p)
        /\ \A a \in draft.accepted : \A q \in named : q.zone = a[1] => a[2].shown \notin AnswersTo(q)
        /\ draft.accepted = {} =>
               /\ draft.pages = named
               /\ \A z \in Zones : z < draft.zone =>
                      \A c \in AskedOn(days, z) : <<z, c>> \in draft.asked

\* What the gardens asked since the branch last changed.
SoughtSoFar ==
    \A d \in Nat : LastDay - quiet < d /\ d <= LastDay =>
        \A z \in Zones : \A c \in AskedOn(d, z) : <<z, c>> \in sought

NamesInv ==
    /\ NamesType
    /\ NamesApart(named) /\ NamesApart(draft.pages)
    /\ AcceptedAreThere /\ GardenSoFar /\ SoughtSoFar
-----------------------------------------------------------------------------
(* Pages that get names *)

NamedOf(p, z, accepted) ==
    IF p.role = "entity" /\ StoresWhole(p, z)
    THEN [p EXCEPT !.aliases = @ \cup {c.shown : c \in {d \in accepted : d.to = p.title}}]
    ELSE p

\* A page that is given names keeps its zone, its role and its title.
LEMMA NamedOfFacts ==
    ASSUME NEW p \in NamedPage, NEW z, NEW accepted \in SUBSET Found
    PROVE  LET r == NamedOf(p, z, accepted)
           IN /\ r \in NamedPage /\ r.zone = p.zone /\ r.role = p.role /\ r.title = p.title
              /\ p.role = "entity" /\ p.zone = z =>
                     r.aliases = p.aliases \cup {c.shown : c \in {d \in accepted : d.to = p.title}}
              /\ ~(p.role = "entity" /\ p.zone = z) => r = p
              /\ p.aliases \subseteq r.aliases
<1> DEFINE new == {c.shown : c \in {d \in accepted : d.to = p.title}}
<1>1. new \subseteq Names
  BY DEF Found
<1> HIDE DEF new
<1>2. p.aliases \cup new \in SUBSET Names
  BY <1>1 DEF NamedPage
<1>3. CASE p.role = "entity" /\ p.zone = z
  <2>1. NamedOf(p, z, accepted) = [p EXCEPT !.aliases = p.aliases \cup new]
    BY <1>3 DEF NamedOf, StoresWhole, new
  <2> QED
    BY <2>1, <1>2, <1>3 DEF NamedPage, new
<1>4. CASE ~(p.role = "entity" /\ p.zone = z)
  BY <1>4 DEF NamedOf, StoresWhole
<1> QED
  BY <1>3, <1>4

\* Names are given page by page.
LEMMA WithNamesIsOfEach ==
    ASSUME NEW pages, NEW z, NEW accepted
    PROVE  WithNames(pages, z, accepted) = {NamedOf(p, z, accepted) : p \in pages}
  BY DEF WithNames, NamedOf

\* No name, no change.
LEMMA NoNamesNoChange ==
    ASSUME NEW pages \in SUBSET NamedPage, NEW z
    PROVE  WithNames(pages, z, {}) = pages
<1>1. ASSUME NEW p \in pages PROVE NamedOf(p, z, {}) = p
  <2>1. {c.shown : c \in {d \in {} : d.to = p.title}} = {}
    OBVIOUS
  <2>2. [p EXCEPT !.aliases = p.aliases \cup {}] = p
    BY DEF NamedPage
  <2> QED
    BY <2>1, <2>2 DEF NamedOf
<1> QED
  BY <1>1, WithNamesIsOfEach

\* A text that is sought is one that no page of the view answers to.
LEMMA CandidateFacts ==
    ASSUME NEW pages \in SUBSET NamedPage, NEW z, NEW links \in SUBSET Link,
           NEW c \in Candidates(pages, z, links)
    PROVE  /\ c \in Found /\ c.shown \notin LinkNames(pages)
           /\ {v.to : v \in {u \in links : u.shown = c.shown}} = {c.to}
           /\ \E p \in pages : p.role = "entity" /\ p.title = c.to /\ p.zone = z
<1>1. c \in [to : {v.to : v \in links}, shown : {v.shown : v \in links}]
  BY DEF Candidates
<1>2. {v.to : v \in links} \subseteq Names /\ {v.shown : v \in links} \subseteq Names
  BY DEF Link
<1>3. c \in Found
  BY <1>1, <1>2 DEF Found
<1> PICK p \in EntitiesOf(pages) : p.title = c.to /\ IsCandidate(pages, z, links, p, c.shown)
  BY DEF Candidates
<1>4. p \in pages /\ p.role = "entity"
  BY DEF EntitiesOf
<1>5. /\ c.shown \notin LinkNames(pages) /\ p.zone = z
      /\ {v.to : v \in {u \in links : u.shown = c.shown}} = {p.title}
  BY DEF IsCandidate, StoresWhole
<1> QED
  BY <1>3, <1>4, <1>5

\* No two names that are accepted together make two pages of a layer answer to one.
LEMMA NamesStayApart ==
    ASSUME NEW pages \in SUBSET NamedPage, NEW z, NEW links \in SUBSET Link,
           NEW kept, kept \subseteq Candidates(Seen(pages, z), z, links), NamesApart(pages)
    PROVE  NamesApart(WithNames(pages, z, kept))
<1> DEFINE N(p) == NamedOf(p, z, kept)
           new(p) == {c.shown : c \in {d \in kept : d.to = p.title}}
<1>0. Seen(pages, z) \in SUBSET NamedPage /\ \A p \in pages : p.zone = z => p \in Seen(pages, z)
  BY DEF Seen
<1>1. \A c \in kept : /\ c \in Found
                      /\ \A p \in pages : p.zone = z => c.shown \notin AnswersTo(p)
                      /\ \A d \in kept : c.shown = d.shown => c.to = d.to
  <2> SUFFICES ASSUME NEW c \in kept
               PROVE  /\ c \in Found
                      /\ \A p \in pages : p.zone = z => c.shown \notin AnswersTo(p)
                      /\ \A d \in kept : c.shown = d.shown => c.to = d.to
    OBVIOUS
  <2>1. /\ c \in Found /\ c.shown \notin LinkNames(Seen(pages, z))
        /\ \A d \in kept : {v.to : v \in {u \in links : u.shown = d.shown}} = {d.to}
    BY <1>0, CandidateFacts
  <2>2. \A p \in pages : p.zone = z => c.shown \notin AnswersTo(p)
    BY <2>1, <1>0 DEF LinkNames
  <2>3. ASSUME NEW d \in kept, c.shown = d.shown PROVE c.to = d.to
    <3>1. {c.to} = {d.to}
      BY <2>1, <2>3
    <3> QED
      BY <3>1
  <2> QED
    BY <2>1, <2>2, <2>3
<1>2. kept \in SUBSET Found
  BY <1>1
<1>3. ASSUME NEW p \in pages
      PROVE  /\ N(p) \in NamedPage /\ N(p).zone = p.zone /\ N(p).role = p.role /\ N(p).title = p.title
             /\ p.role = "entity" /\ p.zone = z => AnswersTo(N(p)) = AnswersTo(p) \cup new(p)
             /\ ~(p.role = "entity" /\ p.zone = z) => N(p) = p
  <2>1. p \in NamedPage
    OBVIOUS
  <2>2. /\ N(p) \in NamedPage /\ N(p).zone = p.zone /\ N(p).role = p.role /\ N(p).title = p.title
        /\ p.role = "entity" /\ p.zone = z => N(p).aliases = p.aliases \cup new(p)
        /\ ~(p.role = "entity" /\ p.zone = z) => N(p) = p
    BY <2>1, <1>2, NamedOfFacts
  <2> HIDE DEF N, new
  <2> QED
    BY <2>2 DEF AnswersTo
<1>4. ASSUME NEW p \in pages, NEW q \in pages, p.zone = q.zone, AnswersTo(p) \cap AnswersTo(q) = {}
      PROVE  AnswersTo(N(p)) \cap AnswersTo(N(q)) = {}
  <2>1. CASE p.zone # z
    BY <2>1, <1>3, <1>4
  <2>2. CASE p.zone = z
    <3>1. p.title # q.title
      BY <1>4 DEF AnswersTo
    <3>2. new(p) \cap AnswersTo(q) = {} /\ new(q) \cap AnswersTo(p) = {}
      BY <2>2, <1>1, <1>4
    <3>3. new(p) \cap new(q) = {}
      BY <3>1, <1>1
    <3>4. AnswersTo(N(p)) \subseteq AnswersTo(p) \cup new(p)
         /\ AnswersTo(N(q)) \subseteq AnswersTo(q) \cup new(q)
      BY <1>3
    <3> HIDE DEF N, new
    <3> QED
      BY <3>2, <3>3, <3>4, <1>4
  <2> QED
    BY <2>1, <2>2
<1>5. \A r \in WithNames(pages, z, kept) : \E p \in pages : r = N(p)
  BY WithNamesIsOfEach
<1> HIDE DEF N
<1>6. EntitiesApart(WithNames(pages, z, kept))
  <2> SUFFICES ASSUME NEW r \in WithNames(pages, z, kept), NEW s \in WithNames(pages, z, kept),
                      r # s, r.zone = s.zone, r.role = "entity", s.role = "entity"
               PROVE  AnswersTo(r) \cap AnswersTo(s) = {}
    BY DEF EntitiesApart
  <2>1. PICK p \in pages : r = N(p)
    BY <1>5
  <2>2. PICK q \in pages : s = N(q)
    BY <1>5
  <2>3. p # q /\ p.zone = q.zone /\ p.role = "entity" /\ q.role = "entity"
    BY <2>1, <2>2, <1>3
  <2>4. AnswersTo(p) \cap AnswersTo(q) = {}
    BY <2>3 DEF NamesApart, EntitiesApart
  <2> QED
    BY <2>1, <2>2, <2>3, <2>4, <1>4
<1>7. given = 0 => PagesApart(WithNames(pages, z, kept))
  <2> SUFFICES ASSUME given = 0, NEW r \in WithNames(pages, z, kept),
                      NEW s \in WithNames(pages, z, kept),
                      r # s, r.zone = s.zone
               PROVE  AnswersTo(r) \cap AnswersTo(s) = {}
    BY DEF PagesApart
  <2>1. PICK p \in pages : r = N(p)
    BY <1>5
  <2>2. PICK q \in pages : s = N(q)
    BY <1>5
  <2>3. p # q /\ p.zone = q.zone
    BY <2>1, <2>2, <1>3
  <2>4. AnswersTo(p) \cap AnswersTo(q) = {}
    BY <2>3 DEF NamesApart, PagesApart
  <2> QED
    BY <2>1, <2>2, <2>3, <2>4, <1>4
<1>8. NotesHaveNoAlias(WithNames(pages, z, kept))
  <2> SUFFICES ASSUME NEW r \in WithNames(pages, z, kept), r.role = "note" PROVE r.aliases = {}
    BY DEF NotesHaveNoAlias
  <2>1. PICK p \in pages : r = N(p)
    BY <1>5
  <2>2. p.role = "note"
    BY <2>1, <1>3
  <2>3. r = p
    BY <2>1, <2>2, <1>3
  <2> QED
    BY <2>2, <2>3 DEF NamesApart, NotesHaveNoAlias
<1> QED
  BY <1>6, <1>7, <1>8 DEF NamesApart

\* What the names a layer gets do to its pages.
LEMMA GivenNames ==
    ASSUME NamesInv, NEW z \in Nat, NEW links \in SUBSET Link,
           NEW kept, kept \subseteq Candidates(Seen(draft.pages, z), z, links)
    PROVE  LET after == WithNames(draft.pages, z, kept)
           IN /\ kept \in SUBSET Found /\ after \in SUBSET NamedPage /\ NamesApart(after)
              /\ \A a : Has(draft.pages, a) => Has(after, a)
              /\ \A c \in kept : Has(after, <<z, c>>)
              /\ \A p \in draft.pages : \E r \in after :
                     r.zone = p.zone /\ AnswersTo(p) \subseteq AnswersTo(r)
              /\ \A c \in kept : \A p \in draft.pages : p.zone = z => c.shown \notin AnswersTo(p)
              /\ kept = {} => after = draft.pages
<1> DEFINE pages == draft.pages
           after == WithNames(pages, z, kept)
           N(p) == NamedOf(p, z, kept)
<1>0. pages \in SUBSET NamedPage /\ NamesApart(pages)
  BY DEF NamesInv, NamesType, Draft
<1> HIDE DEF pages
<1>1. Seen(pages, z) \in SUBSET NamedPage /\ \A p \in pages : p.zone = z => p \in Seen(pages, z)
  BY <1>0 DEF Seen
<1>2. kept \subseteq Candidates(Seen(pages, z), z, links)
  BY DEF pages
<1>3. \A c \in kept : /\ c \in Found /\ c.shown \notin LinkNames(Seen(pages, z))
                      /\ \E p \in Seen(pages, z) : p.role = "entity" /\ p.title = c.to /\ p.zone = z
  BY <1>1, <1>2, CandidateFacts
<1>4. kept \in SUBSET Found
  BY <1>3
<1>5. \A p \in pages : /\ N(p) \in NamedPage /\ N(p).zone = p.zone /\ N(p).role = p.role
                       /\ N(p).title = p.title /\ p.aliases \subseteq N(p).aliases
                       /\ p.role = "entity" /\ p.zone = z =>
                              N(p).aliases = p.aliases
                                    \cup {c.shown : c \in {d \in kept : d.to = p.title}}
  <2> SUFFICES ASSUME NEW p \in pages
               PROVE  /\ N(p) \in NamedPage /\ N(p).zone = p.zone /\ N(p).role = p.role
                      /\ N(p).title = p.title /\ p.aliases \subseteq N(p).aliases
                      /\ p.role = "entity" /\ p.zone = z =>
                              N(p).aliases = p.aliases
                                    \cup {c.shown : c \in {d \in kept : d.to = p.title}}
    OBVIOUS
  <2>1. p \in NamedPage
    BY <1>0
  <2> QED
    BY <2>1, <1>4, NamedOfFacts
<1>6. after = {N(p) : p \in pages}
  BY WithNamesIsOfEach
<1> HIDE DEF N, after
<1>7. after \in SUBSET NamedPage
  BY <1>5, <1>6
<1>8. NamesApart(after)
  BY <1>0, <1>2, NamesStayApart DEF after
<1>9. ASSUME NEW a, Has(pages, a) PROVE Has(after, a)
  <2> PICK p \in pages : p.zone = a[1] /\ p.title = a[2].to /\ a[2].shown \in p.aliases
    BY <1>9 DEF Has
  <2>1. N(p) \in after
    BY <1>6
  <2> QED
    BY <2>1, <1>5 DEF Has
<1>10. ASSUME NEW c \in kept PROVE Has(after, <<z, c>>)
  <2> PICK p \in Seen(pages, z) : p.role = "entity" /\ p.title = c.to /\ p.zone = z
    BY <1>3
  <2>1. p \in pages
    BY DEF Seen
  <2>2. N(p) \in after
    BY <2>1, <1>6
  <2>3. c.shown \in N(p).aliases /\ N(p).zone = z /\ N(p).title = c.to
    BY <2>1, <1>5
  <2> QED
    BY <2>2, <2>3 DEF Has
<1>11. \A p \in pages : \E r \in after : r.zone = p.zone /\ AnswersTo(p) \subseteq AnswersTo(r)
  <2> SUFFICES ASSUME NEW p \in pages
               PROVE  N(p) \in after /\ N(p).zone = p.zone /\ AnswersTo(p) \subseteq AnswersTo(N(p))
    OBVIOUS
  <2> QED
    BY <1>5, <1>6 DEF AnswersTo
<1>12. \A c \in kept : \A p \in pages : p.zone = z => c.shown \notin AnswersTo(p)
  BY <1>1, <1>3 DEF LinkNames
<1>13. kept = {} => after = pages
  BY <1>0, NoNamesNoChange DEF after
<1> QED
  BY <1>4, <1>7, <1>8, <1>9, <1>10, <1>11, <1>12, <1>13 DEF after, pages

\* The classifier is asked, and what of its answers is kept.
Records(z, asked, kept) ==
    [draft EXCEPT !.pages = WithNames(@, z, kept),
                  !.asked = @ \cup {<<z, c>> : c \in asked},
                  !.accepted = @ \cup {<<z, c>> : c \in kept}]

\* What is written down of the answers is of some of those accepted.
LEMMA RecordedIs ==
    ASSUME NEW z, NEW asked, NEW accepted
    PROVE  \E kept \in SUBSET accepted : Recorded(z, asked, accepted) = Records(z, asked, kept)
<1>1. {} \in SUBSET accepted /\ accepted \in SUBSET accepted
  OBVIOUS
<1>2. \/ Recorded(z, asked, accepted) = Records(z, asked, accepted)
      \/ Recorded(z, asked, accepted) = Records(z, asked, {})
  BY DEF Recorded, Records
<1> QED
  BY <1>1, <1>2

\* Writing the answers down leaves the rest of the draft alone.
LEMMA RecordsFacts ==
    ASSUME NamesType, NEW z, NEW asked, NEW kept
    PROVE  LET r == Records(z, asked, kept)
           IN /\ r.kind = draft.kind /\ r.zone = draft.zone
               /\ r.links = draft.links /\ r.added = draft.added
              /\ r.pages = WithNames(draft.pages, z, kept)
              /\ r.asked = draft.asked \cup {<<z, c>> : c \in asked}
              /\ r.accepted = draft.accepted \cup {<<z, c>> : c \in kept}
              /\ r.pages \in SUBSET NamedPage /\ r.asked \in SUBSET (Nat \X Found)
                 /\ r.accepted \in SUBSET (Nat \X Found) => r \in Draft
<1> DEFINE after == WithNames(draft.pages, z, kept)
           q == draft.asked \cup {<<z, c>> : c \in asked}
           a == draft.accepted \cup {<<z, c>> : c \in kept}
           r == [draft EXCEPT !.pages = after, !.asked = q, !.accepted = a]
<1>1. Records(z, asked, kept) = r
  BY DEF Records
<1> HIDE DEF after, q, a
<1>2. draft \in Draft
  BY DEF NamesType
<1>3. /\ r.kind = draft.kind /\ r.zone = draft.zone /\ r.links = draft.links /\ r.added = draft.added
      /\ r.pages = after /\ r.asked = q /\ r.accepted = a
  BY <1>2 DEF Draft
<1>4. after \in SUBSET NamedPage /\ q \in SUBSET (Nat \X Found) /\ a \in SUBSET (Nat \X Found)
          => r \in Draft
  BY <1>2 DEF Draft
<1> HIDE DEF r
<1> QED
  BY <1>1, <1>3, <1>4 DEF after, q, a

\* The types of the parts of a draft.
LEMMA DraftParts ==
    ASSUME NamesType
    PROVE  /\ draft.kind \in {"none", "filing", "garden"} /\ draft.zone \in Nat
           /\ draft.pages \in SUBSET NamedPage
           /\ draft.links \in SUBSET Link /\ draft.added \in SUBSET Link
           /\ draft.asked \in SUBSET (Nat \X Found) /\ draft.accepted \in SUBSET (Nat \X Found)
  BY DEF NamesType, Draft

\* What is asked is among what was found.
LEMMA AskedAreFound ==
    ASSUME NEW found, NEW start, NEW cap
    PROVE  FirstAsked(found, start, cap) \subseteq found
  BY DEF FirstAsked

\* The drafts that no write has begun.
LEMMA NoDraftParts ==
    /\ NoDraft \in Draft /\ NoDraft.kind = "none" /\ NoDraft.pages = {} /\ NoDraft.accepted = {}
    /\ NoDraft.links = {} /\ NoDraft.asked = {} /\ NoDraft.zone = 0 /\ NoDraft.added = {}
  BY DEF NoDraft, Draft

\* An empty worktree has no names to confuse.
LEMMA NothingApart == NamesApart({})
  BY DEF NamesApart, EntitiesApart, NotesHaveNoAlias, PagesApart

\* What waits for a name depends on the branch and its variants alone.
LEMMA SameUnasked ==
    ASSUME UNCHANGED <<named, variants>>
    PROVE  /\ \A d, z : AskedOn(d, z)' = AskedOn(d, z)
           /\ days' = days => \A z : AskedOn(days, z)' = AskedOn(days, z)
<1>1. named' = named /\ variants' = variants
  OBVIOUS
<1>2. \A z : Unasked(z)' = Unasked(z)
  BY <1>1 DEF Unasked
<1> QED
  BY <1>2 DEF AskedOn

\* A write that changes neither the branch nor what was asked, and is no garden.
LEMMA SoughtKept ==
    ASSUME NamesInv, UNCHANGED <<named, variants, quiet, sought, days>>,
           draft.kind # "garden", draft'.kind # "garden"
    PROVE  SoughtSoFar' /\ LastDay' = LastDay /\ GardenSoFar'
<1>1. LastDay' = LastDay
  BY DEF LastDay
<1>2. \A d, z : AskedOn(d, z)' = AskedOn(d, z)
  BY SameUnasked
<1>3. SoughtSoFar'
  BY <1>1, <1>2 DEF NamesInv, SoughtSoFar
<1> QED
  BY <1>1, <1>3 DEF GardenSoFar

\* The names of a set of pages stay apart while no alias is given by hand.
LEMMA SameGiven ==
    ASSUME NEW pages, NamesApart(pages), UNCHANGED given
    PROVE  NamesApart(pages)'
  BY DEF NamesApart

\* No page is named and nothing is asked to begin with.
LEMMA NamesInit_Inv == NamesInit => NamesInv
<1> SUFFICES ASSUME NamesInit PROVE NamesInv
  OBVIOUS
<1>1. NamesType
  <2>1. IsFiniteSet({})
    BY FS_EmptySet
  <2>2. LastDay = 0
    BY NoDraftParts DEF NamesInit, LastDay
  <2> HIDE DEF NoDraft
  <2> QED
    BY <2>1, <2>2, NoDraftParts, PageNamesAssumption DEF NamesInit, NamesType
<1>2. NamesApart(named) /\ NamesApart(draft.pages)
  BY NothingApart, NoDraftParts DEF NamesInit
<1>3. AcceptedAreThere
  BY NoDraftParts DEF NamesInit, AcceptedAreThere
<1>4. GardenSoFar
  BY NoDraftParts DEF NamesInit, GardenSoFar
<1>5. SoughtSoFar
  <2>1. LastDay = 0 /\ quiet = 0
    BY NoDraftParts DEF NamesInit, LastDay
  <2> QED
    BY <2>1 DEF SoughtSoFar
<1> QED
  BY <1>1, <1>2, <1>3, <1>4, <1>5 DEF NamesInv

\* A write opens the branch as it is.
LEMMA BeginNamingStep == ASSUME NamesInv, NEW z \in Zones, BeginNaming(z) PROVE NamesInv'
<1>0. /\ draft.kind = "none" /\ namings < MaxNamings /\ namings' = namings + 1
      /\ draft' = [NoDraft EXCEPT !.kind = "filing", !.zone = z, !.pages = named, !.links = variants]
      /\ UNCHANGED <<named, variants, report, quiet, sought, given, days>>
  BY DEF BeginNaming
<1>1. NamesType /\ NamesApart(named) /\ AcceptedAreThere
  BY DEF NamesInv
<1>2. z \in Nat /\ named \in SUBSET NamedPage /\ variants \in SUBSET Link
  BY <1>1, PageNamesAssumption DEF NamesType
<1>3. /\ draft' \in Draft /\ draft'.kind = "filing" /\ draft'.zone = z /\ draft'.pages = named
      /\ draft'.links = variants /\ draft'.accepted = {}
  <2> HIDE DEF NoDraft
  <2> QED
    BY <1>0, <1>2, NoDraftParts DEF Draft
<1>4. SoughtSoFar' /\ LastDay' = LastDay /\ GardenSoFar'
  BY <1>0, <1>3, SoughtKept
<1>5. NamesType'
  <2>1. namings' \in 0 .. MaxNamings
    BY <1>0, <1>1, PageNamesAssumption DEF NamesType
  <2> QED
    BY <2>1, <1>0, <1>1, <1>3, <1>4 DEF NamesType
<1>6. NamesApart(named)' /\ NamesApart(draft.pages)'
  BY <1>0, <1>1, <1>3 DEF NamesApart
<1>7. AcceptedAreThere'
  BY <1>0, <1>1, <1>3 DEF AcceptedAreThere
<1> QED
  BY <1>4, <1>5, <1>6, <1>7 DEF NamesInv

\* A page that answers to no name of the view.
LEMMA NewPageApart ==
    ASSUME NamesInv, NEW role \in {"entity", "note"}, NEW title \in Names, NEW aliases \in SUBSET Names,
           role = "note" => aliases = {}, NEW z \in Zones, NEW pages, pages = draft.pages,
           NEW seen, seen = Seen(pages, z),
           ({title} \cup aliases) \cap EntityNames(seen) = {}, \A p \in seen : p.title # title,
           NEW page, page = [zone |-> z, role |-> role, title |-> title,
                             aliases |-> FreeAliases(seen, aliases) \ {title}]
    PROVE  page \in NamedPage /\ NamesApart(pages \cup {page})
<1>1. pages \in SUBSET NamedPage /\ NamesApart(pages)
  BY DEF NamesInv, NamesType, Draft
<1>2. FreeAliases(seen, aliases) \subseteq aliases
      /\ \A p \in seen : p.role = "note" => p.title \notin FreeAliases(seen, aliases)
  BY DEF FreeAliases
<1> DEFINE mine == FreeAliases(seen, aliases) \ {title}
<1>3. mine \in SUBSET aliases /\ \A p \in seen : p.role = "note" => p.title \notin mine
  BY <1>2
<1> HIDE DEF mine
<1>4. /\ page \in NamedPage /\ page.zone = z /\ page.role = role /\ AnswersTo(page) = {title} \cup mine
      /\ page.aliases = mine
  <2>1. page = [zone |-> z, role |-> role, title |-> title, aliases |-> mine]
    BY DEF mine
  <2> QED
    BY <2>1, <1>3 DEF NamedPage, AnswersTo
<1>5. ASSUME NEW p \in pages, p.zone = z PROVE AnswersTo(p) \cap AnswersTo(page) = {}
  <2>1. p \in seen /\ p.title # title /\ p \in NamedPage
    BY <1>1, <1>5 DEF Seen
  <2>2. CASE p.role = "entity"
    <3>1. AnswersTo(p) \subseteq EntityNames(seen)
      BY <2>1, <2>2 DEF EntityNames, EntitiesOf, LinkNames
    <3> QED
      BY <3>1, <1>3, <1>4
  <2>3. CASE p.role = "note"
    <3>1. AnswersTo(p) = {p.title}
      BY <1>1, <2>3 DEF NamesApart, NotesHaveNoAlias, AnswersTo
    <3> QED
      BY <3>1, <2>1, <2>3, <1>3, <1>4
  <2> QED
    BY <2>1, <2>2, <2>3 DEF NamedPage
<1>6. EntitiesApart(pages \cup {page})
  <2> SUFFICES ASSUME NEW p \in pages \cup {page}, NEW q \in pages \cup {page}, p # q, p.zone = q.zone,
                      p.role = "entity", q.role = "entity"
               PROVE  AnswersTo(p) \cap AnswersTo(q) = {}
    BY DEF EntitiesApart
  <2>1. CASE p \in pages /\ q \in pages
    BY <2>1, <1>1 DEF NamesApart, EntitiesApart
  <2>2. CASE p = page /\ q \in pages
    BY <2>2, <1>4, <1>5
  <2>3. CASE q = page /\ p \in pages
    BY <2>3, <1>4, <1>5
  <2> QED
    BY <2>1, <2>2, <2>3
<1>7. given = 0 => PagesApart(pages \cup {page})
  <2> SUFFICES ASSUME given = 0, NEW p \in pages \cup {page}, NEW q \in pages \cup {page}, p # q,
                      p.zone = q.zone
               PROVE  AnswersTo(p) \cap AnswersTo(q) = {}
    BY DEF PagesApart
  <2>1. CASE p \in pages /\ q \in pages
    BY <2>1, <1>1 DEF NamesApart, PagesApart
  <2>2. CASE p = page /\ q \in pages
    BY <2>2, <1>4, <1>5
  <2>3. CASE q = page /\ p \in pages
    BY <2>3, <1>4, <1>5
  <2> QED
    BY <2>1, <2>2, <2>3
<1>8. NotesHaveNoAlias(pages \cup {page})
  <2>1. role = "note" => mine = {}
    BY <1>3
  <2> QED
    BY <2>1, <1>1, <1>4 DEF NamesApart, NotesHaveNoAlias
<1> QED
  BY <1>4, <1>6, <1>7, <1>8 DEF NamesApart

\* A plan changes its pages and its links, and loses no name that was accepted.
LEMMA NamesPlanStep ==
    ASSUME NamesInv, draft.kind = "filing", draft' \in Draft,
           draft'.kind = draft.kind, draft'.zone = draft.zone, draft'.accepted = draft.accepted,
           IsFiniteSet(draft'.links), NamesApart(named)', NamesApart(draft.pages)',
           \A a \in draft.accepted : Has(draft.pages, a) => Has(draft'.pages, a),
           given' \in 0 .. MaxGiven, UNCHANGED <<named, variants, report, quiet, sought, namings, days>>
    PROVE  NamesInv'
<1>1. SoughtSoFar' /\ LastDay' = LastDay /\ GardenSoFar'
  BY SoughtKept
<1>2. NamesType'
  BY <1>1 DEF NamesInv, NamesType
<1>3. AcceptedAreThere'
  BY DEF NamesInv, AcceptedAreThere
<1> QED
  BY <1>1, <1>2, <1>3 DEF NamesInv

\* A page that is created answers to no name of the view.
LEMMA CreatePageStep ==
    ASSUME NamesInv, NEW role \in {"entity", "note"}, NEW title \in Names,
           NEW aliases \in {{}} \cup {{n} : n \in Names}, CreatePage(role, title, aliases)
    PROVE  NamesInv'
<1> DEFINE z == draft.zone
           pages == draft.pages
           seen == Seen(pages, z)
           page == [zone |-> z, role |-> role, title |-> title,
                    aliases |-> FreeAliases(seen, aliases) \ {title}]
<1>0. /\ draft.kind = "filing" /\ (role = "note" => aliases = {})
      /\ ({title} \cup aliases) \cap EntityNames(seen) = {} /\ \A p \in seen : p.title # title
      /\ draft' = [draft EXCEPT !.pages = pages \cup {page}]
      /\ UNCHANGED <<named, variants, report, quiet, sought, namings, given, days>>
  BY DEF CreatePage, PlanOpen
<1>1. NamesType /\ NamesApart(named) /\ z \in Zones /\ aliases \in SUBSET Names /\ draft \in Draft
  BY <1>0 DEF NamesInv, NamesType
<1>2. page \in NamedPage /\ NamesApart(pages \cup {page})
  BY <1>0, <1>1, NewPageApart
<1> HIDE DEF page, seen
<1>3. /\ draft' \in Draft /\ draft'.kind = draft.kind /\ draft'.zone = draft.zone
      /\ draft'.accepted = draft.accepted /\ draft'.links = draft.links
      /\ draft'.pages = pages \cup {page}
  BY <1>0, <1>1, <1>2 DEF Draft
<1>4. NamesApart(named)' /\ NamesApart(draft.pages)'
  BY <1>0, <1>1, <1>2, <1>3 DEF NamesApart
<1>5. \A a \in draft.accepted : Has(draft.pages, a) => Has(draft'.pages, a)
  BY <1>3 DEF Has
<1>6. IsFiniteSet(draft'.links) /\ given' \in 0 .. MaxGiven
  BY <1>0, <1>1, <1>3 DEF NamesType
<1> QED
  BY <1>0, <1>3, <1>4, <1>5, <1>6, NamesPlanStep

\* An alias given by hand goes to an entity, and no other entity answers to it.
LEMMA GiveAliasStep ==
    ASSUME NamesInv, NEW p \in draft.pages, NEW name \in Names, GiveAlias(p, name) PROVE NamesInv'
<1> DEFINE z == draft.zone
           pages == draft.pages
           given1 == [p EXCEPT !.aliases = p.aliases \cup {name}]
           after == (pages \ {p}) \cup {given1}
<1>0. /\ draft.kind = "filing" /\ given < MaxGiven /\ p.role = "entity" /\ p.zone = z
      /\ name \notin EntityNames(Seen(pages, z))
      /\ draft' = [draft EXCEPT !.pages = after]
      /\ given' = given + 1
      /\ UNCHANGED <<named, variants, report, quiet, sought, namings, days>>
  BY DEF GiveAlias, PlanOpen, EntitiesOf
<1>1. /\ NamesType /\ draft \in Draft /\ pages \in SUBSET NamedPage /\ p \in NamedPage
      /\ NamesApart(pages) /\ NamesApart(named)
  BY DEF NamesInv, NamesType, Draft
<1>2. /\ given1 \in NamedPage /\ given1.zone = z /\ given1.role = "entity" /\ given1.title = p.title
      /\ given1.aliases = p.aliases \cup {name}
  BY <1>0, <1>1 DEF NamedPage
<1> HIDE DEF given1
<1>3. AnswersTo(given1) = AnswersTo(p) \cup {name}
  BY <1>2 DEF AnswersTo
<1>4. after \in SUBSET NamedPage
  BY <1>1, <1>2
<1>5. ASSUME NEW q \in pages, q # p, q.role = "entity", q.zone = z
      PROVE  AnswersTo(q) \cap AnswersTo(given1) = {}
  <2>1. q \in Seen(pages, z)
    BY <1>5 DEF Seen
  <2>2. name \notin AnswersTo(q)
    BY <2>1, <1>0, <1>5 DEF EntityNames, EntitiesOf, LinkNames
  <2>3. AnswersTo(q) \cap AnswersTo(p) = {}
    BY <1>0, <1>1, <1>5 DEF NamesApart, EntitiesApart
  <2> QED
    BY <2>2, <2>3, <1>3
<1>6. EntitiesApart(after)
  <2> SUFFICES ASSUME NEW q \in after, NEW r \in after, q # r, q.zone = r.zone,
                      q.role = "entity", r.role = "entity"
               PROVE  AnswersTo(q) \cap AnswersTo(r) = {}
    BY DEF EntitiesApart
  <2>1. CASE q \in pages /\ r \in pages
    BY <2>1, <1>1 DEF NamesApart, EntitiesApart
  <2>2. CASE q = given1 /\ r \in pages \ {p}
    BY <2>2, <1>2, <1>5
  <2>3. CASE r = given1 /\ q \in pages \ {p}
    BY <2>3, <1>2, <1>5
  <2> QED
    BY <2>1, <2>2, <2>3
<1>7. NotesHaveNoAlias(after)
  BY <1>1, <1>2 DEF NamesApart, NotesHaveNoAlias
<1>8. given' # 0 /\ given' \in 0 .. MaxGiven
  BY <1>0, <1>1, PageNamesAssumption DEF NamesType
<1> HIDE DEF after
<1>9. /\ draft' \in Draft /\ draft'.kind = draft.kind /\ draft'.zone = draft.zone
      /\ draft'.accepted = draft.accepted /\ draft'.links = draft.links /\ draft'.pages = after
  BY <1>0, <1>1, <1>4 DEF Draft
<1>10. NamesApart(named)' /\ NamesApart(draft.pages)'
  BY <1>0, <1>1, <1>6, <1>7, <1>8, <1>9 DEF NamesApart
<1>11. \A a \in draft.accepted : Has(draft.pages, a) => Has(draft'.pages, a)
  <2> SUFFICES ASSUME NEW a, NEW q \in pages, q.zone = a[1], q.title = a[2].to, a[2].shown \in q.aliases
               PROVE  Has(after, a)
    BY <1>9 DEF Has
  <2>1. CASE q # p
    BY <2>1 DEF Has, after
  <2>2. CASE q = p
    <3>1. given1 \in after
      BY DEF after
    <3> QED
      BY <3>1, <2>2, <1>0, <1>2 DEF Has
  <2> QED
    BY <2>1, <2>2
<1>12. IsFiniteSet(draft'.links)
  BY <1>1, <1>9 DEF NamesType
<1> QED
  BY <1>0, <1>8, <1>9, <1>10, <1>11, <1>12, NamesPlanStep

\* A link with a text of its own waits for a name.
LEMMA AddVariantStep ==
    ASSUME NamesInv, NEW to \in Names, NEW shown \in Names, AddVariant(to, shown) PROVE NamesInv'
<1> DEFINE link == [zone |-> draft.zone, to |-> to, shown |-> shown]
<1>0. /\ draft.kind = "filing"
      /\ draft' = [draft EXCEPT !.added = draft.added \cup {link}, !.links = draft.links \cup {link}]
      /\ UNCHANGED <<named, variants, report, quiet, sought, namings, given, days>>
  BY DEF AddVariant, PlanOpen
<1>1. NamesType /\ draft \in Draft /\ draft.zone \in Zones
      /\ NamesApart(named) /\ NamesApart(draft.pages)
  BY <1>0 DEF NamesInv, NamesType
<1>2. link \in Link
  BY <1>1 DEF Link
<1> HIDE DEF link
<1>3. /\ draft' \in Draft /\ draft'.kind = draft.kind /\ draft'.zone = draft.zone
      /\ draft'.accepted = draft.accepted /\ draft'.pages = draft.pages
      /\ draft'.links = draft.links \cup {link}
  BY <1>0, <1>1, <1>2 DEF Draft
<1>4. IsFiniteSet(draft'.links) /\ given' \in 0 .. MaxGiven
  BY <1>0, <1>1, <1>3, FS_AddElement DEF NamesType
<1>5. NamesApart(named)' /\ NamesApart(draft.pages)'
  BY <1>0, <1>1, <1>3 DEF NamesApart
<1> QED
  BY <1>0, <1>3, <1>4, <1>5, NamesPlanStep

\* A write asks for the variants it added.
LEMMA NameFilingStep == ASSUME NamesInv, NameFiling PROVE NamesInv'
<1> DEFINE z == draft.zone
           found == Candidates(Seen(draft.pages, z), z, draft.added)
           asked == FirstAsked(found, 0, FilingCap)
<1>0. /\ draft.kind = "filing"
      /\ UNCHANGED <<named, variants, report, quiet, sought, namings, given, days>>
  BY DEF NameFiling, PlanOpen
<1> PICK accepted \in SUBSET asked : draft' = Recorded(z, asked, accepted)
  BY DEF NameFiling
<1> PICK kept \in SUBSET accepted : draft' = Records(z, asked, kept)
  BY RecordedIs
<1>1. NamesType /\ draft \in Draft /\ z \in Zones /\ z \in Nat /\ NamesApart(named) /\ AcceptedAreThere
  BY <1>0, PageNamesAssumption DEF NamesInv, NamesType
<1>2. draft.added \in SUBSET Link /\ draft.pages \in SUBSET NamedPage
      /\ draft.asked \in SUBSET (Nat \X Found) /\ draft.accepted \in SUBSET (Nat \X Found)
  BY <1>1, DraftParts
<1>3. asked \subseteq found /\ kept \subseteq found
  BY AskedAreFound
<1>4. asked \in SUBSET Found
  <2>1. Seen(draft.pages, z) \in SUBSET NamedPage
    BY <1>2 DEF Seen
  <2> QED
    BY <2>1, <1>2, <1>3, CandidateFacts
<1> DEFINE after == WithNames(draft.pages, z, kept)
<1>5. /\ kept \in SUBSET Found /\ after \in SUBSET NamedPage /\ NamesApart(after)
      /\ \A a : Has(draft.pages, a) => Has(after, a)
      /\ \A c \in kept : Has(after, <<z, c>>)
  BY <1>1, <1>2, <1>3, GivenNames
<1>6. /\ draft'.kind = draft.kind /\ draft'.zone = draft.zone /\ draft'.links = draft.links
      /\ draft'.pages = after
      /\ draft'.asked = draft.asked \cup {<<z, c>> : c \in asked}
      /\ draft'.accepted = draft.accepted \cup {<<z, c>> : c \in kept}
  BY <1>1, RecordsFacts
<1> HIDE DEF after, asked, found
<1>7. draft' \in Draft
  <2>1. draft'.asked \in SUBSET (Nat \X Found) /\ draft'.accepted \in SUBSET (Nat \X Found)
    BY <1>1, <1>2, <1>4, <1>5, <1>6
  <2> QED
    BY <2>1, <1>1, <1>5, <1>6, RecordsFacts
<1>8. SoughtSoFar' /\ LastDay' = LastDay /\ GardenSoFar'
  BY <1>0, <1>6, SoughtKept
<1>9. NamesType'
  BY <1>0, <1>1, <1>6, <1>7, <1>8 DEF NamesType
<1>10. NamesApart(named)' /\ NamesApart(draft.pages)'
  BY <1>0, <1>1, <1>5, <1>6 DEF NamesApart
<1>11. AcceptedAreThere'
  <2> SUFFICES ASSUME NEW a \in draft'.accepted PROVE Has(after, a) /\ a[1] = z
    BY <1>0, <1>1, <1>6 DEF AcceptedAreThere
  <2>1. CASE a \in draft.accepted
    BY <2>1, <1>0, <1>1, <1>5 DEF AcceptedAreThere
  <2>2. CASE a \in {<<z, c>> : c \in kept}
    BY <2>2, <1>5
  <2> QED
    BY <2>1, <2>2, <1>6
<1> QED
  BY <1>8, <1>9, <1>10, <1>11 DEF NamesInv

\* A write lands the pages of its layer.
LEMMA EndFilingStep == ASSUME NamesInv, EndFiling PROVE NamesInv'
<1> DEFINE z == draft.zone
           stored == {p \in named : p.zone # z} \cup {p \in draft.pages : p.zone = z}
<1>0. /\ draft.kind = "filing" /\ draft' = NoDraft
      /\ named' = stored /\ variants' = draft.links /\ report' = draft.accepted
      /\ quiet' = 0 /\ sought' = {} /\ UNCHANGED <<namings, given, days>>
  BY DEF EndFiling, Stored
<1>1. NamesType /\ NamesApart(named) /\ NamesApart(draft.pages) /\ AcceptedAreThere
  BY DEF NamesInv
<1>2. stored \in SUBSET NamedPage
  BY <1>1, DraftParts DEF NamesType
<1>3. EntitiesApart(stored)
  <2> SUFFICES ASSUME NEW p \in stored, NEW q \in stored, p # q, p.zone = q.zone,
                      p.role = "entity", q.role = "entity"
               PROVE  AnswersTo(p) \cap AnswersTo(q) = {}
    BY DEF EntitiesApart
  <2>1. (p \in named /\ q \in named) \/ (p \in draft.pages /\ q \in draft.pages)
    OBVIOUS
  <2> QED
    BY <2>1, <1>1 DEF NamesApart, EntitiesApart
<1>4. given = 0 => PagesApart(stored)
  <2> SUFFICES ASSUME given = 0, NEW p \in stored, NEW q \in stored, p # q, p.zone = q.zone
               PROVE  AnswersTo(p) \cap AnswersTo(q) = {}
    BY DEF PagesApart
  <2>1. (p \in named /\ q \in named) \/ (p \in draft.pages /\ q \in draft.pages)
    OBVIOUS
  <2> QED
    BY <2>1, <1>1 DEF NamesApart, PagesApart
<1>5. NotesHaveNoAlias(stored)
  BY <1>1 DEF NamesApart, NotesHaveNoAlias
<1>6. AcceptedAreThere'
  <2>1. \A a \in draft.accepted : Has(stored, a)
    BY <1>0, <1>1 DEF AcceptedAreThere, Has
  <2> HIDE DEF stored, NoDraft
  <2> QED
    BY <2>1, <1>0, NoDraftParts DEF AcceptedAreThere
<1> HIDE DEF stored, NoDraft
<1>7. NamesType'
  <2>1. LastDay' = days
    BY <1>0, NoDraftParts DEF LastDay
  <2>2. draft.links \in SUBSET Link /\ draft.accepted \in SUBSET (Nat \X Found)
    BY <1>1, DraftParts
  <2>3. IsFiniteSet(NoDraft.links)
    BY NoDraftParts, FS_EmptySet
  <2>4. quiet' \in Nat /\ quiet' <= LastDay'
    BY <2>1, <1>0, <1>1, PageNamesAssumption DEF NamesType
  <2> QED
    BY <2>2, <2>3, <2>4, <1>0, <1>1, <1>2, NoDraftParts DEF NamesType
<1>8. NamesApart(named)' /\ NamesApart(draft.pages)'
  <2>1. EntitiesApart(named') /\ NotesHaveNoAlias(named') /\ (given' = 0 => PagesApart(named'))
    BY <1>0, <1>3, <1>4, <1>5
  <2>2. draft'.pages = {}
    BY <1>0, NoDraftParts
  <2>3. EntitiesApart({}) /\ NotesHaveNoAlias({}) /\ PagesApart({})
    BY DEF EntitiesApart, NotesHaveNoAlias, PagesApart
  <2> QED
    BY <2>1, <2>2, <2>3 DEF NamesApart
<1>9. GardenSoFar'
  BY <1>0, NoDraftParts DEF GardenSoFar
<1>10. SoughtSoFar'
  <2>1. LastDay' = days /\ days \in Nat
    BY <1>0, <1>1, NoDraftParts, PageNamesAssumption DEF LastDay, NamesType
  <2>2. \A d \in Nat : ~(LastDay' - quiet' < d /\ d <= LastDay')
    BY <2>1, <1>0
  <2> QED
    BY <2>2 DEF SoughtSoFar
<1> QED
  BY <1>6, <1>7, <1>8, <1>9, <1>10 DEF NamesInv

\* A garden opens the branch as it is, and its rotation has moved on by a day.
LEMMA BeginGardenStep == ASSUME NamesInv, BeginGarden PROVE NamesInv'
<1>0. /\ draft.kind = "none" /\ days < MaxDays /\ days' = days + 1
      /\ draft' = [NoDraft EXCEPT !.kind = "garden", !.pages = named, !.links = variants]
      /\ UNCHANGED <<named, variants, report, quiet, sought, namings, given>>
  BY DEF BeginGarden
<1>1. NamesType /\ NamesApart(named) /\ AcceptedAreThere
  BY DEF NamesInv
<1>2. named \in SUBSET NamedPage /\ variants \in SUBSET Link /\ days \in Nat
  BY <1>1, PageNamesAssumption DEF NamesType
<1> HIDE DEF NoDraft
<1>3. /\ draft' \in Draft /\ draft'.kind = "garden" /\ draft'.zone = 0 /\ draft'.pages = named
      /\ draft'.links = variants /\ draft'.accepted = {}
  BY <1>0, <1>2, NoDraftParts DEF Draft
<1>4. LastDay' = LastDay /\ LastDay = days
  BY <1>0, <1>2, <1>3 DEF LastDay
<1>5. NamesType'
  <2>1. days' \in 0 .. MaxDays
    BY <1>0, <1>2, PageNamesAssumption
  <2> QED
    BY <2>1, <1>0, <1>1, <1>3, <1>4 DEF NamesType
<1>6. NamesApart(named)' /\ NamesApart(draft.pages)'
  BY <1>0, <1>1, <1>3 DEF NamesApart
<1>7. AcceptedAreThere'
  BY <1>0, <1>1, <1>3 DEF AcceptedAreThere
<1>8. SoughtSoFar'
  <2>1. \A d, z : AskedOn(d, z)' = AskedOn(d, z)
    BY <1>0, SameUnasked
  <2> QED
    BY <2>1, <1>0, <1>4 DEF NamesInv, SoughtSoFar
<1>9. GardenSoFar'
  <2>1. ASSUME NEW z \in Zones PROVE ~(z < 0)
    <3>1. z \in Nat
      BY PageNamesAssumption
    <3> QED
      BY <3>1
  <2>2. \A q \in named' : \E p \in draft'.pages : p.zone = q.zone /\ AnswersTo(q) \subseteq AnswersTo(p)
    BY <1>0, <1>3
  <2>3. draft'.links = variants' /\ draft'.pages = named' /\ draft'.zone = 0 /\ draft'.accepted = {}
    BY <1>0, <1>3
  <2> QED
    BY <2>1, <2>2, <2>3 DEF GardenSoFar
<1> QED
  BY <1>5, <1>6, <1>7, <1>8, <1>9 DEF NamesInv

\* A garden asks, layer by layer, for the variants of the branch.
LEMMA NameLayerStep == ASSUME NamesInv, NameLayer PROVE NamesInv'
<1> DEFINE z == draft.zone
           pages == Seen(draft.pages, z)
           links == {v \in draft.links : v.zone \in {0, z}}
           found == IF z = 0 /\ CollidingNames(pages) # {} THEN {} ELSE Candidates(pages, z, links)
           asked == FirstAsked(found, StartOf(days), GardenCap)
<1>0. /\ draft.kind = "garden" /\ z \in Zones
      /\ UNCHANGED <<named, variants, report, quiet, sought, namings, given, days>>
  BY DEF NameLayer
<1> PICK accepted \in SUBSET asked : draft' = [Recorded(z, asked, accepted) EXCEPT !.zone = @ + 1]
  BY DEF NameLayer
<1> PICK kept \in SUBSET accepted : Recorded(z, asked, accepted) = Records(z, asked, kept)
  BY RecordedIs
<1>1. NamesType /\ draft \in Draft /\ NamesApart(named) /\ NamesApart(draft.pages) /\ AcceptedAreThere
  BY DEF NamesInv, NamesType
<1>2. z \in Nat /\ links \in SUBSET Link /\ draft.pages \in SUBSET NamedPage
      /\ draft.asked \in SUBSET (Nat \X Found) /\ draft.accepted \in SUBSET (Nat \X Found)
  BY <1>1, DraftParts
<1>3. asked \subseteq found /\ kept \subseteq found /\ found \subseteq Candidates(pages, z, links)
  BY AskedAreFound
<1>4. asked \in SUBSET Found
  <2>1. pages \in SUBSET NamedPage
    BY <1>2 DEF Seen
  <2>2. \A c \in Candidates(pages, z, links) : c \in Found
    BY <2>1, <1>2, CandidateFacts
  <2> QED
    BY <2>2, <1>3
<1> DEFINE after == WithNames(draft.pages, z, kept)
<1>5. /\ kept \in SUBSET Found /\ after \in SUBSET NamedPage /\ NamesApart(after)
      /\ \A a : Has(draft.pages, a) => Has(after, a)
      /\ \A c \in kept : Has(after, <<z, c>>)
      /\ \A p \in draft.pages : \E r \in after : r.zone = p.zone /\ AnswersTo(p) \subseteq AnswersTo(r)
      /\ \A c \in kept : \A p \in draft.pages : p.zone = z => c.shown \notin AnswersTo(p)
      /\ kept = {} => after = draft.pages
  <2>1. kept \subseteq Candidates(Seen(draft.pages, z), z, links)
    BY <1>3
  <2> HIDE DEF links, found, asked
  <2> QED
    BY <2>1, <1>2, GivenNames
<1> HIDE DEF asked, found, links, pages, after
<1> DEFINE r == Records(z, asked, kept)
<1>6. /\ r.kind = draft.kind /\ r.zone = z /\ r.links = draft.links
      /\ r.pages = after
      /\ r.asked = draft.asked \cup {<<z, c>> : c \in asked}
      /\ r.accepted = draft.accepted \cup {<<z, c>> : c \in kept}
  BY <1>1, RecordsFacts DEF after
<1>7. r \in Draft
  <2> HIDE DEF r
  <2>1. r.asked \in SUBSET (Nat \X Found) /\ r.accepted \in SUBSET (Nat \X Found)
    BY <1>2, <1>4, <1>5, <1>6
  <2> QED
    BY <2>1, <1>1, <1>5, <1>6, RecordsFacts DEF r
<1> HIDE DEF r
<1>8. draft' = [r EXCEPT !.zone = z + 1]
  BY <1>6 DEF r
<1>9. /\ draft' \in Draft /\ draft'.kind = "garden" /\ draft'.zone = z + 1 /\ draft'.links = draft.links
      /\ draft'.pages = after
      /\ draft'.asked = draft.asked \cup {<<z, c>> : c \in asked}
      /\ draft'.accepted = draft.accepted \cup {<<z, c>> : c \in kept}
  <2>1. z + 1 \in Nat
    BY <1>2
  <2>2. /\ draft' \in Draft /\ draft'.kind = r.kind /\ draft'.zone = z + 1 /\ draft'.links = r.links
        /\ draft'.pages = r.pages /\ draft'.asked = r.asked /\ draft'.accepted = r.accepted
    BY <2>1, <1>7, <1>8 DEF Draft
  <2> QED
    BY <2>2, <1>0, <1>6
<1>10. NamesType' /\ LastDay' = LastDay
  <2>1. LastDay' = LastDay
    BY <1>0, <1>9 DEF LastDay
  <2> QED
    BY <2>1, <1>0, <1>1, <1>9 DEF NamesType
<1>11. NamesApart(named)' /\ NamesApart(draft.pages)'
  BY <1>0, <1>1, <1>5, <1>9 DEF NamesApart
<1>12. AcceptedAreThere'
  <2> SUFFICES ASSUME NEW a \in draft'.accepted PROVE Has(after, a)
    BY <1>0, <1>1, <1>9 DEF AcceptedAreThere
  <2>1. CASE a \in draft.accepted
    BY <2>1, <1>1, <1>5 DEF AcceptedAreThere
  <2>2. CASE a \in {<<z, c>> : c \in kept}
    BY <2>2, <1>5
  <2> QED
    BY <2>1, <2>2, <1>9
<1>13. SoughtSoFar'
  <2>1. \A d, y : AskedOn(d, y)' = AskedOn(d, y)
    BY <1>0, SameUnasked
  <2> QED
    BY <2>1, <1>0, <1>10 DEF NamesInv, SoughtSoFar
<1>14. GardenSoFar'
  <2>0. /\ draft.links = variants
        /\ \A q \in named : \E p \in draft.pages :
               p.zone = q.zone /\ AnswersTo(q) \subseteq AnswersTo(p)
        /\ \A a \in draft.accepted : \A q \in named : q.zone = a[1] => a[2].shown \notin AnswersTo(q)
        /\ draft.accepted = {} =>
               /\ draft.pages = named
               /\ \A y \in Zones : y < z => \A c \in AskedOn(days, y) : <<y, c>> \in draft.asked
    BY <1>0 DEF NamesInv, GardenSoFar
  <2>1. \A q \in named : \E p \in after : p.zone = q.zone /\ AnswersTo(q) \subseteq AnswersTo(p)
    <3> SUFFICES ASSUME NEW q \in named
                 PROVE  \E p \in after : p.zone = q.zone /\ AnswersTo(q) \subseteq AnswersTo(p)
      OBVIOUS
    <3>1. PICK p \in draft.pages : p.zone = q.zone /\ AnswersTo(q) \subseteq AnswersTo(p)
      BY <2>0
    <3>2. PICK s \in after : s.zone = p.zone /\ AnswersTo(p) \subseteq AnswersTo(s)
      BY <1>5
    <3> QED
      BY <3>1, <3>2
  <2>2. \A a \in draft'.accepted : \A q \in named : q.zone = a[1] => a[2].shown \notin AnswersTo(q)
    <3> SUFFICES ASSUME NEW a \in draft'.accepted, NEW q \in named, q.zone = a[1]
                 PROVE  a[2].shown \notin AnswersTo(q)
      OBVIOUS
    <3>1. CASE a \in draft.accepted
      BY <3>1, <2>0
    <3>2. CASE a \in {<<z, c>> : c \in kept}
      <4>1. PICK c \in kept : a = <<z, c>>
        BY <3>2
      <4>2. PICK p \in draft.pages : p.zone = q.zone /\ AnswersTo(q) \subseteq AnswersTo(p)
        BY <2>0
      <4>3. c.shown \notin AnswersTo(p)
        BY <4>1, <4>2, <1>5
      <4> QED
        BY <4>1, <4>2, <4>3
    <3> QED
      BY <3>1, <3>2, <1>9
  <2>3. ASSUME draft'.accepted = {}
        PROVE  /\ draft'.pages = named
               /\ \A y \in Zones : y < z + 1 => \A c \in AskedOn(days, y) : <<y, c>> \in draft'.asked
    <3>1. draft.accepted = {} /\ kept = {}
      <4>1. draft.accepted \cup {<<z, c>> : c \in kept} = {}
        BY <2>3, <1>9
      <4> QED
        BY <4>1
    <3>2. draft.pages = named /\ after = named
      BY <3>1, <2>0, <1>5
    <3>3. asked = AskedOn(days, z)
      <4>1. CollidingNames(pages) = {} \/ z # 0
        <5> USE DEF pages
        <5> SUFFICES ASSUME z = 0, NEW p \in EntitiesOf(pages), NEW q \in EntitiesOf(pages), p # q
                     PROVE  AnswersTo(p) \cap AnswersTo(q) = {}
          BY DEF CollidingNames
        <5>1. p \in draft.pages /\ q \in draft.pages /\ p.zone = 0 /\ q.zone = 0
              /\ p.role = "entity" /\ q.role = "entity"
          BY DEF EntitiesOf, Seen
        <5> QED
          BY <5>1, <1>1 DEF NamesApart, EntitiesApart
      <4>2. found = Unasked(z)
        BY <4>1, <3>2, <2>0 DEF Unasked, found, pages, links
      <4> QED
        BY <4>2 DEF AskedOn, asked
    <3>4. ASSUME NEW y \in Zones, y < z + 1, NEW c \in AskedOn(days, y) PROVE <<y, c>> \in draft'.asked
      <4>1. y \in Nat
        BY PageNamesAssumption
      <4>2. CASE y < z
        BY <4>2, <3>1, <3>4, <2>0, <1>9
      <4>3. CASE y = z
        BY <4>3, <3>3, <3>4, <1>9
      <4> QED
        BY <4>1, <4>2, <4>3, <3>4, <1>2
    <3> QED
      BY <3>2, <3>4, <1>9
  <2>4. \A y : AskedOn(days, y)' = AskedOn(days, y)
    BY <1>0, SameUnasked
  <2>5. draft'.accepted = {} =>
            \A y \in Zones : y < draft'.zone => \A c \in AskedOn(days, y)' : <<y, c>> \in draft'.asked
    BY <2>3, <2>4, <1>9
  <2>6. draft'.links = variants' /\ named' = named /\ draft'.pages = after
    BY <2>0, <1>0, <1>9
  <2> QED
    BY <2>1, <2>2, <2>3, <2>5, <2>6 DEF GardenSoFar
<1> QED
  BY <1>10, <1>11, <1>12, <1>13, <1>14 DEF NamesInv

\* A garden that left the branch as it was had no name accepted, and asked every layer in turn.
LEMMA QuietGarden ==
    ASSUME NamesInv, draft.kind = "garden", draft.zone \notin Zones, draft.pages = named
    PROVE  \A z \in Zones : \A c \in AskedOn(days, z) : <<z, c>> \in draft.asked
<1>1. draft.accepted = {}
  <2> SUFFICES ASSUME NEW a \in draft.accepted PROVE FALSE
    OBVIOUS
  <2>1. PICK p \in named : p.zone = a[1] /\ p.title = a[2].to /\ a[2].shown \in p.aliases
    BY DEF NamesInv, AcceptedAreThere, Has
  <2>2. a[2].shown \notin AnswersTo(p)
    BY <2>1 DEF NamesInv, GardenSoFar
  <2> QED
    BY <2>1, <2>2 DEF AnswersTo
<1>2. ASSUME NEW z \in Zones PROVE z < draft.zone
  <2>1. z \in Nat /\ draft.zone \in Nat /\ 0 .. z \subseteq Zones
    BY DraftParts, PageNamesAssumption DEF NamesInv
  <2> QED
    BY <2>1
<1> QED
  BY <1>1, <1>2 DEF NamesInv, GardenSoFar

\* A garden lands its pages and counts as quiet if none changed.
LEMMA EndGardenStep == ASSUME NamesInv, EndGarden PROVE NamesInv'
<1>0. /\ draft.kind = "garden" /\ draft.zone \notin Zones
      /\ named' = draft.pages /\ report' = draft.accepted
      /\ IF named' = named THEN quiet' = quiet + 1 /\ sought' = sought \cup draft.asked
                           ELSE quiet' = 0 /\ sought' = {}
      /\ draft' = NoDraft /\ UNCHANGED <<variants, namings, given, days>>
  BY DEF EndGarden
<1>1. NamesType /\ NamesApart(draft.pages) /\ AcceptedAreThere
  BY DEF NamesInv
<1>2. /\ draft.pages \in SUBSET NamedPage /\ draft.accepted \in SUBSET (Nat \X Found)
      /\ draft.asked \in SUBSET (Nat \X Found)
  BY <1>1, DraftParts
<1>3. days \in Nat /\ quiet \in Nat /\ LastDay = days - 1 /\ quiet <= days - 1
      /\ sought \in SUBSET (Nat \X Found)
  BY <1>0, <1>1, PageNamesAssumption DEF NamesType, LastDay
<1> HIDE DEF NoDraft
<1>4. LastDay' = days
  BY <1>0, NoDraftParts DEF LastDay
<1>5. quiet' \in Nat /\ quiet' <= days /\ sought' \in SUBSET (Nat \X Found)
  <2>1. CASE named' = named
    BY <2>1, <1>0, <1>2, <1>3
  <2>2. CASE named' # named
    BY <2>2, <1>0, <1>3
  <2> QED
    BY <2>1, <2>2
<1>6. NamesType'
  <2>1. IsFiniteSet(NoDraft.links)
    BY NoDraftParts, FS_EmptySet
  <2> QED
    BY <2>1, <1>0, <1>1, <1>2, <1>4, <1>5, NoDraftParts DEF NamesType
<1>7. NamesApart(named)' /\ NamesApart(draft.pages)'
  <2>1. EntitiesApart(named') /\ NotesHaveNoAlias(named') /\ (given' = 0 => PagesApart(named'))
    BY <1>0, <1>1 DEF NamesApart
  <2>2. draft'.pages = {}
    BY <1>0, NoDraftParts
  <2>3. EntitiesApart({}) /\ NotesHaveNoAlias({}) /\ PagesApart({})
    BY DEF EntitiesApart, NotesHaveNoAlias, PagesApart
  <2> QED
    BY <2>1, <2>2, <2>3 DEF NamesApart
<1>8. AcceptedAreThere'
  BY <1>0, <1>1, NoDraftParts DEF AcceptedAreThere
<1>9. GardenSoFar'
  BY <1>0, NoDraftParts DEF GardenSoFar
<1>10. SoughtSoFar'
  <2>1. CASE named' # named
    <3>1. \A d \in Nat : ~(LastDay' - quiet' < d /\ d <= LastDay')
      BY <2>1, <1>0, <1>3, <1>4
    <3> QED
      BY <3>1 DEF SoughtSoFar
  <2>2. CASE named' = named
    <3>1. \A z \in Zones : \A c \in AskedOn(days, z) : <<z, c>> \in draft.asked
      BY <2>2, <1>0, QuietGarden
    <3>2. \A d, z : AskedOn(d, z)' = AskedOn(d, z)
      BY <2>2, <1>0, SameUnasked
    <3> PICK today \in Nat : today = days
      BY <1>3
    <3>3. ASSUME NEW d \in Nat, LastDay' - quiet' < d, d <= LastDay', NEW z \in Zones,
                        NEW c \in AskedOn(d, z)
          PROVE  <<z, c>> \in sought'
      <4>1. quiet' = quiet + 1 /\ sought' = sought \cup draft.asked
        BY <2>2, <1>0
      <4>2. CASE d = today
        BY <4>1, <4>2, <3>1, <3>3
      <4>3. CASE d # today
        <5>1. LastDay - quiet < d /\ d <= LastDay
          BY <4>1, <4>3, <3>3, <1>3, <1>4
        <5> QED
          BY <4>1, <5>1, <3>3 DEF NamesInv, SoughtSoFar
      <4> QED
        BY <4>2, <4>3
    <3> QED
      BY <3>2, <3>3 DEF SoughtSoFar
  <2> QED
    BY <2>1, <2>2
<1> QED
  BY <1>6, <1>7, <1>8, <1>9, <1>10 DEF NamesInv

\* A step of nothing.
LEMMA NamesStutter == ASSUME NamesInv, UNCHANGED nameVars PROVE NamesInv'
<1>1. /\ named' = named /\ variants' = variants /\ draft' = draft /\ report' = report /\ quiet' = quiet
      /\ sought' = sought /\ namings' = namings /\ given' = given /\ days' = days
  BY DEF nameVars
<1>2. LastDay' = LastDay
  BY <1>1 DEF LastDay
<1>3. NamesType'
  BY <1>1, <1>2 DEF NamesInv, NamesType
<1>4. NamesApart(named)' /\ NamesApart(draft.pages)'
  BY <1>1 DEF NamesInv, NamesApart
<1>5. AcceptedAreThere'
  BY <1>1 DEF NamesInv, AcceptedAreThere
<1>6. /\ \A d, z : AskedOn(d, z)' = AskedOn(d, z)
      /\ \A z : AskedOn(days, z)' = AskedOn(days, z)
  BY <1>1, SameUnasked
<1>7. GardenSoFar'
  BY <1>1, <1>6 DEF NamesInv, GardenSoFar
<1>8. SoughtSoFar'
  BY <1>1, <1>2, <1>6 DEF NamesInv, SoughtSoFar
<1> QED
  BY <1>3, <1>4, <1>5, <1>7, <1>8 DEF NamesInv

\* The invariant is inductive.
LEMMA NamesNext_Inv == NamesInv /\ [NamesNext]_nameVars => NamesInv'
<1> SUFFICES ASSUME NamesInv, [NamesNext]_nameVars PROVE NamesInv'
  OBVIOUS
<1>1. CASE \E z \in Zones : BeginNaming(z)
  BY <1>1, BeginNamingStep
<1>2. CASE \E role \in {"entity", "note"}, title \in Names, aliases \in {{}} \cup {{n} : n \in Names} :
               CreatePage(role, title, aliases)
  BY <1>2, CreatePageStep
<1>3. CASE \E p \in draft.pages, name \in Names : GiveAlias(p, name)
  BY <1>3, GiveAliasStep
<1>4. CASE \E to, shown \in Names : AddVariant(to, shown)
  BY <1>4, AddVariantStep
<1>5. CASE NameFiling \/ EndFiling
  BY <1>5, NameFilingStep, EndFilingStep
<1>6. CASE BeginGarden \/ NameLayer \/ EndGarden
  BY <1>6, BeginGardenStep, NameLayerStep, EndGardenStep
<1>7. CASE UNCHANGED nameVars
  BY <1>7, NamesStutter
<1> QED
  BY <1>1, <1>2, <1>3, <1>4, <1>5, <1>6, <1>7 DEF NamesNext

\* So it always holds.
LEMMA NamesSpec_Inv == NamesSpec => []NamesInv
  BY NamesInit_Inv, NamesNext_Inv, PTL DEF NamesSpec

\* However writes, gardens and hands give names to pages, no two pages of a layer answer to the same
\* name, until an update gives a page a name by hand (writer.py:1479-1528, aliases.py:77-118).
THEOREM NamesReachOnePage == NamesSpec => []NameReachesOnePage
<1>1. NamesInv => NameReachesOnePage
  BY DEF NamesInv, NamesApart, PagesApart, NameReachesOnePage
<1> QED
  BY <1>1, NamesSpec_Inv, PTL
-----------------------------------------------------------------------------
(* Every text that waits comes by *)

\* Division with remainder.
LEMMA DivMod ==
    ASSUME NEW a \in Int, NEW n \in Nat \ {0}
    PROVE  /\ a % n \in 0 .. n - 1 /\ a \div n \in Int
           /\ a = n * (a \div n) + (a % n)
<1>1. a % n \in 0 .. n - 1
  OBVIOUS
<1>2. a \div n \in Int
  OBVIOUS
<1>3. a = n * (a \div n) + (a % n)
  BY SMTT(30)
<1> QED
  BY <1>1, <1>2, <1>3

\* The remainder is the least of what a number is apart from a multiple.
LEMMA ModIsLeast ==
    ASSUME NEW a \in Int, NEW n \in Nat \ {0}, NEW k \in Int, NEW t \in Nat, a = n * k + t
    PROVE  a % n <= t
<1> DEFINE m == a % n
           e == a \div n
<1>1. m \in 0 .. n - 1 /\ e \in Int /\ a = n * e + m
  BY DivMod
<1> HIDE DEF m, e
<1>2. CASE e >= k
  <2>1. n * e >= n * k
    BY <1>1, <1>2
  <2> QED
    BY <1>1, <2>1 DEF m
<1>3. CASE e <= k - 1
  <2>1. n * e <= n * (k - 1)
    BY <1>1, <1>3
  <2>2. n * (k - 1) = n * k - n
    OBVIOUS
  <2> QED
    BY <1>1, <2>1, <2>2 DEF m
<1> QED
  BY <1>1, <1>2, <1>3

\* Of n days in a row, each of which asks `cap` of n from where the day before stopped, one comes by.
LEMMA RotationComesBy ==
    ASSUME NEW n \in Nat \ {0}, NEW cap \in Nat \ {0}, NEW place \in Int, NEW first \in Nat
    PROVE  \E d \in Nat : first <= d /\ d < first + n /\ (place - d * cap) % n < cap
<1> DEFINE r == (place - first * cap) % n
           e == (place - first * cap) \div n
           j == r \div cap
           t == r % cap
<1>0. first * cap \in Nat /\ place - first * cap \in Int
  OBVIOUS
<1>1. r \in 0 .. n - 1 /\ e \in Int /\ place - first * cap = n * e + r
  BY <1>0, DivMod
<1>2. t \in 0 .. cap - 1 /\ j \in Int /\ r = cap * j + t
  BY <1>1, DivMod
<1> HIDE DEF r, e, j, t
<1>3. j >= 0
  <2> SUFFICES ASSUME j <= -1 PROVE FALSE
    BY <1>2
  <2>1. cap * j <= cap * (-1)
    BY <1>2
  <2> QED
    BY <1>1, <1>2, <2>1
<1>4. j <= n - 1
  <2> SUFFICES ASSUME j >= n PROVE FALSE
    BY <1>2
  <2>1. cap * j = j + (cap - 1) * j /\ (cap - 1) * j >= 0
    BY <1>2, <1>3
  <2> QED
    BY <1>1, <1>2, <2>1
<1> DEFINE d == first + j
<1>5. d \in Nat /\ first <= d /\ d < first + n
  BY <1>2, <1>3, <1>4
<1>6. d * cap = first * cap + cap * j
  BY <1>2
<1>7. place - d * cap = n * e + t
  BY <1>0, <1>1, <1>2, <1>6
<1>8. (place - d * cap) % n <= t
  <2>1. place - d * cap \in Int /\ t \in Nat
    BY <1>0, <1>2, <1>6
  <2> HIDE DEF d
  <2> QED
    BY <2>1, <1>1, <1>7, ModIsLeast
<1>9. (place - d * cap) % n < cap
  <2>1. place - d * cap \in Int
    BY <1>0, <1>2, <1>6
  <2>2. (place - d * cap) % n \in Int
    BY <2>1, DivMod
  <2> QED
    BY <2>2, <1>2, <1>8
<1> QED
  BY <1>5, <1>9

\* Only finitely many texts wait for a name.
LEMMA UnaskedIsFinite ==
    ASSUME NamesInv, NEW z
    PROVE  IsFiniteSet(Unasked(z))
<1> DEFINE links == {v \in variants : v.zone \in {0, z}}
           f == [v \in links |-> [to |-> v.to, shown |-> v.shown]]
           T == {f[v] : v \in links}
<1>1. IsFiniteSet(links) /\ links \in SUBSET Link
  <2>1. IsFiniteSet(variants) /\ variants \in SUBSET Link /\ links \in SUBSET variants
    BY DEF NamesInv, NamesType
  <2> QED
    BY <2>1, FS_Subset
<1>2. f \in Surjection(links, T)
  BY DEF Surjection
<1>3. IsFiniteSet(T)
  <2> HIDE DEF f, links, T
  <2> QED
    BY <1>1, <1>2, FS_Surjection
<1>4. Unasked(z) \subseteq T
  <2> SUFFICES ASSUME NEW c \in Unasked(z) PROVE c \in T
    OBVIOUS
  <2>1. Seen(named, z) \in SUBSET NamedPage
    BY DEF NamesInv, NamesType, Seen
  <2>a. c \in Candidates(Seen(named, z), z, links)
    BY DEF Unasked
  <2> HIDE DEF links, f, T
  <2>2. c \in Found /\ {v.to : v \in {u \in links : u.shown = c.shown}} = {c.to}
    BY <2>1, <2>a, <1>1, CandidateFacts
  <2>3. PICK v \in links : v.shown = c.shown /\ v.to = c.to
    BY <2>2
  <2>4. c = [to |-> v.to, shown |-> v.shown]
    BY <2>2, <2>3 DEF Found
  <2> QED
    BY <2>3, <2>4 DEF T, f
<1> QED
  BY <1>3, <1>4, FS_Subset

\* After as many quiet days as there are variants, each was asked.
LEMMA EveryVariantComesBy == NamesInv => EveryVariantIsAsked
<1> SUFFICES ASSUME NamesInv, NEW z \in Zones, draft.kind = "none", quiet >= Cardinality(Unasked(z)),
                    NEW c \in Unasked(z)
             PROVE  <<z, c>> \in sought
  BY DEF EveryVariantIsAsked, Unasked
<1> DEFINE found == Unasked(z)
<1>1. days \in Nat /\ quiet \in Nat /\ LastDay = days /\ quiet <= days
  BY PageNamesAssumption DEF NamesInv, NamesType, LastDay
<1>2. IsFiniteSet(found)
  BY UnaskedIsFinite
<1> HIDE DEF found
<1>3. c \in found
  BY DEF found
<1> PICK n \in Nat : n = Cardinality(found)
  BY <1>2, FS_CardinalityType
<1>4. n # 0 /\ quiet >= n
  BY <1>2, <1>3, FS_EmptySet DEF found
<1> PICK place \in Nat : place = Place(found, c)
  <2>1. {d \in found : d.to < c.to \/ (d.to = c.to /\ d.shown < c.shown)} \in SUBSET found
    OBVIOUS
  <2> QED
    BY <2>1, <1>2, FS_Subset, FS_CardinalityType DEF Place
<1> PICK first \in Nat : first = days - quiet + 1
  BY <1>1
<1>5. GardenCap \in Nat \ {0}
  BY PageNamesAssumption
<1>6. PICK d \in Nat : first <= d /\ d < first + n /\ (place - d * GardenCap) % n < GardenCap
  <2>1. n \in Nat \ {0} /\ place \in Int
    BY <1>4
  <2> QED
    BY <2>1, <1>5, RotationComesBy
<1>7. LastDay - quiet < d /\ d <= LastDay
  BY <1>1, <1>4, <1>6
<1>8. c \in AskedOn(d, z)
  <2>1. (Place(found, c) - StartOf(d)) % Cardinality(found) < GardenCap
    BY <1>6 DEF StartOf
  <2> QED
    BY <2>1, <1>3 DEF AskedOn, FirstAsked, found
<1> QED
  BY <1>7, <1>8 DEF NamesInv, SoughtSoFar

\* A name that was accepted is stored, and after as many quiet days as a layer has variants each of
\* them was asked: the rotation of aliases.py:77-118 and 136-178 passes over none.
THEOREM AnswersStay == NamesSpec => []AnswersAreKept
<1>1. NamesInv => AcceptedIsStored
  <2> SUFFICES ASSUME NamesInv, NEW a \in report
               PROVE  \E p \in Seen(named, a[1]) : p.title = a[2].to /\ a[2].shown \in p.aliases
    BY DEF AcceptedIsStored
  <2>1. PICK p \in named : p.zone = a[1] /\ p.title = a[2].to /\ a[2].shown \in p.aliases
    BY DEF NamesInv, AcceptedAreThere, Has
  <2> QED
    BY <2>1 DEF Seen
<1>2. NamesInv => AnswersAreKept
  BY <1>1, EveryVariantComesBy DEF AnswersAreKept
<1> QED
  BY <1>2, NamesSpec_Inv, PTL

\* The branch, the worktree and the counters are always what PageNamesTypeOK says (aliases.py and its
\* callers in writer.py).
THEOREM NamesTypeCorrect == NamesSpec => []PageNamesTypeOK
<1>1. NamesInv => PageNamesTypeOK
  <2> SUFFICES ASSUME NamesInv PROVE PageNamesTypeOK
    OBVIOUS
  <2>1. NamesType
    BY DEF NamesInv
  <2>2. quiet \in 0 .. MaxDays
    BY <2>1, PageNamesAssumption DEF NamesType, LastDay
  <2>3. variants \subseteq [zone : Zones, to : Names, shown : Names]
    BY <2>1 DEF NamesType, Link
  <2> QED
    BY <2>1, <2>2, <2>3, DraftParts DEF NamesType, PageNamesTypeOK
<1> QED
  BY <1>1, NamesSpec_Inv, PTL

-----------------------------------------------------------------------------
(* The repairs of the gardener: layer by layer, over public pages that are repaired. *)

GardenPage == SomePage \cup {NoText}

\* The layers a garden has not come to are as they were.
AheadIsUntouched == \A i \in DOMAIN Order : i >= turn => bed[Order[i]] = tip[Order[i]]

\* What is stored is of pages that were faulty to begin with, and has no line public has.
OnlyFaultyAreStored ==
    \A l \in Zone, n \in Titles : bed[l][n] # tip[l][n] =>
        /\ n \in Faulty(Sight(tip, l))
        /\ l # Root => bed[l][n].units \cap bed[Root][n].units = {}

\* The public pages that are there are those that were, with their front matter, and if one was
\* rewritten none of them is faulty any more.
PublicStands ==
    /\ \A n \in Titles : /\ bed[Root][n] = NoText <=> tip[Root][n] = NoText
                         /\ bed[Root][n].sound = tip[Root][n].sound
    /\ bed[Root] = tip[Root] \/ Faulty(Sight(bed, Root)) = {}

GardenInv ==
    /\ GardenTypeOK
    /\ turn # 0 => AheadIsUntouched /\ OnlyFaultyAreStored /\ PublicStands

-----------------------------------------------------------------------------
\* The public layer is the first of the order, and no other.
LEMMA RootIsFirst ==
    /\ Root \in Zone /\ 1 \in DOMAIN Order
    /\ \A i \in DOMAIN Order : Order[i] \in Zone /\ (Order[i] = Root <=> i = 1)
<1>1. 1 \in DOMAIN Order
  BY GardenRepairAssumption
<1>2. \A i \in DOMAIN Order : Order[i] \in Zone
  BY DEF Zone
<1>3. ASSUME NEW i \in DOMAIN Order PROVE Order[i] = Order[1] <=> i = 1
  BY <1>1, GardenRepairAssumption
<1> QED
  BY <1>1, <1>2, <1>3 DEF Root

\* A page that is there has lines.
LEMMA PagesHaveText ==
    /\ NoText \in GardenPage
    /\ \A p \in GardenPage : p.units \subseteq Lines /\ p.sound \in BOOLEAN
    /\ \A p \in GardenPage : p.units = {} <=> p = NoText
<1>1. NoText \in GardenPage
  BY DEF GardenPage
<1>2. NoText.units = {} /\ NoText.sound = TRUE
  BY DEF NoText
<1>3. ASSUME NEW p \in SomePage
      PROVE  p.units \subseteq Lines /\ p.sound \in BOOLEAN /\ p.units # {}
  BY <1>3 DEF SomePage
<1> HIDE DEF NoText, SomePage
<1> QED
  BY <1>1, <1>2, <1>3 DEF GardenPage

\* Public is seen as it is.
LEMMA PublicIsSeen ==
    ASSUME NEW pages \in [Zone -> [Titles -> GardenPage]]
    PROVE  Sight(pages, Root) = pages[Root]
<1>1. ASSUME NEW n \in Titles
      PROVE  pages[Root][n] = [units |-> pages[Root][n].units, sound |-> pages[Root][n].sound]
             /\ pages[Root][n].sound \in BOOLEAN
  <2>1. pages[Root][n] \in GardenPage
    BY RootIsFirst
  <2>2. pages[Root][n] \in [units : SUBSET Lines, sound : BOOLEAN]
    <3>1. SomePage \subseteq [units : SUBSET Lines, sound : BOOLEAN]
      BY DEF SomePage
    <3>2. NoText \in [units : SUBSET Lines, sound : BOOLEAN]
      BY DEF NoText
    <3> QED
      BY <2>1, <3>1, <3>2 DEF GardenPage
  <2> QED
    BY <2>2
<1>2. pages[Root] = [n \in Titles |-> pages[Root][n]]
  BY RootIsFirst
<1> QED
  BY <1>1, <1>2 DEF Sight

\* A page of a view is not there when neither layer has it.
LEMMA SightIsOfBoth ==
    ASSUME NEW pages \in [Zone -> [Titles -> GardenPage]], NEW l \in Zone, NEW n \in Titles
    PROVE  Sight(pages, l)[n] = NoText <=> pages[Root][n] = NoText /\ pages[l][n] = NoText
<1>1. pages[Root][n] \in GardenPage /\ pages[l][n] \in GardenPage
  BY RootIsFirst
<1>2. Sight(pages, l)[n] = [units |-> pages[Root][n].units \cup pages[l][n].units,
                            sound |-> pages[Root][n].sound /\ pages[l][n].sound]
  BY DEF Sight
<1>3. ASSUME Sight(pages, l)[n] = NoText PROVE pages[Root][n].units = {} /\ pages[l][n].units = {}
  <2>1. Sight(pages, l)[n].units = {}
    BY <1>3 DEF NoText
  <2> QED
    BY <1>2, <2>1
<1>4. ASSUME pages[Root][n] = NoText, pages[l][n] = NoText PROVE Sight(pages, l)[n] = NoText
  <2>1. NoText.units = {} /\ NoText.sound = TRUE
    BY DEF NoText
  <2>2. Sight(pages, l)[n] = [units |-> {} \cup {}, sound |-> TRUE /\ TRUE]
    BY <1>2, <1>4, <2>1
  <2> QED
    BY <2>2 DEF NoText
<1> QED
  BY <1>1, <1>3, <1>4, PagesHaveText

\* A page that is not there has nothing wrong with it.
LEMMA FaultyIsThere ==
    ASSUME NEW seen, NEW n \in Faulty(seen)
    PROVE  n \in Titles /\ seen[n] # NoText
  BY DEF Faulty, NoText

\* Before a layer is repaired its readers see nothing wrong that they did not see at the start.
LEMMA NothingWrongIsNew ==
    ASSUME GardenInv, NEW i \in DOMAIN Order, turn = i, NEW n \in Faulty(Sight(bed, Order[i]))
    PROVE  n \in Faulty(Sight(tip, Order[i]))
<1> DEFINE l == Order[i]
<1>0. /\ tip \in [Zone -> [Titles -> GardenPage]] /\ bed \in [Zone -> [Titles -> GardenPage]]
      /\ l \in Zone /\ Root \in Zone /\ n \in Titles /\ turn # 0
  BY RootIsFirst, GardenRepairAssumption DEF GardenInv, GardenTypeOK, GardenPage, Faulty
<1>1. bed[l] = tip[l] /\ PublicStands
  BY <1>0, GardenRepairAssumption DEF GardenInv, AheadIsUntouched
<1>2. \A m \in Titles : Sight(bed, l)[m] = NoText <=> Sight(tip, l)[m] = NoText
  BY <1>0, <1>1, SightIsOfBoth DEF PublicStands
<1>3. CASE ~Sight(bed, l)[n].sound
  <2>1. Sight(bed, l)[n].sound = Sight(tip, l)[n].sound
    BY <1>0, <1>1 DEF Sight, PublicStands
  <2> QED
    BY <1>0, <1>3, <2>1 DEF Faulty
<1>4. CASE \E u \in Sight(bed, l)[n].units : Target[u] # NoTarget /\ Sight(bed, l)[Target[u]] = NoText
  <2> PICK u \in Sight(bed, l)[n].units : Target[u] # NoTarget /\ Sight(bed, l)[Target[u]] = NoText
    BY <1>4
  <2>1. u \in bed[Root][n].units \cup bed[l][n].units
    BY <1>0 DEF Sight
  <2>2. u \in Lines /\ Target[u] \in Titles
    <3>1. bed[Root][n] \in GardenPage /\ bed[l][n] \in GardenPage
      BY <1>0
    <3> QED
      BY <2>1, <3>1, PagesHaveText, GardenRepairAssumption
  <2>3. Sight(tip, l)[Target[u]] = NoText /\ bed[Root][Target[u]] = NoText
    BY <1>0, <1>2, <2>2, SightIsOfBoth
  <2>4. u \in Sight(tip, l)[n].units
    <3>1. CASE bed[Root] = tip[Root] \/ u \in bed[l][n].units
      BY <1>0, <1>1, <2>1, <3>1 DEF Sight
    <3>2. CASE Faulty(Sight(bed, Root)) = {} /\ u \in bed[Root][n].units
      <4>1. Faulty(bed[Root]) = {}
        BY <1>0, <3>2, PublicIsSeen
      <4> QED
        BY <1>0, <2>2, <2>3, <3>2, <4>1 DEF Faulty
    <3> QED
      BY <2>1, <3>1, <3>2, <1>1 DEF PublicStands
  <2> QED
    BY <1>0, <2>3, <2>4 DEF Faulty
<1> QED
  BY <1>3, <1>4 DEF Faulty

\* What a layer stores of a page that was rewritten in its view.
LEMMA StoredIsOfTheLayer ==
    ASSUME GardenInv, NEW i \in DOMAIN Order, turn = i, NEW l, l = Order[i],
           NEW seen, seen = Sight(bed, l), NEW after \in Repairs(seen), NEW n \in Titles
    PROVE  /\ StoredPage(l, n, seen, after) \in GardenPage
           /\ StoredPage(l, n, seen, after) # bed[l][n] =>
                  /\ n \in Faulty(seen)
                  /\ l # Root => StoredPage(l, n, seen, after).units \cap bed[Root][n].units = {}
                  /\ l = Root => /\ StoredPage(l, n, seen, after) # NoText /\ bed[Root][n] # NoText
                                 /\ StoredPage(l, n, seen, after).sound = bed[Root][n].sound
           /\ l = Root => StoredPage(l, n, seen, after) = after[n]
<1> DEFINE s == StoredPage(l, n, seen, after)
           base == bed[Root][n]
           piece == PartOf(after[n], base)
<1>0. /\ bed \in [Zone -> [Titles -> GardenPage]] /\ l \in Zone /\ Root \in Zone
      /\ base \in GardenPage /\ bed[l][n] \in GardenPage
  BY RootIsFirst DEF GardenInv, GardenTypeOK, GardenPage
<1>1. after[n] \in GardenPage
      /\ (after[n] # seen[n] =>
            n \in Faulty(seen) /\ after[n].units # {} /\ after[n].sound = seen[n].sound)
  BY DEF Repairs, Repairable, GardenPage
<1>2. l = Root => seen[n] = bed[l][n]
  BY <1>0, PublicIsSeen
<1>3. piece = after[n].units \ base.units
  BY DEF PartOf
<1>4. CASE after[n] = seen[n]
  BY <1>0, <1>1, <1>2, <1>4 DEF StoredPage
<1>5. CASE after[n] # seen[n] /\ l = Root
  <2>1. s = after[n]
    BY <1>5 DEF StoredPage
  <2>2. seen[n] # NoText /\ after[n] # NoText
    BY <1>1, <1>5, FaultyIsThere, PagesHaveText
  <2> QED
    BY <2>1, <2>2, <1>1, <1>2, <1>5
<1>6. CASE after[n] # seen[n] /\ l # Root /\ base = NoText
  <2>1. s = after[n]
    BY <1>6 DEF StoredPage
  <2>2. base.units = {}
    BY <1>6 DEF NoText
  <2> QED
    BY <2>1, <2>2, <1>1, <1>6
<1>7. CASE after[n] # seen[n] /\ l # Root /\ base # NoText
  <2>1. s = IF piece = {} THEN bed[l][n] ELSE [units |-> piece, sound |-> bed[l][n].sound]
    BY <1>7 DEF StoredPage
  <2>2. piece # {} => [units |-> piece, sound |-> bed[l][n].sound] \in GardenPage
    <3>1. piece \subseteq Lines /\ bed[l][n].sound \in BOOLEAN
      BY <1>0, <1>1, <1>3, PagesHaveText
    <3> HIDE DEF piece
    <3> QED
      BY <3>1 DEF GardenPage, SomePage
  <2>3. piece \cap base.units = {}
    BY <1>3
  <2> HIDE DEF piece, base, s
  <2>4. s # bed[l][n] => s.units = piece
    BY <2>1
  <2> QED
    BY <2>1, <2>2, <2>3, <2>4, <1>0, <1>1, <1>7 DEF s, base
<1> QED
  BY <1>4, <1>5, <1>6, <1>7

\* What is said of the branch and the worktree holds while neither changes.
LEMMA PartsAreKept ==
    ASSUME UNCHANGED <<tip, bed>>, OnlyFaultyAreStored, PublicStands
    PROVE  OnlyFaultyAreStored' /\ PublicStands'
<1>1. bed' = bed /\ tip' = tip
  OBVIOUS
<1>a. \A l : /\ Faulty(Sight(tip, l))' = Faulty(Sight(tip, l))
             /\ Faulty(Sight(bed, l))' = Faulty(Sight(bed, l))
  BY <1>1 DEF Faulty, Sight
<1>2. OnlyFaultyAreStored'
  BY <1>1, <1>a DEF OnlyFaultyAreStored
<1>3. \A n \in Titles : /\ bed'[Root][n] = NoText <=> tip'[Root][n] = NoText
                         /\ bed'[Root][n].sound = tip'[Root][n].sound
  BY <1>1 DEF PublicStands
<1>4. bed'[Root] = tip'[Root] \/ Faulty(Sight(bed, Root))' = {}
  BY <1>1, <1>a DEF PublicStands
<1> QED
  BY <1>2, <1>3, <1>4 DEF PublicStands

\* A layer whose repair is stored.
Stores(l, seen, after) ==
    /\ Faulty(after) = {} /\ turn' = turn + 1
    /\ bed' = [bed EXCEPT ![l] = [n \in Titles |-> StoredPage(l, n, seen, after)]]

\* What a layer stores keeps the layers ahead, the public pages and the rest as the invariant says.
LEMMA StoresStep ==
    ASSUME GardenInv, NEW i \in DOMAIN Order, turn = i, NEW l, l = Order[i],
           NEW seen, seen = Sight(bed, l), NEW after \in Repairs(seen), Stores(l, seen, after),
           UNCHANGED tip
    PROVE  AheadIsUntouched' /\ OnlyFaultyAreStored' /\ PublicStands'
           /\ bed' \in [Zone -> [Titles -> GardenPage]]
<1> DEFINE stored(n) == StoredPage(l, n, seen, after)
<1>0. /\ tip \in [Zone -> [Titles -> GardenPage]] /\ bed \in [Zone -> [Titles -> GardenPage]]
      /\ l \in Zone /\ Root \in Zone /\ i \in Nat \ {0} /\ turn # 0
      /\ (l = Root <=> i = 1)
  BY RootIsFirst, GardenRepairAssumption DEF GardenInv, GardenTypeOK, GardenPage
<1>1. AheadIsUntouched /\ OnlyFaultyAreStored /\ PublicStands
  BY <1>0 DEF GardenInv
<1>2. bed[l] = tip[l]
  BY <1>0, <1>1 DEF AheadIsUntouched
<1>3. \A n \in Titles : bed'[l][n] = stored(n)
  BY <1>0 DEF Stores
<1>4. \A m \in Zone : m # l => bed'[m] = bed[m]
  BY <1>0 DEF Stores
<1>5. \A n \in Titles :
        /\ stored(n) \in GardenPage
        /\ stored(n) # bed[l][n] =>
               /\ n \in Faulty(seen)
               /\ l # Root => stored(n).units \cap bed[Root][n].units = {}
               /\ l = Root => /\ stored(n) # NoText /\ bed[Root][n] # NoText
                              /\ stored(n).sound = bed[Root][n].sound
        /\ l = Root => stored(n) = after[n]
  BY StoredIsOfTheLayer
<1> HIDE DEF stored
<1>6. bed' \in [Zone -> [Titles -> GardenPage]]
  <2>1. [n \in Titles |-> stored(n)] \in [Titles -> GardenPage]
    BY <1>5
  <2> QED
    BY <1>0, <2>1 DEF Stores, stored
<1>7. AheadIsUntouched'
  <2> SUFFICES ASSUME NEW j \in DOMAIN Order, j >= i + 1 PROVE bed'[Order[j]] = tip[Order[j]]
    BY <1>0 DEF AheadIsUntouched, Stores
  <2>1. j # i /\ j >= i /\ Order[j] \in Zone
    BY RootIsFirst, GardenRepairAssumption
  <2>2. Order[j] # l
    BY <2>1, GardenRepairAssumption
  <2> QED
    BY <2>1, <2>2, <1>1, <1>4 DEF AheadIsUntouched
<1>8. OnlyFaultyAreStored'
  <2> SUFFICES ASSUME NEW m \in Zone, NEW n \in Titles, bed'[m][n] # tip[m][n]
               PROVE  /\ n \in Faulty(Sight(tip, m))
                      /\ m # Root => bed'[m][n].units \cap bed'[Root][n].units = {}
    <3>1. \A m \in Zone : Faulty(Sight(tip, m))' = Faulty(Sight(tip, m))
      BY DEF Faulty, Sight
    <3> QED
      BY <3>1 DEF OnlyFaultyAreStored
  <2>1. CASE m = l
    <3>1. stored(n) # bed[l][n] /\ n \in Faulty(seen)
      BY <2>1, <1>2, <1>3, <1>5
    <3>2. n \in Faulty(Sight(tip, l))
      BY <3>1, NothingWrongIsNew
    <3>3. l # Root => bed'[l][n].units \cap bed'[Root][n].units = {}
      BY <3>1, <1>0, <1>3, <1>4, <1>5
    <3> QED
      BY <2>1, <3>2, <3>3
  <2>2. CASE m # l
    <3>1. bed[m][n] # tip[m][n] /\ bed'[m][n] = bed[m][n]
      BY <2>2, <1>4
    <3>2. i # 1
      <4>1. PICK j \in DOMAIN Order : m = Order[j]
        BY DEF Zone
      <4>2. ~(j >= i)
        BY <3>1, <4>1, <1>1 DEF AheadIsUntouched
      <4> QED
        BY <4>2, GardenRepairAssumption
    <3>3. bed'[Root] = bed[Root]
      BY <3>2, <1>0, <1>4
    <3> QED
      BY <3>1, <3>3, <1>1 DEF OnlyFaultyAreStored
  <2> QED
    BY <2>1, <2>2
<1>9. PublicStands'
  <2>1. CASE l # Root
    <3>1. bed'[Root] = bed[Root]
      BY <2>1, <1>0, <1>4
    <3>2. Sight(bed', Root) = Sight(bed, Root)
      BY <3>1 DEF Sight
    <3> QED
      BY <3>1, <3>2, <1>1 DEF PublicStands, Faulty
  <2>2. CASE l = Root
    <3>1. \A n \in Titles : /\ bed'[Root][n] = NoText <=> tip[Root][n] = NoText
                            /\ bed'[Root][n].sound = tip[Root][n].sound
      BY <2>2, <1>2, <1>3, <1>5
    <3>2. \A n \in Titles : bed'[Root][n] = after[n]
      BY <2>2, <1>3, <1>5
    <3>3. Sight(bed', Root) = bed'[Root]
      BY <1>6, PublicIsSeen
    <3>4. Target \in [Lines -> Titles \cup {NoTarget}]
         /\ \A n \in Titles : after[n].units \subseteq Lines
      BY <3>2, <1>0, <1>6, PagesHaveText, GardenRepairAssumption
    <3>5. Faulty(bed'[Root]) = {}
      BY <3>2, <3>4 DEF Stores, Faulty
    <3>6. Faulty(Sight(bed', Root)) = {}
      BY <3>3, <3>5
    <3>7. tip' = tip
      OBVIOUS
    <3>8. \A n \in Titles : /\ bed'[Root][n] = NoText <=> tip'[Root][n] = NoText
                            /\ bed'[Root][n].sound = tip'[Root][n].sound
      BY <3>1, <3>7
    <3>a. \A k : Faulty(Sight(bed, k))' = Faulty(Sight(bed', k))
      BY DEF Faulty, Sight
    <3>9. bed'[Root] = tip'[Root] \/ Faulty(Sight(bed, Root))' = {}
      BY <3>6, <3>a
    <3> QED
      BY <3>8, <3>9 DEF PublicStands
  <2> QED
    BY <2>1, <2>2
<1> QED
  BY <1>6, <1>7, <1>8, <1>9

\* No garden is under way to begin with.
LEMMA GardenInit_Inv == GardenInit => GardenInv
<1> SUFFICES ASSUME GardenInit PROVE GardenInv
  OBVIOUS
<1>1. Bare \in [Zone -> [Titles -> GardenPage]]
  BY PagesHaveText DEF Bare
<1> QED
  BY <1>1, GardenRepairAssumption DEF GardenInit, GardenInv, GardenTypeOK, GardenPage

\* The invariant is inductive.
LEMMA GardenNext_Inv == GardenInv /\ [GardenNext]_gardenVars => GardenInv'
<1> SUFFICES ASSUME GardenInv, [GardenNext]_gardenVars PROVE GardenInv'
  OBVIOUS
<1> DEFINE Kept == turn # 0 => AheadIsUntouched /\ OnlyFaultyAreStored /\ PublicStands
<1>0. GardenTypeOK /\ Kept
  BY DEF GardenInv
<1>a. Bare \in [Zone -> [Titles -> GardenPage]]
  BY PagesHaveText DEF Bare
<1>1. ASSUME NEW l \in Zone, NEW n \in Titles, PushByHand(l, n) PROVE GardenInv'
  <2>1. tip' \in [Zone -> [Titles -> GardenPage]]
    BY <1>0, <1>1 DEF PushByHand, GardenTypeOK, GardenPage
  <2>2. turn' = 0 /\ handPushes' \in 0 .. MaxPushes /\ UNCHANGED <<bed, turn, repaired, gardens>>
    BY <1>0, <1>1, GardenRepairAssumption DEF PushByHand, GardenTypeOK
  <2> QED
    BY <2>1, <2>2, <1>0 DEF GardenInv, GardenTypeOK, GardenPage
<1>2. CASE BeginRepairs
  <2>1. /\ bed' = tip /\ turn' = 1 /\ repaired' = {} /\ gardens' \in 0 .. MaxGardens
        /\ UNCHANGED <<tip, handPushes>>
    BY <1>0, <1>2, GardenRepairAssumption DEF BeginRepairs, GardenTypeOK
  <2>2. GardenTypeOK'
    BY <2>1, <1>0, GardenRepairAssumption DEF GardenTypeOK
  <2>3. AheadIsUntouched' /\ OnlyFaultyAreStored' /\ PublicStands'
    BY <2>1 DEF AheadIsUntouched, OnlyFaultyAreStored, PublicStands
  <2> QED
    BY <2>2, <2>3 DEF GardenInv
<1>3. CASE GardenOver /\ (tip' = tip \/ tip' = bed) /\ UNCHANGED <<handPushes, gardens>>
  BY <1>0, <1>3, <1>a, GardenRepairAssumption DEF GardenOver, GardenInv, GardenTypeOK, GardenPage
<1>4. CASE RepairLayer
  <2> DEFINE l == Order[turn]
             seen == Sight(bed, l)
  <2>0. turn \in DOMAIN Order /\ l \in Zone /\ turn \in Nat \ {0}
       /\ UNCHANGED <<tip, handPushes, gardens>>
        /\ turn + 1 \in 0 .. Len(Order) + 1
    BY <1>4, RootIsFirst, GardenRepairAssumption DEF RepairLayer
  <2>1. ASSUME turn' = turn + 1, UNCHANGED <<bed, repaired>> PROVE GardenInv'
    <3>1. AheadIsUntouched'
      BY <2>0, <2>1, <1>0, GardenRepairAssumption DEF AheadIsUntouched
    <3>2. OnlyFaultyAreStored' /\ PublicStands'
      BY <2>0, <2>1, <1>0, PartsAreKept
    <3>3. GardenTypeOK'
      BY <2>0, <2>1, <1>0 DEF GardenTypeOK
    <3> QED
      BY <3>1, <3>2, <3>3 DEF GardenInv
  <2>2. ASSUME NEW after \in Repairs(seen), Stores(l, seen, after),
               repaired' = repaired \cup {<<l, n>> : n \in {m \in Titles : after[m] # seen[m]}}
        PROVE  GardenInv'
    <3>1. /\ AheadIsUntouched' /\ OnlyFaultyAreStored' /\ PublicStands'
          /\ bed' \in [Zone -> [Titles -> GardenPage]]
      BY <2>0, <2>2, StoresStep
    <3>2. repaired' \subseteq Zone \X Titles
      BY <2>0, <2>2, <1>0 DEF GardenTypeOK
    <3>3. turn' \in 0 .. Len(Order) + 1
      BY <2>0, <2>2 DEF Stores
    <3> QED
      BY <2>0, <3>1, <3>2, <3>3, <1>0 DEF GardenInv, GardenTypeOK, GardenPage
  <2> QED
    BY <1>3, <1>4, <2>0, <2>1, <2>2 DEF RepairLayer, Stores
<1>5. CASE LandRepairs
  BY <1>3, <1>5 DEF LandRepairs
<1>6. CASE UNCHANGED gardenVars
  <2>1. UNCHANGED <<tip, bed, turn, repaired, handPushes, gardens>>
    BY <1>6 DEF gardenVars
  <2>2. GardenTypeOK'
    BY <2>1, <1>0 DEF GardenTypeOK
  <2>3. turn # 0 => AheadIsUntouched'
    BY <2>1, <1>0 DEF AheadIsUntouched
  <2>4. turn # 0 => OnlyFaultyAreStored' /\ PublicStands'
    BY <2>1, <1>0, PartsAreKept
  <2> QED
    BY <2>1, <2>2, <2>3, <2>4 DEF GardenInv
<1> QED
  BY <1>1, <1>2, <1>4, <1>5, <1>6 DEF GardenNext

\* So it always holds.
LEMMA GardenSpec_Inv == GardenSpec => []GardenInv
  BY GardenInit_Inv, GardenNext_Inv, PTL DEF GardenSpec

\* A garden that changes the branch lands its worktree, which the checks accept.
LEMMA OnlyLandingChanges ==
    ASSUME GardenInv, [GardenNext]_gardenVars, turn # 0, tip' # tip
    PROVE  tip' = bed /\ Wrong(bed) = {}
<1>1. ~(\E l \in Zone, n \in Titles : PushByHand(l, n)) /\ ~BeginRepairs /\ ~RepairLayer
  BY DEF PushByHand, BeginRepairs, RepairLayer
<1>2. LandRepairs
  BY <1>1 DEF GardenNext, gardenVars
<1> QED
  BY <1>2 DEF LandRepairs, MayLand

\* A garden lands only what lint accepts, changes only pages that were faulty, and stores in a layer
\* no line that public has (writer.py:262-283, 322-354; layered.py:181-220), for any number of
\* layers, pages and lines and whatever people push by hand in between.
THEOREM GardenLands == GardenSpec => GardenLandsRepairs
<1> DEFINE Clean == turn # 0 /\ tip' # tip => Wrong(tip') = {}
           Faults == turn # 0 => \A l \in Zone, n \in Titles :
                        tip'[l][n] # tip[l][n] => n \in Faulty(Sight(tip, l))
           Apart == turn # 0 => \A l \in Zone \ {Root}, n \in Titles :
                        tip'[l][n] # tip[l][n] => tip'[l][n].units \cap tip'[Root][n].units = {}
<1>1. GardenInv /\ [GardenNext]_gardenVars => Clean /\ Faults /\ Apart
  <2> SUFFICES ASSUME GardenInv, [GardenNext]_gardenVars, turn # 0, tip' # tip
               PROVE  Clean /\ Faults /\ Apart
    OBVIOUS
  <2>1. tip' = bed /\ Wrong(bed) = {}
    BY OnlyLandingChanges
  <2>2. OnlyFaultyAreStored
    BY DEF GardenInv
  <2> QED
    BY <2>1, <2>2 DEF OnlyFaultyAreStored
<1> HIDE DEF Clean, Faults, Apart
<1>2. GardenSpec => [][Clean]_gardenVars /\ [][Faults]_gardenVars /\ [][Apart]_gardenVars
  BY <1>1, GardenSpec_Inv, PTL DEF GardenSpec
<1> QED
  BY <1>2 DEF Clean, Faults, Apart, GardenLandsRepairs, GardenLandsClean, OnlyFaultyPagesChange,
              RepairsStayApart

-----------------------------------------------------------------------------
(* Refiling a workspace: the file, its import and its handover.                       *)

\* A row of a workspace.
FiledRow == [at : {"none", "queued", "processing", "landed", "failed"},
             of : Spaces \cup {NoSpace}, deletion : {"none", "queued", "processing", "done"}]

\* What a door is about to queue is a new capture, in one workspace.
FlightIsNew ==
    \A w \in Spaces, c \in Captured : <<w, c>> \in flight =>
        /\ \A v \in Spaces : filed[v][c] = Nothing
        /\ \A v \in Spaces : <<v, c>> \in flight => v = w

NoRowIsBlank == \A w \in Spaces, c \in Captured : filed[w][c].at = "none" => filed[w][c] = Nothing

\* The file holds what its workspace had landed, and an import queues nothing else.
FileIsOfItsSpace ==
    /\ \A c \in export.texts : export.from \in Spaces /\ filed[export.from][c].at = "landed"
    /\ import.left \subseteq export.texts
    /\ import # NoImport =>
           /\ import.to \in Spaces
           /\ \A c \in Captured : filed[import.to][c].of \in {NoSpace, export.from}

\* A suspended workspace the writer has nothing of in hand.
Still(w) ==
    /\ standing[w] = "suspended"
    /\ \A c \in Captured : filed[w][c].at # "processing" /\ filed[w][c].deletion # "processing"

\* While it is held, the exported workspace stands still and nothing of the file is deleted.
HeldIsStill ==
    held => /\ export.from \in Spaces /\ Still(export.from)
            /\ \A c \in export.texts : filed[export.from][c].deletion = "none"

\* So does a workspace that was handed over on.
HandedIsStill == handed.forward => handed.from \in Spaces /\ handed.to \in Spaces /\ Still(handed.from)

\* A session about to be opened is one where its token lives.
OpeningFollowsItsToken ==
    \A t \in Bearers : opening[t] # NoSpace => opening[t] = home[t] \/ t \in crossed

RowsInv == RefileTypeOK /\ FlightIsNew /\ NoRowIsBlank
FileInv == FileIsOfItsSpace /\ HeldIsStill /\ HandedIsStill
RefileInv == RowsInv /\ FileInv /\ OpeningFollowsItsToken /\ HandoverIsWhole

-----------------------------------------------------------------------------
(* What one step does to a row *)

\* A row is made of a capture in flight, or by an import of its file.
MadeByPerson(w, c) ==
    /\ <<w, c>> \in flight /\ flight' = flight \ {<<w, c>>}
    /\ filed'[w][c] = [Nothing EXCEPT !.at = "queued"]
MadeByImport(w, c) ==
    /\ import # NoImport /\ w = import.to /\ c \in import.left /\ (Procedure => held)
    /\ filed'[w][c] = [Nothing EXCEPT !.at = "queued", !.of = export.from]

\* A row that is there is moved by the writer or by people of an active workspace: it stays
\* landed once it has landed, and its origin stays.
Moved(w, c) ==
    /\ filed[w][c].at # "none" /\ filed'[w][c].at # "none"
    /\ filed'[w][c].of = filed[w][c].of
    /\ filed[w][c].at = "landed" => filed'[w][c].at = "landed"
    /\ filed[w][c].deletion = "done" => filed'[w][c].deletion = "done"
    /\ standing[w] = "suspended" => "processing" \in {filed[w][c].at, filed[w][c].deletion}

RowStep(w, c) ==
    \/ filed'[w][c] = filed[w][c]
    \/ filed[w][c] = Nothing /\ (MadeByPerson(w, c) \/ MadeByImport(w, c))
    \/ Moved(w, c)

\* One row is changed, in its work or in its deletion.
LEMMA RowChanged ==
    ASSUME filed \in [Spaces -> [Captured -> FiledRow]], NEW w \in Spaces, NEW c \in Captured,
           NEW r \in FiledRow, filed' = [filed EXCEPT ![w][c] = r]
    PROVE  /\ filed' \in [Spaces -> [Captured -> FiledRow]]
           /\ filed'[w][c] = r
           /\ \A v \in Spaces, d \in Captured : v # w \/ d # c => filed'[v][d] = filed[v][d]
  OBVIOUS

\* The row of a step that changes one.
OneRow(w, c, r) == r \in FiledRow /\ filed' = [filed EXCEPT ![w][c] = r]

\* Every step does one of the things of RowStep to every row.
LEMMA RowSteps ==
    ASSUME RowsInv, FileInv, RefileNext
    PROVE  /\ \A w \in Spaces, c \in Captured : RowStep(w, c)
           /\ filed' \in [Spaces -> [Captured -> FiledRow]]
<1>1. filed \in [Spaces -> [Captured -> FiledRow]]
  BY DEF RowsInv, RefileTypeOK, FiledRow
<1>2. ASSUME UNCHANGED filed
      PROVE  /\ \A w \in Spaces, c \in Captured : RowStep(w, c)
             /\ filed' \in [Spaces -> [Captured -> FiledRow]]
  BY <1>1, <1>2 DEF RowStep
<1>3. ASSUME NEW w \in Spaces, NEW c \in Captured, NEW r \in FiledRow,
             filed' = [filed EXCEPT ![w][c] = r],
             filed'[w][c] = r => RowStep(w, c)
      PROVE  /\ \A v \in Spaces, d \in Captured : RowStep(v, d)
             /\ filed' \in [Spaces -> [Captured -> FiledRow]]
  <2>1. /\ filed' \in [Spaces -> [Captured -> FiledRow]]
        /\ filed'[w][c] = r
        /\ \A v \in Spaces, d \in Captured : v # w \/ d # c => filed'[v][d] = filed[v][d]
    BY <1>1, <1>3, RowChanged
  <2>2. ASSUME NEW v \in Spaces, NEW d \in Captured, v # w \/ d # c PROVE RowStep(v, d)
    BY <2>1, <2>2 DEF RowStep
  <2> QED
    BY <2>1, <2>2, <1>3
<1>4. CASE \E w \in Spaces : Suspend(w) \/ Resume(w) \/ Export(w) \/ BeginImport(w)
  BY <1>2, <1>4 DEF Suspend, Resume, Export, BeginImport, rowVars
<1>5. CASE \E w \in Spaces, p \in Staff : Disable(w, p)
  BY <1>2, <1>5 DEF Disable, rowVars
<1>6. CASE \E t \in Bearers : FindToken(t) \/ OpenSession(t)
  BY <1>2, <1>6 DEF FindToken, OpenSession, rowVars
<1>7. CASE ImportPeople \/ EndImport
  BY <1>2, <1>7 DEF ImportPeople, EndImport, rowVars
<1>8. CASE \E s, d \in Spaces : Handover(s, d)
  BY <1>2, <1>8 DEF Handover, rowVars
<1>9. ASSUME NEW w \in Spaces, NEW c \in Captured, Admitted(w, c)
      PROVE  /\ \A v \in Spaces, d \in Captured : RowStep(v, d)
             /\ filed' \in [Spaces -> [Captured -> FiledRow]]
  BY <1>2, <1>9 DEF Admitted
<1>10. ASSUME NEW w \in Spaces, NEW c \in Captured, QueueOwn(w, c)
      PROVE  /\ \A v \in Spaces, d \in Captured : RowStep(v, d)
             /\ filed' \in [Spaces -> [Captured -> FiledRow]]
  <2>1. <<w, c>> \in flight /\ filed[w][c] = Nothing
    BY <1>10 DEF QueueOwn, RowsInv, FlightIsNew
  <2> DEFINE r == [filed[w][c] EXCEPT !.at = "queued"]
  <2>2. r \in FiledRow /\ r = [Nothing EXCEPT !.at = "queued"]
    BY <2>1 DEF FiledRow, Nothing
  <2>3. filed' = [filed EXCEPT ![w][c] = r]
    BY <1>1, <1>10 DEF QueueOwn
  <2>4. filed'[w][c] = r => RowStep(w, c)
    BY <2>1, <2>2, <1>10 DEF RowStep, MadeByPerson, QueueOwn
  <2> HIDE DEF r
  <2> QED
    BY <2>2, <2>3, <2>4, <1>3
<1>11. ASSUME NEW w \in Spaces, NEW c \in Captured,
              \/ DeleteSource(w, c) \/ ClaimWork(w, c) \/ SettleCapture(w, c)
              \/ RetryFailed(w, c) \/ SettleDeletion(w, c)
      PROVE  /\ \A v \in Spaces, d \in Captured : RowStep(v, d)
             /\ filed' \in [Spaces -> [Captured -> FiledRow]]
  <2>1. filed[w][c] \in FiledRow /\ (filed[w][c].at = "none" => filed[w][c].deletion = "none")
    BY <1>1 DEF RowsInv, NoRowIsBlank, Nothing
  <2>2. ASSUME NEW x \in {"queued", "processing", "landed", "failed"},
               filed' = [filed EXCEPT ![w][c].at = x],
               filed[w][c].at # "none",
               filed[w][c].at # "landed",
               standing[w] = "active" \/ filed[w][c].at = "processing"
        PROVE  /\ \A v \in Spaces, d \in Captured : RowStep(v, d)
               /\ filed' \in [Spaces -> [Captured -> FiledRow]]
    <3> DEFINE r == [filed[w][c] EXCEPT !.at = x]
    <3>1. r \in FiledRow
      BY <2>1 DEF FiledRow
    <3>2. filed' = [filed EXCEPT ![w][c] = r]
      BY <1>1, <2>2
    <3>3. r.at = x /\ r.of = filed[w][c].of /\ r.deletion = filed[w][c].deletion
      BY <2>1 DEF FiledRow
    <3>4. filed'[w][c] = r => RowStep(w, c)
      BY <2>2, <3>3 DEF RowStep, Moved
    <3> HIDE DEF r
    <3> QED
      BY <3>1, <3>2, <3>4, <1>3
  <2>3. ASSUME NEW x \in {"queued", "processing", "done"},
               filed' = [filed EXCEPT ![w][c].deletion = x],
               filed[w][c].at # "none", filed[w][c].deletion # "done",
               standing[w] = "active" \/ filed[w][c].deletion = "processing"
        PROVE  /\ \A v \in Spaces, d \in Captured : RowStep(v, d)
               /\ filed' \in [Spaces -> [Captured -> FiledRow]]
    <3> DEFINE r == [filed[w][c] EXCEPT !.deletion = x]
    <3>1. r \in FiledRow
      BY <2>1 DEF FiledRow
    <3>2. filed' = [filed EXCEPT ![w][c] = r]
      BY <1>1, <2>3
    <3>3. r.at = filed[w][c].at /\ r.of = filed[w][c].of /\ r.deletion = x
      BY <2>1 DEF FiledRow
    <3>4. filed'[w][c] = r => RowStep(w, c)
      BY <2>3, <3>3 DEF RowStep, Moved
    <3> HIDE DEF r
    <3> QED
      BY <3>1, <3>2, <3>4, <1>3
  <2>4. CASE DeleteSource(w, c)
    BY <2>1, <2>3, <2>4 DEF DeleteSource, Exportable
  <2>5. CASE ClaimWork(w, c)
    BY <2>1, <2>2, <2>3, <2>5 DEF ClaimWork
  <2>6. CASE SettleCapture(w, c)
    BY <2>2, <2>6 DEF SettleCapture
  <2>7. CASE RetryFailed(w, c)
    BY <2>2, <2>7 DEF RetryFailed
  <2>8. CASE SettleDeletion(w, c)
    BY <2>1, <2>3, <2>8 DEF SettleDeletion
  <2> QED
    BY <1>11, <2>4, <2>5, <2>6, <2>7, <2>8
<1>12. ASSUME NEW c \in Captured, ImportCapture(c)
       PROVE  /\ \A v \in Spaces, d \in Captured : RowStep(v, d)
              /\ filed' \in [Spaces -> [Captured -> FiledRow]]
  <2>1. import # NoImport /\ import.to \in Spaces /\ c \in import.left /\ (Procedure => held)
        /\ export.from \in Spaces
    BY <1>12 DEF ImportCapture, NoImport, FileInv, FileIsOfItsSpace
  <2>2. CASE filed[import.to][c].at = "none"
    <3> DEFINE r == [Nothing EXCEPT !.at = "queued", !.of = export.from]
    <3>1. r \in FiledRow
      BY <2>1 DEF FiledRow, Nothing
    <3>2. filed' = [filed EXCEPT ![import.to][c] = r]
      BY <2>2, <1>12 DEF ImportCapture
    <3>3. filed[import.to][c] = Nothing
      BY <2>1, <2>2 DEF RowsInv, NoRowIsBlank
    <3>4. filed'[import.to][c] = r => RowStep(import.to, c)
      BY <2>1, <3>3 DEF RowStep, MadeByImport
    <3> HIDE DEF r
    <3> QED
      BY <2>1, <3>1, <3>2, <3>4, <1>3
  <2>3. CASE filed[import.to][c].at # "none"
    BY <1>2, <1>12, <2>3 DEF ImportCapture
  <2> QED
    BY <2>2, <2>3
<1> QED
  BY <1>4, <1>5, <1>6, <1>7, <1>8, <1>9, <1>10, <1>11, <1>12 DEF RefileNext

-----------------------------------------------------------------------------
(* The invariant *)

\* Nothing is filed, in flight, exported or open to begin with.
LEMMA RefileInit_Inv == RefileInit => RefileInv
<1> SUFFICES ASSUME RefileInit PROVE RefileInv
  OBVIOUS
<1> USE RefileAssumption
<1>1. RefileTypeOK
  <2>1. /\ filed \in [Spaces -> [Captured -> FiledRow]]
        /\ known \in [Spaces -> SUBSET Staff] /\ enabled = known
    BY DEF RefileInit, Nothing, FiledRow
  <2>2. /\ standing \in [Spaces -> {"active", "suspended"}] /\ home \in [Bearers -> Spaces]
        /\ session \in [Bearers -> Spaces \cup {NoSpace}] /\ opening = session
        /\ flight = {} /\ crossed = {} /\ held = FALSE /\ exports = 0 /\ choices = 0
    BY DEF RefileInit
  <2>3. /\ export \in [from : Spaces \cup {NoSpace}, texts : SUBSET Captured, people : SUBSET Staff]
        /\ import \in [to : Spaces \cup {NoSpace}, checked : BOOLEAN, left : SUBSET Captured]
        /\ handed \in [from : Spaces \cup {NoSpace}, to : Spaces \cup {NoSpace}, forward : BOOLEAN,
                       accepted : SUBSET Captured]
    BY DEF RefileInit, NoFile, NoImport, NoHandover
  <2>4. exports \in 0 .. MaxExports /\ choices \in 0 .. MaxChoices
    BY <2>2
  <2>5. enabled \in [Spaces -> SUBSET Staff] /\ opening \in [Bearers -> Spaces \cup {NoSpace}]
        /\ flight \in SUBSET (Spaces \X Captured) /\ crossed \subseteq Bearers /\ held \in BOOLEAN
    BY <2>1, <2>2
  <2> QED
    BY ONLY <2>1, <2>2, <2>3, <2>4, <2>5 DEF RefileTypeOK, FiledRow
<1>2. FlightIsNew /\ NoRowIsBlank
  BY DEF RefileInit, FlightIsNew, NoRowIsBlank
<1>3. FileInv
  BY DEF RefileInit, FileInv, FileIsOfItsSpace, HeldIsStill, HandedIsStill, NoFile, NoImport, NoHandover
<1>4. OpeningFollowsItsToken /\ HandoverIsWhole
  BY DEF RefileInit, OpeningFollowsItsToken, HandoverIsWhole, NothingLandsBehind, OneOrigin,
         SessionFollowsItsToken, NoHandover, Nothing
<1> QED
  BY <1>1, <1>2, <1>3, <1>4 DEF RefileInv, RowsInv

\* Everything but the rows keeps its type.
LEMMA RefileTypes ==
    ASSUME RefileInv, RefileNext
    PROVE  RefileTypeOK'
<1>1. filed' \in [Spaces -> [Captured -> FiledRow]]
  BY RowSteps DEF RefileInv
<1> USE RefileAssumption DEF RefileInv, RowsInv, RefileTypeOK, peopleVars, loginVars, fileVars, rowVars
<1>2. CASE \E w \in Spaces : Suspend(w)
  BY <1>2, <1>1 DEF Suspend, Choice
<1>3. CASE \E w \in Spaces : Resume(w)
  BY <1>3, <1>1 DEF Resume, Choice, NoHandover
<1>4. CASE \E w \in Spaces : Export(w)
  BY <1>4, <1>1 DEF Export
<1>5. CASE \E w \in Spaces : BeginImport(w)
  BY <1>5, <1>1 DEF BeginImport
<1>6. CASE \E w \in Spaces, p \in Staff : Disable(w, p)
  BY <1>6, <1>1 DEF Disable, Choice
<1>7. CASE \E w \in Spaces, c \in Captured : Admitted(w, c)
  BY <1>7, <1>1 DEF Admitted
<1>8. CASE \E w \in Spaces, c \in Captured : QueueOwn(w, c)
  BY <1>8, <1>1 DEF QueueOwn, FiledRow
<1>9. CASE \E w \in Spaces, c \in Captured : DeleteSource(w, c) \/ ClaimWork(w, c)
  BY <1>9, <1>1 DEF DeleteSource, ClaimWork, FiledRow
<1>10. CASE \E w \in Spaces, c \in Captured :
                SettleCapture(w, c) \/ RetryFailed(w, c) \/ SettleDeletion(w, c)
  <2>1. /\ UNCHANGED <<standing, flight, peopleVars, loginVars, fileVars>>
        /\ choices' \in 0 .. MaxChoices
    BY <1>10 DEF SettleCapture, RetryFailed, SettleDeletion, Choice
  <2> QED
    BY <2>1, <1>1 DEF FiledRow
<1>11. CASE \E t \in Bearers : FindToken(t) \/ OpenSession(t)
  <2>1. CASE \E t \in Bearers : FindToken(t)
    BY <2>1, <1>1 DEF FindToken, FiledRow
  <2>2. CASE \E t \in Bearers : OpenSession(t)
    BY <2>2, <1>1 DEF OpenSession, FiledRow
  <2> QED
    BY <1>11, <2>1, <2>2
<1>12. CASE ImportPeople
  <2>1. import.to \in Spaces
    BY <1>12 DEF ImportPeople, FileInv, FileIsOfItsSpace
  <2> QED
    BY <2>1, <1>12, <1>1 DEF ImportPeople
<1>13. CASE EndImport
  <2>1. /\ UNCHANGED <<standing, rowVars, peopleVars, loginVars, export, held, handed, exports>>
        /\ choices' \in 0 .. MaxChoices /\ import' = NoImport
    BY <1>13 DEF EndImport, Choice
  <2> QED
    BY <2>1, <1>1 DEF FiledRow, NoImport
<1>14. CASE \E c \in Captured : ImportCapture(c)
  <2>1. UNCHANGED <<standing, flight, peopleVars, loginVars, export, held, handed, exports, choices>>
    BY <1>14 DEF ImportCapture
  <2>2. PICK c \in Captured : import' = [import EXCEPT !.left = @ \ {c}]
    BY <1>14 DEF ImportCapture
  <2>3. import' \in [to : Spaces \cup {NoSpace}, checked : BOOLEAN, left : SUBSET Captured]
    BY <2>2
  <2> HIDE <2>2
  <2> QED
    BY <2>1, <2>3, <1>1 DEF FiledRow
<1>15. CASE \E s, d \in Spaces : Handover(s, d)
  <2> PICK s \in Spaces, d \in Spaces : Handover(s, d)
    BY <1>15
  <2>1. Forward(s) \in BOOLEAN /\ Unlanded(s, d) \subseteq Captured /\ Movable(s, d) \subseteq Bearers
    BY DEF Forward, Unlanded, Movable
  <2>2. home' \in [Bearers -> Spaces] /\ session' \in [Bearers -> Spaces \cup {NoSpace}]
    BY DEF Handover, MoveLogins
  <2> QED
    BY <2>1, <2>2, <1>1 DEF Handover, FiledRow
<1> QED
  BY <1>2, <1>3, <1>4, <1>5, <1>6, <1>7, <1>8, <1>9, <1>10, <1>11, <1>12, <1>13, <1>14, <1>15
     DEF RefileNext

\* What the operator does to the standing of workspaces and to the file, import and handover.
LEMMA OperatorSteps ==
    ASSUME RefileNext
    PROVE  \/ UNCHANGED <<standing, export, held, import, handed>>
           \/ \E w \in Spaces : Suspend(w) \/ Resume(w) \/ Export(w) \/ BeginImport(w)
           \/ ImportPeople \/ EndImport
           \/ \E c \in Captured : ImportCapture(c)
           \/ \E s, d \in Spaces : Handover(s, d)
<1> USE DEF fileVars
<1>1. CASE \E w \in Spaces, p \in Staff : Disable(w, p)
  BY <1>1 DEF Disable
<1>2. CASE \E w \in Spaces, c \in Captured :
           \/ Admitted(w, c) \/ QueueOwn(w, c) \/ DeleteSource(w, c)
           \/ ClaimWork(w, c) \/ SettleCapture(w, c) \/ RetryFailed(w, c)
           \/ SettleDeletion(w, c)
  BY <1>2 DEF Admitted, QueueOwn, DeleteSource, ClaimWork, SettleCapture, RetryFailed, SettleDeletion
<1>3. CASE \E t \in Bearers : FindToken(t) \/ OpenSession(t)
  BY <1>3 DEF FindToken, OpenSession
<1> QED
  BY <1>1, <1>2, <1>3 DEF RefileNext

\* Only a door puts a capture in flight, and what is queued from there leaves it.
LEMMA FlightSteps ==
    ASSUME RefileNext
    PROVE  \/ flight' \subseteq flight
           \/ \E w \in Spaces, c \in Captured : Admitted(w, c)
<1> USE DEF rowVars
<1>1. CASE \E w \in Spaces : Suspend(w) \/ Resume(w) \/ Export(w) \/ BeginImport(w)
  BY <1>1 DEF Suspend, Resume, Export, BeginImport
<1>2. CASE \E w \in Spaces, p \in Staff : Disable(w, p)
  BY <1>2 DEF Disable
<1>3. CASE \E w \in Spaces, c \in Captured :
           \/ QueueOwn(w, c) \/ DeleteSource(w, c) \/ ClaimWork(w, c) \/ SettleCapture(w, c)
           \/ RetryFailed(w, c) \/ SettleDeletion(w, c)
  BY <1>3 DEF QueueOwn, DeleteSource, ClaimWork, SettleCapture, RetryFailed, SettleDeletion
<1>4. CASE \E t \in Bearers : FindToken(t) \/ OpenSession(t)
  BY <1>4 DEF FindToken, OpenSession
<1>5. CASE ImportPeople \/ EndImport \/ \E c \in Captured : ImportCapture(c)
  BY <1>5 DEF ImportPeople, EndImport, ImportCapture
<1>6. CASE \E s, d \in Spaces : Handover(s, d)
  BY <1>6 DEF Handover
<1> QED
  BY <1>1, <1>2, <1>3, <1>4, <1>5, <1>6 DEF RefileNext

\* A capture that is about to be queued stays a new one.
LEMMA RowsStep ==
    ASSUME RefileInv, RefileNext
    PROVE  FlightIsNew' /\ NoRowIsBlank'
<1> USE DEF RefileInv, RowsInv, FileInv
<1>1. \A w \in Spaces, c \in Captured : RowStep(w, c)
  BY RowSteps
<1>2. NoRowIsBlank'
  <2> SUFFICES ASSUME NEW w \in Spaces, NEW c \in Captured, filed'[w][c].at = "none"
               PROVE  filed'[w][c] = Nothing
    BY DEF NoRowIsBlank
  <2> QED
    <3>1. CASE filed'[w][c] = filed[w][c]
      BY <3>1 DEF NoRowIsBlank
    <3>2. CASE MadeByPerson(w, c) \/ MadeByImport(w, c)
      BY <3>2 DEF MadeByPerson, MadeByImport, Nothing
    <3> QED
      BY <1>1, <3>1, <3>2 DEF RowStep, Moved
<1>3. FlightIsNew'
  <2>1. CASE \E w \in Spaces, c \in Captured : Admitted(w, c)
    <3> PICK w \in Spaces, c \in Captured : Admitted(w, c)
      BY <2>1
    <3> QED
      BY DEF Admitted, FlightIsNew
  <2>2. CASE flight' \subseteq flight
    <3> SUFFICES ASSUME NEW w \in Spaces, NEW c \in Captured, <<w, c>> \in flight',
                        NEW v \in Spaces, filed'[v][c] # Nothing
                 PROVE  FALSE
      BY <2>2 DEF FlightIsNew
    <3>1. <<w, c>> \in flight /\ filed[v][c] = Nothing
      BY <2>2 DEF FlightIsNew
    <3>2. MadeByPerson(v, c) \/ MadeByImport(v, c)
      BY <1>1, <3>1 DEF RowStep, Moved, Nothing
    <3>3. ~MadeByImport(v, c)
      BY <3>1 DEF MadeByImport, FileIsOfItsSpace, FlightIsNew, Nothing
    <3>4. v = w
      BY <3>1, <3>2, <3>3 DEF MadeByPerson, FlightIsNew
    <3> QED
      BY <3>2, <3>3, <3>4 DEF MadeByPerson
  <2> QED
    BY <2>1, <2>2, FlightSteps
<1> QED
  BY <1>2, <1>3

\* What has landed stays landed, and a row that was refiled stays of its origin.
LEMMA LandedStays ==
    ASSUME RefileInv, RefileNext, NEW w \in Spaces, NEW c \in Captured
    PROVE  /\ filed[w][c].at = "landed" => filed'[w][c].at = "landed"
           /\ filed[w][c].at # "none" => filed'[w][c].of = filed[w][c].of
           /\ filed[w][c].of # NoSpace => filed[w][c].at # "none"
<1>1. RowStep(w, c)
  BY RowSteps DEF RefileInv
<1>2. filed[w][c].at # "none" => filed[w][c] # Nothing
  BY DEF Nothing
<1>3. filed[w][c].of # NoSpace => filed[w][c].at # "none"
  BY DEF RefileInv, RowsInv, NoRowIsBlank, Nothing
<1> QED
  BY <1>1, <1>2, <1>3 DEF RowStep, Moved

\* The rows of a workspace of which nobody does anything are as good as untouched.
LEMMA StillRows ==
    ASSUME RefileInv, RefileNext, NEW w \in Spaces, Still(w)
    PROVE  \A c \in Captured :
             /\ filed'[w][c].at # "processing" /\ filed'[w][c].deletion # "processing"
             /\ filed[w][c].at # "none" => filed'[w][c] = filed[w][c]
             /\ filed'[w][c].at = "landed" => filed[w][c].at = "landed"
<1> SUFFICES ASSUME NEW c \in Captured
             PROVE  /\ filed'[w][c].at # "processing" /\ filed'[w][c].deletion # "processing"
                    /\ filed[w][c].at # "none" => filed'[w][c] = filed[w][c]
                    /\ filed'[w][c].at = "landed" => filed[w][c].at = "landed"
  OBVIOUS
<1>1. RowStep(w, c)
  BY RowSteps DEF RefileInv
<1>2. ~Moved(w, c)
  BY DEF Moved, Still
<1>3. CASE filed'[w][c] = filed[w][c]
  BY <1>3 DEF Still
<1>4. CASE filed[w][c] = Nothing /\ (MadeByPerson(w, c) \/ MadeByImport(w, c))
  <2>1. filed'[w][c].at = "queued" /\ filed'[w][c].deletion = "none"
    BY <1>4 DEF MadeByPerson, MadeByImport, Nothing
  <2>2. filed[w][c].at = "none"
    BY <1>4 DEF Nothing
  <2> QED
    BY <2>1, <2>2
<1> QED
  BY <1>1, <1>2, <1>3, <1>4 DEF RowStep

\* The file and what is imported of it stay of the workspace that was exported.
LEMMA FileStep == RefileInv /\ RefileNext => FileIsOfItsSpace'
<1> SUFFICES ASSUME RefileInv, RefileNext PROVE FileIsOfItsSpace'
  OBVIOUS
<1> DEFINE Refiled ==
             import' # NoImport =>
                 /\ import'.to \in Spaces
                 /\ \A c \in Captured : filed'[import'.to][c].of \in {NoSpace, export'.from}
<1>0. FileIsOfItsSpace
  BY DEF RefileInv, FileInv
<1>1. ASSUME UNCHANGED export
      PROVE  \A c \in export'.texts : export'.from \in Spaces /\ filed'[export'.from][c].at = "landed"
  <2> SUFFICES ASSUME NEW c \in export.texts
               PROVE  export.from \in Spaces /\ filed'[export.from][c].at = "landed"
    BY <1>1
  <2>1. c \in Captured
    BY DEF RefileInv, RowsInv, RefileTypeOK
  <2>2. export.from \in Spaces /\ filed[export.from][c].at = "landed"
    BY <1>0 DEF FileIsOfItsSpace
  <2> QED
    BY <2>1, <2>2, LandedStays
<1>2. ASSUME UNCHANGED export, import' # NoImport => import # NoImport /\ import'.to = import.to
      PROVE  Refiled
  <2> SUFFICES ASSUME import # NoImport, import'.to = import.to, export' = export
               PROVE  /\ import.to \in Spaces
                      /\ \A c \in Captured : filed'[import.to][c].of \in {NoSpace, export.from}
    BY <1>2
  <2>0. import.to \in Spaces
    BY <1>0 DEF FileIsOfItsSpace
  <2> SUFFICES ASSUME NEW c \in Captured
               PROVE  filed'[import.to][c].of \in {NoSpace, export.from}
    BY <2>0
  <2>1. import.to \in Spaces /\ filed[import.to][c].of \in {NoSpace, export.from}
    BY <1>0 DEF FileIsOfItsSpace
  <2>2. RowStep(import.to, c)
    BY <2>1, RowSteps DEF RefileInv
  <2>3. MadeByPerson(import.to, c) => filed'[import.to][c].of = NoSpace
    BY DEF MadeByPerson, Nothing
  <2>4. MadeByImport(import.to, c) => filed'[import.to][c].of = export.from
    BY DEF MadeByImport, Nothing
  <2> QED
    BY <2>1, <2>2, <2>3, <2>4 DEF RowStep, Moved
<1>3. ASSUME UNCHANGED export, import'.left \subseteq import.left,
             import' # NoImport => import # NoImport /\ import'.to = import.to
      PROVE  FileIsOfItsSpace'
  BY <1>0, <1>1, <1>2, <1>3 DEF FileIsOfItsSpace
<1>4. CASE UNCHANGED <<standing, export, held, import, handed>>
  BY <1>3, <1>4
<1>5. CASE \E w \in Spaces : Suspend(w) \/ Resume(w)
  BY <1>3, <1>5 DEF Suspend, Resume, fileVars
<1>6. CASE \E w \in Spaces : Export(w)
  BY <1>6 DEF Export, rowVars, Exportable, FileIsOfItsSpace, NoImport
<1>7. ASSUME NEW d \in Spaces, BeginImport(d) PROVE FileIsOfItsSpace'
  <2>1. /\ UNCHANGED filed /\ UNCHANGED export
        /\ import' = [to |-> d, checked |-> FALSE, left |-> export.texts]
        /\ OwnRows(d) = {}
    BY <1>7 DEF BeginImport, rowVars, CheckFresh
  <2>2. \A c \in Captured : filed[d][c].of \in {NoSpace, export.from}
    BY <2>1, LandedStays DEF OwnRows
  <2> QED
    BY <2>1, <2>2, <1>1 DEF FileIsOfItsSpace
<1>8. CASE ImportPeople
  BY <1>3, <1>8 DEF ImportPeople, RefileInv, RowsInv, RefileTypeOK
<1>9. CASE EndImport
  BY <1>3, <1>9 DEF EndImport, NoImport
<1>10. CASE \E c \in Captured : ImportCapture(c)
  <2>1. import.checked
    BY <1>10 DEF ImportCapture
  <2>2. import # NoImport
    BY <2>1 DEF NoImport
  <2>3. PICK c \in Captured : import' = [import EXCEPT !.left = @ \ {c}]
    BY <1>10 DEF ImportCapture
  <2>4. import'.to = import.to /\ import'.left \subseteq import.left
    BY <2>3 DEF RefileInv, RowsInv, RefileTypeOK
  <2>5. UNCHANGED export
    BY <1>10 DEF ImportCapture
  <2> QED
    BY <2>2, <2>4, <2>5, <1>3
<1>11. CASE \E s, d \in Spaces : Handover(s, d)
  BY <1>3, <1>11 DEF Handover
<1> QED
  BY <1>4, <1>5, <1>6, <1>7, <1>8, <1>9, <1>10, <1>11, OperatorSteps

\* Nothing of a workspace that is held moves, and nothing of its file is deleted.
LEMMA HeldStep == RefileInv /\ RefileNext => HeldIsStill'
<1> SUFFICES ASSUME RefileInv, RefileNext, held' PROVE HeldIsStill'
  BY DEF HeldIsStill
<1> DEFINE w == export.from
<1>0. HeldIsStill /\ FileIsOfItsSpace /\ RefileTypeOK
  BY DEF RefileInv, FileInv, RowsInv
<1>1. ASSUME held, UNCHANGED export, standing'[w] = standing[w] PROVE HeldIsStill'
  <2>1. /\ w \in Spaces /\ Still(w)
        /\ \A c \in export.texts : filed[w][c].deletion = "none" /\ filed[w][c].at = "landed"
    BY <1>0, <1>1 DEF HeldIsStill, FileIsOfItsSpace
  <2>2. Still(w)'
    BY <2>1, <1>1, StillRows DEF Still
  <2>3. \A c \in export.texts : filed'[w][c].deletion = "none"
    BY <2>1, <1>0, StillRows DEF RefileTypeOK
  <2> QED
    BY <2>1, <2>2, <2>3, <1>1 DEF HeldIsStill
<1>2. CASE UNCHANGED <<standing, export, held, import, handed>>
  BY <1>1, <1>2
<1>3. CASE \E v \in Spaces : Suspend(v)
  <2> PICK v \in Spaces : Suspend(v)
    BY <1>3
  <2>1. held /\ UNCHANGED export /\ standing[v] = "active"
       /\ standing' = [standing EXCEPT ![v] = "suspended"]
    BY DEF Suspend, fileVars
  <2>2. v # w /\ w \in Spaces
    BY <2>1, <1>0 DEF HeldIsStill, Still
  <2> QED
    BY <2>1, <2>2, <1>0, <1>1 DEF RefileTypeOK
<1>4. CASE \E v \in Spaces : Resume(v)
  <2> PICK v \in Spaces : Resume(v)
    BY <1>4
  <2>1. held /\ UNCHANGED export /\ v # w /\ standing' = [standing EXCEPT ![v] = "active"]
    BY DEF Resume
  <2> QED
    BY <2>1, <1>0, <1>1 DEF HeldIsStill, RefileTypeOK
<1>5. CASE \E v \in Spaces : Export(v)
  <2> PICK v \in Spaces : Export(v)
    BY <1>5
  <2>1. /\ export'.from = v /\ export'.texts = {c \in Captured : Exportable(v, c)}
        /\ standing[v] = "suspended" /\ UNCHANGED <<standing, filed>> /\ ~Unfinished(v)
    BY DEF Export, rowVars
  <2>2. \A c \in Captured : filed[v][c].at \notin InQueue /\ filed[v][c].deletion \notin InQueue
    BY <2>1 DEF Unfinished
  <2>3. \A c \in Captured : filed[v][c].deletion \in {"none", "queued", "processing", "done"}
    BY <1>0 DEF RefileTypeOK
  <2>4. \A c \in export'.texts : filed[v][c].deletion = "none"
    BY <2>1, <2>2, <2>3 DEF Exportable, Live, InQueue
  <2> QED
    BY <2>1, <2>2, <2>4 DEF HeldIsStill, Still, InQueue
<1>6. CASE (\E v \in Spaces : BeginImport(v)) \/ ImportPeople \/ EndImport
  BY <1>1, <1>6 DEF BeginImport, ImportPeople, EndImport
<1>7. CASE \E c \in Captured : ImportCapture(c)
  BY <1>1, <1>7 DEF ImportCapture
<1>8. CASE \E s, d \in Spaces : Handover(s, d)
  <2> PICK s \in Spaces, d \in Spaces : Handover(s, d)
    BY <1>8
  <2>1. held /\ UNCHANGED export /\ standing' = [standing EXCEPT ![s] = "suspended"]
    BY DEF Handover
  <2> QED
    BY <2>1, <1>0, <1>1 DEF HeldIsStill, Still, RefileTypeOK
<1> QED
  BY <1>2, <1>3, <1>4, <1>5, <1>6, <1>7, <1>8, OperatorSteps

\* A workspace that was handed over on stays still, so nothing lands behind the handover.
LEMMA HandedStep == RefileInv /\ RefileNext => HandedIsStill' /\ NothingLandsBehind'
<1> SUFFICES ASSUME RefileInv, RefileNext PROVE HandedIsStill' /\ NothingLandsBehind'
  OBVIOUS
<1> DEFINE s == handed.from
           d == handed.to
<1>0. HandedIsStill /\ HeldIsStill /\ RefileTypeOK /\ NothingLandsBehind
  BY DEF RefileInv, FileInv, RowsInv, HandoverIsWhole
<1>1. ASSUME UNCHANGED handed, standing'[s] = standing[s] \/ standing'[s] = "suspended"
      PROVE  HandedIsStill' /\ NothingLandsBehind'
  <2> SUFFICES ASSUME handed.forward PROVE HandedIsStill' /\ NothingLandsBehind'
    BY <1>1 DEF HandedIsStill, NothingLandsBehind
  <2>1. s \in Spaces /\ d \in Spaces /\ Still(s)
    BY <1>0 DEF HandedIsStill
  <2>2. Still(s)'
    BY <2>1, <1>1, StillRows DEF Still
  <2>3. ASSUME NEW c \in Captured, Exportable(s, c)', filed'[s][c].of = NoSpace
        PROVE  filed'[d][c].at = "landed" \/ c \in handed.accepted
    <3>1. filed[s][c].at = "landed" /\ filed'[s][c] = filed[s][c]
      BY <1>1, <2>1, <2>3, StillRows DEF Exportable
    <3>2. Exportable(s, c) /\ filed[s][c].of = NoSpace
      BY <1>1, <3>1, <2>3 DEF Exportable, Live
    <3>3. filed[d][c].at = "landed" \/ c \in handed.accepted
      BY <3>2, <1>0 DEF NothingLandsBehind
    <3> QED
      BY <2>1, <3>3, LandedStays
  <2> QED
    BY <2>1, <2>2, <2>3, <1>1 DEF HandedIsStill, NothingLandsBehind, Exportable, Live
<1>2. CASE UNCHANGED <<standing, export, held, import, handed>>
  BY <1>1, <1>2
<1>3. CASE \E w \in Spaces : Suspend(w)
  BY <1>0, <1>1, <1>3 DEF Suspend, fileVars, RefileTypeOK
<1>4. CASE \E w \in Spaces : Resume(w)
  <2> PICK w \in Spaces : Resume(w)
    BY <1>4
  <2>1. standing' = [standing EXCEPT ![w] = "active"] /\ handed' = IF s = w THEN NoHandover ELSE handed
    BY DEF Resume
  <2>2. CASE s = w
    BY <2>1, <2>2 DEF HandedIsStill, NothingLandsBehind, NoHandover
  <2>3. CASE s # w
    BY <2>1, <2>3, <1>0, <1>1 DEF RefileTypeOK
  <2> QED
    BY <2>2, <2>3
<1>5. CASE \E w \in Spaces : Export(w) \/ BeginImport(w)
  BY <1>1, <1>5 DEF Export, BeginImport
<1>6. CASE ImportPeople \/ EndImport \/ \E c \in Captured : ImportCapture(c)
  BY <1>1, <1>6 DEF ImportPeople, EndImport, ImportCapture
<1>7. CASE \E u, v \in Spaces : Handover(u, v)
  <2> PICK u \in Spaces, v \in Spaces : Handover(u, v)
    BY <1>7
  <2>1. /\ handed' = [from |-> u, to |-> v, forward |-> Forward(u), accepted |-> Unlanded(u, v)]
        /\ standing' = [standing EXCEPT ![u] = "suspended"] /\ filed' = filed
    BY DEF Handover, rowVars
  <2>2. Forward(u) => Still(u)
    BY <1>0 DEF Forward, HeldIsStill
  <2>3. HandedIsStill'
    BY <2>1, <2>2, <1>0 DEF HandedIsStill, Still, RefileTypeOK
  <2>4. NothingLandsBehind'
    <3> SUFFICES ASSUME NEW c \in Captured, Exportable(u, c), filed[u][c].of = NoSpace
                 PROVE  filed[v][c].at = "landed" \/ c \in Unlanded(u, v)
      BY <2>1 DEF NothingLandsBehind, Exportable, Live
    <3> QED
      BY DEF Unlanded
  <2> QED
    BY <2>3, <2>4
<1> QED
  BY <1>2, <1>3, <1>4, <1>5, <1>6, <1>7, OperatorSteps

\* A second import into a workspace is of the file the first one was of.
LEMMA OriginStep == RefileInv /\ RefileNext => OneOrigin'
<1> SUFFICES ASSUME RefileInv, RefileNext, NEW w \in Spaces, NEW a \in Captured, NEW b \in Captured,
                    filed'[w][a].of # NoSpace, filed'[w][b].of # NoSpace
             PROVE  filed'[w][a].of = filed'[w][b].of
  BY DEF OneOrigin
<1>1. RowStep(w, a) /\ RowStep(w, b)
  BY RowSteps DEF RefileInv
<1>2. ASSUME NEW c \in Captured, RowStep(w, c), filed'[w][c].of # NoSpace
      PROVE  \/ filed'[w][c].of = filed[w][c].of
             \/ import # NoImport /\ w = import.to /\ filed'[w][c].of = export.from
  BY <1>2 DEF RowStep, Moved, MadeByPerson, MadeByImport, Nothing
<1>3. ASSUME import # NoImport, w = import.to, NEW c \in Captured, filed[w][c].of # NoSpace
      PROVE  filed[w][c].of = export.from
  BY <1>3 DEF RefileInv, FileInv, FileIsOfItsSpace
<1>4. OneOrigin
  BY DEF RefileInv, HandoverIsWhole
<1> QED
  BY <1>1, <1>2, <1>3, <1>4 DEF OneOrigin

\* A session opens where its token lives, or had its token moved while it opened.
LEMMA LoginStep == RefileInv /\ RefileNext => OpeningFollowsItsToken' /\ SessionFollowsItsToken'
<1> SUFFICES ASSUME RefileInv, RefileNext PROVE OpeningFollowsItsToken' /\ SessionFollowsItsToken'
  OBVIOUS
<1>0. OpeningFollowsItsToken /\ SessionFollowsItsToken /\ RefileTypeOK
  BY DEF RefileInv, HandoverIsWhole, RowsInv
<1>1. ASSUME UNCHANGED loginVars PROVE OpeningFollowsItsToken' /\ SessionFollowsItsToken'
  BY <1>0, <1>1 DEF OpeningFollowsItsToken, SessionFollowsItsToken, loginVars
<1>2. CASE \E w \in Spaces : Suspend(w) \/ Resume(w) \/ Export(w) \/ BeginImport(w)
  BY <1>1, <1>2 DEF Suspend, Resume, Export, BeginImport
<1>3. CASE \E w \in Spaces, p \in Staff : Disable(w, p)
  BY <1>1, <1>3 DEF Disable
<1>4. CASE \E w \in Spaces, c \in Captured :
           \/ Admitted(w, c) \/ QueueOwn(w, c) \/ DeleteSource(w, c) \/ ClaimWork(w, c)
           \/ SettleCapture(w, c) \/ RetryFailed(w, c) \/ SettleDeletion(w, c)
  BY <1>1, <1>4 DEF Admitted, QueueOwn, DeleteSource, ClaimWork, SettleCapture,
         RetryFailed, SettleDeletion
<1>5. CASE ImportPeople \/ EndImport \/ \E c \in Captured : ImportCapture(c)
  BY <1>1, <1>5 DEF ImportPeople, EndImport, ImportCapture
<1>6. CASE \E t \in Bearers : FindToken(t)
  BY <1>0, <1>6 DEF FindToken, OpeningFollowsItsToken, SessionFollowsItsToken, RefileTypeOK
<1>7. CASE \E t \in Bearers : OpenSession(t)
  BY <1>0, <1>7 DEF OpenSession, OpeningFollowsItsToken, SessionFollowsItsToken, RefileTypeOK
<1>8. ASSUME NEW s \in Spaces, NEW d \in Spaces, Handover(s, d)
      PROVE  OpeningFollowsItsToken' /\ SessionFollowsItsToken'
  <2> DEFINE moved == Movable(s, d)
  <2>1. /\ home' = [t \in Bearers |-> IF t \in moved THEN d ELSE home[t]]
        /\ session' = [t \in Bearers |-> IF t \in moved /\ session[t] # NoSpace THEN d ELSE session[t]]
        /\ crossed' = crossed \cup {t \in moved : opening[t] # NoSpace}
        /\ opening' = opening
    BY <1>8 DEF Handover, MoveLogins
  <2> HIDE DEF moved
  <2> QED
    BY <2>1, <1>0 DEF OpeningFollowsItsToken, SessionFollowsItsToken
<1> QED
  BY <1>2, <1>3, <1>4, <1>5, <1>6, <1>7, <1>8 DEF RefileNext

\* The invariant is inductive.
LEMMA RefileNext_Inv == RefileInv /\ [RefileNext]_refileVars => RefileInv'
<1>1. RefileInv /\ RefileNext => RefileInv'
  BY RefileTypes, RowsStep, FileStep, HeldStep, HandedStep, OriginStep, LoginStep
     DEF RefileInv, RowsInv, FileInv, HandoverIsWhole
<1>2. RefileInv /\ UNCHANGED refileVars => RefileInv'
  BY DEF RefileInv, RowsInv, FileInv, HandoverIsWhole, refileVars, rowVars, peopleVars, loginVars,
         fileVars,
         RefileTypeOK, FlightIsNew, NoRowIsBlank, FileIsOfItsSpace, HeldIsStill, HandedIsStill, Still,
         OpeningFollowsItsToken, NothingLandsBehind, Exportable, Live, OneOrigin, SessionFollowsItsToken
<1> QED
  BY <1>1, <1>2

\* So it always holds.
LEMMA RefileSpec_Inv == RefileSpec => []RefileInv
  BY RefileInit_Inv, RefileNext_Inv, PTL DEF RefileSpec

\* However people, the writer, logins and the operator interleave: when people are handed over, what
\* they had landed is landed where they are now or the operator was told, a workspace is refiled from
\* one other only, and a session lives where its token does (replay_workspace.py:124-131, 156-194).
THEOREM HandoversAreWhole == RefileSpec => []HandoverIsWhole
<1>1. RefileInv => HandoverIsWhole
  BY DEF RefileInv
<1> QED
  BY <1>1, RefileSpec_Inv, PTL

\* A row an import makes is of a capture that is live where it comes from.
LEMMA RefiledIsLive ==
    ASSUME Procedure, RefileInv, RefileNext, NEW w \in Spaces, NEW c \in Captured,
           filed[w][c].at = "none", filed'[w][c].of # NoSpace
    PROVE  Live(filed'[w][c].of, c)
<1>1. filed[w][c].of = NoSpace /\ RowStep(w, c)
  BY RowSteps, LandedStays DEF RefileInv
<1>2. MadeByImport(w, c)
  BY <1>1 DEF RowStep, Moved, MadeByPerson, Nothing
<1>3. filed'[w][c].of = export.from /\ c \in export.texts /\ held
  BY <1>2 DEF MadeByImport, Nothing, RefileInv, FileInv, FileIsOfItsSpace
<1>4. filed[export.from][c].deletion = "none"
  BY <1>3 DEF RefileInv, FileInv, HeldIsStill
<1> QED
  BY <1>3, <1>4 DEF Live

\* Under the documented procedure (Procedure: what docs/OPERATIONS.md asks of the operator, and the
\* script does not enforce), what was deleted in the old workspace is not refiled in the new one
\* (scripts/replay_workspace.py:16, 73-81).
THEOREM DeletedStaysDeleted == ASSUME Procedure PROVE RefileSpec => DeletedIsNotRefiled
<1> DEFINE Refiles == \A w \in Spaces, c \in Captured :
             filed[w][c].at = "none" /\ filed'[w][c].of # NoSpace => Live(filed'[w][c].of, c)
<1>1. RefileInv /\ RefileNext => Refiles
  BY RefiledIsLive
<1>2. RefileInv /\ UNCHANGED refileVars => Refiles
  BY LandedStays DEF refileVars, rowVars, RefileInv, RowsInv, NoRowIsBlank, Nothing
<1>3. RefileInv /\ [RefileNext]_refileVars => [Refiles]_refileVars
  BY <1>1, <1>2
<1>4. RefileSpec => [][Refiles]_refileVars
  BY <1>3, RefileSpec_Inv, PTL DEF RefileSpec
<1> QED
  BY <1>4 DEF DeletedIsNotRefiled

-----------------------------------------------------------------------------
(* The waking of the writer.  NeverAsleepOverWork is not inductive: work that its caller *)
(* commits while the writer is already leaving has asked for its wake-up earlier, so the *)
(* invariant follows a transaction from its insert (Unheard) to the round that listed    *)
(* the machines after it (AgedHeard).                                                   *)

USE WakeAssumption

\* A thread runs exactly while the flag says so, and no request waits without one.
Flags == \A p \in Procs : /\ running[p] <=> round[p] # "none"
                          /\ requested[p] => running[p]

MachineRuns == machine = "started" <=> writer # "off"

\* A transaction no round has listed after has its request still to be heard.
Unheard == \A p \in Procs :
    caller[p] = "woken" /\ p \notin aged => running[p] /\ (requested[p] \/ round[p] = "list")

\* One that a round or a boot did come after cannot be passed over by a writer
\* that has announced its stop.
AgedHeard == aged # {} /\ (Asleep \/ writer = "announced") => \E p \in Procs : Waking(p)

IInv == TypeOK /\ Flags /\ MachineRuns /\ Unheard /\ AgedHeard /\ NeverAsleepOverWork

-----------------------------------------------------------------------------
(* Types.                                                                  *)

\* The writer begins stopped, with nothing committed and nothing heard.
LEMMA InitType == Init => TypeOK
  BY DEF Init, TypeOK

\* Every step keeps the types.
LEMMA NextType == TypeOK /\ [Next]_vars => TypeOK'
  <1> SUFFICES ASSUME TypeOK, [Next]_vars PROVE TypeOK'
    OBVIOUS
  <1> USE DEF TypeOK
  <1>1. ASSUME NEW p \in Procs, Insert(p) PROVE TypeOK'
    BY <1>1 DEF Insert, wakeVars
  <1>2. ASSUME NEW p \in Procs, Wake(p) PROVE TypeOK'
    BY <1>2 DEF Wake, workVars
  <1>3. ASSUME NEW p \in Procs, Commit(p) PROVE TypeOK'
    BY <1>3 DEF Commit, wakeVars
  <1>4. ASSUME NEW p \in Procs, NextRound(p) PROVE TypeOK'
    BY <1>4 DEF NextRound, workVars, callerVars
  <1>5. ASSUME NEW p \in Procs, List(p) PROVE TypeOK'
    BY <1>5 DEF List, workVars, Uncommitted
  <1>6. ASSUME NEW p \in Procs, WatchEnds(p) PROVE TypeOK'
    BY <1>6 DEF WatchEnds, workVars, callerVars
  <1>7. ASSUME NEW p \in Procs, Start(p) PROVE TypeOK'
    BY <1>7 DEF Start, workVars, callerVars
  <1>8. CASE MachineStep
    BY <1>8 DEF MachineStep, Boot, Leave, Stopped, workVars, callerVars, wakeVars, Uncommitted
  <1>9. CASE WriterStep
    BY <1>9 DEF WriterStep, Poll, Sleep, Announce, Look, workVars, callerVars, wakeVars
  <1>10. CASE Due
    BY <1>10 DEF Due, callerVars, wakeVars
  <1>11. CASE UNCHANGED vars
    BY <1>11 DEF vars, workVars, callerVars, wakeVars
  <1> QED
    BY <1>1, <1>2, <1>3, <1>4, <1>5, <1>6, <1>7, <1>8, <1>9, <1>10, <1>11 DEF Next, RoundStep

\* The counters, the flags and the rounds have their types (kernel/wake.py,
\* Worker.run).
THEOREM WakeTypeCorrect == Spec => []TypeOK
  BY InitType, NextType, PTL DEF Spec

-----------------------------------------------------------------------------
(* The inductive invariant.                                                *)

\* Nothing waits to be heard to begin with.
LEMMA InitInv == Init => IInv
  BY InitType DEF Init, IInv, Flags, MachineRuns, Unheard, AgedHeard, NeverAsleepOverWork

\* A caller's step: insert, wake or commit.
LEMMA CallerInv == ASSUME IInv, NEW p \in Procs, Insert(p) \/ Wake(p) \/ Commit(p), TypeOK'
                   PROVE  IInv'
  <1> USE DEF IInv, TypeOK
  <1>1. CASE Insert(p)
    <2> USE <1>1 DEF Insert, wakeVars
    <2>1. Flags' /\ MachineRuns'
      BY DEF Flags, MachineRuns
    <2>2. Unheard'
      BY DEF Unheard
    <2>3. \A q \in Procs : Waking(q) => Waking(q)'
      BY DEF Waking
    <2>4. AgedHeard'
      BY <2>3 DEF AgedHeard, Asleep
    <2>5. NeverAsleepOverWork'
      <3>1. CASE caller' = [caller EXCEPT ![p] = "inserted"]
        BY <3>1 DEF NeverAsleepOverWork, Waking
      <3>2. CASE due' = due
        BY <2>3, <3>2 DEF NeverAsleepOverWork, Asleep
      <3> QED
        BY <3>1, <3>2
    <2> QED
      BY <2>1, <2>2, <2>4, <2>5
  <1>2. CASE Wake(p)
    <2> USE <1>2 DEF Wake, workVars
    <2>1. Flags' /\ MachineRuns'
      BY DEF Flags, MachineRuns
    <2>2. Unheard'
      BY DEF Unheard, Flags
    <2>3. \A q \in Procs : Waking(q) => Waking(q)'
      BY DEF Waking
    <2>4. AgedHeard' /\ NeverAsleepOverWork'
      BY <2>3 DEF AgedHeard, NeverAsleepOverWork, Asleep
    <2> QED
      BY <2>1, <2>2, <2>4
  <1>3. CASE Commit(p)
    <2> USE <1>3 DEF Commit, wakeVars
    <2>1. Flags' /\ MachineRuns'
      BY DEF Flags, MachineRuns
    <2>2. Unheard'
      BY DEF Unheard
    <2>3. \A q \in Procs : Waking(q) => Waking(q)'
      BY DEF Waking
    <2>4. AgedHeard'
      BY <2>3 DEF AgedHeard, Asleep
    <2>5. Asleep => \E q \in Procs : Waking(q)
      <3>1. CASE p \in aged
        BY <3>1 DEF AgedHeard
      <3>2. CASE p \notin aged
        BY <3>2 DEF Unheard, Waking
      <3> QED
        BY <3>1, <3>2
    <2>6. NeverAsleepOverWork'
      BY <2>3, <2>5 DEF NeverAsleepOverWork, Asleep
    <2> QED
      BY <2>1, <2>2, <2>4, <2>6
  <1> QED
    BY <1>1, <1>2, <1>3

\* A step of the waking thread of p.
LEMMA RoundInv == ASSUME IInv, NEW p \in Procs, RoundStep(p), TypeOK'
                  PROVE  IInv'
  <1> USE DEF IInv, TypeOK
  <1>1. CASE NextRound(p)
    <2> USE <1>1 DEF NextRound, workVars, callerVars
    <2>1. Flags' /\ MachineRuns'
      BY DEF Flags, MachineRuns
    <2>2. Unheard'
      BY DEF Unheard
    <2>3. \A q \in Procs : Waking(q) => Waking(q)'
      BY DEF Waking
    <2>4. AgedHeard' /\ NeverAsleepOverWork'
      BY <2>3 DEF AgedHeard, NeverAsleepOverWork, Asleep
    <2> QED
      BY <2>1, <2>2, <2>4
  <1>2. CASE List(p)
    <2> USE <1>2 DEF List, workVars
    <2>1. Flags' /\ MachineRuns'
      BY DEF Flags, MachineRuns
    <2>2. Unheard'
      BY DEF Unheard, Uncommitted
    <2>3. Waking(p)'
      BY DEF Waking, Flags
    <2>4. AgedHeard' /\ NeverAsleepOverWork'
      BY <2>3 DEF AgedHeard, NeverAsleepOverWork
    <2> QED
      BY <2>1, <2>2, <2>4
  <1>3. CASE WatchEnds(p)
    <2> USE <1>3 DEF WatchEnds, workVars, callerVars
    <2>1. Flags' /\ MachineRuns'
      BY DEF Flags, MachineRuns
    <2>2. Unheard'
      BY DEF Unheard
    <2>3. CASE machine = "stopped" /\ round' = [round EXCEPT ![p] = "start"]
      <3>1. Waking(p)'
        BY <2>3 DEF Waking, Flags
      <3> QED
        BY <2>1, <2>2, <3>1 DEF AgedHeard, NeverAsleepOverWork
    <2>4. CASE machine \in {"starting", "started"} /\ writer # "leaving" /\ aged = {}
      <3>1. ~Asleep' /\ aged' = {}
        BY <2>4 DEF Asleep, MachineRuns
      <3> QED
        BY <2>1, <2>2, <3>1 DEF AgedHeard, NeverAsleepOverWork
    <2> QED
      BY <2>3, <2>4
  <1>4. CASE Start(p)
    <2> USE <1>4 DEF Start, workVars, callerVars
    <2>1. Flags' /\ MachineRuns'
      BY DEF Flags, MachineRuns
    <2>2. Unheard'
      BY DEF Unheard
    <2>3. CASE machine = "stopped"
      <3>1. ~Asleep' /\ writer' # "announced"
        BY <2>3 DEF Asleep, MachineRuns
      <3> QED
        BY <2>1, <2>2, <3>1 DEF AgedHeard, NeverAsleepOverWork
    <2>4. CASE machine # "stopped"
      <3>1. \A q \in Procs : Waking(q) => Waking(q)'
        BY <2>4 DEF Waking
      <3> QED
        BY <2>1, <2>2, <2>4, <3>1 DEF AgedHeard, NeverAsleepOverWork, Asleep
    <2> QED
      BY <2>3, <2>4
  <1> QED
    BY <1>1, <1>2, <1>3, <1>4 DEF RoundStep

\* A step of the machine, of the writer's loop, or of a backoff that ends.
LEMMA WriterInv == ASSUME IInv, MachineStep \/ WriterStep \/ Due, TypeOK'
                   PROVE  IInv'
  <1> USE DEF IInv, TypeOK, workVars, callerVars, wakeVars
  <1>1. Flags'
    BY DEF Flags, MachineStep, Boot, Leave, Stopped, WriterStep, Poll, Sleep, Announce, Look, Due
  <1>2. MachineRuns'
    BY DEF MachineRuns, MachineStep, Boot, Leave, Stopped, WriterStep, Poll, Sleep, Announce, Look, Due
  <1>3. Unheard'
    BY DEF Unheard, MachineStep, Boot, Leave, Stopped, WriterStep, Poll, Sleep, Announce, Look, Due
  <1>4. AgedHeard' /\ NeverAsleepOverWork'
    <2>1. CASE Boot
      <3>1. ~Asleep' /\ writer' # "announced"
        BY <2>1 DEF Boot, Asleep
      <3> QED
        BY <3>1 DEF AgedHeard, NeverAsleepOverWork
    <2>2. CASE Leave \/ Stopped \/ Due
      <3>1. \A q \in Procs : Waking(q) => Waking(q)'
        BY <2>2 DEF Leave, Stopped, Due, Waking, MachineRuns
      <3>2. (Asleep' => Asleep) /\ (writer' = "announced" => writer = "announced") /\ aged' = aged
        BY <2>2 DEF Leave, Stopped, Due, Asleep, MachineRuns
      <3>3. due' + later' = due + later
        <4>1. CASE Leave \/ Stopped
          BY <4>1 DEF Leave, Stopped
        <4>2. CASE Due
          BY <4>2 DEF Due
        <4> QED
          BY <2>2, <4>1, <4>2
      <3>4. AgedHeard'
        BY <3>1, <3>2 DEF AgedHeard
      <3>5. NeverAsleepOverWork'
        BY <3>1, <3>2, <3>3 DEF NeverAsleepOverWork
      <3> QED
        BY <3>4, <3>5
    <2>3. CASE Poll \/ Sleep
      <3>1. ~Asleep' /\ writer' # "announced"
        BY <2>3 DEF Poll, Sleep, Asleep
      <3> QED
        BY <3>1 DEF AgedHeard, NeverAsleepOverWork
    <2>4. CASE Announce
      <3>1. ~Asleep' /\ aged' = {}
        BY <2>4 DEF Announce, Asleep
      <3> QED
        BY <3>1 DEF AgedHeard, NeverAsleepOverWork
    <2>5. CASE Look
      <3>1. \A q \in Procs : Waking(q) => Waking(q)'
        BY <2>5 DEF Look, Waking
      <3>2. ~(Asleep' /\ due' + later' > 0)
        BY <2>5 DEF Look, Asleep
      <3>3. writer = "announced" /\ aged' = aged
        BY <2>5 DEF Look
      <3>4. AgedHeard'
        BY <3>1, <3>3 DEF AgedHeard
      <3>5. NeverAsleepOverWork'
        BY <3>2 DEF NeverAsleepOverWork
      <3> QED
        BY <3>4, <3>5
    <2> QED
      BY <2>1, <2>2, <2>3, <2>4, <2>5 DEF MachineStep, WriterStep
  <1> QED
    BY <1>1, <1>2, <1>3, <1>4

\* The invariant is inductive.
LEMMA NextInv == IInv /\ [Next]_vars => IInv'
  <1> SUFFICES ASSUME IInv, [Next]_vars PROVE IInv'
    OBVIOUS
  <1>1. TypeOK'
    BY NextType DEF IInv
  <1>2. CASE UNCHANGED vars
    BY <1>2 DEF vars, workVars, callerVars, wakeVars, IInv, TypeOK, Flags, MachineRuns, Unheard,
                AgedHeard, NeverAsleepOverWork, Waking, Asleep
  <1>3. CASE Next
    BY <1>1, <1>3, CallerInv, RoundInv, WriterInv DEF Next
  <1> QED
    BY <1>2, <1>3

\* Whatever the number of processes and of items, a writer that is down or cannot
\* look again leaves no committed work that nobody is about to wake it for
\* (_may_stop, wake_round).
THEOREM NoLostWakeUp == Spec => []NeverAsleepOverWork
  <1>1. IInv => NeverAsleepOverWork
    BY DEF IInv
  <1> QED
    BY <1>1, InitInv, NextInv, PTL DEF Spec

-----------------------------------------------------------------------------
(* All of them together.                                                             *)

\* A behaviour of one part leaves the others where they began.
LEMMA PartsBehave == PartsSpec => CallsSpec /\ NamesSpec /\ GardenSpec /\ RefileSpec
<1>1. PartsInit => CallsInit /\ NamesInit /\ GardenInit /\ RefileInit
  BY DEF PartsInit
<1>2. [PartsNext]_partVars => [CallsNext]_callVars /\ [NamesNext]_nameVars
  BY DEF PartsNext, partVars
<1>3. [PartsNext]_partVars => [GardenNext]_gardenVars /\ [RefileNext]_refileVars
  BY DEF PartsNext, partVars
<1> QED
  BY <1>1, <1>2, <1>3, PTL DEF PartsSpec, CallsSpec, NamesSpec, GardenSpec, RefileSpec

\* What is proved of each part holds of the specification of all of them.
THEOREM PartsKeepTheirWord ==
    PartsSpec => /\ [](RequestsAreCounted /\ NameReachesOnePage /\ AnswersAreKept /\ HandoverIsWhole)
                 /\ GardenLandsRepairs
<1> QED
  BY PartsBehave, RequestsCounted, NamesReachOnePage, AnswersStay, HandoversAreWhole, GardenLands,
     PTL
=============================================================================
