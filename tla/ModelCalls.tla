----------------------------- MODULE ModelCalls -----------------------------
(***************************************************************************)
(* The calls of the models: the plan and the correction of a filing, each   *)
(* raced by one identical run when it takes long (knowledge/planner.py and  *)
(* the request budget of _capture in knowledge/writer.py), and the typed    *)
(* decisions, which share a few slots (choose of kernel/llm.py).            *)
(*                                                                         *)
(* A run asks the model until an answer has the schema of a plan or its     *)
(* requests are used up.  Time is counted in the unit of HedgeAfter; what a *)
(* call waits for is handled in the instant it happens, and the requests it *)
(* cancels end there.  Extraction, gates and what a plan says are left out  *)
(* (FilingLoop), and so are providers, prompts and telemetry.               *)
(*                                                                         *)
(* A definition introduced as a SLIP is a plausible mistake in the          *)
(* definition it names; it is no part of the specification.                 *)
(***************************************************************************)
EXTENDS Naturals, FiniteSets

CONSTANTS
    MaxTurns,    \* settings.max_turns
    HedgeAfter,  \* HEDGE_AFTER_S
    Timeout,     \* settings.timeout_s
    Budget,      \* operation_budget_s: both calls of an attempt together
    MaxTries,    \* DEFAULT_MAX_ATTEMPTS
    Callers,     \* threads that ask for a typed decision
    Slots        \* DECISION_CONCURRENCY

\* The budget is the time-out and the 300 s of extraction and gates, and a run is raced after 600 s.
ASSUME ModelCallsAssumption ==
    /\ MaxTurns \in Nat \ {0, 1} /\ HedgeAfter \in Nat \ {0} /\ Timeout \in Nat \ {0}
    /\ Budget \in Nat \ {0} /\ Budget <= 2 * HedgeAfter
    /\ MaxTries \in Nat \ {0} /\ Slots \in Nat \ {0}

VARIABLES
    stage,    \* of the attempt: "claimed", "planning", "gates", "revising", "ended"
    runs,     \* the run of the call under way, and the one that races it
    limit,    \* request_limit of the call
    elapsed,  \* since the call began
    spent,    \* what the attempt spent before
    used,     \* model_requests of the attempt
    tries,    \* attempts
    outcome,  \* of the attempt
    sent,     \* history: the requests of the attempt, all told
    raised,   \* history: the runs behind the error that ended the last call
    free,     \* slots of _DECISION_SLOTS
    asking,   \* callers that wait for a decision
    deserted  \* requests for a decision whose caller waits no more

filingVars == <<stage, runs, limit, elapsed, spent, used, tries, outcome, sent, raised>>
slotVars == <<free, asking, deserted>>
callVars == <<filingVars, slotVars>>

NoRun == [state |-> "none", made |-> 0]
NewRun == [state |-> "asking", made |-> 1]
NoRuns == <<NoRun, NoRun>>
Calling == stage \in {"planning", "revising"}
Alone == runs[2].state = "none"
Failures == {"failed", "exhausted"}

ModelCallsTypeOK ==
    /\ stage \in {"claimed", "planning", "gates", "revising", "ended"}
    /\ \A r \in 1 .. 2 : runs[r].state \in {"none", "asking", "valid"} \cup Failures
                         /\ runs[r].made \in 0 .. limit
    /\ limit \in 0 .. MaxTurns /\ elapsed \in 0 .. Timeout /\ spent \in 0 .. Budget
    /\ used \in 0 .. MaxTurns /\ tries \in 1 .. MaxTries
    /\ outcome \in {"none", "filed", "archived", "again", "failed"}
    /\ sent \in Nat
    /\ free \in 0 .. Slots /\ asking \subseteq Callers /\ deserted \in Nat

CallsInit ==
    /\ stage = "claimed" /\ runs = NoRuns /\ limit = 0 /\ elapsed = 0 /\ spent = 0 /\ used = 0
    /\ tries = 1 /\ outcome = "none" /\ sent = 0 /\ raised = NoRuns
    /\ free = Slots /\ asking = {} /\ deserted = 0
-----------------------------------------------------------------------------
(* One call: _run_structured and _first_success *)

StartCall(next, requests, sofar) ==
    /\ stage' = next /\ runs' = <<NewRun, NoRun>> /\ limit' = requests /\ elapsed' = 0
    /\ sent' = sofar + 1 /\ raised' = NoRuns

\* SLIP of PlanLimit: the plan may take every request.
EveryTurn == MaxTurns

\* The plan leaves a request for its correction.
PlanLimit == IF MaxTurns = 1 THEN 1 ELSE MaxTurns - 1

Plan ==
    /\ stage = "claimed"
    /\ StartCall("planning", PlanLimit, 0)
    /\ UNCHANGED <<spent, used, tries, outcome, slotVars>>

\* An answer: a plan; or one that has not its schema, after which the run asks again or is over; or an error.
Answer(r) ==
    /\ Calling /\ runs[r].state = "asking"
    /\ \/ runs' = [runs EXCEPT ![r].state = "valid"] /\ UNCHANGED sent
       \/ runs[r].made < limit /\ runs' = [runs EXCEPT ![r].made = @ + 1] /\ sent' = sent + 1
       \/ runs[r].made = limit /\ UNCHANGED sent
          /\ \E how \in Failures : runs' = [runs EXCEPT ![r].state = how]
       \/ runs' = [runs EXCEPT ![r].state = "failed"] /\ UNCHANGED sent
    /\ UNCHANGED <<stage, limit, elapsed, spent, used, tries, outcome, raised, slotVars>>

\* SLIP of Lost: the first run that ends is the answer.
LostWithOne == \E r \in 1 .. 2 : runs[r].state \in Failures

\* No run is left that may still answer: the error is the first run's.
Lost == runs[1].state \in Failures /\ runs[2].state \in Failures \cup {"none"}

\* The attempt is over, for good or until it is claimed again.
End(how) ==
    /\ stage' = "ended" /\ outcome' = how
    /\ runs' = NoRuns /\ limit' = 0 /\ elapsed' = 0
    /\ spent' = spent /\ used' = used

\* fail_or_retry of PlanningTimeout and OutputExhausted, which spent their budget on one request.
Transient == IF tries < MaxTries THEN "again" ELSE "failed"

\* The plan of a run that has one; the other run is cancelled.
Return ==
    /\ Calling
    /\ \E r \in 1 .. 2 : runs[r].state = "valid" /\ used' = used + runs[r].made
    /\ stage' = IF stage = "planning" THEN "gates" ELSE "ended"
    /\ spent' = spent + elapsed
    /\ runs' = NoRuns /\ limit' = 0 /\ elapsed' = 0
    /\ IF stage = "planning" THEN outcome' = outcome ELSE outcome' \in {"filed", "archived"}
    /\ UNCHANGED <<tries, sent, raised, slotVars>>

Fail ==
    /\ Calling /\ Lost /\ \A r \in 1 .. 2 : runs[r].state # "valid"
    /\ raised' = runs
    /\ \E how \in IF runs[1].state = "exhausted" THEN {Transient} ELSE {Transient, "failed"} : End(how)
    /\ UNCHANGED <<tries, sent, slotVars>>

\* What has ended is looked at before time passes.
Waiting ==
    /\ Calling
    /\ \A r \in 1 .. 2 : runs[r].state # "valid"
    /\ \E r \in 1 .. 2 : runs[r].state = "asking"

Hedge == Alone /\ elapsed = HedgeAfter

\* asyncio.timeout bounds the call, and the deadline of the operation both calls.
Expired == elapsed >= Timeout \/ spent + elapsed >= Budget

Race ==
    /\ Waiting /\ ~Expired /\ Hedge
    /\ runs' = [runs EXCEPT ![2] = NewRun]
    /\ sent' = sent + 1
    /\ UNCHANGED <<stage, limit, elapsed, spent, used, tries, outcome, raised, slotVars>>

Tick ==
    /\ Waiting /\ ~Expired /\ ~Hedge
    /\ elapsed' = elapsed + 1
    /\ UNCHANGED <<stage, runs, limit, spent, used, tries, outcome, sent, raised, slotVars>>

\* The time-out is tried again on a new budget; a deadline is terminal.
RunOut ==
    /\ Waiting /\ Expired
    /\ \/ elapsed >= Timeout /\ End(Transient)
       \/ spent + elapsed >= Budget /\ End("failed")
    /\ UNCHANGED <<tries, sent, raised, slotVars>>
-----------------------------------------------------------------------------
(* The request budget of a filing *)

\* SLIP of Remaining: what the plan used is not counted.
RemainingAll == MaxTurns

Remaining == MaxTurns - used

\* _capture: the plan is applied and gated; one that fails is corrected while a request is left.
Gates ==
    /\ stage = "gates"
    /\ \/ End("filed") /\ UNCHANGED <<sent, raised>>
       \/ IF Remaining < 1
          THEN End("archived") /\ UNCHANGED <<sent, raised>>
          ELSE StartCall("revising", Remaining, sent) /\ UNCHANGED <<spent, used, outcome>>
    /\ UNCHANGED <<tries, slotVars>>

\* The job is claimed again, with a fresh budget.
ClaimAgain ==
    /\ stage = "ended" /\ outcome = "again"
    /\ stage' = "claimed" /\ outcome' = "none"
    /\ tries' = tries + 1 /\ spent' = 0 /\ used' = 0 /\ sent' = 0 /\ raised' = NoRuns
    /\ UNCHANGED <<runs, limit, elapsed, slotVars>>
-----------------------------------------------------------------------------
(* choose: typed decisions *)

\* No slot free is a failure, and the caller goes on without.
Ask(c) ==
    /\ c \notin asking /\ free > 0
    /\ asking' = asking \cup {c} /\ free' = free - 1
    /\ UNCHANGED <<deserted, filingVars>>

Decided(c) ==
    /\ c \in asking
    /\ asking' = asking \ {c} /\ free' = free + 1
    /\ UNCHANGED <<deserted, filingVars>>

\* SLIP of KeepsItsSlot: who waits no more gives the slot back.
FreesItsSlot == free' = free + 1

\* The slot is the request's, and is free when that ends.
KeepsItsSlot == free' = free

\* The caller's time is up, and its request goes on.
Desert(c) ==
    /\ c \in asking
    /\ asking' = asking \ {c} /\ deserted' = deserted + 1
    /\ KeepsItsSlot
    /\ UNCHANGED filingVars

DesertedEnds ==
    /\ deserted > 0
    /\ deserted' = deserted - 1 /\ free' = free + 1
    /\ UNCHANGED <<asking, filingVars>>
-----------------------------------------------------------------------------
CallsNext ==
    \/ Plan \/ \E r \in 1 .. 2 : Answer(r)
    \/ Return \/ Fail \/ Race \/ Tick \/ RunOut
    \/ Gates \/ ClaimAgain
    \/ \E c \in Callers : Ask(c) \/ Decided(c) \/ Desert(c)
    \/ DesertedEnds

CallsSpec == CallsInit /\ [][CallsNext]_callVars
-----------------------------------------------------------------------------
\* planner.py:155, writer.py:933-937: however many requests its plan took, a filing has one left to
\* correct it with.
CorrectionHasARequest == stage = "gates" => Remaining >= 1

\* specs/karpathy-team-wiki.md:108-112, writer.py:933: the requests that count are three at most; those
\* that are sent are twice as many at most less one, since an attempt has no time to race two calls.
RequestsPerFiling == used <= MaxTurns /\ used <= sent /\ sent <= 2 * MaxTurns - 1

\* planner.py:387-409: a call fails for an error only when no run of it may still answer.
ErrorsAreOfEveryRun ==
    \A r \in 1 .. 2 : raised[r].state \in Failures \cup {"none"}

\* llm.py:191-216: no more decisions are in flight than there are slots, the deserted ones among them,
\* and a slot nobody holds is free.
SlotsAreTheRequests == free + Cardinality(asking) + deserted = Slots

\* No request of a model is lost count of, whatever is raced, fails, times out or is deserted.
RequestsAreCounted ==
    /\ CorrectionHasARequest
    /\ RequestsPerFiling
    /\ ErrorsAreOfEveryRun
    /\ SlotsAreTheRequests
-----------------------------------------------------------------------------
(* What the code does not keep, which no run checks (README, section 5) *)

\* docs/ARCHITECTURE.md:124-126: a run that is raced asks once more for each request of the other.
AtMostThreeRequests == sent <= MaxTurns

\* specs/karpathy-team-wiki.md:117-119: a call that ended at its output limit is tried again on a fresh
\* budget, unless the run that was raced failed for something else.
OutputLimitIsTriedAgain ==
    [][stage' = "ended" /\ tries < MaxTries /\ (\E r \in 1 .. 2 : raised'[r].state = "exhausted")
       => outcome' = "again"]_callVars
=============================================================================
