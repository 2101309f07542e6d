----------------------------- MODULE WriterTurns -----------------------------
(***************************************************************************)
(* The passes of the writer's loop: which tenant is served next, and the   *)
(* garden and the index rebuild that each tenant is owed every day         *)
(* (Worker.run, _maybe_garden and _maybe_rebuild in librarian/worker.py,   *)
(* librarian/schedule.py, claim_next in capture/queue.py).                 *)
(*                                                                         *)
(* The time of day goes round in Day ticks, a tick being the minute after  *)
(* which the schedule is looked at again; a run is remembered as having    *)
(* been since the last slot or not.  Tenants are numbered in the order of  *)
(* their slugs, the order the rebuild goes through them.  What an          *)
(* operation does is KnowledgeWriter's, and how the machine of the writer  *)
(* stops and starts WriterWake's.                                          *)
(***************************************************************************)
EXTENDS Naturals, Sequences, FiniteSets, FiniteSetsExt

CONSTANTS
    Tenants,    \* active tenants
    Broken,     \* those whose index rebuild always fails
    Day,        \* ticks of a day; it begins at 0
    GardenAt, RebuildAt, \* the slots of the day
    Retry,      \* ticks before an index that was never built is tried again
    MaxBusy,    \* ticks between two looks at the schedule of a running writer
    MaxQueue,   \* bound: items of one tenant at midnight, and captures that come
    MaxTroubles \* bound: failures and stops

ASSUME TurnsAssumption ==
    /\ Tenants \subseteq Nat /\ IsFiniteSet(Tenants) /\ Broken \subseteq Tenants
    /\ {GardenAt, RebuildAt} \subseteq 0 .. (Day - 1)
    /\ MaxBusy \in Nat /\ MaxQueue \in Nat /\ MaxTroubles \in Nat
    /\ Cardinality(Broken) * MaxBusy < Retry

VARIABLES
    hour,       \* the time of day
    pc,         \* where the loop is, "off" when the writer is stopped
    item,       \* what it works on
    looked,     \* ticks since the schedule was looked at, by a writer that runs
    backlog,    \* the queued items of each tenant, oldest first
    turns,      \* the tenants, the one claimed for longest ago first
    keyed,      \* tenants whose garden of this UTC day was queued
    gardened,   \* tenants with a garden run since the last slot of the garden
    rebuilt,    \* tenants with a rebuild run since the last slot of the rebuild
    built,      \* tenants whose index was ever built
    waited,     \* ticks since the last rebuild run of each tenant, up to Retry
    troubles

loopVars == <<pc, item>>
clockVars == <<hour, looked, waited>>
dailyVars == <<keyed, gardened, rebuilt, built>>
queueVars == <<backlog, turns>>
turnVars == <<loopVars, clockVars, dailyVars, queueVars, troubles>>

NoItem == [tenant |-> 0, kind |-> "none"]

TurnsTypeOK ==
    /\ hour \in 0 .. (Day - 1) /\ looked \in 0 .. MaxBusy
    /\ pc \in {"off", "look", "rebuilding", "claim", "working"}
    /\ item.kind \in {"none", "capture", "garden", "index"}
    /\ backlog \in [Tenants -> Seq({"capture", "garden"})]
    /\ keyed \subseteq Tenants /\ gardened \subseteq Tenants
    /\ rebuilt \subseteq Tenants /\ built \subseteq Tenants
    /\ waited \in [Tenants -> 0 .. Retry]
    /\ troubles \in 0 .. MaxTroubles

\* A new writer finds tenants in any order of claims and indexes built or not.
TurnsInit ==
    /\ hour = 0 /\ pc = "look" /\ item = NoItem /\ looked = MaxBusy
    /\ backlog = [t \in Tenants |-> <<>>]
    /\ turns \in {s \in [1 .. Cardinality(Tenants) -> Tenants] : {s[i] : i \in DOMAIN s} = Tenants}
    /\ keyed = {} /\ gardened = {} /\ rebuilt = {}
    /\ built \in SUBSET (Tenants \ Broken)
    /\ waited = [t \in Tenants |-> Retry]
    /\ troubles = 0

-----------------------------------------------------------------------------
(* Time and the queue.                                                     *)

\* The slots of the day pass whether or not the writer runs; one that runs looks at
\* the schedule between two operations, every MaxBusy ticks at the latest.
Tick ==
    /\ pc # "off" => looked < MaxBusy
    /\ (hour + 1) % Day = 0 => \A t \in Tenants : Len(backlog[t]) <= MaxQueue
    /\ hour' = (hour + 1) % Day
    /\ looked' = IF pc = "off" THEN looked ELSE looked + 1
    /\ waited' = [t \in Tenants |-> IF waited[t] < Retry THEN waited[t] + 1 ELSE Retry]
    /\ keyed' = IF hour' = 0 THEN {} ELSE keyed
    /\ gardened' = IF hour' = GardenAt THEN {} ELSE gardened
    /\ rebuilt' = IF hour' = RebuildAt THEN {} ELSE rebuilt
    /\ UNCHANGED <<loopVars, built, queueVars, troubles>>

Capture(t) ==
    /\ Len(backlog[t]) < MaxQueue
    /\ backlog' = [backlog EXCEPT ![t] = Append(@, "capture")]
    /\ UNCHANGED <<loopVars, clockVars, dailyVars, turns, troubles>>

-----------------------------------------------------------------------------
(* One pass of the loop.                                                   *)

\* A minute has passed since the schedule was looked at.
MinuteOver == looked > 0

\* SLIP of GardenDue: the hour of the slot is waited for, and never caught up.
GardenDueNow == IF hour = GardenAt THEN Tenants \ (gardened \union keyed) ELSE {}

\* daily_due: no run since the latest slot; the key of the day is queued once.
GardenDue == Tenants \ (gardened \union keyed)

\* SLIP of RebuildDue: an index never built is due whenever it is looked at.
RebuildDueAtOnce == {t \in Tenants : t \in built => t \notin rebuilt}

\* An index that was never built is due at once, and again when Retry has passed.
RebuildDue == {t \in Tenants : IF t \in built THEN t \notin rebuilt ELSE waited[t] = Retry}

QueueGardens(due) ==
    /\ backlog' = [t \in Tenants |-> IF t \in due THEN Append(backlog[t], "garden") ELSE backlog[t]]
    /\ keyed' = keyed \union due

\* The first tenant whose rebuild is due has it now.
Rebuild(t) ==
    /\ pc' = "rebuilding"
    /\ item' = [tenant |-> t, kind |-> "index"]
    /\ rebuilt' = rebuilt \union {t}
    /\ waited' = [waited EXCEPT ![t] = 0]

\* A pass looks at the schedule once a minute; one that rebuilds claims nothing.
LookAtSchedule ==
    /\ pc = "look"
    /\ looked' = 0
    /\ QueueGardens(IF MinuteOver THEN GardenDue ELSE {})
    /\ IF MinuteOver /\ RebuildDue # {}
       THEN Rebuild(Min(RebuildDue))
       ELSE pc' = "claim" /\ UNCHANGED <<item, rebuilt, waited>>
    /\ UNCHANGED <<hour, gardened, built, turns, troubles>>

Fails(t) ==
    \/ t \in Broken /\ UNCHANGED troubles
    \/ troubles < MaxTroubles /\ troubles' = troubles + 1

\* A rebuild that fails is recorded as a run; the end of a run is what its time is.
Rebuilt ==
    /\ pc = "rebuilding"
    /\ \/ item.tenant \notin Broken /\ built' = built \union {item.tenant} /\ UNCHANGED troubles
       \/ Fails(item.tenant) /\ UNCHANGED built
    /\ rebuilt' = rebuilt \union {item.tenant}
    /\ waited' = [waited EXCEPT ![item.tenant] = 0]
    /\ pc' = "look" /\ item' = NoItem
    /\ UNCHANGED <<hour, looked, keyed, gardened, queueVars>>

Waiting == {t \in Tenants : backlog[t] # <<>>}

\* SLIP of NextTenant: the first of the tenants, whoever was served last.
NextByName == Min(Waiting)

\* Of the tenants with something queued the one claimed for longest ago.
NextTenant == turns[Min({i \in DOMAIN turns : turns[i] \in Waiting})]

Claim ==
    /\ pc = "claim" /\ Waiting # {}
    /\ pc' = "working"
    /\ item' = [tenant |-> NextTenant, kind |-> Head(backlog[NextTenant])]
    /\ backlog' = [backlog EXCEPT ![NextTenant] = Tail(@)]
    /\ turns' = Append(SelectSeq(turns, LAMBDA t : t # NextTenant), NextTenant)
    /\ UNCHANGED <<clockVars, dailyVars, troubles>>

\* Nothing to do: the next pass, or after a while the stop of the machine, unless an
\* index was never built (_may_stop).
Idle ==
    /\ pc = "claim" /\ Waiting = {}
    /\ \/ pc' = "look"
       \/ pc' = "off" /\ built = Tenants
    /\ UNCHANGED <<item, clockVars, dailyVars, queueVars, troubles>>

\* A claim that goes back to the queue is the oldest of its tenant.
HandedBack == [backlog EXCEPT ![item.tenant] = <<item.kind>> \o @]

\* The item lands, fails, or waits for a retry.  A garden that began has had its run
\* whatever came of it.
Worked ==
    /\ pc = "working"
    /\ \/ /\ gardened' = IF item.kind = "garden" THEN gardened \union {item.tenant} ELSE gardened
          /\ UNCHANGED <<backlog, troubles>>
       \/ /\ troubles < MaxTroubles /\ troubles' = troubles + 1
          /\ backlog' \in {backlog, HandedBack}
          /\ UNCHANGED gardened
    /\ pc' = "look" /\ item' = NoItem
    /\ UNCHANGED <<clockVars, keyed, rebuilt, built, turns>>

\* The writer is told to stop, or dies: a claim goes back to the queue, where it is
\* the oldest; a rebuild is left behind as a run that began.
Stop ==
    /\ pc # "off" /\ troubles < MaxTroubles
    /\ troubles' = troubles + 1
    /\ backlog' = IF pc = "working" THEN HandedBack ELSE backlog
    /\ pc' = "off" /\ item' = NoItem
    /\ UNCHANGED <<clockVars, dailyVars, turns>>

\* A writer that starts has not looked yet.
Restart ==
    /\ pc = "off"
    /\ pc' = "look" /\ looked' = MaxBusy
    /\ UNCHANGED <<item, hour, waited, dailyVars, queueVars, troubles>>

Pass == LookAtSchedule \/ Rebuilt \/ Claim \/ Idle \/ Worked

TurnsNext == Tick \/ (\E t \in Tenants : Capture(t)) \/ Pass \/ Stop \/ Restart

\* The clock goes on, the loop goes on, and a stopped writer is started again.
TurnsFairness == WF_turnVars(Tick) /\ WF_turnVars(Pass) /\ WF_turnVars(Restart)

-----------------------------------------------------------------------------
(* Properties.                                                             *)

\* "one tenant's backlog never starves another's" (queue.py:95-96): what a tenant
\* has queued gets its turn, though captures of the others never end.
EveryTenantHasATurn ==
    \A t \in Tenants : backlog[t] # <<>> ~> item.tenant = t /\ item.kind # "index"

\* "a missed run is caught up when it wakes" (schedule.py:39-40): every tenant's
\* garden runs again and again, and so does its rebuild, however many stops, failed
\* runs and captures there are between.
EveryDayIsKept ==
    \A t \in Tenants : []<>(t \in gardened) /\ []<>(t \in rebuilt)

\* The first build of an index comes though the builds of other tenants fail for
\* ever: a failing one leaves turns to the others, while MaxBusy allows for it.
EveryIndexIsBuilt == \A t \in Tenants \ Broken : <>(t \in built)
=============================================================================
