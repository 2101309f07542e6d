--------------------------- MODULE KnowledgeWriter ---------------------------
(***************************************************************************)
(* The write path of one workspace: the capture queue with its leases, the *)
(* writer processes that drain it, the advisory lock that serialises them, *)
(* the workspace's Git branch, and the change ledger.                      *)
(*                                                                         *)
(* A writer claims a queued operation OUTSIDE the lock, takes the lock,    *)
(* looks for a commit an earlier attempt already published, and otherwise  *)
(* files the operation: it plans on the branch tip it resolved, checks     *)
(* that it still holds its lease, pushes one commit, records the change    *)
(* and the evidence references, drops the lock, and only then reports the  *)
(* operation landed.  Every step can be the last one of its process.       *)
(*                                                                         *)
(* Git is modelled by what the writer uses of it.  The branch is a         *)
(* sequence of commits; a commit names its operation (the                  *)
(* Stigmergy-Operation trailer) and the lease it was made under.  A push   *)
(* is a message: it takes effect only if the branch is still where the     *)
(* commit was made (no force, no rebase), possibly after the writer        *)
(* stopped waiting for it.  Without an origin the compare-and-swap         *)
(* update-ref is a push that takes effect at once.                         *)
(*                                                                         *)
(* A definition introduced as a SLIP is a plausible mistake in the action  *)
(* it names, used to check that a property would notice it; it is no part  *)
(* of the specification.                                                   *)
(***************************************************************************)
EXTENDS Naturals, Sequences, FiniteSets

CONSTANTS
    Ops,          \* operations callers submit
    Captures,     \* the ones that record evidence references
    Gardens,      \* the ones that may find nothing to change
    Foreign,      \* stands for the operation of a commit no writer made
    Workers,      \* writer processes
    NoWorker,     \* nobody holds the writer lock
    NoJob,        \* a process between operations
    MaxAttempts,  \* queue.DEFAULT_MAX_ATTEMPTS
    MaxStops,     \* bound: crashes and shutdowns of writer processes
    MaxRetries,   \* bound: administrator retries
    MaxForeign    \* bound: commits pushed by others

ASSUME ConstantsAssumption ==
    /\ Captures \subseteq Ops
    /\ Gardens \subseteq Ops
    /\ Captures \cap Gardens = {}
    /\ Foreign \notin Ops
    /\ NoWorker \notin Workers
    /\ MaxAttempts \in Nat \ {0}
    /\ MaxStops \in Nat
    /\ MaxRetries \in Nat
    /\ MaxForeign \in Nat

VARIABLES
    status,      \* capture_queue.status of each operation ("absent" before submission)
    attempts,    \* capture_queue.attempts
    lease,       \* capture_queue.lease_started_at, 0 for NULL
    expired,     \* leases older than the visibility timeout
    landedAt,    \* capture_queue.commit_sha: a position of the branch, 0 for none
    clock,       \* clock_timestamp(): counts the claims
    pc,          \* where each writer process is
    job,         \* the claimed row each process carries
    verdict,     \* how a failing attempt must be settled
    checkout,    \* the local branch of each process's checkout
    ready,       \* processes whose checkout was prepared (Workspaces._ready)
    base,        \* the branch position a filing starts from
    commitAt,    \* the published commit the process works on
    lock,        \* the session advisory lock WRITER_LOCK_KEY
    branch,      \* the published history: a sequence of [op, lease]
    pushes,      \* pushes under way: [op, lease, base]
    changes,     \* positions of branch with a row in knowledge_changes
    referenced,  \* captures with their rows in capture_artifacts
    stops, retries  \* counters of the bounded environment actions

queueVars == <<status, attempts, lease, expired, landedAt, clock>>
gitVars == <<branch, pushes>>
ledgerVars == <<changes, referenced>>
processVars == <<pc, job, verdict, checkout, ready, base, commitAt>>
boundVars == <<stops, retries>>
vars == <<queueVars, processVars, lock, gitVars, ledgerVars, boundVars>>

Statuses == {"absent", "queued", "processing", "landed", "failed"}
Phases == {"down", "idle", "maintaining", "claimed", "prepared", "locked", "filing",
           "publishing", "pushing", "recording", "referencing", "finishing", "failing"}
\* Phases inside `with ops.try_advisory_lock(conn, WRITER_LOCK_KEY)`.
Critical == {"maintaining", "locked", "filing", "publishing", "pushing", "recording",
             "referencing"}
\* Phases in which the process carries a claimed row.
Working == Phases \ {"down", "idle", "maintaining"}
Jobs == [op : Ops, attempts : Nat, lease : Nat]
Commits == [op : Ops \cup {Foreign}, lease : Nat]
Pushes == [op : Ops, lease : Nat, base : Nat]

TypeOK ==
    /\ status \in [Ops -> Statuses]
    /\ attempts \in [Ops -> Nat]
    /\ lease \in [Ops -> Nat]
    /\ expired \subseteq Ops
    /\ landedAt \in [Ops -> Nat]
    /\ clock \in Nat
    /\ pc \in [Workers -> Phases]
    /\ job \in [Workers -> Jobs \cup {NoJob}]
    /\ \A w \in Workers : pc[w] \in Working => job[w] \in Jobs
    /\ verdict \in [Workers -> {"none", "retryable", "terminal", "stopping"}]
    /\ checkout \in [Workers -> Nat]
    /\ ready \subseteq Workers
    /\ base \in [Workers -> Nat]
    /\ commitAt \in [Workers -> Nat]
    /\ lock \in Workers \cup {NoWorker}
    /\ branch \in Seq(Commits)
    /\ pushes \subseteq Pushes
    /\ changes \subseteq Nat
    /\ referenced \subseteq Captures
    /\ stops \in Nat
    /\ retries \in Nat

Init ==
    /\ status = [o \in Ops |-> "absent"]
    /\ attempts = [o \in Ops |-> 0]
    /\ lease = [o \in Ops |-> 0]
    /\ expired = {}
    /\ landedAt = [o \in Ops |-> 0]
    /\ clock = 0
    /\ pc = [w \in Workers |-> "down"]
    /\ job = [w \in Workers |-> NoJob]
    /\ verdict = [w \in Workers |-> "none"]
    /\ checkout = [w \in Workers |-> 0]
    /\ ready = {}
    /\ base = [w \in Workers |-> 0]
    /\ commitAt = [w \in Workers |-> 0]
    /\ lock = NoWorker
    /\ branch = <<>>
    /\ pushes = {}
    /\ changes = {}
    /\ referenced = {}
    /\ stops = 0
    /\ retries = 0

-----------------------------------------------------------------------------
(* The queue.                                                              *)

\* SLIP of HoldsLease: any process may settle a row that is being processed.
HoldsLeaseByStatus(w) == status[job[w].op] = "processing"

\* The fence of finish_landed and fail_or_retry: the row is still the claim
\* this process made.
HoldsLease(w) ==
    LET o == job[w].op IN
    /\ status[o] = "processing"
    /\ attempts[o] = job[w].attempts
    /\ lease[o] = job[w].lease

\* An idempotent enqueue: a second submission of the same operation finds the
\* row of the first and changes nothing.
Submit(o) ==
    /\ status[o] = "absent"
    /\ status' = [status EXCEPT ![o] = "queued"]
    /\ UNCHANGED <<attempts, lease, expired, landedAt, clock, processVars, lock, gitVars,
                   ledgerVars, boundVars>>

\* The claim is one statement on the queue row and takes no writer lock.
Claim(w, o) ==
    /\ pc[w] = "idle"
    /\ status[o] = "queued"
    /\ clock' = clock + 1
    /\ status' = [status EXCEPT ![o] = "processing"]
    /\ attempts' = [attempts EXCEPT ![o] = @ + 1]
    /\ lease' = [lease EXCEPT ![o] = clock + 1]
    /\ job' = [job EXCEPT ![w] = [op |-> o, attempts |-> attempts[o] + 1, lease |-> clock + 1]]
    /\ pc' = [pc EXCEPT ![w] = "claimed"]
    /\ UNCHANGED <<expired, landedAt, verdict, checkout, ready, base, commitAt, lock, gitVars,
                   ledgerVars, boundVars>>

\* The visibility timeout passes.  The hard deadline of the writer normally ends
\* it first, but a suspended machine bounds nothing, so the lease of a live
\* writer may expire too.
Expire(o) ==
    /\ status[o] = "processing"
    /\ o \notin expired
    /\ expired' = expired \cup {o}
    /\ UNCHANGED <<status, attempts, lease, landedAt, clock, processVars, lock, gitVars,
                   ledgerVars, boundVars>>

AdminRetry(o) ==
    /\ retries < MaxRetries
    /\ status[o] = "failed"
    /\ status' = [status EXCEPT ![o] = "queued"]
    /\ attempts' = [attempts EXCEPT ![o] = 0]
    /\ lease' = [lease EXCEPT ![o] = 0]
    /\ retries' = retries + 1
    /\ UNCHANGED <<expired, landedAt, clock, processVars, lock, gitVars, ledgerVars, stops>>

-----------------------------------------------------------------------------
(* Processes.                                                              *)

Unlocked(w) == IF lock = w THEN NoWorker ELSE lock

\* The locals of an operation end with it.
Forget(w) ==
    /\ base' = [base EXCEPT ![w] = 0]
    /\ commitAt' = [commitAt EXCEPT ![w] = 0]

\* The process ends here; Postgres frees the session's advisory lock.
Exit(w) ==
    /\ pc' = [pc EXCEPT ![w] = "down"]
    /\ job' = [job EXCEPT ![w] = NoJob]
    /\ verdict' = [verdict EXCEPT ![w] = "none"]
    /\ ready' = ready \ {w}
    /\ checkout' = [checkout EXCEPT ![w] = 0]
    /\ Forget(w)
    /\ lock' = Unlocked(w)

Start(w) ==
    /\ pc[w] = "down"
    /\ pc' = [pc EXCEPT ![w] = "idle"]
    /\ UNCHANGED <<queueVars, job, verdict, checkout, ready, base, commitAt, lock, gitVars,
                   ledgerVars, boundVars>>

\* The machine or the process dies, or a LeaseAbort ends it, at any point.
Crash(w) ==
    /\ stops < MaxStops
    /\ pc[w] # "down"
    /\ stops' = stops + 1
    /\ Exit(w)
    /\ UNCHANGED <<queueVars, gitVars, ledgerVars, retries>>

\* SLIP of TakeLock: reclaiming does not wait for the writer lock.
TakeLockAlways(w) ==
    /\ pc[w] = "idle"
    /\ lock' = w
    /\ pc' = [pc EXCEPT ![w] = "maintaining"]
    /\ UNCHANGED <<queueVars, job, verdict, checkout, ready, base, commitAt, gitVars,
                   ledgerVars, boundVars>>

\* Between operations a process takes the writer lock to reclaim leases, and
\* also to erase, provision or rebuild.
TakeLock(w) ==
    /\ pc[w] = "idle"
    /\ lock = NoWorker
    /\ lock' = w
    /\ pc' = [pc EXCEPT ![w] = "maintaining"]
    /\ UNCHANGED <<queueVars, job, verdict, checkout, ready, base, commitAt, gitVars,
                   ledgerVars, boundVars>>

\* SLIP of Reclaim: a lease that expired on its last attempt is left alone.
ReclaimRetryable(w) ==
    LET stale == {o \in expired : attempts[o] <= MaxAttempts} IN
    /\ pc[w] = "maintaining"
    /\ status' = [o \in Ops |-> IF o \in stale THEN "queued" ELSE status[o]]
    /\ lease' = [o \in Ops |-> IF o \in stale THEN 0 ELSE lease[o]]
    /\ expired' = expired \ stale
    /\ lock' = NoWorker
    /\ pc' = [pc EXCEPT ![w] = "idle"]
    /\ UNCHANGED <<attempts, landedAt, clock, job, verdict, checkout, ready, base, commitAt,
                   gitVars, ledgerVars, boundVars>>

\* release_expired: attempts within the limit go back to the queue (the next
\* claim may be the recovery-only one), the others fail.
Reclaim(w) ==
    /\ pc[w] = "maintaining"
    /\ status' = [o \in Ops |->
                    IF o \notin expired THEN status[o]
                    ELSE IF attempts[o] <= MaxAttempts THEN "queued" ELSE "failed"]
    /\ lease' = [o \in Ops |-> IF o \in expired THEN 0 ELSE lease[o]]
    /\ expired' = {}
    /\ lock' = NoWorker
    /\ pc' = [pc EXCEPT ![w] = "idle"]
    /\ UNCHANGED <<attempts, landedAt, clock, job, verdict, checkout, ready, base, commitAt,
                   gitVars, ledgerVars, boundVars>>

\* A rebuild or an erasure refreshes the checkout to the fetched tip; when it
\* cannot, the next operation must prepare the checkout again.
Refresh(w) ==
    /\ pc[w] = "maintaining"
    /\ \/ checkout' = [checkout EXCEPT ![w] = Len(branch)] /\ ready' = ready \cup {w}
       \/ checkout' = checkout /\ ready' = ready \ {w}
    /\ lock' = NoWorker
    /\ pc' = [pc EXCEPT ![w] = "idle"]
    /\ UNCHANGED <<queueVars, job, verdict, base, commitAt, gitVars, ledgerVars, boundVars>>

-----------------------------------------------------------------------------
(* One operation of one process.                                           *)

\* Workspaces.deps_for: only a process's first use of the checkout brings it
\* to the remote tip.
Prepare(w) ==
    /\ pc[w] = "claimed"
    /\ checkout' = IF w \in ready THEN checkout ELSE [checkout EXCEPT ![w] = Len(branch)]
    /\ ready' = ready \cup {w}
    /\ pc' = [pc EXCEPT ![w] = "prepared"]
    /\ UNCHANGED <<queueVars, job, verdict, base, commitAt, lock, gitVars, ledgerVars,
                   boundVars>>

Acquire(w) ==
    /\ pc[w] = "prepared"
    /\ lock = NoWorker
    /\ lock' = w
    /\ pc' = [pc EXCEPT ![w] = "locked"]
    /\ UNCHANGED <<queueVars, job, verdict, checkout, ready, base, commitAt, gitVars,
                   ledgerVars, boundVars>>

\* An exception leaves the lock's scope first; the row is settled after.
Raise(w, kind) ==
    /\ verdict' = [verdict EXCEPT ![w] = kind]
    /\ pc' = [pc EXCEPT ![w] = "failing"]
    /\ lock' = Unlocked(w)
    /\ Forget(w)
    /\ UNCHANGED <<queueVars, job, checkout, ready, gitVars, ledgerVars, boundVars>>

\* WriterBusy is retryable, and the attempt is spent.
Busy(w) ==
    /\ pc[w] = "prepared"
    /\ lock # NoWorker
    /\ Raise(w, "retryable")

\* The tip a fetch brings, or the stale local branch when the fetch exits
\* non-zero.
Tips(w) == {Len(branch), checkout[w]}

\* `git log --grep -1` below a tip n: i is the last commit of the operation, or
\* there is none.
LastCommit(o, n, i) ==
    /\ i \in 1..n
    /\ branch[i].op = o
    /\ \A j \in (i + 1)..n : branch[j].op # o
NoCommit(o, n) == \A i \in 1..n : branch[i].op # o

\* SLIP of Recover: a recovered commit is reported without its records.
RecoverUnrecorded(w) ==
    /\ pc[w] = "locked"
    /\ \E n \in Tips(w) : \E i \in 1..n :
         /\ LastCommit(job[w].op, n, i)
         /\ commitAt' = [commitAt EXCEPT ![w] = i]
    /\ lock' = Unlocked(w)
    /\ pc' = [pc EXCEPT ![w] = "finishing"]
    /\ UNCHANGED <<queueVars, job, verdict, checkout, ready, base, gitVars, ledgerVars,
                   boundVars>>

\* `_recover` finds the operation's trailer below the tip it resolved.
Recover(w) ==
    /\ pc[w] = "locked"
    /\ \E n \in Tips(w) : \E i \in 1..n :
         /\ LastCommit(job[w].op, n, i)
         /\ commitAt' = [commitAt EXCEPT ![w] = i]
    /\ pc' = [pc EXCEPT ![w] = "recording"]
    /\ UNCHANGED <<queueVars, job, verdict, checkout, ready, base, lock, gitVars, ledgerVars,
                   boundVars>>

\* A claim past the limit exists only to reconcile.
GiveUp(w) ==
    /\ pc[w] = "locked"
    /\ job[w].attempts > MaxAttempts
    /\ \E n \in Tips(w) : NoCommit(job[w].op, n)
    /\ Raise(w, "terminal")

\* SLIP of StartFiling: a retry plans again without looking for its commit.
StartFilingAnyway(w) ==
    /\ pc[w] = "locked"
    /\ job[w].attempts <= MaxAttempts
    /\ \E n \in Tips(w) : base' = [base EXCEPT ![w] = n]
    /\ pc' = [pc EXCEPT ![w] = "filing"]
    /\ UNCHANGED <<queueVars, job, verdict, checkout, ready, commitAt, lock, gitVars,
                   ledgerVars, boundVars>>

\* No commit below the tip: extract, plan with the model, apply and gate.
StartFiling(w) ==
    /\ pc[w] = "locked"
    /\ job[w].attempts <= MaxAttempts
    /\ \E n \in Tips(w) :
         /\ NoCommit(job[w].op, n)
         /\ base' = [base EXCEPT ![w] = n]
    /\ pc' = [pc EXCEPT ![w] = "filing"]
    /\ UNCHANGED <<queueVars, job, verdict, checkout, ready, commitAt, lock, gitVars,
                   ledgerVars, boundVars>>

\* A garden run over a clean corpus returns an empty commit.
NothingToChange(w) ==
    /\ pc[w] = "filing"
    /\ job[w].op \in Gardens
    /\ commitAt' = [commitAt EXCEPT ![w] = 0]
    /\ lock' = Unlocked(w)
    /\ pc' = [pc EXCEPT ![w] = "finishing"]
    /\ UNCHANGED <<queueVars, job, verdict, checkout, ready, base, gitVars, ledgerVars,
                   boundVars>>

\* A stop request interrupts the wait for the model.
Interrupt(w) ==
    /\ stops < MaxStops
    /\ pc[w] = "filing"
    /\ stops' = stops + 1
    /\ verdict' = [verdict EXCEPT ![w] = "stopping"]
    /\ pc' = [pc EXCEPT ![w] = "failing"]
    /\ lock' = Unlocked(w)
    /\ Forget(w)
    /\ UNCHANGED <<queueVars, job, checkout, ready, gitVars, ledgerVars, retries>>

\* holds_lease, the last look at the queue before the commit goes out.  A lost
\* lease is a QueueStateError, which ends the process.
CheckLease(w) ==
    /\ pc[w] = "filing"
    /\ HoldsLease(w)
    /\ pc' = [pc EXCEPT ![w] = "publishing"]
    /\ UNCHANGED <<queueVars, job, verdict, checkout, ready, base, commitAt, lock, gitVars,
                   ledgerVars, boundVars>>

LoseLease(w) ==
    /\ pc[w] = "filing"
    /\ ~HoldsLease(w)
    /\ Exit(w)
    /\ UNCHANGED <<queueVars, gitVars, ledgerVars, boundVars>>

Push(w) ==
    /\ pc[w] = "publishing"
    /\ pushes' = pushes \cup {[op |-> job[w].op, lease |-> job[w].lease, base |-> base[w]]}
    /\ pc' = [pc EXCEPT ![w] = "pushing"]
    /\ UNCHANGED <<queueVars, job, verdict, checkout, ready, base, commitAt, lock, branch,
                   ledgerVars, boundVars>>

\* The remote accepts a push only onto the commit it was made on.
Land(p) ==
    /\ p \in pushes
    /\ p.base = Len(branch)
    /\ branch' = Append(branch, [op |-> p.op, lease |-> p.lease])
    /\ pushes' = pushes \ {p}
    /\ UNCHANGED <<queueVars, processVars, lock, ledgerVars, boundVars>>

\* A push the remote refuses, or that never arrives.
Drop(p) ==
    /\ p \in pushes
    /\ pushes' = pushes \ {p}
    /\ UNCHANGED <<queueVars, processVars, lock, branch, ledgerVars, boundVars>>

\* Somebody else pushes to the knowledge repository.
ForeignPush ==
    /\ Cardinality({i \in DOMAIN branch : branch[i].op = Foreign}) < MaxForeign
    /\ branch' = Append(branch, [op |-> Foreign, lease |-> 0])
    /\ UNCHANGED <<queueVars, processVars, lock, pushes, ledgerVars, boundVars>>

\* The push answers: the process goes on with its own commit.
Accepted(w) ==
    /\ pc[w] = "pushing"
    /\ \E i \in DOMAIN branch :
         /\ branch[i] = [op |-> job[w].op, lease |-> job[w].lease]
         /\ commitAt' = [commitAt EXCEPT ![w] = i]
    /\ pc' = [pc EXCEPT ![w] = "recording"]
    /\ UNCHANGED <<queueVars, job, verdict, checkout, ready, base, lock, gitVars, ledgerVars,
                   boundVars>>

\* record_change: the insert does nothing when the commit already has its row.
RecordChange(w) ==
    /\ pc[w] = "recording"
    /\ changes' = changes \cup {commitAt[w]}
    /\ pc' = [pc EXCEPT ![w] = "referencing"]
    /\ UNCHANGED <<queueVars, job, verdict, checkout, ready, base, commitAt, lock, gitVars,
                   referenced, boundVars>>

\* SLIP of RecordReferences: every operation is taken for a capture.
RecordReferencesAlways(w) ==
    /\ pc[w] = "referencing"
    /\ referenced' = referenced \cup {job[w].op}
    /\ lock' = Unlocked(w)
    /\ pc' = [pc EXCEPT ![w] = "finishing"]
    /\ UNCHANGED <<queueVars, job, verdict, checkout, ready, base, commitAt, gitVars, changes,
                   boundVars>>

\* A capture records its evidence references before the lock is dropped.
RecordReferences(w) ==
    /\ pc[w] = "referencing"
    /\ referenced' = referenced \cup ({job[w].op} \cap Captures)
    /\ lock' = Unlocked(w)
    /\ pc' = [pc EXCEPT ![w] = "finishing"]
    /\ UNCHANGED <<queueVars, job, verdict, checkout, ready, base, commitAt, gitVars, changes,
                   boundVars>>

\* Any exception of the attempt: a timeout, a lost connection or a provider
\* error is retryable, a refused gate, a rejected push or an exhausted budget is
\* not.  A push that failed for the writer may still be under way.
Fallible == {"claimed", "locked", "filing", "pushing", "recording", "referencing", "finishing"}
FailAttempt(w) ==
    /\ pc[w] \in Fallible
    /\ \E kind \in {"retryable", "terminal"} : Raise(w, kind)

Leave(w, phase) ==
    /\ pc' = [pc EXCEPT ![w] = phase]
    /\ job' = [job EXCEPT ![w] = NoJob]
    /\ verdict' = [verdict EXCEPT ![w] = "none"]
    /\ Forget(w)
    /\ UNCHANGED <<lock, gitVars, ledgerVars, boundVars>>

\* SLIP of Finish: the update is not fenced by the claim.
FinishUnfenced(w) ==
    LET o == job[w].op IN
    /\ pc[w] = "finishing"
    /\ status' = [status EXCEPT ![o] = "landed"]
    /\ lease' = [lease EXCEPT ![o] = 0]
    /\ expired' = expired \ {o}
    /\ landedAt' = [landedAt EXCEPT ![o] = commitAt[w]]
    /\ Leave(w, "idle")
    /\ UNCHANGED <<attempts, clock, checkout, ready>>

\* finish_landed.
Finish(w) ==
    LET o == job[w].op IN
    /\ pc[w] = "finishing"
    /\ HoldsLease(w)
    /\ status' = [status EXCEPT ![o] = "landed"]
    /\ lease' = [lease EXCEPT ![o] = 0]
    /\ expired' = expired \ {o}
    /\ landedAt' = [landedAt EXCEPT ![o] = commitAt[w]]
    /\ Leave(w, "idle")
    /\ UNCHANGED <<attempts, clock, checkout, ready>>

\* fail_or_retry.
SettleFailure(w) ==
    LET o == job[w].op
        retry == verdict[w] = "retryable" /\ job[w].attempts < MaxAttempts IN
    /\ pc[w] = "failing"
    /\ verdict[w] # "stopping"
    /\ HoldsLease(w)
    /\ status' = [status EXCEPT ![o] = IF retry THEN "queued" ELSE "failed"]
    /\ lease' = [lease EXCEPT ![o] = 0]
    /\ expired' = expired \ {o}
    /\ Leave(w, "idle")
    /\ UNCHANGED <<attempts, landedAt, clock, checkout, ready>>

\* Either statement matches no row: QueueStateError ends the process.
SettleNothing(w) ==
    /\ \/ pc[w] = "finishing"
       \/ pc[w] = "failing" /\ verdict[w] # "stopping"
    /\ ~HoldsLease(w)
    /\ Exit(w)
    /\ UNCHANGED <<queueVars, gitVars, ledgerVars, boundVars>>

\* release_claim, fenced by the lease alone, gives the attempt back; the stopping
\* process then ends whether or not a row matched.
ReleaseClaim(w) ==
    LET o == job[w].op
        held == status[o] = "processing" /\ lease[o] = job[w].lease IN
    /\ pc[w] = "failing"
    /\ verdict[w] = "stopping"
    /\ status' = IF held THEN [status EXCEPT ![o] = "queued"] ELSE status
    /\ attempts' = IF held THEN [attempts EXCEPT ![o] = IF @ > 0 THEN @ - 1 ELSE 0] ELSE attempts
    /\ lease' = IF held THEN [lease EXCEPT ![o] = 0] ELSE lease
    /\ expired' = IF held THEN expired \ {o} ELSE expired
    /\ ready' = ready \ {w}
    /\ checkout' = [checkout EXCEPT ![w] = 0]
    /\ Leave(w, "down")
    /\ UNCHANGED <<landedAt, clock>>

-----------------------------------------------------------------------------
Maintain(w) == TakeLock(w) \/ Reclaim(w) \/ Refresh(w)

Attempt(w) ==
    \/ \E o \in Ops : Claim(w, o)
    \/ Prepare(w) \/ Acquire(w) \/ Busy(w)
    \/ Recover(w) \/ GiveUp(w) \/ StartFiling(w)
    \/ NothingToChange(w) \/ CheckLease(w) \/ LoseLease(w)
    \/ Push(w) \/ Accepted(w) \/ RecordChange(w) \/ RecordReferences(w)
    \/ FailAttempt(w)
    \/ Finish(w) \/ SettleFailure(w) \/ SettleNothing(w) \/ ReleaseClaim(w)

Next ==
    \/ \E o \in Ops : Submit(o) \/ Expire(o) \/ AdminRetry(o)
    \/ \E w \in Workers : Start(w) \/ Crash(w) \/ Interrupt(w) \/ Maintain(w) \/ Attempt(w)
    \/ \E p \in pushes : Land(p) \/ Drop(p)
    \/ ForeignPush

Spec == Init /\ [][Next]_vars

\* The loop reaches release_expired and claim_next on every pass, so a process
\* cannot postpone either for ever; inside an operation every wait is bounded by
\* a deadline; a timeout passes; the platform restarts a dead process.
Fairness ==
    /\ \A w \in Workers :
         /\ WF_vars(Start(w))
         /\ SF_vars(TakeLock(w))
         /\ SF_vars(Reclaim(w))
         /\ SF_vars(\E o \in Ops : Claim(w, o))
         /\ WF_vars(pc[w] # "idle" /\ Attempt(w))
    /\ \A o \in Ops : WF_vars(Expire(o))

FairSpec == Spec /\ Fairness

-----------------------------------------------------------------------------
(* Properties.                                                             *)

\* An operation is published at most once, whatever attempts, crashes, stale
\* checkouts and late pushes it went through (writer.py _recover and the
\* non-forced push of _advance): `reconciled by commit SHA, never by a second
\* commit`.
AtMostOneCommit ==
    \A i, j \in DOMAIN branch :
        (branch[i].op = branch[j].op /\ branch[i].op # Foreign) => i = j

\* What finish_landed reports is durable elsewhere first: the commit of a landed
\* operation is on the branch and has its change record, and a capture has its
\* evidence references, so a later deletion knows what it kept alive.
Substantiated(o, i) ==
    \/ /\ i \in DOMAIN branch
       /\ branch[i].op = o
       /\ i \in changes
       /\ o \in Captures => o \in referenced
    \/ i = 0 /\ o \in Gardens

LandedIsSubstantiated ==
    \A o \in Ops : status[o] = "landed" => Substantiated(o, landedAt[o])

\* The lock is what keeps a lease alive: from the moment holds_lease answered
\* until the references are recorded, the claim is still this process's, even
\* when its lease is past the timeout, because reclaiming takes the same lock.
PublishUnderLease ==
    \A w \in Workers :
        pc[w] \in {"publishing", "pushing"} => HoldsLease(w)

\* A row leaves `processing` only through the reclaim of an expired lease or
\* through the process that holds the current lease: an older claim of the same
\* operation never settles it (finish_landed, fail_or_retry, release_claim).
SettledByHolder(o) ==
    \/ o \in expired /\ expired' = {}
    \/ \E w \in Workers : /\ pc[w] \in {"finishing", "failing"} /\ pc'[w] # pc[w]
                          /\ job[w].op = o /\ job[w].lease = lease[o]

OnlyHolderSettles ==
    [][\A o \in Ops : (status[o] = "processing" /\ status'[o] # "processing")
                        => SettledByHolder(o)]_vars

\* The inductive invariant behind those three, in named parts.
\* A process inside the lock's scope is the one that holds the lock.
LockInv == \A w \in Workers : pc[w] \in Critical => lock = w

\* No commit of o in the first n: what a filing from n, and a push made on n,
\* may rely on for as long as they live, because the branch only grows.
Fresh(o, n) == n \in 0..Len(branch) /\ NoCommit(o, n)

FreshInv ==
    /\ \A p \in pushes : Fresh(p.op, p.base)
    /\ \A w \in Workers : pc[w] \in {"filing", "publishing"} => Fresh(job[w].op, base[w])
    /\ \A w \in Workers : checkout[w] <= Len(branch)

\* What each phase after publication already made durable.
DurableInv ==
    \A w \in Workers :
        /\ pc[w] \in {"recording", "referencing"} =>
              commitAt[w] \in DOMAIN branch /\ branch[commitAt[w]].op = job[w].op
        /\ pc[w] = "referencing" => commitAt[w] \in changes
        /\ pc[w] = "finishing" => Substantiated(job[w].op, commitAt[w])

\* A lease names one claim, and a claim has one process.
LeaseInv ==
    /\ \A o \in Ops : lease[o] <= clock
    /\ \A w \in Workers : pc[w] \in Working => job[w].lease \in 1..clock
    /\ \A v, w \in Workers :
         (pc[v] \in Working /\ pc[w] \in Working /\ job[v].lease = job[w].lease) => v = w

\* Work is only ever about a submitted operation, an expired lease is a claim's.
SubmittedInv ==
    /\ \A p \in pushes : status[p.op] # "absent"
    /\ \A w \in Workers : pc[w] \in Working => status[job[w].op] # "absent"
    /\ \A o \in expired : status[o] = "processing"

\* Every part together, for the proofs of KnowledgeWriter_proofs: the branch, the
\* pushes under way, the processes and the queue rows agree in every state.
Inductive ==
    /\ TypeOK
    /\ LockInv
    /\ FreshInv
    /\ DurableInv
    /\ LeaseInv
    /\ SubmittedInv
    /\ AtMostOneCommit
    /\ LandedIsSubstantiated
    /\ PublishUnderLease

\* A submitted operation is eventually landed or failed: crashes, expired
\* leases, a busy lock and a failing push never leave it in the queue for ever.
EventuallySettled ==
    \A o \in Ops : status[o] = "queued" ~> status[o] \in {"landed", "failed"}

-----------------------------------------------------------------------------
(* What the code does not keep, which no run checks (README, section 5).   *)

\* README: `A crash after the commit receives a bounded recovery-only claim and
\* is reconciled by commit SHA, never by a second commit or another model run.`
\* A claim nobody carries any more, whose commit is published and recorded, is
\* never planned again.
Orphaned(o) ==
    /\ status[o] = "processing"
    /\ \E i \in changes : branch[i].op = o
    /\ \A w \in Workers : job[w] = NoJob \/ job[w].op # o
Planning(o) == \E w \in Workers : pc[w] = "filing" /\ job[w].op = o

NoSecondModelRun == \A o \in Ops : [](Orphaned(o) => []~Planning(o))

\* README: `one commit and one change record per operation`; once an operation
\* is settled and nothing is under way, its published commit has its record.
EveryCommitRecorded ==
    pushes = {} =>
        \A i \in DOMAIN branch :
            (branch[i].op # Foreign /\ status[branch[i].op] \in {"landed", "failed"})
                => i \in changes

\* The ledger the write path promises: queued and processing are both open.
Ledger == INSTANCE KnowledgeLedger WITH
    outcome <- [o \in Ops |-> IF status[o] \in {"queued", "processing"} THEN "open"
                              ELSE status[o]],
    history <- [i \in DOMAIN branch |-> branch[i].op],
    recorded <- changes

\* The write path implements the ledger: every step is one of its steps or
\* invisible to it.
ImplementsLedger == Ledger!LedgerSpec
=============================================================================
