------------------------ MODULE KnowledgeWriter_proofs ------------------------
(***************************************************************************)
(* Theorems about KnowledgeWriter, for every set of operations and writer  *)
(* processes and every bound.                                              *)
(*                                                                         *)
(* TypeCorrect comes first.  WriterInvariant then shows that Inductive is  *)
(* an invariant; its parts AtMostOneCommit, LandedIsSubstantiated and      *)
(* PublishUnderLease are the properties the runs check on small instances. *)
(* Last: the write path implements KnowledgeLedger, and a row leaves       *)
(* `processing` only through its holder.                                   *)
(***************************************************************************)
EXTENDS KnowledgeWriter, TLAPS, SequenceTheorems

USE DEF queueVars, gitVars, ledgerVars, processVars, boundVars

LEMMA InitType == ASSUME ConstantsAssumption, Init PROVE TypeOK
BY DEF ConstantsAssumption, Init, TypeOK, Statuses, Phases, Working, Commits, Pushes

LEMMA QueueType ==
    ASSUME ConstantsAssumption, TypeOK, NEW o \in Ops,
           Submit(o) \/ Expire(o) \/ AdminRetry(o)
    PROVE  TypeOK'
<1> USE DEF TypeOK, Statuses
<1>1. CASE Submit(o) BY <1>1 DEF Submit
<1>2. CASE Expire(o) BY <1>2 DEF Expire
<1>3. CASE AdminRetry(o) BY <1>3 DEF AdminRetry
<1>4. QED BY <1>1, <1>2, <1>3

LEMMA ProcessType ==
    ASSUME ConstantsAssumption, TypeOK, NEW w \in Workers,
           Start(w) \/ Crash(w) \/ Interrupt(w) \/ Maintain(w)
    PROVE  TypeOK'
<1> USE DEF TypeOK, Working, Phases, Unlocked, Forget
<1>1. CASE Start(w) BY <1>1 DEF Start
<1>2. CASE Crash(w) BY <1>2 DEF Crash, Exit
<1>3. CASE Interrupt(w) BY <1>3 DEF Interrupt
<1>4. CASE TakeLock(w) BY <1>4 DEF TakeLock
<1>5. CASE Reclaim(w) BY <1>5 DEF Reclaim, Statuses
<1>6. CASE Refresh(w) BY <1>6 DEF Refresh
<1>7. QED BY <1>1, <1>2, <1>3, <1>4, <1>5, <1>6 DEF Maintain

LEMMA GitType ==
    ASSUME ConstantsAssumption, TypeOK,
           ForeignPush \/ \E p \in pushes : Land(p) \/ Drop(p)
    PROVE  TypeOK'
<1> USE DEF TypeOK, Commits, Pushes
<1>1. CASE ForeignPush BY <1>1 DEF ForeignPush
<1>2. ASSUME NEW p \in pushes, Land(p) PROVE TypeOK'
  <2>1. p \in Pushes /\ [op |-> p.op, lease |-> p.lease] \in Commits OBVIOUS
  <2>2. branch' \in Seq(Commits) BY <1>2, <2>1 DEF Land
  <2>3. QED BY <1>2, <2>2 DEF Land
<1>3. ASSUME NEW p \in pushes, Drop(p) PROVE TypeOK' BY <1>3 DEF Drop
<1>4. QED BY <1>1, <1>2, <1>3

LEMMA AttemptType ==
    ASSUME ConstantsAssumption, TypeOK, NEW w \in Workers, Attempt(w)
    PROVE  TypeOK'
<1> USE DEF TypeOK, Statuses, Phases, Working, Unlocked, Forget, Raise, Leave
<1>1. ASSUME NEW o \in Ops, Claim(w, o) PROVE TypeOK'
  <2>1. [op |-> o, attempts |-> attempts[o] + 1, lease |-> clock + 1] \in Jobs
    BY DEF Jobs
  <2>2. /\ job' \in [Workers -> Jobs \cup {NoJob}]
        /\ \A v \in Workers : pc'[v] \in Working => job'[v] \in Jobs
    BY <1>1, <2>1 DEF Claim
  <2>3. QED BY <1>1, <2>2, SMTT(30) DEF Claim
<1>2. CASE Prepare(w) BY <1>2, SMTT(30) DEF Prepare
<1>3. CASE Acquire(w) BY <1>3 DEF Acquire
<1>4. CASE Busy(w) BY <1>4 DEF Busy
<1>5. CASE Recover(w) BY <1>5, SMTT(30) DEF Recover, Tips
<1>6. CASE GiveUp(w) BY <1>6 DEF GiveUp
<1>7. CASE StartFiling(w)
  <2>1. Tips(w) \subseteq Nat BY DEF Tips
  <2>2. base' \in [Workers -> Nat] BY <1>7, <2>1 DEF StartFiling
  <2>3. pc' \in [Workers -> Phases] BY <1>7 DEF StartFiling
  <2>4. \A v \in Workers : pc'[v] \in Working => job'[v] \in Jobs BY <1>7 DEF StartFiling
  <2>5. QED BY <1>7, <2>2, <2>3, <2>4 DEF StartFiling
<1>8. CASE NothingToChange(w) BY <1>8 DEF NothingToChange
<1>9. CASE CheckLease(w) BY <1>9 DEF CheckLease
<1>10. CASE LoseLease(w) BY <1>10 DEF LoseLease, Exit
<1>11. CASE Push(w)
  <2>1. job[w] \in Jobs BY <1>11 DEF Push
  <2>2. [op |-> job[w].op, lease |-> job[w].lease, base |-> base[w]] \in Pushes
    BY <2>1 DEF Jobs, Pushes
  <2>3. QED BY <1>11, <2>2 DEF Push
<1>12. CASE Accepted(w)
  <2>1. DOMAIN branch \subseteq Nat OBVIOUS
  <2>2. commitAt' \in [Workers -> Nat] BY <1>12, <2>1 DEF Accepted
  <2>3. QED BY <1>12, <2>2 DEF Accepted
<1>13. CASE RecordChange(w)
  <2>1. commitAt[w] \in Nat /\ changes \subseteq Nat OBVIOUS
  <2>2. changes' = changes \cup {commitAt[w]} BY <1>13 DEF RecordChange
  <2>3. changes' \subseteq Nat BY <2>1, <2>2, Zenon
  <2>4. QED BY <1>13, <2>3 DEF RecordChange
<1>14. CASE RecordReferences(w) BY <1>14 DEF RecordReferences
<1>15. CASE FailAttempt(w) BY <1>15, SMTT(30) DEF FailAttempt, Fallible
<1>16. CASE Finish(w) BY <1>16 DEF Finish, Jobs
<1>17. CASE SettleFailure(w) BY <1>17 DEF SettleFailure, Jobs
<1>18. CASE SettleNothing(w) BY <1>18 DEF SettleNothing, Exit
<1>19. CASE ReleaseClaim(w)
  <2>1. job[w] \in Jobs /\ job[w].op \in Ops BY <1>19 DEF ReleaseClaim, Jobs
  <2>2. /\ status' \in [Ops -> Statuses]
        /\ attempts' \in [Ops -> Nat]
        /\ lease' \in [Ops -> Nat]
        /\ expired' \subseteq Ops
    <3>1. status' \in [Ops -> Statuses] BY <1>19, <2>1 DEF ReleaseClaim
    <3>2. attempts' \in [Ops -> Nat]
      <4> DEFINE o == job[w].op
                 given == IF attempts[o] > 0 THEN attempts[o] - 1 ELSE 0
      <4>1. given \in Nat BY <2>1
      <4>2. attempts' = attempts \/ attempts' = [attempts EXCEPT ![o] = given]
        BY <1>19 DEF ReleaseClaim
      <4> HIDE DEF given
      <4>3. QED BY <2>1, <4>1, <4>2
    <3>3. lease' \in [Ops -> Nat] BY <1>19, <2>1 DEF ReleaseClaim
    <3>4. expired' \subseteq Ops BY <1>19, <2>1 DEF ReleaseClaim
    <3>5. QED BY <3>1, <3>2, <3>3, <3>4
  <2>3. QED BY <1>19, <2>2 DEF ReleaseClaim
<1>20. QED
  BY <1>1, <1>2, <1>3, <1>4, <1>5, <1>6, <1>7, <1>8, <1>9, <1>10, <1>11, <1>12, <1>13,
     <1>14, <1>15, <1>16, <1>17, <1>18, <1>19 DEF Attempt

LEMMA NextType == ASSUME ConstantsAssumption, TypeOK, [Next]_vars PROVE TypeOK'
<1>1. CASE UNCHANGED vars BY <1>1 DEF vars, TypeOK
<1>2. CASE Next BY <1>2, QueueType, ProcessType, GitType, AttemptType DEF Next
<1>3. QED BY <1>1, <1>2

\* Every variable keeps its type: the statuses the queue's CHECK allows, claims
\* that name a submitted operation, pushes and commits that name theirs.
THEOREM TypeCorrect == Spec => []TypeOK
<1>1. Init => TypeOK BY ConstantsAssumption, InitType
<1>2. TypeOK /\ [Next]_vars => TypeOK' BY ConstantsAssumption, NextType
<1>3. QED BY <1>1, <1>2, PTL DEF Spec

-----------------------------------------------------------------------------
(* The inductive invariant.                                                *)

\* Only the holder is in the lock's scope: it is entered with the lock free and
\* left by dropping it.
LEMMA LockStep ==
    ASSUME TypeOK, NoWorker \notin Workers, LockInv, Next
    PROVE  LockInv'
<1> USE DEF TypeOK, LockInv, Critical, Unlocked, Raise, Leave, Forget
<1>1. ASSUME NEW o \in Ops, Submit(o) PROVE LockInv'
  BY <1>1 DEF Submit
<1>2. ASSUME NEW o \in Ops, Expire(o) PROVE LockInv'
  BY <1>2 DEF Expire
<1>3. ASSUME NEW o \in Ops, AdminRetry(o) PROVE LockInv'
  BY <1>3 DEF AdminRetry
<1>4. CASE ForeignPush BY <1>4 DEF ForeignPush
<1>5. ASSUME NEW p \in pushes, Land(p) PROVE LockInv'
  BY <1>5 DEF Land
<1>6. ASSUME NEW p \in pushes, Drop(p) PROVE LockInv'
  BY <1>6 DEF Drop
<1>7. ASSUME NEW w \in Workers, Start(w) PROVE LockInv'
  BY <1>7 DEF Start
<1>8. ASSUME NEW w \in Workers, Crash(w) PROVE LockInv'
  BY <1>8 DEF Crash, Exit
<1>9. ASSUME NEW w \in Workers, Interrupt(w) PROVE LockInv'
  BY <1>9 DEF Interrupt
<1>10. ASSUME NEW w \in Workers, TakeLock(w) PROVE LockInv'
  BY <1>10 DEF TakeLock
<1>11. ASSUME NEW w \in Workers, Reclaim(w) PROVE LockInv'
  BY <1>11 DEF Reclaim
<1>12. ASSUME NEW w \in Workers, Refresh(w) PROVE LockInv'
  BY <1>12 DEF Refresh
<1>13. ASSUME NEW w \in Workers, NEW o \in Ops, Claim(w, o) PROVE LockInv'
  BY <1>13 DEF Claim
<1>14. ASSUME NEW w \in Workers, Prepare(w) PROVE LockInv'
  BY <1>14 DEF Prepare
<1>15. ASSUME NEW w \in Workers, Acquire(w) PROVE LockInv'
  BY <1>15 DEF Acquire
<1>16. ASSUME NEW w \in Workers, Busy(w) PROVE LockInv'
  BY <1>16 DEF Busy
<1>17. ASSUME NEW w \in Workers, Recover(w) PROVE LockInv'
  BY <1>17 DEF Recover
<1>18. ASSUME NEW w \in Workers, GiveUp(w) PROVE LockInv'
  BY <1>18 DEF GiveUp
<1>19. ASSUME NEW w \in Workers, StartFiling(w) PROVE LockInv'
  BY <1>19 DEF StartFiling
<1>20. ASSUME NEW w \in Workers, NothingToChange(w) PROVE LockInv'
  BY <1>20 DEF NothingToChange
<1>21. ASSUME NEW w \in Workers, CheckLease(w) PROVE LockInv'
  BY <1>21 DEF CheckLease
<1>22. ASSUME NEW w \in Workers, LoseLease(w) PROVE LockInv'
  BY <1>22 DEF LoseLease, Exit
<1>23. ASSUME NEW w \in Workers, Push(w) PROVE LockInv'
  BY <1>23 DEF Push
<1>24. ASSUME NEW w \in Workers, Accepted(w) PROVE LockInv'
  BY <1>24 DEF Accepted
<1>25. ASSUME NEW w \in Workers, RecordChange(w) PROVE LockInv'
  BY <1>25 DEF RecordChange
<1>26. ASSUME NEW w \in Workers, RecordReferences(w) PROVE LockInv'
  BY <1>26 DEF RecordReferences
<1>27. ASSUME NEW w \in Workers, FailAttempt(w) PROVE LockInv'
  BY <1>27 DEF FailAttempt
<1>28. ASSUME NEW w \in Workers, Finish(w) PROVE LockInv'
  BY <1>28 DEF Finish
<1>29. ASSUME NEW w \in Workers, SettleFailure(w) PROVE LockInv'
  BY <1>29 DEF SettleFailure
<1>30. ASSUME NEW w \in Workers, SettleNothing(w) PROVE LockInv'
  BY <1>30 DEF SettleNothing, Exit
<1>31. ASSUME NEW w \in Workers, ReleaseClaim(w) PROVE LockInv'
  BY <1>31 DEF ReleaseClaim
<1>32. QED
  BY <1>1, <1>2, <1>3, <1>4, <1>5, <1>6, <1>7, <1>8, <1>9, <1>10, <1>11, <1>12, <1>13,
     <1>14, <1>15, <1>16, <1>17, <1>18, <1>19, <1>20, <1>21, <1>22, <1>23, <1>24,
     <1>25, <1>26, <1>27, <1>28, <1>29, <1>30, <1>31
     DEF Next, Maintain, Attempt

LEMMA LeaseFrame ==
    ASSUME LeaseInv, lease' = lease, clock' = clock,
           \A v \in Workers : pc'[v] \in Working => pc[v] \in Working /\ job'[v] = job[v]
    PROVE  LeaseInv'
BY DEF LeaseInv

\* A claim takes the next value of the clock, so no two processes carry one lease.
LEMMA LeaseStep ==
    ASSUME TypeOK, LeaseInv, Next
    PROVE  LeaseInv'
<1> USE DEF TypeOK, LeaseInv, Working, Phases, Jobs, Unlocked, Raise, Leave, Forget
<1>1. ASSUME NEW o \in Ops, Submit(o) PROVE LeaseInv'
  BY <1>1 DEF Submit
<1>2. ASSUME NEW o \in Ops, Expire(o) PROVE LeaseInv'
  BY <1>2 DEF Expire
<1>3. ASSUME NEW o \in Ops, AdminRetry(o) PROVE LeaseInv'
  BY <1>3 DEF AdminRetry
<1>4. CASE ForeignPush BY <1>4 DEF ForeignPush
<1>5. ASSUME NEW p \in pushes, Land(p) PROVE LeaseInv'
  BY <1>5 DEF Land
<1>6. ASSUME NEW p \in pushes, Drop(p) PROVE LeaseInv'
  BY <1>6 DEF Drop
<1>7. ASSUME NEW w \in Workers, Start(w) PROVE LeaseInv'
  <2>1. /\ lease' = lease /\ clock' = clock
        /\ \A v \in Workers : pc'[v] \in Working => pc[v] \in Working /\ job'[v] = job[v]
    BY <1>7 DEF Start
  <2>2. QED BY <2>1, LeaseFrame
<1>8. ASSUME NEW w \in Workers, Crash(w) PROVE LeaseInv'
  <2>1. /\ lease' = lease /\ clock' = clock
        /\ \A v \in Workers : pc'[v] \in Working => pc[v] \in Working /\ job'[v] = job[v]
    BY <1>8 DEF Crash, Exit
  <2>2. QED BY <2>1, LeaseFrame
<1>9. ASSUME NEW w \in Workers, Interrupt(w) PROVE LeaseInv'
  <2>1. /\ lease' = lease /\ clock' = clock
        /\ \A v \in Workers : pc'[v] \in Working => pc[v] \in Working /\ job'[v] = job[v]
    BY <1>9 DEF Interrupt
  <2>2. QED BY <2>1, LeaseFrame
<1>10. ASSUME NEW w \in Workers, TakeLock(w) PROVE LeaseInv'
  <2>1. /\ lease' = lease /\ clock' = clock
        /\ \A v \in Workers : pc'[v] \in Working => pc[v] \in Working /\ job'[v] = job[v]
    BY <1>10 DEF TakeLock
  <2>2. QED BY <2>1, LeaseFrame
<1>11. ASSUME NEW w \in Workers, Reclaim(w) PROVE LeaseInv'
  BY <1>11 DEF Reclaim
<1>12. ASSUME NEW w \in Workers, Refresh(w) PROVE LeaseInv'
  BY <1>12 DEF Refresh
<1>13. ASSUME NEW w \in Workers, NEW o \in Ops, Claim(w, o) PROVE LeaseInv'
  <2>1. /\ clock' = clock + 1
        /\ lease' = [lease EXCEPT ![o] = clock + 1]
        /\ pc'[w] = "claimed" /\ job'[w].lease = clock + 1
        /\ \A v \in Workers \ {w} : pc'[v] = pc[v] /\ job'[v] = job[v]
    <3>1. clock' = clock + 1 /\ lease' = [lease EXCEPT ![o] = clock + 1]
      BY <1>13 DEF Claim
    <3>2. pc'[w] = "claimed" /\ job'[w].lease = clock + 1
      BY <1>13 DEF Claim
    <3>3. \A v \in Workers \ {w} : pc'[v] = pc[v] /\ job'[v] = job[v]
      BY <1>13 DEF Claim
    <3>4. QED BY <3>1, <3>2, <3>3
  <2>2. \A q \in Ops : lease'[q] <= clock' BY <2>1
  <2>a. clock \in Nat OBVIOUS
  <2>b. \A v \in Workers : pc[v] \in Working => job[v].lease \in 1..clock OBVIOUS
  <2>c. \A u, v \in Workers :
          (pc[u] \in Working /\ pc[v] \in Working /\ job[u].lease = job[v].lease) => u = v
    OBVIOUS
  <2> HIDE DEF TypeOK, LeaseInv, Working, Phases, Jobs
  <2>3. \A v \in Workers : pc'[v] \in Working => job'[v].lease \in 1..clock'
    BY <2>1, <2>a, <2>b
  <2>4. ASSUME NEW u \in Workers, NEW v \in Workers, pc'[u] \in Working, pc'[v] \in Working,
               job'[u].lease = job'[v].lease
        PROVE  u = v
    <3>1. CASE u # w /\ v # w BY <2>1, <2>4, <2>a, <2>b, <2>c, <3>1
    <3>2. CASE u = w /\ v # w BY <2>1, <2>4, <2>a, <2>b, <2>c, <3>2
    <3>3. CASE u # w /\ v = w BY <2>1, <2>4, <2>a, <2>b, <2>c, <3>3
    <3>4. QED BY <3>1, <3>2, <3>3
  <2>5. QED BY <2>2, <2>3, <2>4 DEF LeaseInv
<1>14. ASSUME NEW w \in Workers, Prepare(w) PROVE LeaseInv'
  <2>1. /\ lease' = lease /\ clock' = clock
        /\ \A v \in Workers : pc'[v] \in Working => pc[v] \in Working /\ job'[v] = job[v]
    BY <1>14 DEF Prepare
  <2>2. QED BY <2>1, LeaseFrame
<1>15. ASSUME NEW w \in Workers, Acquire(w) PROVE LeaseInv'
  <2>1. /\ lease' = lease /\ clock' = clock
        /\ \A v \in Workers : pc'[v] \in Working => pc[v] \in Working /\ job'[v] = job[v]
    BY <1>15 DEF Acquire
  <2>2. QED BY <2>1, LeaseFrame
<1>16. ASSUME NEW w \in Workers, Busy(w) PROVE LeaseInv'
  <2>1. /\ lease' = lease /\ clock' = clock
        /\ \A v \in Workers : pc'[v] \in Working => pc[v] \in Working /\ job'[v] = job[v]
    BY <1>16 DEF Busy
  <2>2. QED BY <2>1, LeaseFrame
<1>17. ASSUME NEW w \in Workers, Recover(w) PROVE LeaseInv'
  <2>1. /\ job' = job /\ lease' = lease /\ clock' = clock
        /\ \A v \in Workers : pc'[v] \in Working => pc[v] \in Working
    BY <1>17 DEF Recover
  <2>2. QED BY <2>1
<1>18. ASSUME NEW w \in Workers, GiveUp(w) PROVE LeaseInv'
  <2>1. /\ lease' = lease /\ clock' = clock
        /\ \A v \in Workers : pc'[v] \in Working => pc[v] \in Working /\ job'[v] = job[v]
    BY <1>18 DEF GiveUp
  <2>2. QED BY <2>1, LeaseFrame
<1>19. ASSUME NEW w \in Workers, StartFiling(w) PROVE LeaseInv'
  <2>1. /\ job' = job /\ lease' = lease /\ clock' = clock
        /\ \A v \in Workers : pc'[v] \in Working => pc[v] \in Working
    BY <1>19 DEF StartFiling
  <2>2. QED BY <2>1
<1>20. ASSUME NEW w \in Workers, NothingToChange(w) PROVE LeaseInv'
  <2>1. /\ lease' = lease /\ clock' = clock
        /\ \A v \in Workers : pc'[v] \in Working => pc[v] \in Working /\ job'[v] = job[v]
    BY <1>20 DEF NothingToChange
  <2>2. QED BY <2>1, LeaseFrame
<1>21. ASSUME NEW w \in Workers, CheckLease(w) PROVE LeaseInv'
  <2>1. /\ lease' = lease /\ clock' = clock
        /\ \A v \in Workers : pc'[v] \in Working => pc[v] \in Working /\ job'[v] = job[v]
    BY <1>21 DEF CheckLease
  <2>2. QED BY <2>1, LeaseFrame
<1>22. ASSUME NEW w \in Workers, LoseLease(w) PROVE LeaseInv'
  <2>1. /\ lease' = lease /\ clock' = clock
        /\ \A v \in Workers : pc'[v] \in Working => pc[v] \in Working /\ job'[v] = job[v]
    BY <1>22 DEF LoseLease, Exit
  <2>2. QED BY <2>1, LeaseFrame
<1>23. ASSUME NEW w \in Workers, Push(w) PROVE LeaseInv'
  <2>1. /\ lease' = lease /\ clock' = clock
        /\ \A v \in Workers : pc'[v] \in Working => pc[v] \in Working /\ job'[v] = job[v]
    BY <1>23 DEF Push
  <2>2. QED BY <2>1, LeaseFrame
<1>24. ASSUME NEW w \in Workers, Accepted(w) PROVE LeaseInv'
  <2>1. /\ job' = job /\ lease' = lease /\ clock' = clock
        /\ \A v \in Workers : pc'[v] \in Working => pc[v] \in Working
    BY <1>24 DEF Accepted
  <2>2. QED BY <2>1
<1>25. ASSUME NEW w \in Workers, RecordChange(w) PROVE LeaseInv'
  <2>1. /\ lease' = lease /\ clock' = clock
        /\ \A v \in Workers : pc'[v] \in Working => pc[v] \in Working /\ job'[v] = job[v]
    BY <1>25 DEF RecordChange
  <2>2. QED BY <2>1, LeaseFrame
<1>26. ASSUME NEW w \in Workers, RecordReferences(w) PROVE LeaseInv'
  <2>1. /\ lease' = lease /\ clock' = clock
        /\ \A v \in Workers : pc'[v] \in Working => pc[v] \in Working /\ job'[v] = job[v]
    BY <1>26 DEF RecordReferences
  <2>2. QED BY <2>1, LeaseFrame
<1>27. ASSUME NEW w \in Workers, FailAttempt(w) PROVE LeaseInv'
  <2>1. /\ job' = job /\ lease' = lease /\ clock' = clock
        /\ \A v \in Workers : pc'[v] \in Working => pc[v] \in Working
    BY <1>27 DEF FailAttempt, Fallible
  <2>2. QED BY <2>1
<1>28. ASSUME NEW w \in Workers, Finish(w) PROVE LeaseInv'
  BY <1>28 DEF Finish
<1>29. ASSUME NEW w \in Workers, SettleFailure(w) PROVE LeaseInv'
  BY <1>29 DEF SettleFailure
<1>30. ASSUME NEW w \in Workers, SettleNothing(w) PROVE LeaseInv'
  <2>1. /\ lease' = lease /\ clock' = clock
        /\ \A v \in Workers : pc'[v] \in Working => pc[v] \in Working /\ job'[v] = job[v]
    BY <1>30 DEF SettleNothing, Exit
  <2>2. QED BY <2>1, LeaseFrame
<1>31. ASSUME NEW w \in Workers, ReleaseClaim(w) PROVE LeaseInv'
  BY <1>31 DEF ReleaseClaim
<1>32. QED
  BY <1>1, <1>2, <1>3, <1>4, <1>5, <1>6, <1>7, <1>8, <1>9, <1>10, <1>11, <1>12, <1>13,
     <1>14, <1>15, <1>16, <1>17, <1>18, <1>19, <1>20, <1>21, <1>22, <1>23, <1>24,
     <1>25, <1>26, <1>27, <1>28, <1>29, <1>30, <1>31
     DEF Next, Maintain, Attempt

\* A status never returns to absent, and a lease leaves `expired` with its claim.
LEMMA SubmittedStep ==
    ASSUME TypeOK, SubmittedInv, Next
    PROVE  SubmittedInv'
<1> USE DEF TypeOK, SubmittedInv, Working, Phases, Jobs, Unlocked, Raise, Leave, Forget
<1>1. ASSUME NEW o \in Ops, Submit(o) PROVE SubmittedInv'
  BY <1>1 DEF Submit
<1>2. ASSUME NEW o \in Ops, Expire(o) PROVE SubmittedInv'
  BY <1>2 DEF Expire
<1>3. ASSUME NEW o \in Ops, AdminRetry(o) PROVE SubmittedInv'
  BY <1>3 DEF AdminRetry
<1>4. CASE ForeignPush BY <1>4 DEF ForeignPush
<1>5. ASSUME NEW p \in pushes, Land(p) PROVE SubmittedInv'
  BY <1>5 DEF Land
<1>6. ASSUME NEW p \in pushes, Drop(p) PROVE SubmittedInv'
  BY <1>6 DEF Drop
<1>7. ASSUME NEW w \in Workers, Start(w) PROVE SubmittedInv'
  BY <1>7 DEF Start
<1>8. ASSUME NEW w \in Workers, Crash(w) PROVE SubmittedInv'
  BY <1>8 DEF Crash, Exit
<1>9. ASSUME NEW w \in Workers, Interrupt(w) PROVE SubmittedInv'
  BY <1>9 DEF Interrupt
<1>10. ASSUME NEW w \in Workers, TakeLock(w) PROVE SubmittedInv'
  BY <1>10 DEF TakeLock
<1>11. ASSUME NEW w \in Workers, Reclaim(w) PROVE SubmittedInv'
  <2>1. /\ expired' = {} /\ pushes' = pushes /\ job' = job
        /\ \A v \in Workers : pc'[v] \in Working => pc[v] \in Working
    BY <1>11 DEF Reclaim
  <2>2. \A q \in Ops : status[q] # "absent" => status'[q] # "absent" BY <1>11 DEF Reclaim
  <2>3. \A p \in pushes' : status'[p.op] # "absent" BY <2>1, <2>2 DEF Pushes
  <2>4. QED BY <2>1, <2>2, <2>3
<1>12. ASSUME NEW w \in Workers, Refresh(w) PROVE SubmittedInv'
  BY <1>12 DEF Refresh
<1>13. ASSUME NEW w \in Workers, NEW o \in Ops, Claim(w, o) PROVE SubmittedInv'
  <2>1. /\ status' = [status EXCEPT ![o] = "processing"]
        /\ expired' = expired /\ pushes' = pushes
        /\ job'[w].op = o
        /\ \A v \in Workers \ {w} : pc'[v] = pc[v] /\ job'[v] = job[v]
    BY <1>13 DEF Claim
  <2>2. \A q \in Ops : status[q] # "absent" => status'[q] # "absent" BY <2>1
  <2>3. \A p \in pushes' : status'[p.op] # "absent" BY <2>1, <2>2 DEF Pushes
  <2>4. ASSUME NEW v \in Workers, pc'[v] \in Working PROVE status'[job'[v].op] # "absent"
    <3>1. CASE v = w BY <2>1, <3>1
    <3>2. CASE v # w
      <4>1. pc[v] \in Working /\ job'[v] = job[v] BY <2>1, <2>4, <3>2
      <4>2. job[v].op \in Ops /\ status[job[v].op] # "absent" BY <4>1
      <4>3. QED BY <2>2, <4>1, <4>2
    <3>3. QED BY <3>1, <3>2
  <2>5. QED BY <2>1, <2>3, <2>4
<1>14. ASSUME NEW w \in Workers, Prepare(w) PROVE SubmittedInv'
  BY <1>14 DEF Prepare
<1>15. ASSUME NEW w \in Workers, Acquire(w) PROVE SubmittedInv'
  BY <1>15 DEF Acquire
<1>16. ASSUME NEW w \in Workers, Busy(w) PROVE SubmittedInv'
  BY <1>16 DEF Busy
<1>17. ASSUME NEW w \in Workers, Recover(w) PROVE SubmittedInv'
  BY <1>17 DEF Recover
<1>18. ASSUME NEW w \in Workers, GiveUp(w) PROVE SubmittedInv'
  BY <1>18 DEF GiveUp
<1>19. ASSUME NEW w \in Workers, StartFiling(w) PROVE SubmittedInv'
  BY <1>19 DEF StartFiling
<1>20. ASSUME NEW w \in Workers, NothingToChange(w) PROVE SubmittedInv'
  BY <1>20 DEF NothingToChange
<1>21. ASSUME NEW w \in Workers, CheckLease(w) PROVE SubmittedInv'
  BY <1>21 DEF CheckLease
<1>22. ASSUME NEW w \in Workers, LoseLease(w) PROVE SubmittedInv'
  BY <1>22 DEF LoseLease, Exit
<1>23. ASSUME NEW w \in Workers, Push(w) PROVE SubmittedInv'
  <2>1. /\ status' = status /\ job' = job /\ expired' = expired
        /\ \A v \in Workers : pc'[v] \in Working => pc[v] \in Working
    BY <1>23 DEF Push
  <2>2. \A p \in pushes' : p \in pushes \/ p.op = job[w].op BY <1>23 DEF Push
  <2>3. pc[w] \in Working
    <3>1. pc[w] = "publishing" BY <1>23 DEF Push
    <3>2. QED BY <3>1
  <2>4. QED BY <2>1, <2>2, <2>3
<1>24. ASSUME NEW w \in Workers, Accepted(w) PROVE SubmittedInv'
  BY <1>24 DEF Accepted
<1>25. ASSUME NEW w \in Workers, RecordChange(w) PROVE SubmittedInv'
  BY <1>25 DEF RecordChange
<1>26. ASSUME NEW w \in Workers, RecordReferences(w) PROVE SubmittedInv'
  BY <1>26 DEF RecordReferences
<1>27. ASSUME NEW w \in Workers, FailAttempt(w) PROVE SubmittedInv'
  BY <1>27 DEF FailAttempt, Fallible
<1>28. ASSUME NEW w \in Workers, Finish(w) PROVE SubmittedInv'
  BY <1>28 DEF Finish, HoldsLease
<1>29. ASSUME NEW w \in Workers, SettleFailure(w) PROVE SubmittedInv'
  BY <1>29 DEF SettleFailure, HoldsLease
<1>30. ASSUME NEW w \in Workers, SettleNothing(w) PROVE SubmittedInv'
  BY <1>30 DEF SettleNothing, Exit
<1>31. ASSUME NEW w \in Workers, ReleaseClaim(w) PROVE SubmittedInv'
  BY <1>31 DEF ReleaseClaim
<1>32. QED
  BY <1>1, <1>2, <1>3, <1>4, <1>5, <1>6, <1>7, <1>8, <1>9, <1>10, <1>11, <1>12, <1>13,
     <1>14, <1>15, <1>16, <1>17, <1>18, <1>19, <1>20, <1>21, <1>22, <1>23, <1>24,
     <1>25, <1>26, <1>27, <1>28, <1>29, <1>30, <1>31
     DEF Next, Maintain, Attempt

\* Reclaiming needs the lock the publisher holds; settling needs its lease.
LEMMA PublishStep ==
    ASSUME TypeOK, LockInv, LeaseInv, SubmittedInv, PublishUnderLease, Next
    PROVE  PublishUnderLease'
<1> USE DEF TypeOK, LockInv, LeaseInv, SubmittedInv, PublishUnderLease, HoldsLease,
            Critical, Working, Phases, Jobs, Unlocked, Raise, Leave, Forget
<1>1. ASSUME NEW o \in Ops, Submit(o) PROVE PublishUnderLease'
  BY <1>1 DEF Submit
<1>2. ASSUME NEW o \in Ops, Expire(o) PROVE PublishUnderLease'
  BY <1>2 DEF Expire
<1>3. ASSUME NEW o \in Ops, AdminRetry(o) PROVE PublishUnderLease'
  BY <1>3 DEF AdminRetry
<1>4. CASE ForeignPush BY <1>4 DEF ForeignPush
<1>5. ASSUME NEW p \in pushes, Land(p) PROVE PublishUnderLease'
  BY <1>5 DEF Land
<1>6. ASSUME NEW p \in pushes, Drop(p) PROVE PublishUnderLease'
  BY <1>6 DEF Drop
<1>7. ASSUME NEW w \in Workers, Start(w) PROVE PublishUnderLease'
  BY <1>7 DEF Start
<1>8. ASSUME NEW w \in Workers, Crash(w) PROVE PublishUnderLease'
  BY <1>8 DEF Crash, Exit
<1>9. ASSUME NEW w \in Workers, Interrupt(w) PROVE PublishUnderLease'
  BY <1>9 DEF Interrupt
<1>10. ASSUME NEW w \in Workers, TakeLock(w) PROVE PublishUnderLease'
  BY <1>10 DEF TakeLock
<1>11. ASSUME NEW w \in Workers, Reclaim(w) PROVE PublishUnderLease'
  BY <1>11 DEF Reclaim
<1>12. ASSUME NEW w \in Workers, Refresh(w) PROVE PublishUnderLease'
  BY <1>12 DEF Refresh
<1>13. ASSUME NEW w \in Workers, NEW o \in Ops, Claim(w, o) PROVE PublishUnderLease'
  BY <1>13, SMTT(30) DEF Claim
<1>14. ASSUME NEW w \in Workers, Prepare(w) PROVE PublishUnderLease'
  BY <1>14 DEF Prepare
<1>15. ASSUME NEW w \in Workers, Acquire(w) PROVE PublishUnderLease'
  BY <1>15 DEF Acquire
<1>16. ASSUME NEW w \in Workers, Busy(w) PROVE PublishUnderLease'
  BY <1>16 DEF Busy
<1>17. ASSUME NEW w \in Workers, Recover(w) PROVE PublishUnderLease'
  BY <1>17 DEF Recover
<1>18. ASSUME NEW w \in Workers, GiveUp(w) PROVE PublishUnderLease'
  BY <1>18 DEF GiveUp
<1>19. ASSUME NEW w \in Workers, StartFiling(w) PROVE PublishUnderLease'
  BY <1>19 DEF StartFiling
<1>20. ASSUME NEW w \in Workers, NothingToChange(w) PROVE PublishUnderLease'
  BY <1>20 DEF NothingToChange
<1>21. ASSUME NEW w \in Workers, CheckLease(w) PROVE PublishUnderLease'
  BY <1>21 DEF CheckLease
<1>22. ASSUME NEW w \in Workers, LoseLease(w) PROVE PublishUnderLease'
  BY <1>22 DEF LoseLease, Exit
<1>23. ASSUME NEW w \in Workers, Push(w) PROVE PublishUnderLease'
  BY <1>23 DEF Push
<1>24. ASSUME NEW w \in Workers, Accepted(w) PROVE PublishUnderLease'
  BY <1>24 DEF Accepted
<1>25. ASSUME NEW w \in Workers, RecordChange(w) PROVE PublishUnderLease'
  BY <1>25 DEF RecordChange
<1>26. ASSUME NEW w \in Workers, RecordReferences(w) PROVE PublishUnderLease'
  BY <1>26 DEF RecordReferences
<1>27. ASSUME NEW w \in Workers, FailAttempt(w) PROVE PublishUnderLease'
  BY <1>27 DEF FailAttempt
<1>28. ASSUME NEW w \in Workers, Finish(w) PROVE PublishUnderLease'
  <2> DEFINE o == job[w].op
  <2>1. /\ o \in Ops /\ pc[w] \in Working
        /\ \A q \in Ops \ {o} : /\ status'[q] = status[q]
                                /\ attempts'[q] = attempts[q]
                                /\ lease'[q] = lease[q]
        /\ \A v \in Workers \ {w} : pc'[v] = pc[v] /\ job'[v] = job[v]
        /\ pc'[w] \notin {"publishing", "pushing"}
    <3>1. o \in Ops /\ pc[w] \in Working
      BY <1>28 DEF Finish
    <3>2. \A q \in Ops \ {o} : /\ status'[q] = status[q]
                               /\ attempts'[q] = attempts[q]
                               /\ lease'[q] = lease[q]
      BY <1>28, <3>1 DEF Finish
    <3>3. \A v \in Workers \ {w} : pc'[v] = pc[v] /\ job'[v] = job[v]
      BY <1>28 DEF Finish
    <3>4. pc'[w] \notin {"publishing", "pushing"}
      BY <1>28 DEF Finish
    <3>5. QED BY <3>1, <3>2, <3>3, <3>4
  <2>2. lease[o] = job[w].lease
    BY <1>28 DEF Finish
  <2>3. ASSUME NEW v \in Workers, pc'[v] \in {"publishing", "pushing"}
        PROVE  HoldsLease(v)'
    <3>1. v # w /\ pc[v] \in {"publishing", "pushing"} /\ job'[v] = job[v] BY <2>1, <2>3
    <3>2. HoldsLease(v) /\ pc[v] \in Working /\ job[v].op \in Ops BY <3>1
    <3>a. job[v].lease = job[w].lease => v = w BY <2>1, <3>2
    <3> HIDE DEF TypeOK, LockInv, LeaseInv, SubmittedInv, PublishUnderLease, Working, Phases, Jobs
    <3>3. job[v].op # o BY <2>2, <3>1, <3>2, <3>a
    <3>4. QED BY <2>1, <3>1, <3>2, <3>3
  <2>4. QED BY <2>3
<1>29. ASSUME NEW w \in Workers, SettleFailure(w) PROVE PublishUnderLease'
  <2> DEFINE o == job[w].op
  <2>1. /\ o \in Ops /\ pc[w] \in Working
        /\ \A q \in Ops \ {o} : /\ status'[q] = status[q]
                                /\ attempts'[q] = attempts[q]
                                /\ lease'[q] = lease[q]
        /\ \A v \in Workers \ {w} : pc'[v] = pc[v] /\ job'[v] = job[v]
        /\ pc'[w] \notin {"publishing", "pushing"}
    <3>1. o \in Ops /\ pc[w] \in Working
      BY <1>29 DEF SettleFailure
    <3>2. \A q \in Ops \ {o} : /\ status'[q] = status[q]
                               /\ attempts'[q] = attempts[q]
                               /\ lease'[q] = lease[q]
      BY <1>29, <3>1 DEF SettleFailure
    <3>3. \A v \in Workers \ {w} : pc'[v] = pc[v] /\ job'[v] = job[v]
      BY <1>29 DEF SettleFailure
    <3>4. pc'[w] \notin {"publishing", "pushing"}
      BY <1>29 DEF SettleFailure
    <3>5. QED BY <3>1, <3>2, <3>3, <3>4
  <2>2. lease[o] = job[w].lease
    BY <1>29 DEF SettleFailure
  <2>3. ASSUME NEW v \in Workers, pc'[v] \in {"publishing", "pushing"}
        PROVE  HoldsLease(v)'
    <3>1. v # w /\ pc[v] \in {"publishing", "pushing"} /\ job'[v] = job[v] BY <2>1, <2>3
    <3>2. HoldsLease(v) /\ pc[v] \in Working /\ job[v].op \in Ops BY <3>1
    <3>a. job[v].lease = job[w].lease => v = w BY <2>1, <3>2
    <3> HIDE DEF TypeOK, LockInv, LeaseInv, SubmittedInv, PublishUnderLease, Working, Phases, Jobs
    <3>3. job[v].op # o BY <2>2, <3>1, <3>2, <3>a
    <3>4. QED BY <2>1, <3>1, <3>2, <3>3
  <2>4. QED BY <2>3
<1>30. ASSUME NEW w \in Workers, SettleNothing(w) PROVE PublishUnderLease'
  BY <1>30 DEF SettleNothing, Exit
<1>31. ASSUME NEW w \in Workers, ReleaseClaim(w) PROVE PublishUnderLease'
  <2> DEFINE o == job[w].op
  <2>1. /\ o \in Ops /\ pc[w] \in Working
        /\ \A q \in Ops \ {o} : /\ status'[q] = status[q]
                                /\ attempts'[q] = attempts[q]
                                /\ lease'[q] = lease[q]
        /\ \A v \in Workers \ {w} : pc'[v] = pc[v] /\ job'[v] = job[v]
        /\ pc'[w] \notin {"publishing", "pushing"}
    BY <1>31 DEF ReleaseClaim
  <2>2. lease[o] = job[w].lease \/ (status' = status /\ attempts' = attempts /\ lease' = lease)
    BY <1>31 DEF ReleaseClaim
  <2>3. ASSUME NEW v \in Workers, pc'[v] \in {"publishing", "pushing"}
        PROVE  HoldsLease(v)'
    <3>1. v # w /\ pc[v] \in {"publishing", "pushing"} /\ job'[v] = job[v] BY <2>1, <2>3
    <3>2. HoldsLease(v) /\ pc[v] \in Working /\ job[v].op \in Ops BY <3>1
    <3>a. job[v].lease = job[w].lease => v = w BY <2>1, <3>2
    <3> HIDE DEF TypeOK, LockInv, LeaseInv, SubmittedInv, PublishUnderLease, Working, Phases, Jobs
    <3>3. CASE lease[o] = job[w].lease
      <4>1. job[v].op # o BY <3>1, <3>2, <3>3, <3>a
      <4>2. QED BY <2>1, <3>1, <3>2, <4>1
    <3>4. CASE status' = status /\ attempts' = attempts /\ lease' = lease
      BY <3>1, <3>2, <3>4
    <3>5. QED BY <2>2, <3>3, <3>4
  <2>4. QED BY <2>3
<1>32. QED
  BY <1>1, <1>2, <1>3, <1>4, <1>5, <1>6, <1>7, <1>8, <1>9, <1>10, <1>11, <1>12, <1>13,
     <1>14, <1>15, <1>16, <1>17, <1>18, <1>19, <1>20, <1>21, <1>22, <1>23, <1>24,
     <1>25, <1>26, <1>27, <1>28, <1>29, <1>30, <1>31
     DEF Next, Maintain, Attempt

-----------------------------------------------------------------------------
(* History and both ledgers only grow, so a fact about published work stays *)
(* true; what is left of a step is what it takes up or puts down.          *)

Grows ==
    /\ Len(branch) <= Len(branch')
    /\ \A i \in DOMAIN branch : branch'[i] = branch[i]
    /\ changes \subseteq changes'
    /\ referenced \subseteq referenced'

LEMMA NextGrows == ASSUME branch \in Seq(Commits), Next PROVE Grows
<1> USE DEF Grows, Unlocked, Raise, Leave, Forget
<1>1. ASSUME NEW o \in Ops, Submit(o) PROVE Grows
  BY <1>1 DEF Submit
<1>2. ASSUME NEW o \in Ops, Expire(o) PROVE Grows
  BY <1>2 DEF Expire
<1>3. ASSUME NEW o \in Ops, AdminRetry(o) PROVE Grows
  BY <1>3 DEF AdminRetry
<1>4. CASE ForeignPush BY <1>4 DEF ForeignPush
<1>5. ASSUME NEW p \in pushes, Land(p) PROVE Grows
  BY <1>5 DEF Land
<1>6. ASSUME NEW p \in pushes, Drop(p) PROVE Grows
  BY <1>6 DEF Drop
<1>7. ASSUME NEW w \in Workers, Start(w) PROVE Grows
  BY <1>7 DEF Start
<1>8. ASSUME NEW w \in Workers, Crash(w) PROVE Grows
  BY <1>8 DEF Crash, Exit
<1>9. ASSUME NEW w \in Workers, Interrupt(w) PROVE Grows
  BY <1>9 DEF Interrupt
<1>10. ASSUME NEW w \in Workers, TakeLock(w) PROVE Grows
  BY <1>10 DEF TakeLock
<1>11. ASSUME NEW w \in Workers, Reclaim(w) PROVE Grows
  BY <1>11 DEF Reclaim
<1>12. ASSUME NEW w \in Workers, Refresh(w) PROVE Grows
  BY <1>12 DEF Refresh
<1>13. ASSUME NEW w \in Workers, NEW o \in Ops, Claim(w, o) PROVE Grows
  BY <1>13 DEF Claim
<1>14. ASSUME NEW w \in Workers, Prepare(w) PROVE Grows
  BY <1>14 DEF Prepare
<1>15. ASSUME NEW w \in Workers, Acquire(w) PROVE Grows
  BY <1>15 DEF Acquire
<1>16. ASSUME NEW w \in Workers, Busy(w) PROVE Grows
  BY <1>16 DEF Busy
<1>17. ASSUME NEW w \in Workers, Recover(w) PROVE Grows
  BY <1>17 DEF Recover
<1>18. ASSUME NEW w \in Workers, GiveUp(w) PROVE Grows
  BY <1>18 DEF GiveUp
<1>19. ASSUME NEW w \in Workers, StartFiling(w) PROVE Grows
  BY <1>19 DEF StartFiling
<1>20. ASSUME NEW w \in Workers, NothingToChange(w) PROVE Grows
  BY <1>20 DEF NothingToChange
<1>21. ASSUME NEW w \in Workers, CheckLease(w) PROVE Grows
  BY <1>21 DEF CheckLease
<1>22. ASSUME NEW w \in Workers, LoseLease(w) PROVE Grows
  BY <1>22 DEF LoseLease, Exit
<1>23. ASSUME NEW w \in Workers, Push(w) PROVE Grows
  BY <1>23 DEF Push
<1>24. ASSUME NEW w \in Workers, Accepted(w) PROVE Grows
  BY <1>24 DEF Accepted
<1>25. ASSUME NEW w \in Workers, RecordChange(w) PROVE Grows
  BY <1>25 DEF RecordChange
<1>26. ASSUME NEW w \in Workers, RecordReferences(w) PROVE Grows
  BY <1>26 DEF RecordReferences
<1>27. ASSUME NEW w \in Workers, FailAttempt(w) PROVE Grows
  BY <1>27 DEF FailAttempt
<1>28. ASSUME NEW w \in Workers, Finish(w) PROVE Grows
  BY <1>28 DEF Finish
<1>29. ASSUME NEW w \in Workers, SettleFailure(w) PROVE Grows
  BY <1>29 DEF SettleFailure
<1>30. ASSUME NEW w \in Workers, SettleNothing(w) PROVE Grows
  BY <1>30 DEF SettleNothing, Exit
<1>31. ASSUME NEW w \in Workers, ReleaseClaim(w) PROVE Grows
  BY <1>31 DEF ReleaseClaim
<1>32. QED
  BY <1>1, <1>2, <1>3, <1>4, <1>5, <1>6, <1>7, <1>8, <1>9, <1>10, <1>11, <1>12, <1>13,
     <1>14, <1>15, <1>16, <1>17, <1>18, <1>19, <1>20, <1>21, <1>22, <1>23, <1>24,
     <1>25, <1>26, <1>27, <1>28, <1>29, <1>30, <1>31
     DEF Next, Maintain, Attempt

\* A position of the history stays one, with its commit.
LEMMA PositionsStay ==
    ASSUME TypeOK, TypeOK', Grows
    PROVE  /\ Len(branch) \in Nat /\ Len(branch') \in Nat /\ Len(branch) <= Len(branch')
           /\ DOMAIN branch = 1..Len(branch) /\ DOMAIN branch' = 1..Len(branch')
           /\ \A i \in DOMAIN branch : i \in DOMAIN branch' /\ branch'[i] = branch[i]
<1>1. branch \in Seq(Commits) /\ branch' \in Seq(Commits) BY DEF TypeOK
<1>2. /\ Len(branch) \in Nat /\ DOMAIN branch = 1..Len(branch)
      /\ Len(branch') \in Nat /\ DOMAIN branch' = 1..Len(branch')
  BY <1>1
<1>3. QED BY <1>2 DEF Grows

LEMMA FreshGrows ==
    ASSUME TypeOK, TypeOK', Grows, NEW o, NEW n, Fresh(o, n)
    PROVE  Fresh(o, n)'
BY PositionsStay DEF Fresh, NoCommit

LEMMA SubstantiatedGrows ==
    ASSUME TypeOK, TypeOK', Grows, NEW o, NEW i, Substantiated(o, i)
    PROVE  Substantiated(o, i)'
BY PositionsStay DEF Substantiated, Grows

\* No filing starts and no push goes out in this step, and a checkout moves only
\* to the tip, or with its process.
FilesNothing ==
    /\ pushes' \subseteq pushes
    /\ \A w \in Workers : pc'[w] \in {"filing", "publishing"} =>
          pc[w] \in {"filing", "publishing"} /\ job'[w] = job[w] /\ base'[w] = base[w]
    /\ \A w \in Workers : checkout'[w] \in {checkout[w], Len(branch), 0}

LEMMA NextFilesNothing ==
    ASSUME TypeOK, Next
    PROVE  \/ FilesNothing
           \/ \E w \in Workers : StartFiling(w)
           \/ \E w \in Workers : Push(w)
<1> USE DEF TypeOK, FilesNothing, Working, Unlocked, Raise, Leave, Forget
<1>1. ASSUME NEW o \in Ops, Submit(o) PROVE FilesNothing
  BY <1>1 DEF Submit
<1>2. ASSUME NEW o \in Ops, Expire(o) PROVE FilesNothing
  BY <1>2 DEF Expire
<1>3. ASSUME NEW o \in Ops, AdminRetry(o) PROVE FilesNothing
  BY <1>3 DEF AdminRetry
<1>4. CASE ForeignPush BY <1>4 DEF ForeignPush
<1>5. ASSUME NEW p \in pushes, Land(p) PROVE FilesNothing
  BY <1>5 DEF Land
<1>6. ASSUME NEW p \in pushes, Drop(p) PROVE FilesNothing
  BY <1>6 DEF Drop
<1>7. ASSUME NEW w \in Workers, Start(w) PROVE FilesNothing
  BY <1>7 DEF Start
<1>8. ASSUME NEW w \in Workers, Crash(w) PROVE FilesNothing
  BY <1>8 DEF Crash, Exit
<1>9. ASSUME NEW w \in Workers, Interrupt(w) PROVE FilesNothing
  BY <1>9 DEF Interrupt
<1>10. ASSUME NEW w \in Workers, TakeLock(w) PROVE FilesNothing
  BY <1>10 DEF TakeLock
<1>11. ASSUME NEW w \in Workers, Reclaim(w) PROVE FilesNothing
  BY <1>11 DEF Reclaim
<1>12. ASSUME NEW w \in Workers, Refresh(w) PROVE FilesNothing
  BY <1>12 DEF Refresh
<1>13. ASSUME NEW w \in Workers, NEW o \in Ops, Claim(w, o) PROVE FilesNothing
  BY <1>13 DEF Claim
<1>14. ASSUME NEW w \in Workers, Prepare(w) PROVE FilesNothing
  BY <1>14 DEF Prepare
<1>15. ASSUME NEW w \in Workers, Acquire(w) PROVE FilesNothing
  BY <1>15 DEF Acquire
<1>16. ASSUME NEW w \in Workers, Busy(w) PROVE FilesNothing
  BY <1>16 DEF Busy
<1>17. ASSUME NEW w \in Workers, Recover(w) PROVE FilesNothing
  BY <1>17 DEF Recover
<1>18. ASSUME NEW w \in Workers, GiveUp(w) PROVE FilesNothing
  BY <1>18 DEF GiveUp
<1>19. ASSUME NEW w \in Workers, NothingToChange(w) PROVE FilesNothing
  BY <1>19 DEF NothingToChange
<1>20. ASSUME NEW w \in Workers, CheckLease(w) PROVE FilesNothing
  BY <1>20 DEF CheckLease
<1>21. ASSUME NEW w \in Workers, LoseLease(w) PROVE FilesNothing
  BY <1>21 DEF LoseLease, Exit
<1>22. ASSUME NEW w \in Workers, Accepted(w) PROVE FilesNothing
  BY <1>22 DEF Accepted
<1>23. ASSUME NEW w \in Workers, RecordChange(w) PROVE FilesNothing
  BY <1>23 DEF RecordChange
<1>24. ASSUME NEW w \in Workers, RecordReferences(w) PROVE FilesNothing
  BY <1>24 DEF RecordReferences
<1>25. ASSUME NEW w \in Workers, FailAttempt(w) PROVE FilesNothing
  BY <1>25 DEF FailAttempt
<1>26. ASSUME NEW w \in Workers, Finish(w) PROVE FilesNothing
  BY <1>26 DEF Finish
<1>27. ASSUME NEW w \in Workers, SettleFailure(w) PROVE FilesNothing
  BY <1>27 DEF SettleFailure
<1>28. ASSUME NEW w \in Workers, SettleNothing(w) PROVE FilesNothing
  BY <1>28 DEF SettleNothing, Exit
<1>29. ASSUME NEW w \in Workers, ReleaseClaim(w) PROVE FilesNothing
  BY <1>29 DEF ReleaseClaim
<1>30. QED
  BY <1>1, <1>2, <1>3, <1>4, <1>5, <1>6, <1>7, <1>8, <1>9, <1>10, <1>11, <1>12, <1>13,
     <1>14, <1>15, <1>16, <1>17, <1>18, <1>19, <1>20, <1>21, <1>22, <1>23, <1>24,
     <1>25, <1>26, <1>27, <1>28, <1>29
     DEF Next, Maintain, Attempt

\* No process takes up or advances published work in this step.
PublishesNothing ==
    \A w \in Workers : pc'[w] \in {"recording", "referencing", "finishing"} =>
          pc'[w] = pc[w] /\ job'[w] = job[w] /\ commitAt'[w] = commitAt[w]

LEMMA NextPublishesNothing ==
    ASSUME TypeOK, Next
    PROVE  \/ PublishesNothing
           \/ \E w \in Workers : Recover(w)
           \/ \E w \in Workers : NothingToChange(w)
           \/ \E w \in Workers : Accepted(w)
           \/ \E w \in Workers : RecordChange(w)
           \/ \E w \in Workers : RecordReferences(w)
<1> USE DEF TypeOK, PublishesNothing, Working, Unlocked, Raise, Leave, Forget
<1>1. ASSUME NEW o \in Ops, Submit(o) PROVE PublishesNothing
  BY <1>1 DEF Submit
<1>2. ASSUME NEW o \in Ops, Expire(o) PROVE PublishesNothing
  BY <1>2 DEF Expire
<1>3. ASSUME NEW o \in Ops, AdminRetry(o) PROVE PublishesNothing
  BY <1>3 DEF AdminRetry
<1>4. CASE ForeignPush BY <1>4 DEF ForeignPush
<1>5. ASSUME NEW p \in pushes, Land(p) PROVE PublishesNothing
  BY <1>5 DEF Land
<1>6. ASSUME NEW p \in pushes, Drop(p) PROVE PublishesNothing
  BY <1>6 DEF Drop
<1>7. ASSUME NEW w \in Workers, Start(w) PROVE PublishesNothing
  BY <1>7 DEF Start
<1>8. ASSUME NEW w \in Workers, Crash(w) PROVE PublishesNothing
  BY <1>8 DEF Crash, Exit
<1>9. ASSUME NEW w \in Workers, Interrupt(w) PROVE PublishesNothing
  BY <1>9 DEF Interrupt
<1>10. ASSUME NEW w \in Workers, TakeLock(w) PROVE PublishesNothing
  BY <1>10 DEF TakeLock
<1>11. ASSUME NEW w \in Workers, Reclaim(w) PROVE PublishesNothing
  BY <1>11 DEF Reclaim
<1>12. ASSUME NEW w \in Workers, Refresh(w) PROVE PublishesNothing
  BY <1>12 DEF Refresh
<1>13. ASSUME NEW w \in Workers, NEW o \in Ops, Claim(w, o) PROVE PublishesNothing
  BY <1>13 DEF Claim
<1>14. ASSUME NEW w \in Workers, Prepare(w) PROVE PublishesNothing
  BY <1>14 DEF Prepare
<1>15. ASSUME NEW w \in Workers, Acquire(w) PROVE PublishesNothing
  BY <1>15 DEF Acquire
<1>16. ASSUME NEW w \in Workers, Busy(w) PROVE PublishesNothing
  BY <1>16 DEF Busy
<1>17. ASSUME NEW w \in Workers, GiveUp(w) PROVE PublishesNothing
  BY <1>17 DEF GiveUp
<1>18. ASSUME NEW w \in Workers, StartFiling(w) PROVE PublishesNothing
  BY <1>18 DEF StartFiling
<1>19. ASSUME NEW w \in Workers, CheckLease(w) PROVE PublishesNothing
  BY <1>19 DEF CheckLease
<1>20. ASSUME NEW w \in Workers, LoseLease(w) PROVE PublishesNothing
  BY <1>20 DEF LoseLease, Exit
<1>21. ASSUME NEW w \in Workers, Push(w) PROVE PublishesNothing
  BY <1>21 DEF Push
<1>22. ASSUME NEW w \in Workers, FailAttempt(w) PROVE PublishesNothing
  BY <1>22 DEF FailAttempt
<1>23. ASSUME NEW w \in Workers, Finish(w) PROVE PublishesNothing
  BY <1>23 DEF Finish
<1>24. ASSUME NEW w \in Workers, SettleFailure(w) PROVE PublishesNothing
  BY <1>24 DEF SettleFailure
<1>25. ASSUME NEW w \in Workers, SettleNothing(w) PROVE PublishesNothing
  BY <1>25 DEF SettleNothing, Exit
<1>26. ASSUME NEW w \in Workers, ReleaseClaim(w) PROVE PublishesNothing
  BY <1>26 DEF ReleaseClaim
<1>27. QED
  BY <1>1, <1>2, <1>3, <1>4, <1>5, <1>6, <1>7, <1>8, <1>9, <1>10, <1>11, <1>12, <1>13,
     <1>14, <1>15, <1>16, <1>17, <1>18, <1>19, <1>20, <1>21, <1>22, <1>23, <1>24,
     <1>25, <1>26
     DEF Next, Maintain, Attempt

\* No row becomes landed in this step.
LandsNothing ==
    \A o \in Ops : status'[o] = "landed" =>
          status[o] = "landed" /\ landedAt'[o] = landedAt[o]

LEMMA NextLandsNothing ==
    ASSUME TypeOK, Next
    PROVE  LandsNothing
           \/ \E w \in Workers : Finish(w)
<1> USE DEF TypeOK, LandsNothing, Working, Unlocked, Raise, Leave, Forget
<1>1. ASSUME NEW o \in Ops, Submit(o) PROVE LandsNothing
  BY <1>1 DEF Submit
<1>2. ASSUME NEW o \in Ops, Expire(o) PROVE LandsNothing
  BY <1>2 DEF Expire
<1>3. ASSUME NEW o \in Ops, AdminRetry(o) PROVE LandsNothing
  BY <1>3 DEF AdminRetry
<1>4. CASE ForeignPush BY <1>4 DEF ForeignPush
<1>5. ASSUME NEW p \in pushes, Land(p) PROVE LandsNothing
  BY <1>5 DEF Land
<1>6. ASSUME NEW p \in pushes, Drop(p) PROVE LandsNothing
  BY <1>6 DEF Drop
<1>7. ASSUME NEW w \in Workers, Start(w) PROVE LandsNothing
  BY <1>7 DEF Start
<1>8. ASSUME NEW w \in Workers, Crash(w) PROVE LandsNothing
  BY <1>8 DEF Crash, Exit
<1>9. ASSUME NEW w \in Workers, Interrupt(w) PROVE LandsNothing
  BY <1>9 DEF Interrupt
<1>10. ASSUME NEW w \in Workers, TakeLock(w) PROVE LandsNothing
  BY <1>10 DEF TakeLock
<1>11. ASSUME NEW w \in Workers, Reclaim(w) PROVE LandsNothing
  BY <1>11 DEF Reclaim
<1>12. ASSUME NEW w \in Workers, Refresh(w) PROVE LandsNothing
  BY <1>12 DEF Refresh
<1>13. ASSUME NEW w \in Workers, NEW o \in Ops, Claim(w, o) PROVE LandsNothing
  BY <1>13 DEF Claim
<1>14. ASSUME NEW w \in Workers, Prepare(w) PROVE LandsNothing
  BY <1>14 DEF Prepare
<1>15. ASSUME NEW w \in Workers, Acquire(w) PROVE LandsNothing
  BY <1>15 DEF Acquire
<1>16. ASSUME NEW w \in Workers, Busy(w) PROVE LandsNothing
  BY <1>16 DEF Busy
<1>17. ASSUME NEW w \in Workers, Recover(w) PROVE LandsNothing
  BY <1>17 DEF Recover
<1>18. ASSUME NEW w \in Workers, GiveUp(w) PROVE LandsNothing
  BY <1>18 DEF GiveUp
<1>19. ASSUME NEW w \in Workers, StartFiling(w) PROVE LandsNothing
  BY <1>19 DEF StartFiling
<1>20. ASSUME NEW w \in Workers, NothingToChange(w) PROVE LandsNothing
  BY <1>20 DEF NothingToChange
<1>21. ASSUME NEW w \in Workers, CheckLease(w) PROVE LandsNothing
  BY <1>21 DEF CheckLease
<1>22. ASSUME NEW w \in Workers, LoseLease(w) PROVE LandsNothing
  BY <1>22 DEF LoseLease, Exit
<1>23. ASSUME NEW w \in Workers, Push(w) PROVE LandsNothing
  BY <1>23 DEF Push
<1>24. ASSUME NEW w \in Workers, Accepted(w) PROVE LandsNothing
  BY <1>24 DEF Accepted
<1>25. ASSUME NEW w \in Workers, RecordChange(w) PROVE LandsNothing
  BY <1>25 DEF RecordChange
<1>26. ASSUME NEW w \in Workers, RecordReferences(w) PROVE LandsNothing
  BY <1>26 DEF RecordReferences
<1>27. ASSUME NEW w \in Workers, FailAttempt(w) PROVE LandsNothing
  BY <1>27 DEF FailAttempt
<1>28. ASSUME NEW w \in Workers, SettleFailure(w) PROVE LandsNothing
  BY <1>28 DEF SettleFailure
<1>29. ASSUME NEW w \in Workers, SettleNothing(w) PROVE LandsNothing
  BY <1>29 DEF SettleNothing, Exit
<1>30. ASSUME NEW w \in Workers, ReleaseClaim(w) PROVE LandsNothing
  BY <1>30 DEF ReleaseClaim
<1>31. QED
  BY <1>1, <1>2, <1>3, <1>4, <1>5, <1>6, <1>7, <1>8, <1>9, <1>10, <1>11, <1>12, <1>13,
     <1>14, <1>15, <1>16, <1>17, <1>18, <1>19, <1>20, <1>21, <1>22, <1>23, <1>24,
     <1>25, <1>26, <1>27, <1>28, <1>29, <1>30
     DEF Next, Maintain, Attempt

\* A filing starts where its operation has no commit, and its push is made there.
LEMMA FreshStep ==
    ASSUME TypeOK, TypeOK', Grows, FreshInv, Next
    PROVE  FreshInv'
<1> DEFINE StillFresh(o, n) == n \in 0..Len(branch') /\ \A i \in 1..n : branch'[i].op # o
<1>1. ASSUME NEW p \in pushes PROVE StillFresh(p.op, p.base)
  BY FreshGrows DEF FreshInv, TypeOK, Pushes, Fresh, NoCommit
<1>2. ASSUME NEW w \in Workers, pc[w] \in {"filing", "publishing"}
      PROVE  StillFresh(job[w].op, base[w]) /\ Fresh(job[w].op, base[w]) /\ job[w].op \in Ops
  <2>1. job[w] \in Jobs /\ base[w] \in Nat BY <1>2 DEF TypeOK, Working, Phases
  <2>2. job[w].op \in Ops /\ Fresh(job[w].op, base[w]) BY <1>2, <2>1 DEF FreshInv, Jobs
  <2>3. QED BY <2>1, <2>2, FreshGrows DEF Fresh, NoCommit
<1>3. \A w \in Workers : checkout[w] \in 0..Len(branch) BY DEF TypeOK, FreshInv
<1>4. Len(branch) \in Nat /\ Len(branch') \in Nat /\ Len(branch) <= Len(branch')
  BY SMTT(30) DEF TypeOK, Grows
<1> USE DEF Fresh, NoCommit
<1>5. CASE FilesNothing
  <2>1. \A p \in pushes' : StillFresh(p.op, p.base) BY <1>1, <1>5 DEF FilesNothing
  <2>2. ASSUME NEW w \in Workers, pc'[w] \in {"filing", "publishing"}
        PROVE  StillFresh(job'[w].op, base'[w])
    BY <1>2, <1>5, <2>2 DEF FilesNothing
  <2>3. \A w \in Workers : checkout'[w] <= Len(branch')
    BY <1>3, <1>4, <1>5 DEF FilesNothing
  <2>4. QED BY <2>1, <2>2, <2>3 DEF FreshInv
<1>6. ASSUME NEW w \in Workers, StartFiling(w) PROVE FreshInv'
  <2>1. /\ branch' = branch /\ pushes' = pushes /\ job' = job /\ checkout' = checkout
        /\ \A v \in Workers \ {w} : pc'[v] = pc[v] /\ base'[v] = base[v]
    BY <1>6 DEF StartFiling, TypeOK
  <2>2. Fresh(job[w].op, base'[w])
    BY <1>3, <1>4, <1>6 DEF StartFiling, Tips, TypeOK
  <2>3. QED BY <2>1, <2>2, <1>2 DEF FreshInv
<1>7. ASSUME NEW w \in Workers, Push(w) PROVE FreshInv'
  <2>1. /\ branch' = branch /\ job' = job /\ checkout' = checkout /\ base' = base
        /\ \A v \in Workers : pc'[v] \in {"filing", "publishing"} => pc[v] = pc'[v]
    BY <1>7 DEF Push, TypeOK
  <2>2. \A p \in pushes' : p \in pushes \/ (p.op = job[w].op /\ p.base = base[w])
    BY <1>7 DEF Push
  <2>3. Fresh(job[w].op, base[w]) BY <1>2, <1>7 DEF Push
  <2>4. \A p \in pushes' : Fresh(p.op, p.base) BY <2>2, <2>3 DEF FreshInv
  <2>5. QED BY <2>1, <2>4 DEF FreshInv
<1>8. QED BY <1>5, <1>6, <1>7, NextFilesNothing

\* A push takes effect only on the very history its filing found free of commits.
LEMMA OneCommitStep ==
    ASSUME TypeOK, FreshInv, AtMostOneCommit, Foreign \notin Ops, Next
    PROVE  AtMostOneCommit'
<1>1. CASE branch' = branch BY <1>1 DEF AtMostOneCommit
<1>2. ASSUME NEW c \in Commits, branch' = Append(branch, c),
             c.op # Foreign => \A i \in DOMAIN branch : branch[i].op # c.op
      PROVE  AtMostOneCommit'
  <2>1. DOMAIN branch' = DOMAIN branch \cup {Len(branch) + 1} /\ Len(branch) + 1 \notin DOMAIN branch
    BY <1>2 DEF TypeOK
  <2>2. branch'[Len(branch) + 1] = c /\ \A i \in DOMAIN branch : branch'[i] = branch[i]
    BY <1>2 DEF TypeOK
  <2>3. QED BY <1>2, <2>1, <2>2 DEF AtMostOneCommit
<1>3. CASE ForeignPush
  BY <1>2, <1>3 DEF ForeignPush, Commits
<1>4. ASSUME NEW p \in pushes, Land(p) PROVE AtMostOneCommit'
  <2>1. p \in Pushes /\ [op |-> p.op, lease |-> p.lease] \in Commits
    BY DEF TypeOK, Pushes, Commits
  <2>2. Fresh(p.op, p.base) /\ p.base = Len(branch)
    BY <1>4 DEF Land, FreshInv
  <2>3. \A i \in DOMAIN branch : branch[i].op # p.op
    <3>1. branch \in Seq(Commits) BY DEF TypeOK
    <3>2. DOMAIN branch = 1..Len(branch) BY <3>1
    <3>3. QED BY <2>2, <3>2 DEF Fresh, NoCommit
  <2>4. QED BY <1>2, <1>4, <2>1, <2>3 DEF Land
<1>5. branch' = branch \/ ForeignPush \/ \E p \in pushes : Land(p)
  <2>1. ASSUME NEW w \in Workers, Attempt(w) PROVE branch' = branch
    BY <2>1 DEF Attempt, Claim, Prepare, Acquire, Busy, Recover, GiveUp, StartFiling,
       NothingToChange, CheckLease, LoseLease, Exit, Push, Accepted, RecordChange,
       RecordReferences, FailAttempt, Raise, Finish, SettleFailure, SettleNothing,
       ReleaseClaim, Leave, gitVars
  <2>2. ASSUME NEW w \in Workers, Start(w) \/ Crash(w) \/ Interrupt(w) \/ Maintain(w)
        PROVE  branch' = branch
    BY <2>2 DEF Start, Crash, Exit, Interrupt, Maintain, TakeLock, Reclaim, Refresh, gitVars
  <2>3. ASSUME NEW o \in Ops, Submit(o) \/ Expire(o) \/ AdminRetry(o) PROVE branch' = branch
    BY <2>3 DEF Submit, Expire, AdminRetry, gitVars
  <2>4. ASSUME NEW p \in pushes, Drop(p) PROVE branch' = branch
    BY <2>4 DEF Drop
  <2>5. QED BY <2>1, <2>2, <2>3, <2>4 DEF Next
<1>6. QED BY <1>1, <1>3, <1>4, <1>5

\* Each phase after publication adds one durable fact and loses none.
LEMMA DurableStep ==
    ASSUME TypeOK, TypeOK', Grows, FreshInv, DurableInv, Next
    PROVE  DurableInv'
<1> DEFINE Own(o, i) == i \in DOMAIN branch /\ branch[i].op = o
           StillOwn(o, i) == i \in DOMAIN branch' /\ branch'[i].op = o
           Still(o, i) == \/ /\ StillOwn(o, i)
                             /\ i \in changes'
                             /\ o \in Captures => o \in referenced'
                          \/ i = 0 /\ o \in Gardens
           Durable(w, phase, o, i) ==
               /\ phase \in {"recording", "referencing"} => StillOwn(o, i)
               /\ phase = "referencing" => i \in changes'
               /\ phase = "finishing" => Still(o, i)
<1>1. ASSUME NEW o, NEW i, Own(o, i) PROVE StillOwn(o, i)
  BY <1>1, PositionsStay
<1>2. ASSUME NEW o, NEW i, Substantiated(o, i) PROVE Still(o, i)
  BY <1>1, <1>2 DEF Substantiated, Grows
<1>3. ASSUME NEW w \in Workers, pc'[w] = pc[w], job'[w] = job[w], commitAt'[w] = commitAt[w]
      PROVE  Durable(w, pc'[w], job'[w].op, commitAt'[w])
  BY <1>1, <1>2, <1>3 DEF DurableInv, Grows
<1>4. SUFFICES ASSUME NEW w \in Workers
               PROVE  Durable(w, pc'[w], job'[w].op, commitAt'[w])
  BY DEF DurableInv, Substantiated
<1> HIDE DEF Own, StillOwn, Still
<1>5. CASE PublishesNothing BY <1>3, <1>5 DEF PublishesNothing
<1>6. ASSUME NEW v \in Workers,
             Recover(v) \/ NothingToChange(v) \/ Accepted(v) \/ RecordChange(v) \/ RecordReferences(v)
      PROVE  Durable(w, pc'[w], job'[w].op, commitAt'[w])
  <2>1. CASE w # v
    <3>1. pc'[w] = pc[w] /\ job'[w] = job[w] /\ commitAt'[w] = commitAt[w]
      BY <1>6, <2>1
         DEF TypeOK, Recover, NothingToChange, Accepted, RecordChange, RecordReferences
    <3>2. QED BY <1>3, <3>1
  <2>2. ASSUME w = v, Recover(v) PROVE Durable(w, pc'[w], job'[w].op, commitAt'[w])
    <3>1. PICK n \in Tips(v) : \E i \in 1..n :
             LastCommit(job[v].op, n, i) /\ commitAt' = [commitAt EXCEPT ![v] = i]
      BY <2>2 DEF Recover
    <3>2. pc'[v] = "recording" /\ job' = job BY <2>2 DEF Recover, TypeOK
    <3>3. n \in 0..Len(branch)
      <4>1. checkout[v] \in Nat /\ checkout[v] <= Len(branch) BY DEF TypeOK, FreshInv
      <4>2. QED BY <4>1, PositionsStay DEF Tips
    <3>4. commitAt'[v] \in 1..n /\ branch[commitAt'[v]].op = job[v].op
      BY <3>1 DEF LastCommit, TypeOK
    <3>5. commitAt'[v] \in DOMAIN branch BY <3>3, <3>4, PositionsStay
    <3>6. Own(job[v].op, commitAt'[v]) BY <3>4, <3>5 DEF Own
    <3>7. QED BY <1>1, <2>2, <3>2, <3>6
  <2>3. ASSUME w = v, NothingToChange(v) PROVE Durable(w, pc'[w], job'[w].op, commitAt'[w])
    BY <2>3 DEF NothingToChange, TypeOK, Still
  <2>4. ASSUME w = v, Accepted(v) PROVE Durable(w, pc'[w], job'[w].op, commitAt'[w])
    BY <2>4 DEF Accepted, TypeOK, StillOwn
  <2>5. ASSUME w = v, RecordChange(v) PROVE Durable(w, pc'[w], job'[w].op, commitAt'[w])
    BY <2>5 DEF RecordChange, TypeOK, DurableInv, StillOwn
  <2>6. ASSUME w = v, RecordReferences(v) PROVE Durable(w, pc'[w], job'[w].op, commitAt'[w])
    BY <2>6 DEF RecordReferences, TypeOK, DurableInv, StillOwn, Still
  <2>7. QED BY <1>6, <2>1, <2>2, <2>3, <2>4, <2>5, <2>6
<1>7. QED BY <1>5, <1>6, NextPublishesNothing

\* Only the settled claim lands, with what its process made durable.
LEMMA LandedStep ==
    ASSUME TypeOK, TypeOK', Grows, DurableInv, LandedIsSubstantiated, Next
    PROVE  LandedIsSubstantiated'
<1> DEFINE Still(o, i) == \/ /\ i \in DOMAIN branch'
                             /\ branch'[i].op = o
                             /\ i \in changes'
                             /\ o \in Captures => o \in referenced'
                          \/ i = 0 /\ o \in Gardens
<1>1. ASSUME NEW o \in Ops, NEW i \in Nat, Substantiated(o, i) PROVE Still(o, i)
  BY <1>1, SubstantiatedGrows DEF Substantiated
<1>2. CASE LandsNothing
  BY <1>1, <1>2 DEF LandsNothing, LandedIsSubstantiated, Substantiated, TypeOK
<1>3. ASSUME NEW w \in Workers, Finish(w) PROVE LandedIsSubstantiated'
  <2>1. job[w].op \in Ops /\ commitAt[w] \in Nat
    BY <1>3 DEF Finish, TypeOK, Working, Phases, Jobs
  <2>2. Still(job[w].op, commitAt[w]) BY <1>1, <1>3, <2>1 DEF Finish, DurableInv
  <2>3. ASSUME NEW o \in Ops, status'[o] = "landed" PROVE Still(o, landedAt'[o])
    <3>1. CASE o = job[w].op BY <1>3, <2>2, <3>1 DEF Finish, TypeOK
    <3>2. CASE o # job[w].op
      <4>1. status[o] = "landed" /\ landedAt'[o] = landedAt[o] /\ landedAt[o] \in Nat
        BY <1>3, <2>3, <3>2 DEF Finish, TypeOK
      <4>2. QED BY <1>1, <4>1 DEF LandedIsSubstantiated
    <3>3. QED BY <3>1, <3>2
  <2>4. QED BY <2>3 DEF LandedIsSubstantiated, Substantiated
<1>4. QED BY <1>2, <1>3, NextLandsNothing

LEMMA InitInductive == ASSUME ConstantsAssumption, Init PROVE Inductive
<1>1. TypeOK BY InitType
<1>2. QED
  BY <1>1 DEF Init, Inductive, LockInv, FreshInv, DurableInv, LeaseInv, SubmittedInv,
      AtMostOneCommit, LandedIsSubstantiated, PublishUnderLease, Critical, Working, Phases

LEMMA InductiveStep == ASSUME ConstantsAssumption, Inductive, [Next]_vars PROVE Inductive'
<1>1. NoWorker \notin Workers /\ Foreign \notin Ops BY DEF ConstantsAssumption
<1>2. CASE Next
  <2>1. TypeOK' BY NextType DEF Inductive
  <2>2. Grows BY <1>2, NextGrows DEF Inductive, TypeOK
  <2>3. LockInv' BY <1>1, <1>2, LockStep DEF Inductive
  <2>4. FreshInv' BY <1>2, <2>1, <2>2, FreshStep DEF Inductive
  <2>5. DurableInv' BY <1>2, <2>1, <2>2, DurableStep DEF Inductive
  <2>6. LeaseInv' BY <1>2, LeaseStep DEF Inductive
  <2>7. SubmittedInv' BY <1>2, SubmittedStep DEF Inductive
  <2>8. AtMostOneCommit' BY <1>1, <1>2, OneCommitStep DEF Inductive
  <2>9. LandedIsSubstantiated' BY <1>2, <2>1, <2>2, LandedStep DEF Inductive
  <2>10. PublishUnderLease' BY <1>2, PublishStep DEF Inductive
  <2>11. QED BY <2>1, <2>3, <2>4, <2>5, <2>6, <2>7, <2>8, <2>9, <2>10 DEF Inductive
<1>3. CASE UNCHANGED vars
  BY <1>3 DEF vars, Inductive, TypeOK, LockInv, FreshInv, Fresh, NoCommit, DurableInv,
      LeaseInv, SubmittedInv, AtMostOneCommit, LandedIsSubstantiated, Substantiated,
      PublishUnderLease, HoldsLease
<1>4. QED BY <1>2, <1>3

\* The branch, the pushes under way, the processes and the queue rows agree in
\* every reachable state, for any number of operations, processes and failures.
THEOREM WriterInvariant == Spec => []Inductive
<1>1. Init => Inductive BY ConstantsAssumption, InitInductive
<1>2. Inductive /\ [Next]_vars => Inductive' BY ConstantsAssumption, InductiveStep
<1>3. QED BY <1>1, <1>2, PTL DEF Spec

\* No attempt, crash, stale checkout or late push publishes an operation twice.
THEOREM OneCommit == Spec => []AtMostOneCommit
<1>1. Inductive => AtMostOneCommit BY DEF Inductive
<1>2. QED BY <1>1, WriterInvariant, PTL

\* A row is reported landed only with its commit, its change record and its
\* evidence references already stored.
THEOREM LandedSubstantiated == Spec => []LandedIsSubstantiated
<1>1. Inductive => LandedIsSubstantiated BY DEF Inductive
<1>2. QED BY <1>1, WriterInvariant, PTL

\* A commit only goes out under the claim its process made, because reclaiming
\* an expired lease needs the lock the publisher holds.
THEOREM PublishedUnderLease == Spec => []PublishUnderLease
<1>1. Inductive => PublishUnderLease BY DEF Inductive
<1>2. QED BY <1>1, WriterInvariant, PTL


\* The refinement mapping of KnowledgeWriter.
Outcome == [o \in Ops |-> IF status[o] \in {"queued", "processing"} THEN "open"
                          ELSE status[o]]
History == [i \in DOMAIN branch |-> branch[i].op]

LEMMA HistoryAppends ==
    ASSUME TypeOK, NEW c \in Commits, branch' = Append(branch, c)
    PROVE  History' = Append(History, c.op)
<1> DEFINE Names == Ops \cup {Foreign}
<1>1. branch \in Seq(Commits) BY DEF TypeOK
<1>2. DOMAIN branch = 1..Len(branch) /\ Len(branch) \in Nat BY <1>1
<1>3. \A i \in 1..Len(branch) : branch[i].op \in Names
  <2>1. \A i \in 1..Len(branch) : branch[i] \in Commits BY <1>1, ElementOfSeq
  <2>2. \A d \in Commits : d.op \in Names BY DEF Commits
  <2>3. QED BY <2>1, <2>2
<1>4. History \in Seq(Names) /\ Len(History) = Len(branch)
  <2>1. History = [i \in 1..Len(branch) |-> branch[i].op] BY <1>2 DEF History
  <2>2. History \in [1..Len(branch) -> Names] BY <1>3, <2>1
  <2>3. QED BY <1>2, <2>2, SeqDef
<1>5. c.op \in Names BY DEF Commits
<1>6. /\ DOMAIN branch' = 1..(Len(branch) + 1)
      /\ \A i \in 1..Len(branch) : branch'[i] = branch[i]
      /\ branch'[Len(branch) + 1] = c
  BY <1>1, <1>2
<1>7. History' \in Seq(Names) /\ Len(History') = Len(branch) + 1
  <2>1. History' = [i \in 1..(Len(branch) + 1) |-> branch'[i].op] BY <1>6 DEF History
  <2>2. History' \in [1..(Len(branch) + 1) -> Names] BY <1>2, <1>3, <1>5, <1>6, <2>1
  <2>3. QED BY <1>2, <2>2, SeqDef
<1>8. /\ Append(History, c.op) \in Seq(Names)
      /\ Len(Append(History, c.op)) = Len(branch) + 1
      /\ \A i \in 1..Len(branch) : Append(History, c.op)[i] = History[i]
      /\ Append(History, c.op)[Len(branch) + 1] = c.op
  BY <1>4, <1>5, AppendProperties
<1>9. \A i \in 1..(Len(branch) + 1) : History'[i] = Append(History, c.op)[i]
  BY <1>2, <1>6, <1>8 DEF History
<1>10. QED BY <1>7, <1>8, <1>9, SeqEqual

\* What each step is to the ledger, in the vocabulary of the write path.
SeenStep ==
    \/ branch' = branch /\ changes' = changes /\ Outcome' = Outcome
    \/ branch' = branch /\ changes' = changes /\ \E o \in Ops :
          \/ Outcome[o] = "absent" /\ Outcome' = [Outcome EXCEPT ![o] = "open"]
          \/ Outcome[o] = "failed" /\ Outcome' = [Outcome EXCEPT ![o] = "open"]
          \/ /\ Outcome[o] = "open"
             /\ (\E i \in changes : i \in DOMAIN branch /\ branch[i].op = o) \/ o \in Gardens
             /\ Outcome' = [Outcome EXCEPT ![o] = "landed"]
    \/ /\ branch' = branch /\ changes' = changes
       /\ \E S \in SUBSET Ops :
             /\ \A o \in S : Outcome[o] = "open"
             /\ Outcome' = [o \in Ops |-> IF o \in S THEN "failed" ELSE Outcome[o]]
    \/ /\ branch' = branch /\ Outcome' = Outcome
       /\ \E i \in DOMAIN branch : branch[i].op \in Ops /\ changes' = changes \cup {i}
    \/ /\ changes' = changes /\ Outcome' = Outcome
       /\ \E c \in Commits :
             /\ branch' = Append(branch, c)
             /\ c.op # Foreign => /\ Outcome[c.op] # "absent"
                                  /\ \A i \in DOMAIN branch : branch[i].op # c.op

LEMMA SeenStepIsLedgerStep ==
    ASSUME TypeOK, SeenStep
    PROVE  [Ledger!LedgerNext]_(Ledger!ledgerVars)
<1>1. CASE branch' = branch /\ changes' = changes /\ Outcome' = Outcome
  BY <1>1 DEF Ledger!ledgerVars, Outcome
<1>2. ASSUME branch' = branch, changes' = changes, NEW o \in Ops,
             \/ Outcome[o] = "absent" /\ Outcome' = [Outcome EXCEPT ![o] = "open"]
             \/ Outcome[o] = "failed" /\ Outcome' = [Outcome EXCEPT ![o] = "open"]
             \/ /\ Outcome[o] = "open"
                /\ (\E i \in changes : i \in DOMAIN branch /\ branch[i].op = o) \/ o \in Gardens
                /\ Outcome' = [Outcome EXCEPT ![o] = "landed"]
      PROVE  Ledger!LedgerNext
  <2>1. CASE Outcome[o] = "absent" /\ Outcome' = [Outcome EXCEPT ![o] = "open"]
    <3>1. Ledger!Accept(o) BY <1>2, <2>1 DEF Ledger!Accept, Outcome
    <3>2. QED BY <3>1 DEF Ledger!LedgerNext
  <2>2. CASE Outcome[o] = "failed" /\ Outcome' = [Outcome EXCEPT ![o] = "open"]
    <3>1. Ledger!Reopen(o) BY <1>2, <2>2 DEF Ledger!Reopen, Outcome
    <3>2. QED BY <3>1 DEF Ledger!LedgerNext
  <2>3. CASE /\ Outcome[o] = "open"
             /\ (\E i \in changes : i \in DOMAIN branch /\ branch[i].op = o) \/ o \in Gardens
             /\ Outcome' = [Outcome EXCEPT ![o] = "landed"]
    <3>1. Ledger!Land(o) BY <1>2, <2>3 DEF Ledger!Land, Outcome
    <3>2. QED BY <3>1 DEF Ledger!LedgerNext
  <2>4. QED BY <1>2, <2>1, <2>2, <2>3
<1>3. ASSUME branch' = branch, changes' = changes, NEW S \in SUBSET Ops,
             \A o \in S : Outcome[o] = "open",
             Outcome' = [o \in Ops |-> IF o \in S THEN "failed" ELSE Outcome[o]]
      PROVE  Ledger!LedgerNext
  <2>1. Ledger!FailSeveral(S) BY <1>3 DEF Ledger!FailSeveral, Outcome
  <2>2. QED BY <2>1 DEF Ledger!LedgerNext
<1>4. ASSUME branch' = branch, Outcome' = Outcome, NEW i \in DOMAIN branch,
             branch[i].op \in Ops, changes' = changes \cup {i}
      PROVE  Ledger!LedgerNext
  <2>1. Ledger!Record(i) BY <1>4 DEF Ledger!Record, Outcome
  <2>2. QED BY <2>1 DEF Ledger!LedgerNext
<1>5. ASSUME changes' = changes, Outcome' = Outcome, NEW c \in Commits,
             branch' = Append(branch, c),
             c.op # Foreign => /\ Outcome[c.op] # "absent"
                               /\ \A i \in DOMAIN branch : branch[i].op # c.op
      PROVE  Ledger!LedgerNext
  <2>1. History' = Append(History, c.op) BY <1>5, HistoryAppends
  <2>2. CASE c.op = Foreign
    <3>1. Ledger!PublishForeign BY <1>5, <2>1, <2>2 DEF Ledger!PublishForeign, Outcome, History
    <3>2. QED BY <3>1 DEF Ledger!LedgerNext
  <2>3. CASE c.op # Foreign
    <3>1. c.op \in Ops BY <2>3 DEF Commits
    <3>2. Ledger!Publish(c.op)
      BY <1>5, <2>1, <2>3 DEF Ledger!Publish, Ledger!Published, Outcome, History
    <3>3. QED BY <3>1, <3>2 DEF Ledger!LedgerNext
  <2>4. QED BY <2>2, <2>3
<1>6. QED BY <1>1, <1>2, <1>3, <1>4, <1>5 DEF SeenStep
\* Every step of the write path is one of those five.
LEMMA NextSeen ==
    ASSUME Inductive, Next
    PROVE  SeenStep
<1> USE DEF Raise, Leave, Exit
<1>1. ASSUME NEW o \in Ops, Submit(o) PROVE SeenStep
  <2>1. branch' = branch /\ changes' = changes /\ status \in [Ops -> Statuses]
    BY <1>1 DEF Submit, Inductive, TypeOK
  <2>2. status[o] = "absent" /\ status' = [status EXCEPT ![o] = "queued"] BY <1>1 DEF Submit
  <2>3. Outcome[o] = "absent" /\ Outcome' = [Outcome EXCEPT ![o] = "open"]
    BY <2>1, <2>2 DEF Outcome
  <2>4. QED BY <2>1, <2>3 DEF SeenStep
<1>2. ASSUME NEW o \in Ops, Expire(o) PROVE SeenStep
  BY <1>2 DEF Expire, SeenStep, Outcome
<1>3. ASSUME NEW o \in Ops, AdminRetry(o) PROVE SeenStep
  <2>1. branch' = branch /\ changes' = changes /\ status \in [Ops -> Statuses]
    BY <1>3 DEF AdminRetry, Inductive, TypeOK
  <2>2. status[o] = "failed" /\ status' = [status EXCEPT ![o] = "queued"] BY <1>3 DEF AdminRetry
  <2>3. Outcome[o] = "failed" /\ Outcome' = [Outcome EXCEPT ![o] = "open"]
    BY <2>1, <2>2 DEF Outcome
  <2>4. QED BY <2>1, <2>3 DEF SeenStep
<1>4. CASE ForeignPush
  <2>1. [op |-> Foreign, lease |-> 0] \in Commits BY DEF Commits
  <2>2. QED BY <1>4, <2>1 DEF ForeignPush, SeenStep, Outcome
<1>5. ASSUME NEW p \in pushes, Land(p) PROVE SeenStep
  <2> DEFINE c == [op |-> p.op, lease |-> p.lease]
  <2>1. p \in Pushes /\ c \in Commits /\ c.op \in Ops /\ c.op = p.op
    BY DEF Inductive, TypeOK, Pushes, Commits
  <2>2. branch' = Append(branch, c) /\ changes' = changes /\ Outcome' = Outcome
    BY <1>5 DEF Land, Outcome
  <2>3. Fresh(p.op, p.base) /\ p.base = Len(branch) /\ status[p.op] # "absent"
    BY <1>5 DEF Land, Inductive, FreshInv, SubmittedInv
  <2>4. branch \in Seq(Commits) BY DEF Inductive, TypeOK
  <2>5. DOMAIN branch = 1..Len(branch) BY <2>4
  <2>6. \A i \in DOMAIN branch : branch[i].op # c.op
    BY <2>1, <2>3, <2>5 DEF Fresh, NoCommit
  <2>7. Outcome[c.op] # "absent" BY <2>1, <2>3 DEF Outcome
  <2> HIDE DEF c
  <2>8. QED BY <2>1, <2>2, <2>6, <2>7 DEF SeenStep
<1>6. ASSUME NEW p \in pushes, Drop(p) PROVE SeenStep
  BY <1>6 DEF Drop, SeenStep, Outcome
<1>7. ASSUME NEW w \in Workers, Start(w) PROVE SeenStep
  BY <1>7 DEF Start, SeenStep, Outcome
<1>8. ASSUME NEW w \in Workers, Crash(w) PROVE SeenStep
  BY <1>8 DEF Crash, SeenStep, Outcome
<1>9. ASSUME NEW w \in Workers, Interrupt(w) PROVE SeenStep
  BY <1>9 DEF Interrupt, SeenStep, Outcome
<1>10. ASSUME NEW w \in Workers, TakeLock(w) PROVE SeenStep
  BY <1>10 DEF TakeLock, SeenStep, Outcome
<1>11. ASSUME NEW w \in Workers, Reclaim(w) PROVE SeenStep
  <2> DEFINE S == {o \in expired : ~(attempts[o] <= MaxAttempts)}
  <2>1. branch' = branch /\ changes' = changes BY <1>11 DEF Reclaim
  <2>2. \A o \in expired : o \in Ops /\ status[o] = "processing"
    BY DEF Inductive, SubmittedInv, TypeOK
  <2>3. S \in SUBSET Ops /\ \A o \in S : Outcome[o] = "open" BY <2>2 DEF Outcome
  <2>4. Outcome' = [o \in Ops |-> IF o \in S THEN "failed" ELSE Outcome[o]]
    BY <1>11, <2>2 DEF Reclaim, Outcome
  <2> HIDE DEF S
  <2>5. QED BY <2>1, <2>3, <2>4 DEF SeenStep
<1>12. ASSUME NEW w \in Workers, Refresh(w) PROVE SeenStep
  BY <1>12 DEF Refresh, SeenStep, Outcome
<1>13. ASSUME NEW w \in Workers, NEW o \in Ops, Claim(w, o) PROVE SeenStep
  <2>1. branch' = branch /\ changes' = changes /\ status \in [Ops -> Statuses]
    BY <1>13 DEF Claim, Inductive, TypeOK
  <2>2. status[o] = "queued" /\ status' = [status EXCEPT ![o] = "processing"] BY <1>13 DEF Claim
  <2>3. Outcome' = Outcome
    BY <2>1, <2>2 DEF Outcome
  <2>4. QED BY <2>1, <2>3 DEF SeenStep
<1>14. ASSUME NEW w \in Workers, Prepare(w) PROVE SeenStep
  BY <1>14 DEF Prepare, SeenStep, Outcome
<1>15. ASSUME NEW w \in Workers, Acquire(w) PROVE SeenStep
  BY <1>15 DEF Acquire, SeenStep, Outcome
<1>16. ASSUME NEW w \in Workers, Busy(w) PROVE SeenStep
  BY <1>16 DEF Busy, SeenStep, Outcome
<1>17. ASSUME NEW w \in Workers, Recover(w) PROVE SeenStep
  BY <1>17 DEF Recover, SeenStep, Outcome
<1>18. ASSUME NEW w \in Workers, GiveUp(w) PROVE SeenStep
  BY <1>18 DEF GiveUp, SeenStep, Outcome
<1>19. ASSUME NEW w \in Workers, StartFiling(w) PROVE SeenStep
  BY <1>19 DEF StartFiling, SeenStep, Outcome
<1>20. ASSUME NEW w \in Workers, NothingToChange(w) PROVE SeenStep
  BY <1>20 DEF NothingToChange, SeenStep, Outcome
<1>21. ASSUME NEW w \in Workers, CheckLease(w) PROVE SeenStep
  BY <1>21 DEF CheckLease, SeenStep, Outcome
<1>22. ASSUME NEW w \in Workers, LoseLease(w) PROVE SeenStep
  BY <1>22 DEF LoseLease, SeenStep, Outcome
<1>23. ASSUME NEW w \in Workers, Push(w) PROVE SeenStep
  BY <1>23 DEF Push, SeenStep, Outcome
<1>24. ASSUME NEW w \in Workers, Accepted(w) PROVE SeenStep
  BY <1>24 DEF Accepted, SeenStep, Outcome
<1>25. ASSUME NEW w \in Workers, RecordChange(w) PROVE SeenStep
  <2>1. commitAt[w] \in DOMAIN branch /\ branch[commitAt[w]].op = job[w].op /\ job[w].op \in Ops
    BY <1>25 DEF RecordChange, Inductive, DurableInv, TypeOK, Working, Phases, Jobs
  <2>2. QED BY <1>25, <2>1 DEF RecordChange, SeenStep, Outcome
<1>26. ASSUME NEW w \in Workers, RecordReferences(w) PROVE SeenStep
  BY <1>26 DEF RecordReferences, SeenStep, Outcome
<1>27. ASSUME NEW w \in Workers, FailAttempt(w) PROVE SeenStep
  BY <1>27 DEF FailAttempt, SeenStep, Outcome
<1>28. ASSUME NEW w \in Workers, Finish(w) PROVE SeenStep
  <2> DEFINE o == job[w].op
  <2>1. o \in Ops /\ status[o] = "processing" /\ Substantiated(o, commitAt[w])
    BY <1>28 DEF Finish, HoldsLease, Inductive, DurableInv, TypeOK, Working, Phases, Jobs
  <2>2. branch' = branch /\ changes' = changes BY <1>28 DEF Finish, Leave
  <2>3. status' = [status EXCEPT ![o] = "landed"] BY <1>28 DEF Finish
  <2> HIDE DEF o
  <2>4. Outcome[o] = "open" /\ Outcome' = [Outcome EXCEPT ![o] = "landed"]
    BY <2>1, <2>3 DEF Outcome, Inductive, TypeOK
  <2>5. (\E i \in changes : i \in DOMAIN branch /\ branch[i].op = o) \/ o \in Gardens
    BY <2>1 DEF Substantiated
  <2>6. QED BY <2>1, <2>2, <2>4, <2>5 DEF SeenStep
<1>29. ASSUME NEW w \in Workers, SettleFailure(w) PROVE SeenStep
  <2> DEFINE o == job[w].op
  <2>1. o \in Ops /\ status[o] = "processing"
    BY <1>29 DEF SettleFailure, HoldsLease, Inductive, TypeOK, Working, Phases, Jobs
  <2>2. branch' = branch /\ changes' = changes BY <1>29 DEF SettleFailure, Leave
  <2>3. \/ status' = [status EXCEPT ![o] = "queued"]
        \/ status' = [status EXCEPT ![o] = "failed"]
    BY <1>29 DEF SettleFailure
  <2> HIDE DEF o
  <2>4. Outcome[o] = "open" BY <2>1 DEF Outcome
  <2>5. \/ Outcome' = Outcome
        \/ Outcome' = [q \in Ops |-> IF q \in {o} THEN "failed" ELSE Outcome[q]]
    BY <2>1, <2>3 DEF Outcome, Inductive, TypeOK
  <2>6. {o} \in SUBSET Ops /\ \A q \in {o} : Outcome[q] = "open" BY <2>1, <2>4
  <2>7. QED BY <2>2, <2>5, <2>6 DEF SeenStep
<1>30. ASSUME NEW w \in Workers, SettleNothing(w) PROVE SeenStep
  BY <1>30 DEF SettleNothing, SeenStep, Outcome
<1>31. ASSUME NEW w \in Workers, ReleaseClaim(w) PROVE SeenStep
  <2> DEFINE o == job[w].op
  <2>1. o \in Ops BY <1>31 DEF ReleaseClaim, Inductive, TypeOK, Working, Phases, Jobs
  <2>2. branch' = branch /\ changes' = changes BY <1>31 DEF ReleaseClaim, Leave
  <2>3. \/ status' = status
        \/ status[o] = "processing" /\ status' = [status EXCEPT ![o] = "queued"]
    BY <1>31 DEF ReleaseClaim
  <2> HIDE DEF o
  <2>4. Outcome' = Outcome BY <2>1, <2>3 DEF Outcome, Inductive, TypeOK
  <2>5. QED BY <2>2, <2>4 DEF SeenStep
<1>32. QED
  BY <1>1, <1>2, <1>3, <1>4, <1>5, <1>6, <1>7, <1>8, <1>9, <1>10, <1>11, <1>12, <1>13,
     <1>14, <1>15, <1>16, <1>17, <1>18, <1>19, <1>20, <1>21, <1>22, <1>23, <1>24,
     <1>25, <1>26, <1>27, <1>28, <1>29, <1>30, <1>31
     DEF Next, Maintain, Attempt

\* Whatever the writers, the leases and the transport do, the workspace's
\* outcomes, history and change records only ever make the ledger's steps.
THEOREM WriterImplementsLedger == Spec => ImplementsLedger
<1>1. Init => Ledger!LedgerInit
  BY DEF Init, Ledger!LedgerInit
<1>2. Inductive /\ [Next]_vars => [Ledger!LedgerNext]_(Ledger!ledgerVars)
  <2>1. CASE Inductive /\ Next
    BY <2>1, NextSeen, SeenStepIsLedgerStep DEF Inductive
  <2>2. CASE UNCHANGED vars
    BY <2>2 DEF vars, Ledger!ledgerVars
  <2>3. QED BY <2>1, <2>2
<1>3. QED BY <1>1, <1>2, WriterInvariant, PTL DEF Spec, ImplementsLedger, Ledger!LedgerSpec

LEMMA HolderStep ==
    ASSUME Inductive, Next, NEW o \in Ops, status[o] = "processing", status'[o] # "processing"
    PROVE  SettledByHolder(o)
<1>1. /\ status \in [Ops -> Statuses] /\ pc \in [Workers -> Phases]
      /\ \A w \in Workers : pc[w] \in {"finishing", "failing"} => job[w] \in Jobs
  BY DEF Inductive, TypeOK, Working, Phases
<1>2. \/ status' = status
      \/ \E q \in Ops : Submit(q) \/ AdminRetry(q)
      \/ \E w \in Workers :
            \/ Reclaim(w) \/ Finish(w) \/ SettleFailure(w) \/ ReleaseClaim(w)
            \/ \E q \in Ops : Claim(w, q)
  <2>1. ASSUME NEW w \in Workers, Attempt(w)
        PROVE  \/ status' = status
               \/ Finish(w) \/ SettleFailure(w) \/ ReleaseClaim(w) \/ \E q \in Ops : Claim(w, q)
    BY <2>1 DEF Attempt, Prepare, Acquire, Busy, Recover, GiveUp, StartFiling,
       NothingToChange, CheckLease, LoseLease, Exit, Push, Accepted, RecordChange,
       RecordReferences, FailAttempt, Raise, SettleNothing, queueVars
  <2>2. ASSUME NEW w \in Workers, Start(w) \/ Crash(w) \/ Interrupt(w) \/ Maintain(w), ~Reclaim(w)
        PROVE  status' = status
    BY <2>2 DEF Start, Crash, Exit, Interrupt, Maintain, TakeLock, Refresh, queueVars
  <2>3. ASSUME NEW q \in Ops, Expire(q) PROVE status' = status
    BY <2>3 DEF Expire
  <2>4. ASSUME ForeignPush \/ \E p \in pushes : Land(p) \/ Drop(p) PROVE status' = status
    BY <2>4 DEF ForeignPush, Land, Drop, queueVars
  <2> QED
    BY <2>1, <2>2, <2>3, <2>4 DEF Next
<1>3. ASSUME NEW q \in Ops, Submit(q) \/ AdminRetry(q) PROVE FALSE
  BY <1>1, <1>3 DEF Submit, AdminRetry
<1>4. ASSUME NEW w \in Workers, NEW q \in Ops, Claim(w, q) PROVE FALSE
  BY <1>1, <1>4 DEF Claim
<1>5. ASSUME NEW w \in Workers, Reclaim(w) PROVE SettledByHolder(o)
  BY <1>5 DEF Reclaim, SettledByHolder
<1>6. ASSUME NEW w \in Workers, Finish(w) PROVE SettledByHolder(o)
  BY <1>1, <1>6 DEF Finish, HoldsLease, Leave, SettledByHolder
<1>7. ASSUME NEW w \in Workers, SettleFailure(w) PROVE SettledByHolder(o)
  BY <1>1, <1>7 DEF SettleFailure, HoldsLease, Leave, SettledByHolder
<1>8. ASSUME NEW w \in Workers, ReleaseClaim(w) PROVE SettledByHolder(o)
  BY <1>1, <1>8 DEF ReleaseClaim, Leave, SettledByHolder
<1>9. QED BY <1>2, <1>3, <1>4, <1>5, <1>6, <1>7, <1>8

\* A stale claim of the same operation, from before a lost lease, never settles
\* the row: only the reclaim of an expired lease or the current holder does.
THEOREM SettledOnlyByHolder == Spec => OnlyHolderSettles
<1>1. Inductive /\ [Next]_vars =>
        [\A o \in Ops : (status[o] = "processing" /\ status'[o] # "processing")
                          => SettledByHolder(o)]_vars
  BY HolderStep
<1>2. QED BY <1>1, WriterInvariant, PTL DEF Spec, OnlyHolderSettles
=============================================================================
