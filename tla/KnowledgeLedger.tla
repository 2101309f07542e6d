--------------------------- MODULE KnowledgeLedger ---------------------------
(***************************************************************************)
(* What the knowledge plane promises about one workspace, with the queue's *)
(* leases, the writers, the lock and the transport left out: an accepted   *)
(* operation puts at most one commit in the published history, a commit is *)
(* recorded in the change ledger once it is in the history, and only an    *)
(* operation that has its commit and its change record (or that had        *)
(* nothing to change) is reported landed, for good.                        *)
(*                                                                         *)
(* KnowledgeWriter implements this specification.                          *)
(***************************************************************************)
EXTENDS Naturals, Sequences, FiniteSets

CONSTANTS
    Ops,      \* operations: captures, deletions, entity changes, garden runs
    Gardens,  \* the ones that may find nothing to change
    Foreign   \* author of a commit the writers did not make

VARIABLES
    outcome,  \* Ops -> absent, open, landed, failed
    history,  \* the published commits in order, each named by its operation
    recorded  \* the positions of history that have a change record

ledgerVars == <<outcome, history, recorded>>

Outcomes == {"absent", "open", "landed", "failed"}

Published(o) == \E i \in DOMAIN history : history[i] = o

LedgerInit ==
    /\ outcome = [o \in Ops |-> "absent"]
    /\ history = <<>>
    /\ recorded = {}

Accept(o) ==
    /\ outcome[o] = "absent"
    /\ outcome' = [outcome EXCEPT ![o] = "open"]
    /\ UNCHANGED <<history, recorded>>

\* A commit may be published late, after its operation failed, but never twice.
Publish(o) ==
    /\ outcome[o] # "absent"
    /\ ~Published(o)
    /\ history' = Append(history, o)
    /\ UNCHANGED <<outcome, recorded>>

PublishForeign ==
    /\ history' = Append(history, Foreign)
    /\ UNCHANGED <<outcome, recorded>>

Record(i) ==
    /\ i \in DOMAIN history
    /\ history[i] \in Ops
    /\ recorded' = recorded \cup {i}
    /\ UNCHANGED <<outcome, history>>

Land(o) ==
    /\ outcome[o] = "open"
    /\ \/ \E i \in recorded : history[i] = o
       \/ o \in Gardens
    /\ outcome' = [outcome EXCEPT ![o] = "landed"]
    /\ UNCHANGED <<history, recorded>>

Reopen(o) ==
    /\ outcome[o] = "failed"
    /\ outcome' = [outcome EXCEPT ![o] = "open"]
    /\ UNCHANGED <<history, recorded>>

\* One reclaim pass may fail several operations whose leases expired.
FailSeveral(S) ==
    /\ \A o \in S : outcome[o] = "open"
    /\ outcome' = [o \in Ops |-> IF o \in S THEN "failed" ELSE outcome[o]]
    /\ UNCHANGED <<history, recorded>>

LedgerNext ==
    \/ PublishForeign
    \/ \E o \in Ops : Accept(o) \/ Publish(o) \/ Land(o) \/ Reopen(o)
    \/ \E i \in DOMAIN history : Record(i)
    \/ \E S \in SUBSET Ops : FailSeveral(S)

LedgerSpec == LedgerInit /\ [][LedgerNext]_ledgerVars
=============================================================================
