---------------------------- MODULE MCDeletions ----------------------------
(* Instances of the two deletions for TLC: of a source (EvidencePlane, with  *)
(* captures that share their bytes) and of a workspace (WorkspaceLife).      *)
(* They share nothing; a behaviour is of one of them, and nothing of the     *)
(* other's fairness is ever enabled in it.                                   *)
EXTENDS EvidencePlane, WorkspaceLife

CONSTANTS c1, c2, o1, t1

SameBytes == [c \in Captures |-> o1]
SameText == [c \in Captures |-> t1]

VARIABLE part   \* the deletion a behaviour is about

deletionVars == <<vars, life, part>>

DeletionInit == Init /\ LifeInit /\ part \in {"source", "workspace"}

DeletionNext ==
    \/ part = "source" /\ Next /\ UNCHANGED <<life, part>>
    \/ part = "workspace" /\ LifeNext /\ UNCHANGED <<vars, part>>

DeletionSpec ==
    /\ DeletionInit /\ [][DeletionNext]_deletionVars
    /\ Fairness /\ LifeFairness
=============================================================================
