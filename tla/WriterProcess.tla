---------------------------- MODULE WriterProcess ----------------------------
(***************************************************************************)
(* The two protocols that keep the writer at work: the one that stops and  *)
(* wakes its machine (WriterWake), and the turns of its loop (WriterTurns). *)
(* They meet where a stopped writer is started again, which WriterTurns    *)
(* takes for granted and WriterWake shows; a behaviour is of one of them.  *)
(***************************************************************************)
EXTENDS WriterWake, WriterTurns

VARIABLE part   \* the protocol a behaviour is of

processVars == <<vars, turnVars, part>>

\* The loop when the behaviour is of the machine.
TurnsOff ==
    /\ hour = 0 /\ pc = "off" /\ item = NoItem /\ looked = 0
    /\ backlog = [t \in Tenants |-> <<>>] /\ turns = <<>>
    /\ keyed = Tenants /\ gardened = Tenants /\ rebuilt = Tenants /\ built = Tenants
    /\ waited = [t \in Tenants |-> 0] /\ troubles = 0

ProcessInit ==
    /\ Init
    /\ \/ part = "wake" /\ TurnsOff
       \/ part = "turns" /\ TurnsInit

ProcessNext ==
    \/ part = "wake" /\ Next /\ UNCHANGED <<turnVars, part>>
    \/ part = "turns" /\ TurnsNext /\ UNCHANGED <<vars, part>>

ProcessFairness ==
    /\ Fairness
    /\ part = "turns" => TurnsFairness

ProcessSpec == ProcessInit /\ [][ProcessNext]_processVars /\ ProcessFairness
-----------------------------------------------------------------------------
\* No tenant starves, whichever way the writer stops and wakes: neither what it has queued, nor its
\* daily runs, nor the first build of its index.
WorkIsServed ==
    /\ QueuedIsServed
    /\ EveryTenantHasATurn
    /\ EveryDayIsKept
    /\ EveryIndexIsBuilt
=============================================================================
