----------------------------- MODULE WriterWake -----------------------------
(***************************************************************************)
(* The writer machine that stops itself when it is idle, and the processes *)
(* that wake it when they queue work (kernel/wake.py, Worker.run and       *)
(* _may_stop in librarian/worker.py).                                      *)
(*                                                                         *)
(* Work is counted, not told apart: every table _pending_work reads is     *)
(* alike here.  Two durations matter and are stated as guards: a writer    *)
(* that has taken its last look is down within the watch of a round        *)
(* (STOP_WATCH_S), and a transaction that queued work commits before a     *)
(* round that followed it ends and before a writer that booted after it    *)
(* is idle long enough to stop (idle_exit_s).                              *)
(*                                                                         *)
(* A definition introduced as a SLIP is a plausible mistake in the action  *)
(* it names; it is no part of the specification.                           *)
(***************************************************************************)
EXTENDS Naturals, FiniteSets

CONSTANTS
    Procs,     \* processes that queue work: the app, the Slack adapter, an operator's shell
    MaxWork,   \* bound: items queued
    MaxRetries \* bound: attempts that fail and wait for their backoff

ASSUME WakeAssumption == MaxWork \in Nat /\ MaxRetries \in Nat /\ IsFiniteSet(Procs)

VARIABLES
    due,       \* committed items the writer may claim
    later,     \* committed items waiting for next_attempt_at
    queued,    \* items queued so far
    retries,
    caller,    \* what each process does with the item it queues
    aged,      \* open transactions older than a round that listed, or a writer that booted
    requested, running, \* kernel.wake: the flags of each process
    round,     \* where the waking thread of each process is
    machine,   \* the state of the writer machine
    writer     \* where the writer is in its loop

wakeVars == <<requested, running, round>>
workVars == <<due, later, retries>>
callerVars == <<queued, caller, aged>>
vars == <<workVars, callerVars, wakeVars, machine, writer>>

TypeOK ==
    /\ due \in Nat /\ later \in Nat /\ queued \in 0..MaxWork /\ retries \in 0..MaxRetries
    /\ caller \in [Procs -> {"idle", "inserted", "uncommitted", "woken"}]
    /\ aged \subseteq Procs
    /\ requested \in [Procs -> BOOLEAN] /\ running \in [Procs -> BOOLEAN]
    /\ round \in [Procs -> {"none", "next", "list", "watch", "start"}]
    /\ machine \in {"stopped", "starting", "started", "stopping"}
    /\ writer \in {"off", "polling", "idle", "announced", "leaving"}

Init ==
    /\ due = 0 /\ later = 0 /\ queued = 0 /\ retries = 0
    /\ caller = [p \in Procs |-> "idle"]
    /\ aged = {}
    /\ requested = [p \in Procs |-> FALSE] /\ running = [p \in Procs |-> FALSE]
    /\ round = [p \in Procs |-> "none"]
    /\ machine = "stopped" /\ writer = "off"

Uncommitted == {p \in Procs : caller[p] \in {"uncommitted", "woken"}}

-----------------------------------------------------------------------------
(* Whoever queues work.                                                    *)

\* An item is inserted, committed at once or inside a transaction of the caller
\* (finalize_upload_capture); the wake-up follows the insert either way.
Insert(p) ==
    /\ caller[p] = "idle" /\ queued < MaxWork
    /\ queued' = queued + 1
    /\ \/ caller' = [caller EXCEPT ![p] = "inserted"] /\ due' = due + 1
       \/ caller' = [caller EXCEPT ![p] = "uncommitted"] /\ due' = due
    /\ UNCHANGED <<later, retries, aged, wakeVars, machine, writer>>

WakeOnce(p) == \* SLIP: a request made while a round runs is taken for served
    /\ caller[p] \in {"inserted", "uncommitted"}
    /\ caller' = [caller EXCEPT ![p] = IF @ = "inserted" THEN "idle" ELSE "woken"]
    /\ requested' = [requested EXCEPT ![p] = @ \/ ~running[p]]
    /\ running' = [running EXCEPT ![p] = TRUE]
    /\ round' = [round EXCEPT ![p] = IF running[p] THEN @ ELSE "next"]
    /\ UNCHANGED <<workVars, queued, aged, machine, writer>>

\* wake.writer(): the request is noted, and a thread started unless one runs.
Wake(p) ==
    /\ caller[p] \in {"inserted", "uncommitted"}
    /\ caller' = [caller EXCEPT ![p] = IF @ = "inserted" THEN "idle" ELSE "woken"]
    /\ requested' = [requested EXCEPT ![p] = TRUE]
    /\ running' = [running EXCEPT ![p] = TRUE]
    /\ round' = [round EXCEPT ![p] = IF running[p] THEN @ ELSE "next"]
    /\ UNCHANGED <<workVars, queued, aged, machine, writer>>

Commit(p) ==
    /\ caller[p] = "woken"
    /\ caller' = [caller EXCEPT ![p] = "idle"]
    /\ aged' = aged \ {p}
    /\ due' = due + 1
    /\ UNCHANGED <<later, retries, queued, wakeVars, machine, writer>>

-----------------------------------------------------------------------------
(* The waking thread of a process.                                         *)

\* _rounds: another round for a request made meanwhile, or the thread ends.
NextRound(p) ==
    /\ round[p] = "next"
    /\ IF requested[p]
         THEN /\ requested' = [requested EXCEPT ![p] = FALSE]
              /\ round' = [round EXCEPT ![p] = "list"]
              /\ UNCHANGED running
         ELSE /\ running' = [running EXCEPT ![p] = FALSE]
              /\ round' = [round EXCEPT ![p] = "none"]
              /\ UNCHANGED requested
    /\ UNCHANGED <<workVars, callerVars, machine, writer>>

\* wake_round: a stopped machine is started, any other is watched.
List(p) ==
    /\ round[p] = "list"
    /\ round' = [round EXCEPT ![p] = IF machine = "stopped" THEN "start" ELSE "watch"]
    /\ aged' = aged \cup Uncommitted
    /\ UNCHANGED <<workVars, queued, caller, requested, running, machine, writer>>

\* The wait for "stopped" answers, or answers 408 when the machine still runs at
\* the end of the watch.
WatchEnds(p) ==
    /\ round[p] = "watch"
    /\ \/ machine = "stopped" /\ round' = [round EXCEPT ![p] = "start"]
       \/ /\ machine \in {"starting", "started"} /\ writer # "leaving" /\ aged = {}
          /\ round' = [round EXCEPT ![p] = "next"]
    /\ UNCHANGED <<workVars, callerVars, requested, running, machine, writer>>

\* The machine is started; one that somebody started meanwhile stays as it is.
Start(p) ==
    /\ round[p] = "start"
    /\ machine' = IF machine = "stopped" THEN "starting" ELSE machine
    /\ round' = [round EXCEPT ![p] = "next"]
    /\ UNCHANGED <<workVars, callerVars, requested, running, writer>>

-----------------------------------------------------------------------------
(* The writer machine.                                                     *)

Boot ==
    /\ machine = "starting"
    /\ machine' = "started" /\ writer' = "polling"
    /\ aged' = aged \cup Uncommitted
    /\ UNCHANGED <<workVars, queued, caller, wakeVars>>

\* One pass of the loop serves what is due; a failed attempt waits for its backoff.
Poll ==
    /\ writer = "polling"
    /\ \/ due > 0 /\ due' = due - 1 /\ UNCHANGED <<later, retries, writer>>
       \/ /\ due > 0 /\ retries < MaxRetries
          /\ due' = due - 1 /\ later' = later + 1 /\ retries' = retries + 1
          /\ UNCHANGED writer
       \/ due = 0 /\ writer' = "idle" /\ UNCHANGED <<due, later, retries>>
    /\ UNCHANGED <<callerVars, wakeVars, machine>>

\* The backoff of an item ends, whether or not a writer runs.
Due ==
    /\ later > 0
    /\ later' = later - 1 /\ due' = due + 1
    /\ UNCHANGED <<retries, callerVars, wakeVars, machine, writer>>

\* Not idle for long enough: sleep and poll again.
Sleep ==
    /\ writer = "idle"
    /\ writer' = "polling"
    /\ UNCHANGED <<workVars, callerVars, wakeVars, machine>>

\* _may_stop announces the stop on the heartbeat ...
Announce ==
    /\ writer = "idle" /\ aged = {}
    /\ writer' = "announced"
    /\ UNCHANGED <<workVars, callerVars, wakeVars, machine>>

LookDueOnly == \* SLIP: the last look counts only what could be claimed now
    /\ writer = "announced"
    /\ writer' = IF due > 0 THEN "polling" ELSE "leaving"
    /\ UNCHANGED <<workVars, callerVars, wakeVars, machine>>

\* ... and looks once more, at everything queued or retrying.
Look ==
    /\ writer = "announced"
    /\ writer' = IF due + later > 0 THEN "polling" ELSE "leaving"
    /\ UNCHANGED <<workVars, callerVars, wakeVars, machine>>

Leave ==
    /\ writer = "leaving"
    /\ writer' = "off" /\ machine' = "stopping"
    /\ UNCHANGED <<workVars, callerVars, wakeVars>>

Stopped ==
    /\ machine = "stopping"
    /\ machine' = "stopped"
    /\ UNCHANGED <<workVars, callerVars, wakeVars, writer>>

-----------------------------------------------------------------------------
RoundStep(p) == NextRound(p) \/ List(p) \/ WatchEnds(p) \/ Start(p)
MachineStep == Boot \/ Leave \/ Stopped
WriterStep == Poll \/ Sleep \/ Announce \/ Look

Next == \/ \E p \in Procs : Insert(p) \/ Wake(p) \/ Commit(p) \/ RoundStep(p)
        \/ MachineStep \/ WriterStep \/ Due

Spec == Init /\ [][Next]_vars

\* Threads, the loop and the machine go on; nobody is obliged to queue anything,
\* nor the writer to stop.
Fairness ==
    /\ \A p \in Procs : WF_vars(Wake(p)) /\ WF_vars(Commit(p)) /\ WF_vars(RoundStep(p))
    /\ WF_vars(MachineStep) /\ WF_vars(WriterStep) /\ WF_vars(Due)

FairSpec == Spec /\ Fairness

-----------------------------------------------------------------------------
(* Properties.                                                             *)

\* Process p will start the machine, or see that it runs: it has still to ask, its
\* thread has another round to make, or the round under way cannot miss the stop.
Waking(p) == \/ caller[p] = "inserted"
             \/ running[p] /\ \/ requested[p] \/ round[p] \in {"list", "watch"}
                              \/ round[p] = "start" /\ machine = "stopped"

Asleep == machine # "starting" /\ writer \in {"off", "leaving"}

\* A writer that is off, or will go off without another look, leaves no committed
\* work behind that no process is about to wake it for (_may_stop: "Work queued
\* after this look wakes a new writer").
NeverAsleepOverWork == Asleep /\ due + later > 0 => \E p \in Procs : Waking(p)

\* What was queued is served, whichever way its wake-up crossed the writer's stop
\* (wake.writer: "Make sure the writer will see what was just queued").
QueuedIsServed == (due + later > 0) ~> (due + later = 0)
=============================================================================
