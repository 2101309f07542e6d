-------------------------- MODULE SlackSubmissions --------------------------
(***************************************************************************)
(* Threads captured from Slack: a reaction reserves its message, acquires  *)
(* the thread, and queues one capture for it (slack/capture.py and         *)
(* slack/store.py); a poller posts how the capture ended back into the     *)
(* thread (slack/poller.py); one process holds the adapter's lock          *)
(* (slack/app.py).                                                         *)
(*                                                                         *)
(* One person reacts: every unique key of slack_submissions holds the      *)
(* Slack user, so the rows of two people never meet.  A delivery of a      *)
(* reaction stands for the id its handler draws for its reservation.       *)
(*                                                                         *)
(* A definition introduced as a SLIP is a plausible mistake in the action  *)
(* it names; it is no part of the specification.                           *)
(***************************************************************************)
EXTENDS Naturals, FiniteSets

CONSTANTS
    Events,    \* deliveries of a reaction, those of one reaction delivered twice among them
    Threads,   \* threads, each named by its first message
    Messages,  \* messages one can react to; the first message of a thread is its name
    Msg,       \* the message of each delivery
    ThreadOf,  \* the thread of each message
    Processes, \* machines that may run the adapter
    MaxTroubles \* bound: calls to Slack or to the database that fail, processes that stop or
                \* lose the connection of their lock, captures an administrator retries

ASSUME SlackAssumption ==
    /\ Threads \subseteq Messages /\ "none" \notin Messages
    /\ Msg \in [Events -> Messages]
    /\ ThreadOf \in [Messages -> Threads]
    /\ \A t \in Threads : ThreadOf[t] = t
    /\ Processes # {} /\ MaxTroubles \in Nat

NoRow == [thread |-> "none", attached |-> FALSE, last |-> "", old |-> FALSE]
Terminal == {"landed", "failed"}
ThreadRows == [thread : Messages, attached : BOOLEAN, last : Terminal \cup {""}, old : BOOLEAN]
Reports == [row : Events, status : Terminal]

VARIABLES
    step,     \* where the handler of each delivery is
    host,     \* the process that runs it
    row,      \* the committed rows of slack_submissions
    item,     \* the queue item made under the idempotency key of each thread
    closed,   \* the layer the channel files in is being erased, or is erased
    reply,     \* what the person who reacted was told, by delivery
    up,       \* running processes
    lock,     \* processes whose session holds the adapter's lock: at most one
    todo,     \* reports a pass of the poller of a process still has to post
    marking,  \* reports it posted and has still to record
    shown,    \* the status of the latest report in each thread
    reported, \* every status posted in each thread
    troubles,
    stopped,  \* a process stopped
    unheard,  \* a failure could not be told, or a reservation not released
    stalled,  \* a reservation outlived the lease while its handler ran
    doubled   \* two processes ran at once

handlerVars == <<step, host, reply>>
pollerVars == <<todo, marking, shown, reported>>
faultVars == <<troubles, unheard, stalled>>
processVars == <<up, lock, stopped, doubled>>
slackVars == <<handlerVars, row, item, closed, processVars, pollerVars, faultVars>>

Steps == {"new", "reserved", "acquired", "looked", "bound", "failing", "done"}

SlackTypeOK ==
    /\ step \in [Events -> Steps]
    /\ host \in [Events -> Processes]
    /\ row \in [Events -> ThreadRows \cup {NoRow}]
    /\ item \in [Threads -> {"none", "queued"} \cup Terminal]
    /\ closed \in BOOLEAN
    /\ reply \in [Events -> {"nothing", "declined", "failed", "accepted"}]
    /\ up \subseteq Processes /\ lock \subseteq up /\ \A p, q \in lock : p = q
    /\ todo \in [Processes -> SUBSET Reports] /\ marking \in [Processes -> SUBSET Reports]
    /\ shown \in [Threads -> Terminal \cup {""}]
    /\ reported \in [Threads -> SUBSET Terminal]
    /\ troubles \in 0..MaxTroubles /\ stopped \in BOOLEAN
    /\ stalled \in BOOLEAN /\ unheard \in BOOLEAN /\ doubled \in BOOLEAN

SlackInit ==
    /\ step = [e \in Events |-> "new"]
    /\ host = [e \in Events |-> CHOOSE p \in Processes : TRUE]
    /\ row = [e \in Events |-> NoRow]
    /\ item = [t \in Threads |-> "none"]
    /\ closed = FALSE
    /\ reply = [e \in Events |-> "nothing"]
    /\ up = {} /\ lock = {}
    /\ todo = [p \in Processes |-> {}] /\ marking = [p \in Processes |-> {}]
    /\ shown = [t \in Threads |-> ""] /\ reported = [t \in Threads |-> {}]
    /\ troubles = 0 /\ stopped = FALSE
    /\ stalled = FALSE /\ unheard = FALSE /\ doubled = FALSE

HasRow(e) == row[e] # NoRow
Reserved(e) == HasRow(e) /\ ~row[e].attached
EventThread(e) == ThreadOf[Msg[e]]
\* A submission that updated its row and has not committed holds the row's keys.
Binding(e) == step[e] = "bound"
\* bind_thread holds the advisory lock of the thread until its transaction ends.
LockedThread(e) == step[e] \in {"looked", "bound"}
Trouble == troubles < MaxTroubles /\ troubles' = troubles + 1

-----------------------------------------------------------------------------
(* A delivery of the reaction.                                             *)

Expired == {f \in Events : Reserved(f) /\ row[f].old}

\* The message is reserved unless one of the rows that stay holds it, as its
\* message or as its thread; the other rows go.
ReserveAmong(e, kept) ==
    LET free == \A f \in kept : Msg[f] # Msg[e] /\ row[f].thread # Msg[e]
    IN  /\ row' = [f \in Events |->
                     IF f = e /\ free
                       THEN [thread |-> Msg[e], attached |-> FALSE, last |-> "", old |-> FALSE]
                       ELSE IF f \in kept THEN row[f] ELSE NoRow]
        /\ step' = [step EXCEPT ![e] = IF free THEN "reserved" ELSE "done"]

\* An insert that meets the keys of an open transaction waits for it to end, and
\* so does the deletion of a row it updates.
MustWait(e) == \E f \in Events \ {e} :
    Binding(f) /\ (Msg[f] = Msg[e] \/ EventThread(f) = Msg[e] \/ f \in Expired)

\* on_reaction_added acknowledges the delivery, the person and the channel's layer
\* are read and allow the capture, and reserve_reaction drops the reservations
\* older than the lease before it reserves the message.
Reserve(e, p) ==
    /\ step[e] = "new" /\ p \in up
    /\ ~MustWait(e)
    /\ ReserveAmong(e, {f \in Events : HasRow(f)} \ Expired)
    /\ host' = [host EXCEPT ![e] = p]
    /\ UNCHANGED <<reply, item, closed, processVars, pollerVars, faultVars>>

\* A bot or another workspace gets no answer; a person with no access, a channel
\* with no layer, a direct message and a layer that person may not file in are
\* declined; or one of the checks, or the reservation, fails.
Refuse(e, p) ==
    /\ step[e] = "new" /\ p \in up
    /\ host' = [host EXCEPT ![e] = p]
    /\ \/ /\ step' = [step EXCEPT ![e] = "done"]
          /\ reply' = [reply EXCEPT ![e] = "declined"]
          /\ UNCHANGED troubles
       \/ /\ Trouble
          /\ step' = [step EXCEPT ![e] = "failing"]
          /\ UNCHANGED reply
    /\ UNCHANGED <<row, item, closed, processVars, pollerVars, unheard, stalled>>

AcquireQuietly(e) == \* SLIP: an acquisition that fails gives its reservation back and says nothing
    /\ step[e] = "reserved"
    /\ \/ /\ step' = [step EXCEPT ![e] = "acquired"]
          /\ UNCHANGED <<row, troubles>>
       \/ /\ Trouble
          /\ step' = [step EXCEPT ![e] = "done"]
          /\ row' = [row EXCEPT ![e] = IF Reserved(e) THEN NoRow ELSE @]
    /\ UNCHANGED <<host, reply, item, closed, processVars, pollerVars, unheard, stalled>>

\* The thread, its permalink, its files and the names of its speakers are read,
\* within CAPTURE_ACQUISITION_TIMEOUT_S.
Acquire(e) ==
    /\ step[e] = "reserved"
    /\ \/ /\ step' = [step EXCEPT ![e] = "acquired"]
          /\ UNCHANGED troubles
       \/ /\ Trouble
          /\ step' = [step EXCEPT ![e] = "failing"]
    /\ UNCHANGED <<host, reply, row, item, closed, processVars, pollerVars, stalled, unheard>>

Others(e) == {f \in Events \ {e} : HasRow(f) /\ row[f].thread = EventThread(e)}

\* bind_thread, its look: another row of the thread ends this delivery, whose
\* reservation goes with it.
Look(e) ==
    /\ step[e] = "acquired"
    /\ \A f \in Events \ {e} : LockedThread(f) => EventThread(f) # EventThread(e)
    /\ IF Others(e) # {}
         THEN /\ row' = [row EXCEPT ![e] = IF Reserved(e) THEN NoRow ELSE @]
              /\ step' = [step EXCEPT ![e] = "done"]
         ELSE /\ step' = [step EXCEPT ![e] = "looked"]
              /\ UNCHANGED row
    /\ UNCHANGED <<host, reply, item, closed, processVars, pollerVars, faultVars>>

\* bind_thread, its update, and the capture queued under the thread's key: a
\* reservation that is gone ends the delivery; a row that took the thread since
\* the look breaks the unique key; a layer that closed refuses the capture.
Bind(e) ==
    /\ step[e] = "looked"
    /\ step' = [step EXCEPT ![e] =
                  IF ~Reserved(e) THEN "done"
                  ELSE IF Others(e) # {} \/ closed THEN "failing" ELSE "bound"]
    /\ UNCHANGED <<host, reply, row, item, closed, processVars, pollerVars, faultVars>>

Submitted(e) ==
    /\ row' = [row EXCEPT ![e].thread = EventThread(e), ![e].attached = TRUE, ![e].old = FALSE]
    /\ item' = [item EXCEPT ![EventThread(e)] = IF @ = "none" THEN "queued" ELSE @]

\* attach_submission, the commit of the three statements, and the acknowledgement
\* in the thread, which nothing depends on; or the transaction is lost, or it
\* commits and its answer is lost.
Commit(e) ==
    /\ step[e] = "bound"
    /\ \/ /\ Submitted(e)
          /\ step' = [step EXCEPT ![e] = "done"]
          /\ reply' = [reply EXCEPT ![e] = "accepted"]
          /\ UNCHANGED troubles
       \/ /\ Trouble
          /\ step' = [step EXCEPT ![e] = "failing"]
          /\ UNCHANGED <<row, item, reply>>
       \/ /\ Trouble
          /\ Submitted(e)
          /\ step' = [step EXCEPT ![e] = "failing"]
          /\ UNCHANGED reply
    /\ UNCHANGED <<host, closed, processVars, pollerVars, stalled, unheard>>

GiveUpRow(e) == \* SLIP: the row goes although its submission is attached
    /\ step[e] = "failing"
    /\ step' = [step EXCEPT ![e] = "done"]
    /\ \/ /\ row' = [row EXCEPT ![e] = NoRow]
          /\ reply' = [reply EXCEPT ![e] = "failed"]
          /\ UNCHANGED <<troubles, unheard>>
       \/ /\ Trouble /\ unheard' = TRUE
          /\ row' = [row EXCEPT ![e] = NoRow]
          /\ UNCHANGED reply
       \/ /\ Trouble /\ unheard' = TRUE
          /\ UNCHANGED <<row, reply>>
    /\ UNCHANGED <<host, item, closed, processVars, pollerVars, stalled>>

\* release_unbound_reservation, then the failure is told; telling it may fail,
\* and so may the release, which leaves the reservation to its lease.
GiveUp(e) ==
    /\ step[e] = "failing"
    /\ step' = [step EXCEPT ![e] = "done"]
    /\ \/ /\ row' = [row EXCEPT ![e] = IF Reserved(e) THEN NoRow ELSE @]
          /\ reply' = [reply EXCEPT ![e] = "failed"]
          /\ UNCHANGED <<troubles, unheard>>
       \/ /\ Trouble /\ unheard' = TRUE
          /\ row' = [row EXCEPT ![e] = IF Reserved(e) THEN NoRow ELSE @]
          /\ UNCHANGED reply
       \/ /\ Trouble /\ unheard' = TRUE
          /\ UNCHANGED <<row, reply>>
    /\ UNCHANGED <<host, item, closed, processVars, pollerVars, stalled>>

\* ACQUISITION_LEASE_MINUTES pass over a reservation.
Age(e) ==
    /\ Reserved(e) /\ ~row[e].old
    /\ row' = [row EXCEPT ![e].old = TRUE]
    /\ IF step[e] = "done" THEN UNCHANGED <<stalled, troubles>> ELSE stalled' = TRUE /\ Trouble
    /\ UNCHANGED <<handlerVars, item, closed, processVars, pollerVars, unheard>>

-----------------------------------------------------------------------------
(* The poller of a process.                                                *)

DueOnce == \* SLIP: a thread that has its report is never reported again
    {[row |-> e, status |-> item[EventThread(e)]] :
          e \in {f \in Events : /\ HasRow(f) /\ row[f].attached
                                /\ item[EventThread(f)] \in Terminal
                                /\ row[f].last = ""}}

\* due_for_report: the threads whose capture ended otherwise than last reported.
Due == {[row |-> e, status |-> item[EventThread(e)]] :
          e \in {f \in Events : /\ HasRow(f) /\ row[f].attached
                                /\ item[EventThread(f)] \in Terminal
                                /\ item[EventThread(f)] # row[f].last}}

\* A pass lists them, and posts what it listed.
List(p) ==
    /\ p \in up /\ todo[p] = {} /\ marking[p] = {}
    /\ Due # {}
    /\ todo' = [todo EXCEPT ![p] = Due]
    /\ UNCHANGED <<handlerVars, row, item, closed, processVars, marking, shown, reported, faultVars>>

\* One report is posted, or Slack refuses it and the pass goes on without it.
\* The row, and its thread, are those of the list.
Post(p) ==
    /\ p \in up /\ marking[p] = {}
    /\ \E r \in todo[p] :
         LET t == EventThread(r.row)
         IN  /\ todo' = [todo EXCEPT ![p] = @ \ {r}]
             /\ \/ /\ marking' = [marking EXCEPT ![p] = {r}]
                   /\ shown' = [shown EXCEPT ![t] = r.status]
                   /\ reported' = [reported EXCEPT ![t] = @ \cup {r.status}]
                   /\ UNCHANGED troubles
                \/ /\ Trouble
                   /\ UNCHANGED <<marking, shown, reported>>
    /\ UNCHANGED <<handlerVars, row, item, closed, processVars, stalled, unheard>>

MarkCurrent(p) == \* SLIP: the status recorded is the one the item has by now
    /\ p \in up
    /\ \E r \in marking[p] :
         /\ row' = [row EXCEPT ![r.row] = IF HasRow(r.row)
                                            THEN [@ EXCEPT !.last = IF item[EventThread(r.row)] \in Terminal
                                                                      THEN item[EventThread(r.row)] ELSE r.status]
                                            ELSE @]
         /\ marking' = [marking EXCEPT ![p] = {}]
    /\ UNCHANGED <<handlerVars, item, closed, processVars, todo, shown, reported, faultVars>>

\* mark_reported: the status that was posted is recorded, if the row is still
\* there; or the update fails and ends the pass.
Mark(p) ==
    /\ p \in up
    /\ \E r \in marking[p] :
         \/ /\ row' = [row EXCEPT ![r.row] = IF HasRow(r.row) THEN [@ EXCEPT !.last = r.status] ELSE @]
            /\ marking' = [marking EXCEPT ![p] = {}]
            /\ UNCHANGED <<todo, troubles>>
         \/ /\ Trouble
            /\ marking' = [marking EXCEPT ![p] = {}]
            /\ todo' = [todo EXCEPT ![p] = {}]
            /\ UNCHANGED row
    /\ UNCHANGED <<handlerVars, item, closed, processVars, shown, reported, stalled, unheard>>

-----------------------------------------------------------------------------
(* Processes, and what else writes the rows and the items.                 *)

\* _async_main: a process that cannot take the lock refuses to start.
Start(p) ==
    /\ p \notin up /\ lock = {}
    /\ up' = up \cup {p} /\ lock' = {p}
    /\ doubled' = (doubled \/ up # {})
    /\ UNCHANGED <<handlerVars, row, item, closed, stopped, pollerVars, faultVars>>

\* A process stopped: its handlers and its pass of the poller end where they are,
\* and an open transaction rolls back.  The deliveries were acknowledged.
Stop(p) ==
    /\ p \in up
    /\ Trouble
    /\ stopped' = TRUE
    /\ up' = up \ {p} /\ lock' = lock \ {p}
    /\ step' = [e \in Events |-> IF host[e] = p /\ step[e] # "new" THEN "done" ELSE step[e]]
    /\ todo' = [todo EXCEPT ![p] = {}] /\ marking' = [marking EXCEPT ![p] = {}]
    /\ UNCHANGED <<host, reply, row, item, closed, doubled, shown, reported, stalled, unheard>>

\* The connection that holds the lock is lost, which its process does not notice.
LoseLock(p) ==
    /\ p \in lock
    /\ Trouble
    /\ lock' = lock \ {p}
    /\ UNCHANGED <<handlerVars, row, item, closed, up, stopped, doubled, pollerVars, stalled, unheard>>

\* The writer ends a capture.
Settle(t) ==
    /\ item[t] = "queued"
    /\ \E s \in Terminal : item' = [item EXCEPT ![t] = s]
    /\ UNCHANGED <<handlerVars, row, closed, processVars, pollerVars, faultVars>>

\* retry_failed.
Retry(t) ==
    /\ item[t] = "failed"
    /\ Trouble
    /\ item' = [item EXCEPT ![t] = "queued"]
    /\ UNCHANGED <<handlerVars, row, closed, processVars, pollerVars, stalled, unheard>>

\* The layer the channel files in is closed for its erasure, which then deletes
\* its captures together with the rows of slack_submissions that hold them; a
\* submission still in its transaction is not seen.
Close ==
    /\ ~closed
    /\ closed' = TRUE
    /\ UNCHANGED <<handlerVars, row, item, processVars, pollerVars, faultVars>>

Erase ==
    /\ closed
    /\ \E t \in Threads : item[t] # "none"
    /\ item' = [t \in Threads |-> "none"]
    /\ row' = [e \in Events |-> IF HasRow(e) /\ row[e].attached THEN NoRow ELSE row[e]]
    /\ UNCHANGED <<handlerVars, closed, processVars, pollerVars, faultVars>>

Handle(e) ==
    \/ Acquire(e) \/ Look(e) \/ Bind(e) \/ Commit(e) \/ GiveUp(e)
Poll(p) == List(p) \/ Post(p) \/ Mark(p)

SlackNext ==
    \/ \E e \in Events : \/ \E p \in Processes : Reserve(e, p) \/ Refuse(e, p)
                         \/ Handle(e) \/ Age(e)
    \/ \E p \in Processes : Poll(p) \/ Start(p) \/ Stop(p) \/ LoseLock(p)
    \/ \E t \in Threads : Settle(t) \/ Retry(t)
    \/ Close \/ Erase

SlackSpec == SlackInit /\ [][SlackNext]_slackVars

\* A process that stopped is started again, the poller of a running process goes
\* on, and the writer ends every capture.
SlackFairSpec ==
    /\ SlackSpec
    /\ WF_slackVars(\E p \in Processes : Start(p))
    /\ \A p \in Processes : WF_slackVars(Poll(p))
    /\ \A t \in Threads : WF_slackVars(Settle(t))

-----------------------------------------------------------------------------
(* What a reaction and its report promise.                                 *)

\* A thread is queued once, and the row that holds its submission is there for as
\* long as its item: however deliveries meet, processes stop, transactions end
\* unseen and reservations age (unique keys, bind_thread, release_reservation).
OneRowHoldsTheItem ==
    \A t \in Threads :
      LET holders == {e \in Events : HasRow(e) /\ row[e].attached /\ row[e].thread = t}
      IN  Cardinality(holders) = IF item[t] = "none" THEN 0 ELSE 1

\* A delivery that ended without a word left its thread to another: the thread is
\* queued, or another of its deliveries is at work or was told that it failed.
\* Only a process that stopped, a failure nobody could be told of, a handler that
\* outlived the lease of its reservation or an erasure may leave it unanswered.
SilenceHasAReason ==
    ~stopped /\ ~unheard /\ ~stalled /\ ~closed =>
      \A e \in Events : step[e] = "done" /\ reply[e] = "nothing" =>
        LET t == EventThread(e)
        IN  \/ item[t] # "none"
            \/ \E f \in Events : EventThread(f) = t /\ (step[f] \notin {"new", "done"} \/ reply[f] = "failed")

\* A status recorded as reported was posted in the thread (poll_once).
RecordedWasPosted ==
    \A e \in Events : HasRow(e) /\ row[e].last # "" => row[e].last \in reported[EventThread(e)]

\* What a thread is told: its item has one row, who posted in it hears of it or there is a reason, and
\* no status is recorded that was not posted.
ThreadIsAnswered ==
    /\ OneRowHoldsTheItem
    /\ SilenceHasAReason
    /\ RecordedWasPosted

\* Unless two processes ever run at once, the latest report of a thread is in the
\* end how its capture ended, whatever was retried, refused or posted twice.
LatestReportIsTrue ==
    [](~doubled) => \A t \in Threads : <>[](item[t] \in Terminal => shown[t] = item[t])
=============================================================================
