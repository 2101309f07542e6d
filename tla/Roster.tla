------------------------------- MODULE Roster -------------------------------
(***************************************************************************)
(* The people, groups, tokens, sessions and channels of one workspace      *)
(* (server/roster.py), the requests that edit them (admin/service.py), and *)
(* the two readers that act on an answer which may be old by then: a door  *)
(* that queues a capture in a layer (server/routing.py) and the writer     *)
(* that files it (knowledge/writer.py).                                    *)
(*                                                                         *)
(* An edit that checks another row holds the roster's advisory lock until  *)
(* its transaction ends, so it is two steps: what it checks, and what it   *)
(* writes.  The other edits are single statements.  Names, labels,         *)
(* descriptions and expiries are left out.                                 *)
(*                                                                         *)
(* A definition introduced as a SLIP is a plausible mistake in the action  *)
(* it names; it is no part of the specification.                           *)
(***************************************************************************)
EXTENDS Naturals, FiniteSets

CONSTANTS
    Person,       \* subjects that may be in the roster
    Layer,        \* groups that name a layer
    Unrestricted, \* the group brain-admins, which reads every page
    Channel,      \* Slack channels
    Token,        \* ids a bearer token may get
    Session,      \* values a session may get
    Job,          \* transactions that edit the roster at once
    Idle,         \* what a job does between requests
    Nobody,
    MaxRequests   \* bound: edits begun

Groups == Layer \cup {Unrestricted}

ASSUME RosterAssumption ==
    /\ Unrestricted \notin Layer
    /\ Nobody \notin Person \cup Token \cup Job
    /\ Token \cap Session = {}
    /\ MaxRequests \in Nat

Absent == [in |-> FALSE, admin |-> FALSE, disabled |-> FALSE, groups |-> {}]
Member(admin, gs) == [in |-> TRUE, admin |-> admin, disabled |-> FALSE, groups |-> gs]

\* The edits that take the lock.  A channel without a layer files in public.
Edits ==
    [op : {"create", "update"}, who : Person, admin : BOOLEAN, groups : SUBSET Groups]
        \cup [op : {"disable", "enable", "delete", "bootstrap"}, who : Person]
        \cup [op : {"channel"}, channel : Channel, groups : {{}} \cup {{l} : l \in Layer}]
        \cup [op : {"drop"}, layer : Layer]

VARIABLES
    people,   \* roster_principals
    groups,   \* roster_groups
    channels, \* roster_slack_channels: the layer of each channel, if it has one
    tokens,   \* roster_tokens: whose each one is, and how it stands
    sessions, \* roster_sessions: the token of each one, and how it stands
    lock,     \* the job that holds the roster's advisory lock
    jobs,     \* the edit each job has checked and not yet written
    shown,    \* jobs that have seen their layer empty in the index
    requests, \* edits begun
    capture,  \* one capture: where it is, its author and its layer
    index,    \* what the index holds of it: behind a report, behind the ledger, its page
    barred,   \* tokens and sessions that were withdrawn
    slipped   \* the capture landed between the two looks of a deletion of its layer

rosterVars == <<people, groups, channels, tokens, sessions, barred>>
lockVars == <<lock, jobs, shown, requests>>
filingVars == <<capture, index, slipped>>
vars == <<rosterVars, lockVars, filingVars>>

-----------------------------------------------------------------------------
(* What the roster says.                                                   *)

Standing(p) == people[p].in /\ ~people[p].disabled
Admins == {p \in Person : Standing(p) /\ people[p].admin}
AdminsLeft(w) == Admins \ {w}

TokenServes(t) == tokens[t].state = "live" /\ Standing(tokens[t].of)
SessionServes(s) == sessions[s].state = "live" /\ TokenServes(sessions[s].of)
Publishes(p, l) == Standing(p) /\ l \in people[p].groups

InUse(l) ==
    \/ \E p \in Person : l \in people[p].groups
    \/ \E c \in Channel : l \in channels[c]

\* The fields every door to the roster validates.
Valid(r) ==
    /\ r.groups \subseteq groups
    /\ r.admin => Unrestricted \in r.groups

\* What an edit reads under the lock before it writes.
Accepts(r) ==
    \/ /\ r.op = "create"
       /\ ~people[r.who].in
       /\ Valid(r)
    \/ /\ r.op = "update"
       /\ people[r.who].in
       /\ Valid(r)
       /\ people[r.who].admin /\ ~r.admin => AdminsLeft(r.who) # {}
    \/ /\ r.op \in {"disable", "delete"}
       /\ people[r.who].in
       /\ r.who \in Admins => AdminsLeft(r.who) # {}
    \/ /\ r.op = "enable"
       /\ people[r.who].in
    \/ /\ r.op = "bootstrap"
       /\ Admins = {}
       /\ ~people[r.who].in
    \/ /\ r.op = "channel"
       /\ r.groups \subseteq groups
    \/ /\ r.op = "drop"
       /\ r.layer \in groups
       /\ ~InUse(r.layer)

-----------------------------------------------------------------------------
(* Edits under the lock.                                                   *)

TypeOK ==
    /\ people \in [Person -> [in : BOOLEAN, admin : BOOLEAN, disabled : BOOLEAN,
                              groups : SUBSET Groups]]
    /\ groups \subseteq Groups
    /\ channels \in [Channel -> SUBSET Layer]
    /\ tokens \in [Token -> [of : Person \cup {Nobody},
                             state : {"none", "live", "revoked", "gone"}]]
    /\ sessions \in [Session -> [of : Token \cup {Nobody},
                                 state : {"none", "opening", "live", "revoked", "gone"}]]
    /\ lock \in Job \cup {Nobody}
    /\ jobs \in [Job -> Edits \cup {Idle}]
    /\ shown \subseteq Job
    /\ requests \in 0..MaxRequests
    /\ capture \in [state : {"none", "routed", "queued", "running", "pushed", "landed", "failed"},
                    author : Person \cup {Nobody}, layer : Layer \cup {Nobody}]
    /\ index \in [dirty : BOOLEAN, newer : BOOLEAN, has : BOOLEAN]
    /\ barred \subseteq Token \cup Session
    /\ slipped \in BOOLEAN

Init ==
    /\ people = [p \in Person |-> Absent]
    /\ groups = {Unrestricted}
    /\ channels = [c \in Channel |-> {}]
    /\ tokens = [t \in Token |-> [of |-> Nobody, state |-> "none"]]
    /\ sessions = [s \in Session |-> [of |-> Nobody, state |-> "none"]]
    /\ lock = Nobody
    /\ jobs = [j \in Job |-> Idle]
    /\ shown = {}
    /\ requests = 0
    /\ capture = [state |-> "none", author |-> Nobody, layer |-> Nobody]
    /\ index = [dirty |-> FALSE, newer |-> FALSE, has |-> FALSE]
    /\ barred = {}
    /\ slipped = FALSE

Holds(j, op) == jobs[j] # Idle /\ jobs[j].op = op

\* The transaction of a job ends, and its lock with it.
EndsFor(j) ==
    /\ lock' = IF lock = j THEN Nobody ELSE lock
    /\ jobs' = [jobs EXCEPT ![j] = Idle]
    /\ shown' = shown \ {j}
    /\ UNCHANGED requests

\* SLIP in TakesLock: a channel is mapped without the lock.
TakesLockForPeople(r) == r.op # "channel"

\* SLIP in TakesLock: a person is disabled without the lock.
TakesLockToDelete(r) == r.op # "disable"

\* Every edit whose checks read another row takes it.
TakesLock(r) == TRUE

\* An edit takes the lock and makes its checks; one that is refused changes nothing.
Begin(j, r) ==
    /\ jobs[j] = Idle
    /\ requests < MaxRequests
    /\ TakesLock(r) => lock = Nobody
    /\ Accepts(r)
    /\ lock' = IF TakesLock(r) THEN j ELSE lock
    /\ jobs' = [jobs EXCEPT ![j] = r]
    /\ requests' = requests + 1
    /\ UNCHANGED <<shown, rosterVars, filingVars>>

\* The transaction fails, or its process stops: nothing of it stays.
Abort(j) ==
    /\ jobs[j] # Idle
    /\ EndsFor(j)
    /\ UNCHANGED <<rosterVars, filingVars>>

Create(j) ==
    /\ Holds(j, "create")
    /\ people' = [people EXCEPT ![jobs[j].who] = Member(jobs[j].admin, jobs[j].groups)]
    /\ EndsFor(j)
    /\ UNCHANGED <<groups, channels, tokens, sessions, barred, filingVars>>

Update(j) ==
    /\ Holds(j, "update")
    /\ people' = [people EXCEPT ![jobs[j].who].admin = jobs[j].admin,
                                ![jobs[j].who].groups = jobs[j].groups]
    /\ EndsFor(j)
    /\ UNCHANGED <<groups, channels, tokens, sessions, barred, filingVars>>

\* The first administrator comes with a token.
Bootstrap(j, t) ==
    /\ Holds(j, "bootstrap")
    /\ tokens[t].state = "none"
    /\ people' = [people EXCEPT ![jobs[j].who] = Member(TRUE, {Unrestricted})]
    /\ tokens' = [tokens EXCEPT ![t] = [of |-> jobs[j].who, state |-> "live"]]
    /\ EndsFor(j)
    /\ UNCHANGED <<groups, channels, sessions, barred, filingVars>>

TokensOf(w) == {t \in Token : tokens[t].of = w}
RowsOf(w) == {s \in Session : sessions[s].of \in TokensOf(w) /\ sessions[s].state # "opening"}

\* SLIP in Ended: the sessions are left to the checks every request makes.
NotEnded(ss, state) == sessions

Ended(ss, state) ==
    [s \in Session |-> IF s \in ss /\ sessions[s].state = "live"
                       THEN [sessions[s] EXCEPT !.state = state] ELSE sessions[s]]

\* A person who is disabled loses the open sessions and keeps the tokens.
SetDisabled(j) ==
    /\ Holds(j, "disable") \/ Holds(j, "enable")
    /\ LET w == jobs[j].who
           off == jobs[j].op = "disable" IN
       /\ people' = [people EXCEPT ![w].disabled = off]
       /\ sessions' = IF off THEN Ended(RowsOf(w), "revoked") ELSE sessions
       /\ barred' = IF off THEN barred \cup RowsOf(w) ELSE barred
    /\ EndsFor(j)
    /\ UNCHANGED <<groups, channels, tokens, filingVars>>

\* The rows that name a person go with the person.
DeletePerson(j) ==
    /\ Holds(j, "delete")
    /\ LET w == jobs[j].who IN
       /\ people' = [people EXCEPT ![w] = Absent]
       /\ tokens' = [t \in Token |-> IF t \in TokensOf(w)
                                     THEN [of |-> Nobody, state |-> "gone"] ELSE tokens[t]]
       /\ sessions' = [s \in Session |-> IF s \in RowsOf(w)
                                         THEN [of |-> Nobody, state |-> "gone"] ELSE sessions[s]]
       /\ barred' = barred \cup TokensOf(w) \cup RowsOf(w)
    /\ EndsFor(j)
    /\ UNCHANGED <<groups, channels, filingVars>>

SetChannel(j) ==
    /\ Holds(j, "channel")
    /\ channels' = [channels EXCEPT ![jobs[j].channel] = jobs[j].groups]
    /\ EndsFor(j)
    /\ UNCHANGED <<people, groups, tokens, sessions, barred, filingVars>>

-----------------------------------------------------------------------------
(* Deleting a layer: no use, an index that has caught up and holds nothing *)
(* of it, and no capture on its way to it.                                 *)

Converged == ~index.dirty /\ ~index.newer

LooksEmpty(l) == Converged /\ ~(index.has /\ capture.layer = l)

Waits(l) == capture.layer = l /\ capture.state \in {"queued", "running", "pushed"}

LookAtIndex(j) ==
    /\ Holds(j, "drop")
    /\ j \notin shown
    /\ LooksEmpty(jobs[j].layer)
    /\ shown' = shown \cup {j}
    /\ UNCHANGED <<lock, jobs, requests, rosterVars, filingVars>>

\* A look that refuses ends the transaction, as Abort does.
DropGroup(j) ==
    /\ Holds(j, "drop")
    /\ j \in shown
    /\ ~Waits(jobs[j].layer)
    /\ groups' = groups \ {jobs[j].layer}
    /\ EndsFor(j)
    /\ UNCHANGED <<people, channels, tokens, sessions, barred, filingVars>>

-----------------------------------------------------------------------------
(* Edits without the lock, each one statement or one transaction on the    *)
(* rows of one token.                                                      *)

CreateGroup(l) ==
    /\ l \notin groups
    /\ requests < MaxRequests
    /\ groups' = groups \cup {l}
    /\ requests' = requests + 1
    /\ UNCHANGED <<people, channels, tokens, sessions, barred, lock, jobs, shown, filingVars>>

DeleteChannel(c) ==
    /\ channels[c] # {}
    /\ channels' = [channels EXCEPT ![c] = {}]
    /\ UNCHANGED <<people, groups, tokens, sessions, barred, lockVars, filingVars>>

\* A token needs a person, disabled or not.
IssueToken(p, t) ==
    /\ people[p].in
    /\ tokens[t].state = "none"
    /\ tokens' = [tokens EXCEPT ![t] = [of |-> p, state |-> "live"]]
    /\ UNCHANGED <<people, groups, channels, sessions, barred, lockVars, filingVars>>

RevokeToken(t) ==
    /\ tokens[t].state = "live"
    /\ LET ss == {s \in Session : sessions[s].of = t /\ sessions[s].state # "opening"} IN
       /\ tokens' = [tokens EXCEPT ![t].state = "revoked"]
       /\ sessions' = Ended(ss, "revoked")
       /\ barred' = barred \cup {t} \cup ss
    /\ UNCHANGED <<people, groups, channels, lockVars, filingVars>>

\* A token is exchanged for a session: the token is read, and later the row inserted.
ReadToken(s, t) ==
    /\ sessions[s].state = "none"
    /\ TokenServes(t)
    /\ sessions' = [sessions EXCEPT ![s] = [of |-> t, state |-> "opening"]]
    /\ UNCHANGED <<people, groups, channels, tokens, barred, lockVars, filingVars>>

\* The row refers to its token, so it cannot outlive it.
OpenSession(s) ==
    /\ sessions[s].state = "opening"
    /\ sessions' = [sessions EXCEPT ![s] =
          IF tokens[@.of].state = "gone" THEN [of |-> Nobody, state |-> "gone"]
          ELSE [@ EXCEPT !.state = "live"]]
    /\ UNCHANGED <<people, groups, channels, tokens, barred, lockVars, filingVars>>

CloseSession(s) ==
    /\ sessions[s].state = "live"
    /\ sessions' = [sessions EXCEPT ![s].state = "revoked"]
    /\ barred' = barred \cup {s}
    /\ UNCHANGED <<people, groups, channels, tokens, lockVars, filingVars>>

\* A roster kept in files is loaded once, into a roster without people.
Import(roles, owner, of) ==
    /\ lock = Nobody
    /\ \A p \in Person : ~people[p].in
    /\ \E p \in Person : roles[p].admin
    /\ \A t \in Token : owner[t] # Nobody => roles[owner[t]].in /\ tokens[t].state = "none"
    /\ people' = roles
    /\ groups' = groups \cup (UNION {roles[p].groups : p \in Person}) \cup (UNION {of[c] : c \in Channel})
    /\ channels' = [c \in Channel |-> of[c]]
    /\ tokens' = [t \in Token |-> IF owner[t] = Nobody THEN tokens[t]
                                  ELSE [of |-> owner[t], state |-> "live"]]
    /\ UNCHANGED <<sessions, barred, lockVars, filingVars>>

-----------------------------------------------------------------------------
(* A capture: routed to a layer of its author, queued, and filed.          *)

Route(t, l) ==
    /\ capture.state = "none"
    /\ TokenServes(t)
    /\ l \in people[tokens[t].of].groups \cap groups
    /\ capture' = [state |-> "routed", author |-> tokens[t].of, layer |-> l]
    /\ UNCHANGED <<index, slipped, rosterVars, lockVars>>

Enqueue ==
    /\ capture.state = "routed"
    /\ capture' = [capture EXCEPT !.state = "queued"]
    /\ UNCHANGED <<index, slipped, rosterVars, lockVars>>

\* SLIP in Claim: the layer was settled when the capture was queued.
ClaimAsQueued ==
    /\ capture.state = "queued"
    /\ capture' = [capture EXCEPT !.state = "running"]
    /\ UNCHANGED <<index, slipped, rosterVars, lockVars>>

\* Membership is read again when the capture is claimed, and not when it is pushed.
Claim ==
    /\ capture.state = "queued"
    /\ capture' = [capture EXCEPT !.state =
          IF Publishes(capture.author, capture.layer) THEN "running" ELSE "failed"]
    /\ UNCHANGED <<index, slipped, rosterVars, lockVars>>

Push ==
    /\ capture.state = "running"
    /\ capture' = [capture EXCEPT !.state = "pushed"]
    /\ UNCHANGED <<index, slipped, rosterVars, lockVars>>

\* Its change enters the ledger, newer than anything the index did.
Land ==
    /\ capture.state = "pushed"
    /\ capture' = [capture EXCEPT !.state = "landed"]
    /\ index' = [index EXCEPT !.newer = TRUE]
    /\ slipped' = (slipped \/ \E j \in shown : jobs[j].layer = capture.layer)
    /\ UNCHANGED <<rosterVars, lockVars>>

Filed == capture.state \in {"pushed", "landed"}

Report ==
    /\ Filed
    /\ ~index.has
    /\ ~index.dirty
    /\ index' = [index EXCEPT !.dirty = TRUE]
    /\ UNCHANGED <<capture, slipped, rosterVars, lockVars>>

Reindex ==
    /\ Filed
    /\ index' = [dirty |-> FALSE, newer |-> FALSE, has |-> TRUE]
    /\ UNCHANGED <<capture, slipped, rosterVars, lockVars>>

-----------------------------------------------------------------------------

Roles == {Absent} \cup {Member(FALSE, gs) : gs \in SUBSET Groups}
             \cup {Member(TRUE, gs \cup {Unrestricted}) : gs \in SUBSET Layer}

Edit(j) ==
    \/ \E r \in Edits : Begin(j, r)
    \/ Abort(j)
    \/ Create(j)
    \/ Update(j)
    \/ \E t \in Token : Bootstrap(j, t)
    \/ SetDisabled(j)
    \/ DeletePerson(j)
    \/ SetChannel(j)
    \/ LookAtIndex(j)
    \/ DropGroup(j)

Unlocked ==
    \/ \E l \in Layer : CreateGroup(l)
    \/ \E c \in Channel : DeleteChannel(c)
    \/ \E p \in Person, t \in Token : IssueToken(p, t)
    \/ \E t \in Token : RevokeToken(t)
    \/ \E s \in Session, t \in Token : ReadToken(s, t)
    \/ \E s \in Session : OpenSession(s) \/ CloseSession(s)
    \/ /\ \A p \in Person : ~people[p].in
       /\ \E roles \in [Person -> Roles], owner \in [Token -> Person \cup {Nobody}],
             of \in [Channel -> {{}} \cup {{l} : l \in Layer}] : Import(roles, owner, of)

Filing ==
    \/ \E t \in Token, l \in Layer : Route(t, l)
    \/ Enqueue
    \/ Claim
    \/ Push
    \/ Land
    \/ Report
    \/ Reindex

Next == (\E j \in Job : Edit(j)) \/ Unlocked \/ Filing

Spec == Init /\ [][Next]_vars

-----------------------------------------------------------------------------
(* Properties.                                                             *)

\* A workspace that has an administrator keeps one, whichever edits of two administrators meet:
\* an edit that takes the role, the account or the access of one reads, under the lock, that
\* another one stands (server/roster.py:295-306, 335-336, 357-358, 378-379).
AnAdministratorRemains == [][Admins # {} => Admins' # {}]_vars

\* No person and no channel names a group that is gone: a group is deleted only while none does,
\* and none comes to between that look and the deletion (server/roster.py:257-267, 448-464).
GroupsInUseExist ==
    /\ \A p \in Person : people[p].groups \subseteq groups
    /\ \A c \in Channel : channels[c] \subseteq groups

\* A token that was revoked or went with its person never serves again, nor does a session that
\* stood when it was closed, its token revoked or its person disabled or deleted: not when the
\* person is enabled, and not when somebody takes the same address (server/roster.py:76-108,
\* 364-366, 380, 543-545, 604-626).
BarredNeverServes ==
    /\ \A t \in barred \cap Token : ~TokenServes(t)
    /\ \A s \in barred \cap Session : ~SessionServes(s)

\* The layer of a deleted group holds no knowledge, though captures were routed to it and claimed
\* before: except for one that lands between the deletion's look at the index and its look at the
\* queue (server/roster.py:466-491, knowledge/writer.py:812-817).
DeletedLayerIsEmpty ==
    Filed /\ capture.layer \notin groups => slipped

\* A group that is gone is nobody's, and its layer holds nothing.
GroupsAreReal ==
    /\ GroupsInUseExist
    /\ DeletedLayerIsEmpty
=============================================================================
