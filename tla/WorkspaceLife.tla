--------------------------- MODULE WorkspaceLife ---------------------------
(***************************************************************************)
(* The life of a workspace: the operator creates it, a writer creates its   *)
(* repository, people contribute, the operator suspends it and asks for its *)
(* deletion, and a writer deletes the repository, the rows, the indexes,    *)
(* the evidence and the checkout (ops/erase_workspace.py,                   *)
(* librarian/provision.py, librarian/worker.py, admin/console.py).          *)
(*                                                                          *)
(* All the workspaces of an instance use one slug and so one repository     *)
(* name: an id is one incarnation, and the next may be created only when    *)
(* the `tenants` row of the last is gone.                                   *)
(*                                                                          *)
(* The code holds the database, the code host and the machine apart, and so *)
(* does the model: tenant, rows, indexed and req are Postgres; remote is    *)
(* the repository; objects the evidence store; local the checkouts; writer  *)
(* and lock the running writers and the advisory lock they share.           *)
(***************************************************************************)
EXTENDS Naturals, FiniteSets

CONSTANTS
  Ids,           \* workspace ids, all of one slug
  Writers,       \* writer processes
  EvidenceRefs,          \* evidence objects
  NoId, NoWriter,  \* neither an id nor a writer
  MaxAttempts,   \* erase_workspace.MAX_ATTEMPTS
  MaxRequests,   \* bound: deletion requests of one workspace
  MaxTroubles,   \* bound: failed calls, lost answers and stopped processes
  PromptLock     \* no operator acts between a writer's two adjacent statements
                 \* that list the waiting workspaces and try the lock

ASSUME LifeAssumption ==
  /\ NoId \notin Ids /\ NoWriter \notin Writers
  /\ Ids \cap {"absent", "bare", "scaffold"} = {}
  /\ MaxAttempts \in Nat \ {0}
  /\ MaxRequests \in Nat
  /\ MaxTroubles \in Nat
  /\ PromptLock \in BOOLEAN

VARIABLES
  tenant,       \* [Ids -> Statuses]: the tenants row, "none" before and "gone" after
  remote,    \* the repository of the slug
  local,     \* [Ids -> Checkouts]: the checkout under the writer's root
  rows,      \* [Ids -> SUBSET Refs]: evidence the workspace's rows point at
  indexed,   \* SUBSET Ids: workspaces with vector indexes
  objects,   \* SUBSET Refs: evidence objects stored
  flight,    \* captures admitted at the front door and not committed yet
  req,       \* [Ids -> Request]: the workspace's last deletion request
  writer,    \* [Writers -> [pc, id, refs, error]]
  lock,      \* the writer that holds WRITER_LOCK_KEY, or NoWriter
  late,      \* history: captures committed while their rows were being deleted
  troubles

life == <<tenant, remote, local, rows, indexed, objects, flight, req, writer, lock,
          late, troubles>>
-----------------------------------------------------------------------------
RowStates == {"none", "provisioning", "active", "suspended", "gone"}
Registered == {"provisioning", "active", "suspended"}
Remotes == {"absent", "bare", "scaffold"} \cup Ids   \* an id: its knowledge
Checkouts == {"none", "scaffold", "knowledge"}
OpenRequest == {"queued", "running"}
Request == [status : {"none", "queued", "running", "succeeded", "failed"},
            round : 0 .. MaxRequests, attempts : Nat, due : BOOLEAN,
            repoGone : BOOLEAN, rowsGone : BOOLEAN, garbage : SUBSET EvidenceRefs]
NoRequest == [status |-> "none", round |-> 0, attempts |-> 0, due |-> FALSE,
              repoGone |-> FALSE, rowsGone |-> FALSE, garbage |-> {}]
Idle == [pc |-> "idle", id |-> NoId, refs |-> {}, error |-> "none"]
Provisioning == {"listed", "create", "push", "activate"}
Deleting == {"check", "remove", "record", "read", "delete", "drop", "sweep",
             "clean", "finish", "fail"}

IsOpen(w) == req[w].status \in OpenRequest
StillNeeded(r) == \E w \in Ids : r \in rows[w]
Stands(p, pc) == writer[p].pc = pc
Mine(p) == writer[p].id
Step(p, pc) == writer' = [writer EXCEPT ![p].pc = pc]
FailWith(p, error) == writer' = [writer EXCEPT ![p].pc = "fail", ![p].error = error]
Leave(p) == writer' = [writer EXCEPT ![p] = Idle] /\ lock' = NoWriter
Trouble == troubles < MaxTroubles /\ troubles' = troubles + 1
Prompt == PromptLock => \A p \in Writers : ~Stands(p, "listed")

LifeInit ==
  /\ tenant = [w \in Ids |-> "none"]
  /\ remote = "absent"
  /\ local = [w \in Ids |-> "none"]
  /\ rows = [w \in Ids |-> {}]
  /\ indexed = {} /\ objects = {} /\ flight = {} /\ late = {}
  /\ req = [w \in Ids |-> NoRequest]
  /\ writer = [p \in Writers |-> Idle]
  /\ lock = NoWriter
  /\ troubles = 0
-----------------------------------------------------------------------------
(* The operator's console *)

\* console.create_tenant: slug and repository are unique among the rows.
CreateTenant(w) ==
  /\ Prompt /\ tenant[w] = "none"
  /\ \A v \in Ids : tenant[v] \notin Registered
  /\ tenant' = [tenant EXCEPT ![w] = "provisioning"]
  /\ UNCHANGED <<remote, local, rows, indexed, objects, flight, req, writer, lock,
                 late, troubles>>

\* The slip: the deletion under way is not looked at.
SetStatusAnyway(w, status) ==
  /\ Prompt /\ tenant[w] \in {"active", "suspended"} \ {status}
  /\ tenant' = [tenant EXCEPT ![w] = status]
  /\ UNCHANGED <<remote, local, rows, indexed, objects, flight, req, writer, lock,
                 late, troubles>>

\* console.set_status: never while provisioning, never while being deleted.
SetStatus(w, status) ==
  /\ Prompt /\ tenant[w] \in {"active", "suspended"} \ {status}
  /\ ~IsOpen(w)
  /\ tenant' = [tenant EXCEPT ![w] = status]
  /\ UNCHANGED <<remote, local, rows, indexed, objects, flight, req, writer, lock,
                 late, troubles>>

\* erase_workspace.request: a suspended workspace, one open request at a time.
RequestErasure(w) ==
  /\ Prompt /\ tenant[w] = "suspended" /\ ~IsOpen(w)
  /\ req[w].round < MaxRequests
  /\ req' = [req EXCEPT ![w] = [NoRequest EXCEPT !.status = "queued", !.due = TRUE,
                                                 !.round = req[w].round + 1]]
  /\ UNCHANGED <<tenant, remote, local, rows, indexed, objects, flight, writer, lock,
                 late, troubles>>
-----------------------------------------------------------------------------
(* People *)

\* A request authenticated in an active workspace ...
Admit(w, r) ==
  /\ tenant[w] = "active" /\ r \notin rows[w]
  /\ flight = {}
  /\ flight' = {<<w, r>>}
  /\ UNCHANGED <<tenant, remote, local, rows, indexed, objects, req, writer, lock, late,
                 troubles>>

\* ... commits later: the foreign key needs the tenants row, whatever its status.
CommitCapture(w, r) ==
  /\ <<w, r>> \in flight
  /\ flight' = flight \ {<<w, r>>}
  /\ IF tenant[w] \in Registered
     THEN /\ rows' = [rows EXCEPT ![w] = @ \cup {r}]
          /\ objects' = objects \cup {r}
          /\ late' = IF \E p \in Writers : Stands(p, "delete") /\ Mine(p) = w
                     THEN late \cup {r} ELSE late
     ELSE UNCHANGED <<rows, objects, late>>
  /\ UNCHANGED <<tenant, remote, local, indexed, req, writer, lock, troubles>>

\* A writer files a capture under its lock, in the workspace's checkout.
Land(w) ==
  /\ lock = NoWriter /\ tenant[w] = "active" /\ rows[w] # {}
  /\ remote \in {"scaffold", w} /\ w \notin indexed
  /\ remote' = w
  /\ local' = [local EXCEPT ![w] = "knowledge"]
  /\ indexed' = indexed \cup {w}
  /\ UNCHANGED <<tenant, rows, objects, flight, req, writer, lock, late, troubles>>
-----------------------------------------------------------------------------
(* Provisioning: worker._maybe_provision and provision.provision *)

\* The waiting workspaces are listed before the lock is tried.
ListWaiting(p, w) ==
  /\ Stands(p, "idle") /\ tenant[w] = "provisioning"
  /\ writer' = [writer EXCEPT ![p].pc = "listed", ![p].id = w]
  /\ UNCHANGED <<tenant, remote, local, rows, indexed, objects, flight, req, lock, late,
                 troubles>>

TryLock(p) ==
  /\ Stands(p, "listed")
  /\ IF lock = NoWriter
     THEN lock' = p /\ Step(p, "create")
     ELSE writer' = [writer EXCEPT ![p] = Idle] /\ UNCHANGED lock
  /\ UNCHANGED <<tenant, remote, local, rows, indexed, objects, flight, req, late,
                 troubles>>

\* The slip: a repository that is already there is an error.
CreateRemoteOnce(p) ==
  /\ Stands(p, "create")
  /\ IF remote = "absent"
     THEN /\ remote' = "bare"
          /\ \/ Step(p, "push") /\ UNCHANGED <<lock, troubles>>
             \/ Leave(p) /\ Trouble
     ELSE Leave(p) /\ UNCHANGED <<remote, troubles>>
  /\ UNCHANGED <<tenant, local, rows, indexed, objects, flight, req, late>>

\* create_remote accepts the platform's own repository when it is there.
CreateRemote(p) ==
  /\ Stands(p, "create")
  /\ remote' = IF remote = "absent" THEN "bare" ELSE remote
  /\ \/ Step(p, "push") /\ UNCHANGED <<lock, troubles>>
     \/ Leave(p) /\ Trouble
  /\ UNCHANGED <<tenant, local, rows, indexed, objects, flight, req, late>>

\* push_scaffold: an existing branch is kept, an existing checkout is pushed as it is.
PushScaffold(p) ==
  /\ Stands(p, "push")
  /\ LET w == Mine(p)
         kept == IF local[w] = "none" THEN "scaffold" ELSE local[w]
     IN IF remote = "bare"
        THEN /\ local' = [local EXCEPT ![w] = kept]
             /\ remote' = IF kept = "knowledge" THEN w ELSE "scaffold"
        ELSE UNCHANGED <<local, remote>>
  /\ \/ Step(p, "activate") /\ UNCHANGED <<lock, troubles>>
     \/ Leave(p) /\ Trouble
  /\ UNCHANGED <<tenant, rows, indexed, objects, flight, req, late>>

\* set_tenant_status(active), whatever the status is now; a row that is gone stops
\* the process.
Activate(p) ==
  /\ Stands(p, "activate")
  /\ tenant' = IF tenant[Mine(p)] \in Registered
               THEN [tenant EXCEPT ![Mine(p)] = "active"] ELSE tenant
  /\ Leave(p)
  /\ UNCHANGED <<remote, local, rows, indexed, objects, flight, req, late, troubles>>
-----------------------------------------------------------------------------
(* Deletion: erase_workspace.claim, run, finish and fail *)

\* The slip: a request left running is never taken up again.
ClaimQueued(p, w) ==
  /\ Stands(p, "idle") /\ lock = NoWriter
  /\ req[w].status = "queued" /\ req[w].due
  /\ lock' = p
  /\ req' = [req EXCEPT ![w].status = "running", ![w].attempts = @ + 1,
                        ![w].due = FALSE]
  /\ writer' = [writer EXCEPT ![p] = [Idle EXCEPT !.pc = "check", !.id = w]]
  /\ UNCHANGED <<tenant, remote, local, rows, indexed, objects, flight, late, troubles>>

\* A due open request, queued or left running by a writer that stopped.
ClaimErasure(p, w) ==
  /\ Stands(p, "idle") /\ lock = NoWriter
  /\ IsOpen(w) /\ req[w].due
  /\ lock' = p
  /\ req' = [req EXCEPT ![w].status = "running", ![w].attempts = @ + 1,
                        ![w].due = FALSE]
  /\ writer' = [writer EXCEPT ![p] = [Idle EXCEPT !.pc = "check", !.id = w]]
  /\ UNCHANGED <<tenant, remote, local, rows, indexed, objects, flight, late, troubles>>

\* Eligibility is asked only while the repository is not recorded as deleted.
CheckEligible(p) ==
  /\ Stands(p, "check")
  /\ LET w == Mine(p)
     IN CASE req[w].rowsGone -> Step(p, "drop")
          [] req[w].repoGone /\ ~req[w].rowsGone -> Step(p, "read")
          [] ~req[w].repoGone /\ tenant[w] \in {"provisioning", "active"} ->
                 FailWith(p, "refused")
          [] OTHER -> Step(p, "remove")
  /\ UNCHANGED <<tenant, remote, local, rows, indexed, objects, flight, req, lock, late,
                 troubles>>

\* The slip: any answer of the code host is taken for a deletion.
RemoveRemoteAnyway(p) ==
  /\ Stands(p, "remove")
  /\ \/ remote' = "absent" /\ Step(p, "record") /\ UNCHANGED troubles
     \/ remote' \in {remote, "absent"} /\ Step(p, "record") /\ Trouble
  /\ UNCHANGED <<tenant, local, rows, indexed, objects, flight, req, lock, late>>

\* provision.remove_remote: deleted, or already absent; an answer may be lost.
RemoveRemote(p) ==
  /\ Stands(p, "remove")
  /\ \/ remote' = "absent" /\ Step(p, "record") /\ UNCHANGED troubles
     \/ remote' \in {remote, "absent"} /\ FailWith(p, "error") /\ Trouble
  /\ UNCHANGED <<tenant, local, rows, indexed, objects, flight, req, lock, late>>

RecordRemoved(p) ==
  /\ Stands(p, "record")
  /\ req' = [req EXCEPT ![Mine(p)].repoGone = TRUE]
  /\ Step(p, "read")
  /\ UNCHANGED <<tenant, remote, local, rows, indexed, objects, flight, lock, late,
                 troubles>>

\* _tenant_refs: the evidence the rows point at is read first, ...
ReadRefs(p) ==
  /\ Stands(p, "read")
  /\ writer' = [writer EXCEPT ![p].pc = "delete", ![p].refs = rows[Mine(p)]]
  /\ UNCHANGED <<tenant, remote, local, rows, indexed, objects, flight, req, lock, late,
                 troubles>>

\* The slip: the rows go in one transaction and their record in the next, so a stop
\* in between forgets the evidence.
DeleteRowsApart(p) ==
  /\ Stands(p, "delete")
  /\ LET w == Mine(p)
     IN \/ /\ rows' = [rows EXCEPT ![w] = {}]
           /\ tenant' = [tenant EXCEPT ![w] = "gone"]
           /\ req' = [req EXCEPT ![w].rowsGone = TRUE, ![w].garbage = writer[p].refs]
           /\ Step(p, "drop")
           /\ UNCHANGED troubles
        \/ /\ rows' = [rows EXCEPT ![w] = {}]
           /\ tenant' = [tenant EXCEPT ![w] = "gone"]
           /\ FailWith(p, "error") /\ Trouble
           /\ UNCHANGED req
  /\ UNCHANGED <<remote, local, indexed, objects, flight, lock, late>>

\* ... then every row is deleted, committed together with the record of it.
DeleteRows(p) ==
  /\ Stands(p, "delete")
  /\ LET w == Mine(p)
     IN \/ /\ rows' = [rows EXCEPT ![w] = {}]
           /\ tenant' = [tenant EXCEPT ![w] = "gone"]
           /\ req' = [req EXCEPT ![w].rowsGone = TRUE, ![w].garbage = writer[p].refs]
           /\ Step(p, "drop")
           /\ UNCHANGED troubles
        \/ /\ FailWith(p, "error") /\ Trouble
           /\ UNCHANGED <<rows, tenant, req>>
  /\ UNCHANGED <<remote, local, indexed, objects, flight, lock, late>>

DropIndexes(p) ==
  /\ Stands(p, "drop")
  /\ \/ indexed' = indexed \ {Mine(p)} /\ Step(p, "sweep") /\ UNCHANGED troubles
     \/ FailWith(p, "error") /\ Trouble /\ UNCHANGED indexed
  /\ UNCHANGED <<tenant, remote, local, rows, objects, flight, req, lock, late>>

\* Identical bytes of another workspace are one object: only what no row needs goes.
SweepEvidence(p) ==
  /\ Stands(p, "sweep")
  /\ \E done \in SUBSET {r \in req[Mine(p)].garbage : ~StillNeeded(r)} :
       /\ objects' = objects \ done
       /\ \/ /\ done = {r \in req[Mine(p)].garbage : ~StillNeeded(r)}
             /\ Step(p, "clean") /\ UNCHANGED troubles
          \/ /\ done # {r \in req[Mine(p)].garbage : ~StillNeeded(r)}
             /\ FailWith(p, "error") /\ Trouble
  /\ UNCHANGED <<tenant, remote, local, rows, indexed, flight, req, lock, late>>

\* garbage=[] is recorded and the checkout removed.
Clean(p) ==
  /\ Stands(p, "clean")
  /\ req' = [req EXCEPT ![Mine(p)].garbage = {}]
  /\ \/ local' = [local EXCEPT ![Mine(p)] = "none"] /\ Step(p, "finish")
        /\ UNCHANGED troubles
     \/ FailWith(p, "error") /\ Trouble /\ UNCHANGED local
  /\ UNCHANGED <<tenant, remote, rows, indexed, objects, flight, lock, late>>

FinishErasure(p) ==
  /\ Stands(p, "finish")
  /\ req' = [req EXCEPT ![Mine(p)].status = "succeeded"]
  /\ Leave(p)
  /\ UNCHANGED <<tenant, remote, local, rows, indexed, objects, flight, late, troubles>>

\* The slip: the attempts are counted first.
OutcomeByCount(w, error) ==
  IF error = "refused" \/ req[w].attempts >= MaxAttempts THEN "failed" ELSE "queued"

\* fail: a removed repository, as recorded, keeps the request open.
Outcome(w, error) ==
  IF req[w].repoGone THEN "queued"
  ELSE IF error = "refused" \/ req[w].attempts >= MaxAttempts THEN "failed"
  ELSE "queued"

Fail(p) ==
  /\ Stands(p, "fail")
  /\ req' = [req EXCEPT ![Mine(p)].status = Outcome(Mine(p), writer[p].error)]
  /\ Leave(p)
  /\ UNCHANGED <<tenant, remote, local, rows, indexed, objects, flight, late, troubles>>
-----------------------------------------------------------------------------
(* The machine and time *)

\* A writer stops: its lock goes with its connection.
Crash(p) ==
  /\ ~Stands(p, "idle") /\ Trouble
  /\ writer' = [writer EXCEPT ![p] = Idle]
  /\ lock' = IF lock = p THEN NoWriter ELSE lock
  /\ UNCHANGED <<tenant, remote, local, rows, indexed, objects, flight, req, late>>

\* next_attempt_at passes.
Due(w) ==
  /\ IsOpen(w) /\ ~req[w].due
  /\ req' = [req EXCEPT ![w].due = TRUE]
  /\ UNCHANGED <<tenant, remote, local, rows, indexed, objects, flight, writer, lock,
                 late, troubles>>

Provision(p) ==
  \/ TryLock(p) \/ CreateRemote(p) \/ PushScaffold(p) \/ Activate(p)

EraseStep(p) ==
  \/ CheckEligible(p) \/ RemoveRemote(p) \/ RecordRemoved(p) \/ ReadRefs(p)
  \/ DeleteRows(p) \/ DropIndexes(p) \/ SweepEvidence(p) \/ Clean(p) \/ FinishErasure(p)
  \/ Fail(p)

Begin(p) == \E w \in Ids : ClaimErasure(p, w) \/ ListWaiting(p, w)

Operate ==
  \E w \in Ids :
    \/ CreateTenant(w)
    \/ \E status \in {"active", "suspended"} : SetStatus(w, status)
    \/ RequestErasure(w)

Contribute ==
  \E w \in Ids : Land(w) \/ \E r \in EvidenceRefs : Admit(w, r) \/ CommitCapture(w, r)

LifeNext ==
  \/ Operate
  \/ Contribute
  \/ \E p \in Writers : Begin(p) \/ Provision(p) \/ EraseStep(p) \/ Crash(p)
  \/ \E w \in Ids : Due(w)

LifeSpec == LifeInit /\ [][LifeNext]_life

\* The loop of each writer goes on, and time passes.
LifeFairness ==
  /\ \A p \in Writers : WF_life(Begin(p) \/ Provision(p) \/ EraseStep(p))
  /\ \A w \in Ids : WF_life(Due(w))

LifeFairSpec == LifeSpec /\ LifeFairness
-----------------------------------------------------------------------------
LifeTypeOK ==
  /\ tenant \in [Ids -> RowStates]
  /\ remote \in Remotes
  /\ local \in [Ids -> Checkouts]
  /\ rows \in [Ids -> SUBSET EvidenceRefs]
  /\ indexed \subseteq Ids /\ objects \subseteq EvidenceRefs /\ late \subseteq EvidenceRefs
  /\ flight \subseteq Ids \X EvidenceRefs
  /\ req \in [Ids -> Request]
  /\ writer \in [Writers -> [pc : {"idle"} \cup Provisioning \cup Deleting,
                             id : Ids \cup {NoId}, refs : SUBSET EvidenceRefs,
                             error : {"none", "error", "refused"}]]
  /\ lock \in Writers \cup {NoWriter}
  /\ troubles \in 0 .. MaxTroubles

\* A removal the writer could not record before its attempts ran out.
Unrecorded(w) ==
  /\ req[w].status = "failed" /\ ~req[w].repoGone
  /\ req[w].attempts >= MaxAttempts

\* erase_workspace.py:210-242, console.py:90-108: whatever a status change, a
\* deletion and a second writer do, no repository of a workspace in use is deleted.
InUseKeepsItsRepository ==
  [][remote # "absent" /\ remote' = "absent"
       => \A w \in Ids : tenant[w] \notin {"provisioning", "active"}]_life

\* erase_workspace.py:249-267: an active workspace has its repository, unless the
\* removal was never recorded and the request was given up.
ActiveIsWhole ==
  \A w \in Ids : tenant[w] = "active" => remote \in {"scaffold", w} \/ Unrecorded(w)

\* erase_workspace.py:5-6: the knowledge in the repository belongs to a workspace
\* that still has its row; the next one of the slug starts from nothing.
SlugHoldsNoOldKnowledge == remote \in Ids => tenant[remote] \in Registered

\* erase_workspace.py:220-242: a deletion that succeeded leaves nothing in any of
\* the five places, except the object of a capture that committed between the
\* reading of its evidence and the deletion of its rows.
ErasedLeavesNothing ==
  \A w \in Ids : req[w].status = "succeeded" =>
    /\ tenant[w] = "gone" /\ rows[w] = {} /\ w \notin indexed
    /\ remote # w /\ local[w] # "knowledge"
    /\ \A r \in objects : StillNeeded(r) \/ r \in late \/ \E v \in Ids : r \in req[v].garbage

\* erase_workspace.py:8-9: once the repository is recorded as gone the request keeps
\* trying until the rest is gone too.
DeletionCompletes ==
  \A w \in Ids : req[w].repoGone ~> req[w].status = "succeeded"

\* worker.py:344-377: a workspace that waits for its repository gets it.
WaitingIsProvisioned ==
  \A w \in Ids : tenant[w] = "provisioning" ~> tenant[w] # "provisioning"

\* Nothing of a deleted workspace stays or comes back, and one in use has what it needs.
DeletedLeavesNothing ==
  /\ ActiveIsWhole
  /\ SlugHoldsNoOldKnowledge
  /\ ErasedLeavesNothing

\* What an administrator asked for comes, and takes nothing from a workspace in use.
RequestsComeThrough ==
  /\ InUseKeepsItsRepository
  /\ DeletionCompletes
  /\ WaitingIsProvisioned
=============================================================================
