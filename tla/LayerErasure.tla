---------------------------- MODULE LayerErasure ----------------------------
(***************************************************************************)
(* Erasing one layer of a workspace: the request and its retries, the      *)
(* rewrite of the knowledge repository, and the rows and evidence that     *)
(* follow it (ops/erasure.py, ops/erase_layer.py, librarian/worker.py).    *)
(*                                                                         *)
(* The remote branch is a sequence of commits, and a commit's SHA is the   *)
(* history that ends with it: rewriting a commit gives a new SHA to it and *)
(* to every later one.  The commit map a rewrite stores follows from its   *)
(* two heads.  The erasure runs under the writer lock beside captures that *)
(* are claimed outside it; the capture path is the one of KnowledgeWriter  *)
(* with its leases and late pushes left out, except that a claimed row may *)
(* be deleted under the writer's feet.                                     *)
(*                                                                         *)
(* A definition introduced as a SLIP is a plausible mistake in the action  *)
(* it names; it is no part of the specification.                           *)
(***************************************************************************)
EXTENDS Naturals, Sequences, FiniteSets, SequencesExt

CONSTANTS
    Layers,       \* layers of the workspace
    Public,       \* the one nobody can ask to erase
    Captures,     \* operations callers submit
    Outside,      \* commits somebody else pushes to the repository
    LayerOf,      \* the audience of each operation: the layer it is filed in
    Touches,      \* the layer folders the commit of an operation changes
    Names,        \* the layers the request of an operation names
    Blob,         \* the content address of a capture's original
    Workers, NoWorker, NoJob,
    MaxAttempts,  \* erasure.MAX_ATTEMPTS
    LatePush,     \* whether a push that failed for its sender may land later
    MaxRequests,  \* bound: erasure requests
    MaxFaults     \* bound: crashes and failing steps

ASSUME ErasureAssumption ==
    /\ LayerOf \in [Captures -> Layers]
    /\ Touches \in [Captures \cup Outside -> SUBSET Layers]
    /\ Names \in [Captures -> SUBSET Layers]
    /\ Public \in Layers
    /\ Captures \cap Outside = {}
    /\ DOMAIN Blob = Captures
    /\ NoWorker \notin Workers
    /\ NoJob \notin Captures \cup Layers
    /\ MaxAttempts \in Nat \ {0}
    /\ LatePush \in BOOLEAN
    /\ MaxRequests \in Nat /\ MaxFaults \in Nat

VARIABLES
    remote,    \* the knowledge branch at the origin
    late,      \* a push whose sender had given up landed
    inflight,  \* pushes that may still land: [from, to]
    row,       \* capture_queue.status; "erased" once the row is deleted
    rowSha,    \* capture_queue.commit_sha
    ledger,    \* knowledge_changes: [sha, folders], sha = NoSha without a row
    objects,   \* evidence objects in the bucket
    indexed,   \* the history the search index was built from
    accepted,  \* captures past the service's closed-layer check, bytes stored
    req,       \* layer_erasures: the last request of each layer
    requests,  \* number of requests made
    lock,      \* WRITER_LOCK_KEY
    pc, job,   \* where each writer process is, and the capture or layer it serves
    sha,       \* the commit a writer process is reporting
    faults

captureVars == <<row, rowSha, ledger, accepted>>
workerVars == <<lock, pc, job, sha>>
vars == <<remote, inflight, late, captureVars, objects, indexed, req, requests, workerVars, faults>>

NoSha == <<>>
Blobs == {Blob[c] : c \in Captures}
Statuses == {"none", "queued", "running", "succeeded", "failed"}
Open(l) == req[l].status \in {"queued", "running"}
ErasePhases == {"checking", "rewriting", "pushing", "marking", "resetting", "purging",
                "collecting", "clearing", "rebuilding", "finishing"}
Commits == [cap : Captures \cup Outside, folders : SUBSET Layers]
Shas == Seq(Commits)

TypeOK ==
    /\ remote \in Shas
    /\ inflight \subseteq [from : Shas, to : Shas]
    /\ row \in [Captures -> {"absent", "queued", "processing", "landed", "failed", "erased"}]
    /\ rowSha \in [Captures -> Shas]
    /\ ledger \in [Captures -> [sha : Shas, folders : SUBSET Layers]]
    /\ objects \subseteq Blobs
    /\ indexed \in Shas
    /\ accepted \subseteq Captures
    /\ req \in [Layers -> [status : Statuses, attempts : 0..MaxAttempts, due : BOOLEAN,
                           at : 0..MaxRequests, old : Shas, new : Shas, recorded : BOOLEAN,
                           pushed : BOOLEAN, garbage : SUBSET Blobs]]
    /\ requests \in 0..MaxRequests
    /\ lock \in Workers \cup {NoWorker}
    /\ pc \in [Workers -> ErasePhases \cup {"idle", "claimed", "filing", "recording", "reporting"}]
    /\ job \in [Workers -> Captures \cup Layers \cup {NoJob}]
    /\ sha \in [Workers -> Shas]
    /\ faults \in 0..MaxFaults

NoRequest == [status |-> "none", attempts |-> 0, due |-> FALSE, at |-> 0, old |-> NoSha,
              new |-> NoSha, recorded |-> FALSE, pushed |-> FALSE, garbage |-> {}]
NoChange == [sha |-> NoSha, folders |-> {}]

Init ==
    /\ remote = <<>>
    /\ inflight = {}
    /\ late = FALSE
    /\ row = [c \in Captures |-> "absent"]
    /\ rowSha = [c \in Captures |-> NoSha]
    /\ ledger = [c \in Captures |-> NoChange]
    /\ objects = {}
    /\ indexed = <<>>
    /\ accepted = {}
    /\ req = [l \in Layers |-> NoRequest]
    /\ requests = 0
    /\ lock = NoWorker
    /\ pc = [w \in Workers |-> "idle"]
    /\ job = [w \in Workers |-> NoJob]
    /\ sha = [w \in Workers |-> NoSha]
    /\ faults = 0

-----------------------------------------------------------------------------
(* Histories.                                                              *)

Holds(h, l) == \E i \in DOMAIN h : l \in h[i].folders

\* git-filter-repo --invert-paths: the folder leaves every commit, and a commit
\* that becomes empty disappears.
Kept(h, l) == {i \in DOMAIN h : h[i].folders # {l}}
Rank(S, i) == Cardinality({j \in S : j <= i})

Filter(h, l) ==
    [k \in 1..Cardinality(Kept(h, l)) |->
        LET i == CHOOSE j \in Kept(h, l) : Rank(Kept(h, l), j) = k IN
        [h[i] EXCEPT !.folders = @ \ {l}]]

\* The stored commit map of a rewrite of `old` without l: NoSha for a removed
\* commit (forty zeros), any other SHA as it is.
Remap(old, l, s) ==
    IF s = NoSha \/ ~IsPrefix(s, old) THEN s
    ELSE IF Last(s).folders = {l} THEN NoSha ELSE Filter(s, l)

\* references.is_live: a queue row or an artifact row still points at the object.
IsLive(rows, b) ==
    \E c \in Captures : Blob[c] = b /\ rows[c] \notin {"absent", "erased"}

-----------------------------------------------------------------------------
(* Captures.                                                               *)

\* capture_bytes: the closed-layer check, then the bytes are stored.
Accept(c) ==
    /\ row[c] = "absent"
    /\ c \notin accepted
    /\ ~Open(LayerOf[c])
    /\ accepted' = accepted \cup {c}
    /\ objects' = objects \cup {Blob[c]}
    /\ UNCHANGED <<remote, inflight, late, row, rowSha, ledger, indexed, req, requests, workerVars,
                   faults>>

\* _queue_envelope checks again and verifies the bytes; the insert comes after.
Refuse(c) ==
    /\ c \in accepted
    /\ Open(LayerOf[c]) \/ Blob[c] \notin objects
    /\ accepted' = accepted \ {c}
    /\ UNCHANGED <<remote, inflight, late, row, rowSha, ledger, objects, indexed, req, requests,
                   workerVars, faults>>

Enqueue(c) ==
    /\ c \in accepted
    /\ Blob[c] \in objects
    /\ accepted' = accepted \ {c}
    /\ row' = [row EXCEPT ![c] = "queued"]
    /\ UNCHANGED <<remote, inflight, late, rowSha, ledger, objects, indexed, req, requests,
                   workerVars, faults>>

\* _PICK never claims a capture of a layer that is being erased.
Claim(w, c) ==
    /\ pc[w] = "idle"
    /\ row[c] = "queued"
    /\ ~Open(LayerOf[c])
    /\ row' = [row EXCEPT ![c] = "processing"]
    /\ pc' = [pc EXCEPT ![w] = "claimed"]
    /\ job' = [job EXCEPT ![w] = c]
    /\ UNCHANGED <<remote, inflight, late, rowSha, ledger, accepted, objects, indexed, req, requests,
                   lock, sha, faults>>

\* release_expired, under the writer lock: nobody carries the row any more.
Reclaim(c) ==
    /\ lock = NoWorker
    /\ row[c] = "processing"
    /\ \A w \in Workers : job[w] # c
    /\ row' = [row EXCEPT ![c] = "queued"]
    /\ UNCHANGED <<remote, inflight, late, rowSha, ledger, accepted, objects, indexed, req, requests,
                   workerVars, faults>>

Unlocked(w) == IF lock = w THEN NoWorker ELSE lock

Rest(w) ==
    /\ pc' = [pc EXCEPT ![w] = "idle"]
    /\ job' = [job EXCEPT ![w] = NoJob]
    /\ sha' = [sha EXCEPT ![w] = NoSha]
    /\ lock' = Unlocked(w)

\* Under the lock the writer first looks for the capture's commit, by trailer.
CommitOf(c) == {i \in DOMAIN remote : remote[i].cap = c}

Recover(w) ==
    /\ pc[w] = "claimed"
    /\ lock = NoWorker
    /\ \E i \in CommitOf(job[w]) : sha' = [sha EXCEPT ![w] = SubSeq(remote, 1, i)]
    /\ lock' = w
    /\ pc' = [pc EXCEPT ![w] = "recording"]
    /\ UNCHANGED <<remote, inflight, late, captureVars, objects, indexed, req, requests, job, faults>>

\* A commit adds to its own layer; elsewhere it only sweeps pages that exist.
FoldersOf(c) == {LayerOf[c]} \cup {f \in Touches[c] : Holds(remote, f)}

\* The commit is made on the tip; a lost row ends the attempt before the push.
File(w) ==
    LET c == job[w]
        held == row[c] = "processing" IN
    /\ pc[w] = "claimed"
    /\ lock = NoWorker
    /\ CommitOf(c) = {}
    /\ sha' = [sha EXCEPT ![w] = IF held THEN Append(remote, [cap |-> c, folders |-> FoldersOf(c)])
                                 ELSE NoSha]
    /\ lock' = IF held THEN w ELSE NoWorker
    /\ pc' = [pc EXCEPT ![w] = IF held THEN "filing" ELSE "idle"]
    /\ job' = [job EXCEPT ![w] = IF held THEN c ELSE NoJob]
    /\ UNCHANGED <<remote, inflight, late, captureVars, objects, indexed, req, requests, faults>>

\* A plain push: accepted only onto the commit it was made on.
Publish(w) ==
    /\ pc[w] = "filing"
    /\ remote = Front(sha[w])
    /\ remote' = sha[w]
    /\ pc' = [pc EXCEPT ![w] = "recording"]
    /\ UNCHANGED <<inflight, late, captureVars, objects, indexed, req, requests, lock, job, sha, faults>>

RecordChange(w) ==
    LET c == job[w] IN
    /\ pc[w] = "recording"
    /\ ledger' = [ledger EXCEPT ![c] = [sha |-> sha[w], folders |-> Last(sha[w]).folders]]
    /\ lock' = NoWorker
    /\ pc' = [pc EXCEPT ![w] = "reporting"]
    /\ UNCHANGED <<remote, inflight, late, row, rowSha, accepted, objects, indexed, req, requests, job,
                   sha, faults>>

\* finish_landed, outside the lock, with the SHA the attempt carries; a row that is gone or
\* settled stays as it is, and the attempt ends without a word.
Finish(w) ==
    LET c == job[w]
        held == row[c] = "processing" IN
    /\ pc[w] = "reporting"
    /\ row' = [row EXCEPT ![c] = IF held THEN "landed" ELSE @]
    /\ rowSha' = [rowSha EXCEPT ![c] = IF held THEN sha[w] ELSE @]
    /\ Rest(w)
    /\ UNCHANGED <<remote, inflight, late, ledger, accepted, objects, indexed, req, requests, faults>>

\* The attempt fails: a push it sent may still be under way, a refused one is not.
FailCapture(w) ==
    LET c == job[w] IN
    /\ pc[w] \in {"claimed", "filing", "recording"}
    /\ faults < MaxFaults
    /\ faults' = faults + 1
    /\ IF LatePush /\ pc[w] = "filing"
       THEN inflight' = inflight \cup {[from |-> Front(sha[w]), to |-> sha[w]]}
       ELSE inflight' = inflight
    /\ UNCHANGED late
    /\ row' = IF row[c] = "processing" THEN [row EXCEPT ![c] = "queued"] ELSE row
    /\ Rest(w)
    /\ UNCHANGED <<remote, rowSha, ledger, accepted, objects, indexed, req, requests>>

\* A plain push onto a moved branch is refused.
PublishRefused(w) ==
    LET c == job[w] IN
    /\ pc[w] = "filing"
    /\ remote # Front(sha[w])
    /\ row' = [row EXCEPT ![c] = "failed"]
    /\ Rest(w)
    /\ UNCHANGED <<remote, inflight, late, rowSha, ledger, accepted, objects, indexed, req, requests,
                   faults>>

OutsidePush(c) ==
    /\ CommitOf(c) = {}
    /\ remote' = Append(remote, [cap |-> c, folders |-> Touches[c]])
    /\ UNCHANGED <<inflight, late, captureVars, objects, indexed, req, requests, workerVars, faults>>

\* A push its sender gave up on: taken if the branch is still where it was,
\* refused otherwise.
Land(p) ==
    /\ inflight' = inflight \ {p}
    /\ remote' = IF remote = p.from THEN p.to ELSE remote
    /\ late' = (late \/ remote = p.from)
    /\ UNCHANGED <<captureVars, objects, indexed, req, requests, workerVars, faults>>

-----------------------------------------------------------------------------
(* The request.                                                            *)

Request(l) ==
    /\ l # Public
    /\ ~Open(l)
    /\ requests < MaxRequests
    /\ requests' = requests + 1
    /\ req' = [req EXCEPT ![l] = [NoRequest EXCEPT !.status = "queued", !.due = TRUE,
                                                   !.at = requests + 1]]
    /\ UNCHANGED <<remote, inflight, late, captureVars, objects, indexed, workerVars, faults>>

\* The backoff of the last claim passes.
Backoff(l) ==
    /\ Open(l)
    /\ ~req[l].due
    /\ req' = [req EXCEPT ![l].due = TRUE]
    /\ UNCHANGED <<remote, inflight, late, captureVars, objects, indexed, requests, workerVars, faults>>

\* _DUE: due, and never while another open request has a rewrite that may be
\* pushed.
Due(l) ==
    /\ Open(l)
    /\ req[l].due
    /\ \/ req[l].pushed \/ req[l].recorded
       \/ ~\E m \in Layers \ {l} : Open(m) /\ (req[m].pushed \/ req[m].recorded)

\* SLIP of Abandoned: given up for its attempts, whatever it has pushed.
AbandonedAlways ==
    {l \in Layers : req[l].status = "running" /\ req[l].attempts >= MaxAttempts}

\* The requests the first statement of `claim` gives up: their writer stopped in
\* every attempt before a rewrite was recorded.
Abandoned ==
    {l \in Layers : /\ req[l].status = "running"
                    /\ ~req[l].pushed /\ ~req[l].recorded
                    /\ req[l].attempts >= MaxAttempts}

GiveUp(l) == [req[l] EXCEPT !.status = "failed"]

\* Only a due request brings the writer here, and by then it may be given up.
ClaimErasure(w) ==
    LET due == {l \in Layers : Due(l)}
        left == due \ Abandoned
        given == [l \in Layers |-> IF l \in Abandoned THEN GiveUp(l) ELSE req[l]] IN
    /\ pc[w] = "idle"
    /\ lock = NoWorker
    /\ due # {}
    /\ IF left = {}
       THEN /\ req' = given
            /\ UNCHANGED <<lock, pc, job>>
       ELSE \E l \in left :
              /\ \A m \in left : req[l].at <= req[m].at
              /\ req' = [given EXCEPT ![l].status = "running", ![l].due = FALSE,
                                      ![l].attempts = IF @ < MaxAttempts THEN @ + 1 ELSE @]
              /\ lock' = w
              /\ pc' = [pc EXCEPT ![w] = "checking"]
              /\ job' = [job EXCEPT ![w] = l]
    /\ UNCHANGED <<remote, inflight, late, captureVars, objects, indexed, requests, sha, faults>>

Step(w, from, to) ==
    /\ pc[w] = from
    /\ pc' = [pc EXCEPT ![w] = to]
    /\ UNCHANGED <<lock, job, sha, inflight, late, requests, faults>>

\* _reached: the rewritten head is the branch or an ancestor of it; a rewrite
\* that changed nothing has always reached the remote.
Reached(l) == req[l].old = req[l].new \/ IsPrefix(req[l].new, remote)

\* A request whose rewrite is on the remote resumes after the push.
CheckReached(w) ==
    LET l == job[w]
        pushed == req[l].pushed \/ (req[l].recorded /\ Reached(l)) IN
    /\ Step(w, "checking", IF pushed THEN "resetting" ELSE "rewriting")
    /\ req' = [req EXCEPT ![l].pushed = pushed]
    /\ UNCHANGED <<remote, captureVars, objects, indexed>>

\* Mirror, filter, and store the commit map before anything is pushed.
RecordRewrite(w) ==
    LET l == job[w] IN
    /\ Step(w, "rewriting", IF Holds(remote, l) THEN "pushing" ELSE "marking")
    /\ req' = [req EXCEPT ![l].old = remote, ![l].new = Filter(remote, l), ![l].recorded = TRUE]
    /\ UNCHANGED <<remote, captureVars, objects, indexed>>

\* SLIP of PushRewrite: a plain --force.
PushRewriteForced(w) ==
    /\ Step(w, "pushing", "marking")
    /\ remote' = req[job[w]].new
    /\ UNCHANGED <<captureVars, objects, indexed, req>>

\* --force-with-lease on every ref.
PushRewrite(w) ==
    /\ Step(w, "pushing", "marking")
    /\ remote = req[job[w]].old
    /\ remote' = req[job[w]].new
    /\ UNCHANGED <<captureVars, objects, indexed, req>>

MarkPushed(w) ==
    /\ Step(w, "marking", "resetting")
    /\ req' = [req EXCEPT ![job[w]].pushed = TRUE]
    /\ UNCHANGED <<remote, captureVars, objects, indexed>>

\* _reset_checkout, then no ref may hold the layer.
Clean(l) == IsPrefix(req[l].new, remote) /\ ~Holds(remote, l)

ResetCheckout(w) ==
    /\ Step(w, "resetting", "purging")
    /\ Clean(job[w])
    /\ UNCHANGED <<remote, captureVars, objects, indexed, req>>

\* _rewrite_ledger: drop the changes that only touched the layer, remap the others.
RewrittenChange(l, change) ==
    LET moved == Remap(req[l].old, l, change.sha) IN
    IF change.folders \subseteq {l} \/ moved = NoSha THEN NoChange
    ELSE [sha |-> moved, folders |-> change.folders \ {l}]

\* SLIP of PurgedRow: what a writer is working on is left to it.
PurgedRowIdle(l, c) ==
    IF row[c] \in {"absent", "erased", "processing"} THEN row[c]
    ELSE IF LayerOf[c] = l THEN "erased" ELSE row[c]

\* The layer's captures are deleted; other open work that names it fails.
PurgedRow(l, c) ==
    IF row[c] \in {"absent", "erased"} THEN row[c]
    ELSE IF LayerOf[c] = l THEN "erased"
    ELSE IF l \in Names[c] /\ row[c] \in {"queued", "processing"} THEN "failed"
    ELSE row[c]

\* SLIP of PurgedSha: only the ledger follows the rewrite.
PurgedShaLeft(l, c) == IF LayerOf[c] = l THEN NoSha ELSE rowSha[c]

PurgedSha(l, c) == IF LayerOf[c] = l THEN NoSha ELSE Remap(req[l].old, l, rowSha[c])

\* One transaction: rows, ledger, and the objects left without a reference.
Purge(w) ==
    LET l == job[w]
        mine == {c \in Captures : LayerOf[c] = l /\ row[c] \notin {"absent", "erased"}} IN
    /\ Step(w, "purging", "collecting")
    /\ row' = [c \in Captures |-> PurgedRow(l, c)]
    /\ rowSha' = [c \in Captures |-> PurgedSha(l, c)]
    /\ ledger' = [c \in Captures |-> RewrittenChange(l, ledger[c])]
    /\ req' = [req EXCEPT ![l].garbage =
                  @ \cup {Blob[c] : c \in {d \in mine : ~IsLive(row', Blob[d])}}]
    /\ UNCHANGED <<remote, accepted, objects, indexed>>

\* _collect_garbage looks again before it deletes; the look and the deletion are
\* two statements apart, which EvidencePlane is about.  A stop between
\* two objects is a stop before this step that some deletions survive.
Collect(w) ==
    /\ Step(w, "collecting", "clearing")
    /\ objects' = {b \in objects : b \in req[job[w]].garbage => IsLive(row, b)}
    /\ UNCHANGED <<remote, captureVars, indexed, req>>

ClearGarbage(w) ==
    /\ Step(w, "clearing", "rebuilding")
    /\ req' = [req EXCEPT ![job[w]].garbage = {}]
    /\ UNCHANGED <<remote, captureVars, objects, indexed>>

\* The checkout is at the fetched head, rewritten or later.
RebuildIndex(w) ==
    /\ Step(w, "rebuilding", "finishing")
    /\ \E n \in Len(req[job[w]].new)..Len(remote) : indexed' = SubSeq(remote, 1, n)
    /\ UNCHANGED <<remote, captureVars, objects, req>>

Succeed(w) ==
    /\ pc[w] = "finishing"
    /\ req' = [req EXCEPT ![job[w]].status = "succeeded"]
    /\ Rest(w)
    /\ UNCHANGED <<remote, inflight, late, captureVars, objects, indexed, requests, faults>>

\* SLIP of MayBePushed: what was not marked is taken for not pushed.
MayBePushedIfMarked(l) == req[l].pushed

\* _may_be_pushed: unless the rewrite verifiably never reached the remote.
MayBePushed(l) == req[l].pushed \/ (req[l].recorded /\ Reached(l))

\* An attempt fails for good only when nothing was pushed; a look at the remote
\* that fails counts as pushed.
FailAttempt(w) ==
    LET l == job[w] IN
    /\ \/ /\ req[l].attempts < MaxAttempts \/ req[l].pushed \/ req[l].recorded
          /\ req' = [req EXCEPT ![l].status = "queued"]
       \/ /\ req[l].attempts >= MaxAttempts
          /\ ~MayBePushed(l)
          /\ req' = [req EXCEPT ![l] = [NoRequest EXCEPT !.status = "failed", !.at = req[l].at]]
    /\ Rest(w)
    /\ UNCHANGED <<remote, captureVars, objects, indexed, requests>>

\* Git, Postgres, the bucket or the embedder fails.
StepFails(w) ==
    /\ pc[w] \in ErasePhases
    /\ faults < MaxFaults
    /\ faults' = faults + 1
    /\ IF LatePush /\ pc[w] = "pushing"
       THEN inflight' = inflight \cup {[from |-> req[job[w]].old, to |-> req[job[w]].new]}
       ELSE inflight' = inflight
    /\ UNCHANGED late
    /\ FailAttempt(w)

\* The refusals the code itself raises: a lease that no longer holds, a branch
\* without the rewritten history, a layer that is there again.
Refused(w) ==
    /\ \/ pc[w] = "pushing" /\ remote # req[job[w]].old
       \/ pc[w] = "resetting" /\ ~Clean(job[w])
    /\ FailAttempt(w)
    /\ UNCHANGED <<inflight, late, faults>>

\* The process stops and starts again: the lock is free, the rows stay.
Crash(w) ==
    /\ pc[w] # "idle"
    /\ faults < MaxFaults
    /\ faults' = faults + 1
    /\ Rest(w)
    /\ UNCHANGED <<remote, inflight, late, captureVars, objects, indexed, req, requests>>

-----------------------------------------------------------------------------
CaptureStep(w) ==
    \/ Recover(w) \/ File(w) \/ Publish(w) \/ PublishRefused(w) \/ RecordChange(w)
    \/ Finish(w)

EraseStep(w) ==
    \/ CheckReached(w) \/ RecordRewrite(w) \/ PushRewrite(w) \/ MarkPushed(w)
    \/ ResetCheckout(w) \/ Purge(w) \/ Collect(w) \/ ClearGarbage(w) \/ RebuildIndex(w)
    \/ Succeed(w) \/ Refused(w)

Next ==
    \/ \E c \in Captures : Accept(c) \/ Refuse(c) \/ Enqueue(c) \/ Reclaim(c)
    \/ \E l \in Layers : Request(l) \/ Backoff(l)
    \/ \E w \in Workers :
         \/ \E c \in Captures : Claim(w, c)
         \/ CaptureStep(w) \/ FailCapture(w)
         \/ ClaimErasure(w) \/ EraseStep(w) \/ StepFails(w) \/ Crash(w)
    \/ \E c \in Outside : OutsidePush(c)
    \/ \E p \in inflight : Land(p)

Spec == Init /\ [][Next]_vars

\* A backoff ends, a running step ends within its deadline, and the loop looks
\* for a due erasure and for the lock on every pass.
FairSpec ==
    /\ Spec
    /\ \A l \in Layers : WF_vars(Backoff(l))
    /\ \A w \in Workers :
         /\ WF_vars(CaptureStep(w))
         /\ WF_vars(EraseStep(w))
         /\ SF_vars(ClaimErasure(w))

-----------------------------------------------------------------------------
(* Properties.                                                             *)

\* The commit a stored SHA stands for is on the branch, or will be once the
\* open request whose rewrite reached the remote has remapped it.
Resolves(s) ==
    \/ IsPrefix(s, remote)
    \/ \E l \in Layers : /\ Open(l)
                         /\ req[l].recorded
                         /\ IsPrefix(Remap(req[l].old, l, s), remote)

\* specs/data-erasure.md ER-06, `every change row's SHA resolves`: whatever
\* attempts, crashes and resumed runs the rewrite went through, unless a push
\* lands after its sender gave it up.
LedgerResolves == ~late => \A c \in Captures : Resolves(ledger[c].sha)

\* The same for the commit a landed capture reports (_remap of capture_queue).
LandedResolves == ~late => \A c \in Captures : row[c] = "landed" => Resolves(rowSha[c])

\* No record of a commit outlives it, in the change history or on the row of its capture.
RecordsResolve ==
    /\ LedgerResolves
    /\ LandedResolves

\* Complete or not claimed: when a request succeeds no store holds the layer,
\* unless a push landed after its sender gave it up.
\* A row of the layer that is still there was inserted after the purge by a
\* caller the request overtook, and was never claimed; the bytes of a deleted
\* row stay only if something else needs them; what somebody else pushed into
\* the folder since the checkout was reset is not the platform's.
Erased(l) ==
    /\ \A h \in {remote, indexed} : \A i \in DOMAIN h : h[i].cap \in Captures => l \notin h[i].folders
    /\ \A c \in Captures : l \notin ledger[c].folders
    /\ \A c \in Captures : LayerOf[c] = l => row[c] \in {"absent", "queued", "erased"}
    /\ \A c \in Captures : (LayerOf[c] = l /\ row[c] = "erased" /\ Blob[c] \in objects) =>
          IsLive(row, Blob[c]) \/ \E d \in Captures \ {c} : Blob[d] = Blob[c]

SuccessIsComplete ==
    [][\A l \in Layers : (~late /\ req[l].status # "succeeded" /\ req'[l].status = "succeeded")
                           => Erased(l)]_vars

\* Everything else untouched: a commit keeps the folders of every layer nobody
\* asked to erase, whoever pushed it (the lease of each ref).
Filed(h) == UNION {{<<h[i].cap, f>> : f \in h[i].folders} : i \in DOMAIN h}

OthersKept ==
    [][\A filed \in Filed(remote) \ Filed(remote') : req[filed[2]].status # "none"]_vars

\* Once the remote is clean of the layer its request succeeds, through crashes
\* and failing steps: nothing files in a closed layer (the exclusion of _PICK),
\* and every step after the push can run again.  A push by somebody else, or one
\* that lands late, can make the remote hold the layer again.
CleanSucceeds ==
    \A l \in Layers \ {Public} :
        (Open(l) /\ req[l].pushed /\ ~Holds(remote, l)) ~>
            (late \/ Holds(remote, l) \/ req[l].status = "succeeded")

\* A request that is clean succeeds, and one that succeeded is complete.
ErasureCompletes ==
    /\ SuccessIsComplete
    /\ CleanSucceeds
-----------------------------------------------------------------------------
(* What the code does not keep, which no run checks (README, section 5).   *)

\* erase_layer.py:175, `Whether the remote already holds the stored rewrite`.  A request
\* marked as pushed has its rewrite on the remote, not the history it replaces: not so
\* when the layer's commits are the last, for the new head is then an ancestor of the old.
MarkedLanded ==
    \A l \in Layers :
        (Open(l) /\ req[l].pushed /\ req[l].old # req[l].new) => ~IsPrefix(req[l].old, remote)

\* ER-03, `During the erase a capture to L is refused`.
ClosedRefuses ==
    [][\A c \in Captures : (row[c] = "absent" /\ row'[c] # "absent") => ~Open(LayerOf[c])]_vars
=============================================================================
