---------------------------- MODULE EvidencePlane ----------------------------
(***************************************************************************)
(* The content-addressed evidence store and the rows that keep its objects *)
(* alive (capture/evidence.py, references.py, uploads.py, service.py, and  *)
(* the evidence side of knowledge/writer.py).                              *)
(*                                                                         *)
(* Captures arrive with their bytes (capture_bytes) or through an upload   *)
(* session.  A writer process extracts, files and records them; a delete   *)
(* operation on a filed source releases its artifacts; expired upload      *)
(* sessions are purged.  Two captures with the same bytes share an object, *)
(* whichever tenants they belong to.  Every statement outside the upload   *)
(* transaction commits by itself.  Leases, the remote and the claim order  *)
(* are those of KnowledgeWriter and are left out.                          *)
(*                                                                         *)
(* A definition introduced as a SLIP is a plausible mistake in the action  *)
(* it names; it is no part of the specification.                           *)
(***************************************************************************)
EXTENDS Naturals, FiniteSets

CONSTANTS
    Captures,    \* captures callers submit, of any tenant
    Uploads,     \* those that arrive through an upload session
    Original,    \* the content address of each capture's bytes
    Readable,    \* the content address of the text extracted from them
    Workers,     \* writer processes
    NoCapture,
    SweepsAlone, \* whether no object is acquired while a sweep checks and deletes
    MaxFaults    \* bound: crashes of a writer process

ASSUME EvidenceAssumption ==
    /\ Uploads \subseteq Captures
    /\ DOMAIN Original = Captures /\ DOMAIN Readable = Captures
    /\ NoCapture \notin Captures
    /\ SweepsAlone \in BOOLEAN
    /\ MaxFaults \in Nat

VARIABLES
    stored,     \* objects in the bucket
    row,        \* capture_queue.status of each capture
    extracted,  \* captures whose extraction is recorded on their row
    artifacts,  \* capture_artifacts of each capture: live, released or no rows
    source,     \* the source page of each capture in the knowledge repository
    deletion,   \* capture_queue.status of the delete operation on each source
    session,    \* upload_sessions of each uploaded capture
    expired,    \* sessions past expires_at
    request,    \* where the service is with each submission
    pc, job,    \* where each writer process is, and the capture it works for
    chosen,     \* sessions a purge selected
    left,       \* references a sweep has still to check
    doomed,     \* references a sweep found without a user and will delete
    faults

serviceVars == <<session, expired, request>>
sweepVars == <<chosen, left, doomed>>
filingVars == <<extracted, artifacts, source>>
vars == <<stored, row, filingVars, deletion, serviceVars, pc, job, sweepVars, faults>>

Refs(c) == {Original[c], Readable[c]}
Blobs == UNION {Refs(c) : c \in Captures}
Statuses == {"absent", "queued", "processing", "landed", "failed"}
DeletePhases == {"deleting", "releasing", "sweeping", "closing"}

TypeOK ==
    /\ stored \subseteq Blobs
    /\ row \in [Captures -> Statuses]
    /\ extracted \subseteq Captures
    /\ artifacts \in [Captures -> {"none", "live", "released"}]
    /\ source \in [Captures -> {"none", "filed", "deleted"}]
    /\ deletion \in [Captures -> Statuses]
    /\ session \in [Uploads -> {"none", "open", "uploaded", "verified", "consumed", "gone"}]
    /\ expired \subseteq Uploads
    /\ request \in [Captures -> {"idle", "putting", "stored", "verified"}]
    /\ pc \in [Workers -> {"idle", "extracting", "storing", "noting", "filing", "recording",
                           "finishing", "purging"} \cup DeletePhases]
    /\ job \in [Workers -> Captures \cup {NoCapture}]
    /\ chosen \in [Workers -> SUBSET Uploads]
    /\ left \in [Workers -> SUBSET Blobs]
    /\ doomed \in [Workers -> SUBSET Blobs]
    /\ faults \in 0..MaxFaults

Init ==
    /\ stored = {}
    /\ row = [c \in Captures |-> "absent"]
    /\ extracted = {}
    /\ artifacts = [c \in Captures |-> "none"]
    /\ source = [c \in Captures |-> "none"]
    /\ deletion = [c \in Captures |-> "absent"]
    /\ session = [c \in Uploads |-> "none"]
    /\ expired = {}
    /\ request = [c \in Captures |-> "idle"]
    /\ pc = [w \in Workers |-> "idle"]
    /\ job = [w \in Workers |-> NoCapture]
    /\ chosen = [w \in Workers |-> {}]
    /\ left = [w \in Workers |-> {}]
    /\ doomed = [w \in Workers |-> {}]
    /\ faults = 0

-----------------------------------------------------------------------------
(* References.                                                             *)

\* The row of a capture that has not landed, and the references it carries.
Open(c) == row[c] \in {"queued", "processing", "failed"}
Noted(c) == IF c \in extracted THEN Refs(c) ELSE {Original[c]}

IsLiveOpenOnly(rows, b) == \* SLIP: a failed capture, which may be retried, keeps nothing
    \/ \E c \in Captures : rows[c] = "live" /\ b \in Refs(c)
    \/ \E c \in Uploads : /\ Original[c] = b /\ c \notin expired
                          /\ session[c] \in {"open", "uploaded", "verified"}
    \/ \E c \in Captures : row[c] \in {"queued", "processing"} /\ b \in Noted(c)

\* references.is_live, with the artifact rows as given: a live one, an unconsumed session
\* that has not expired, or a capture that has not landed still needs the object.
IsLive(rows, b) ==
    \/ \E c \in Captures : rows[c] = "live" /\ b \in Refs(c)
    \/ \E c \in Uploads : /\ Original[c] = b /\ c \notin expired
                          /\ session[c] \in {"open", "uploaded", "verified"}
    \/ \E c \in Captures : Open(c) /\ b \in Noted(c)

\* Objects are being put or verified: by the service, or by a writer extracting.
Acquiring == \/ \E c \in Captures : request[c] # "idle"
             \/ \E w \in Workers : pc[w] \in {"extracting", "storing", "noting"}
Sweeping == \E w \in Workers : doomed[w] # {}
MayAcquire == SweepsAlone => ~Sweeping
MaySweep == SweepsAlone => ~Acquiring

-----------------------------------------------------------------------------
(* The service.                                                            *)

\* create_upload: a session with a presigned URL.
OpenSession(c) ==
    /\ session[c] = "none"
    /\ session' = [session EXCEPT ![c] = "open"]
    /\ UNCHANGED <<stored, row, filingVars, deletion, expired, request, pc, job, sweepVars, faults>>

\* The client puts the bytes at the staging key of its session.
Upload(c) ==
    /\ session[c] = "open"
    /\ session' = [session EXCEPT ![c] = "uploaded"]
    /\ UNCHANGED <<stored, row, filingVars, deletion, expired, request, pc, job, sweepVars, faults>>

Expire(c) ==
    /\ session[c] # "none" /\ c \notin expired
    /\ expired' = expired \cup {c}
    /\ UNCHANGED <<stored, row, filingVars, deletion, session, request, pc, job, sweepVars, faults>>

\* EvidenceStore.put looks for the object and writes it only when it is not there.
LookBeforePut(c) == IF Original[c] \in stored THEN "stored" ELSE "putting"

\* capture_bytes: an idempotency key already queued returns its receipt.
Submit(c) ==
    /\ c \notin Uploads
    /\ request[c] = "idle" /\ row[c] = "absent" /\ MayAcquire
    /\ request' = [request EXCEPT ![c] = LookBeforePut(c)]
    /\ UNCHANGED <<stored, row, filingVars, deletion, session, expired, pc, job, sweepVars, faults>>

\* finalize_uploads, in a transaction that holds the session's row: a verified
\* session is taken as it is, expired or not; any other must not have expired.
Finalize(c) ==
    /\ request[c] = "idle" /\ row[c] = "absent" /\ MayAcquire
    /\ \/ /\ session[c] = "verified"
          /\ request' = [request EXCEPT ![c] = "stored"]
       \/ /\ session[c] = "uploaded" /\ c \notin expired
          /\ request' = [request EXCEPT ![c] = LookBeforePut(c)]
    /\ UNCHANGED <<stored, row, filingVars, deletion, session, expired, pc, job, sweepVars, faults>>

Put(c) ==
    /\ request[c] = "putting"
    /\ stored' = stored \cup {Original[c]}
    /\ request' = [request EXCEPT ![c] = "stored"]
    /\ UNCHANGED <<row, filingVars, deletion, session, expired, pc, job, sweepVars, faults>>

\* _verified_upload_state verifies the uploads in a transaction of its own, before
\* the classifier picks the layer; the capture's transaction comes after.
CommitVerified(c) ==
    /\ c \in Uploads /\ request[c] = "stored"
    /\ session' = [session EXCEPT ![c] = "verified"]
    /\ request' = [request EXCEPT ![c] = "idle"]
    /\ UNCHANGED <<stored, row, filingVars, deletion, expired, pc, job, sweepVars, faults>>

\* _queue_envelope reads every object back before it queues the capture.
Verify(c) ==
    /\ request[c] = "stored"
    /\ request' = [request EXCEPT ![c] = IF Original[c] \in stored THEN "verified" ELSE "idle"]
    /\ UNCHANGED <<stored, row, filingVars, deletion, session, expired, pc, job, sweepVars, faults>>

\* enqueue_capture, and for an upload consume_uploads and the commit of both.
Enqueue(c) ==
    /\ request[c] = "verified"
    /\ row' = [row EXCEPT ![c] = "queued"]
    /\ session' = [u \in Uploads |-> IF u = c THEN "consumed" ELSE session[u]]
    /\ request' = [request EXCEPT ![c] = "idle"]
    /\ UNCHANGED <<stored, filingVars, deletion, expired, pc, job, sweepVars, faults>>

\* The request fails or its server stops: the transaction rolls back, and the
\* objects it put stay.
Abort(c) ==
    /\ request[c] # "idle"
    /\ request' = [request EXCEPT ![c] = "idle"]
    /\ UNCHANGED <<stored, row, filingVars, deletion, session, expired, pc, job, sweepVars, faults>>

\* An administrator retries a failed capture.
Retry(c) ==
    /\ row[c] = "failed"
    /\ row' = [row EXCEPT ![c] = "queued"]
    /\ UNCHANGED <<stored, filingVars, deletion, serviceVars, pc, job, sweepVars, faults>>

\* delete_pages on the source page of a capture.
DeleteSource(c) ==
    /\ source[c] = "filed" /\ deletion[c] = "absent"
    /\ deletion' = [deletion EXCEPT ![c] = "queued"]
    /\ UNCHANGED <<stored, row, filingVars, serviceVars, pc, job, sweepVars, faults>>

-----------------------------------------------------------------------------
(* Filing, under the writer lock.                                          *)

\* The lock is free: whoever else works is done with it, or purges, which takes none.
Unlocked == \A v \in Workers : pc[v] \in {"idle", "finishing", "closing", "purging"}

Claim(w, c) ==
    /\ pc[w] = "idle" /\ Unlocked
    /\ row[c] = "queued" /\ MayAcquire
    /\ row' = [row EXCEPT ![c] = "processing"]
    /\ pc' = [pc EXCEPT ![w] = "extracting"]
    /\ job' = [job EXCEPT ![w] = c]
    /\ UNCHANGED <<stored, filingVars, deletion, serviceVars, sweepVars, faults>>

At(w, phase, next) == /\ pc[w] = phase
                      /\ pc' = [pc EXCEPT ![w] = next]

\* After extraction a capture whose commit is in the history is only recorded
\* (_recover); any other first notes what extraction stored.
AfterExtraction(c) == IF source[c] = "none" THEN "noting" ELSE "recording"

\* extract_capture reads the original and puts the text it finds.
Extract(w) ==
    /\ pc[w] = "extracting" /\ Original[job[w]] \in stored
    /\ At(w, "extracting", IF Readable[job[w]] \in stored THEN AfterExtraction(job[w])
                                                          ELSE "storing")
    /\ UNCHANGED <<stored, row, filingVars, deletion, serviceVars, job, sweepVars, faults>>

StoreReadable(w) ==
    /\ pc[w] = "storing"
    /\ At(w, "storing", AfterExtraction(job[w]))
    /\ stored' = stored \cup {Readable[job[w]]}
    /\ UNCHANGED <<row, filingVars, deletion, serviceVars, job, sweepVars, faults>>

RecordExtraction(w) ==
    /\ At(w, "noting", "filing")
    /\ extracted' = extracted \cup {job[w]}
    /\ UNCHANGED <<stored, row, artifacts, source, deletion, serviceVars, job, sweepVars, faults>>

File(w) ==
    /\ At(w, "filing", "recording")
    /\ source' = [source EXCEPT ![job[w]] = "filed"]
    /\ UNCHANGED <<stored, row, extracted, artifacts, deletion, serviceVars, job, sweepVars, faults>>

\* references.record_capture: on conflict the rows are live again.
RecordCapture(w) ==
    /\ At(w, "recording", "finishing")
    /\ artifacts' = [artifacts EXCEPT ![job[w]] = "live"]
    /\ UNCHANGED <<stored, row, extracted, source, deletion, serviceVars, job, sweepVars, faults>>

Finish(w) ==
    /\ At(w, "finishing", "idle")
    /\ row' = [row EXCEPT ![job[w]] = "landed"]
    /\ job' = [job EXCEPT ![w] = NoCapture]
    /\ UNCHANGED <<stored, filingVars, deletion, serviceVars, sweepVars, faults>>

\* A gate, or the extraction, refuses the capture for good.
Reject(w) ==
    /\ pc[w] \in {"extracting", "filing"}
    /\ pc' = [pc EXCEPT ![w] = "idle"]
    /\ row' = [row EXCEPT ![job[w]] = "failed"]
    /\ job' = [job EXCEPT ![w] = NoCapture]
    /\ UNCHANGED <<stored, filingVars, deletion, serviceVars, sweepVars, faults>>

-----------------------------------------------------------------------------
(* Sweeps.                                                                 *)

ClaimDelete(w, c) ==
    /\ pc[w] = "idle" /\ Unlocked
    /\ deletion[c] = "queued"
    /\ deletion' = [deletion EXCEPT ![c] = "processing"]
    /\ pc' = [pc EXCEPT ![w] = IF source[c] = "deleted" THEN "releasing" ELSE "deleting"]
    /\ job' = [job EXCEPT ![w] = c]
    /\ UNCHANGED <<stored, row, filingVars, serviceVars, sweepVars, faults>>

\* The commit that deletes the source page lands.
Delete(w) ==
    /\ At(w, "deleting", "releasing")
    /\ source' = [source EXCEPT ![job[w]] = "deleted"]
    /\ UNCHANGED <<stored, row, extracted, artifacts, deletion, serviceVars, job, sweepVars, faults>>

ReleasedNow(c) == \* SLIP: only rows this call releases are looked at
    IF artifacts[c] = "live" THEN Refs(c) ELSE {}

\* release_sources: the source's artifact rows are released, those released
\* before too, and the references nothing keeps alive are returned.
Released(c) == IF artifacts[c] = "none" THEN {} ELSE Refs(c)

Release(w) ==
    /\ MaySweep
    /\ At(w, "releasing", "sweeping")
    /\ artifacts' = [artifacts EXCEPT ![job[w]] = IF @ = "none" THEN @ ELSE "released"]
    /\ doomed' = [doomed EXCEPT ![w] = {b \in Released(job[w]) : ~IsLive(artifacts', b)}]
    /\ UNCHANGED <<stored, row, extracted, source, deletion, serviceVars, job, chosen, left, faults>>

\* evidence.delete
DeleteObject(w, b) ==
    /\ b \in doomed[w]
    /\ stored' = stored \ {b}
    /\ doomed' = [doomed EXCEPT ![w] = @ \ {b}]
    /\ UNCHANGED <<row, filingVars, deletion, serviceVars, pc, job, chosen, left, faults>>

EndDelete(w) ==
    /\ doomed[w] = {}
    /\ At(w, "sweeping", "closing")
    /\ UNCHANGED <<stored, row, filingVars, deletion, serviceVars, job, sweepVars, faults>>

FinishDelete(w) ==
    /\ At(w, "closing", "idle")
    /\ deletion' = [deletion EXCEPT ![job[w]] = "landed"]
    /\ job' = [job EXCEPT ![w] = NoCapture]
    /\ UNCHANGED <<stored, row, filingVars, serviceVars, sweepVars, faults>>

\* _purge_expired selects the expired sessions, consumed or not; FOR UPDATE waits
\* for the transaction that holds one of them, and keeps none of its locks.
Stale == {c \in expired : session[c] # "gone"}
Held(c) == request[c] # "idle"

Purge(w) ==
    /\ pc[w] = "idle" /\ Stale # {}
    /\ \A c \in Stale : ~Held(c)
    /\ pc' = [pc EXCEPT ![w] = "purging"]
    /\ chosen' = [chosen EXCEPT ![w] = Stale]
    /\ left' = [left EXCEPT ![w] = {Original[c] : c \in Stale}]
    /\ UNCHANGED <<stored, row, filingVars, deletion, serviceVars, job, doomed, faults>>

Check(w, b) ==
    /\ b \in left[w] /\ doomed[w] = {} /\ MaySweep
    /\ left' = [left EXCEPT ![w] = @ \ {b}]
    /\ doomed' = [doomed EXCEPT ![w] = IF IsLive(artifacts, b) THEN {} ELSE {b}]
    /\ UNCHANGED <<stored, row, filingVars, deletion, serviceVars, pc, job, chosen, faults>>

DropStale(w) == \* SLIP: the rows deleted are all the expired ones, not those looked at
    /\ left[w] = {} /\ doomed[w] = {}
    /\ \A c \in Stale : ~Held(c)
    /\ At(w, "purging", "idle")
    /\ session' = [c \in Uploads |-> IF c \in Stale THEN "gone" ELSE session[c]]
    /\ chosen' = [chosen EXCEPT ![w] = {}]
    /\ UNCHANGED <<stored, row, filingVars, deletion, expired, request, job, left, doomed, faults>>

DropSessions(w) ==
    /\ left[w] = {} /\ doomed[w] = {}
    /\ \A c \in chosen[w] : ~Held(c)
    /\ At(w, "purging", "idle")
    /\ session' = [c \in Uploads |-> IF c \in chosen[w] THEN "gone" ELSE session[c]]
    /\ chosen' = [chosen EXCEPT ![w] = {}]
    /\ UNCHANGED <<stored, row, filingVars, deletion, expired, request, job, left, doomed, faults>>

\* A step fails or the process dies: fail_or_retry, or release_expired later,
\* queues the operation again, and a purge starts over at the next interval.
Stop(w) ==
    /\ faults < MaxFaults /\ pc[w] # "idle"
    /\ faults' = faults + 1
    /\ row' = [c \in Captures |-> IF c = job[w] /\ row[c] = "processing" /\ pc[w] \notin DeletePhases
                                    THEN "queued" ELSE row[c]]
    /\ deletion' = [c \in Captures |-> IF c = job[w] /\ pc[w] \in DeletePhases THEN "queued" ELSE deletion[c]]
    /\ pc' = [pc EXCEPT ![w] = "idle"]
    /\ job' = [job EXCEPT ![w] = NoCapture]
    /\ chosen' = [chosen EXCEPT ![w] = {}]
    /\ left' = [left EXCEPT ![w] = {}]
    /\ doomed' = [doomed EXCEPT ![w] = {}]
    /\ UNCHANGED <<stored, filingVars, serviceVars>>

-----------------------------------------------------------------------------
ServiceStep(c) == \/ c \in Uploads /\ (OpenSession(c) \/ Upload(c) \/ Expire(c) \/ Finalize(c))
                  \/ Submit(c) \/ Put(c) \/ CommitVerified(c) \/ Verify(c) \/ Enqueue(c)
                  \/ Abort(c) \/ Retry(c) \/ DeleteSource(c)

FilingStep(w) == \/ Extract(w) \/ StoreReadable(w) \/ RecordExtraction(w) \/ File(w)
                 \/ RecordCapture(w) \/ Finish(w) \/ Reject(w)

SweepStep(w) == \/ Delete(w) \/ Release(w) \/ EndDelete(w) \/ FinishDelete(w)
                \/ \E b \in Blobs : DeleteObject(w, b) \/ Check(w, b)
                \/ DropSessions(w)

\* What the loop of a writer process does next; it may also stop.
LoopStep(w) == \/ \E c \in Captures : Claim(w, c) \/ ClaimDelete(w, c)
               \/ FilingStep(w) \/ SweepStep(w) \/ Purge(w)

Next == \/ \E c \in Captures : ServiceStep(c)
        \/ \E w \in Workers : LoopStep(w) \/ Stop(w)

Spec == Init /\ [][Next]_vars

\* A request ends, sessions expire, and the loop of a running worker goes on: it
\* never stops while there is something to serve or to purge.
Fairness ==
    /\ \A c \in Captures : WF_vars(Verify(c) \/ Put(c) \/ Enqueue(c) \/ Abort(c))
    /\ \A c \in Uploads : WF_vars(Expire(c))
    /\ \A w \in Workers : WF_vars(LoopStep(w))

FairSpec == Spec /\ Fairness

-----------------------------------------------------------------------------
(* Properties.                                                             *)

\* The bytes of a capture that was accepted, and the text noted on its row, stay
\* stored until it has landed; those of its source page stay stored for as long
\* as the page does (references.is_live, "must not delete another's").
EvidenceKept ==
    \A c \in Captures :
        /\ Open(c) => Noted(c) \subseteq stored
        /\ source[c] = "filed" => Refs(c) \subseteq stored

\* The object is being submitted again, or may be; or an upload session with the same
\* bytes still has its row and a purge will look at them.
Awaited(b) == \E c \in Captures :
    /\ Original[c] = b
    /\ \/ request[c] # "idle"
       \/ c \in Uploads /\ session[c] \notin {"none", "gone"}
       \/ c \notin Uploads /\ row[c] = "absent"

\* When a delete operation lands, none of the deleted source's artifacts is left
\* in the bucket unless somebody else needs the same bytes or a purge will look
\* at them, however often the operation was retried (_release_deleted_evidence,
\* _recover).
DeleteSweeps ==
    [][\A c \in Captures :
          deletion[c] = "processing" /\ deletion'[c] = "landed"
              => \A b \in Refs(c) :
                     b \notin stored \/ IsLive(artifacts, b) \/ Awaited(b)]_vars

\* Once submissions stop, bytes that reached the bucket through an upload session
\* do not stay there for nothing: the purge, or the delete operation of the last source with
\* them, takes them away (specs/karpathy-team-wiki.md, "unconsumed sessions
\* expire and are purged").
NoGarbage ==
    <>[](\A c \in Captures : request[c] = "idle")
        => <>[](\A c \in Uploads : Original[c] \in stored => IsLive(artifacts, Original[c]))

\* What the code does not keep, which no run checks (README, section 5): the recovery of a
\* capture records its artifacts live again (references.py:58).
\* The artifacts of a source that an operation deleted are not live: nothing
\* keeps their bytes, and a refile does not file the source again.
DeletedStaysReleased ==
    \A c \in Captures : deletion[c] = "landed" => artifacts[c] # "live"

\* Nothing is stored for nobody: deletions sweep what they release, and what no deletion sees is purged.
GarbageIsSwept ==
    /\ DeleteSweeps
    /\ NoGarbage
=============================================================================
