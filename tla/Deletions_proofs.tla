-------------------------- MODULE Deletions_proofs ---------------------------
(***************************************************************************)
(* Proofs about what deletions leave: EvidencePlane never deletes bytes    *)
(* that are in use and leaves none of a deleted source that nobody needs,  *)
(* and WorkspaceLife leaves nothing of a workspace it deleted and          *)
(* everything of one in use, for every number of captures, workspaces,     *)
(* writers, faults and retries.                                            *)
(***************************************************************************)
EXTENDS EvidencePlane, WorkspaceLife, FiniteSetTheorems, TLAPS

-----------------------------------------------------------------------------
(* Evidence.                                                               *)

LockedPhases == {"extracting", "storing", "noting", "filing", "recording",
                 "deleting", "releasing", "sweeping"}
CapturePhases == {"extracting", "storing", "noting", "filing", "recording", "finishing"}
AcquiringPhases == {"extracting", "storing", "noting"}

\* One worker at a time works under the writer lock, a worker has a job unless it is idle or
\* purges, and a capture in work is processing and in the hands of one worker.
OneInLock == \A v, w \in Workers : pc[v] \in LockedPhases /\ pc[w] \in LockedPhases => v = w

JobFits == \A w \in Workers : job[w] = NoCapture <=> pc[w] \in {"idle", "purging"}

InHand ==
    \A w \in Workers : pc[w] \in CapturePhases =>
        /\ row[job[w]] = "processing"
        /\ \A v \in Workers : pc[v] \in CapturePhases /\ job[v] = job[w] => v = w

\* What each phase of a worker already knows of its capture or its source.
PhaseFits ==
    \A w \in Workers :
        /\ pc[w] = "noting" => Readable[job[w]] \in stored
        /\ pc[w] \in {"noting", "filing"} => source[job[w]] = "none"
        /\ pc[w] = "filing" => job[w] \in extracted
        /\ pc[w] = "finishing" => (source[job[w]] = "filed" => artifacts[job[w]] = "live")
        /\ pc[w] \in {"releasing", "sweeping"} => source[job[w]] = "deleted"

\* A capture that has not arrived has noted nothing; one that is verified has its bytes stored.
Arriving ==
    \A c \in Captures :
        /\ row[c] = "absent" => c \notin extracted
        /\ request[c] # "idle" => row[c] = "absent"
        /\ request[c] = "verified" => Original[c] \in stored

\* A filed source has its artifacts on record, or its capture has yet to record them.
FiledIsBacked ==
    \A c \in Captures :
        source[c] = "filed" => artifacts[c] = "live" \/ (Open(c) /\ c \in extracted)

\* While objects are doomed nothing is acquired, and nobody needs one of them.
SweptAlone ==
    \A w \in Workers : doomed[w] # {} =>
        /\ \A c \in Captures : request[c] = "idle"
        /\ \A v \in Workers : pc[v] \notin AcquiringPhases

DoomedUnneeded ==
    \A w \in Workers, b \in Blobs : b \in doomed[w] =>
        \A c \in Captures :
            /\ Open(c) => b \notin Noted(c)
            /\ source[c] = "filed" => b \notin Refs(c)

WorkInv == OneInLock /\ JobFits /\ InHand
SweepInv == SweptAlone /\ DoomedUnneeded
EvidenceInv ==
    TypeOK /\ WorkInv /\ PhaseFits /\ Arriving /\ FiledIsBacked /\ SweepInv /\ EvidenceKept

-----------------------------------------------------------------------------
(* What a part of the invariant rests on: a step that leaves that alone keeps the part. *)

LEMMA KeepWork == WorkInv /\ UNCHANGED <<row, pc, job>> => WorkInv'
  BY DEF WorkInv, OneInLock, JobFits, InHand

LEMMA KeepPhases ==
    PhaseFits /\ stored \subseteq stored' /\ UNCHANGED <<extracted, artifacts, source, pc, job>>
        => PhaseFits'
  BY DEF PhaseFits

LEMMA KeepArriving ==
    Arriving /\ stored \subseteq stored' /\ UNCHANGED <<row, extracted, request>> => Arriving'
  BY DEF Arriving

LEMMA KeepBacked ==
    FiledIsBacked /\ UNCHANGED <<row, extracted, artifacts, source>> => FiledIsBacked'
  BY DEF FiledIsBacked, Open

LEMMA KeepSweep ==
    SweepInv /\ UNCHANGED <<row, extracted, source, request, pc, doomed>> => SweepInv'
  BY DEF SweepInv, SweptAlone, DoomedUnneeded, Open, Noted, Refs

LEMMA KeepEvidence ==
    EvidenceKept /\ stored \subseteq stored' /\ UNCHANGED <<row, extracted, source>> => EvidenceKept'
  BY DEF EvidenceKept, Open, Noted, Refs

LEMMA EvidenceInit == Init => EvidenceInv
<1> SUFFICES ASSUME Init PROVE EvidenceInv
  OBVIOUS
<1> USE DEF Init
<1>1. TypeOK
  BY EvidenceAssumption DEF TypeOK, Statuses, DeletePhases
<1>2. WorkInv
  BY DEF WorkInv, OneInLock, JobFits, InHand, LockedPhases, CapturePhases
<1>3. PhaseFits /\ Arriving /\ FiledIsBacked
  BY DEF PhaseFits, Arriving, FiledIsBacked
<1>4. SweepInv /\ EvidenceKept
  BY DEF SweepInv, SweptAlone, DoomedUnneeded, EvidenceKept, Open
<1> QED
  BY <1>1, <1>2, <1>3, <1>4 DEF EvidenceInv

-----------------------------------------------------------------------------
\* Sessions and requests to delete a source are nothing the invariant speaks of.
LEMMA AsideStep ==
    ASSUME EvidenceInv, TypeOK', UNCHANGED <<stored, row, extracted, artifacts, source, request, pc, job, doomed>>
    PROVE  EvidenceInv'
  BY KeepWork, KeepPhases, KeepArriving, KeepBacked, KeepSweep, KeepEvidence DEF EvidenceInv

LEMMA SessionStep ==
    ASSUME EvidenceInv, NEW c \in Captures,
           (c \in Uploads /\ (OpenSession(c) \/ Upload(c) \/ Expire(c))) \/ DeleteSource(c)
    PROVE  EvidenceInv'
<1>1. TypeOK'
  BY EvidenceAssumption DEF EvidenceInv, TypeOK, Statuses, OpenSession, Upload, Expire, DeleteSource,
     filingVars, serviceVars, sweepVars
<1>2. UNCHANGED <<stored, row, extracted, artifacts, source, request, pc, job, doomed>>
  BY DEF OpenSession, Upload, Expire, DeleteSource, filingVars, serviceVars, sweepVars
<1> QED
  BY <1>1, <1>2, AsideStep

LEMMA SubmitStep ==
    ASSUME SweepsAlone, EvidenceInv, NEW c \in Captures, Submit(c)
    PROVE  EvidenceInv'
<1>1. TypeOK'
  BY EvidenceAssumption DEF EvidenceInv, TypeOK, Statuses, Submit, LookBeforePut, filingVars,
     serviceVars, sweepVars
<1>2. WorkInv' /\ PhaseFits' /\ FiledIsBacked' /\ EvidenceKept'
  BY KeepWork, KeepPhases, KeepBacked, KeepEvidence DEF EvidenceInv, Submit, filingVars,
     serviceVars, sweepVars
<1>3. Arriving'
  BY DEF EvidenceInv, TypeOK, Arriving, Submit, LookBeforePut, filingVars, serviceVars,
     sweepVars
<1>4. SweepInv'
  BY DEF EvidenceInv, TypeOK, SweepInv, SweptAlone, DoomedUnneeded, Open, Noted, Refs,
     AcquiringPhases, MayAcquire, Sweeping, Submit, LookBeforePut, filingVars, serviceVars,
     sweepVars
<1> QED
  BY <1>1, <1>2, <1>3, <1>4 DEF EvidenceInv

LEMMA FinalizeStep ==
    ASSUME SweepsAlone, EvidenceInv, NEW c \in Captures, c \in Uploads, Finalize(c)
    PROVE  EvidenceInv'
<1>1. TypeOK'
  BY EvidenceAssumption DEF EvidenceInv, TypeOK, Statuses, Finalize, LookBeforePut, filingVars,
     serviceVars, sweepVars
<1>2. WorkInv' /\ PhaseFits' /\ FiledIsBacked' /\ EvidenceKept'
  BY KeepWork, KeepPhases, KeepBacked, KeepEvidence DEF EvidenceInv, Finalize, filingVars,
     serviceVars, sweepVars
<1>3. Arriving'
  BY DEF EvidenceInv, TypeOK, Arriving, Finalize, LookBeforePut, filingVars, serviceVars,
     sweepVars
<1>4. SweepInv'
  BY DEF EvidenceInv, TypeOK, SweepInv, SweptAlone, DoomedUnneeded, Open, Noted, Refs,
     AcquiringPhases, MayAcquire, Sweeping, Finalize, LookBeforePut, filingVars, serviceVars,
     sweepVars
<1> QED
  BY <1>1, <1>2, <1>3, <1>4 DEF EvidenceInv

LEMMA PutStep == ASSUME EvidenceInv, NEW c \in Captures, Put(c) PROVE EvidenceInv'
<1>1. TypeOK'
  BY EvidenceAssumption DEF EvidenceInv, TypeOK, Blobs, Refs, Statuses, Put, filingVars,
     serviceVars, sweepVars
<1>2. WorkInv' /\ PhaseFits' /\ FiledIsBacked' /\ EvidenceKept'
  BY KeepWork, KeepPhases, KeepBacked, KeepEvidence DEF EvidenceInv, Put, filingVars,
     serviceVars, sweepVars
<1>3. Arriving'
  BY DEF EvidenceInv, TypeOK, Arriving, Put, filingVars, serviceVars, sweepVars
<1>4. SweepInv'
  BY DEF EvidenceInv, TypeOK, SweepInv, SweptAlone, DoomedUnneeded, Open, Noted, Refs,
     AcquiringPhases, Put, filingVars, serviceVars, sweepVars
<1> QED
  BY <1>1, <1>2, <1>3, <1>4 DEF EvidenceInv

LEMMA CommitVerifiedStep ==
    ASSUME EvidenceInv, NEW c \in Captures, CommitVerified(c)
    PROVE  EvidenceInv'
<1>1. TypeOK'
  BY EvidenceAssumption DEF EvidenceInv, TypeOK, Statuses, CommitVerified, filingVars,
     serviceVars, sweepVars
<1>2. WorkInv' /\ PhaseFits' /\ FiledIsBacked' /\ EvidenceKept'
  BY KeepWork, KeepPhases, KeepBacked, KeepEvidence DEF EvidenceInv, CommitVerified, filingVars,
     serviceVars, sweepVars
<1>3. Arriving'
  BY DEF EvidenceInv, TypeOK, Arriving, CommitVerified, filingVars, serviceVars, sweepVars
<1>4. SweepInv'
  BY DEF EvidenceInv, TypeOK, SweepInv, SweptAlone, DoomedUnneeded, Open, Noted, Refs,
     AcquiringPhases, CommitVerified, filingVars, serviceVars, sweepVars
<1> QED
  BY <1>1, <1>2, <1>3, <1>4 DEF EvidenceInv

LEMMA VerifyStep == ASSUME EvidenceInv, NEW c \in Captures, Verify(c) PROVE EvidenceInv'
<1>1. TypeOK'
  BY EvidenceAssumption DEF EvidenceInv, TypeOK, Statuses, Verify, filingVars, serviceVars,
     sweepVars
<1>2. WorkInv' /\ PhaseFits' /\ FiledIsBacked' /\ EvidenceKept'
  BY KeepWork, KeepPhases, KeepBacked, KeepEvidence DEF EvidenceInv, Verify, filingVars,
     serviceVars, sweepVars
<1>3. Arriving'
  BY DEF EvidenceInv, TypeOK, Arriving, Verify, filingVars, serviceVars, sweepVars
<1>4. SweepInv'
  BY DEF EvidenceInv, TypeOK, SweepInv, SweptAlone, DoomedUnneeded, Open, Noted, Refs,
     AcquiringPhases, Verify, filingVars, serviceVars, sweepVars
<1> QED
  BY <1>1, <1>2, <1>3, <1>4 DEF EvidenceInv

LEMMA EnqueueStep == ASSUME EvidenceInv, NEW c \in Captures, Enqueue(c) PROVE EvidenceInv'
<1>1. TypeOK'
  BY EvidenceAssumption DEF EvidenceInv, TypeOK, Statuses, Enqueue, filingVars, serviceVars,
     sweepVars
<1>2. PhaseFits'
  BY KeepPhases DEF EvidenceInv, Enqueue, filingVars, serviceVars, sweepVars
<1>3. WorkInv'
  BY DEF EvidenceInv, TypeOK, WorkInv, OneInLock, JobFits, InHand, LockedPhases, CapturePhases,
     Arriving, Enqueue, filingVars, serviceVars, sweepVars
<1>4. Arriving'
  BY DEF EvidenceInv, TypeOK, Arriving, Enqueue, filingVars, serviceVars, sweepVars
<1>5. FiledIsBacked'
  BY DEF EvidenceInv, TypeOK, FiledIsBacked, Open, Arriving, Enqueue, filingVars, serviceVars,
     sweepVars
<1>6. SweepInv'
  BY DEF EvidenceInv, TypeOK, SweepInv, SweptAlone, DoomedUnneeded, Open, Noted, Refs,
     AcquiringPhases, Arriving, Enqueue, filingVars, serviceVars, sweepVars
<1>7. EvidenceKept'
  BY DEF EvidenceInv, TypeOK, EvidenceKept, Open, Noted, Refs, Arriving, Enqueue, filingVars,
     serviceVars, sweepVars
<1> QED
  BY <1>1, <1>2, <1>3, <1>4, <1>5, <1>6, <1>7 DEF EvidenceInv

LEMMA AbortStep == ASSUME EvidenceInv, NEW c \in Captures, Abort(c) PROVE EvidenceInv'
<1>1. TypeOK'
  BY EvidenceAssumption DEF EvidenceInv, TypeOK, Statuses, Abort, filingVars, serviceVars,
     sweepVars
<1>2. WorkInv' /\ PhaseFits' /\ FiledIsBacked' /\ EvidenceKept'
  BY KeepWork, KeepPhases, KeepBacked, KeepEvidence DEF EvidenceInv, Abort, filingVars,
     serviceVars, sweepVars
<1>3. Arriving'
  BY DEF EvidenceInv, TypeOK, Arriving, Abort, filingVars, serviceVars, sweepVars
<1>4. SweepInv'
  BY DEF EvidenceInv, TypeOK, SweepInv, SweptAlone, DoomedUnneeded, Open, Noted, Refs,
     AcquiringPhases, Abort, filingVars, serviceVars, sweepVars
<1> QED
  BY <1>1, <1>2, <1>3, <1>4 DEF EvidenceInv

LEMMA RetryStep == ASSUME EvidenceInv, NEW c \in Captures, Retry(c) PROVE EvidenceInv'
<1>1. TypeOK'
  BY EvidenceAssumption DEF EvidenceInv, TypeOK, Statuses, Retry, filingVars, serviceVars,
     sweepVars
<1>2. PhaseFits'
  BY KeepPhases DEF EvidenceInv, Retry, filingVars, serviceVars, sweepVars
<1>3. WorkInv'
  BY DEF EvidenceInv, TypeOK, WorkInv, OneInLock, JobFits, InHand, LockedPhases, CapturePhases,
     Retry, filingVars, serviceVars, sweepVars
<1>4. Arriving'
  BY DEF EvidenceInv, TypeOK, Arriving, Retry, filingVars, serviceVars, sweepVars
<1>5. FiledIsBacked'
  BY DEF EvidenceInv, TypeOK, FiledIsBacked, Open, Retry, filingVars, serviceVars, sweepVars
<1>6. SweepInv'
  BY DEF EvidenceInv, TypeOK, SweepInv, SweptAlone, DoomedUnneeded, Open, Noted, Refs,
     AcquiringPhases, Retry, filingVars, serviceVars, sweepVars
<1>7. EvidenceKept'
  BY DEF EvidenceInv, TypeOK, EvidenceKept, Open, Noted, Refs, Retry, filingVars, serviceVars,
     sweepVars
<1> QED
  BY <1>1, <1>2, <1>3, <1>4, <1>5, <1>6, <1>7 DEF EvidenceInv

LEMMA ClaimStep ==
    ASSUME SweepsAlone, EvidenceInv, NEW w \in Workers, NEW c \in Captures, Claim(w, c)
    PROVE  EvidenceInv'
<1>1. TypeOK'
  BY EvidenceAssumption DEF EvidenceInv, TypeOK, Statuses, Claim, Unlocked, filingVars,
     serviceVars, sweepVars
<1>2. WorkInv'
  BY EvidenceAssumption DEF EvidenceInv, TypeOK, WorkInv, OneInLock, JobFits, InHand,
     LockedPhases, CapturePhases, Claim, Unlocked, filingVars, serviceVars, sweepVars
<1>3. PhaseFits'
  BY DEF EvidenceInv, TypeOK, PhaseFits, WorkInv, OneInLock, JobFits, InHand, LockedPhases,
     CapturePhases, Claim, Unlocked, filingVars, serviceVars, sweepVars
<1>4. Arriving'
  BY DEF EvidenceInv, TypeOK, Arriving, WorkInv, JobFits, InHand, CapturePhases, Claim,
     Unlocked, filingVars, serviceVars, sweepVars
<1>5. FiledIsBacked'
  BY DEF EvidenceInv, TypeOK, FiledIsBacked, Open, WorkInv, JobFits, InHand, CapturePhases,
     Claim, Unlocked, filingVars, serviceVars, sweepVars
<1>6. SweepInv'
  BY DEF EvidenceInv, TypeOK, SweepInv, SweptAlone, DoomedUnneeded, Open, Noted, Refs,
     AcquiringPhases, WorkInv, JobFits, InHand, CapturePhases, MayAcquire, Sweeping, Claim,
     Unlocked, filingVars, serviceVars, sweepVars
<1>7. EvidenceKept'
  BY DEF EvidenceInv, TypeOK, EvidenceKept, Open, Noted, Refs, WorkInv, JobFits, InHand,
     CapturePhases, Claim, Unlocked, filingVars, serviceVars, sweepVars
<1> QED
  BY <1>1, <1>2, <1>3, <1>4, <1>5, <1>6, <1>7 DEF EvidenceInv

LEMMA ExtractStep == ASSUME EvidenceInv, NEW w \in Workers, Extract(w) PROVE EvidenceInv'
<1>1. TypeOK'
  BY EvidenceAssumption DEF EvidenceInv, TypeOK, Statuses, Extract, At, AfterExtraction,
     filingVars, serviceVars, sweepVars
<1>2. Arriving' /\ FiledIsBacked' /\ EvidenceKept'
  BY KeepArriving, KeepBacked, KeepEvidence DEF EvidenceInv, Extract, At, filingVars,
     serviceVars, sweepVars
<1>3. WorkInv'
  BY DEF EvidenceInv, TypeOK, WorkInv, OneInLock, JobFits, InHand, LockedPhases, CapturePhases,
     Extract, At, AfterExtraction, filingVars, serviceVars, sweepVars
<1>4. PhaseFits'
  BY DEF EvidenceInv, TypeOK, PhaseFits, WorkInv, OneInLock, JobFits, InHand, LockedPhases,
     CapturePhases, Extract, At, AfterExtraction, filingVars, serviceVars, sweepVars
<1>5. SweepInv'
  BY DEF EvidenceInv, TypeOK, SweepInv, SweptAlone, DoomedUnneeded, Open, Noted, Refs,
     AcquiringPhases, WorkInv, JobFits, InHand, CapturePhases, Extract, At, AfterExtraction,
     filingVars, serviceVars, sweepVars
<1> QED
  BY <1>1, <1>2, <1>3, <1>4, <1>5 DEF EvidenceInv

LEMMA StoreReadableStep ==
    ASSUME EvidenceInv, NEW w \in Workers, StoreReadable(w)
    PROVE  EvidenceInv'
<1>1. TypeOK'
  BY EvidenceAssumption DEF EvidenceInv, TypeOK, JobFits, WorkInv, Blobs, Refs, Statuses,
     StoreReadable, At, AfterExtraction, filingVars, serviceVars, sweepVars
<1>2. Arriving' /\ FiledIsBacked' /\ EvidenceKept'
  BY KeepArriving, KeepBacked, KeepEvidence DEF EvidenceInv, StoreReadable, At, filingVars,
     serviceVars, sweepVars
<1>3. WorkInv'
  BY DEF EvidenceInv, TypeOK, WorkInv, OneInLock, JobFits, InHand, LockedPhases, CapturePhases,
     StoreReadable, At, AfterExtraction, filingVars, serviceVars, sweepVars
<1>4. PhaseFits'
  BY DEF EvidenceInv, TypeOK, PhaseFits, WorkInv, OneInLock, JobFits, InHand, LockedPhases,
     CapturePhases, StoreReadable, At, AfterExtraction, filingVars, serviceVars, sweepVars
<1>5. SweepInv'
  BY DEF EvidenceInv, TypeOK, SweepInv, SweptAlone, DoomedUnneeded, Open, Noted, Refs,
     AcquiringPhases, WorkInv, JobFits, InHand, CapturePhases, StoreReadable, At,
     AfterExtraction, filingVars, serviceVars, sweepVars
<1> QED
  BY <1>1, <1>2, <1>3, <1>4, <1>5 DEF EvidenceInv

LEMMA RecordExtractionStep ==
    ASSUME EvidenceInv, NEW w \in Workers, RecordExtraction(w)
    PROVE  EvidenceInv'
<1>1. TypeOK'
  BY EvidenceAssumption DEF EvidenceInv, TypeOK, JobFits, WorkInv, Statuses, RecordExtraction,
     At, filingVars, serviceVars, sweepVars
<1>2. WorkInv'
  BY DEF EvidenceInv, TypeOK, WorkInv, OneInLock, JobFits, InHand, LockedPhases, CapturePhases,
     RecordExtraction, At, filingVars, serviceVars, sweepVars
<1>3. PhaseFits'
  BY DEF EvidenceInv, TypeOK, PhaseFits, WorkInv, OneInLock, JobFits, InHand, LockedPhases,
     CapturePhases, RecordExtraction, At, filingVars, serviceVars, sweepVars
<1>4. Arriving'
  BY DEF EvidenceInv, TypeOK, Arriving, WorkInv, JobFits, InHand, CapturePhases,
     RecordExtraction, At, filingVars, serviceVars, sweepVars
<1>5. FiledIsBacked'
  BY DEF EvidenceInv, TypeOK, FiledIsBacked, Open, WorkInv, JobFits, InHand, CapturePhases,
     RecordExtraction, At, filingVars, serviceVars, sweepVars
<1>6. SweepInv'
  BY DEF EvidenceInv, TypeOK, SweepInv, SweptAlone, DoomedUnneeded, Open, Noted, Refs,
     AcquiringPhases, WorkInv, JobFits, InHand, CapturePhases, Arriving, RecordExtraction, At,
     filingVars, serviceVars, sweepVars
<1>7. EvidenceKept'
  BY DEF EvidenceInv, TypeOK, EvidenceKept, Open, Noted, Refs, WorkInv, JobFits, InHand,
     CapturePhases, PhaseFits, RecordExtraction, At, filingVars, serviceVars, sweepVars
<1> QED
  BY <1>1, <1>2, <1>3, <1>4, <1>5, <1>6, <1>7 DEF EvidenceInv

LEMMA FileStep == ASSUME EvidenceInv, NEW w \in Workers, File(w) PROVE EvidenceInv'
<1>1. TypeOK'
  BY EvidenceAssumption DEF EvidenceInv, TypeOK, Statuses, File, At, filingVars, serviceVars,
     sweepVars
<1>2. Arriving'
  BY KeepArriving DEF EvidenceInv, File, At, filingVars, serviceVars, sweepVars
<1>3. WorkInv'
  BY DEF EvidenceInv, TypeOK, WorkInv, OneInLock, JobFits, InHand, LockedPhases, CapturePhases,
     File, At, filingVars, serviceVars, sweepVars
<1>4. PhaseFits'
  BY DEF EvidenceInv, TypeOK, PhaseFits, WorkInv, OneInLock, JobFits, InHand, LockedPhases,
     CapturePhases, File, At, filingVars, serviceVars, sweepVars
<1>5. FiledIsBacked'
  BY DEF EvidenceInv, TypeOK, FiledIsBacked, Open, WorkInv, JobFits, InHand, CapturePhases,
     PhaseFits, File, At, filingVars, serviceVars, sweepVars
<1>6. SweepInv'
  BY DEF EvidenceInv, TypeOK, SweepInv, SweptAlone, DoomedUnneeded, Open, Noted, Refs,
     AcquiringPhases, WorkInv, JobFits, InHand, CapturePhases, PhaseFits, File, At, filingVars,
     serviceVars, sweepVars
<1>7. EvidenceKept'
  BY DEF EvidenceInv, TypeOK, EvidenceKept, Open, Noted, Refs, WorkInv, JobFits, InHand,
     CapturePhases, PhaseFits, File, At, filingVars, serviceVars, sweepVars
<1> QED
  BY <1>1, <1>2, <1>3, <1>4, <1>5, <1>6, <1>7 DEF EvidenceInv

LEMMA RecordCaptureStep ==
    ASSUME EvidenceInv, NEW w \in Workers, RecordCapture(w)
    PROVE  EvidenceInv'
<1>1. TypeOK'
  BY EvidenceAssumption DEF EvidenceInv, TypeOK, Statuses, RecordCapture, At, filingVars,
     serviceVars, sweepVars
<1>2. Arriving' /\ EvidenceKept'
  BY KeepArriving, KeepEvidence DEF EvidenceInv, RecordCapture, At, filingVars, serviceVars,
     sweepVars
<1>3. WorkInv'
  BY DEF EvidenceInv, TypeOK, WorkInv, OneInLock, JobFits, InHand, LockedPhases, CapturePhases,
     RecordCapture, At, filingVars, serviceVars, sweepVars
<1>4. PhaseFits'
  BY DEF EvidenceInv, TypeOK, PhaseFits, WorkInv, OneInLock, JobFits, InHand, LockedPhases,
     CapturePhases, RecordCapture, At, filingVars, serviceVars, sweepVars
<1>5. FiledIsBacked'
  BY DEF EvidenceInv, TypeOK, FiledIsBacked, Open, WorkInv, JobFits, InHand, CapturePhases,
     RecordCapture, At, filingVars, serviceVars, sweepVars
<1>6. SweepInv'
  BY DEF EvidenceInv, TypeOK, SweepInv, SweptAlone, DoomedUnneeded, Open, Noted, Refs,
     AcquiringPhases, WorkInv, JobFits, InHand, CapturePhases, RecordCapture, At, filingVars,
     serviceVars, sweepVars
<1> QED
  BY <1>1, <1>2, <1>3, <1>4, <1>5, <1>6 DEF EvidenceInv

LEMMA FinishStep == ASSUME EvidenceInv, NEW w \in Workers, Finish(w) PROVE EvidenceInv'
<1>1. TypeOK'
  BY EvidenceAssumption DEF EvidenceInv, TypeOK, Statuses, Finish, At, filingVars, serviceVars,
     sweepVars
<1>2. WorkInv'
  BY DEF EvidenceInv, TypeOK, WorkInv, OneInLock, JobFits, InHand, LockedPhases, CapturePhases,
     Finish, At, filingVars, serviceVars, sweepVars
<1>3. PhaseFits'
  BY DEF EvidenceInv, TypeOK, PhaseFits, WorkInv, OneInLock, JobFits, InHand, LockedPhases,
     CapturePhases, Finish, At, filingVars, serviceVars, sweepVars
<1>4. Arriving'
  BY DEF EvidenceInv, TypeOK, Arriving, WorkInv, JobFits, InHand, CapturePhases, Finish, At,
     filingVars, serviceVars, sweepVars
<1>5. FiledIsBacked'
  BY DEF EvidenceInv, TypeOK, FiledIsBacked, Open, WorkInv, JobFits, InHand, CapturePhases,
     PhaseFits, Finish, At, filingVars, serviceVars, sweepVars
<1>6. SweepInv'
  BY DEF EvidenceInv, TypeOK, SweepInv, SweptAlone, DoomedUnneeded, Open, Noted, Refs,
     AcquiringPhases, WorkInv, JobFits, InHand, CapturePhases, Finish, At, filingVars,
     serviceVars, sweepVars
<1>7. EvidenceKept'
  BY DEF EvidenceInv, TypeOK, EvidenceKept, Open, Noted, Refs, WorkInv, JobFits, InHand,
     CapturePhases, Finish, At, filingVars, serviceVars, sweepVars
<1> QED
  BY <1>1, <1>2, <1>3, <1>4, <1>5, <1>6, <1>7 DEF EvidenceInv

LEMMA RejectStep == ASSUME EvidenceInv, NEW w \in Workers, Reject(w) PROVE EvidenceInv'
<1>1. TypeOK'
  BY EvidenceAssumption DEF EvidenceInv, TypeOK, Statuses, Reject, filingVars, serviceVars,
     sweepVars
<1>2. WorkInv'
  BY DEF EvidenceInv, TypeOK, WorkInv, OneInLock, JobFits, InHand, LockedPhases, CapturePhases,
     Reject, filingVars, serviceVars, sweepVars
<1>3. PhaseFits'
  BY DEF EvidenceInv, TypeOK, PhaseFits, WorkInv, OneInLock, JobFits, InHand, LockedPhases,
     CapturePhases, Reject, filingVars, serviceVars, sweepVars
<1>4. Arriving'
  BY DEF EvidenceInv, TypeOK, Arriving, WorkInv, JobFits, InHand, CapturePhases, Reject,
     filingVars, serviceVars, sweepVars
<1>5. FiledIsBacked'
  BY DEF EvidenceInv, TypeOK, FiledIsBacked, Open, WorkInv, JobFits, InHand, CapturePhases,
     Reject, filingVars, serviceVars, sweepVars
<1>6. SweepInv'
  BY DEF EvidenceInv, TypeOK, SweepInv, SweptAlone, DoomedUnneeded, Open, Noted, Refs,
     AcquiringPhases, WorkInv, JobFits, InHand, CapturePhases, Reject, filingVars, serviceVars,
     sweepVars
<1>7. EvidenceKept'
  BY DEF EvidenceInv, TypeOK, EvidenceKept, Open, Noted, Refs, WorkInv, JobFits, InHand,
     CapturePhases, Reject, filingVars, serviceVars, sweepVars
<1> QED
  BY <1>1, <1>2, <1>3, <1>4, <1>5, <1>6, <1>7 DEF EvidenceInv

LEMMA ClaimDeleteStep ==
    ASSUME EvidenceInv, NEW w \in Workers, NEW c \in Captures, ClaimDelete(w, c)
    PROVE  EvidenceInv'
<1>1. TypeOK'
  BY EvidenceAssumption DEF EvidenceInv, TypeOK, DeletePhases, Statuses, ClaimDelete, Unlocked,
     filingVars, serviceVars, sweepVars
<1>2. Arriving' /\ FiledIsBacked' /\ EvidenceKept'
  BY KeepArriving, KeepBacked, KeepEvidence DEF EvidenceInv, ClaimDelete, filingVars,
     serviceVars, sweepVars
<1>3. WorkInv'
  BY EvidenceAssumption DEF EvidenceInv, TypeOK, WorkInv, OneInLock, JobFits, InHand,
     LockedPhases, CapturePhases, ClaimDelete, Unlocked, filingVars, serviceVars, sweepVars
<1>4. PhaseFits'
  BY DEF EvidenceInv, TypeOK, PhaseFits, WorkInv, OneInLock, JobFits, InHand, LockedPhases,
     CapturePhases, ClaimDelete, Unlocked, filingVars, serviceVars, sweepVars
<1>5. SweepInv'
  BY DEF EvidenceInv, TypeOK, SweepInv, SweptAlone, DoomedUnneeded, Open, Noted, Refs,
     AcquiringPhases, WorkInv, JobFits, InHand, CapturePhases, ClaimDelete, Unlocked,
     filingVars, serviceVars, sweepVars
<1> QED
  BY <1>1, <1>2, <1>3, <1>4, <1>5 DEF EvidenceInv

LEMMA DeleteStep == ASSUME EvidenceInv, NEW w \in Workers, Delete(w) PROVE EvidenceInv'
<1>1. TypeOK'
  BY EvidenceAssumption DEF EvidenceInv, TypeOK, DeletePhases, Statuses, Delete, At, filingVars,
     serviceVars, sweepVars
<1>2. Arriving'
  BY KeepArriving DEF EvidenceInv, Delete, At, filingVars, serviceVars, sweepVars
<1>3. WorkInv'
  BY DEF EvidenceInv, TypeOK, WorkInv, OneInLock, JobFits, InHand, LockedPhases, CapturePhases,
     Delete, At, filingVars, serviceVars, sweepVars
<1>4. PhaseFits'
  BY DEF EvidenceInv, TypeOK, PhaseFits, WorkInv, OneInLock, JobFits, InHand, LockedPhases,
     CapturePhases, Delete, At, filingVars, serviceVars, sweepVars
<1>5. FiledIsBacked'
  BY DEF EvidenceInv, TypeOK, FiledIsBacked, Open, WorkInv, JobFits, InHand, CapturePhases,
     Delete, At, filingVars, serviceVars, sweepVars
<1>6. SweepInv'
  BY DEF EvidenceInv, TypeOK, SweepInv, SweptAlone, DoomedUnneeded, Open, Noted, Refs,
     AcquiringPhases, WorkInv, JobFits, InHand, CapturePhases, Delete, At, filingVars,
     serviceVars, sweepVars
<1>7. EvidenceKept'
  BY DEF EvidenceInv, TypeOK, EvidenceKept, Open, Noted, Refs, WorkInv, JobFits, InHand,
     CapturePhases, Delete, At, filingVars, serviceVars, sweepVars
<1> QED
  BY <1>1, <1>2, <1>3, <1>4, <1>5, <1>6, <1>7 DEF EvidenceInv

LEMMA ReleaseStep ==
    ASSUME SweepsAlone, EvidenceInv, NEW w \in Workers, Release(w)
    PROVE  EvidenceInv'
<1>1. TypeOK'
  BY EvidenceAssumption DEF EvidenceInv, TypeOK, DeletePhases, JobFits, WorkInv, Released,
     Blobs, Statuses, Release, At, filingVars, serviceVars, sweepVars
<1>2. Arriving' /\ EvidenceKept'
  BY KeepArriving, KeepEvidence DEF EvidenceInv, Release, At, filingVars, serviceVars, sweepVars
<1>3. WorkInv'
  BY DEF EvidenceInv, TypeOK, WorkInv, OneInLock, JobFits, InHand, LockedPhases, CapturePhases,
     Release, At, filingVars, serviceVars, sweepVars
<1>4. PhaseFits'
  BY DEF EvidenceInv, TypeOK, PhaseFits, WorkInv, OneInLock, JobFits, InHand, LockedPhases,
     CapturePhases, Release, At, filingVars, serviceVars, sweepVars
<1>5. FiledIsBacked'
  BY DEF EvidenceInv, TypeOK, FiledIsBacked, Open, WorkInv, JobFits, InHand, CapturePhases,
     PhaseFits, Release, At, filingVars, serviceVars, sweepVars
<1>6. SweepInv'
  BY DEF EvidenceInv, TypeOK, SweepInv, SweptAlone, DoomedUnneeded, Open, Noted, Refs,
     AcquiringPhases, WorkInv, JobFits, InHand, CapturePhases, PhaseFits, FiledIsBacked,
     MaySweep, Acquiring, Released, IsLive, Release, At, filingVars, serviceVars, sweepVars
<1> QED
  BY <1>1, <1>2, <1>3, <1>4, <1>5, <1>6 DEF EvidenceInv

LEMMA EndDeleteStep == ASSUME EvidenceInv, NEW w \in Workers, EndDelete(w) PROVE EvidenceInv'
<1>1. TypeOK'
  BY EvidenceAssumption DEF EvidenceInv, TypeOK, DeletePhases, Statuses, EndDelete, At,
     filingVars, serviceVars, sweepVars
<1>2. Arriving' /\ FiledIsBacked' /\ EvidenceKept'
  BY KeepArriving, KeepBacked, KeepEvidence DEF EvidenceInv, EndDelete, At, filingVars,
     serviceVars, sweepVars
<1>3. WorkInv'
  BY DEF EvidenceInv, TypeOK, WorkInv, OneInLock, JobFits, InHand, LockedPhases, CapturePhases,
     EndDelete, At, filingVars, serviceVars, sweepVars
<1>4. PhaseFits'
  BY DEF EvidenceInv, TypeOK, PhaseFits, WorkInv, OneInLock, JobFits, InHand, LockedPhases,
     CapturePhases, EndDelete, At, filingVars, serviceVars, sweepVars
<1>5. SweepInv'
  BY DEF EvidenceInv, TypeOK, SweepInv, SweptAlone, DoomedUnneeded, Open, Noted, Refs,
     AcquiringPhases, WorkInv, JobFits, InHand, CapturePhases, EndDelete, At, filingVars,
     serviceVars, sweepVars
<1> QED
  BY <1>1, <1>2, <1>3, <1>4, <1>5 DEF EvidenceInv

LEMMA FinishDeleteStep ==
    ASSUME EvidenceInv, NEW w \in Workers, FinishDelete(w)
    PROVE  EvidenceInv'
<1>1. TypeOK'
  BY EvidenceAssumption DEF EvidenceInv, TypeOK, DeletePhases, Statuses, FinishDelete, At,
     filingVars, serviceVars, sweepVars
<1>2. Arriving' /\ FiledIsBacked' /\ EvidenceKept'
  BY KeepArriving, KeepBacked, KeepEvidence DEF EvidenceInv, FinishDelete, At, filingVars,
     serviceVars, sweepVars
<1>3. WorkInv'
  BY DEF EvidenceInv, TypeOK, WorkInv, OneInLock, JobFits, InHand, LockedPhases, CapturePhases,
     FinishDelete, At, filingVars, serviceVars, sweepVars
<1>4. PhaseFits'
  BY DEF EvidenceInv, TypeOK, PhaseFits, WorkInv, OneInLock, JobFits, InHand, LockedPhases,
     CapturePhases, FinishDelete, At, filingVars, serviceVars, sweepVars
<1>5. SweepInv'
  BY DEF EvidenceInv, TypeOK, SweepInv, SweptAlone, DoomedUnneeded, Open, Noted, Refs,
     AcquiringPhases, WorkInv, JobFits, InHand, CapturePhases, FinishDelete, At, filingVars,
     serviceVars, sweepVars
<1> QED
  BY <1>1, <1>2, <1>3, <1>4, <1>5 DEF EvidenceInv

LEMMA DeleteObjectStep ==
    ASSUME EvidenceInv, NEW w \in Workers, NEW b \in Blobs, DeleteObject(w, b)
    PROVE  EvidenceInv'
<1>1. TypeOK'
  BY EvidenceAssumption DEF EvidenceInv, TypeOK, Statuses, DeleteObject, filingVars,
     serviceVars, sweepVars
<1>2. WorkInv' /\ FiledIsBacked'
  BY KeepWork, KeepBacked DEF EvidenceInv, DeleteObject, filingVars, serviceVars, sweepVars
<1>3. PhaseFits'
  BY DEF EvidenceInv, TypeOK, PhaseFits, WorkInv, OneInLock, JobFits, InHand, LockedPhases,
     CapturePhases, SweepInv, SweptAlone, AcquiringPhases, DeleteObject, filingVars,
     serviceVars, sweepVars
<1>4. Arriving'
  BY DEF EvidenceInv, TypeOK, Arriving, WorkInv, JobFits, InHand, CapturePhases, SweepInv,
     SweptAlone, DeleteObject, filingVars, serviceVars, sweepVars
<1>5. SweepInv'
  BY DEF EvidenceInv, TypeOK, SweepInv, SweptAlone, DoomedUnneeded, Open, Noted, Refs,
     AcquiringPhases, WorkInv, JobFits, InHand, CapturePhases, DeleteObject, filingVars,
     serviceVars, sweepVars
<1>6. EvidenceKept'
  BY DEF EvidenceInv, TypeOK, EvidenceKept, Open, Noted, Refs, WorkInv, JobFits, InHand,
     CapturePhases, SweepInv, DoomedUnneeded, Blobs, DeleteObject, filingVars, serviceVars,
     sweepVars
<1> QED
  BY <1>1, <1>2, <1>3, <1>4, <1>5, <1>6 DEF EvidenceInv

LEMMA CheckStep ==
    ASSUME SweepsAlone, EvidenceInv, NEW w \in Workers, NEW b \in Blobs, Check(w, b)
    PROVE  EvidenceInv'
<1>1. TypeOK'
  BY EvidenceAssumption DEF EvidenceInv, TypeOK, Statuses, Check, filingVars, serviceVars,
     sweepVars
<1>2. WorkInv' /\ PhaseFits' /\ Arriving' /\ FiledIsBacked' /\ EvidenceKept'
  BY KeepWork, KeepPhases, KeepArriving, KeepBacked, KeepEvidence DEF EvidenceInv, Check,
     filingVars, serviceVars, sweepVars
<1>3. SweepInv'
  BY DEF EvidenceInv, TypeOK, SweepInv, SweptAlone, DoomedUnneeded, Open, Noted, Refs,
     AcquiringPhases, WorkInv, JobFits, InHand, CapturePhases, FiledIsBacked, MaySweep,
     Acquiring, IsLive, Check, filingVars, serviceVars, sweepVars
<1> QED
  BY <1>1, <1>2, <1>3 DEF EvidenceInv

LEMMA PurgeStep == ASSUME EvidenceInv, NEW w \in Workers, Purge(w) PROVE EvidenceInv'
<1>1. TypeOK'
  BY EvidenceAssumption DEF EvidenceInv, TypeOK, Stale, Blobs, Refs, Statuses, Purge,
     filingVars, serviceVars, sweepVars
<1>2. Arriving' /\ FiledIsBacked' /\ EvidenceKept'
  BY KeepArriving, KeepBacked, KeepEvidence DEF EvidenceInv, Purge, filingVars, serviceVars,
     sweepVars
<1>3. WorkInv'
  BY DEF EvidenceInv, TypeOK, WorkInv, OneInLock, JobFits, InHand, LockedPhases, CapturePhases,
     Purge, filingVars, serviceVars, sweepVars
<1>4. PhaseFits'
  BY DEF EvidenceInv, TypeOK, PhaseFits, WorkInv, OneInLock, JobFits, InHand, LockedPhases,
     CapturePhases, Purge, filingVars, serviceVars, sweepVars
<1>5. SweepInv'
  BY DEF EvidenceInv, TypeOK, SweepInv, SweptAlone, DoomedUnneeded, Open, Noted, Refs,
     AcquiringPhases, WorkInv, JobFits, InHand, CapturePhases, Purge, filingVars, serviceVars,
     sweepVars
<1> QED
  BY <1>1, <1>2, <1>3, <1>4, <1>5 DEF EvidenceInv

LEMMA DropSessionsStep ==
    ASSUME EvidenceInv, NEW w \in Workers, DropSessions(w)
    PROVE  EvidenceInv'
<1>1. TypeOK'
  BY EvidenceAssumption DEF EvidenceInv, TypeOK, Statuses, DropSessions, At, filingVars,
     serviceVars, sweepVars
<1>2. Arriving' /\ FiledIsBacked' /\ EvidenceKept'
  BY KeepArriving, KeepBacked, KeepEvidence DEF EvidenceInv, DropSessions, At, filingVars,
     serviceVars, sweepVars
<1>3. WorkInv'
  BY DEF EvidenceInv, TypeOK, WorkInv, OneInLock, JobFits, InHand, LockedPhases, CapturePhases,
     DropSessions, At, filingVars, serviceVars, sweepVars
<1>4. PhaseFits'
  BY DEF EvidenceInv, TypeOK, PhaseFits, WorkInv, OneInLock, JobFits, InHand, LockedPhases,
     CapturePhases, DropSessions, At, filingVars, serviceVars, sweepVars
<1>5. SweepInv'
  BY DEF EvidenceInv, TypeOK, SweepInv, SweptAlone, DoomedUnneeded, Open, Noted, Refs,
     AcquiringPhases, WorkInv, JobFits, InHand, CapturePhases, DropSessions, At, filingVars,
     serviceVars, sweepVars
<1> QED
  BY <1>1, <1>2, <1>3, <1>4, <1>5 DEF EvidenceInv

LEMMA StopStep == ASSUME EvidenceInv, NEW w \in Workers, Stop(w) PROVE EvidenceInv'
<1>1. TypeOK'
  BY EvidenceAssumption DEF EvidenceInv, TypeOK, Statuses, Stop, filingVars, serviceVars,
     sweepVars
<1>2. WorkInv'
  BY EvidenceAssumption DEF EvidenceInv, TypeOK, WorkInv, OneInLock, JobFits, InHand,
     LockedPhases, CapturePhases, DeletePhases, Stop, filingVars, serviceVars, sweepVars
<1>3. PhaseFits'
  BY EvidenceAssumption DEF EvidenceInv, TypeOK, PhaseFits, WorkInv, OneInLock, JobFits, InHand,
     LockedPhases, CapturePhases, Stop, filingVars, serviceVars, sweepVars
<1>4. Arriving'
  BY EvidenceAssumption DEF EvidenceInv, TypeOK, Arriving, WorkInv, JobFits, InHand,
     CapturePhases, DeletePhases, Stop, filingVars, serviceVars, sweepVars
<1>5. FiledIsBacked'
  BY EvidenceAssumption DEF EvidenceInv, TypeOK, FiledIsBacked, Open, WorkInv, JobFits, InHand,
     CapturePhases, DeletePhases, Stop, filingVars, serviceVars, sweepVars
<1>6. SweepInv'
  BY EvidenceAssumption DEF EvidenceInv, TypeOK, SweepInv, SweptAlone, DoomedUnneeded, Open,
     Noted, Refs, AcquiringPhases, WorkInv, JobFits, InHand, CapturePhases, DeletePhases, Stop,
     filingVars, serviceVars, sweepVars
<1>7. EvidenceKept'
  BY EvidenceAssumption DEF EvidenceInv, TypeOK, EvidenceKept, Open, Noted, Refs, WorkInv,
     JobFits, InHand, CapturePhases, DeletePhases, Stop, filingVars, serviceVars, sweepVars
<1> QED
  BY <1>1, <1>2, <1>3, <1>4, <1>5, <1>6, <1>7 DEF EvidenceInv

-----------------------------------------------------------------------------
LEMMA EvidenceStep == SweepsAlone /\ EvidenceInv /\ [Next]_vars => EvidenceInv'
<1> SUFFICES ASSUME SweepsAlone, EvidenceInv, [Next]_vars PROVE EvidenceInv'
  OBVIOUS
<1>1. ASSUME NEW c \in Captures, ServiceStep(c) PROVE EvidenceInv'
  BY <1>1, SessionStep, SubmitStep, FinalizeStep, PutStep, CommitVerifiedStep, VerifyStep,
     EnqueueStep, AbortStep, RetryStep DEF ServiceStep
<1>2. ASSUME NEW w \in Workers, FilingStep(w) PROVE EvidenceInv'
  BY <1>2, ExtractStep, StoreReadableStep, RecordExtractionStep, FileStep, RecordCaptureStep,
     FinishStep, RejectStep DEF FilingStep
<1>3. ASSUME NEW w \in Workers, SweepStep(w) PROVE EvidenceInv'
  BY <1>3, DeleteStep, ReleaseStep, EndDeleteStep, FinishDeleteStep, DeleteObjectStep, CheckStep,
     DropSessionsStep DEF SweepStep
<1>4. ASSUME NEW w \in Workers, LoopStep(w) PROVE EvidenceInv'
  BY <1>2, <1>3, <1>4, ClaimStep, ClaimDeleteStep, PurgeStep DEF LoopStep
<1>5. CASE UNCHANGED vars
  <2>1. TypeOK'
    BY <1>5 DEF EvidenceInv, TypeOK, vars, filingVars, serviceVars, sweepVars
  <2> QED
    BY <1>5, <2>1, AsideStep DEF vars, filingVars, serviceVars, sweepVars
<1> QED
  BY <1>1, <1>4, <1>5, StopStep DEF Next

\* While no object is acquired beside a sweep, no bytes are deleted that an accepted capture or a source
\* page still needs: for every number of captures that share bytes, of workers that sweep and purge at
\* once, and of stops between the look and the deletion (references.py:77-130, uploads.py:234-256).
THEOREM EvidenceStaysStored == ASSUME SweepsAlone PROVE Spec => []EvidenceKept
<1>1. EvidenceInv => EvidenceKept
  BY DEF EvidenceInv
<1> QED
  BY <1>1, SweepsAlone, EvidenceInit, EvidenceStep, PTL DEF Spec

-----------------------------------------------------------------------------
(* What a deletion leaves in the bucket.                                   *)

\* There is one writer process.
OneWorker == \A v, w \in Workers : v = w

\* The bytes are gone, or somebody needs them or a purge will look at them.
Accounted(b) == b \notin stored \/ IsLive(artifacts, b) \/ Awaited(b)

\* What a phase of the worker has seen to: the capture in work is processing, its extraction is
\* noted before it is filed, and its artifacts are on record before it is finished.
HandFits ==
    \A w \in Workers :
        /\ pc[w] \in CapturePhases \cup DeletePhases => job[w] \in Captures
        /\ pc[w] \in CapturePhases => row[job[w]] = "processing"
        /\ pc[w] \in {"filing", "recording", "finishing"} => job[w] \in extracted
        /\ pc[w] = "finishing" => artifacts[job[w]] # "none"
        /\ pc[w] \in DeletePhases => source[job[w]] # "none"
        /\ pc[w] = "closing" => doomed[w] = {}
        /\ left[w] # {} => pc[w] = "purging"

\* The capture of a source has its artifacts on record, or is still there to record them.
SourceIsBacked ==
    \A c \in Captures :
        /\ source[c] # "none" => c \in extracted /\ (artifacts[c] # "none" \/ Open(c))
        /\ deletion[c] # "absent" => source[c] # "none"

\* A request at work is for a capture that has no row, and holds the session of its upload.
RequestHolds ==
    \A c \in Captures : request[c] # "idle" =>
        /\ row[c] = "absent"
        /\ c \in Uploads => session[c] \in {"uploaded", "verified"}

\* From its look on, a deletion has deleted, or will delete, whatever nobody needs of its source.
SweepIsClean ==
    \A w \in Workers : pc[w] \in {"sweeping", "closing"} =>
        \A b \in Refs(job[w]) : b \in doomed[w] \/ Accounted(b)

GarbageInv == TypeOK /\ HandFits /\ SourceIsBacked /\ RequestHolds /\ SweepIsClean

\* What a step of the service leaves alone, and that what was accounted for still is.
ServiceLeaves ==
    /\ UNCHANGED <<extracted, artifacts, source, pc, job, doomed, left>>
    /\ \A c \in Captures :
         row[c] # "absent" => row'[c] = row[c] \/ (row[c] = "failed" /\ row'[c] = "queued")
    /\ \A b \in Blobs : Accounted(b) => Accounted(b)'
    /\ \A c \in Captures : deletion'[c] # deletion[c] => source[c] # "none"

\* Steps of the service.
LEMMA ServiceKeeps ==
    ASSUME GarbageInv, TypeOK', RequestHolds', ServiceLeaves
    PROVE  GarbageInv'
<1>1. HandFits'
  BY DEF GarbageInv, HandFits, ServiceLeaves, TypeOK, CapturePhases, DeletePhases
<1>2. SourceIsBacked'
  BY DEF GarbageInv, SourceIsBacked, ServiceLeaves, Open
<1>3. \A w \in Workers : pc[w] \in DeletePhases => job[w] \in Captures
  BY DEF GarbageInv, HandFits
<1>4. \A c \in Captures : Refs(c) \subseteq Blobs
  BY DEF Blobs
<1>5. SweepIsClean'
  BY <1>3, <1>4 DEF GarbageInv, SweepIsClean, ServiceLeaves, Refs, DeletePhases
<1> QED
  BY <1>1, <1>2, <1>5 DEF GarbageInv

\* What the service puts somebody needs, or awaits; what it forgets was awaited.
LEMMA ServiceGarbage ==
    ASSUME GarbageInv, NEW c \in Captures, ServiceStep(c)
    PROVE  GarbageInv'
<1>0. TypeOK /\ RequestHolds
  BY DEF GarbageInv
<1>u. Uploads \subseteq Captures
  BY EvidenceAssumption
<1>1. CASE c \in Uploads /\ OpenSession(c)
  <2>1. TypeOK' /\ RequestHolds'
    BY <1>0, <1>1 DEF OpenSession, TypeOK, RequestHolds, filingVars, sweepVars
  <2>2. ServiceLeaves
    BY <1>0, <1>1 DEF OpenSession, TypeOK, ServiceLeaves, Accounted, IsLive, Awaited, Open, Noted, Refs,
       filingVars, sweepVars
  <2> QED
    BY <2>1, <2>2, ServiceKeeps
<1>2. CASE c \in Uploads /\ Upload(c)
  <2>1. TypeOK' /\ RequestHolds'
    BY <1>0, <1>2 DEF Upload, TypeOK, RequestHolds, filingVars, sweepVars
  <2>2. ServiceLeaves
    BY <1>0, <1>2 DEF Upload, TypeOK, ServiceLeaves, Accounted, IsLive, Awaited, Open, Noted, Refs,
       filingVars, sweepVars
  <2> QED
    BY <2>1, <2>2, ServiceKeeps
<1>3. CASE c \in Uploads /\ Expire(c)
  <2>1. TypeOK' /\ RequestHolds'
    BY <1>0, <1>3 DEF Expire, TypeOK, RequestHolds, filingVars, sweepVars
  <2>2. ServiceLeaves
    BY <1>0, <1>3, <1>u DEF Expire, TypeOK, ServiceLeaves, Accounted, IsLive, Awaited, Open,
       Noted, Refs,
       filingVars, sweepVars
  <2> QED
    BY <2>1, <2>2, ServiceKeeps
<1>4. CASE c \in Uploads /\ Finalize(c)
  <2>1. TypeOK' /\ RequestHolds'
    BY <1>0, <1>4 DEF Finalize, LookBeforePut, TypeOK, RequestHolds, filingVars, sweepVars
  <2>2. ServiceLeaves
    BY <1>0, <1>4 DEF Finalize, LookBeforePut, TypeOK, ServiceLeaves, Accounted, IsLive, Awaited, Open,
       Noted, Refs, filingVars, sweepVars
  <2> QED
    BY <2>1, <2>2, ServiceKeeps
<1>5. CASE Submit(c)
  <2>1. TypeOK' /\ RequestHolds'
    BY <1>0, <1>5 DEF Submit, LookBeforePut, TypeOK, RequestHolds, filingVars, sweepVars
  <2>2. ServiceLeaves
    BY <1>0, <1>5 DEF Submit, LookBeforePut, TypeOK, ServiceLeaves, Accounted, IsLive, Awaited, Open,
       Noted, Refs, filingVars, sweepVars
  <2> QED
    BY <2>1, <2>2, ServiceKeeps
<1>6. CASE Put(c)
  <2>0. Original[c] \in Blobs
    BY DEF Blobs, Refs
  <2>1. TypeOK' /\ RequestHolds'
    BY <1>0, <1>6, <2>0 DEF Put, TypeOK, RequestHolds, filingVars, sweepVars
  <2>2. ServiceLeaves
    BY <1>0, <1>6 DEF Put, TypeOK, ServiceLeaves, Accounted, IsLive, Awaited, Open,
       Noted, Refs, filingVars, sweepVars
  <2> QED
    BY <2>1, <2>2, ServiceKeeps
<1>7. CASE CommitVerified(c)
  <2>1. TypeOK' /\ RequestHolds'
    BY <1>0, <1>7 DEF CommitVerified, TypeOK, RequestHolds, filingVars, sweepVars
  <2>2. ServiceLeaves
    BY <1>0, <1>7 DEF CommitVerified, TypeOK, ServiceLeaves, Accounted, IsLive, Awaited, Open,
       Noted, Refs, filingVars, sweepVars
  <2> QED
    BY <2>1, <2>2, ServiceKeeps
<1>8. CASE Verify(c)
  <2>1. TypeOK' /\ RequestHolds'
    BY <1>0, <1>8 DEF Verify, TypeOK, RequestHolds, filingVars, sweepVars
  <2>2. ServiceLeaves
    BY <1>0, <1>8 DEF Verify, TypeOK, RequestHolds, ServiceLeaves, Accounted, IsLive, Awaited, Open,
       Noted, Refs, filingVars, sweepVars
  <2> QED
    BY <2>1, <2>2, ServiceKeeps
<1>9. CASE Enqueue(c)
  <2>1. TypeOK' /\ RequestHolds'
    BY <1>0, <1>9 DEF Enqueue, TypeOK, RequestHolds, Statuses, filingVars, sweepVars
  <2>2. ServiceLeaves
    BY <1>0, <1>9 DEF Enqueue, TypeOK, RequestHolds, ServiceLeaves, Accounted, IsLive, Awaited, Open,
       Noted, Refs, filingVars, sweepVars
  <2> QED
    BY <2>1, <2>2, ServiceKeeps
<1>10. CASE Abort(c)
  <2>1. TypeOK' /\ RequestHolds'
    BY <1>0, <1>10 DEF Abort, TypeOK, RequestHolds, filingVars, sweepVars
  <2>2. ServiceLeaves
    BY <1>0, <1>10 DEF Abort, TypeOK, RequestHolds, ServiceLeaves, Accounted, IsLive, Awaited, Open,
       Noted, Refs, filingVars, sweepVars
  <2> QED
    BY <2>1, <2>2, ServiceKeeps
<1>11. CASE Retry(c)
  <2>1. TypeOK' /\ RequestHolds'
    BY <1>0, <1>11 DEF Retry, TypeOK, RequestHolds, Statuses, filingVars, serviceVars, sweepVars
  <2>2. ServiceLeaves
    BY <1>0, <1>11 DEF Retry, TypeOK, ServiceLeaves, Accounted, IsLive, Awaited, Open,
       Noted, Refs, filingVars, serviceVars, sweepVars
  <2> QED
    BY <2>1, <2>2, ServiceKeeps
<1>12. CASE DeleteSource(c)
  <2>1. TypeOK' /\ RequestHolds'
    BY <1>0, <1>12 DEF DeleteSource, TypeOK, RequestHolds, Statuses, filingVars, serviceVars, sweepVars
  <2>2. ServiceLeaves
    BY <1>0, <1>12 DEF DeleteSource, TypeOK, ServiceLeaves, Accounted, IsLive, Awaited, Open,
       Noted, Refs, filingVars, serviceVars, sweepVars
  <2> QED
    BY <2>1, <2>2, ServiceKeeps
<1> QED
  BY <1>1, <1>2, <1>3, <1>4, <1>5, <1>6, <1>7, <1>8, <1>9, <1>10, <1>11, <1>12 DEF ServiceStep

\* A step of the worker at work: the requests stay, and no request is at work on its capture.
LEMMA WorkerRequests ==
    ASSUME GarbageInv, UNCHANGED <<request, session>>,
           \A c \in Captures : row[c] = "absent" => row'[c] = "absent"
    PROVE  RequestHolds'
  BY DEF GarbageInv, RequestHolds

\* A worker that sweeps nothing has nothing to account for.
LEMMA NothingSwept ==
    ASSUME OneWorker, NEW w \in Workers, pc'[w] \notin {"sweeping", "closing"}
    PROVE  SweepIsClean'
  BY DEF OneWorker, SweepIsClean

\* Filing a capture: nothing is swept meanwhile, and its artifacts are recorded before its row is done.
LEMMA FilingGarbage ==
    ASSUME OneWorker, GarbageInv, NEW w \in Workers, (\E c \in Captures : Claim(w, c)) \/ FilingStep(w)
    PROVE  GarbageInv'
<1> USE OneWorker DEF OneWorker
<1>0. TypeOK /\ HandFits /\ SourceIsBacked
  BY DEF GarbageInv
<1>1. CASE \E c \in Captures : Claim(w, c)
  <2>1. PICK c \in Captures : Claim(w, c)
    BY <1>1
  <2>2. TypeOK' /\ pc'[w] = "extracting" /\ job'[w] = c
    BY <1>0, <2>1 DEF Claim, TypeOK, Statuses, filingVars, serviceVars, sweepVars
  <2>3. HandFits'
    BY <1>0, <2>1, <2>2 DEF Claim, TypeOK, HandFits, CapturePhases, DeletePhases, filingVars, sweepVars
  <2>4. SourceIsBacked'
    BY <1>0, <2>1 DEF Claim, TypeOK, SourceIsBacked, Open, filingVars
  <2>5. RequestHolds'
    BY <1>0, <2>1, WorkerRequests DEF Claim, TypeOK, serviceVars
  <2>6. SweepIsClean'
    BY <2>2, NothingSwept
  <2> QED
    BY <2>2, <2>3, <2>4, <2>5, <2>6 DEF GarbageInv
<1>2. CASE Extract(w)
  <2>1. TypeOK' /\ pc'[w] \in {"noting", "recording", "storing"}
        /\ (pc'[w] = "recording" => source[job[w]] # "none")
    BY <1>0, <1>2 DEF Extract, At, AfterExtraction, TypeOK, filingVars, serviceVars, sweepVars
  <2>2. HandFits'
    BY <1>0, <1>2, <2>1 DEF Extract, At, TypeOK, HandFits, SourceIsBacked, CapturePhases, DeletePhases,
       filingVars, sweepVars
  <2>3. SourceIsBacked'
    BY <1>0, <1>2 DEF Extract, SourceIsBacked, Open, filingVars
  <2>4. RequestHolds'
    BY <1>2, WorkerRequests DEF Extract, serviceVars
  <2>5. SweepIsClean'
    BY <2>1, NothingSwept
  <2> QED
    BY <2>1, <2>2, <2>3, <2>4, <2>5 DEF GarbageInv
<1>3. CASE StoreReadable(w)
  <2>0. Readable[job[w]] \in Blobs
    BY <1>0, <1>3 DEF StoreReadable, HandFits, CapturePhases, Blobs, Refs
  <2>1. TypeOK' /\ pc'[w] \in {"noting", "recording"} /\ (pc'[w] = "recording" => source[job[w]] # "none")
    BY <1>0, <1>3, <2>0 DEF StoreReadable, At, AfterExtraction, TypeOK, filingVars, serviceVars,
       sweepVars
  <2>2. HandFits'
    BY <1>0, <1>3, <2>1 DEF StoreReadable, At, TypeOK, HandFits, SourceIsBacked, CapturePhases,
       DeletePhases,
       filingVars, sweepVars
  <2>3. SourceIsBacked'
    BY <1>0, <1>3 DEF StoreReadable, SourceIsBacked, Open, filingVars
  <2>4. RequestHolds'
    BY <1>3, WorkerRequests DEF StoreReadable, serviceVars
  <2>5. SweepIsClean'
    BY <2>1, NothingSwept
  <2> QED
    BY <2>1, <2>2, <2>3, <2>4, <2>5 DEF GarbageInv
<1>4. CASE RecordExtraction(w)
  <2>0. job[w] \in Captures
    BY <1>0, <1>4 DEF RecordExtraction, At, HandFits, CapturePhases
  <2>1. TypeOK' /\ pc'[w] = "filing"
    BY <1>0, <1>4, <2>0 DEF RecordExtraction, At, TypeOK, filingVars, serviceVars, sweepVars
  <2>2. HandFits'
    BY <1>0, <1>4, <2>1 DEF RecordExtraction, At, TypeOK, HandFits, CapturePhases, DeletePhases,
       sweepVars
  <2>3. SourceIsBacked'
    BY <1>0, <1>4 DEF RecordExtraction, SourceIsBacked, Open
  <2>4. RequestHolds'
    BY <1>4, WorkerRequests DEF RecordExtraction, serviceVars
  <2>5. SweepIsClean'
    BY <2>1, NothingSwept
  <2> QED
    BY <2>1, <2>2, <2>3, <2>4, <2>5 DEF GarbageInv
<1>5. CASE File(w)
  <2>0. job[w] \in Captures /\ row[job[w]] = "processing" /\ job[w] \in extracted
    BY <1>0, <1>5 DEF File, At, HandFits, CapturePhases
  <2>1. TypeOK' /\ pc'[w] = "recording"
    BY <1>0, <1>5, <2>0 DEF File, At, TypeOK, serviceVars, sweepVars
  <2>2. HandFits'
    BY <1>0, <1>5, <2>1 DEF File, At, TypeOK, HandFits, CapturePhases, DeletePhases, sweepVars
  <2>3. SourceIsBacked'
    BY <1>0, <1>5, <2>0 DEF File, TypeOK, SourceIsBacked, Open
  <2>4. RequestHolds'
    BY <1>5, WorkerRequests DEF File, serviceVars
  <2>5. SweepIsClean'
    BY <2>1, NothingSwept
  <2> QED
    BY <2>1, <2>2, <2>3, <2>4, <2>5 DEF GarbageInv
<1>6. CASE RecordCapture(w)
  <2>0. job[w] \in Captures
    BY <1>0, <1>6 DEF RecordCapture, At, HandFits, CapturePhases
  <2>1. TypeOK' /\ pc'[w] = "finishing" /\ artifacts'[job[w]] = "live"
    BY <1>0, <1>6, <2>0 DEF RecordCapture, At, TypeOK, serviceVars, sweepVars
  <2>2. HandFits'
    BY <1>0, <1>6, <2>1 DEF RecordCapture, At, TypeOK, HandFits, CapturePhases, DeletePhases, sweepVars
  <2>3. SourceIsBacked'
    BY <1>0, <1>6 DEF RecordCapture, TypeOK, SourceIsBacked, Open
  <2>4. RequestHolds'
    BY <1>6, WorkerRequests DEF RecordCapture, serviceVars
  <2>5. SweepIsClean'
    BY <2>1, NothingSwept
  <2> QED
    BY <2>1, <2>2, <2>3, <2>4, <2>5 DEF GarbageInv
<1>7. CASE Finish(w)
  <2>0. job[w] \in Captures /\ row[job[w]] = "processing" /\ artifacts[job[w]] # "none"
    BY <1>0, <1>7 DEF Finish, At, HandFits, CapturePhases
  <2>1. TypeOK' /\ pc'[w] = "idle"
    BY <1>0, <1>7, <2>0 DEF Finish, At, TypeOK, Statuses, filingVars, serviceVars, sweepVars
  <2>2. HandFits'
    BY <1>0, <1>7, <2>1 DEF Finish, At, HandFits, CapturePhases, DeletePhases, sweepVars
  <2>3. SourceIsBacked'
    BY <1>0, <1>7, <2>0 DEF Finish, TypeOK, SourceIsBacked, Open, filingVars
  <2>4. RequestHolds'
    BY <1>0, <1>7, <2>0, WorkerRequests DEF Finish, TypeOK, serviceVars
  <2>5. SweepIsClean'
    BY <2>1, NothingSwept
  <2> QED
    BY <2>1, <2>2, <2>3, <2>4, <2>5 DEF GarbageInv
<1>8. CASE Reject(w)
  <2>0. job[w] \in Captures /\ row[job[w]] = "processing"
    BY <1>0, <1>8 DEF Reject, HandFits, CapturePhases
  <2>1. TypeOK' /\ pc'[w] = "idle"
    BY <1>0, <1>8, <2>0 DEF Reject, TypeOK, Statuses, filingVars, serviceVars, sweepVars
  <2>2. HandFits'
    BY <1>0, <1>8, <2>1 DEF Reject, HandFits, CapturePhases, DeletePhases, sweepVars
  <2>3. SourceIsBacked'
    BY <1>0, <1>8, <2>0 DEF Reject, TypeOK, SourceIsBacked, Open, filingVars
  <2>4. RequestHolds'
    BY <1>0, <1>8, <2>0, WorkerRequests DEF Reject, TypeOK, serviceVars
  <2>5. SweepIsClean'
    BY <2>1, NothingSwept
  <2> QED
    BY <2>1, <2>2, <2>3, <2>4, <2>5 DEF GarbageInv
<1> QED
  BY <1>1, <1>2, <1>3, <1>4, <1>5, <1>6, <1>7, <1>8 DEF FilingStep

\* Deleting a source, and a purge.
LEMMA SweepGarbage ==
    ASSUME OneWorker, GarbageInv, NEW w \in Workers,
           (\E c \in Captures : ClaimDelete(w, c)) \/ SweepStep(w) \/ Purge(w)
    PROVE  GarbageInv'
<1> USE OneWorker DEF OneWorker
<1>0. TypeOK /\ HandFits /\ SourceIsBacked /\ SweepIsClean
  BY DEF GarbageInv
<1>1. CASE \E c \in Captures : ClaimDelete(w, c)
  <2>1. PICK c \in Captures : ClaimDelete(w, c)
    BY <1>1
  <2>2. TypeOK' /\ pc'[w] \in {"deleting", "releasing"} /\ job'[w] = c /\ source[c] # "none"
    BY <1>0, <2>1 DEF ClaimDelete, TypeOK, SourceIsBacked, Statuses, DeletePhases, filingVars,
       serviceVars, sweepVars
  <2>3. HandFits'
    BY <1>0, <2>1, <2>2 DEF ClaimDelete, TypeOK, HandFits, CapturePhases, DeletePhases,
       filingVars, sweepVars
  <2>4. SourceIsBacked'
    BY <1>0, <2>1, <2>2 DEF ClaimDelete, TypeOK, SourceIsBacked, Open, filingVars
  <2>5. RequestHolds'
    BY <2>1, WorkerRequests DEF ClaimDelete, serviceVars
  <2>6. SweepIsClean'
    BY <2>2, NothingSwept
  <2> QED
    BY <2>2, <2>3, <2>4, <2>5, <2>6 DEF GarbageInv
<1>2. CASE Delete(w)
  <2>0. job[w] \in Captures /\ source[job[w]] # "none"
    BY <1>0, <1>2 DEF Delete, At, HandFits, DeletePhases
  <2>1. TypeOK' /\ pc'[w] = "releasing"
    BY <1>0, <1>2, <2>0 DEF Delete, At, TypeOK, DeletePhases, serviceVars, sweepVars
  <2>2. HandFits'
    BY <1>0, <1>2, <2>0, <2>1 DEF Delete, At, TypeOK, HandFits, CapturePhases, DeletePhases, sweepVars
  <2>3. SourceIsBacked'
    BY <1>0, <1>2, <2>0 DEF Delete, TypeOK, SourceIsBacked, Open
  <2>4. RequestHolds'
    BY <1>2, WorkerRequests DEF Delete, serviceVars
  <2>5. SweepIsClean'
    BY <2>1, NothingSwept
  <2> QED
    BY <2>1, <2>2, <2>3, <2>4, <2>5 DEF GarbageInv
<1>3. CASE Release(w)
  <2>0. job[w] \in Captures /\ source[job[w]] # "none" /\ Refs(job[w]) \subseteq Blobs
    BY <1>0, <1>3 DEF Release, At, HandFits, DeletePhases, Blobs
  <2>1. /\ pc' = [pc EXCEPT ![w] = "sweeping"]
        /\ UNCHANGED <<job, stored, row, extracted, source, left, request, session, expired>>
        /\ artifacts' = [artifacts EXCEPT ![job[w]] = IF @ = "none" THEN @ ELSE "released"]
        /\ doomed' = [doomed EXCEPT ![w] = {b \in Released(job[w]) : ~IsLive(artifacts', b)}]
    BY <1>3 DEF Release, At, serviceVars
  <2>a. Released(job[w]) \subseteq Blobs
    BY <2>0 DEF Released
  <2>2. TypeOK'
    BY <1>0, <1>3, <2>0, <2>1, <2>a DEF Release, TypeOK, DeletePhases, serviceVars
  <2>3. HandFits'
    <3>1. pc[w] = "releasing" /\ pc'[w] = "sweeping" /\ left[w] = {}
      BY <1>0, <1>3, <2>1 DEF Release, At, TypeOK, HandFits
    <3> QED
      BY <2>0, <2>1, <3>1 DEF HandFits, CapturePhases
  <2>4. SourceIsBacked'
    BY <1>0, <1>3, <2>0, <2>1 DEF Release, TypeOK, SourceIsBacked, Open
  <2>5. RequestHolds'
    BY <2>1, WorkerRequests
  <2>6. ASSUME NEW b \in Refs(job[w]) PROVE b \in doomed'[w] \/ Accounted(b)'
    <3>1. CASE artifacts[job[w]] # "none"
      <4>1. Released(job[w]) = Refs(job[w])
        BY <3>1 DEF Released
      <4>2. CASE IsLive(artifacts', b)
        BY <2>1, <4>2 DEF Accounted, IsLive, Open, Noted, Refs
      <4>3. CASE ~IsLive(artifacts', b)
        BY <1>0, <2>1, <4>1, <4>3 DEF TypeOK
      <4> QED
        BY <4>2, <4>3
    <3>2. CASE artifacts[job[w]] = "none"
      <4>1. Open(job[w]) /\ job[w] \in extracted
        BY <1>0, <2>0, <3>2 DEF SourceIsBacked
      <4> QED
        BY <2>0, <2>1, <4>1 DEF Accounted, IsLive, Open, Noted, Refs
    <3> QED
      BY <3>1, <3>2
  <2>7. SweepIsClean'
    BY <2>1, <2>6 DEF SweepIsClean, Refs
  <2> QED
    BY <2>2, <2>3, <2>4, <2>5, <2>7 DEF GarbageInv
<1>4. CASE EndDelete(w)
  <2>1. /\ pc[w] = "sweeping" /\ pc' = [pc EXCEPT ![w] = "closing"] /\ doomed[w] = {}
        /\ UNCHANGED <<stored, row, extracted, artifacts, source, deletion, session, expired, request, job,
                       chosen, left, doomed, faults>>
    BY <1>4 DEF EndDelete, At, filingVars, serviceVars, sweepVars
  <2>2. TypeOK'
    BY <1>0, <2>1 DEF TypeOK, DeletePhases
  <2>3. HandFits'
    BY <1>0, <2>1 DEF TypeOK, HandFits, CapturePhases, DeletePhases
  <2>4. SourceIsBacked' /\ RequestHolds'
    BY <1>0, <2>1, WorkerRequests DEF SourceIsBacked, Open
  <2>5. SweepIsClean'
    <3>1. \A b : Accounted(b)' <=> Accounted(b)
      BY <2>1 DEF Accounted, IsLive, Awaited, Open, Noted, Refs
    <3>2. \A b \in Refs(job[w]) : Accounted(b)
      BY <1>0, <2>1 DEF SweepIsClean
    <3> QED
      BY <2>1, <3>1, <3>2 DEF SweepIsClean, Refs
  <2> QED
    BY <2>2, <2>3, <2>4, <2>5 DEF GarbageInv
<1>5. CASE FinishDelete(w)
  <2>0. job[w] \in Captures /\ source[job[w]] # "none"
    BY <1>0, <1>5 DEF FinishDelete, At, HandFits, DeletePhases
  <2>1. TypeOK' /\ pc'[w] = "idle"
    BY <1>0, <1>5, <2>0 DEF FinishDelete, At, TypeOK, Statuses, filingVars, serviceVars, sweepVars
  <2>2. HandFits'
    BY <1>0, <1>5, <2>1 DEF FinishDelete, At, TypeOK, HandFits, CapturePhases, DeletePhases, sweepVars
  <2>3. SourceIsBacked'
    BY <1>0, <1>5, <2>0 DEF FinishDelete, TypeOK, SourceIsBacked, Open, filingVars
  <2>4. RequestHolds'
    BY <1>5, WorkerRequests DEF FinishDelete, serviceVars
  <2>5. SweepIsClean'
    BY <2>1, NothingSwept
  <2> QED
    BY <2>1, <2>2, <2>3, <2>4, <2>5 DEF GarbageInv
<1>6. CASE \E b \in Blobs : DeleteObject(w, b)
  <2>0. PICK o \in Blobs : DeleteObject(w, o)
    BY <1>6
  <2>1. /\ stored' = stored \ {o} /\ doomed' = [doomed EXCEPT ![w] = @ \ {o}]
        /\ UNCHANGED <<row, extracted, artifacts, source, deletion, session, expired, request, pc, job,
                       chosen, left, faults>>
    BY <2>0 DEF DeleteObject, filingVars, serviceVars
  <2>2. TypeOK'
    BY <1>0, <2>1 DEF TypeOK
  <2>3. HandFits'
    BY <1>0, <2>1 DEF TypeOK, HandFits
  <2>4. SourceIsBacked' /\ RequestHolds'
    BY <1>0, <2>1, WorkerRequests DEF SourceIsBacked, Open
  <2>5. \A b \in Blobs : Accounted(b) => Accounted(b)'
    BY <2>1 DEF Accounted, IsLive, Awaited, Open, Noted, Refs
  <2>6. ~Accounted(o)' => FALSE
    BY <2>1 DEF Accounted
  <2>7. pc[w] \in {"sweeping", "closing"} => Refs(job[w]) \subseteq Blobs
    BY <1>0 DEF HandFits, DeletePhases, Blobs
  <2>8. SweepIsClean'
    BY <1>0, <2>1, <2>5, <2>6, <2>7 DEF TypeOK, SweepIsClean, Refs
  <2> QED
    BY <2>2, <2>3, <2>4, <2>8 DEF GarbageInv
<1>7. CASE \E b \in Blobs : Check(w, b)
  <2>0. PICK o \in Blobs : Check(w, o)
    BY <1>7
  <2>1. pc[w] = "purging" /\ UNCHANGED pc
    BY <1>0, <2>0 DEF Check, HandFits
  <2>2. TypeOK'
    BY <1>0, <2>0 DEF Check, TypeOK, filingVars, serviceVars
  <2>3. HandFits'
    BY <1>0, <2>0, <2>1 DEF Check, TypeOK, HandFits, CapturePhases, DeletePhases, filingVars
  <2>4. SourceIsBacked' /\ RequestHolds'
    BY <1>0, <2>0, WorkerRequests DEF Check, SourceIsBacked, Open, filingVars, serviceVars
  <2>5. SweepIsClean'
    BY <2>1, NothingSwept
  <2> QED
    BY <2>2, <2>3, <2>4, <2>5 DEF GarbageInv
<1>8. CASE DropSessions(w)
  <2>1. pc[w] = "purging" /\ pc'[w] = "idle" /\ TypeOK'
    BY <1>0, <1>8 DEF DropSessions, At, TypeOK, filingVars
  <2>2. HandFits'
    BY <1>0, <1>8, <2>1 DEF DropSessions, HandFits, CapturePhases, DeletePhases, filingVars
  <2>3. SourceIsBacked'
    BY <1>0, <1>8 DEF DropSessions, SourceIsBacked, Open, filingVars
  <2>4. RequestHolds'
    BY <1>0, <1>8 DEF DropSessions, Held, TypeOK, GarbageInv, RequestHolds
  <2>5. SweepIsClean'
    BY <2>1, NothingSwept
  <2> QED
    BY <2>1, <2>2, <2>3, <2>4, <2>5 DEF GarbageInv
<1>9. CASE Purge(w)
  <2>0. Stale \subseteq Uploads /\ {Original[c] : c \in Stale} \subseteq Blobs
    BY <1>0, EvidenceAssumption DEF Stale, TypeOK, Blobs, Refs
  <2>1. pc[w] = "idle" /\ pc'[w] = "purging" /\ TypeOK'
    BY <1>0, <1>9, <2>0 DEF Purge, TypeOK, filingVars, serviceVars
  <2>2. HandFits'
    BY <1>0, <1>9, <2>1 DEF Purge, HandFits, CapturePhases, DeletePhases, filingVars
  <2>3. SourceIsBacked' /\ RequestHolds'
    BY <1>0, <1>9, WorkerRequests DEF Purge, SourceIsBacked, Open, filingVars, serviceVars
  <2>5. SweepIsClean'
    BY <2>1, NothingSwept
  <2> QED
    BY <2>1, <2>2, <2>3, <2>5 DEF GarbageInv
<1> QED
  BY <1>1, <1>2, <1>3, <1>4, <1>5, <1>6, <1>7, <1>8, <1>9 DEF SweepStep

\* A worker that stops leaves its deletion to be claimed again.
LEMMA StopGarbage ==
    ASSUME OneWorker, GarbageInv, NEW w \in Workers, Stop(w)
    PROVE  GarbageInv'
<1> USE OneWorker DEF OneWorker
<1>0. TypeOK /\ HandFits /\ SourceIsBacked
  BY DEF GarbageInv
<1>f. faults' \in 0 .. MaxFaults
  <2>1. faults \in 0 .. MaxFaults /\ MaxFaults \in Nat /\ faults < MaxFaults /\ faults' = faults + 1
    BY <1>0, EvidenceAssumption DEF Stop, TypeOK
  <2> QED
    BY <2>1
<1>1. TypeOK'
  BY <1>0, <1>f DEF Stop, TypeOK, Statuses, filingVars, serviceVars
<1>2. pc'[w] = "idle" /\ left'[w] = {}
  BY <1>0 DEF Stop, TypeOK
<1>3. HandFits'
  BY <1>2 DEF HandFits, CapturePhases, DeletePhases
<1>4. SourceIsBacked'
  BY <1>0 DEF Stop, TypeOK, HandFits, SourceIsBacked, Open, DeletePhases, filingVars
<1>5. RequestHolds'
  BY WorkerRequests DEF Stop, serviceVars
<1>6. SweepIsClean'
  BY <1>2, NothingSwept
<1> QED
  BY <1>1, <1>3, <1>4, <1>5, <1>6 DEF GarbageInv

\* With one writer the invariant holds.
LEMMA GarbageHolds == ASSUME OneWorker PROVE Spec => []GarbageInv
<1>1. Init => GarbageInv
  <2> SUFFICES ASSUME Init PROVE GarbageInv
    OBVIOUS
  <2>1. TypeOK
    BY EvidenceAssumption DEF Init, TypeOK, Statuses, DeletePhases
  <2>2. HandFits /\ SourceIsBacked /\ RequestHolds /\ SweepIsClean
    BY DEF Init, HandFits, SourceIsBacked, RequestHolds, SweepIsClean, CapturePhases, DeletePhases
  <2> QED
    BY <2>1, <2>2 DEF GarbageInv
<1>2. GarbageInv /\ [Next]_vars => GarbageInv'
  <2> SUFFICES ASSUME GarbageInv, [Next]_vars PROVE GarbageInv'
    OBVIOUS
  <2>1. ASSUME NEW c \in Captures, ServiceStep(c) PROVE GarbageInv'
    BY <2>1, ServiceGarbage
  <2>2. ASSUME NEW w \in Workers, LoopStep(w) \/ Stop(w) PROVE GarbageInv'
    BY <2>2, FilingGarbage, SweepGarbage, StopGarbage DEF LoopStep
  <2>3. CASE UNCHANGED vars
    <3>1. UNCHANGED <<stored, row, extracted, artifacts, source, deletion, session, expired, request, pc, job,
                      chosen, left, doomed, faults>>
      BY <2>3 DEF vars, filingVars, serviceVars, sweepVars
    <3>2. TypeOK' /\ RequestHolds'
      BY <3>1 DEF GarbageInv, TypeOK, RequestHolds
    <3>3. ServiceLeaves
      BY <3>1 DEF ServiceLeaves, Accounted, IsLive, Awaited, Open, Noted, Refs
    <3> QED
      BY <3>2, <3>3, ServiceKeeps
  <2> QED
    BY <2>1, <2>2, <2>3 DEF Next
<1> QED
  BY <1>1, <1>2, PTL DEF Spec

\* With one writer process, when a deletion lands every artifact of its source is gone, or needed by
\* somebody, or being submitted, or a purge will look at it: however often it stopped and was claimed
\* again, and whether or not objects are acquired beside its sweep (knowledge/writer.py,
\* _release_deleted_evidence and _recover).
THEOREM SourcesAreSwept == ASSUME OneWorker PROVE Spec => DeleteSweeps
<1> DEFINE Swept == \A c \in Captures :
                      deletion[c] = "processing" /\ deletion'[c] = "landed"
                        => \A b \in Refs(c) : b \notin stored \/ IsLive(artifacts, b) \/ Awaited(b)
<1>1. GarbageInv /\ [Next]_vars => [Swept]_vars
  <2> SUFFICES ASSUME GarbageInv, Next, NEW c \in Captures,
                      deletion[c] = "processing", deletion'[c] = "landed", NEW b \in Refs(c)
               PROVE  b \notin stored \/ IsLive(artifacts, b) \/ Awaited(b)
    OBVIOUS
  <2>0. TypeOK /\ HandFits /\ SweepIsClean
    BY DEF GarbageInv
  <2>1. PICK w \in Workers : FinishDelete(w) /\ job[w] = c
    <3>1. ASSUME NEW d \in Captures, ServiceStep(d) PROVE FALSE
      BY <2>0, <3>1 DEF ServiceStep, OpenSession, Upload, Expire, Finalize, Submit, Put,
         CommitVerified, Verify,
         Enqueue, Abort, Retry, DeleteSource, TypeOK
    <3>2. ASSUME NEW w \in Workers, Stop(w) PROVE FALSE
      BY <3>2 DEF Stop
    <3>3. ASSUME NEW w \in Workers, LoopStep(w) PROVE FinishDelete(w)
      <4>1. CASE \E d \in Captures : ClaimDelete(w, d)
        BY <2>0, <4>1 DEF ClaimDelete, TypeOK
      <4>2. CASE ~\E d \in Captures : ClaimDelete(w, d)
        <5> SUFFICES ASSUME ~FinishDelete(w) PROVE UNCHANGED deletion
          OBVIOUS
        <5> QED
          BY <3>3, <4>2 DEF LoopStep, FilingStep, SweepStep, Claim, Extract, StoreReadable,
             RecordExtraction,
             File, RecordCapture, Finish, Reject, Delete, Release, EndDelete, DeleteObject, Check, DropSessions,
             Purge
      <4> QED
        BY <4>1, <4>2
    <3>4. PICK w \in Workers : FinishDelete(w)
      BY <3>1, <3>2, <3>3 DEF Next
    <3>5. job[w] = c
      BY <2>0, <3>4 DEF FinishDelete, TypeOK
    <3> QED
      BY <3>4, <3>5
  <2>2. pc[w] = "closing" /\ doomed[w] = {}
    BY <2>0, <2>1 DEF FinishDelete, At, HandFits
  <2> QED
    BY <2>0, <2>1, <2>2 DEF SweepIsClean, Accounted
<1> QED
  BY <1>1, OneWorker, GarbageHolds, PTL DEF Spec, DeleteSweeps

-----------------------------------------------------------------------------
(* Workspaces.                                                             *)

Phases == {"idle"} \cup Provisioning \cup Deleting
WriterState == [pc : Phases, id : Ids \cup {NoId}, refs : SUBSET EvidenceRefs,
                error : {"none", "error", "refused"}]

\* A writer at work is at work for a workspace, and holds the lock once it has tried it.
HasId == \A p \in Writers : ~Stands(p, "idle") => Mine(p) \in Ids
LockIsHeld == \A p \in Writers : writer[p].pc \notin {"idle", "listed"} => lock = p

\* One workspace of the slug at a time has a row.
OneRegistered ==
    \A v, w \in Ids : tenant[v] \in Registered /\ tenant[w] \in Registered => v = w

\* What a deletion request has recorded agrees with the rows, the repository and the indexes.
RequestFits ==
    \A w \in Ids :
        /\ tenant[w] \in {"none", "provisioning"} => req[w].status = "none"
        /\ req[w].status = "none" => ~req[w].repoGone
        /\ req[w].rowsGone <=> tenant[w] = "gone"
        /\ req[w].rowsGone => req[w].repoGone /\ rows[w] = {}
        /\ ~req[w].rowsGone => req[w].garbage = {}
        /\ req[w].repoGone /\ ~req[w].rowsGone
               => tenant[w] = "suspended" /\ remote = "absent" /\ IsOpen(w)
        /\ req[w].status = "succeeded"
               => req[w].rowsGone /\ w \notin indexed /\ local[w] # "knowledge"

\* A suspended workspace has its repository too, unless its deletion is under way.
Whole ==
    \A w \in Ids :
        /\ tenant[w] = "active" => remote \in {"scaffold", w} \/ Unrecorded(w)
        /\ tenant[w] = "suspended" => remote \in {"scaffold", w} \/ Unrecorded(w) \/ IsOpen(w)

\* A workspace that a writer provisions, or is about to, is not being deleted.
ProvisionFits ==
    \A p \in Writers :
        /\ Stands(p, "listed")
               => tenant[Mine(p)] \in {"provisioning", "active"} /\ req[Mine(p)].status = "none"
        /\ writer[p].pc \in {"create", "push", "activate"}
               => tenant[Mine(p)] \in Registered /\ ~req[Mine(p)].repoGone
        /\ Stands(p, "push") => remote # "absent"
        /\ Stands(p, "activate") => remote \in {"scaffold", Mine(p)}

\* What each step of a deletion leaves for the next.
DeletionFits(p) ==
    /\ writer[p].pc \in Deleting => req[Mine(p)].status = "running"
    /\ writer[p].pc \in {"remove", "record"} => tenant[Mine(p)] = "suspended"
    /\ Stands(p, "record") => remote = "absent"
    /\ writer[p].pc \in {"read", "delete"} => req[Mine(p)].repoGone /\ ~req[Mine(p)].rowsGone
    /\ Stands(p, "delete") => rows[Mine(p)] \subseteq writer[p].refs \cup late
    /\ writer[p].pc \in {"drop", "sweep", "clean", "finish"} => req[Mine(p)].rowsGone
    /\ writer[p].pc \in {"sweep", "clean", "finish"} => Mine(p) \notin indexed
    /\ Stands(p, "clean") => \A r \in objects \cap req[Mine(p)].garbage : StillNeeded(r)
    /\ Stands(p, "finish") => local[Mine(p)] = "none"
    /\ Stands(p, "fail") /\ writer[p].error = "refused"
           => tenant[Mine(p)] \in {"provisioning", "active"}
EraseFits == \A p \in Writers : DeletionFits(p)

\* Every object is needed, waits to be swept, or came too late to be seen.
ObjectsAccounted ==
    \A r \in objects : StillNeeded(r) \/ r \in late \/ \E v \in Ids : r \in req[v].garbage

HandsInv == HasId /\ LockIsHeld
LifeInv ==
    LifeTypeOK /\ HandsInv /\ OneRegistered /\ RequestFits /\ Whole /\ ProvisionFits /\ EraseFits
    /\ ObjectsAccounted /\ SlugHoldsNoOldKnowledge

-----------------------------------------------------------------------------
(* What a part of the invariant rests on: a step that leaves that alone keeps the part. *)

LEMMA KeepHands == HandsInv /\ UNCHANGED <<writer, lock>> => HandsInv'
  BY DEF HandsInv, HasId, LockIsHeld, Stands, Mine

LEMMA KeepRegistered == OneRegistered /\ UNCHANGED tenant => OneRegistered'
  BY DEF OneRegistered

LEMMA KeepRequests ==
    RequestFits /\ UNCHANGED <<tenant, req, rows, remote, indexed, local>> => RequestFits'
  BY DEF RequestFits, IsOpen

LEMMA KeepWhole == Whole /\ UNCHANGED <<tenant, remote, req>> => Whole'
  BY DEF Whole, Unrecorded, IsOpen

LEMMA KeepProvision == ProvisionFits /\ UNCHANGED <<writer, tenant, req, remote>> => ProvisionFits'
  BY DEF ProvisionFits, Stands, Mine

LEMMA KeepErase ==
    EraseFits /\ UNCHANGED <<writer, tenant, req, remote, rows, indexed, local, objects, late>>
        => EraseFits'
  BY DEF EraseFits, DeletionFits, Stands, Mine, StillNeeded

LEMMA KeepObjects == ObjectsAccounted /\ UNCHANGED <<objects, rows, late, req>> => ObjectsAccounted'
  BY DEF ObjectsAccounted, StillNeeded

LEMMA KeepSlug ==
    SlugHoldsNoOldKnowledge /\ UNCHANGED <<remote, tenant>> => SlugHoldsNoOldKnowledge'
  BY DEF SlugHoldsNoOldKnowledge

-----------------------------------------------------------------------------
(* What the steps of a writer do to it.                                    *)

\* Only p changes, and keeps its workspace.
Moves(p, next) ==
    /\ writer' \in [Writers -> WriterState]
    /\ writer'[p].pc = next /\ writer'[p].id = writer[p].id
    /\ \A q \in Writers \ {p} : writer'[q] = writer[q]

\* Only p changes, and is idle again.
Leaves(p) ==
    /\ writer' \in [Writers -> WriterState]
    /\ writer'[p].pc = "idle"
    /\ \A q \in Writers \ {p} : writer'[q] = writer[q]

LEMMA StepMoves ==
    ASSUME LifeTypeOK, NEW p \in Writers, NEW next \in Phases, Step(p, next)
    PROVE  /\ Moves(p, next)
           /\ writer'[p].refs = writer[p].refs /\ writer'[p].error = writer[p].error
  BY DEF LifeTypeOK, WriterState, Phases, Step, Moves

LEMMA FailMoves ==
    ASSUME LifeTypeOK, NEW p \in Writers, NEW e \in {"error", "refused"}, FailWith(p, e)
    PROVE  Moves(p, "fail") /\ writer'[p].error = e
<1> DEFINE stopped == [writer EXCEPT ![p].pc = "fail"]
<1>1. writer' = [stopped EXCEPT ![p].error = e]
  BY DEF FailWith
<1>2. writer \in [Writers -> WriterState] /\ "fail" \in Phases
  BY DEF LifeTypeOK, WriterState, Phases, Deleting
<1>3. /\ stopped \in [Writers -> WriterState]
      /\ stopped[p].pc = "fail" /\ stopped[p].id = writer[p].id
      /\ \A q \in Writers \ {p} : stopped[q] = writer[q]
  BY <1>2 DEF WriterState
<1> HIDE DEF stopped
<1>4. /\ writer' \in [Writers -> WriterState]
      /\ writer'[p].pc = "fail" /\ writer'[p].id = writer[p].id /\ writer'[p].error = e
      /\ \A q \in Writers \ {p} : writer'[q] = writer[q]
  BY <1>1, <1>3 DEF WriterState
<1> QED
  BY <1>4 DEF Moves

LEMMA LeaveMoves ==
    ASSUME LifeTypeOK, NEW p \in Writers, Leave(p)
    PROVE  Leaves(p) /\ lock' = NoWriter
  BY DEF LifeTypeOK, WriterState, Phases, Leave, Leaves, Idle

\* While a writer holds the lock the others are idle or have listed a workspace.
LEMMA OthersWait ==
    ASSUME LifeInv, NEW p \in Writers, writer[p].pc \notin {"idle", "listed"}
    PROVE  /\ lock = p /\ lock # NoWriter /\ Mine(p) \in Ids
           /\ \A q \in Writers \ {p} : writer[q].pc \in {"idle", "listed"}
  BY LifeAssumption DEF LifeInv, HandsInv, HasId, LockIsHeld, Stands

\* It goes on, or it lets the lock go.
LEMMA HandsGoOn ==
    ASSUME LifeInv, NEW p \in Writers, writer[p].pc \notin {"idle", "listed"},
           \/ (\E next \in Phases : Moves(p, next)) /\ lock' = lock
           \/ Leaves(p) /\ lock' = NoWriter
    PROVE  HandsInv'
<1>1. lock = p /\ Mine(p) \in Ids /\ \A q \in Writers \ {p} : writer[q].pc \in {"idle", "listed"}
  BY OthersWait
<1>2. HasId'
  BY <1>1 DEF LifeInv, HandsInv, HasId, Stands, Mine, Moves, Leaves
<1>3. LockIsHeld'
  BY <1>1 DEF LifeInv, HandsInv, LockIsHeld, Moves, Leaves
<1> QED
  BY <1>2, <1>3 DEF HandsInv

\* A deletion disturbs no workspace that another writer has listed.
LEMMA ErasingKeepsListed ==
    ASSUME LifeInv, NEW p \in Writers, writer[p].pc \in Deleting,
           Leaves(p) \/ \E next \in Deleting : Moves(p, next),
           \A w \in Ids \ {Mine(p)} : tenant'[w] = tenant[w] /\ req'[w].status = req[w].status
    PROVE  ProvisionFits'
<1>1. Mine(p) \in Ids /\ \A q \in Writers \ {p} : writer[q].pc \in {"idle", "listed"}
  BY OthersWait DEF Deleting
<1>2. req[Mine(p)].status = "running"
  BY DEF LifeInv, EraseFits, DeletionFits
<1>3. writer'[p].pc \notin {"listed", "create", "push", "activate"}
  BY DEF Moves, Leaves, Deleting
<1>4. \A q \in Writers \ {p} : writer'[q] = writer[q]
  BY DEF Moves, Leaves
<1>5. ASSUME NEW q \in Writers, writer'[q].pc \in {"listed", "create", "push", "activate"}
      PROVE  /\ q # p /\ writer'[q].pc = "listed"
             /\ tenant'[writer'[q].id] \in {"provisioning", "active"} /\ req'[writer'[q].id].status = "none"
  <2>1. q # p /\ writer'[q] = writer[q] /\ writer[q].pc = "listed"
    BY <1>1, <1>3, <1>4, <1>5
  <2>2. /\ tenant[Mine(q)] \in {"provisioning", "active"} /\ req[Mine(q)].status = "none"
        /\ Mine(q) \in Ids
    BY <2>1 DEF LifeInv, ProvisionFits, HandsInv, HasId, Stands
  <2>3. Mine(q) # Mine(p)
    BY <1>2, <2>2
  <2> QED
    BY <2>1, <2>2, <2>3 DEF Mine
<1> QED
  BY <1>5 DEF ProvisionFits, Stands, Mine

\* Only the writer that holds the lock deletes.
LEMMA OthersDoNotErase ==
    ASSUME LifeInv, NEW p \in Writers, writer[p].pc \notin {"idle", "listed"},
           Leaves(p) \/ \E next \in Phases : Moves(p, next)
    PROVE  \A q \in Writers \ {p} : writer'[q].pc \notin Deleting
  BY OthersWait DEF Deleting, Moves, Leaves

LEMMA MineAlone ==
    ASSUME LifeInv, NEW p \in Writers, writer[p].pc \notin {"idle", "listed"},
           Leaves(p) \/ \E next \in Phases : Moves(p, next),
           DeletionFits(p)'
    PROVE  EraseFits'
<1>1. \A q \in Writers \ {p} : writer'[q].pc \notin Deleting
  BY OthersDoNotErase
<1>2. ASSUME NEW q \in Writers \ {p} PROVE DeletionFits(q)'
  BY <1>1, <1>2 DEF DeletionFits, Stands, Deleting
<1> QED
  BY <1>2 DEF EraseFits

LEMMA RequestMoves ==
    ASSUME LifeTypeOK, NEW w \in Ids
    PROVE  /\ \A s \in {"queued", "failed", "succeeded"} :
                  [req EXCEPT ![w].status = s] \in [Ids -> Request]
           /\ [req EXCEPT ![w].due = TRUE] \in [Ids -> Request]
           /\ [req EXCEPT ![w].repoGone = TRUE] \in [Ids -> Request]
           /\ [req EXCEPT ![w].garbage = {}] \in [Ids -> Request]
<1>1. req \in [Ids -> Request]
  BY DEF LifeTypeOK
<1>2. \A s \in {"queued", "failed", "succeeded"} :
          [req EXCEPT ![w].status = s] \in [Ids -> Request]
  BY <1>1 DEF Request
<1>3. [req EXCEPT ![w].due = TRUE] \in [Ids -> Request]
  BY <1>1 DEF Request
<1>4. [req EXCEPT ![w].repoGone = TRUE] \in [Ids -> Request]
  BY <1>1 DEF Request
<1>5. [req EXCEPT ![w].garbage = {}] \in [Ids -> Request]
  BY <1>1 DEF Request
<1> QED
  BY <1>2, <1>3, <1>4, <1>5

LEMMA LifeInit_Inv == LifeInit => LifeInv
<1> SUFFICES ASSUME LifeInit PROVE LifeInv
  OBVIOUS
<1> USE DEF LifeInit
<1>1. LifeTypeOK
  <2>1. NoRequest \in Request
    BY LifeAssumption DEF NoRequest, Request
  <2>2. Idle \in WriterState
    BY DEF Idle, WriterState, Phases
  <2> QED
    BY <2>1, <2>2, LifeAssumption DEF LifeTypeOK, RowStates, Registered, Remotes, Checkouts, WriterState, Phases
<1>2. HandsInv /\ ProvisionFits /\ EraseFits
  BY DEF HandsInv, HasId, LockIsHeld, ProvisionFits, EraseFits, DeletionFits, Stands, Mine, Idle, Deleting
<1>3. OneRegistered /\ RequestFits /\ Whole /\ ObjectsAccounted
  BY DEF OneRegistered, Registered, RequestFits, Whole, ObjectsAccounted, NoRequest
<1>4. remote = "absent" /\ \A w \in Ids : tenant[w] = "none"
  OBVIOUS
<1>5. SlugHoldsNoOldKnowledge
  BY <1>4, LifeAssumption DEF SlugHoldsNoOldKnowledge, Registered
<1> QED
  BY <1>1, <1>2, <1>3, <1>5 DEF LifeInv

-----------------------------------------------------------------------------
LEMMA CreateTenantStep ==
    ASSUME PromptLock, LifeInv, NEW w \in Ids, CreateTenant(w)
    PROVE  LifeInv'
<1>1. LifeTypeOK'
  BY LifeAssumption DEF CreateTenant, LifeInv, LifeTypeOK, Prompt, Registered, RowStates, Remotes,
     Checkouts, Request, Provisioning, Deleting, Stands
<1>2. HandsInv' /\ ObjectsAccounted'
  BY KeepHands, KeepObjects DEF LifeInv, CreateTenant
<1>3. OneRegistered'
  BY LifeAssumption DEF CreateTenant, LifeInv, OneRegistered, LifeTypeOK, Prompt, Registered,
     Stands
<1>4. RequestFits'
  BY LifeAssumption DEF CreateTenant, LifeInv, RequestFits, LifeTypeOK, Prompt, Registered,
     IsOpen, Stands, OpenRequest
<1>5. Whole'
  BY LifeAssumption DEF CreateTenant, LifeInv, Whole, LifeTypeOK, Prompt, Registered, Unrecorded,
     IsOpen, Stands, OpenRequest
<1>6. ProvisionFits'
  BY LifeAssumption DEF CreateTenant, LifeInv, ProvisionFits, LifeTypeOK, Prompt, Registered,
     Stands, Mine
<1>7. EraseFits'
  BY LifeAssumption DEF CreateTenant, LifeInv, EraseFits, LifeTypeOK, Prompt, Registered,
     DeletionFits, Stands, Deleting, Mine, StillNeeded
<1>8. SlugHoldsNoOldKnowledge'
  BY LifeAssumption DEF CreateTenant, LifeInv, SlugHoldsNoOldKnowledge, LifeTypeOK, Prompt,
     Registered, Stands
<1> QED
  BY <1>1, <1>2, <1>3, <1>4, <1>5, <1>6, <1>7, <1>8 DEF LifeInv

LEMMA SetStatusStep ==
    ASSUME PromptLock, LifeInv, NEW w \in Ids, NEW s \in {"active", "suspended"}, SetStatus(w, s)
    PROVE  LifeInv'
<1>1. LifeTypeOK'
  BY LifeAssumption DEF SetStatus, LifeInv, LifeTypeOK, Prompt, IsOpen, RowStates, Remotes,
     Checkouts, Request, Provisioning, Deleting, Stands, OpenRequest
<1>2. HandsInv' /\ ObjectsAccounted'
  BY KeepHands, KeepObjects DEF LifeInv, SetStatus
<1>3. OneRegistered'
  BY LifeAssumption DEF SetStatus, LifeInv, OneRegistered, LifeTypeOK, Prompt, IsOpen, Registered,
     Stands, OpenRequest
<1>4. RequestFits'
  BY LifeAssumption DEF SetStatus, LifeInv, RequestFits, LifeTypeOK, Prompt, IsOpen, Stands,
     OpenRequest
<1>5. Whole'
  BY LifeAssumption DEF SetStatus, LifeInv, Whole, LifeTypeOK, Prompt, IsOpen, Unrecorded, Stands,
     OpenRequest
<1>6. ProvisionFits'
  BY LifeAssumption DEF SetStatus, LifeInv, ProvisionFits, LifeTypeOK, Prompt, IsOpen, Stands,
     Mine, Registered, OpenRequest
<1>7. EraseFits'
  BY LifeAssumption DEF SetStatus, LifeInv, EraseFits, LifeTypeOK, Prompt, IsOpen, DeletionFits,
     Stands, OpenRequest, Deleting, Mine, StillNeeded
<1>8. SlugHoldsNoOldKnowledge'
  BY LifeAssumption DEF SetStatus, LifeInv, SlugHoldsNoOldKnowledge, LifeTypeOK, Prompt, IsOpen,
     Registered, Stands, OpenRequest
<1> QED
  BY <1>1, <1>2, <1>3, <1>4, <1>5, <1>6, <1>7, <1>8 DEF LifeInv

LEMMA RequestErasureStep ==
    ASSUME PromptLock, LifeInv, NEW w \in Ids, RequestErasure(w)
    PROVE  LifeInv'
<1>1. LifeTypeOK'
  <2> DEFINE queued == [NoRequest EXCEPT !.status = "queued"]
             due == [queued EXCEPT !.due = TRUE]
             fresh == [due EXCEPT !.round = req[w].round + 1]
  <2>1. req' = [req EXCEPT ![w] = fresh]
    BY DEF RequestErasure
  <2>2. req[w].round + 1 \in 0 .. MaxRequests
    BY LifeAssumption DEF LifeInv, LifeTypeOK, Request, RequestErasure
  <2>3. NoRequest \in Request
    BY LifeAssumption DEF NoRequest, Request
  <2>4. queued \in Request
    BY <2>3 DEF Request
  <2>5. due \in Request
    <3> HIDE DEF queued
    <3> QED
      BY <2>4 DEF Request
  <2>6. fresh \in Request
    <3> HIDE DEF due
    <3> QED
      BY <2>2, <2>5 DEF Request
  <2> HIDE DEF fresh
  <2> QED
    BY <2>1, <2>6 DEF LifeInv, LifeTypeOK, RequestErasure
<1>2. HandsInv' /\ OneRegistered' /\ SlugHoldsNoOldKnowledge'
  BY KeepHands, KeepRegistered, KeepSlug DEF LifeInv, RequestErasure
<1>3. RequestFits'
  BY LifeAssumption DEF RequestErasure, LifeInv, RequestFits, LifeTypeOK, Prompt, IsOpen,
     NoRequest, Stands, OpenRequest
<1>4. Whole'
  BY LifeAssumption DEF RequestErasure, LifeInv, Whole, LifeTypeOK, Prompt, IsOpen, NoRequest,
     Unrecorded, Stands, OpenRequest
<1>5. ProvisionFits'
  BY LifeAssumption DEF RequestErasure, LifeInv, ProvisionFits, LifeTypeOK, Prompt, IsOpen,
     NoRequest, Stands, Mine, Registered, OpenRequest
<1>6. EraseFits'
  BY LifeAssumption DEF RequestErasure, LifeInv, EraseFits, LifeTypeOK, Prompt, IsOpen, NoRequest,
     DeletionFits, Stands, OpenRequest, Deleting, Mine, StillNeeded
<1>7. ObjectsAccounted'
  BY LifeAssumption DEF RequestErasure, LifeInv, ObjectsAccounted, LifeTypeOK, RequestFits,
     Prompt, IsOpen, NoRequest, StillNeeded, Stands, OpenRequest
<1> QED
  BY <1>1, <1>2, <1>3, <1>4, <1>5, <1>6, <1>7 DEF LifeInv

LEMMA AdmitStep ==
    ASSUME LifeInv, NEW w \in Ids, NEW r \in EvidenceRefs, Admit(w, r)
    PROVE  LifeInv'
<1>1. LifeTypeOK'
  BY LifeAssumption DEF Admit, LifeInv, LifeTypeOK, RowStates, Remotes, Checkouts, Request,
     Provisioning, Deleting
<1>2. HandsInv' /\ OneRegistered' /\ RequestFits' /\ Whole' /\ ProvisionFits' /\ EraseFits' /\ ObjectsAccounted' /\ SlugHoldsNoOldKnowledge'
  BY KeepHands, KeepRegistered, KeepRequests, KeepWhole, KeepProvision, KeepErase, KeepObjects,
     KeepSlug DEF LifeInv, Admit
<1> QED
  BY <1>1, <1>2 DEF LifeInv

LEMMA CommitCaptureStep ==
    ASSUME LifeInv, NEW w \in Ids, NEW r \in EvidenceRefs, CommitCapture(w, r)
    PROVE  LifeInv'
<1>1. LifeTypeOK'
  BY LifeAssumption DEF CommitCapture, LifeInv, LifeTypeOK, Registered, Stands, Mine, RowStates,
     Remotes, Checkouts, Request, Provisioning, Deleting
<1>2. HandsInv' /\ OneRegistered' /\ Whole' /\ ProvisionFits' /\ SlugHoldsNoOldKnowledge'
  BY KeepHands, KeepRegistered, KeepWhole, KeepProvision, KeepSlug DEF LifeInv, CommitCapture
<1>3. RequestFits'
  BY LifeAssumption DEF CommitCapture, LifeInv, RequestFits, LifeTypeOK, Registered, Stands, Mine,
     IsOpen, OpenRequest
<1>4. EraseFits'
  <2>1. UNCHANGED <<writer, tenant, req, remote, indexed, local>>
    BY DEF CommitCapture
  <2>2. CASE UNCHANGED <<rows, objects, late>>
    BY <2>1, <2>2, KeepErase DEF LifeInv
  <2>3. CASE /\ rows' = [rows EXCEPT ![w] = @ \cup {r}] /\ objects' = objects \cup {r}
             /\ late' = IF \E p \in Writers : Stands(p, "delete") /\ Mine(p) = w
                        THEN late \cup {r} ELSE late
    <3>1. \A v \in Ids : /\ v # w => rows'[v] = rows[v]
                         /\ v = w => rows'[v] = rows[v] \cup {r}
      BY <2>3 DEF LifeInv, LifeTypeOK
    <3>2. StillNeeded(r)' /\ \A o \in objects : StillNeeded(o) => StillNeeded(o)'
      BY <3>1 DEF StillNeeded
    <3> SUFFICES ASSUME NEW p \in Writers PROVE DeletionFits(p)'
      BY DEF EraseFits
    <3>3. DeletionFits(p)
      BY DEF LifeInv, EraseFits
    <3>4. Stands(p, "clean")' => \A o \in objects' \cap req'[Mine(p)'].garbage : StillNeeded(o)'
      BY <2>1, <2>3, <3>2, <3>3 DEF DeletionFits, Stands, Mine
    <3>5. Stands(p, "delete")' => rows'[Mine(p)'] \subseteq writer'[p].refs \cup late'
      <4> SUFFICES ASSUME Stands(p, "delete") PROVE rows'[Mine(p)] \subseteq writer[p].refs \cup late'
        BY <2>1 DEF Stands, Mine
      <4>1. rows[Mine(p)] \subseteq writer[p].refs \cup late /\ Mine(p) \in Ids
        BY <3>3 DEF DeletionFits, LifeInv, HandsInv, HasId, Stands
      <4>2. late \subseteq late' /\ (Mine(p) = w => r \in late')
        BY <2>3
      <4> QED
        BY <3>1, <4>1, <4>2
    <3> QED
      BY <2>1, <3>3, <3>4, <3>5 DEF DeletionFits, Stands, Mine
  <2> QED
    BY <2>2, <2>3 DEF CommitCapture
<1>5. ObjectsAccounted'
  <2>1. \A o \in objects' : o \in objects \/ (o = r /\ r \in rows'[w])
    BY DEF CommitCapture, LifeInv, LifeTypeOK
  <2>2. \A o \in objects : StillNeeded(o) => StillNeeded(o)'
    BY DEF CommitCapture, LifeInv, LifeTypeOK, StillNeeded
  <2>3. late \subseteq late' /\ req' = req
    BY DEF CommitCapture
  <2> QED
    BY <2>1, <2>2, <2>3 DEF LifeInv, ObjectsAccounted, StillNeeded
<1> QED
  BY <1>1, <1>2, <1>3, <1>4, <1>5 DEF LifeInv

LEMMA LandStep ==
    ASSUME LifeInv, NEW w \in Ids, Land(w)
    PROVE  LifeInv'
<1>1. LifeTypeOK'
  BY LifeAssumption DEF Land, LifeInv, LifeTypeOK, RowStates, Remotes, Checkouts, Request,
     Provisioning, Deleting
<1>2. HandsInv' /\ OneRegistered' /\ ObjectsAccounted'
  BY KeepHands, KeepRegistered, KeepObjects DEF LifeInv, Land
<1>3. RequestFits'
  BY LifeAssumption DEF Land, LifeInv, RequestFits, LifeTypeOK, IsOpen, OpenRequest
<1>4. Whole'
  BY LifeAssumption DEF Land, LifeInv, Whole, LifeTypeOK, OneRegistered, Registered, Unrecorded,
     IsOpen, OpenRequest
<1>5. ProvisionFits'
  BY LifeAssumption DEF Land, LifeInv, ProvisionFits, LifeTypeOK, HandsInv, HasId, LockIsHeld,
     Stands, Mine, Registered
<1>6. EraseFits'
  BY LifeAssumption DEF Land, LifeInv, EraseFits, LifeTypeOK, HandsInv, HasId, LockIsHeld, Stands,
     Mine, DeletionFits, Deleting, StillNeeded
<1>7. SlugHoldsNoOldKnowledge'
  BY LifeAssumption DEF Land, LifeInv, SlugHoldsNoOldKnowledge, LifeTypeOK, Registered
<1> QED
  BY <1>1, <1>2, <1>3, <1>4, <1>5, <1>6, <1>7 DEF LifeInv

LEMMA ListWaitingStep ==
    ASSUME LifeInv, NEW p \in Writers, NEW w \in Ids, ListWaiting(p, w)
    PROVE  LifeInv'
<1>1. /\ writer' \in [Writers -> WriterState]
      /\ writer'[p].pc = "listed" /\ writer'[p].id = w
      /\ \A q \in Writers \ {p} : writer'[q] = writer[q]
  <2> DEFINE named == [writer EXCEPT ![p].pc = "listed"]
  <2>1. writer' = [named EXCEPT ![p].id = w]
    BY DEF ListWaiting
  <2>2. /\ named \in [Writers -> WriterState] /\ named[p].pc = "listed"
        /\ \A q \in Writers \ {p} : named[q] = writer[q]
    BY DEF LifeInv, LifeTypeOK, WriterState, Phases, Provisioning
  <2> HIDE DEF named
  <2> QED
    BY <2>1, <2>2 DEF WriterState
<1>2. LifeTypeOK'
  BY <1>1 DEF LifeInv, LifeTypeOK, WriterState, Phases, ListWaiting
<1>3. /\ OneRegistered' /\ RequestFits' /\ Whole' /\ ObjectsAccounted' /\ SlugHoldsNoOldKnowledge'
  BY KeepRegistered, KeepRequests, KeepWhole, KeepObjects, KeepSlug DEF LifeInv, ListWaiting
<1>4. HandsInv'
  BY <1>1 DEF LifeInv, HandsInv, HasId, LockIsHeld, ListWaiting, Stands, Mine
<1>5. ProvisionFits'
  <2>1. tenant[w] = "provisioning" /\ req[w].status = "none"
    BY DEF LifeInv, RequestFits, ListWaiting
  <2>2. UNCHANGED <<tenant, req, remote>>
    BY DEF ListWaiting
  <2> QED
    BY <1>1, <2>1, <2>2 DEF LifeInv, ProvisionFits, Stands, Mine
<1>6. EraseFits'
  <2>1. UNCHANGED <<tenant, req, remote, rows, indexed, local, objects, late>>
    BY DEF ListWaiting
  <2>2. writer'[p].pc \notin Deleting
    BY <1>1 DEF Deleting
  <2> QED
    BY <1>1, <2>1, <2>2 DEF LifeInv, EraseFits, DeletionFits, Stands, Mine, StillNeeded, Deleting
<1> QED
  BY <1>2, <1>3, <1>4, <1>5, <1>6 DEF LifeInv


LEMMA TryLockStep ==
    ASSUME LifeInv, NEW p \in Writers, TryLock(p)
    PROVE  LifeInv'
<1>1. \/ Moves(p, "create") /\ lock = NoWriter /\ lock' = p
      \/ Leaves(p) /\ lock' = lock
  <2>1. CASE lock = NoWriter
    BY <2>1, StepMoves DEF LifeInv, TryLock, Phases, Provisioning
  <2>2. CASE lock # NoWriter
    BY <2>2 DEF LifeInv, LifeTypeOK, WriterState, Phases, TryLock, Leaves, Idle
  <2> QED
    BY <2>1, <2>2
<1>2. Stands(p, "listed") /\ Mine(p) \in Ids
  BY DEF LifeInv, HandsInv, HasId, TryLock, Stands
<1>3. LifeTypeOK'
  BY <1>1 DEF LifeInv, LifeTypeOK, WriterState, Phases, TryLock, Moves, Leaves
<1>4. OneRegistered' /\ RequestFits' /\ Whole' /\ ObjectsAccounted' /\ SlugHoldsNoOldKnowledge'
  BY KeepRegistered, KeepRequests, KeepWhole, KeepObjects, KeepSlug DEF LifeInv, TryLock
<1>5. HandsInv'
  <2>1. lock = NoWriter => \A q \in Writers : writer[q].pc \in {"idle", "listed"}
    BY LifeAssumption DEF LifeInv, HandsInv, LockIsHeld
  <2> QED
    BY <1>1, <1>2, <2>1 DEF LifeInv, HandsInv, HasId, LockIsHeld, Stands, Mine, Moves, Leaves
<1>6. ProvisionFits'
  <2>1. /\ tenant[Mine(p)] \in Registered /\ ~req[Mine(p)].repoGone
    BY <1>2 DEF LifeInv, ProvisionFits, RequestFits, Registered
  <2>2. UNCHANGED <<tenant, req, remote>>
    BY DEF TryLock
  <2> QED
    BY <1>1, <2>1, <2>2 DEF LifeInv, ProvisionFits, Stands, Mine, Moves, Leaves
<1>7. EraseFits'
  <2>1. UNCHANGED <<tenant, req, remote, rows, indexed, local, objects, late>>
    BY DEF TryLock
  <2>2. writer'[p].pc \notin Deleting /\ \A q \in Writers \ {p} : writer'[q] = writer[q]
    BY <1>1 DEF Deleting, Moves, Leaves
  <2> QED
    BY <2>1, <2>2 DEF LifeInv, EraseFits, DeletionFits, Stands, Mine, StillNeeded, Deleting
<1> QED
  BY <1>3, <1>4, <1>5, <1>6, <1>7 DEF LifeInv


LEMMA CreateRemoteStep ==
    ASSUME LifeInv, NEW p \in Writers, CreateRemote(p)
    PROVE  LifeInv'
<1>1. /\ writer[p].pc = "create"
      /\ (Moves(p, "push") /\ lock' = lock) \/ (Leaves(p) /\ lock' = NoWriter)
  <2>1. CASE Step(p, "push") /\ UNCHANGED lock
    BY <2>1, StepMoves DEF LifeInv, CreateRemote, Stands, Phases, Provisioning
  <2>2. CASE Leave(p)
    BY <2>2, LeaveMoves DEF LifeInv, CreateRemote, Stands
  <2> QED
    BY <2>1, <2>2 DEF CreateRemote
<1>2. remote' # "absent" /\ remote' \in {remote, "bare"} /\ (remote # "absent" => remote' = remote)
  BY DEF CreateRemote
<1>3. UNCHANGED <<tenant, local, rows, indexed, objects, flight, req, late>> /\ troubles' \in 0 .. MaxTroubles
  BY LifeAssumption DEF CreateRemote, LifeInv, LifeTypeOK, Trouble
<1>4. /\ lock = p /\ Mine(p) \in Ids /\ tenant[Mine(p)] \in Registered /\ ~req[Mine(p)].repoGone
      /\ \A q \in Writers \ {p} : writer[q].pc \in {"idle", "listed"}
  BY <1>1, OthersWait DEF LifeInv, ProvisionFits
<1>5. LifeTypeOK'
  BY <1>1, <1>2, <1>3, <1>4 DEF LifeInv, LifeTypeOK, WriterState, Phases, Remotes, Moves, Leaves
<1>6. HandsInv'
  BY <1>1, HandsGoOn DEF Phases, Provisioning
<1>7. OneRegistered' /\ ObjectsAccounted'
  BY <1>3, KeepRegistered, KeepObjects DEF LifeInv
<1>8. RequestFits'
  <2>1. \A w \in Ids : req[w].repoGone /\ ~req[w].rowsGone => FALSE
    BY <1>4 DEF LifeInv, RequestFits, OneRegistered, Registered
  <2> QED
    BY <1>3, <2>1 DEF LifeInv, RequestFits, IsOpen
<1>9. Whole'
  <2>1. \A w \in Ids : remote \in {"scaffold", w} => remote' \in {"scaffold", w}
    BY <1>2, LifeAssumption
  <2> QED
    BY <1>3, <2>1 DEF LifeInv, Whole, Unrecorded, IsOpen
<1>10. ProvisionFits'
  BY <1>1, <1>2, <1>3, <1>4 DEF LifeInv, ProvisionFits, Stands, Mine, Moves, Leaves
<1>11. EraseFits'
  <2>1. \A q \in Writers : writer'[q].pc \notin Deleting
    BY <1>1, <1>4 DEF Deleting, Moves, Leaves
  <2> QED
    BY <2>1 DEF EraseFits, DeletionFits, Stands, Deleting
<1>12. SlugHoldsNoOldKnowledge'
  BY <1>2, <1>3, LifeAssumption DEF LifeInv, SlugHoldsNoOldKnowledge
<1> QED
  BY <1>5, <1>6, <1>7, <1>8, <1>9, <1>10, <1>11, <1>12 DEF LifeInv


LEMMA PushScaffoldStep ==
    ASSUME LifeInv, NEW p \in Writers, PushScaffold(p)
    PROVE  LifeInv'
<1>1. /\ writer[p].pc = "push"
      /\ (Moves(p, "activate") /\ lock' = lock) \/ (Leaves(p) /\ lock' = NoWriter)
  <2>1. CASE Step(p, "activate") /\ UNCHANGED lock
    BY <2>1, StepMoves DEF LifeInv, PushScaffold, Stands, Phases, Provisioning
  <2>2. CASE Leave(p)
    BY <2>2, LeaveMoves DEF LifeInv, PushScaffold, Stands
  <2> QED
    BY <2>1, <2>2 DEF PushScaffold
<1>2. /\ lock = p /\ Mine(p) \in Ids /\ tenant[Mine(p)] \in Registered /\ ~req[Mine(p)].repoGone
      /\ remote # "absent"
      /\ \A q \in Writers \ {p} : writer[q].pc \in {"idle", "listed"}
  BY <1>1, OthersWait DEF LifeInv, ProvisionFits, Stands
<1>3. UNCHANGED <<tenant, rows, indexed, objects, flight, req, late>> /\ troubles' \in 0 .. MaxTroubles
  BY LifeAssumption DEF PushScaffold, LifeInv, LifeTypeOK, Trouble
<1>4. /\ \/ remote = "bare" /\ remote' \in {"scaffold", Mine(p)}
         \/ remote # "bare" /\ remote' = remote
      /\ local' \in [Ids -> Checkouts]
      /\ \A w \in Ids \ {Mine(p)} : local'[w] = local[w]
  <2> local \in [Ids -> Checkouts]
    BY DEF LifeInv, LifeTypeOK
  <2>1. CASE remote # "bare"
    BY <2>1 DEF PushScaffold
  <2>2. CASE remote = "bare"
    <3> DEFINE w == Mine(p)
               kept == IF local[w] = "none" THEN "scaffold" ELSE local[w]
    <3>1. /\ local' = [local EXCEPT ![w] = kept]
          /\ remote' = IF kept = "knowledge" THEN w ELSE "scaffold"
      BY <2>2 DEF PushScaffold
    <3>2. kept \in Checkouts /\ w \in Ids
      BY <1>2 DEF Checkouts
    <3> QED
      BY <2>2, <3>1, <3>2
  <2> QED
    BY <2>1, <2>2
<1>5. remote' \in {"scaffold", Mine(p)}
  <2>1. remote \in {"bare", "scaffold"} \cup Ids
    BY <1>2 DEF LifeInv, LifeTypeOK, Remotes
  <2>2. remote \in Ids => remote = Mine(p)
    BY <1>2 DEF LifeInv, SlugHoldsNoOldKnowledge, OneRegistered
  <2> QED
    BY <1>4, <2>1, <2>2
<1>6. LifeTypeOK'
  BY <1>1, <1>2, <1>3, <1>4, <1>5 DEF LifeInv, LifeTypeOK, WriterState, Phases, Remotes, Moves, Leaves
<1>7. HandsInv'
  BY <1>1, HandsGoOn DEF Phases, Provisioning
<1>8. OneRegistered' /\ ObjectsAccounted'
  BY <1>3, KeepRegistered, KeepObjects DEF LifeInv
<1>9. RequestFits'
  <2>1. \A w \in Ids : req[w].repoGone /\ ~req[w].rowsGone => FALSE
    BY <1>2 DEF LifeInv, RequestFits, OneRegistered, Registered
  <2>2. req[Mine(p)].status # "succeeded"
    BY <1>2 DEF LifeInv, RequestFits
  <2> QED
    BY <1>2, <1>3, <1>4, <2>1, <2>2 DEF LifeInv, RequestFits, IsOpen
<1>10. Whole'
  <2>1. \A w \in Ids : tenant[w] \in {"active", "suspended"} => w = Mine(p)
    BY <1>2 DEF LifeInv, OneRegistered, Registered
  <2> QED
    BY <1>3, <1>5, <2>1 DEF Whole
<1>11. ProvisionFits'
  BY <1>1, <1>2, <1>3, <1>5 DEF LifeInv, ProvisionFits, Stands, Mine, Moves, Leaves
<1>12. EraseFits'
  <2>1. \A q \in Writers : writer'[q].pc \notin Deleting
    BY <1>1, <1>2 DEF Deleting, Moves, Leaves
  <2> QED
    BY <2>1 DEF EraseFits, DeletionFits, Stands, Deleting
<1>13. SlugHoldsNoOldKnowledge'
  BY <1>2, <1>3, <1>5, LifeAssumption DEF LifeInv, SlugHoldsNoOldKnowledge
<1> QED
  BY <1>6, <1>7, <1>8, <1>9, <1>10, <1>11, <1>12, <1>13 DEF LifeInv


LEMMA ActivateStep ==
    ASSUME LifeInv, NEW p \in Writers, Activate(p)
    PROVE  LifeInv'
<1>1. LifeTypeOK'
  BY LifeAssumption DEF Activate, LifeInv, LifeTypeOK, Stands, Mine, Registered, Leave, RowStates,
     Remotes, Checkouts, Request, Provisioning, Deleting, Idle
<1>2. ObjectsAccounted'
  BY KeepObjects DEF LifeInv, Activate
<1>3. HandsInv'
  BY LifeAssumption DEF Activate, LifeInv, HandsInv, LifeTypeOK, Stands, Mine, Registered, Leave,
     HasId, LockIsHeld, Idle
<1>4. OneRegistered'
  BY LifeAssumption DEF Activate, LifeInv, OneRegistered, LifeTypeOK, Stands, Mine, Registered,
     Leave, Idle
<1>5. RequestFits'
  BY LifeAssumption DEF Activate, LifeInv, RequestFits, LifeTypeOK, ProvisionFits, OneRegistered,
     HandsInv, HasId, LockIsHeld, Stands, Mine, Registered, Leave, IsOpen, Idle, OpenRequest
<1>6. Whole'
  BY LifeAssumption DEF Activate, LifeInv, Whole, LifeTypeOK, ProvisionFits, OneRegistered,
     HandsInv, HasId, LockIsHeld, Stands, Mine, Registered, Leave, Unrecorded, IsOpen, Idle,
     OpenRequest
<1>7. ProvisionFits'
  BY LifeAssumption DEF Activate, LifeInv, ProvisionFits, LifeTypeOK, Stands, Mine, Registered,
     Leave, Idle
<1>8. EraseFits'
  BY LifeAssumption DEF Activate, LifeInv, EraseFits, LifeTypeOK, ProvisionFits, Deleting,
     HandsInv, HasId, LockIsHeld, Stands, Mine, Registered, Leave, DeletionFits, Idle, StillNeeded
<1>9. SlugHoldsNoOldKnowledge'
  BY LifeAssumption DEF Activate, LifeInv, SlugHoldsNoOldKnowledge, LifeTypeOK, Stands, Mine,
     Registered, Leave, Idle
<1> QED
  BY <1>1, <1>2, <1>3, <1>4, <1>5, <1>6, <1>7, <1>8, <1>9 DEF LifeInv

LEMMA ClaimErasureStep ==
    ASSUME LifeInv, NEW p \in Writers, NEW w \in Ids, ClaimErasure(p, w)
    PROVE  LifeInv'
<1>1. LifeTypeOK'
  BY LifeAssumption DEF ClaimErasure, LifeInv, LifeTypeOK, Stands, IsOpen, Idle, RowStates,
     Remotes, Checkouts, Request, Provisioning, Deleting, OpenRequest
<1>2. OneRegistered' /\ SlugHoldsNoOldKnowledge'
  BY KeepRegistered, KeepSlug DEF LifeInv, ClaimErasure
<1>3. HandsInv'
  BY LifeAssumption DEF ClaimErasure, LifeInv, HandsInv, LifeTypeOK, Stands, IsOpen, Idle, HasId,
     LockIsHeld, OpenRequest, Mine
<1>4. RequestFits'
  BY LifeAssumption DEF ClaimErasure, LifeInv, RequestFits, LifeTypeOK, Stands, IsOpen, Idle,
     OpenRequest
<1>5. Whole'
  BY LifeAssumption DEF ClaimErasure, LifeInv, Whole, LifeTypeOK, Stands, IsOpen, Idle,
     Unrecorded, OpenRequest
<1>6. ProvisionFits'
  BY LifeAssumption DEF ClaimErasure, LifeInv, ProvisionFits, LifeTypeOK, HandsInv, HasId,
     LockIsHeld, Stands, Mine, RequestFits, IsOpen, Idle, Registered, OpenRequest
<1>7. EraseFits'
  <2>1. /\ \A q \in Writers : writer[q].pc \notin Deleting
        /\ IsOpen(w) /\ ~Stands(p, "listed")
    BY LifeAssumption DEF ClaimErasure, LifeInv, HandsInv, LockIsHeld, Stands, Deleting
  <2>2. /\ writer'[p].pc = "check" /\ writer'[p].id = w
        /\ \A q \in Writers \ {p} : writer'[q] = writer[q]
    BY DEF ClaimErasure, LifeInv, LifeTypeOK, Idle
  <2>3. req'[w].status = "running"
    BY DEF ClaimErasure, LifeInv, LifeTypeOK, Request
  <2>4. DeletionFits(p)'
    BY <2>2, <2>3 DEF DeletionFits, Stands, Mine
  <2>5. ASSUME NEW q \in Writers \ {p} PROVE DeletionFits(q)'
    BY <2>1, <2>2, <2>5 DEF DeletionFits, Stands, Deleting
  <2> QED
    BY <2>4, <2>5 DEF EraseFits
<1>8. ObjectsAccounted'
  BY LifeAssumption DEF ClaimErasure, LifeInv, ObjectsAccounted, LifeTypeOK, Stands, IsOpen, Idle,
     StillNeeded, OpenRequest
<1> QED
  BY <1>1, <1>2, <1>3, <1>4, <1>5, <1>6, <1>7, <1>8 DEF LifeInv

LEMMA CheckEligibleStep ==
    ASSUME LifeInv, NEW p \in Writers, CheckEligible(p)
    PROVE  LifeInv'
<1>1. writer[p].pc = "check"
  BY DEF CheckEligible, Stands
<1>2. /\ lock = p /\ Mine(p) \in Ids /\ writer[p].pc \in Deleting
      /\ req[Mine(p)].status = "running" /\ DeletionFits(p)
  BY <1>1, OthersWait DEF LifeInv, EraseFits, DeletionFits, Deleting
<1>3. \/ Moves(p, "drop") /\ req[Mine(p)].rowsGone
      \/ Moves(p, "read") /\ req[Mine(p)].repoGone /\ ~req[Mine(p)].rowsGone
      \/ Moves(p, "fail") /\ tenant[Mine(p)] \in {"provisioning", "active"}
      \/ Moves(p, "remove") /\ tenant[Mine(p)] = "suspended"
  <2>1. CASE req[Mine(p)].rowsGone
    <3>1. req[Mine(p)].repoGone
      BY <1>2, <2>1 DEF LifeInv, RequestFits
    <3> QED
      BY <2>1, <3>1, StepMoves DEF LifeInv, CheckEligible, Phases, Deleting
  <2>2. CASE req[Mine(p)].repoGone /\ ~req[Mine(p)].rowsGone
    BY <2>2, StepMoves DEF LifeInv, CheckEligible, Phases, Deleting
  <2>3. CASE ~req[Mine(p)].repoGone /\ tenant[Mine(p)] \in {"provisioning", "active"}
    <3>1. ~req[Mine(p)].rowsGone
      BY <1>2, <2>3 DEF LifeInv, RequestFits
    <3> QED
      BY <2>3, <3>1, FailMoves DEF LifeInv, CheckEligible
  <2>4. CASE ~req[Mine(p)].repoGone /\ tenant[Mine(p)] \notin {"provisioning", "active"}
    <3>1. ~req[Mine(p)].rowsGone /\ tenant[Mine(p)] = "suspended"
      BY <1>2, <2>4 DEF LifeInv, LifeTypeOK, RowStates, RequestFits
    <3> QED
      BY <2>4, <3>1, StepMoves DEF LifeInv, CheckEligible, Phases, Deleting
  <2> QED
    BY <2>1, <2>2, <2>3, <2>4
<1>4. /\ UNCHANGED <<tenant, remote, local, rows, indexed, objects, flight, req, lock>>
      /\ UNCHANGED <<late, troubles>>
  BY DEF CheckEligible
<1>5. LifeTypeOK'
  <2>1. writer' \in [Writers -> WriterState]
    BY <1>3 DEF Moves
  <2> QED
    BY <2>1, <1>2, <1>4, LifeAssumption DEF LifeInv, LifeTypeOK, WriterState, Phases
<1>6. OneRegistered' /\ RequestFits' /\ Whole' /\ ObjectsAccounted' /\ SlugHoldsNoOldKnowledge'
  BY <1>4, KeepRegistered, KeepRequests, KeepWhole, KeepObjects, KeepSlug DEF LifeInv
<1>7. HandsInv'
  BY <1>1, <1>2, <1>3, <1>4, HandsGoOn DEF Phases, Deleting
<1>8. ProvisionFits'
  BY <1>2, <1>3, <1>4, ErasingKeepsListed DEF Deleting
<1>9. EraseFits'
  <2>1. DeletionFits(p)'
    BY <1>1, <1>2, <1>3, <1>4 DEF DeletionFits, Stands, Mine, Moves, Leaves, Deleting, StillNeeded
  <2> QED
    BY <1>1, <1>3, <2>1, MineAlone DEF Phases, Deleting
<1> QED
  BY <1>5, <1>6, <1>7, <1>8, <1>9 DEF LifeInv


LEMMA RemoveRemoteStep ==
    ASSUME LifeInv, NEW p \in Writers, RemoveRemote(p)
    PROVE  LifeInv'
<1>1. writer[p].pc = "remove"
  BY DEF RemoveRemote, Stands
<1>2. /\ lock = p /\ Mine(p) \in Ids /\ writer[p].pc \in Deleting
      /\ req[Mine(p)].status = "running" /\ DeletionFits(p)
  BY <1>1, OthersWait DEF LifeInv, EraseFits, DeletionFits, Deleting
<1>3. \/ Moves(p, "record") /\ remote' = "absent"
      \/ Moves(p, "fail") /\ writer'[p].error = "error" /\ remote' \in {remote, "absent"}
  <2>1. CASE remote' = "absent" /\ Step(p, "record")
    BY <2>1, StepMoves DEF LifeInv, Phases, Deleting
  <2>2. CASE remote' \in {remote, "absent"} /\ FailWith(p, "error")
    BY <2>2, FailMoves DEF LifeInv
  <2> QED
    BY <2>1, <2>2 DEF RemoveRemote
<1>4. /\ UNCHANGED <<tenant, local, rows, indexed, objects, flight, req, lock, late>>
      /\ remote' \in {remote, "absent"} /\ troubles' \in 0 .. MaxTroubles
      /\ tenant[Mine(p)] = "suspended"
  BY <1>1, <1>2, LifeAssumption DEF RemoveRemote, LifeInv, LifeTypeOK, Trouble, DeletionFits
<1>5. LifeTypeOK'
  <2>1. writer' \in [Writers -> WriterState] /\ remote' \in Remotes
    BY <1>3, <1>4 DEF Moves, Remotes, LifeInv, LifeTypeOK
  <2> QED
    BY <1>4, <2>1 DEF LifeInv, LifeTypeOK, WriterState, Phases
<1>6. OneRegistered' /\ ObjectsAccounted'
  BY <1>4, KeepRegistered, KeepObjects DEF LifeInv
<1>7. HandsInv'
  BY <1>1, <1>2, <1>3, <1>4, HandsGoOn DEF Phases, Deleting
<1>8. RequestFits'
  BY <1>4 DEF LifeInv, RequestFits, IsOpen
<1>9. Whole'
  <2>1. \A w \in Ids : tenant[w] \in {"active", "suspended"} => w = Mine(p)
    BY <1>2, <1>4 DEF LifeInv, OneRegistered, Registered
  <2> QED
    BY <1>2, <1>4, <2>1 DEF Whole, IsOpen, OpenRequest
<1>10. ProvisionFits'
  BY <1>2, <1>3, <1>4, ErasingKeepsListed DEF Deleting
<1>11. EraseFits'
  <2>1. DeletionFits(p)'
    BY <1>1, <1>2, <1>3, <1>4 DEF DeletionFits, Stands, Mine, Moves, Leaves, Deleting, StillNeeded
  <2> QED
    BY <1>1, <1>3, <2>1, MineAlone DEF Phases, Deleting
<1>12. SlugHoldsNoOldKnowledge'
  BY <1>4, LifeAssumption DEF LifeInv, SlugHoldsNoOldKnowledge
<1> QED
  BY <1>5, <1>6, <1>7, <1>8, <1>9, <1>10, <1>11, <1>12 DEF LifeInv


LEMMA RecordRemovedStep ==
    ASSUME LifeInv, NEW p \in Writers, RecordRemoved(p)
    PROVE  LifeInv'
<1>1. writer[p].pc = "record"
  BY DEF RecordRemoved, Stands
<1>2. /\ lock = p /\ Mine(p) \in Ids /\ writer[p].pc \in Deleting
      /\ req[Mine(p)].status = "running" /\ DeletionFits(p)
  BY <1>1, OthersWait DEF LifeInv, EraseFits, DeletionFits, Deleting
<1>3. Moves(p, "read")
  BY StepMoves DEF LifeInv, RecordRemoved, Phases, Deleting
<1>4. /\ UNCHANGED <<tenant, remote, local, rows, indexed, objects, flight, lock, late, troubles>>
      /\ req' = [req EXCEPT ![Mine(p)].repoGone = TRUE] /\ req \in [Ids -> Request]
      /\ tenant[Mine(p)] = "suspended" /\ remote = "absent"
  BY <1>1, <1>2 DEF RecordRemoved, LifeInv, LifeTypeOK, DeletionFits, Stands
<1>5. LifeTypeOK'
  <2>1. writer' \in [Writers -> WriterState]
    BY <1>3 DEF Moves
  <2>2. req' \in [Ids -> Request]
    BY <1>2, RequestMoves DEF LifeInv, RecordRemoved
  <2> QED
    BY <2>1, <2>2, <1>2, <1>4, LifeAssumption DEF LifeInv, LifeTypeOK, WriterState, Phases
<1>6. OneRegistered' /\ SlugHoldsNoOldKnowledge'
  BY <1>4, KeepRegistered, KeepSlug DEF LifeInv
<1>7. HandsInv'
  BY <1>1, <1>2, <1>3, <1>4, HandsGoOn DEF Phases, Deleting
<1>8. \A w \in Ids : /\ req'[w].status = req[w].status /\ req'[w].rowsGone = req[w].rowsGone
                     /\ req'[w].garbage = req[w].garbage /\ req'[w].attempts = req[w].attempts
                     /\ w # Mine(p) => req'[w] = req[w]
                     /\ w = Mine(p) => req'[w].repoGone
  BY <1>2, <1>4 DEF Request
<1>9. RequestFits'
  BY <1>2, <1>4, <1>8 DEF LifeInv, RequestFits, IsOpen, OpenRequest
<1>10. Whole'
  <2>1. \A w \in Ids : tenant[w] \in {"active", "suspended"} => w = Mine(p)
    BY <1>2, <1>4 DEF LifeInv, OneRegistered, Registered
  <2> QED
    BY <1>2, <1>4, <1>8, <2>1 DEF Whole, IsOpen, OpenRequest
<1>11. ProvisionFits'
  BY <1>2, <1>3, <1>4, <1>8, ErasingKeepsListed DEF Deleting
<1>12. EraseFits'
  <2>1. ~req[Mine(p)].rowsGone
    BY <1>2, <1>4 DEF LifeInv, RequestFits
  <2>2. writer'[p].pc = "read" /\ writer'[p].id = writer[p].id
    BY <1>3 DEF Moves
  <2>3. DeletionFits(p)'
    BY <1>2, <1>4, <1>8, <2>1, <2>2 DEF DeletionFits, Stands, Mine, Deleting
  <2> QED
    BY <1>1, <1>3, <2>3, MineAlone DEF Phases, Deleting
<1>13. ObjectsAccounted'
  BY <1>4, <1>8 DEF LifeInv, ObjectsAccounted, StillNeeded
<1> QED
  BY <1>5, <1>6, <1>7, <1>8, <1>9, <1>10, <1>11, <1>12, <1>13 DEF LifeInv


LEMMA ReadRefsStep ==
    ASSUME LifeInv, NEW p \in Writers, ReadRefs(p)
    PROVE  LifeInv'
<1>1. writer[p].pc = "read"
  BY DEF ReadRefs, Stands
<1>2. /\ lock = p /\ Mine(p) \in Ids /\ writer[p].pc \in Deleting
      /\ req[Mine(p)].status = "running" /\ DeletionFits(p)
  BY <1>1, OthersWait DEF LifeInv, EraseFits, DeletionFits, Deleting
<1>3. Moves(p, "delete") /\ writer'[p].refs = rows[Mine(p)]
  <2> DEFINE stepped == [writer EXCEPT ![p].pc = "delete"]
  <2>1. writer' = [stepped EXCEPT ![p].refs = rows[Mine(p)]]
    BY DEF ReadRefs
  <2>2. /\ stepped \in [Writers -> WriterState]
        /\ stepped[p].pc = "delete" /\ stepped[p].id = writer[p].id
        /\ \A q \in Writers \ {p} : stepped[q] = writer[q]
    BY DEF LifeInv, LifeTypeOK, WriterState, Phases, Deleting
  <2>3. rows[Mine(p)] \in SUBSET EvidenceRefs
    BY <1>2 DEF LifeInv, LifeTypeOK
  <2> HIDE DEF stepped
  <2> QED
    BY <2>1, <2>2, <2>3 DEF Moves, WriterState
<1>4. /\ UNCHANGED <<tenant, remote, local, rows, indexed, objects, flight, req, lock, late>>
      /\ UNCHANGED troubles
  BY DEF ReadRefs
<1>5. LifeTypeOK'
  <2>1. writer' \in [Writers -> WriterState]
    BY <1>3 DEF Moves
  <2> QED
    BY <2>1, <1>2, <1>4, LifeAssumption DEF LifeInv, LifeTypeOK, WriterState, Phases
<1>6. OneRegistered' /\ RequestFits' /\ Whole' /\ ObjectsAccounted' /\ SlugHoldsNoOldKnowledge'
  BY <1>4, KeepRegistered, KeepRequests, KeepWhole, KeepObjects, KeepSlug DEF LifeInv
<1>7. HandsInv'
  BY <1>1, <1>2, <1>3, <1>4, HandsGoOn DEF Phases, Deleting
<1>8. ProvisionFits'
  BY <1>2, <1>3, <1>4, ErasingKeepsListed DEF Deleting
<1>9. EraseFits'
  <2>1. DeletionFits(p)'
    BY <1>1, <1>2, <1>3, <1>4 DEF DeletionFits, Stands, Mine, Moves, Leaves, Deleting, StillNeeded
  <2> QED
    BY <1>1, <1>3, <2>1, MineAlone DEF Phases, Deleting
<1> QED
  BY <1>5, <1>6, <1>7, <1>8, <1>9 DEF LifeInv


LEMMA DeleteRowsStep ==
    ASSUME LifeInv, NEW p \in Writers, DeleteRows(p)
    PROVE  LifeInv'
<1>1. writer[p].pc = "delete"
  BY DEF DeleteRows, Stands
<1>2. /\ lock = p /\ Mine(p) \in Ids /\ writer[p].pc \in Deleting
      /\ req[Mine(p)].status = "running" /\ DeletionFits(p)
  BY <1>1, OthersWait DEF LifeInv, EraseFits, DeletionFits, Deleting
<1>3. /\ UNCHANGED <<remote, local, indexed, objects, flight, lock, late>>
      /\ troubles' \in 0 .. MaxTroubles
  BY LifeAssumption DEF DeleteRows, LifeInv, LifeTypeOK, Trouble
<1>4. ASSUME FailWith(p, "error"), UNCHANGED <<rows, tenant, req>>
      PROVE  LifeInv'
  <2>1. Moves(p, "fail") /\ writer'[p].error = "error"
    BY <1>4, FailMoves DEF LifeInv
  <2>2. LifeTypeOK'
    BY <1>3, <1>4, <2>1 DEF LifeInv, LifeTypeOK, WriterState, Phases, Moves
  <2>3. HandsInv'
    BY <1>1, <1>3, <2>1, HandsGoOn DEF Phases, Deleting
  <2>4. /\ OneRegistered' /\ RequestFits' /\ Whole' /\ ObjectsAccounted'
        /\ SlugHoldsNoOldKnowledge'
    BY <1>3, <1>4, KeepRegistered, KeepRequests, KeepWhole, KeepObjects, KeepSlug DEF LifeInv
  <2>5. ProvisionFits'
    BY <1>2, <1>4, <2>1, ErasingKeepsListed DEF Deleting
  <2>6. DeletionFits(p)'
    BY <1>2, <1>4, <2>1 DEF DeletionFits, Stands, Mine, Moves
  <2>7. EraseFits'
    BY <1>1, <2>1, <2>6, MineAlone DEF Phases, Deleting
  <2> QED
    BY <2>2, <2>3, <2>4, <2>5, <2>7 DEF LifeInv
<1>5. ASSUME rows' = [rows EXCEPT ![Mine(p)] = {}], tenant' = [tenant EXCEPT ![Mine(p)] = "gone"],
             req' = [req EXCEPT ![Mine(p)].rowsGone = TRUE, ![Mine(p)].garbage = writer[p].refs],
             Step(p, "drop")
      PROVE  LifeInv'
  <2>1. Moves(p, "drop")
    BY <1>5, StepMoves DEF LifeInv, Phases, Deleting
  <2>2. /\ req' \in [Ids -> Request] /\ req'[Mine(p)].rowsGone
        /\ req'[Mine(p)].garbage = writer[p].refs
        /\ req'[Mine(p)].status = "running" /\ req'[Mine(p)].repoGone = req[Mine(p)].repoGone
        /\ \A w \in Ids \ {Mine(p)} : req'[w] = req[w]
    <3> DEFINE gone == [req EXCEPT ![Mine(p)].rowsGone = TRUE]
    <3>1. req' = [gone EXCEPT ![Mine(p)].garbage = writer[p].refs]
      BY <1>5
    <3>2. req \in [Ids -> Request] /\ writer[p].refs \in SUBSET EvidenceRefs
      BY DEF LifeInv, LifeTypeOK
    <3>3. /\ gone \in [Ids -> Request] /\ gone[Mine(p)].rowsGone
          /\ gone[Mine(p)].status = "running" /\ gone[Mine(p)].repoGone = req[Mine(p)].repoGone
          /\ \A w \in Ids \ {Mine(p)} : gone[w] = req[w]
      BY <1>2, <3>2 DEF Request
    <3> HIDE DEF gone
    <3> QED
      BY <1>2, <3>1, <3>2, <3>3 DEF Request
  <2>3. /\ rows' \in [Ids -> SUBSET EvidenceRefs] /\ tenant' \in [Ids -> RowStates]
        /\ rows'[Mine(p)] = {} /\ tenant'[Mine(p)] = "gone"
        /\ \A w \in Ids \ {Mine(p)} : rows'[w] = rows[w] /\ tenant'[w] = tenant[w]
    BY <1>2, <1>5 DEF LifeInv, LifeTypeOK, RowStates
  <2>4. LifeTypeOK'
    BY <1>3, <2>1, <2>2, <2>3 DEF LifeInv, LifeTypeOK, WriterState, Phases, Moves
  <2>5. HandsInv'
    BY <1>1, <1>3, <2>1, HandsGoOn DEF Phases, Deleting
  <2>6. OneRegistered'
    BY <2>3 DEF LifeInv, OneRegistered, Registered
  <2>7. /\ req[Mine(p)].repoGone /\ ~req[Mine(p)].rowsGone /\ remote = "absent"
        /\ req[Mine(p)].garbage = {}
        /\ rows[Mine(p)] \subseteq writer[p].refs \cup late
    BY <1>1, <1>2 DEF LifeInv, RequestFits, DeletionFits, Stands
  <2>8. RequestFits'
    <3>1. \A w \in Ids \ {Mine(p)} : /\ req'[w] = req[w] /\ tenant'[w] = tenant[w]
                                     /\ rows'[w] = rows[w]
      BY <2>2, <2>3
    <3>2. /\ req'[Mine(p)].repoGone /\ req'[Mine(p)].rowsGone /\ rows'[Mine(p)] = {}
          /\ req'[Mine(p)].status = "running" /\ tenant'[Mine(p)] = "gone"
      BY <2>2, <2>3, <2>7
    <3>3. UNCHANGED <<remote, indexed, local>>
      BY <1>3
    <3>4. RequestFits
      BY DEF LifeInv
    <3> QED
      BY <1>2, <3>1, <3>2, <3>3, <3>4 DEF RequestFits, IsOpen
  <2>9. Whole'
    BY <1>3, <2>2, <2>3 DEF LifeInv, Whole, Unrecorded, IsOpen
  <2>10. ProvisionFits'
    BY <1>2, <2>1, <2>2, <2>3, ErasingKeepsListed DEF Deleting
  <2>11. DeletionFits(p)'
    BY <1>2, <2>1, <2>2 DEF DeletionFits, Stands, Mine, Moves, Deleting
  <2>12. EraseFits'
    BY <1>1, <2>1, <2>11, MineAlone DEF Phases, Deleting
  <2>13. ObjectsAccounted'
    <3> SUFFICES ASSUME NEW r \in objects, r \notin late, ~StillNeeded(r)'
                 PROVE  \E v \in Ids : r \in req'[v].garbage
      BY <1>3 DEF ObjectsAccounted
    <3>1. CASE StillNeeded(r)
      <4>1. r \in rows[Mine(p)]
        BY <2>3, <3>1 DEF StillNeeded
      <4> QED
        BY <1>2, <2>2, <2>7, <4>1
    <3>2. CASE ~StillNeeded(r)
      <4>1. PICK v \in Ids : r \in req[v].garbage
        BY <3>2 DEF LifeInv, ObjectsAccounted
      <4> QED
        BY <2>2, <2>7, <4>1
    <3> QED
      BY <3>1, <3>2
  <2>14. SlugHoldsNoOldKnowledge'
    BY <1>3, <2>7, LifeAssumption DEF SlugHoldsNoOldKnowledge
  <2> QED
    BY <2>4, <2>5, <2>6, <2>8, <2>9, <2>10, <2>12, <2>13, <2>14 DEF LifeInv
<1> QED
  BY <1>4, <1>5 DEF DeleteRows


LEMMA DropIndexesStep ==
    ASSUME LifeInv, NEW p \in Writers, DropIndexes(p)
    PROVE  LifeInv'
<1>1. writer[p].pc = "drop"
  BY DEF DropIndexes, Stands
<1>2. /\ lock = p /\ Mine(p) \in Ids /\ writer[p].pc \in Deleting
      /\ req[Mine(p)].status = "running" /\ DeletionFits(p)
  BY <1>1, OthersWait DEF LifeInv, EraseFits, DeletionFits, Deleting
<1>3. \/ Moves(p, "sweep") /\ indexed' = indexed \ {Mine(p)}
      \/ Moves(p, "fail") /\ writer'[p].error = "error" /\ indexed' = indexed
  <2>1. CASE indexed' = indexed \ {Mine(p)} /\ Step(p, "sweep")
    BY <2>1, StepMoves DEF LifeInv, Phases, Deleting
  <2>2. CASE FailWith(p, "error") /\ UNCHANGED indexed
    BY <2>2, FailMoves DEF LifeInv
  <2> QED
    BY <2>1, <2>2 DEF DropIndexes
<1>4. /\ UNCHANGED <<tenant, remote, local, rows, objects, flight, req, lock, late>>
      /\ troubles' \in 0 .. MaxTroubles /\ indexed' \subseteq indexed
  BY <1>3, LifeAssumption DEF DropIndexes, LifeInv, LifeTypeOK, Trouble
<1>5. LifeTypeOK'
  <2>1. writer' \in [Writers -> WriterState]
    BY <1>3 DEF Moves
  <2> QED
    BY <2>1, <1>2, <1>4, LifeAssumption DEF LifeInv, LifeTypeOK, WriterState, Phases
<1>6. OneRegistered' /\ Whole' /\ ObjectsAccounted' /\ SlugHoldsNoOldKnowledge'
  BY <1>4, KeepRegistered, KeepWhole, KeepObjects, KeepSlug DEF LifeInv
<1>7. HandsInv'
  BY <1>1, <1>2, <1>3, <1>4, HandsGoOn DEF Phases, Deleting
<1>8. RequestFits'
  BY <1>4 DEF LifeInv, RequestFits, IsOpen
<1>9. ProvisionFits'
  BY <1>2, <1>3, <1>4, ErasingKeepsListed DEF Deleting
<1>10. EraseFits'
  <2>1. DeletionFits(p)'
    BY <1>1, <1>2, <1>3, <1>4 DEF DeletionFits, Stands, Mine, Moves, Leaves, Deleting, StillNeeded
  <2> QED
    BY <1>1, <1>3, <2>1, MineAlone DEF Phases, Deleting
<1> QED
  BY <1>5, <1>6, <1>7, <1>8, <1>9, <1>10 DEF LifeInv


LEMMA SweepEvidenceStep ==
    ASSUME LifeInv, NEW p \in Writers, SweepEvidence(p)
    PROVE  LifeInv'
<1>1. writer[p].pc = "sweep"
  BY DEF SweepEvidence, Stands
<1>2. /\ lock = p /\ Mine(p) \in Ids /\ writer[p].pc \in Deleting
      /\ req[Mine(p)].status = "running" /\ DeletionFits(p)
  BY <1>1, OthersWait DEF LifeInv, EraseFits, DeletionFits, Deleting
<1>3. /\ objects' \subseteq objects
      /\ \/ /\ Moves(p, "clean")
            /\ \A r \in objects' \cap req[Mine(p)].garbage : StillNeeded(r)
         \/ Moves(p, "fail") /\ writer'[p].error = "error"
  <2> DEFINE unneeded == {r \in req[Mine(p)].garbage : ~StillNeeded(r)}
  <2>1. PICK done \in SUBSET unneeded :
            /\ objects' = objects \ done
            /\ \/ done = unneeded /\ Step(p, "clean")
               \/ FailWith(p, "error")
    BY DEF SweepEvidence
  <2>2. CASE done = unneeded /\ Step(p, "clean")
    BY <2>1, <2>2, StepMoves DEF LifeInv, Phases, Deleting
  <2>3. CASE FailWith(p, "error")
    BY <2>1, <2>3, FailMoves DEF LifeInv
  <2> QED
    BY <2>1, <2>2, <2>3
<1>4. /\ UNCHANGED <<tenant, remote, local, rows, indexed, flight, req, lock, late>>
      /\ troubles' \in 0 .. MaxTroubles
  BY LifeAssumption DEF SweepEvidence, LifeInv, LifeTypeOK, Trouble
<1>5. LifeTypeOK'
  <2>1. writer' \in [Writers -> WriterState] /\ objects' \subseteq EvidenceRefs
    BY <1>3 DEF Moves, LifeInv, LifeTypeOK
  <2> QED
    BY <1>4, <2>1 DEF LifeInv, LifeTypeOK, WriterState, Phases
<1>6. OneRegistered' /\ RequestFits' /\ Whole' /\ SlugHoldsNoOldKnowledge'
  BY <1>4, KeepRegistered, KeepRequests, KeepWhole, KeepSlug DEF LifeInv
<1>7. HandsInv'
  BY <1>1, <1>2, <1>3, <1>4, HandsGoOn DEF Phases, Deleting
<1>8. ProvisionFits'
  BY <1>2, <1>3, <1>4, ErasingKeepsListed DEF Deleting
<1>9. EraseFits'
  <2>1. DeletionFits(p)'
    BY <1>1, <1>2, <1>3, <1>4 DEF DeletionFits, Stands, Mine, Moves, Leaves, Deleting, StillNeeded
  <2> QED
    BY <1>1, <1>3, <2>1, MineAlone DEF Phases, Deleting
<1>10. ObjectsAccounted'
  BY <1>3, <1>4 DEF LifeInv, ObjectsAccounted, StillNeeded
<1> QED
  BY <1>5, <1>6, <1>7, <1>8, <1>9, <1>10 DEF LifeInv


LEMMA CleanStep ==
    ASSUME LifeInv, NEW p \in Writers, Clean(p)
    PROVE  LifeInv'
<1>1. writer[p].pc = "clean"
  BY DEF Clean, Stands
<1>2. /\ lock = p /\ Mine(p) \in Ids /\ writer[p].pc \in Deleting
      /\ req[Mine(p)].status = "running" /\ DeletionFits(p)
  BY <1>1, OthersWait DEF LifeInv, EraseFits, DeletionFits, Deleting
<1>3. \/ Moves(p, "finish") /\ local' = [local EXCEPT ![Mine(p)] = "none"]
      \/ Moves(p, "fail") /\ writer'[p].error = "error" /\ local' = local
  <2>1. CASE local' = [local EXCEPT ![Mine(p)] = "none"] /\ Step(p, "finish")
    BY <2>1, StepMoves DEF LifeInv, Phases, Deleting
  <2>2. CASE FailWith(p, "error") /\ UNCHANGED local
    BY <2>2, FailMoves DEF LifeInv
  <2> QED
    BY <2>1, <2>2 DEF Clean
<1>4. /\ UNCHANGED <<tenant, remote, rows, indexed, objects, flight, lock, late>>
      /\ req' = [req EXCEPT ![Mine(p)].garbage = {}] /\ req \in [Ids -> Request]
      /\ troubles' \in 0 .. MaxTroubles
  BY LifeAssumption DEF Clean, LifeInv, LifeTypeOK, Trouble
<1>5. local' \in [Ids -> Checkouts] /\ \A w \in Ids : local'[w] \in {local[w], "none"}
  <2>1. local \in [Ids -> Checkouts]
    BY DEF LifeInv, LifeTypeOK
  <2>2. CASE local' = [local EXCEPT ![Mine(p)] = "none"]
    BY <1>2, <2>1, <2>2 DEF Checkouts
  <2>3. CASE local' = local
    BY <2>1, <2>3
  <2> QED
    BY <1>3, <2>2, <2>3
<1>6. LifeTypeOK'
  <2>1. writer' \in [Writers -> WriterState]
    BY <1>3 DEF Moves
  <2>2. req' \in [Ids -> Request] /\ local' \in [Ids -> Checkouts]
    BY <1>2, <1>5, RequestMoves DEF LifeInv, Clean
  <2> QED
    BY <2>1, <2>2, <1>2, <1>4, LifeAssumption DEF LifeInv, LifeTypeOK, WriterState, Phases
<1>7. OneRegistered' /\ SlugHoldsNoOldKnowledge'
  BY <1>4, KeepRegistered, KeepSlug DEF LifeInv
<1>8. HandsInv'
  BY <1>1, <1>2, <1>3, <1>4, HandsGoOn DEF Phases, Deleting
<1>9. \A w \in Ids : /\ req'[w].status = req[w].status /\ req'[w].rowsGone = req[w].rowsGone
                     /\ req'[w].repoGone = req[w].repoGone /\ req'[w].attempts = req[w].attempts
                     /\ req'[w].garbage \subseteq req[w].garbage
                     /\ w # Mine(p) => req'[w].garbage = req[w].garbage
  BY <1>2, <1>4 DEF Request
<1>10. RequestFits'
  BY <1>2, <1>4, <1>5, <1>9 DEF LifeInv, RequestFits, IsOpen, OpenRequest
<1>11. Whole'
  BY <1>4, <1>9 DEF LifeInv, Whole, Unrecorded, IsOpen
<1>12. ProvisionFits'
  BY <1>2, <1>3, <1>4, <1>9, ErasingKeepsListed DEF Deleting
<1>13. EraseFits'
  <2>1. req[Mine(p)].rowsGone /\ Mine(p) \notin indexed
    BY <1>1, <1>2 DEF DeletionFits
  <2>2. Moves(p, "finish") => local'[Mine(p)] = "none"
    <3>1. local \in [Ids -> Checkouts]
      BY DEF LifeInv, LifeTypeOK
    <3>2. Moves(p, "finish") => ~Moves(p, "fail")
      BY DEF Moves
    <3> QED
      BY <1>2, <1>3, <3>1, <3>2
  <2>3. DeletionFits(p)'
    BY <1>2, <1>3, <1>4, <1>9, <2>1, <2>2 DEF DeletionFits, Stands, Mine, Moves, Deleting
  <2> QED
    BY <1>1, <1>3, <2>3, MineAlone DEF Phases, Deleting
<1>14. ObjectsAccounted'
  <2>1. \A r \in objects \cap req[Mine(p)].garbage : StillNeeded(r)
    BY <1>1, <1>2 DEF DeletionFits, Stands
  <2> QED
    BY <1>4, <1>9, <2>1 DEF LifeInv, ObjectsAccounted, StillNeeded
<1> QED
  BY <1>5, <1>6, <1>7, <1>8, <1>9, <1>10, <1>11, <1>12, <1>13, <1>14 DEF LifeInv


LEMMA FinishErasureStep ==
    ASSUME LifeInv, NEW p \in Writers, FinishErasure(p)
    PROVE  LifeInv'
<1>1. writer[p].pc = "finish"
  BY DEF FinishErasure, Stands
<1>2. /\ lock = p /\ Mine(p) \in Ids /\ writer[p].pc \in Deleting
      /\ req[Mine(p)].status = "running" /\ DeletionFits(p)
  BY <1>1, OthersWait DEF LifeInv, EraseFits, DeletionFits, Deleting
<1>3. Leaves(p) /\ lock' = NoWriter
  BY LeaveMoves DEF LifeInv, FinishErasure
<1>4. /\ UNCHANGED <<tenant, remote, local, rows, indexed, objects, flight, late, troubles>>
      /\ req' = [req EXCEPT ![Mine(p)].status = "succeeded"] /\ req \in [Ids -> Request]
  BY DEF FinishErasure, LifeInv, LifeTypeOK
<1>5. LifeTypeOK'
  <2>1. writer' \in [Writers -> WriterState] /\ lock' \in Writers \cup {NoWriter}
    BY <1>3 DEF Leaves
  <2>2. req' \in [Ids -> Request]
    BY <1>2, RequestMoves DEF LifeInv, FinishErasure
  <2> QED
    BY <1>4, <2>1, <2>2 DEF LifeInv, LifeTypeOK, WriterState, Phases
<1>6. OneRegistered' /\ SlugHoldsNoOldKnowledge'
  BY <1>4, KeepRegistered, KeepSlug DEF LifeInv
<1>7. HandsInv'
  BY <1>1, <1>2, <1>3, <1>4, HandsGoOn DEF Phases, Deleting
<1>8. \A w \in Ids : /\ req'[w].rowsGone = req[w].rowsGone /\ req'[w].repoGone = req[w].repoGone
                     /\ req'[w].garbage = req[w].garbage /\ req'[w].attempts = req[w].attempts
                     /\ w # Mine(p) => req'[w].status = req[w].status
                     /\ w = Mine(p) => req'[w].status = "succeeded"
  BY <1>2, <1>4 DEF Request
<1>9. RequestFits'
  <2>1. /\ req[Mine(p)].rowsGone /\ Mine(p) \notin indexed /\ local[Mine(p)] = "none"
        /\ tenant[Mine(p)] = "gone"
    BY <1>1, <1>2 DEF DeletionFits, Stands, LifeInv, RequestFits
  <2> QED
    BY <1>2, <1>4, <1>8, <2>1 DEF LifeInv, RequestFits, IsOpen
<1>10. Whole'
  <2>1. tenant[Mine(p)] = "gone"
    BY <1>1, <1>2 DEF DeletionFits, LifeInv, RequestFits
  <2> QED
    BY <1>4, <1>8, <2>1 DEF LifeInv, Whole, Unrecorded, IsOpen
<1>11. ProvisionFits'
  BY <1>2, <1>3, <1>4, <1>8, ErasingKeepsListed
<1>12. EraseFits'
  <2>1. DeletionFits(p)'
    BY <1>3 DEF DeletionFits, Stands, Leaves, Deleting
  <2> QED
    BY <1>1, <1>3, <2>1, MineAlone
<1>13. ObjectsAccounted'
  BY <1>4, <1>8 DEF LifeInv, ObjectsAccounted, StillNeeded
<1> QED
  BY <1>5, <1>6, <1>7, <1>8, <1>9, <1>10, <1>11, <1>12, <1>13 DEF LifeInv


LEMMA FailStep ==
    ASSUME LifeInv, NEW p \in Writers, Fail(p)
    PROVE  LifeInv'
<1>1. writer[p].pc = "fail"
  BY DEF Fail, Stands
<1>2. /\ lock = p /\ Mine(p) \in Ids /\ writer[p].pc \in Deleting
      /\ req[Mine(p)].status = "running" /\ DeletionFits(p)
  BY <1>1, OthersWait DEF LifeInv, EraseFits, DeletionFits, Deleting
<1>3. Leaves(p) /\ lock' = NoWriter
  BY LeaveMoves DEF LifeInv, Fail
<1>4. /\ UNCHANGED <<tenant, remote, local, rows, indexed, objects, flight, late, troubles>>
      /\ req' = [req EXCEPT ![Mine(p)].status = Outcome(Mine(p), writer[p].error)]
      /\ req \in [Ids -> Request] /\ Outcome(Mine(p), writer[p].error) \in {"queued", "failed"}
  BY DEF Fail, LifeInv, LifeTypeOK, Outcome
<1>5. LifeTypeOK'
  <2>1. writer' \in [Writers -> WriterState] /\ lock' \in Writers \cup {NoWriter}
    BY <1>3 DEF Leaves
  <2>2. req' \in [Ids -> Request]
    BY <1>2, <1>4, RequestMoves DEF LifeInv
  <2> QED
    BY <1>4, <2>1, <2>2 DEF LifeInv, LifeTypeOK, WriterState, Phases
<1>6. OneRegistered' /\ SlugHoldsNoOldKnowledge'
  BY <1>4, KeepRegistered, KeepSlug DEF LifeInv
<1>7. HandsInv'
  BY <1>1, <1>2, <1>3, <1>4, HandsGoOn DEF Phases, Deleting
<1>8. \A w \in Ids : /\ req'[w].rowsGone = req[w].rowsGone /\ req'[w].repoGone = req[w].repoGone
                     /\ req'[w].garbage = req[w].garbage /\ req'[w].attempts = req[w].attempts
                     /\ w # Mine(p) => req'[w].status = req[w].status
                     /\ w = Mine(p) => req'[w].status = Outcome(Mine(p), writer[p].error)
  BY <1>2, <1>4 DEF Request
<1>9. RequestFits'
  <2>1. req[Mine(p)].repoGone => Outcome(Mine(p), writer[p].error) = "queued"
    BY DEF Outcome
  <2>2. tenant[Mine(p)] \notin {"none", "provisioning"}
    BY <1>2 DEF LifeInv, RequestFits
  <2> QED
    BY <1>2, <1>4, <1>8, <2>1, <2>2 DEF LifeInv, RequestFits, IsOpen, OpenRequest
<1>10. Whole'
  <2>1. ~Unrecorded(Mine(p))
    BY <1>2 DEF Unrecorded
  <2>2. tenant[Mine(p)] = "suspended" /\ req'[Mine(p)].status = "failed"
            => ~req[Mine(p)].repoGone /\ req[Mine(p)].attempts >= MaxAttempts
    BY <1>1, <1>2, <1>8 DEF Outcome, DeletionFits, Stands
  <2>3. req'[Mine(p)].status \in {"queued", "failed"}
    BY <1>2, <1>4, <1>8
  <2> QED
    BY <1>2, <1>4, <1>8, <2>1, <2>2, <2>3 DEF LifeInv, Whole, Unrecorded, IsOpen, OpenRequest
<1>11. ProvisionFits'
  BY <1>2, <1>3, <1>4, <1>8, ErasingKeepsListed
<1>12. EraseFits'
  <2>1. DeletionFits(p)'
    BY <1>3 DEF DeletionFits, Stands, Leaves, Deleting
  <2> QED
    BY <1>1, <1>3, <2>1, MineAlone
<1>13. ObjectsAccounted'
  BY <1>4, <1>8 DEF LifeInv, ObjectsAccounted, StillNeeded
<1> QED
  BY <1>5, <1>6, <1>7, <1>8, <1>9, <1>10, <1>11, <1>12, <1>13 DEF LifeInv


LEMMA CrashStep ==
    ASSUME LifeInv, NEW p \in Writers, Crash(p)
    PROVE  LifeInv'
<1>1. LifeTypeOK'
  BY LifeAssumption DEF Crash, LifeInv, LifeTypeOK, Stands, Trouble, Idle, RowStates, Remotes,
     Checkouts, Request, Provisioning, Deleting
<1>2. OneRegistered' /\ RequestFits' /\ Whole' /\ ObjectsAccounted' /\ SlugHoldsNoOldKnowledge'
  BY KeepRegistered, KeepRequests, KeepWhole, KeepObjects, KeepSlug DEF LifeInv, Crash
<1>3. HandsInv'
  BY LifeAssumption DEF Crash, LifeInv, HandsInv, LifeTypeOK, Stands, Trouble, Idle, HasId,
     LockIsHeld, Mine
<1>4. ProvisionFits'
  BY LifeAssumption DEF Crash, LifeInv, ProvisionFits, LifeTypeOK, Stands, Trouble, Idle, Mine,
     Registered
<1>5. EraseFits'
  BY LifeAssumption DEF Crash, LifeInv, EraseFits, LifeTypeOK, Stands, Trouble, Idle,
     DeletionFits, Deleting, Mine, StillNeeded
<1> QED
  BY <1>1, <1>2, <1>3, <1>4, <1>5 DEF LifeInv

LEMMA DueStep ==
    ASSUME LifeInv, NEW w \in Ids, Due(w)
    PROVE  LifeInv'
<1>1. LifeTypeOK'
  <2>1. req' \in [Ids -> Request]
    BY RequestMoves DEF LifeInv, Due
  <2> QED
    BY <2>1 DEF LifeInv, LifeTypeOK, Due
<1>2. HandsInv' /\ OneRegistered' /\ SlugHoldsNoOldKnowledge'
  BY KeepHands, KeepRegistered, KeepSlug DEF LifeInv, Due
<1>3. RequestFits'
  BY LifeAssumption DEF Due, LifeInv, RequestFits, LifeTypeOK, IsOpen, OpenRequest
<1>4. Whole'
  BY LifeAssumption DEF Due, LifeInv, Whole, LifeTypeOK, IsOpen, Unrecorded, OpenRequest
<1>5. ProvisionFits'
  BY LifeAssumption DEF Due, LifeInv, ProvisionFits, LifeTypeOK, IsOpen, Stands, Mine, Registered,
     OpenRequest
<1>6. EraseFits'
  BY LifeAssumption DEF Due, LifeInv, EraseFits, LifeTypeOK, IsOpen, DeletionFits, OpenRequest,
     Deleting, Mine, Stands, StillNeeded
<1>7. ObjectsAccounted'
  BY LifeAssumption DEF Due, LifeInv, ObjectsAccounted, LifeTypeOK, IsOpen, StillNeeded,
     OpenRequest
<1> QED
  BY <1>1, <1>2, <1>3, <1>4, <1>5, <1>6, <1>7 DEF LifeInv

-----------------------------------------------------------------------------
LEMMA LifeStep == ASSUME PromptLock, LifeInv, [LifeNext]_life PROVE LifeInv'
<1>1. ASSUME Operate PROVE LifeInv'
  <2>1. PICK w \in Ids : \/ CreateTenant(w)
                         \/ \E status \in {"active", "suspended"} : SetStatus(w, status)
                         \/ RequestErasure(w)
    BY <1>1 DEF Operate
  <2>2. CASE CreateTenant(w)
    BY <2>2, CreateTenantStep
  <2>3. CASE \E status \in {"active", "suspended"} : SetStatus(w, status)
    BY <2>3, SetStatusStep
  <2>4. CASE RequestErasure(w)
    BY <2>4, RequestErasureStep
  <2> QED
    BY <2>1, <2>2, <2>3, <2>4
<1>2. ASSUME Contribute PROVE LifeInv'
  <2>1. PICK w \in Ids : Land(w) \/ \E r \in EvidenceRefs : Admit(w, r) \/ CommitCapture(w, r)
    BY <1>2 DEF Contribute
  <2>2. CASE Land(w)
    BY <2>2, LandStep
  <2>3. CASE \E r \in EvidenceRefs : Admit(w, r) \/ CommitCapture(w, r)
    <3>1. PICK r \in EvidenceRefs : Admit(w, r) \/ CommitCapture(w, r)
      BY <2>3
    <3>2. CASE Admit(w, r)
      BY <3>2, AdmitStep
    <3>3. CASE CommitCapture(w, r)
      BY <3>3, CommitCaptureStep
    <3> QED
      BY <3>1, <3>2, <3>3
  <2> QED
    BY <2>1, <2>2, <2>3
<1>3. ASSUME NEW p \in Writers, Begin(p) PROVE LifeInv'
  BY <1>3, ClaimErasureStep, ListWaitingStep DEF Begin
<1>4. ASSUME NEW p \in Writers, Provision(p) PROVE LifeInv'
  BY <1>4, TryLockStep, CreateRemoteStep, PushScaffoldStep, ActivateStep DEF Provision
<1>5. ASSUME NEW p \in Writers, EraseStep(p) PROVE LifeInv'
  BY <1>5, CheckEligibleStep, RemoveRemoteStep, RecordRemovedStep, ReadRefsStep, DeleteRowsStep,
     DropIndexesStep, SweepEvidenceStep, CleanStep, FinishErasureStep, FailStep DEF EraseStep
<1>6. ASSUME NEW p \in Writers, Crash(p) PROVE LifeInv'
  BY <1>6, CrashStep
<1>7. ASSUME NEW w \in Ids, Due(w) PROVE LifeInv'
  BY <1>7, DueStep
<1>8. ASSUME UNCHANGED life PROVE LifeInv'
  <2>1. LifeTypeOK'
    BY <1>8 DEF LifeInv, LifeTypeOK, life
  <2> QED
    BY <1>8, <2>1, KeepHands, KeepRegistered, KeepRequests, KeepWhole, KeepProvision, KeepErase,
       KeepObjects, KeepSlug DEF LifeInv, life
<1> QED
  BY <1>1, <1>2, <1>3, <1>4, <1>5, <1>6, <1>7, <1>8 DEF LifeNext

LEMMA LifeInv_Leaves == LifeInv => DeletedLeavesNothing
<1> SUFFICES ASSUME LifeInv PROVE DeletedLeavesNothing
  OBVIOUS
<1>1. ActiveIsWhole
  BY DEF LifeInv, Whole, ActiveIsWhole
<1>2. ErasedLeavesNothing
  <2>1. ASSUME NEW w \in Ids, req[w].status = "succeeded"
        PROVE  /\ tenant[w] = "gone" /\ rows[w] = {} /\ w \notin indexed
               /\ local[w] # "knowledge"
    BY <2>1 DEF LifeInv, RequestFits
  <2>2. ASSUME NEW w \in Ids, req[w].status = "succeeded" PROVE remote # w
    BY <2>1, <2>2 DEF LifeInv, SlugHoldsNoOldKnowledge, Registered
  <2> QED
    BY <2>1, <2>2 DEF LifeInv, ObjectsAccounted, ErasedLeavesNothing
<1> QED
  BY <1>1, <1>2 DEF LifeInv, DeletedLeavesNothing

LEMMA WorkspaceInvariant == ASSUME PromptLock PROVE LifeSpec => []LifeInv
<1>1. LifeInit => LifeInv
  BY LifeInit_Inv
<1>2. LifeInv /\ [LifeNext]_life => LifeInv'
  BY LifeStep
<1> QED
  BY <1>1, <1>2, PTL DEF LifeSpec

\* erase_workspace.py:220-267, provision.py, worker.py:344-377: when no operator acts between
\* the two statements by which a writer lists a waiting workspace and takes the lock, nothing
\* of a deleted workspace stays or comes back and an active one has its repository, for any
\* number of workspaces of a slug, writers, evidence objects, attempts and failures.
THEOREM WorkspaceLeavesNothing == ASSUME PromptLock PROVE LifeSpec => []DeletedLeavesNothing
<1>1. LifeInv => DeletedLeavesNothing
  BY LifeInv_Leaves
<1> QED
  BY <1>1, WorkspaceInvariant, PTL

LEMMA OnlyRemovalRemoves ==
    ASSUME LifeInv, LifeNext, remote # "absent", remote' = "absent"
    PROVE  \E p \in Writers : RemoveRemote(p)
<1>1. ASSUME Operate \/ \E w \in Ids : Due(w) PROVE remote' = remote
  BY <1>1 DEF Operate, CreateTenant, SetStatus, RequestErasure, Due
<1>2. ASSUME Contribute PROVE remote' = remote \/ remote' \in Ids
  BY <1>2 DEF Contribute, Admit, CommitCapture, Land
<1>3. ASSUME NEW p \in Writers, Begin(p) \/ Crash(p) PROVE remote' = remote
  BY <1>3 DEF Begin, ClaimErasure, ListWaiting, Crash
<1>4. ASSUME NEW p \in Writers, TryLock(p) \/ CreateRemote(p) \/ Activate(p)
      PROVE  remote' \in {remote, "bare"}
  BY <1>4 DEF TryLock, CreateRemote, Activate
<1>5. ASSUME NEW p \in Writers, PushScaffold(p) PROVE remote' \in {remote, "scaffold"} \cup Ids
  <2>1. Mine(p) \in Ids
    BY <1>5 DEF LifeInv, HandsInv, HasId, PushScaffold, Stands
  <2> QED
    BY <1>5, <2>1 DEF PushScaffold
<1>6. ASSUME NEW p \in Writers, EraseStep(p), ~RemoveRemote(p) PROVE remote' = remote
  BY <1>6 DEF EraseStep, CheckEligible, RecordRemoved, ReadRefs, DeleteRows, DropIndexes,
     SweepEvidence, Clean, FinishErasure, Fail
<1> QED
  BY <1>1, <1>2, <1>3, <1>4, <1>5, <1>6, LifeAssumption DEF LifeNext, Provision

\* erase_workspace.py:210-242, console.py:90-108: under the same condition the only step that
\* deletes a repository is a deletion's, and no workspace of its slug is in use at that moment.
THEOREM RepositoryInUseStays == ASSUME PromptLock PROVE LifeSpec => InUseKeepsItsRepository
<1> DEFINE Kept == remote # "absent" /\ remote' = "absent"
                     => \A w \in Ids : tenant[w] \notin {"provisioning", "active"}
<1>1. ASSUME LifeInv, LifeNext PROVE Kept
  <2> SUFFICES ASSUME remote # "absent", remote' = "absent", NEW w \in Ids
               PROVE  tenant[w] \notin {"provisioning", "active"}
    OBVIOUS
  <2>1. PICK p \in Writers : RemoveRemote(p)
    BY <1>1, OnlyRemovalRemoves
  <2>2. writer[p].pc = "remove" /\ tenant[Mine(p)] = "suspended" /\ Mine(p) \in Ids
    BY <1>1, <2>1 DEF RemoveRemote, LifeInv, HandsInv, HasId, EraseFits, DeletionFits, Stands
  <2> QED
    BY <1>1, <2>2 DEF LifeInv, OneRegistered, Registered
<1>2. LifeInv /\ [LifeNext]_life => [Kept]_life
  BY <1>1
<1> QED
  BY <1>2, WorkspaceInvariant, PTL DEF LifeSpec, InUseKeepsItsRepository
=============================================================================
