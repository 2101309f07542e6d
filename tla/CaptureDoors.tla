---------------------------- MODULE CaptureDoors ----------------------------
(***************************************************************************)
(* The submission of captures through their doors: routing to one layer,     *)
(* upload sessions, and the idempotency key that lets a caller send a        *)
(* request again (submit and finalize_upload_capture of server/service.py,   *)
(* server/routing.py, capture/service.py, capture/uploads.py and             *)
(* capture/queue.py).                                                       *)
(*                                                                          *)
(* A request is a text, the address of a page, or a file the caller uploads  *)
(* first; it may name its layer or leave it to the routing.  A delivery is   *)
(* one arrival of a request: the caller may send it again before or after    *)
(* the first is answered.  All requests are of one actor, since a key is     *)
(* scoped to its actor.  Bytes already stored, titles and rate limits are    *)
(* left out.                                                                *)
(*                                                                          *)
(* A definition introduced as a SLIP is a plausible mistake in the one it    *)
(* precedes; it is no part of the specification.                            *)
(***************************************************************************)
EXTENDS Naturals, FiniteSets

CONSTANTS
    Requests, Deliveries, Keys,
    KindOf,     \* [Requests -> {"text", "url", "file"}]
    KeyOf,      \* [Requests -> Keys]: the idempotency key
    Named,      \* [Requests -> Doors or Unset]: the layer a request names
    Says,       \* [Requests -> the text, the address or the bytes of the file]
    BackOffice, \* the requests made in the back office
    UploadOf,   \* [Requests -> the upload session of a file, or Unset]
    Doors, Everyone,  \* audience layers, the public one among them
    Unset,
    MaxSends,   \* bound: arrivals of requests
    MaxChanges  \* bound: changes of the roster, of pages, and closings of layers

ASSUME DoorsAssumption ==
    /\ KindOf \in [Requests -> {"text", "url", "file"}]
    /\ KeyOf \in [Requests -> Keys]
    /\ Named \in [Requests -> Doors \cup {Unset}] /\ DOMAIN Says = Requests
    /\ BackOffice \subseteq {r \in Requests : KindOf[r] # "file"}
    /\ Everyone \in Doors /\ Unset \notin Doors \cup Keys
    /\ \A r \in Requests : KindOf[r] = "file" => UploadOf[r] # Unset
    /\ Unset \notin [of : Requests, layer : Doors, seen : 0 .. MaxChanges, n : 0 .. MaxSends]
    /\ MaxSends \in Nat /\ MaxChanges \in Nat

VARIABLES
    publishes,  \* the layers the actor may name, their default among them
    default,
    version,    \* what the addresses hold now
    closed,     \* layers with an open erasure
    queue,      \* [Keys -> the request queued under it, or Unset]
    usedBy,     \* upload_sessions.consumed_by: [uploads -> Keys or Unset]
    checked,    \* uploads verified
    call,       \* [Deliveries -> where it is]
    sends, changes

doorVars == <<publishes, default, version, closed, queue, usedBy, checked, call, sends, changes>>
scene == <<publishes, default, version, closed, changes>>
-----------------------------------------------------------------------------
Sessions == {UploadOf[r] : r \in Requests} \ {Unset}
NoCall == [pc |-> "idle", of |-> Unset, n |-> 0, layer |-> Unset, seen |-> 0, answer |-> "none"]

\* What is queued: the request, its layer, what its address held, and when it arrived,
\* which stands for captured_at and for the time its address was read.
Envelope(c) == [of |-> c.of, layer |-> c.layer, seen |-> c.seen, n |-> c.n]

\* SLIP: the time of capture counts.
SameAlways(a, b) == a = b

\* queue._equivalent_request: captured_at is left out of the comparison; the time an
\* address was read (acquisition.acquired_at) is not.
Same(a, b) ==
    /\ Says[a.of] = Says[b.of] /\ KindOf[a.of] = KindOf[b.of]
    /\ a.layer = b.layer /\ a.seen = b.seen
    /\ KindOf[a.of] = "url" => a.n = b.n

DoorsInit ==
    /\ publishes \in {p \in SUBSET Doors : Everyone \in p}
    /\ default \in publishes \cup {Unset}
    /\ version = 0 /\ closed = {} /\ changes = 0 /\ sends = 0
    /\ queue = [k \in Keys |-> Unset]
    /\ usedBy = [u \in Sessions |-> Unset] /\ checked = {}
    /\ call = [d \in Deliveries |-> NoCall]

Answered(d, what) ==
    call' = [call EXCEPT ![d] = [@ EXCEPT !.pc = "idle", !.answer = what, !.n = 0, !.seen = 0]]

Arrived(r) == [NoCall EXCEPT !.of = r, !.n = sends + 1]
Arrives(d) ==
    /\ call[d].pc = "idle" /\ sends < MaxSends /\ sends' = sends + 1
    /\ UNCHANGED <<scene, queue, usedBy, checked>>

\* A request arrives, for the first time or again.
Send(d, r) ==
    /\ Arrives(d) /\ r \notin BackOffice
    /\ call' = [call EXCEPT ![d] = [Arrived(r) EXCEPT !.pc = "route"]]

\* AdminService.submit_text and submit_url: a person chooses the layer, or takes the default.
SendFromBackOffice(d, r) ==
    /\ Arrives(d) /\ r \in BackOffice
    /\ LET layer == IF Named[r] = Unset THEN default ELSE Named[r]
       IN call' = [call EXCEPT ![d] =
                     IF layer \in publishes
                     THEN [Arrived(r) EXCEPT !.pc = "read", !.layer = layer]
                     ELSE [NoCall EXCEPT !.of = r, !.answer = "refused"]]

\* routing.route: a named layer the actor may publish to; or their default, unless the
\* classifier is asked, among two layers at least, and is sure of one.
Candidates == publishes \ {Everyone}
Routes(r) ==
    IF Named[r] # Unset THEN {Named[r]} \cap publishes
    ELSE IF default \notin publishes THEN {}
    ELSE {default} \cup (IF Cardinality(Candidates) < 2 THEN {} ELSE Candidates)

\* The classifier reads the files of a request, which are verified for it.
RouteRequest(d) ==
    /\ call[d].pc = "route"
    /\ IF Routes(call[d].of) = {}
       THEN Answered(d, "refused") /\ UNCHANGED checked
       ELSE /\ \E l \in Routes(call[d].of) :
                 call' = [call EXCEPT
                            ![d].layer = l,
                            ![d].pc = IF KindOf[call[d].of] = "file" THEN "finalize" ELSE "read"]
            /\ checked' = IF Named[call[d].of] = Unset /\ Cardinality(Candidates) >= 2
                          THEN checked \cup ({UploadOf[call[d].of]} \ {Unset}) ELSE checked
    /\ UNCHANGED <<scene, queue, usedBy, sends>>

\* capture_public_url fetches the page, which may fail.
Read(d) ==
    /\ call[d].pc = "read"
    /\ IF KindOf[call[d].of] = "url"
       THEN \/ call' = [call EXCEPT ![d].pc = "look", ![d].seen = version]
            \/ Answered(d, "refused")
       ELSE call' = [call EXCEPT ![d].pc = "look"]
    /\ UNCHANGED <<scene, queue, usedBy, checked, sends>>

\* A layer that is being erased takes no captures.
Erasing(d) == call[d].layer # Everyone /\ call[d].layer \in closed
\* queue.find_capture, by its actor and key.
Row(d) == queue[KeyOf[call[d].of]]

\* _find_idempotent: the submission already queued under the key, if it is this one.
Known(d) ==
    Answered(d, IF Same(Row(d), Envelope(call[d])) THEN "receipt" ELSE "conflict")

\* capture_bytes, and _queue_envelope again once the bytes are stored.
Look(d) ==
    /\ call[d].pc \in {"look", "store"}
    /\ IF Erasing(d) THEN Answered(d, "refused")
       ELSE IF Row(d) # Unset THEN Known(d)
       ELSE call' = [call EXCEPT ![d].pc = IF @ = "look" THEN "store" ELSE "insert"]
    /\ UNCHANGED <<scene, queue, usedBy, checked, sends>>

\* SLIP: whoever was first, this is the submission of the key.
KnownUnread(d) == Answered(d, "receipt")

\* What the insert meets when another delivery was first.
Lost(d) == Known(d)

Insert(d) ==
    /\ call[d].pc = "insert"
    /\ IF Row(d) = Unset
       THEN /\ queue' = [queue EXCEPT ![KeyOf[call[d].of]] = Envelope(call[d])]
            /\ Answered(d, "receipt")
       ELSE Lost(d) /\ UNCHANGED queue
    /\ UNCHANGED <<scene, usedBy, checked, sends>>

\* SLIP: an upload is taken whoever used it.
MayUseAny(u, k) == TRUE

\* consume_uploads: an upload is of one capture.
MayUse(u, k) == usedBy[u] \in {Unset, k}

\* finalize_upload_capture: one transaction, with the sessions locked, verifies the
\* uploads, queues the capture and consumes them, or does nothing.
FinalizeUpload(d) ==
    /\ call[d].pc = "finalize"
    /\ LET k == KeyOf[call[d].of]
           u == UploadOf[call[d].of]
           ours == Row(d) = Unset \/ Same(Row(d), Envelope(call[d]))
       IN IF ~Erasing(d) /\ ours /\ MayUse(u, k)
          THEN /\ queue' = [queue EXCEPT ![k] = IF @ = Unset THEN Envelope(call[d]) ELSE @]
               /\ usedBy' = [usedBy EXCEPT ![u] = k]
               /\ checked' = checked \cup {u}
               /\ Answered(d, "receipt")
          ELSE /\ Answered(d, IF ours \/ Erasing(d) THEN "refused" ELSE "conflict")
               /\ UNCHANGED <<queue, usedBy, checked>>
    /\ UNCHANGED <<scene, sends>>

\* The caller is gone: the process stops or the connection ends before an answer.
Drop(d) ==
    /\ call[d].pc # "idle"
    /\ Answered(d, "lost")
    /\ UNCHANGED <<scene, queue, usedBy, checked, sends>>

\* The roster, the pages at the addresses and the erasures change on their own.
Change ==
    /\ changes < MaxChanges /\ changes' = changes + 1
    /\ \/ /\ publishes' \in {p \in SUBSET Doors : Everyone \in p}
          /\ default' \in publishes' \cup {Unset}
          /\ UNCHANGED <<version, closed>>
       \/ version' = version + 1 /\ UNCHANGED <<publishes, default, closed>>
       \/ \E l \in Doors \ {Everyone} :
            /\ closed' = IF l \in closed THEN closed \ {l} ELSE closed \cup {l}
            /\ UNCHANGED <<publishes, default, version>>
    /\ UNCHANGED <<queue, usedBy, checked, call, sends>>

DoorsNext ==
    \/ \E d \in Deliveries, r \in Requests : Send(d, r) \/ SendFromBackOffice(d, r)
    \/ \E d \in Deliveries : RouteRequest(d) \/ Read(d) \/ Look(d) \/ Insert(d) \/ FinalizeUpload(d) \/ Drop(d)
    \/ Change

DoorsSpec == DoorsInit /\ [][DoorsNext]_doorVars
-----------------------------------------------------------------------------
DoorsTypeOK ==
    /\ publishes \subseteq Doors /\ default \in Doors \cup {Unset} /\ closed \subseteq Doors
    /\ usedBy \in [Sessions -> Keys \cup {Unset}] /\ checked \subseteq Sessions
    /\ \A d \in Deliveries : call[d].of \in Requests \cup {Unset}
    /\ sends \in 0 .. MaxSends /\ changes \in 0 .. MaxChanges

Answers(d, what) == call[d].pc = "idle" /\ call[d].answer = what

\* queue.py:184-198: however deliveries of one key race, a receipt names a submission
\* of the layer and the contents this delivery was routed and read with.
ReceiptIsYours ==
    \A d \in Deliveries : Answers(d, "receipt") =>
        Row(d) # Unset /\ Row(d).layer = call[d].layer /\ Says[Row(d).of] = Says[call[d].of]

\* specs/karpathy-team-wiki.md:449 "Repeating an actor's idempotency key returns one
\* submission", for texts and files that name their layer: no repetition, at any
\* moment and whatever changed, is taken for another request.
RepeatIsKnown ==
    \A d \in Deliveries :
        Answers(d, "conflict") /\ KindOf[call[d].of] # "url" /\ Named[call[d].of] # Unset
        => Row(d).of # call[d].of

\* uploads.py:204-228: the upload of a queued file is consumed by that capture and no
\* other is ever queued from it.
UploadOfOneCapture ==
    \A k \in Keys : queue[k] # Unset /\ KindOf[queue[k].of] = "file" =>
        usedBy[UploadOf[queue[k].of]] = k /\ UploadOf[queue[k].of] \in checked

\* A key is one submission: of what its receipts say, however often it is delivered, and of the upload
\* that nobody else queues.
KeyIsOneSubmission ==
    /\ ReceiptIsYours
    /\ RepeatIsKnown
    /\ UploadOfOneCapture
-----------------------------------------------------------------------------
(* What the code does not keep, which no run checks (README, section 5).     *)

\* specs/karpathy-team-wiki.md:449 for every request: the address of a page is read at
\* another time, and a layer left to the routing is chosen again.
RepeatReturnsSubmission ==
    \A d \in Deliveries : Answers(d, "conflict") => Row(d).of # call[d].of
=============================================================================
