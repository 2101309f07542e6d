--------------------------- MODULE IndexConvergence ---------------------------
(***************************************************************************)
(* The search index of one workspace and its health row: the webhook that  *)
(* applies each push of the knowledge repository to it, the full rebuild,  *)
(* and the administrator who deletes a layer on the strength of it.        *)
(*                                                                         *)
(* A delivery of a push is handled in steps: was it applied before, read   *)
(* the health row, fetch and embed the changed pages over the network, and *)
(* only then one transaction that looks at the row again.  Whatever cannot *)
(* be applied to the commit the index stands at marks the index dirty and  *)
(* is left to the rebuild.  The rebuild holds the writer lock: it fetches  *)
(* the checkout, reads the health row, builds from the checkout's HEAD and *)
(* replaces the index if the row has not moved.                            *)
(*                                                                         *)
(* The branch only grows here: a forced push is the erasure's, which       *)
(* rebuilds the index itself (LayerErasure).  A commit is the tree it      *)
(* makes; the version of a page is the position of the commit that wrote   *)
(* it, 0 when there is none.  Deliveries are lost, repeated and reordered. *)
(* The health row's timestamps are kept as what is asked of them: is the   *)
(* newest change row newer.                                                *)
(*                                                                         *)
(* A definition introduced as a SLIP is a plausible mistake in the action  *)
(* it names, used to check that a property would notice it; it is no part  *)
(* of the specification.                                                   *)
(***************************************************************************)
EXTENDS Naturals, Sequences, FiniteSets

CONSTANTS
    Pages,          \* indexable paths of the repository
    LayerPages,     \* the ones of the layer an administrator may delete
    Captures,       \* captures the writer files, a page each
    LayerCaptures,  \* the ones of that layer
    Handlers,       \* webhook requests served at the same time
    NoPush,         \* a handler that serves none
    SleepsWhenIdle, \* settings.idle_exit_s is set
    MaxOthers,      \* bound: commits pushed by others
    MaxDeliveries,  \* bound: deliveries of pushes, repeated ones included
    MaxFaults,      \* bound: failures of requests, rebuilds and publications
    MaxAsks         \* bound: rebuilds asked from the console

ASSUME IndexAssumption ==
    /\ LayerPages \subseteq Pages
    /\ LayerCaptures \subseteq Captures
    /\ SleepsWhenIdle \in BOOLEAN
    /\ {MaxOthers, MaxDeliveries, MaxFaults, MaxAsks} \subseteq Nat

VARIABLES
    trees,       \* the branch: the tree of each commit, a version for each page
    sent,        \* pushes GitHub may deliver: [before, after, changed]
    status,      \* of each capture
    commitOf,    \* position of the commit of each published capture
    awake,       \* the writer process runs
    worker,      \* what the writer does under its lock
    checkout,    \* the HEAD a rebuild works from
    undisturbed, \* the health row is the one the rebuild read
    pages,       \* pages_index: the version of each page
    indexed,     \* index_health.indexed_commit_sha, a position
    head,        \* index_health.repository_head_sha
    dirty,       \* index_health.dirty
    lastInc,     \* index_health.last_incremental_at, against the newest change
    lastFull,    \* index_health.last_full_rebuild_at, against the newest change
    recorded,    \* webhook_deliveries, by the position a push ends at
    pc, job,     \* where each handler is, and the push it handles
    admin,       \* how far the deletion of the layer has looked
    deleted,     \* the layer is gone from the roster
    known,       \* history: the deliveries recorded when the last rebuild read the row
    others, deliveries, faults, asks  \* counters of the bounded actions

branchVars == <<trees, sent>>
writerVars == <<status, commitOf, awake, worker, checkout>>
healthVars == <<indexed, head, dirty, lastInc, lastFull, undisturbed>>
indexVars == <<pages, recorded, known>>
handlerVars == <<pc, job>>
adminVars == <<admin, deleted>>
boundVars == <<others, deliveries, faults, asks>>
vars == <<branchVars, writerVars, healthVars, indexVars, handlerVars, adminVars, boundVars>>

Times == {"never", "before", "after"}
Push == [before : Nat, after : Nat, changed : SUBSET Pages]

TypeOK ==
    /\ trees \in Seq([Pages -> Nat])
    /\ sent \subseteq Push
    /\ status \in [Captures -> {"absent", "queued", "publishing", "recorded", "landed", "failed"}]
    /\ commitOf \in [Captures -> Nat]
    /\ awake \in BOOLEAN
    /\ worker \in {"idle", "publishing", "fetched", "building"}
    /\ checkout \in Nat
    /\ undisturbed \in BOOLEAN
    /\ pages \in [Pages -> Nat]
    /\ indexed \in Nat
    /\ head \in Nat
    /\ dirty \in BOOLEAN
    /\ lastInc \in Times
    /\ lastFull \in Times
    /\ recorded \subseteq Nat
    /\ known \subseteq Nat
    /\ pc \in [Handlers -> {"idle", "reading", "current", "deferring", "applying"}]
    /\ job \in [Handlers -> Push \cup {NoPush}]
    /\ \A h \in Handlers : pc[h] # "idle" => job[h] \in Push
    /\ admin \in {"idle", "converged", "empty"}
    /\ deleted \in BOOLEAN
    /\ others \in Nat
    /\ deliveries \in Nat
    /\ faults \in Nat
    /\ asks \in Nat

\* The corpus a provisioned repository starts with is the tree before any commit.
EmptyTree == [p \in Pages |-> 0]
Tree(n) == IF n = 0 THEN EmptyTree ELSE trees[n]
Tip == Len(trees)

Init ==
    /\ trees = <<>>
    /\ sent = {}
    /\ status = [c \in Captures |-> "absent"]
    /\ commitOf = [c \in Captures |-> 0]
    /\ awake = TRUE
    /\ worker = "idle"
    /\ checkout = 0
    /\ undisturbed = FALSE
    /\ pages = EmptyTree
    /\ indexed = 0
    /\ head = 0
    /\ dirty = TRUE
    /\ lastInc = "never"
    /\ lastFull = "never"
    /\ recorded = {}
    /\ known = {}
    /\ pc = [h \in Handlers |-> "idle"]
    /\ job = [h \in Handlers |-> NoPush]
    /\ admin = "idle"
    /\ deleted = FALSE
    /\ others = 0
    /\ deliveries = 0
    /\ faults = 0
    /\ asks = 0

-----------------------------------------------------------------------------
(* The branch and the writer.                                              *)

\* One push of one commit that gives page p its next version, or removes it.
PushCommit(p, removed) ==
    LET n == Tip + 1 IN
    /\ trees' = Append(trees, [Tree(Tip) EXCEPT ![p] = IF removed THEN 0 ELSE n])
    /\ sent' = sent \cup {[before |-> Tip, after |-> n, changed |-> {p}]}

\* A caller submits a capture; a sleeping writer is woken.
Submit(c) ==
    /\ status[c] = "absent"
    /\ c \in LayerCaptures => ~deleted
    /\ status' = [status EXCEPT ![c] = "queued"]
    /\ awake' = TRUE
    /\ UNCHANGED <<branchVars, commitOf, worker, checkout, healthVars, indexVars, handlerVars,
                   adminVars, boundVars>>

\* The writer takes its lock and publishes the commit of a capture.
Publish(c) ==
    /\ awake
    /\ worker = "idle"
    /\ status[c] = "queued"
    /\ \E p \in Pages :
         /\ p \in LayerPages <=> c \in LayerCaptures
         /\ PushCommit(p, FALSE)
    /\ status' = [status EXCEPT ![c] = "publishing"]
    /\ commitOf' = [commitOf EXCEPT ![c] = Tip + 1]
    /\ worker' = "publishing"
    /\ UNCHANGED <<awake, checkout, healthVars, indexVars, handlerVars, adminVars, boundVars>>

\* A timestamp of the health row once a newer change row exists.
Older(time) == IF time = "never" THEN "never" ELSE "before"

\* record_change, then the lock is dropped.
Record(c) ==
    /\ status[c] = "publishing"
    /\ status' = [status EXCEPT ![c] = "recorded"]
    /\ worker' = "idle"
    /\ lastInc' = Older(lastInc)
    /\ lastFull' = Older(lastFull)
    /\ UNCHANGED <<branchVars, commitOf, awake, checkout, indexed, head, dirty, undisturbed,
                   indexVars, handlerVars, adminVars, boundVars>>

Land(c) ==
    /\ status[c] = "recorded"
    /\ status' = [status EXCEPT ![c] = "landed"]
    /\ UNCHANGED <<branchVars, commitOf, awake, worker, checkout, healthVars, indexVars,
                   handlerVars, adminVars, boundVars>>

\* The answer of the push, or the change record, is lost: the item fails.
FailCapture(c) ==
    /\ faults < MaxFaults
    /\ status[c] = "publishing"
    /\ status' = [status EXCEPT ![c] = "failed"]
    /\ worker' = "idle"
    /\ faults' = faults + 1
    /\ UNCHANGED <<branchVars, commitOf, awake, checkout, healthVars, indexVars, handlerVars,
                   adminVars, others, deliveries, asks>>

\* Somebody else pushes to the repository, one commit or two at once.
OthersPush ==
    /\ others < MaxOthers
    /\ \E p \in Pages, removed \in BOOLEAN :
         /\ removed => Tree(Tip)[p] # 0
         /\ PushCommit(p, removed)
    /\ others' = others + 1
    /\ UNCHANGED <<writerVars, healthVars, indexVars, handlerVars, adminVars, deliveries, faults,
                   asks>>

OthersPushTwo ==
    /\ others + 1 < MaxOthers
    /\ \E p, q \in Pages :
         LET first == [Tree(Tip) EXCEPT ![p] = Tip + 1] IN
         /\ trees' = trees \o <<first, [first EXCEPT ![q] = Tip + 2]>>
         /\ sent' = sent \cup {[before |-> Tip, after |-> Tip + 2, changed |-> {p, q}]}
    /\ others' = others + 2
    /\ UNCHANGED <<writerVars, healthVars, indexVars, handlerVars, adminVars, deliveries, faults,
                   asks>>

\* An idle writer with nothing pending stops; an index never built keeps it up.
Sleep ==
    /\ SleepsWhenIdle
    /\ awake
    /\ worker = "idle"
    /\ \A c \in Captures : status[c] \notin {"queued", "recorded"}
    /\ lastFull # "never"
    /\ awake' = FALSE
    /\ UNCHANGED <<branchVars, status, commitOf, worker, checkout, healthVars, indexVars,
                   handlerVars, adminVars, boundVars>>

-----------------------------------------------------------------------------
(* The rebuild.                                                            *)

\* SLIP of Fetch: the rebuild is skipped when the index is not known dirty.
FetchWhenDirty ==
    /\ awake
    /\ worker = "idle"
    /\ dirty \/ lastFull = "never"
    /\ checkout' = Tip
    /\ worker' = "fetched"
    /\ UNCHANGED <<branchVars, status, commitOf, awake, healthVars, indexVars, handlerVars,
                   adminVars, boundVars>>

\* A rebuild is due: under the writer lock the checkout is brought to the tip.
Fetch ==
    /\ awake
    /\ worker = "idle"
    /\ checkout' = Tip
    /\ worker' = "fetched"
    /\ UNCHANGED <<branchVars, status, commitOf, awake, healthVars, indexVars, handlerVars,
                   adminVars, boundVars>>

\* The rebuild remembers the health row, then reads the committed corpus and
\* embeds it.  Nobody moves the checkout while the lock is held, so HEAD and its
\* tracking branch are found unchanged at the end.
ReadHealth ==
    /\ worker = "fetched"
    /\ worker' = "building"
    /\ undisturbed' = TRUE
    /\ known' = recorded
    /\ UNCHANGED <<branchVars, status, commitOf, awake, checkout, indexed, head, dirty, lastInc,
                   lastFull, pages, recorded, handlerVars, adminVars, boundVars>>

\* SLIP of Replace: the health row is not compared.
ReplaceAnyway ==
    /\ worker = "building"
    /\ pages' = Tree(checkout)
    /\ indexed' = checkout
    /\ head' = checkout
    /\ dirty' = FALSE
    /\ lastFull' = "after"
    /\ undisturbed' = FALSE
    /\ worker' = "idle"
    /\ UNCHANGED <<branchVars, status, commitOf, awake, checkout, lastInc, recorded, known,
                   handlerVars, adminVars, boundVars>>

\* The index is replaced in one transaction with the health row locked.
Replace ==
    /\ worker = "building"
    /\ undisturbed
    /\ pages' = Tree(checkout)
    /\ indexed' = checkout
    /\ head' = checkout
    /\ dirty' = FALSE
    /\ lastFull' = "after"
    /\ undisturbed' = FALSE
    /\ worker' = "idle"
    /\ UNCHANGED <<branchVars, status, commitOf, awake, checkout, lastInc, recorded, known,
                   handlerVars, adminVars, boundVars>>

\* The health row moved, or anything else failed: the old index stays.
Abandon ==
    /\ \/ worker = "building" /\ ~undisturbed /\ UNCHANGED faults
       \/ worker \in {"fetched", "building"} /\ faults < MaxFaults /\ faults' = faults + 1
    /\ worker' = "idle"
    /\ UNCHANGED <<branchVars, status, commitOf, awake, checkout, healthVars, indexVars,
                   handlerVars, adminVars, others, deliveries, asks>>

\* The console asks for a rebuild and wakes the writer.
AskRebuild ==
    /\ asks < MaxAsks
    /\ asks' = asks + 1
    /\ lastFull' = "never"
    /\ undisturbed' = FALSE
    /\ awake' = TRUE
    /\ UNCHANGED <<branchVars, status, commitOf, worker, checkout, indexed, head, dirty, lastInc,
                   indexVars, handlerVars, adminVars, others, deliveries, faults>>

-----------------------------------------------------------------------------
(* The webhook.                                                            *)

\* A delivery arrives, and was not applied before: a repeated one is acknowledged.
Receive(h, d) ==
    /\ deliveries < MaxDeliveries
    /\ pc[h] = "idle"
    /\ d.after \notin recorded
    /\ pc' = [pc EXCEPT ![h] = "reading"]
    /\ job' = [job EXCEPT ![h] = d]
    /\ deliveries' = deliveries + 1
    /\ UNCHANGED <<branchVars, writerVars, healthVars, indexVars, adminVars, others, faults, asks>>

\* What the health row says of the push: the index is there already, the push
\* cannot be applied to it, or its changed files are fetched and embedded.  A push
\* with too many files, or a truncated list of commits, is deferred whatever the row.
Read(h) ==
    /\ pc[h] = "reading"
    /\ \/ /\ indexed = job[h].after
          /\ pc' = [pc EXCEPT ![h] = "current"]
       \/ /\ indexed # job[h].after
          /\ pc' = [pc EXCEPT ![h] = "deferring"]
       \/ /\ indexed = job[h].before
          /\ ~dirty
          /\ pc' = [pc EXCEPT ![h] = "applying"]
    /\ UNCHANGED <<branchVars, writerVars, healthVars, indexVars, job, adminVars, boundVars>>

\* SLIP of Answer: the request is forgotten before it is over.
AnswerHalfway(h) ==
    /\ job' = [job EXCEPT ![h] = NoPush]
    /\ UNCHANGED pc

\* The handler answers.
Answer(h) ==
    /\ pc' = [pc EXCEPT ![h] = "idle"]
    /\ job' = [job EXCEPT ![h] = NoPush]

RecordDelivery(h) == recorded' = recorded \cup {job[h].after}

\* mark_dirty: the row names the commit it does not have.
MarkDirty(h) ==
    /\ head' = job[h].after
    /\ dirty' = TRUE
    /\ undisturbed' = FALSE

\* record_incremental: the index stands at the commit of the push.
RecordIncremental(h) ==
    /\ indexed' = job[h].after
    /\ head' = job[h].after
    /\ lastInc' = "after"
    /\ undisturbed' = FALSE

RecordCurrent(h) ==
    /\ pc[h] = "current"
    /\ RecordDelivery(h)
    /\ Answer(h)
    /\ UNCHANGED <<branchVars, writerVars, healthVars, pages, known, adminVars, boundVars>>

\* SLIP of Defer: the delivery is recorded as applied, the row is left alone.
DeferQuietly(h) ==
    /\ pc[h] = "deferring"
    /\ RecordDelivery(h)
    /\ Answer(h)
    /\ UNCHANGED <<branchVars, writerVars, healthVars, pages, known, adminVars, boundVars>>

Defer(h) ==
    /\ pc[h] = "deferring"
    /\ MarkDirty(h)
    /\ RecordDelivery(h)
    /\ Answer(h)
    /\ UNCHANGED <<branchVars, writerVars, indexed, lastInc, lastFull, pages, known, adminVars,
                   boundVars>>

\* The changed pages as the push left them.
WithChanges(d) == [p \in Pages |-> IF p \in d.changed THEN Tree(d.after)[p] ELSE pages[p]]

\* SLIP of Apply: the row is not looked at again after the fetch.
ApplyUnchecked(h) ==
    /\ pc[h] = "applying"
    /\ pages' = WithChanges(job[h])
    /\ RecordIncremental(h)
    /\ UNCHANGED dirty
    /\ RecordDelivery(h)
    /\ Answer(h)
    /\ UNCHANGED <<branchVars, writerVars, lastFull, known, adminVars, boundVars>>

\* One transaction with the row locked: the push is applied to the commit it
\* starts from, or deferred.
Apply(h) ==
    /\ pc[h] = "applying"
    /\ \/ /\ ~dirty
          /\ indexed = job[h].before
          /\ pages' = WithChanges(job[h])
          /\ RecordIncremental(h)
          /\ UNCHANGED dirty
       \/ /\ dirty \/ indexed # job[h].before
          /\ MarkDirty(h)
          /\ UNCHANGED <<indexed, lastInc, pages>>
    /\ RecordDelivery(h)
    /\ Answer(h)
    /\ UNCHANGED <<branchVars, writerVars, lastFull, known, adminVars, boundVars>>

\* Anything fails: the row is marked if the database still answers, and the
\* delivery is not recorded.
FailHandler(h) ==
    /\ pc[h] # "idle"
    /\ faults < MaxFaults
    /\ faults' = faults + 1
    /\ \/ MarkDirty(h)
       \/ UNCHANGED <<head, dirty, undisturbed>>
    /\ Answer(h)
    /\ UNCHANGED <<branchVars, writerVars, indexed, lastInc, lastFull, indexVars, adminVars,
                   others, deliveries, asks>>

-----------------------------------------------------------------------------
(* Deleting a layer: three statements of one transaction, each of which     *)
(* sees what was committed when it ran.                                     *)

\* A change row is newer than the last update of the index.  greatest() ignores
\* a timestamp that is not there, and is null when neither is.
NewerChange ==
    LET seen == {lastInc, lastFull} \ {"never"} IN
    seen # {} /\ "after" \notin seen

CheckHealth ==
    /\ admin = "idle"
    /\ ~deleted
    /\ ~dirty
    /\ head = indexed
    /\ ~NewerChange
    /\ admin' = "converged"
    /\ UNCHANGED <<branchVars, writerVars, healthVars, indexVars, handlerVars, deleted, boundVars>>

CheckPages ==
    /\ admin = "converged"
    /\ admin' = IF \A p \in LayerPages : pages[p] = 0 THEN "empty" ELSE "idle"
    /\ UNCHANGED <<branchVars, writerVars, healthVars, indexVars, handlerVars, deleted, boundVars>>

DeleteLayer ==
    /\ admin = "empty"
    /\ admin' = "idle"
    /\ deleted' = \A c \in LayerCaptures : status[c] \in {"absent", "landed", "failed"}
    /\ UNCHANGED <<branchVars, writerVars, healthVars, indexVars, handlerVars, boundVars>>

-----------------------------------------------------------------------------

Writer ==
    \/ \E c \in Captures : Publish(c) \/ Record(c) \/ Land(c)
    \/ Fetch
    \/ ReadHealth
    \/ Replace

Handler(h) ==
    \/ Read(h)
    \/ RecordCurrent(h)
    \/ Defer(h)
    \/ Apply(h)

Admin == CheckHealth \/ CheckPages \/ DeleteLayer

Next ==
    \/ Writer
    \/ \E h \in Handlers : Handler(h) \/ FailHandler(h) \/ \E d \in sent : Receive(h, d)
    \/ Admin
    \/ \E c \in Captures : Submit(c) \/ FailCapture(c)
    \/ OthersPush
    \/ OthersPushTwo
    \/ Sleep
    \/ Abandon
    \/ AskRebuild

Spec == Init /\ [][Next]_vars

\* The writer's loop and a request that is being served go on; nobody owes a
\* delivery, a submission or a deletion.  A rebuild is due every day.
FairSpec ==
    /\ Spec
    /\ \A c \in Captures : WF_vars(Record(c)) /\ WF_vars(Land(c))
    /\ WF_vars(Fetch)
    /\ WF_vars(ReadHealth)
    /\ WF_vars(Replace)
    /\ WF_vars(Abandon)
    /\ \A h \in Handlers : WF_vars(Handler(h))

-----------------------------------------------------------------------------

\* The pages of the index are the corpus of the commit it says it stands at,
\* whatever pushes crossed: process_push must not put the pages of one push on
\* the index of another.
IndexIsCorpus == pages = Tree(indexed)

\* A delivery that was acknowledged and recorded is never forgotten while only
\* the writer pushes: its commit is in the index, or the row says that the index
\* is behind.
ReportedIsIndexedOrDirty ==
    others = 0 => \A d \in recorded : d <= indexed \/ dirty

\* What was reported after the last rebuild read the health row survives that
\* rebuild, whoever pushes: rebuild compares the row with the one it started
\* from before it declares the index clean.
ReportedSinceRebuild == \A d \in recorded \ known : d <= indexed \/ dirty

\* With a writer that stays up from some point on, whatever deliveries are lost, repeated or fail,
\* the index ends at the tip of the branch and clean (README: a nightly full
\* rebuild guarantees convergence).
Converges == <>[]awake => <>[](pages = Tree(Tip) /\ ~dirty)

\* A push that was reported is in the index, or the row says that the index is behind: always while
\* only the writer pushes, and after the last rebuild whoever does.
ReportsAreKept ==
    /\ ReportedIsIndexedOrDirty
    /\ ReportedSinceRebuild
-----------------------------------------------------------------------------
(* What the code does not keep, which no run checks (README, section 5).   *)

\* docs/OPERATIONS.md: concurrent repository movement leaves the previous index
\* intact and the dirty marker visible.  So no rebuild takes the index back to an
\* older commit.
NeverBackwards == [][indexed' >= indexed]_vars

\* _refuse_unless_empty: a commit the webhook has not reported yet is newer than the
\* index's last update.  So while the row passes that test, every recorded change
\* is in the index.
UnreportedIsNewer ==
    (~dirty /\ head = indexed /\ ~NewerChange) =>
        \A c \in Captures : status[c] \in {"recorded", "landed"} => commitOf[c] <= indexed

\* _refuse_unless_empty: only an index that has converged on the repository can
\* show a layer is empty.  So a layer that is gone left no page in the repository.
DeletedLayerHoldsNothing == deleted => \A p \in LayerPages : Tree(Tip)[p] = 0
=============================================================================
