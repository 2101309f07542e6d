# Formal models of Stigmergy

TLA+ models of the program under `src/src/stigmergy`, checked with TLC and, for the theorems
listed below, proved with TLAPS. Paths such as `knowledge/writer.py` are relative to that directory;
`src/README.md`, `src/docs` and `src/specs` are the program's own documents.

Stigmergy keeps a team's knowledge as Markdown in one Git repository per workspace (tenant). Agents
and people submit captures over MCP, HTTP or Slack; a single *writer* turns each into one commit,
planned by a language model and checked by gates; Postgres holds the queue, the change ledger, the
evidence references, the roster and a search index that can be rebuilt; an object store holds the
originals. Two design decisions make nearly all the hard behaviour. The queue, the repository, the
ledger, the object store and the index have no transaction in common, so every operation is a
sequence of durable steps, any of which can be the last one of its process, and is repaired by a
retry that looks at what was left behind. And one repository holds the pages of every audience layer,
so that whatever reads, writes, links, names or indexes a page must keep apart what layers may know.

`PROJECT.json` lists the components with what is modelled of each, the runs, the slips that show
each property can fail, the lines every definition stands for (`map`), the theorems, and the hazards:
the places in the code where an order of events that a test would hardly produce matters, with the
properties that watch them.

## 1. Inventory

| Component | State | Operations | Hard behaviour | What makes it correct |
|---|---|---|---|---|
| Write path: `capture/queue.py`, `librarian/worker.py`, `knowledge/writer.py`, `librarian/gitcmd.py` | queue rows with status, attempts and lease; the writer advisory lock; a checkout per process; the branch; `knowledge_changes`; `capture_artifacts` | enqueue, claim, reclaim, file, push, record, settle, administrator retry | leases that expire while work goes on; crashes after the commit; pushes whose answer is lost; stale local branches | one commit per operation; landed means recorded; only the current claim settles a row; every operation ends |
| Filing: `knowledge/planner.py`, `plan.py`, `pages.py`, `lint.py`, `write_guard.py`, `KnowledgeWriter._capture`, `_delete`, `_recompile` | a worktree, the plan, lint before and after | plan, apply, sweep, gate, correct once, archive only; delete; recompile | the bounded correction loop and its exits; deletions that take links and citations with them | what is committed passed every gate or is the archived source alone; nothing is lost that nobody gave up |
| Calls of the model: `knowledge/planner.py`, `kernel/llm.py` | a budget of requests and seconds; slots | plan, race a second run, correct, decide | two racing runs, each with a budget; deserted requests | a correction always has a request; slots are accounted for |
| Names: `knowledge/aliases.py`, `knowledge/pages.py` | titles, aliases, texts asked about | name, ask, record, rotate | names asked one by one and recorded together | a name reaches one page; no answer is lost |
| Audience layers: `kernel/layers.py`, `knowledge/layered.py` | a page's public and layer parts | merge for a write, split after it, fuse for readers | a write made from a merged view goes back to one layer | each layer is read as it was told |
| Garden: `KnowledgeWriter._garden` | a branch pushed to by hand | repair layer by layer, gate | repairs some of which cannot be stored | only faulty pages change; it lands clean or not at all |
| Entities: `entities/service.py` | entity pages in all layers, links, aliases | merge, rename, delete | one name is different pages in different layers | links and names still find the knowledge |
| Layer erasure: `ops/erasure.py`, `ops/erase_layer.py` | `layer_erasures` with phase marks, commit map, backoff | request, claim, rewrite, force push, remap, purge, collect, rebuild, finish | resumption after any step; captures beside it; late pushes | success means gone; stored SHAs resolve; nothing else is touched |
| Evidence: `capture/evidence.py`, `uploads.py`, `references.py`, `extraction.py` | objects by content, upload sessions, artifact rows | put, verify, finalize, extract, record, release, purge | identical bytes shared by captures; look, then delete | no bytes in use are deleted; none without use stay |
| Doors of captures: `capture/service.py`, `server/routing.py` | idempotency keys, uploads, closed layers | submit, route, finalize | a repetition beside a change of the layer, the key or the upload | a key is one submission; an upload is of one capture |
| Waking and stopping: `kernel/wake.py`, `Worker.run` | flags of each process, the machine, the loop | request, round, announce, last look, stop | a request against a round that ends; the last look against an uncommitted submission | no committed work waits for a writer nobody wakes |
| Turns and schedules: claim order in `queue.py`, `librarian/schedule.py` | the turns of tenants, the last run of each job | claim, garden, rebuild, retry | a backlog, an index that cannot be built, a writer asleep across a slot | every tenant is served and gets its daily runs |
| Index: `index/build.py`, `health.py`, `corpus.py`, `fragments.py`, `measures.py`, `server/webhook.py` | `pages_index`, `index_health`, `webhook_deliveries`, fragments | apply a push, defer, rebuild, measure, cut | deliveries lost, repeated, reordered, at once; a rebuild racing them | the index is the corpus of the commit it names; nothing reported is forgotten; it converges |
| Reading: `index/search.py`, `index/rank.py`, `server/service.py` | none of its own | catalogue, neighbours, search | the filter of layers before counting, grouping and limits | what one may not read changes nothing one is told |
| Answers: `answer/`, `slack/mention.py` | a run: its scope, ledger, drafts, verdicts | search, read, draft, verify, retry, refuse, deliver | a scope resolved once; runs that die; evidence that grows between drafts | in scope, traced, and the asker is told |
| Slack captures: `slack/store.py`, `capture.py`, `poller.py` | reservations, thread bindings, submissions | reserve, bind, submit, poll, report | two reactions in a thread; report, then mark | one submission per thread; the last report is the true one |
| Workspace life: `ops/erase_workspace.py`, `librarian/provision.py`, `admin/console.py` | `tenants.status`, `workspace_erasures`, the repository | create, provision, suspend, delete | steps at the code host, in Postgres, in the bucket and on disk | a deleted workspace leaves nothing; one in use is whole |
| Refiling: `ops/replay_workspace.py` | two workspaces, the file between them | export, import, hand over | work goes on in the source | what is handed over is whole; a deleted source is not filed again |
| Roster: `server/roster.py`, `identity.py` | people, groups, channels, tokens, sessions | administer, withdraw | two administrators at once; rows read before an edit | an administrator remains; what is withdrawn stays so |
| Deadlines: `kernel/deadline.py`, `shutdown.py`, `blocking.py` | one timer, one flag | nest, cancel, wait | a signal between test and wait | the inner deadline never outlives the outer one |
| Front ends: `server/mcp_server.py`, `server/transport_http.py`, `admin/`, `bridge/`, `src/web` | none of the system's | call the above | | |

How they interact: front ends insert queue rows and call `wake.writer()`; the writer takes the
workspace's advisory lock for every operation, erasure, rebuild or provisioning, so those exclude
one another, but a claim is made *outside* the lock and settled *after* it; a push to the repository
comes back as a webhook delivery that updates the index in a serving process, outside every lock;
the erasure rewrites the history under everyone's stored SHAs; the evidence store is shared by every
workspace; readers and answers take their scope from the roster once and then use it.

## 2. What is modelled

Every action is one step of the code between two points at which another actor can be seen or the
process can die; `PROJECT.json` ("map") gives the lines each definition stands for. Definitions
introduced as a *SLIP* are plausible mistakes in the definition they name, kept beside it so that each
property can be shown to notice one; no specification uses them. A property a run checks is often a
conjunction with a name of its own; the conjuncts are defined above it, each with its comment.

### The writer and its queue

**KnowledgeLedger** is what the knowledge plane promises: accepted operations are published at most
once, recorded after they are published, and landed only with commit and record. It has no leases,
processes, locks or transport. **KnowledgeWriter** is the code's way of keeping that promise for one
workspace:

| Model | Code |
|---|---|
| `status`, `attempts`, `lease`, `expired`, `landedAt` | the columns of `capture_queue`; `expired` is a lease older than the visibility timeout |
| `clock` | `clock_timestamp()`; a lease is named by the claim that took it |
| `pc`, `job`, `verdict` of a process | `Worker.process_one` and `KnowledgeWriter` between claim and settlement |
| `lock` | the session advisory lock `WRITER_LOCK_KEY` |
| `checkout`, `ready`, `base` | the process's clone, `Workspaces._ready`, and what `base_ref` resolved |
| `branch`, `pushes` | the remote branch; a push is a message that may take effect after its sender gave up, and only as a fast-forward |
| `changes`, `referenced` | `knowledge_changes`, `capture_artifacts` |

Actions follow the code in order: `Submit`, `Claim`, `TakeLock` (or the lock is busy), `Recover` (the
search for a commit with the operation's trailer), filing, `CheckLease`, `Push`, `Accepted`,
`RecordChange`, `RecordReferences`, then, with the lock dropped, `Finish` or one of the settlements of
a failure; `Reclaim` is `release_expired`, which needs the lock; `Crash`, `Interrupt`, `Expire`, `Drop`
and `Land` of a push, `ForeignPush` and `AdminRetry` are the environment. What the planner writes is not
here: a filing succeeds, finds nothing (garden runs), or fails, retryably or not.

**WriterWake**: the processes that queue work, each with its `requested` and `running` flags and its
waking thread (`kernel/wake.py`), the machine and its lifecycle, and the writer from boot to idle stop
(`Worker.run`, `_may_stop`, `_pending_work`). Work is counted. Two durations are guards: a writer that
has taken its last look is down within the watch of a round (`STOP_WATCH_S`), and an open transaction
that queued work commits before a round that began after it ends and before a newly booted writer is
idle long enough to stop. The Machines API is external and answers.

**WriterTurns**: the passes of the same loop over several tenants. `turns` is the order in which they
were last claimed for, `keyed`, `gardened`, `rebuilt` and `built` what the schedule remembers of each;
the clock goes round in `Day` ticks with a slot for the garden and one for the rebuild. `Pass` is one
pass: a claim, or the garden that is due, or the rebuild that is due, the first of them by slug.
**WriterProcess** puts the two side by side: a behaviour is of one (`part`), and what one takes for
granted of the other, a stopped writer started again, is what the other shows.

### What a commit contains

**FilingLoop**: one capture through `_capture`, and deletions. A page is the set of its units, a unit a
text with a live or a plain link; a text may cite a source, link a page and be a contradiction
callout. `tree` is the view of the layer, `work` the ephemeral worktree, `corpus` the repository. A
plan is any set of mutations; `File` applies it behind its guards, lint compares before and after, one
correction follows, then the archived source alone (`Fallback`), `Project` stores the view in its
layer, `Sweep` removes what pointed at deleted pages and `Gate` has the last word.

**Recompile**: the derived knowledge again from its sources, `public` first and each layer over it;
a page is the set of sources that back it. **WriterPlans** puts it beside FilingLoop: the writer lock
keeps them apart, so a behaviour is of one.

**LayeredText**: a body as sections of units. `MergeForWriting`, `SplitFromPublic` and
`FuseForReading` are the three functions of `layered.py` and `layers.py`; the public page and the
layer's view change in turn. `told` and `yielded` are history.

**PageNames**: `named` (the pages and what they answer to), `variants` (links that show another text),
and what the writer makes of them: the names a plan may give (`_skip_claimed_names`), the candidates of
a filing and of the garden's daily pass with cap and rotation, and any answers of the classifier.

**GardenRepair**: any push by hand, then `BeginRepairs`, `RepairLayer` for one layer after another in
its own view with any repair, and `LandRepairs` behind the gate on the whole repository.

**ModelCalls**: `runs` are the run of a call and the one that races it, each with its requests; `sent`
and `used` count what was sent and what the code counts; `elapsed` and `spent` are the two clocks.
Beside it the slots of the typed decisions (`free`, `asking`, `deserted`).

**Refile**: `Export`, `BeginImport`, one statement of an import at a time, `Handover`, between up to three
workspaces in which people are admitted, queue, delete, open sessions and are disabled while a writer
claims and settles. **WriterParts** puts these five side by side: they share no state, and a behaviour
is of one.

### Deletions

**LayerErasure**: requests with backoff and attempts, and the phases: check the remote, record the
rewrite, push it with a lease per ref, mark it pushed, reset the checkout, purge the rows and remap the
SHAs, collect garbage, clear and rebuild, finish. A commit's SHA *is* the history that ends with it, so
a rewrite renames every later commit, and whether a stored SHA still resolves is a question about
prefixes. Captures go through a shortened write path, and the rows can disappear under a process:
`File` and `Finish` take both outcomes of the row they update. `LatePush` lets a push that failed for
its sender land later.

**EvidencePlane**: objects are content addresses. Direct captures put their bytes and then insert a
row; uploads go from session to verified to consumed; a writer extracts, stores the readable text,
records it on the row, files, records the references and lands; a delete operation releases the
artifacts of a source and sweeps what nothing else needs; expired sessions are purged. `is_live` and the
deletion it allows are two steps. `SweepsAlone` says whether anything may be acquired between them:
`FALSE` is the code.

**WorkspaceLife**: `tenant`, `rows`, `indexed` and `req` are Postgres, `remote` the repository of the
slug, `objects` the bucket, `local` the checkouts, `writer` and `lock` the running writers. Provisioning
is `ListWaiting`, `TryLock`, `CreateRemote`, `PushScaffold`, `Activate`; a deletion `ClaimErasure`,
`CheckEligible`, `RemoveRemote`, `RecordRemoved`, `ReadRefs`, `DeleteRows`, `DropIndexes`,
`SweepEvidence`, `Clean`, `FinishErasure` or `Fail`; a call may fail, or do its work and lose its
answer, and a writer may stop anywhere. Ids are successive workspaces of one slug. `PromptLock` says
whether the operator may act between two adjacent statements of a writer; `FALSE` is the code.
`MCDeletions` puts the two side by side.

### Index, reading and answers

**IndexConvergence**: `pages` (a version for each path), the health row (`indexed`, `head`, `dirty` and
its two timestamps, kept as whether they are newer than the newest change row), the recorded
deliveries, any number of webhook requests at work at once (`Receive`, `Read`, then `RecordCurrent`,
`Defer` or `Apply`), the rebuild (`Fetch`, `ReadHealth`, `Replace` or `Abandon`), the idle stop, and
`delete_group` as the three statements it is made of. A truncated or oversized push is the free choice
to defer in `Read`. `undisturbed` is the comparison of the row, which includes its `xmin`. `known` is a
history variable. A forced push is left to LayerErasure.

**EntityPages** holds the pages of all layers and the three operations on entities; **PageReading** what
a reader of some layers gets of them: catalogue with its cursor, the fused page, neighbours, degrees,
the order of hits; **IndexRows** the rows a rebuild stores, those a push leaves, and the measures of the
graph; **Fragments** how a body is cut. **Library** is the four together: an administrator's operation
while a reader walks.

**ChannelAnswers**: one question, in a channel or in private, from the placeholder to the last edit:
the scopes resolved when the event arrives, the agent's searches and reads recorded in `ledger`, drafts
and their verdict, the one corrective run compared with the first, the recovery of a run that died, the
delivery with its retries, and the fuller private answer. A row states one claim; rows are withdrawn
meanwhile.

### Doors

**SlackSubmissions**: a delivery of a reaction reserves its message, acquires the thread and queues one
capture in a transaction; pollers post how it ended and then mark it; processes start, stop and lose the
lock of the adapter; reservations age; a layer is closed and erased.

**Roster**: the edits of an administrator as what they check and what they write, with the advisory lock
that holds the two together, in any number of transactions; tokens and sessions that are read, issued
and withdrawn; a capture on its way through a layer being deleted (`delete_group`'s three looks).

**CaptureDoors**: deliveries of requests (a text, the address of a page, a file) through routing, the
reading of the page, the look at the layer, the insert under its key, and the finalizing of an upload,
while the roster, the page and the erasures change. **RosterAndDoors** puts the two side by side.

## 3. What is checked

`MC<module>` instantiates a module, or several that a run puts side by side (`WriterProcess` needs none). The `.cfg` files give every
constant. Symmetry is used where only safety properties are checked, over interchangeable values.
`CHECK_DEADLOCK FALSE` is set where everything within the bounds can be finished and the program then
waits for input. Every run passes.

| Run | Question | Bounds |
|---|---|---|
| `writer_safety` | Can leases, reclaims, stale checkouts and late pushes produce a second commit, a landed row without its records, or a settlement by a stale claim? Does the write path implement `KnowledgeLedger`? | one capture, two processes, one stop, one retry, one commit by somebody else, `MaxAttempts` 1 |
| `writer_settles` | Does a garden run end although a process stops? | one garden run, two processes, one stop |
| `writer_process` | Is queued work ever left with nobody awake, and is it served? Has every tenant its turn, its garden, its rebuild and its first index? | two processes, three items, one retry; two tenants, one with an index that cannot be built, a day of 3 ticks, one failure or stop |
| `filing` | Is the branch sound after any plan, correction or deletion? Do rejected plans leave pages alone, cited texts survive, layers keep apart? What may a recompile lose? | two layers, two names, three captures (one resolves a callout), three texts, one deletion; one title, three layers, four sources |
| `writer_parts` | Are requests and slots accounted for? Does a name reach one page, and is no answer lost? Is a layer read as it was told? Is a handover whole? Does the garden land repairs only? | 3 turns, race after 2, time-out 3, budget 4, two tries, three callers on two slots; three names, two zones; two headings, four units; two titles, three lines; two texts, two people, one token, three workspaces; `PartsBounds` |
| `erasure` | Do stored SHAs resolve, does success mean gone, does a request whose rewrite is pushed succeed, is no other commit overwritten? | two layers, one operation that touches both, an outside commit, two requests, two faults, late pushes, at most three of these at once (`Bounded`), one process |
| `deletions` | Are no bytes in use deleted, and do none stay for nobody? Does a deleted workspace leave nothing, and one in use keep what it needs? Do both requests come through? | two captures with the same bytes and text, one worker, one fault, `SweepsAlone`; two workspaces of one slug, two writers, two attempts, one request each, two failures, `PromptLock` |
| `index` | Is the index the corpus of the commit it names? Is a report ever forgotten? Does it reach the tip, clean? | two pages, one of a layer, one capture, two pushes by others, three deliveries, two handlers, one fault, one ask |
| `library` | Do links and names follow what moved? Does what a reader may not see change nothing? Is an updated index the one a rebuild makes? Do the fragments put the body together? | every corpus of up to three pages of three layers over two titles, one operation; every body of up to four lines |
| `channel_answers` | Are answers in scope and traced, do refusals report what came back, is the asker told? | two pages, two claims, three layers, one tool call per run, one row withdrawn |
| `slack_captures` | Is a thread one submission, has every silence a reason, and is the latest report true in the end? | three deliveries, one thread with a reply, two processes, two troubles |
| `roster_and_doors` | Does an administrator remain, does no group in use go, does what was withdrawn stay so? Is a key one submission? | two people, one layer, one channel, one token, one session, two transactions, four edits; six requests, two keys, two uploads, two arrivals, one change |

### Bounds

Every bound is a constant whose name starts with `Max` and appears only in the guards of environment
actions, except `MaxAttempts` and `MaxTurns`, which are the code's, and three state constraints
(`Bounded` twice, `PartsBounds`), which leave out behaviours with every kind of trouble at once.

- Write path: a stale holder and a current one are all the roles there are; a third process would
  repeat one. With `MaxAttempts` 1 the second claim is the recovery-only one, and a full second attempt
  comes from a stop that gives the attempt back or from the administrator's retry. How operations compete
  and fail together in one reclaim (`FailSeveral`) is covered by the theorems. Liveness is checked on a
  garden run, which has every exit a capture has and two more.
- Erasure: two faults reach the resumption of a resumption; two requests rewrite one history twice.
  One process is what `docs/OPERATIONS.md` deploys; section 5 says what a second one changes.
- Deletions: two captures that share all their bytes are the way objects are shared; two successive
  workspaces are what "nothing comes back" needs, two writers what a stale listing needs.
- Filing: two names and three texts give a page that cites, links and contradicts, in the layer and
  under it; the third capture resolves the callout of the first two. Recompile: four sources put two in one layer.
- Index: two pushes and three deliveries are what it takes to apply a stale delivery over a newer one;
  two pages, so that "the pages of another commit" differ from "the pages of none".
- Parts: two namings and two days give a name that is used, asked about and rotated out; three edits of
  each side of a page give a line that comes, moves and goes; two exports follow a handover by another.
- Roster and doors: two transactions and four edits reach every pair of edits that meet; a third arrival
  repeats one of the first two. The theorems cover every number.
- Library: a link between two pages, with a third in another layer, is the smallest corpus in which a
  hidden page can be counted; four lines give a window, its overlap and a section.

### Fairness

- `KnowledgeWriter`: weak fairness of a process inside an operation (each wait has a deadline), strong
  fairness of `TakeLock`, `Reclaim` and `Claim`, which the loop reaches on every pass but another process can
  disable in between; `Expire` (time passes), `Start` (the platform restarts a dead process). Nothing is
  assumed of crashes, pushes that land late, submissions or administrators.
- `WriterWake`, `WriterTurns`: threads, the writer's loop, the clock and the machine go on; nobody must
  queue, nor the writer stop. `EveryDayIsKept` takes for granted that a stopped writer is started again.
- `LayerErasure`: a process goes on inside a step, backoff passes, and a request that is repeatedly
  claimable is claimed.
- `EvidencePlane`: a request of the service ends, sessions expire, the loop of a running worker goes on (one
  condition per worker on everything the loop may do next: it never stops while there is something to serve or
  purge). `WorkspaceLife`: the loop of each writer goes on, and time passes. In `MCDeletions` nothing of one
  part's fairness is ever enabled in a behaviour of the other.
- `IndexConvergence`: the writer's steps and those of a request being served. A delivery is never owed: it
  may be lost. `Converges` is about a writer that stays up: a dirty index neither keeps the writer up
  nor wakes it (`librarian/worker.py:75`), as `docs/OPERATIONS.md` says.
- `ChannelAnswers`: the listener's next step, since every wait of it has a deadline. `FilingLoop`: what
  follows the last answer of the model runs on its own. `SlackSubmissions`: a process that stopped is
  started again, its poller goes on, and the writer ends every capture.


## 4. What is proved

The theorems hold for every value of the constants that satisfies the named assumptions
(`ConstantsAssumption`, `LifeAssumption`, ...), which say that the bounds are numbers, that the "nobody"
values are not members of the sets they stand beside, that a table has an entry for everything it is
about, that the layers compiled or repaired are each listed once, and nothing about the sizes of the sets.
Three say a little more: a page is not a source (`Names \cap Captures = {}`, in `FilingLoop`, which sweeps for
both); the layers of `PageNames` are numbered without gaps, 0 being public; and in `SlackSubmissions` there is a
process to run the adapter, and a thread's first message is of that thread. Some
theorems have a hypothesis besides, given with them below. Each inductive invariant was checked
with TLC on a small instance before it was proved.

| Module | Theorems |
|---|---|
| `KnowledgeWriter_proofs` | `TypeCorrect`, `WriterInvariant`, `OneCommit`, `LandedSubstantiated`, `PublishedUnderLease`, `WriterImplementsLedger`, `SettledOnlyByHolder` |
| `WriterPlans_proofs` | `BranchStaysSound`, `PlansKeepTheRest`; of filing `FilingTypeCorrect`, `FilingStaysSound`, `RejectedPlansOnlyArchive`, `CitedTextsSurvive`, `LayersStayApart`; of recompiling `LayersStayBacked`, `RecompileLosesOnlyTheGivenUp` |
| `WriterParts_proofs` | `RequestsCounted`; `NamesTypeCorrect`, `NamesReachOnePage`, `AnswersStay`; `GardenLands`; `HandoversAreWhole`, `DeletedStaysDeleted`; `PartsKeepTheirWord`; of `WriterWake`, `WakeTypeCorrect`, `NoLostWakeUp` |
| `IndexConvergence_proofs` | `IndexInvariant`, `IndexTypeCorrect`, `IndexHoldsItsCommit`, `ReportedIsNeverForgotten` |
| `Slack_proofs` | of `ChannelAnswers`, `AnswerTypeCorrect`, `AnswersStayInScope`, `OutcomesAreTraced`; of `SlackSubmissions`, `SlackTypeCorrect`, `ThreadsAreAnswered` |
| `RosterAndDoors_proofs` | `NoGroupInUseGoes`, `WithdrawnStaysWithdrawn`, `LastAdministratorStays`, `AKeyIsOneSubmission` |
| `Deletions_proofs` | `EvidenceStaysStored`, `SourcesAreSwept`, `WorkspaceLeavesNothing`, `RepositoryInUseStays` |
| `LayerErasure_proofs` | `ErasureInvariant`, `ErasureTypeCorrect`, `LedgerKept`, `StoredCommitsResolve`, `SuccessLeavesNothing`, `OthersStay` |

**The write path.** `Inductive` adds to the properties what makes them inductive. `AtMostOneCommit` alone
is not: a push in flight could land a second commit. `FreshInv` says that a push whose base is still the
tip is of an operation with no commit up to that base, so a push that lands (fast-forward only) is the
first; it holds because recovery searches the branch, under the lock, before anything is filed. `LeaseInv`
says that no two processes at work carry one lease; with the reclaim's own lock it gives
`PublishUnderLease`: what publishes is still the row's claim, however many leases ran out. `DurableInv` lists, phase by phase, what
has been recorded, and gives `LandedIsSubstantiated`. `LockInv` and `SubmittedInv` tie the lock and the
rows to the processes.

**The refinement.** Under the mapping in `KnowledgeWriter` queued and processing rows are *open* in
`KnowledgeLedger`, the landing of a push is *Publish*, and every other step is one of the ledger's or a
stutter. The recording of a change needs `DurableInv`; a reclaim that gives up several rows at once is
`FailSeveral`. The proof first reduces each step of the code to what the ledger sees of it.

**Waking.** `NeverAsleepOverWork` is not inductive, because work is committed after its wake-up was asked
for. `Unheard` says that a transaction no round has listed after still has its request in the flags of
its process; `AgedHeard` that a writer which has announced its stop cannot have missed one without a
thread that will start it again. `Flags` ties the two flags of `kernel/wake.py` to the thread.

**Filing.** The branch is sound between operations, but the worktree is not while a sweep is under way, and the
gate compares only with what was there before. `FilingInv` says of every round that each broken link and
citation of the worktree is *explained* by something that is gone and not yet swept for (`Explained`, over
`job.gone`); a round removes what the gone ones explain and adds to `gone` the pages it emptied, so when none is
left the worktree is sound, and the gate has nothing to refuse (`SweepIsEnough`). For what a capture keeps, the plan is
followed from the view it was drafted on, through its guards (`PlanFits`), the correction and the dropped
updates, to the view that is projected (`Projectable`) and the worktree that lands (`Landable`). A capture of
one layer is gated on what it introduces, so nothing there needs explaining.

**Recompile.** A page is judged layer by layer as its layer is compiled, so `RecompileInv` says of the layers that are
`Compiled` that what they lost was given up by all of its sources (`GivenUp`), of those still `Waiting` that they are as
they were, and of the view on the desk that what its layer writes is backed by its own sources
(`DeskIsBacked`). No tombstone is ever of a disputed page. `WriterPlans_proofs` carries both to the specification the run
checks: of either write the other is at rest.

**Names.** That accepted names are stored follows the draft of a write to its end (`AcceptedAreThere`). That no two pages
share a name needs both the branch and the draft apart (`NamesApart`), notes without aliases, and that a garden's
names are new to the whole layer. The rotation is arithmetic: on day `d` it starts at
`d * cap` modulo the number of candidates, so over as many days as there are candidates each place comes by
(`RotationComesBy`), and `SoughtSoFar` says that what those days asked about is recorded.

**The garden.** Each layer is repaired over public pages that are repaired already, so `GardenInv` says that the layers
ahead are untouched, that what is stored was faulty on the branch *before* the garden and holds no line
of public, and that the public pages still there are the same ones, none of them faulty if any was rewritten. The
last matters: a layer is looked at over the new public pages, and its faults must be those of the old.

**Refiling.** `HandoverIsWhole` holds because an exported workspace stands still from there on: while the export is held, and
again after a handover (`Still`), nothing is in hand and nothing lands. `FileIsOfItsSpace` ties the file to the workspace
and an import's rows to the file. `DeletedStaysDeleted` assumes `Procedure`, that the operator keeps the workspace
suspended from export to handover as `docs/OPERATIONS.md` asks: the script does not check it, and without
it a source may be deleted between the export and the import.

**The index.** `IndexIsCorpus` holds of the commit the index names because an applied push changed
exactly the pages that differ (`PushNamesChanges`), every job is of a push that was sent (`JobsSent`), and
the row is read again inside the transaction that applies it (`server/webhook.py:212-217`; the slip
`ApplyUnchecked` drops it). For `ReportsAreKept`: a request that finds its push in the index was
preceded by another delivery's record or by a full rebuild, and the checkout of an undisturbed rebuild holds
what was recorded since it read the row.

**Calls of the model.** A plan costs what it is counted for, or a run was raced, and then so much of the
budget of time is gone that the correction cannot be raced too (`PlanCost`, with
`Budget <= 2 * HedgeAfter`, which `planner.py`'s figures satisfy). Slots: a caller that waits and a
request that was deserted each keep one.

**Answers.** An outcome is shaped from a draft, a ledger and a verdict that may be older than the ledger. The
ledger stays within the scope the answer is computed at (`LedgerInScope`) and forgets no evidence while
an answer is sought, so the kept verdict of the first draft still names every untraced figure
(`FirstVerdictHolds`); a scope narrowed to a channel reads for both (`NarrowReadsForBoth`).

**Threads.** A delivery that meets another row of its thread ends without a word, so that row must answer for it: it is
of the thread (`RowIsOfItsThread`), and either holds the thread's item (`ItemHasItsRow`) or is the reservation of a delivery
still at work. The last holds only while nothing stopped, failed unheard or outlived its lease (`ReservationsAreAtWork`):
these are the reasons the property names. That an item has one row rests on the thread's advisory lock
(`OneIsLocked`) and on what a commit finds (`BoundIsAlone`): its reservation, which no other delivery may drop while the
transaction holds its keys, and no other row of the thread.

**Roster and doors.** An edit that has made its checks holds the lock, so what it has read (`Accepts`)
still holds when it writes (`ChecksStand`): the steps without the lock can only add groups and take uses
away. What was withdrawn is revoked or gone, and neither is undone. A capture in the hands of
the writer keeps its layer's group, or lands between the two looks of the deletion (`slipped`). A row of
the queue is never replaced, so what a receipt was answered from stays there to be compared with.

**Deletions.** `EvidenceStaysStored` assumes `SweepsAlone`, that no object is acquired while a sweep looks
and deletes; `WorkspaceLeavesNothing` and `RepositoryInUseStays` assume `PromptLock`, that no
operator acts between the two statements by which a writer lists a waiting workspace and takes the lock. The code
guarantees neither, and section 5 says what happens without them; the theorems say that nothing *else* can
go wrong, with any number of captures, workspaces, writers, stops and failed calls. For evidence the
invariant follows a capture from its put to its row (`Arriving`), a row to its objects (`FiledIsBacked`),
and says that what a sweep has chosen is unneeded until it is deleted (`DoomedUnneeded`). The converse,
`SourcesAreSwept` (the `DeleteSweeps` of `GarbageIsSwept`), assumes `OneWorker` and not `SweepsAlone`: a source has its
artifacts on record or its capture is still there to record them (`SourceIsBacked`), and whatever a deletion has looked
at stays deleted, doomed, needed or awaited until it lands (`SweepIsClean`), since a request at work
holds the session of its upload (`RequestHolds`). It fails with two writers, as section 5 says. For workspaces,
`RequestFits` ties what a request has recorded to the rows, the repository and the indexes,
`DeletionFits` says what each step of a deletion leaves for the next, and `OneRegistered` that one
workspace of a slug has a row: the repository, which goes by the slug, is then always its own. The two places where the code loses hold of
something are part of the properties: a removal never recorded (`Unrecorded`), an object of
a capture that commits between the reading of the evidence and the deletion of the rows (`late`).

**Layer erasure.** A SHA is the history that ends with it, so the argument is on prefixes, and it needs
one lemma about filter-repo (`FilterMonotonic`): a filter of a prefix is a prefix of the filter. `Filter` is
therefore given by the rank of each commit that is kept. `RewriteInv` says that one open request at most has
a rewrite, and that it is the filter of what it read; `RemoteInv` that the branch goes on from what the
rewrite read or from what it left, and from the latter once the checkout was reset. A stored SHA is then on the
branch or led there by that request's commit map (`LedgerInv`, `LandedInv`), through any number of resumed
attempts, and after the purge all of them are on it, which is why `Succeed` may forget the map. The
look at the remote in `MayBePushed` is what the step `FailResolves` needs. `StoredCommitsResolve` assumes `OneWriter`
(`specs/data-erasure.md:14`): a second process can report, after the purge, the SHA it kept from before; the
change history needs no such hypothesis (`LedgerKept`). `SuccessLeavesNothing` follows the layer out
of each store (`GoneInv`: captures of the layer are not claimed while it is open, and only others push under the lock) and
its bytes (`BytesInv`: what no other capture shares is noted down with the deletion of its row, in one
transaction, and a request that has noted anything never fails for good). A push that lands after it was
given up ends all of this (`late`), except `OthersStay`: such a push is of one commit, or of a rewrite somebody
asked for (`InFlightInv`).

## 5. Statements the code does not keep

Met while modelling. The runs above leave them out by a parameter, a bound or an exemption that
is named here; no run asserts them.

| Statement | Where the code departs from it |
|---|---|
| "One commit and one change record per operation" (`README.md:472`) | when the answer of a push is lost and the push lands late (`gitcmd.py:298`), the item may end `failed` with its commit published and no record (`EveryCommitRecorded`) |
| After a crash behind the commit "never … another model run" (`README.md:85-86`) | when `git fetch` fails the attempt works from the local branch (`gitcmd.py:93`), which lacks the commit, and asks the model again; its push is then refused (`NoSecondModelRun`) |
| "Whether the remote already holds the stored rewrite" (`ops/erase_layer.py:175`), on which a request counts as pushed (`:92`) | when the layer's commits are the last of the branch, the rewritten head is an ancestor of the old one: a request that stopped between storing its map and its push counts as pushed, and every further attempt finds the layer still in the history (`erase_layer.py:100-102`), without end (`MarkedLanded`) |
| A closed layer refuses captures (ER-03; `capture/service.py:168`) | the layer is looked at before the transaction that queues (`ClosedRefuses`) |
| A deleted source stays released (`capture/references.py:58`) | a recovered attempt of the capture sets its references live again (`DeletedStaysReleased`) |
| What is deleted from the store is not in use (`capture/uploads.py:253`) | the look and the deletion are apart; an object acquired in between is lost (`SweepsAlone = FALSE`) |
| The next workspace of a slug starts from nothing | a writer that listed the last one and was slow to take the lock provisions it again (`worker.py:349-372`; `PromptLock = FALSE`) |
| "Once the repository is gone the request keeps trying" (`ops/erase_workspace.py:8-9`, `:250-251`) | not when the removal itself was never recorded and the attempts ran out (`Unrecorded`) |
| Concurrent movement of the repository leaves the index intact (`docs/OPERATIONS.md:354`) | the health a rebuild compares with is read after its checkout (`index/build.py:272`): a push applied in between is undone; the reports that follow bring it back (`NeverBackwards`) |
| "A commit the webhook has not reported yet is newer than the index's last update" (`roster.py:474`), so a deleted layer holds nothing (`roster.py:483`) | another push may have been applied since; and a capture may land between the two looks (`UnreportedIsNewer`, `slipped`) |
| A recompile refuses to lose what no source gave up (`knowledge/writer.py:759`) | a layer's own part of a page that public holds too may vanish, and a "create" over a prior page drops an unresolved contradiction (`writer.py:738-742`) (`VanishesUnasked`) |
| Repeating a key returns one submission (CAP-03 in `specs/karpathy-team-wiki.md:449`) | a capture of a URL is refused when repeated: its time of acquisition is compared (`capture/queue.py:234-246`, `service.py:249`) (`RepeatReturnsSubmission`) |
| What was refiled has landed before the handover (`docs/OPERATIONS.md:124-125`) | what was itself refiled into the source is exported like the rest, and its landing in the next workspace is never asked about (`EveryExportedLanded`) |
| A new alias "does not share all its words with another entity's name" (`docs/ARCHITECTURE.md:106-107`) | the names another entity gets in the same write are not looked at (`knowledge/aliases.py:80-83`) (`NoPartOfAnothersName`) |
| What is derived from a layer's capture stays in the layer (`docs/ARCHITECTURE.md:136`) | a line of the layer that public came to say as well is gone from both when public takes it back (`DerivedStaysInItsLayer`) |
| "A filing makes at most three model requests" (`docs/ARCHITECTURE.md:124-125`) | a raced run asks once more for each of its requests (`AtMostThreeRequests`) |
| A request that ends at its output limit is tried again (`specs/karpathy-team-wiki.md:117-119`) | not when it was raced and the other run failed for something that is not tried again (`OutputLimitIsTriedAgain`) |

More that a reader of one module should know:

- `EvidencePlane`: with two writer processes the deletion of a source may overtake the last step of the capture
  that filed it, which is taken without the lock. The sweep finds the capture still there and spares its objects;
  then the capture is done, and nothing looks at its text again (`DeleteSweeps` with `Workers` of two). Bytes a
  direct capture put before it failed are swept by nobody until the capture is repeated.
- `LayerErasure`: with two writer processes a row may name a commit the rewrite replaced, since `Finish`
  writes the SHA it kept (`worker.py:124`), and `clean` may fail (`erase_layer.py:102`). A late push
  after a failed request (`:62`) or after the purge needs more faults than the run has.
- `FilingLoop`: a restricted plan that reduces a merged page to its public units keeps a page of its own; if
  it also deletes the linked page the last gate refuses the whole capture. Deleting and creating one path
  bypasses the guard of cited lines. An empty corrected plan is accepted.
- `EntityPages`: a rename of an entity that only a layer holds rewrites its links in every layer
  (`writer.py:240-242`, exempt as `Astray`); a public merge leaves a layer's own part, and its links, behind.
- `IndexRows`: a push applies the links of the stored body (`webhook.py:134`), a rebuild those of the whole
  text (`corpus.py:207`). `GardenRepair`: a missing source in the front matter cannot be repaired and blocks
  the garden; a strict projection failure in one layer refuses the garden of all.
- `ModelCalls`: with the default time-out of 300 s the second run never starts. `WriterTurns`: an index that
  was never built is tried every ten minutes, the first tenant by slug first (`worker.py:387-391`), and
  the module assumes that such tries leave time (`Cardinality(Broken) * MaxBusy < Retry`).
- `SlackSubmissions`: with two pollers at once the latest report may be an older one; the property excludes
  them (`doubled`). `Roster`: a session read before `set_disabled` and inserted after it survives, though
  every request it makes is refused while the person is disabled.
- `Refile`: a queued row of a suspended source is never claimed, so the export refuses until it is resumed;
  the handover looks at the target's queue alone; an import does not look for a deletion under way;
  a workspace with a landed capture whose author is disabled or removed cannot be exported at all (`replay_workspace.py:120`).
- `ChannelAnswers`: a search the database cut stays among those reported; a figure withheld once may come
  back in a later answer (`answer/service.py:78-90`).

## 6. Only model-checked, and not modelled

*Out of the prover's reach.* Everything that must eventually happen (`EventuallySettled`, `WorkIsServed`, the
`CleanSucceeds` of `ErasureCompletes`, the `NoGarbage` of `GarbageIsSwept`, the two progress parts of
`RequestsComeThrough`, `FilingEnds`, `Converges`, `AskerIsTold`, `LatestReportIsTrue`): liveness under fairness. What recursive
definitions and folds compute for every input: fragments, links, ranks, merged pages, layered text (`Library`,
`Fragments`, `EntityPages`, `LayeredText`): induction over data. These are checked against their reference
definitions over all inputs within the bounds.

*Not modelled.* Markdown, prompts, scores, formats and metadata; ranking's evergreen and stale
factors, and what search shows of a page; the readers of document formats; authentication protocols; the
web front end, the bridge and the administration pages, which only call the operations modelled; the
deployment; evaluations and tests; a nested deadline that restores no timer when the outer one has just
run out (`kernel/deadline.py:36`). `PROJECT.json` says for each component what is left out.

## 7. What would come next

1. An abstract specification of a deletion (requested, irrevocable, gone), refined by `LayerErasure` and
   `WorkspaceLife`.
2. A specification of the pages a reader is told, against which `Library`'s filters are proved rather than
   enumerated, with the sequences of hits as functions.
