# TurboCider: a verification development

TurboCider generates images and video with diffusion models on Apple silicon.
Its models are larger than the memory they may use, so the runtime streams
weights: it refills a few buffers from disk while the GPU still reads others.
Around this core there are the accounting of memory, the C API with its locks
and quarantines, a job service that survives crashes, and a desktop
application that starts worker processes and publishes what they make.

This directory holds TLA+ modules translated from the source, the TLC
configurations that check them and TLAPS proofs about them. Source paths below
are relative to `src/` of the repository.

## 1. The system

| Component | Where | State | Operations | What makes it correct |
|---|---|---|---|---|
| Slot safety tracker | `native/runtime/streaming/slot_pool.cpp` | per slot: content state, generation, ticket, reader fences; poison flag | `begin_fill`, `accept_ready`, `begin_use`, `seal_readers`, `complete_reader` | content is not overwritten before its last reader; tickets are unique |
| I/O executor, completion mailbox | `.../streaming/io_executor.cpp` | job ring, credits, stop flag, record ring, overflow latch | `enqueue`, worker loop, `post`, `pop`, `shutdown_and_join` | each job is reported once; no wakeup is lost; nothing runs after the join |
| Stage executor | `.../streaming/context.cpp` | pools, carry ticket, pass counter, failed / finished / quarantined | `begin`, `run_pass`, `release_drained_backing`, `finish`, `retry_drain`, destructor | the GPU reads the weights of its group; memory outlives its users; every pass ends |
| Memory plan and ledger | `native/runtime/memory_{manifest,plan,schedule,accounting}.cpp` | reserved, active and pending bytes | reserve, commit, cancel, release, retire, complete | the budget holds; bytes are given back once, and not before the GPU is done |
| Memory scheduler and execution | `native/runtime/memory_{scheduler,execution}.cpp`, `native/models/h3_runtime/h3_gpu.m`, `native/platform/apple/h3_session.mm` | completion registry and mailbox, epoch and cursor, commands in flight | retire, post, drain, safe points, verdict | a lost completion is never a success; a reused engine is clean |
| Native engine API | `native/api/c_api.mm`, `native/runtime/execution.cpp` | engine mutex, execution mutex, device lease, cancel flag, two quarantines | generate, prepare, load, unload, verify, cancel, free | one session on the GPU; nothing runs after a quarantine; a cancellation hits its call only |
| Job service | `services/turbociderd/service.mm` | queue, active job, engine, child process, one file per job | submit, cancel, run loop, recovery, shutdown | an accepted job ends in one state, across crashes; what a client sees running runs |
| Desktop image jobs | `apps/macos/{JobStore,ImageOutputTransaction,NativeProcessRunner,WorkerProcessIdentity}.swift`, the worker commands of `apps/cli` | records in memory and in `jobs.json`, staging directories, launch journals, worker processes | submit, launch, cancel, publish, recover, clean up | an image is published once and not denied; no worker is lost, doubled or robbed of its directory |
| Neural Engine backend | `native/backends/ane_*` | weight banks, handoff tickets, artifact leases | submit, join, release | not modelled, see section 7 |
| Everything else | see `PROJECT.json` | mostly functions or I/O | | not modelled, see section 7 |

How they interact. A client gives a job to the *job service*, whose thread
calls `tc_engine_generate` or starts a child process; the *desktop application*
starts one worker process per streamed image or image of the runtime experiment,
or calls the engine itself. Every
call of the *engine API* takes the mutex of its engine, the execution mutex of
the process and a file lock shared with other processes, then runs the session
of a model. A session streams the weights of a stage with a *stage executor* on
the caller's thread, the *owner*: it gives fill jobs to the *I/O executor*,
encodes GPU work through a model specific *adapter*, and learns of ends through
the *mailbox*, to which I/O workers and GPU callbacks post. Only the owner pops
records and moves slots in the *tracker*. A memory-constrained request charges
each buffer to a *ledger* before it exists; a buffer the GPU still uses is
*retired* and its bytes return with a completion that a Metal thread posts.
Cancellation is a flag set by another thread everywhere.

What is hard about it: the owner acts on states it polls while workers and GPU
run on; failures come at any point with GPU work outstanding; memory must never
be freed under a reader, even when the device does not answer; locks are tried,
never waited for, and flags are read outside of them; processes die between two
durable writes and others outlive them. `PROJECT.json` lists each hazard at its
line, with the properties that would catch it.

## 2. The modules

An arrow reads "extends"; `StageExecutor` and `MemoryExecution` use the module
after "instance" through INSTANCE.

```
SlotSafety <- SlotSafetyClient <- MCSlotSafety, SlotSafetyProofs
StageExecutor <- MCStageExecutor, StageProofs         instance SlotSafety
IoExecutor <- IoProofs
MemoryPlan <- MemoryLedger <- MemoryExecution <- MCMemory, MemoryProofs
                                                      instance MemoryContract
MemoryPlan <- MemoryPlanProofs <- MemoryProofs
EngineApi <- EngineProofs
JobService <- JobProofs
ImageJobs <- ImageProofs
```

**SlotSafety** is the tracker. `slot` is `slots_`, `poisoned` is `poisoned_`.
Each method is an action with the conditions of its `check(...)` calls in a
predicate `Can...`; a call that fails one is `Refuse`, which sets the poison
flag and throws. `MaxGeneration` stands for 2^64 - 1 and `MaxReaders` for
`TC_STREAM_MAX_READER_QUEUES`. **SlotSafetyClient** lets an arbitrary caller make
any call with any ticket it was ever given and keeps a history of what was
issued, filled, sealed and reported; the properties are stated against it.

**IoExecutor** is the worker pool at the level of mutex and condition variable.
`condition_variable::wait(lock, pred)` is three steps: test, park (the
predicate was false, the mutex is still held), asleep. The stop flag is stored
without the mutex, as in the code. `submitted`, `delivered` and `dropped` are
history.

**StageExecutor** composes the tracker, a pool of workers without their mutex,
the mailbox, GPU queues and the owner. `pc` names the place of the owner:

| `pc` | code (`context.cpp`) |
|---|---|
| `begin` | `begin()` and `create_pool()` |
| `idle` | between calls |
| `segment` | head of the segment loop, `activate_pool()`, incoming carry |
| `check` | `boundary_complete()` and the wait at the end of the loop |
| `poll`, `consume`, `dispatch`, `carry`, `claim`, `overlap`, `encode`, `retire` | the loop body in its order |
| `drain`, `settle` | `drain_active_pool()` |
| `pass_end` | the end of `run_pass()` |
| `finish_join`, `finalize` | `finish()` |
| `stop`, `join`, `device`, `destroy` | `retry_drain()` |
| `finished`, `failed`, `dropped`, `quarantined`, `terminated` | how it ended |

A throw anywhere goes to `stop` with a `failure`, as the catch blocks do.
`backing` is what the memory of a slot really holds, `gpu` the outstanding
reads; the code has neither: they are the ground truth the properties compare
with. A *layout* is chosen in `Init` from the constant `Layouts`: its pools and
slots, its policies, how its adapter behaves, and which faults this instance
may meet. Slots have capacity 1 and a complete fill reports 1 byte, since only
equality with the expected count matters.

**MemoryPlan** holds what makes a manifest and a schedule valid and the peak a
plan is compiled with, as operators. **MemoryLedger** is the ledger of a request:
a *token* stands for one GPU buffer and is free, reserved, active or pending
(retired, completion awaited). **MemoryExecution** adds the owner thread of the
request, from `begin_running` to `finalize_memory_failure`, with epochs and
schedule events, and the H3 command queue on the GPU with its completion
handlers. `pc` is where the owner is; the module lists the places.
**MemoryContract** is what a request promises its process: charge before the
buffer exists, stay within the budget, keep charged what the GPU may touch, call
the engine reusable only when nothing is left. `MemoryExecution` is shown to
implement it under a refinement mapping (`ImplementsContract`).

**EngineApi** has several caller threads and several engines. The locks are
`lock`, `execution` and `lease`; a call that cannot take one ends as busy, as
with `try_to_lock`. `cancelled` is the atomic flag of each engine. The session
is kept to what the API sees: it ends, it polls the flag, and it may become
`suspect`, unable to prove that the GPU has left its memory. `told` remembers
that a call has returned with such a verdict.

**JobService** has the thread that runs jobs (`worker`), the main thread that
serves requests and shuts down (`main`), the child process, `state` (`jobs_` in
memory) and `disk` (the job files). A section under `mutex_` is one action; where
the code releases the mutex, the thread is at a place of its own (`picked`,
`judging`, ...). `Crash` and `Restart` may come anywhere.

**ImageJobs** has one flow, `generate()`, cut at each durable effect and each
suspension; `mem` and `disk` are the records and `jobs.json`, `worker`, `journal`,
`dir`, `staged` and `dest` what is really there outside of the application. The
application may crash between any two steps; workers live on. `kind` is the branch
of `generate()`: the image is made by the engine, by the public worker or by the
runtime worker, which waits for the runner before it is started and trims a cache
after it has ended. `cancel` is `cancelRequested`; `stop` is the cancellation of
the task that the runner looks at, which `cancel()` can reach only while there is
such a task (`Tasked`). `published`, `taken` and `unread` are history: whose image
was renamed to the destination, whose was taken away by the user, and whose could
not be read by the last recovery that looked at it.

## 3. The properties

Each is explained, with the lines it is about, where it is defined.

* Tracker: `NoReuseBeforeReaders`, `ReadersSeeFilledContent`,
  `TicketsAreUnique`, `PoisonIsFinal`.
* Workers: `ReportedExactlyOnce`, `CreditBeforeCompletion`, `QuietAfterJoin`;
  `JobsComplete`, `ShutdownReturns`.
* Stage: `ReadersSeeTheirGroup`, `MemoryOutlivesUsers`, `NoInternalError` (none
  of the code's own "diverged", "inactive pool" and "left active content" checks
  ever fires), `SafeReturn`; `Completes`, `FailureEnds`, `CancelEnds`.
* Memory: `WithinBudget`, `PlannedAllocationFits` (what the plan foresees is
  never refused), `ChargedWhileUsed`, `CompletionsAccounted`,
  `LossIsNeverSuccess`, `NoDanglingReference`, `ReusableMeansClean`,
  `ImplementsContract`; `CallEnds`.
* Engine API: `OneSessionOnGpu`, `UnprovenIsKept`, `CancelledForThisCall`,
  `NoWorkAfterQuarantine`; `CancelEndsWork`; `WorkerRefuses`, `NotReusedByLoad`.
* Job service: `RunningIsExecuted`, `FileIsCurrent`, `CancelledForAReason`,
  `FinishedIsFinal`, `QueueHoldsQueued`, `StartedOnce`; `CancelEnds`,
  `AcceptedEnds`, `ShutdownEnds`; `ShutdownCancels`.
* Image jobs: `SuccessMeansPublished`, `PublishedIsNotDenied`, `OneWorker`,
  `WorkIsFindable`, `StagingOutlivesWorker`, `NeverOverwrites`; `CancelEnds`,
  `CleanupEnds`.

Each module has a type invariant. The type invariants and `PoisonIsFinal`,
`NoDanglingReference`, `ReusableMeansClean`, `QueueHoldsQueued`, `StartedOnce` and
`NeverOverwrites` are proved (section 6) and not repeated in a run.

Operators marked "Wrong on purpose" are not used by the specifications. They
are plausible bugs; substituted for the operator they stand before, each makes
a property of a run fail (`mutants` in `PROJECT.json`), which shows that the
property can tell the bug from the code within the bounds of its run.

## 4. The runs

| Run | Instance | Shows |
|---|---|---|
| `slot_safety` | 1 slot of 2 bytes, 3 generations, 2 items, 2 queue ids plus the invalid 0 | the tracker under all sequences of calls, stale tickets included |
| `io` | 2 workers, 3 jobs, 2 credits, a mailbox of 2 | reporting and credits with overflow, failing fills and shutdown at any time; no wakeup is lost on enqueue |
| `io_shutdown` | the same | **violated**, section 8 |
| `stage_safety` | 5 layouts, 2 workers, 2 reader queues | safety, with failures, cancellation and quarantine at every point |
| `stage_progress` | 4 layouts, 1 worker | every run, every failure and every cancellation ends |
| `memory` | 3 plans, 3 buffers, a completion mailbox of 1, 1 command in flight | accounting, refinement of the contract, and that a call ends |
| `engine` | 2 threads, 2 engines, another process | exclusion, quarantine and cancellation |
| `engine_worker`, `engine_reuse` | 2 threads, 1 engine | **violated**, section 8 |
| `jobs` | 2 jobs, a queue of 2, 2 failing saves, any number of crashes | persistence, cancellation, shutdown and recovery |
| `jobs_shutdown` | 1 job | **violated**, section 8 |
| `images` | 2 jobs for one destination, each by the engine, a public or a runtime worker, 2 crashes, 1 failing write or check | publication, recovery, cancellation and worker processes |

Why the bounds suffice.

* Slots of a tracker share only the poison flag, so one slot shows every
  behaviour of the protocol; three generations give a current, a previous and
  an older ticket, and let the generation reach its limit.
* `IoExecutor`: two workers and two credits give every relation between busy,
  parked and waiting workers, and three jobs exceed both the ring and the small
  mailbox, so that it can overflow.
* `StageExecutor`: the layouts are one pool whose two slots are shared by three
  groups, with ten kinds of faults; three passes that carry the first group over
  (the number of groups is odd, so that slots swap in each pass, and a pass both
  receives and hands on a carry); two pools of two groups, one at a time or both
  retained; and a synchronous backend with prefetch distance 0, overlapped fills
  and readers that may be complete on return. Two reader queues make a partially
  completed reader set possible. More groups and passes repeat the same relations
  modulo the number of slots. Liveness does not depend on a second worker.
* `MemoryExecution`: the plans share storage by alias, by epochs only, or follow a
  schedule with a safe point, a drain between stages and a terminal drain. Two
  completions overflow a mailbox of one.
* `EngineApi`: every lock is contended by two threads, on the same and on
  different engines.
* `JobService`: one job runs while another waits; with one the queue is never
  passed over. `MaxRefused` bounds the saves that fail, not the crashes.
* `ImageJobs`: a second job is what a leftover worker or a published image of the
  first can be mistaken for. A second crash hits the recovery from the first. One
  failure of `persist()` or of the check of an image is enough to break what could
  break (with two, 1.3 million states, the run passes as well); failures of the
  runner, of the plan, of the engine and of a worker are not bounded.

`CHECK_DEADLOCK FALSE` is set where the system stops on purpose (after a join, a
finish, a failure or a verdict, or when every engine is gone); progress is a property of its own. Symmetry
is not used: most runs check liveness, where it is unsound.

## 5. Fairness

* `IoExecutor`: strong fairness on each worker, since a thread that competes for
  a mutex which is free again and again gets it eventually; weak fairness on the
  rest of the shutdown once begun. None on the caller's choice to enqueue, none
  on spurious wakeups.
* `StageExecutor`: the owner runs, the workers run, committed GPU work completes.
  A read may hang until the stop flag is set, as the contract of `FillJob`
  (`io_executor.hpp:30`) demands that it looks at the flag; only `Completes` has
  the hypothesis that reads end. The workers have no mutex there, so the lost
  wakeup of section 8 is outside of these results: they say that nothing else
  blocks.
* `MemoryExecution`: the owner brings a call to its end once the session returns
  or throws, and Metal ends every command. The H3 queue waits for the GPU with a
  time limit of 30 s whose expiry is not a step of the model.
* `EngineApi`: callers run, and a session looks at the cancel flag.
* `JobService`: the two threads run, the engine calls its progress callback, a
  generation whose flag is set and a child that gets a signal end.
  `AcceptedEnds` has the hypothesis that generations end at all.
* `ImageJobs`: the flow and the recovery run, a cancelled generation of the engine
  ends (each event repeats the cancellation, `JobStore.swift:1095`), a signalled or
  orphaned worker ends, and the user starts the application again and lets it look
  after pending cleanups. Nothing makes a worker end that was not told to:
  `CancelEnds` has the hypothesis that a worker does not run for ever after a
  cancellation that came before its task (section 7).

## 6. What is proved

All theorems hold for every value of the constants that satisfies the
assumption of the module. Each module of proofs has one inductive invariant
`IInv`, described at its head, one lemma per action or group of actions, and the
theorems at its end.

| Module | Theorems | Why the invariant is more than the properties |
|---|---|---|
| `SlotSafetyProofs` | `TypeCorrect`, `ReuseSafety`, `ContentSafety`, `TicketUniqueness`, `PoisonFinality` | a vacant slot says nothing about its readers unless the fences of a slot are exactly those sealed for its ticket and no ticket is ahead of its slot |
| `IoProofs` | `TypeCorrect`, `ExactlyOnce`, `CreditsInTime`, `JoinIsFinal` | a job is in one place only; credits are counted through the injection of busy workers into unreported jobs |
| `StageProofs` | `TypeCorrect`, `GroupsAreRead`, `MemoryIsKept`, `ReturnIsSafe`; `BookkeepingHolds`; `LoopNeverStarves` | who may write a slot and who may still read it, from the submission of a fill to its last reader; which groups the slots of the active pool hold; and that a drain leaves only vacant slots and the carried one, which is why a pool may then be freed or switched. For `BookkeepingHolds` (`NSafe`): what is in flight is counted, see below. For `LoopNeverStarves` (`UnderWay`): who works on each slot |
| `MemoryPlanProofs` | lemmas only | what sums over finite sets and the peak of a plan are, see below |
| `MemoryProofs` | `BudgetKept`, `ReferencesAreGood`, `UsedIsCharged`, `CompletionsAreAccounted`, `ReusableIsClean`, `LossQuarantines`; `PermittedAllocationsFit`, `ContractKept`, `CountersAreExact`, `ManifestIsKept` | commands end in order, so no completion overtakes a command that uses its buffer; a pending byte is announced once or lost, and the loss is known. For the second group (`LInv`): each counter is the sum over the buffers in its state, and the buffers charged at an epoch map one to one to the alias groups that live there |
| `EngineProofs` | `TypeCorrect`, `GpuExclusion`, `UnprovenMemoryKept`, `CancellationFits`, `QuarantineStops` | who holds which lock at which line; whoever tells of an unproven GPU still holds the execution mutex when the process is quarantined |
| `JobProofs` | `TypeCorrect`, `RunningJob`, `QueueIntact`, `FilesCurrent`, `CancelReasons`, `GeneratedOnce`, `Finality` | where the stop flag can be up, what waits in the queue, and that a file may be behind but never says "finished" too early |
| `ImageProofs` | `TypeCorrect`, `SuccessIsReal`, `PublishedStands`, `OnlyOneWorker`, `WorkersAreFindable`, `DestinationsAreSafe`, `StagingIsSafe` | what the durable records say about a live worker and about a published image at every step of the flow and of the recovery |

Sums. `MemoryPlan` adds up bytes with a fold of the community modules. What
such a fold yields cannot be proved by induction here, as the induction theorems
take an operator as a parameter. `MemoryPlanProofs` takes a smallest
counterexample instead: if the recursion equation of a sum had no solution on
some finite set, it would have none on a smallest one, and removing an element
contradicts that. From the equation follow the laws of sums, and from these that
the reservations, which are counted, never exceed the peak, which is summed
(`PermittedAllocationsFit`), and that the bytes of `MemoryContract`, which are
sums, follow the counters of the ledger (`ContractKept`). The assumption on a plan
is what its compilation ensures: finitely many instances with natural sizes,
ids and epochs and a peak of at least the largest epoch.

Counting. `NoInternalError` says that checks the executor makes of itself never
fail, and three of them are about room. A fill finds a credit because queued jobs
and busy workers map one to one into the slots of the active pool, all but the
vacant one that is about to be filled. A completion finds room in the mailbox
because records map one to one into slots x (fill + reader queues), all but the
pair that posts now: hence the assumption that the queues an adapter uses are at
most `MaxReaders` (`context.cpp` sizes the mailbox by that constant and
`slot_pool.cpp` refuses more readers). A generation
never has to exceed `MaxFills` (passes x groups, where the code stops at
2^64 - 1) because no slot was filled more often than groups were dispatched, and
a pass dispatches each group once. The rest of `NSafe` is what the other checks compare:
a reader's record closes an open fence of the content its slot still has, the
carried ticket is that of the first group of the next pass, and a segment is
drained only with all its slots vacant but the carried one.

Never starving. `Completes` holds in the run for the layouts of the run.
`LoopNeverStarves` proves what it rests on for every layout: wherever the loop of
a segment decides what to do next (`poll` to `claim`, and `check`), the segment is
complete, or the owner may fill, carry or claim a group at once, or a report, a busy worker, an
outstanding reader or a queued job with an idle worker is there. `UnderWay` says
why: a slot that is loading has its job queued, at a worker or reported, every
open fence has its reader outstanding or reported, and no worker has left. In a
state where none of that is to come all slots are vacant or ready, and then the
guards of the code suffice: the next group's slot is ready or vacant, and on a
carrying layout the carried group falls into the other slot than the last group
(`CarriedElsewhere`). What is left to fairness is that those others do act, and
that each turn of the loop brings the segment further.

Only model-checked: the liveness properties (`JobsComplete`, `Completes`,
`FailureEnds`, `CancelEnds`, `CallEnds`, `AcceptedEnds`, `ShutdownEnds`,
`CancelEndsWork`, `CleanupEnds`), as the prover does not treat fairness and
ENABLED.

## 7. Not modelled

The map covers a small share of the repository and cannot cover a large one:
most of its lines are numeric code (networks, kernels, weight formats), user
interface, clients, vendored utilities, tools and tests. The notes in
`PROJECT.json` give the reason for each component. Inside what is modelled:

* Stage executor: the receipt recorder, the resident prefix, a `select_pool` that
  throws. Layout compiler: only the mapping of groups to pools and slots.
* Threads that cannot be created, and calls from a thread that is not the owner.
* `ReadAheadWorker` (used by `gguf_packed_bank.cpp`) repeats the wait, notify and
  stop of the I/O executor line by line; `io` and `io_shutdown` answer for it.
* `PublicStreamingRunContext` is constructed by tests only.
* Memory: cached storages and stage leases, which no session uses; samples of
  process memory, checkpoints and swap, whose outcome is a failure that may
  happen; the LTX bridge, which follows the H3 protocol. With 4096 completion
  records the refusal of a full registry in `h3_gpu.m:1562` cannot be reached. The
  production registry of capabilities is empty in this commit, so constrained
  requests run in tests and calibration only.
* Engine API: JSON, the entry points without an engine, and the cache entry of
  `preparation_call`.
* Job service: the socket, requests that change no state, the inventory child,
  and an LTX worker that outlives a crash of the service.
* Image jobs: deleting, trashing and restoring records, upscaling and video jobs
  (the same protocol), process groups with descendants, a lost identity, the
  content of envelopes. Four effects are modelled as they are:
  - A job that was recorded as started and has no journal stays `cleanup_pending`
    for ever, on purpose, as nothing can prove its worker gone.
  - A crash may leave a staging directory behind.
  - `init` turns every error of `recover()` into "failed" (`JobStore.swift:211`),
    which is final. `recover()` also throws when the published image is there and
    cannot be examined, read or decoded (`ImageOutputTransaction.swift:256`, `:278`),
    as on a volume that is not mounted yet. `PublishedIsNotDenied` and
    `PublishedStands` except exactly these jobs (`unread`).
  - In the branch of the runtime worker a cancellation during the wait for the
    runner (`JobStore.swift:849`) comes after the last look at `cancelRequested`
    (`:843`) and before there is a task (`:863`): the worker is started all the same,
    no event repeats the cancellation, and it is heard when the worker has ended by
    itself (`:882`) or when the user cancels again.

## 8. Disagreements with the documentation

* `io_shutdown`: `shutdown_and_join()` (`io_executor.cpp:93`) stores the stop flag
  and notifies without the mutex. A worker that has found the predicate false
  and does not sleep yet misses both; the join waits for ever. The framework
  guide says the finish and failure paths must join the workers
  (`docs/design/streaming/22-current-framework-guide.md:562`).
* `jobs_shutdown`: `docs/public/LOCAL_API.md:32` says that SIGTERM cancels running
  work. The flag is set once; a generation that is about to begin resets it
  (`c_api.mm:1182`), and the progress events repeat the cancellation of a job
  only, not that the service is closing.
* `engine_worker`: the memory quarantine of an engine is read before its mutex is
  taken (`c_api.mm:1161`) and not again, so a request that was waiting runs on a
  quarantined engine.
* `engine_reuse`: the contract of the streaming framework says that a session in
  quarantine may only be destroyed; `tc_engine_load` uses one again after an
  unload, a failed load or a preparation left it in that state.

## 9. What could come next

1. The Neural Engine: the two weight banks and joins of `PublicW8Graph`, the
   handoff timeline of `Transfer` with its sticky failure flag, and the reaping of
   artifact leases by `flock` across processes.
2. `compile_layout` as operators against a reference definition, and the checker
   of actual receipts against the events of `StageExecutor`.
3. Deleting and restoring of records, and video jobs, in `ImageJobs`.
4. An abstract specification of a stage (each group of each pass is read once,
   whole and in order, or the stage fails) and its refinement.
