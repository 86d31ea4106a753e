------------------------------ MODULE JobService ------------------------------
(* The job service turbociderd (src/services/turbociderd/service.mm): a queue *)
(* of generation jobs whose states are saved to one file each, a worker       *)
(* thread that runs one job at a time, in the engine of the process or in a   *)
(* disposable child process, and a main thread that serves requests one after *)
(* another and shuts the service down.  The process may be killed at any time *)
(* and started again; any save may fail.                                      *)
(*                                                                            *)
(* A section under mutex_ is one action.  "worker" is where the thread is:    *)
(*   waiting     available_.wait                                              *)
(*   picked      the mutex is released, the job not yet begun                 *)
(*   generating  inside tc_engine_generate                                    *)
(*   spawned, polling, reading, reaped      inside run_ltx_worker             *)
(*   judging     the result is known, the mutex not yet taken                 *)
(*   ended       the thread has left run()                                    *)
EXTENDS Integers, Sequences, SequencesExt

CONSTANTS
    Job,         \* the jobs that may ever be submitted
    NoJob,
    MaxPending,  \* length of the queue
    MaxRefused   \* saves that fail (bound of the model)

ASSUME JobAssumption ==
    /\ NoJob \notin Job
    /\ MaxPending \in Nat \ {0}
    /\ MaxRefused \in Nat

VARIABLES
    disk,          \* job -> the state in its file
    state,         \* job -> the state in jobs_
    external,      \* jobs with Job::external_worker
    cancellation,  \* jobs with Job::cancellation
    pending,       \* pending_
    active,        \* active_
    worker,        \* where the worker thread is
    status,        \* result of the job: 0 success, 1 failure, 2 cancelled
    engine,        \* engine_ is not null
    stop_flag,     \* tc_engine::cancelled
    child,         \* the child process: "none", "running", "exited", "reaped"
    child_known,   \* active_child_ > 0
    signalled,     \* the child was sent SIGTERM
    main           \* the main thread: "down", "serving" or "joining"

\* History, for the properties only.
VARIABLES
    started,       \* job -> how often a generation of it began
    unsaved,       \* jobs whose last save failed
    refused,       \* number of saves that failed
    excused        \* jobs with a reason to be cancelled

records == <<disk, state, unsaved, refused>>
queue == <<external, cancellation, pending, active>>
engineVars == <<engine, stop_flag>>
childVars == <<child, child_known, signalled>>
vars == <<records, queue, worker, status, engineVars, childVars, main, started,
          excused>>

Unfinished == {"queued", "running", "cancelling"}
Finished == {"succeeded", "failed", "cancelled", "interrupted"}

NoRecords == [j \in Job |-> "absent"]

Init ==
    /\ disk = NoRecords /\ state = NoRecords /\ unsaved = {} /\ refused = 0
    /\ external = {} /\ cancellation = {} /\ pending = <<>> /\ active = NoJob
    /\ worker = "ended" /\ status = 0
    /\ engine = FALSE /\ stop_flag = FALSE
    /\ child = "none" /\ child_known = FALSE /\ signalled = FALSE
    /\ main = "down"
    /\ started = [j \in Job |-> 0] /\ excused = {}

\* Wrong on purpose: the file is written before the state is changed.
WrittenEarly(j) == state[j]

Written(j) == state'[j]

\* Service::persist writes the new state of j, or throws.
Save(j, saved) ==
    /\ disk' = IF saved THEN [disk EXCEPT ![j] = Written(j)] ELSE disk
    /\ unsaved' = IF saved THEN unsaved \ {j} ELSE unsaved \union {j}
    /\ refused' = IF saved THEN refused ELSE refused + 1
    /\ refused' <= MaxRefused

\* closing_ is set by the destructor only.
closing == main = "joining"
CancelAsked == active \in cancellation

-------------------------------------------------------------------------------
(* The process.                                                               *)

\* All that lives in memory is gone.
Vanish ==
    /\ state' = NoRecords
    /\ external' = {} /\ cancellation' = {} /\ pending' = <<>> /\ active' = NoJob
    /\ worker' = "ended" /\ status' = 0
    /\ engine' = FALSE /\ stop_flag' = FALSE
    /\ child' = "none" /\ child_known' = FALSE /\ signalled' = FALSE
    /\ main' = "down"
    /\ UNCHANGED <<disk, unsaved, refused, started, excused>>

Crash == main # "down" /\ Vanish

\* The end of ~Service: the worker thread is joined, the engine freed.
Exit == main = "joining" /\ worker = "ended" /\ Vanish

\* Wrong on purpose: only jobs that were being run are interrupted.
RecoveredRunning(s) == IF s \in Unfinished \ {"queued"} THEN "interrupted" ELSE s

Recovered(s) == IF s \in Unfinished THEN "interrupted" ELSE s

\* Service::Service reads the files; what was unfinished is interrupted.
Start ==
    /\ main = "down"
    /\ disk' = [j \in Job |-> Recovered(disk[j])]
    /\ state' = disk'
    /\ unsaved' = {}
    /\ main' = "serving" /\ worker' = "waiting"
    /\ UNCHANGED <<refused, queue, status, engineVars, childVars, started,
                   excused>>

\* One of the files cannot be written: the constructor throws half-way.
StartFails ==
    /\ main = "down"
    /\ \E j \in Job :
           /\ disk[j] \in Unfinished
           /\ disk' = [disk EXCEPT ![j] = Recovered(disk[j])]
    /\ UNCHANGED <<state, unsaved, refused, queue, worker, status, engineVars, childVars,
                   main, started, excused>>

-------------------------------------------------------------------------------
(* Requests, served by the main thread.                                       *)

\* rpc "submit": the plan decides on the route; a submission that cannot be
\* saved leaves nothing behind.
Submit(j) ==
    /\ main = "serving" /\ state[j] = "absent" /\ disk[j] = "absent"
    /\ Len(pending) < MaxPending
    /\ state' = [state EXCEPT ![j] = "queued"]
    /\ Save(j, TRUE)
    /\ pending' = Append(pending, j)
    /\ external' \in {external, external \union {j}}
    /\ UNCHANGED <<cancellation, active, worker, status, engineVars, childVars,
                   main, started, excused>>

\* kill(active_child_, SIGTERM), or tc_engine_cancel(engine_).
SignalChild == signalled' = (signalled \/ child = "running") /\ UNCHANGED stop_flag
SignalEngine == stop_flag' = (stop_flag \/ engine) /\ UNCHANGED signalled

\* Wrong on purpose: a job in the queue is said to be under cancellation, too.
CancelledAlways(j) == "cancelling"

CancelledState(j) == IF active = j THEN "cancelling" ELSE "cancelled"

\* std::erase; an identifier is in the queue at most once (QueueHoldsQueued).
QueueWithout(j) ==
    LET place == CHOOSE n \in DOMAIN pending : pending[n] = j
    IN  IF j \in ToSet(pending) THEN RemoveAt(pending, place) ELSE pending

\* rpc "cancel"; when the save throws, a queued job stays in the queue.
Cancel(j) ==
    /\ main = "serving" /\ state[j] \in Unfinished
    /\ cancellation' = cancellation \union {j}
    /\ state' = [state EXCEPT ![j] = CancelledState(j)]
    /\ IF active # j THEN UNCHANGED <<stop_flag, signalled>>
       ELSE IF child_known THEN SignalChild ELSE SignalEngine
    /\ \E saved \in BOOLEAN :
           /\ Save(j, saved)
           /\ pending' = IF saved /\ active # j THEN QueueWithout(j) ELSE pending
    /\ excused' = excused \union {j}
    /\ UNCHANGED <<external, active, worker, status, engine, child, child_known,
                   main, started>>

Interrupts == {j \in ToSet(pending) : state[j] = "queued"}

\* The main loop ends and ~Service begins; a save that fails is ignored.
Shutdown ==
    /\ main = "serving" /\ main' = "joining"
    /\ stop_flag' = (stop_flag \/ engine)
    /\ signalled' = (signalled \/ (child_known /\ child = "running"))
    /\ state' = [j \in Job |-> IF j \in Interrupts THEN "interrupted" ELSE state[j]]
    /\ \E failed \in SUBSET Interrupts :
           /\ disk' = [j \in Job |->
                  IF j \in Interrupts \ failed THEN "interrupted" ELSE disk[j]]
           /\ unsaved' = (unsaved \ Interrupts) \union failed
           /\ refused' = refused + Cardinality(failed) /\ refused' <= MaxRefused
    /\ excused' = excused \union ({active} \intersect Job)
    /\ UNCHANGED <<queue, worker, status, engine, child, child_known, started>>

-------------------------------------------------------------------------------
(* The worker thread.                                                         *)

WorkerAt(here, there) == worker = here /\ worker' = there

\* Wrong on purpose: the queue is emptied first.
MayQuitWhenEmpty == closing /\ pending = <<>>

MayQuit == closing

Quit ==
    /\ WorkerAt("waiting", "ended") /\ MayQuit
    /\ UNCHANGED <<records, queue, status, engineVars, childVars, main, started, excused>>

\* Wrong on purpose: Job::cancellation is not looked at.
SkipsNothing(j) == j = NoJob

SkipsCancelled(j) == j \in cancellation

\* The head of the queue was cancelled, but that could not be saved.
Skip ==
    /\ WorkerAt("waiting", "waiting") /\ ~closing
    /\ pending # <<>> /\ SkipsCancelled(Head(pending))
    /\ pending' = Tail(pending) /\ active' = NoJob
    /\ UNCHANGED <<records, external, cancellation, status, engineVars, childVars, main,
                   started, excused>>

\* The state "running" cannot be saved: the job fails and active_ keeps it.
PickUnsaved ==
    /\ WorkerAt("waiting", "waiting") /\ ~closing
    /\ pending # <<>> /\ ~SkipsCancelled(Head(pending))
    /\ active' = Head(pending) /\ pending' = Tail(pending)
    /\ state' = [state EXCEPT ![active'] = "failed"]
    /\ Save(active', FALSE)
    /\ UNCHANGED <<external, cancellation, status, engineVars, childVars, main, started, excused>>

\* A session of the same model is used again, or one is created, in vain perhaps.
Prepare ==
    \/ /\ active' \in external
       /\ engine' = FALSE /\ stop_flag' = FALSE /\ worker' = "picked" /\ status' = 0
    \/ /\ active' \notin external
       /\ \/ /\ engine /\ UNCHANGED engineVars /\ worker' = "picked" /\ status' = 0
          \/ /\ engine' = TRUE /\ stop_flag' = FALSE /\ worker' = "picked" /\ status' = 0
          \/ /\ engine' = FALSE /\ stop_flag' = FALSE /\ worker' = "judging" /\ status' = 1

Pick ==
    /\ worker = "waiting" /\ ~closing
    /\ pending # <<>> /\ ~SkipsCancelled(Head(pending))
    /\ active' = Head(pending) /\ pending' = Tail(pending)
    /\ state' = [state EXCEPT ![active'] = "running"]
    /\ Save(active', TRUE)
    /\ Prepare
    /\ UNCHANGED <<external, cancellation, childVars, main, started, excused>>

Begin == started' = [started EXCEPT ![active] = @ + 1]

\* Wrong on purpose: a stop meant for an earlier job is still there.
KeepFlag == stop_flag

ResetFlag == FALSE

\* tc_engine_generate clears the flag of earlier cancellations.
Generate ==
    /\ WorkerAt("picked", "generating") /\ active \notin external
    /\ stop_flag' = ResetFlag
    /\ Begin
    /\ UNCHANGED <<records, queue, status, engine, childVars, main, excused>>

\* Wrong on purpose: a progress event does not look for a cancellation.
EventIgnores == FALSE

EventCancels == CancelAsked

\* Service::event: cancels again, and saves the progress from time to time.
ProgressEvent ==
    /\ worker = "generating"
    /\ stop_flag' = (stop_flag \/ EventCancels)
    /\ UNCHANGED state
    /\ Save(active, TRUE) \/ UNCHANGED <<disk, unsaved, refused>>
    /\ UNCHANGED <<queue, worker, status, engine, childVars, main, started, excused>>

\* An event whose save throws stops the engine.
EventUnsaved ==
    /\ worker = "generating"
    /\ stop_flag' = TRUE /\ excused' = excused \union {active}
    /\ UNCHANGED state /\ Save(active, FALSE)
    /\ UNCHANGED <<queue, worker, status, engine, childVars, main, started>>

\* The generation ends by itself, well or not, ...
GenerateEnds ==
    /\ WorkerAt("generating", "judging")
    /\ status' \in {0, 1}
    /\ UNCHANGED <<records, queue, engineVars, childVars, main, started, excused>>

\* ... or at a safe boundary because of the flag, ...
GenerateStops ==
    /\ WorkerAt("generating", "judging") /\ stop_flag
    /\ status' = 2
    /\ UNCHANGED <<records, queue, engineVars, childVars, main, started, excused>>

\* ... or is refused, as is a child that cannot be spawned.
BeginFails ==
    /\ WorkerAt("picked", "judging")
    /\ status' = 1
    /\ UNCHANGED <<records, queue, engineVars, childVars, main, started, excused>>

\* run_ltx_worker.
Spawn ==
    /\ WorkerAt("picked", "spawned") /\ active \in external
    /\ child' = "running" /\ Begin
    /\ UNCHANGED <<records, queue, status, engineVars, child_known, signalled, main, excused>>

PublishChild ==
    /\ WorkerAt("spawned", "polling")
    /\ child_known' = TRUE
    /\ UNCHANGED <<records, queue, status, engineVars, child, signalled, main, started, excused>>

PollCancels == closing \/ CancelAsked

PollChild ==
    /\ WorkerAt("polling", "polling")
    /\ PollCancels /\ ~signalled /\ child = "running"
    /\ signalled' = TRUE
    /\ UNCHANGED <<records, queue, status, engineVars, child, child_known, main,
                   started, excused>>

\* The child exits by itself, or because of a signal: SIGKILL follows SIGTERM.
ChildExits ==
    /\ child = "running" /\ child' = "exited"
    /\ status' \in {0, 1}
    /\ UNCHANGED <<records, queue, worker, engineVars, child_known, signalled,
                   main, started, excused>>

ChildIsKilled == signalled /\ ChildExits

\* waitpid; active_child_ is cleared only when the output has been read.
Reap ==
    /\ WorkerAt("polling", "reading")
    /\ child = "exited" /\ child' = "reaped"
    /\ UNCHANGED <<records, queue, status, engineVars, child_known, signalled,
                   main, started, excused>>

ForgetChild ==
    /\ WorkerAt("reading", "reaped")
    /\ child' = "none" /\ child_known' = FALSE /\ signalled' = FALSE
    /\ UNCHANGED <<records, queue, status, engineVars, main, started, excused>>

ChildVerdict ==
    /\ WorkerAt("reaped", "judging")
    /\ status' = IF closing \/ CancelAsked THEN 2 ELSE status
    /\ UNCHANGED <<records, queue, engineVars, childVars, main, started, excused>>

Outcome(s) == CASE s = 0 -> {"succeeded", "failed"}  \* failed: invalid JSON
                [] s = 1 -> {"failed"}
                [] s = 2 -> {"cancelled"}

Judge ==
    /\ WorkerAt("judging", "waiting")
    /\ \E result \in Outcome(status) : state' = [state EXCEPT ![active] = result]
    /\ \E saved \in BOOLEAN : Save(active, saved)
    /\ active' = NoJob
    /\ UNCHANGED <<external, cancellation, pending, status, engineVars, childVars, main,
                   started, excused>>

-------------------------------------------------------------------------------

\* Steps of the worker thread that wait for nothing.
Prompt ==
    \/ Quit \/ Skip \/ PickUnsaved \/ Pick \/ Generate \/ BeginFails
    \/ Spawn \/ PublishChild \/ PollChild \/ Reap \/ ForgetChild \/ ChildVerdict
    \/ Judge

Worker == Prompt \/ ProgressEvent \/ EventUnsaved \/ GenerateEnds \/ GenerateStops

Main ==
    \/ Start \/ StartFails
    \/ \E j \in Job : Submit(j) \/ Cancel(j)
    \/ Shutdown \/ Exit

Next == Main \/ Worker \/ ChildExits \/ Crash

Spec == Init /\ [][Next]_vars

\* The thread runs and events come; the flag and the signals are obeyed; the
\* destructor goes on.  Nothing says that a generation ends by itself.
FairSpec ==
    /\ Spec
    /\ WF_vars(Prompt) /\ WF_vars(ProgressEvent)
    /\ WF_vars(GenerateStops) /\ WF_vars(ChildIsKilled)
    /\ WF_vars(Exit)

GenerationsEnd == WF_vars(GenerateEnds) /\ WF_vars(ChildExits)

-------------------------------------------------------------------------------
(* Properties.                                                                *)

Recorded == {"absent"} \union Unfinished \union Finished
Executing == {"picked", "generating", "spawned", "polling", "reading", "reaped", "judging"}

\* The shape of the state; the queue stays within its limit.
TypeOK ==
    /\ disk \in [Job -> Recorded] /\ state \in [Job -> Recorded]
    /\ unsaved \subseteq Job /\ cancellation \subseteq Job /\ external \subseteq Job /\ excused \subseteq Job
    /\ pending \in Seq(Job) /\ Len(pending) <= MaxPending
    /\ active \in Job \union {NoJob}
    /\ worker \in {"waiting", "ended"} \union Executing
    /\ status \in 0 .. 2
    /\ child \in {"none", "running", "exited", "reaped"}
    /\ child_known => child # "none"
    /\ {engine, stop_flag, child_known, signalled} \subseteq BOOLEAN
    /\ main \in {"down", "serving", "joining"}
    /\ started \in [Job -> Nat] /\ refused \in 0 .. MaxRefused

\* One job runs at a time, and the state that a client sees says which one:
\* what is "running" or "cancelling" is what the worker thread executes
\* (service.mm:411-414, 453-470, 567).
RunningIsExecuted ==
    \A j \in Job : state[j] \in {"running", "cancelling"} <=>
        worker \in Executing /\ j = active

\* Every queued job waits in the queue once, and nothing else waits there
\* except cancelled jobs that could not be saved (service.mm:553, 567-568).
QueueHoldsQueued ==
    /\ \A j \in Job : state[j] = "queued" => j \in ToSet(pending)
    /\ \A m, n \in DOMAIN pending : m # n => pending[m] # pending[n]
    /\ \A j \in ToSet(pending) : state[j] \in Unfinished => state[j] = "queued"

\* No job is generated twice, however often the service is restarted.
StartedOnce == \A j \in Job : started[j] <= 1

\* While the service is up the file of a job agrees with what a client is
\* told, unless the last save was refused (service.mm:235-240).
FileIsCurrent ==
    main # "down" => \A j \in Job \ unsaved : disk[j] = state[j]

\* A job ends as cancelled only because somebody asked for it, the service was
\* shut down, or its progress could not be saved: a stop that came too late for
\* one job does not hit the next (service.mm:241-249, c_api.mm:1182).
CancelledForAReason ==
    \A j \in Job : "cancelled" \in {disk[j], state[j]} => j \in excused

\* A finished job stays what it is and is never begun, in memory and on disk,
\* across crashes and restarts.
FinishedIsFinal ==
    [][\A j \in Job :
           /\ disk[j] \in Finished => disk'[j] = disk[j]
           /\ state[j] \in Finished => state'[j] \in {state[j], "absent"}
           /\ {disk[j], state[j]} \intersect Finished # {} => started'[j] = started[j]]_vars

\* A cancelled job ends even if its generation would not end by itself: a
\* cancellation that comes before the engine has begun is repeated by the
\* events and by the polling loop (service.mm:245, 346-361).
CancelEnds ==
    \A j \in Job : state[j] = "cancelling" ~> state[j] # "cancelling"

\* If generations end, every job that was accepted ends.
AcceptedEnds ==
    GenerationsEnd => \A j \in Job : state[j] = "queued" ~> state[j] \notin Unfinished

\* If generations end, so does a shutdown.
ShutdownEnds == GenerationsEnd => (main = "joining" ~> main = "down")

\* docs/public/LOCAL_API.md:32: SIGTERM cancels running work.
ShutdownCancels ==
    main = "joining" /\ worker = "generating" ~> stop_flag \/ worker # "generating"
===============================================================================
