---------------------------- MODULE MemoryExecution ----------------------------
(* One memory-constrained request from begin_running to the verdict on its    *)
(* engine: tc_engine_generate and finalize_memory_failure                     *)
(* (src/native/api/c_api.mm), MemoryExecutionContext                          *)
(* (runtime/memory_execution.cpp), the completion registry and mailbox of     *)
(* MemoryStageScheduler (runtime/memory_scheduler.cpp), the memory bridge of  *)
(* the H3 session (platform/apple/h3_session.mm) and its Metal queue          *)
(* (models/h3_runtime/h3_gpu.m), on top of the ledger.                        *)
(*                                                                            *)
(* Two processes run: the owner thread of the request, which alone touches    *)
(* the ledger, and the GPU with its completion handlers, which alone posts    *)
(* completions.  "pc" is where the owner is:                                  *)
(*   generate    the session works and may reserve, encode, free, fail ...    *)
(*   submit      h3_gpu_submit waits for the commands in flight               *)
(*   safe_point  a schedule event drains the mailbox before its epoch         *)
(*   cleanup     the session is about to return or to throw: it closes its    *)
(*               queues, then                                                 *)
(*   destroy     it frees what it does not keep for another request           *)
(*   drain       drain_memory_completions of the session                      *)
(*   unload      the session frees what it kept                               *)
(*   finish      the request is judged as a success                           *)
(*   finalize    the request is judged as a failure                           *)
(*   done        tc_engine_generate has returned                              *)
EXTENDS MemoryLedger

CONSTANTS
    RegistryCapacity,  \* kMaximumCompletionRecords
    MailboxCapacity,   \* kCompletionMailboxCapacity
    MaxCommands        \* commands in flight at the same time (bound of the model)

VARIABLES
    expected,         \* completions_: tokens whose completion is awaited
    mailbox,          \* completion_mailbox_: sequence of [token, ok]
    overflow,         \* completion_mailbox_overflow_
    epoch,            \* current_epoch_
    cursor,           \* schedule_cursor_
    state,            \* MemoryExecutionContext::state_
    encoding,         \* gpu.command is open
    inflight,         \* gpu.inflightCommands: sequence of [uses, frees, status]
    callback_failed,  \* H3MemoryBridge::completion_failure
    held,             \* buffers the model's own structures refer to
    pc,               \* where the owner thread is
    failing,          \* the request is on its failure path
    drain_ok,         \* the drain in progress met no failed completion
    quarantined       \* engine->memory_quarantined

execVars == <<expected, mailbox, overflow, epoch, cursor, state, encoding,
              inflight, callback_failed, held, pc, failing, drain_ok, quarantined>>
vars == <<plan, alloc, reserved_bytes, storage_bytes, execVars>>

Init ==
    /\ LedgerInit
    /\ expected = {} /\ mailbox = <<>> /\ overflow = FALSE
    /\ epoch = 0 /\ cursor = 0 /\ state = "running"
    /\ encoding = FALSE /\ inflight = <<>>
    /\ callback_failed = FALSE /\ held = {}
    /\ pc = "generate" /\ failing = FALSE /\ drain_ok = TRUE
    /\ quarantined = FALSE

Sites == {i.site : i \in UNION {p.instances : p \in Plans}}
Requests == UNION {1 .. i.upper : i \in plan.instances}

ExplicitEpoch == plan.explicit
Scheduled == plan.schedule # <<>>

-------------------------------------------------------------------------------
(* The GPU.  Commands end in the order they were committed; the completed     *)
(* handler of a command then posts the buffers it frees, one after another.   *)

Ended(c) == c.status # "running" /\ c.frees = {}

GpuIdle == \A n \in DOMAIN inflight : Ended(inflight[n])
InUse == UNION {inflight[n].uses :
                    n \in {m \in DOMAIN inflight : inflight[m].status = "running"}}

\* The command may read every buffer that exists when it is committed.
Command(frees) == [uses |-> Tokens("active"), frees |-> frees, status |-> "running"]

EndCommand ==
    \E n \in DOMAIN inflight, result \in {"completed", "error"} :
        /\ inflight[n].status = "running"
        /\ \A m \in 1 .. n - 1 : inflight[m].status # "running"
        /\ inflight' = [inflight EXCEPT ![n].status = result]
        /\ UNCHANGED <<ledgerVars, expected, mailbox, overflow, epoch, cursor,
                       state, encoding, callback_failed, held, pc, failing,
                       drain_ok, quarantined>>

Message(t, ok) == [token |-> t, ok |-> ok]
Queued == {mailbox[n].token : n \in DOMAIN mailbox}

MailboxHasRoom == Len(mailbox) < MailboxCapacity

\* MemoryStageScheduler::post_completion and h3_memory_complete, which latches
\* a refusal.
PostCompletion(t, ok) ==
    IF t \in expected \ Queued /\ MailboxHasRoom
    THEN /\ mailbox' = Append(mailbox, Message(t, ok))
         /\ UNCHANGED <<overflow, callback_failed>>
    ELSE /\ overflow' = (overflow \/ t \in expected \ Queued)
         /\ callback_failed' = TRUE
         /\ UNCHANGED mailbox

\* Wrong on purpose: buffers are given back when their command is scheduled.
HandlerRunsEarly(n) == n \in DOMAIN inflight

HandlerRuns(n) == inflight[n].status # "running"

CompletedHandler ==
    \E n \in DOMAIN inflight : \E t \in inflight[n].frees :
        /\ HandlerRuns(n)
        /\ PostCompletion(t, inflight[n].status = "completed")
        /\ inflight' = [inflight EXCEPT ![n].frees = @ \ {t}]
        /\ UNCHANGED <<ledgerVars, expected, epoch, cursor, state, encoding,
                       held, pc, failing, drain_ok, quarantined>>

Gpu == EndCommand \/ CompletedHandler

-------------------------------------------------------------------------------
(* The session at work (pc = "generate").                                     *)

OwnerAt(here, there) == pc = here /\ pc' = there

\* MemoryExecutionContext::try_reserve_site: without an explicit schedule a
\* reservation moves the epoch to the next one the site lives in.
EpochFor(site, n) ==
    LET fitting == {i \in InstancesOf(site) : n <= i.upper}
        later == {i.begin : i \in {j \in fitting : epoch < j.begin}}
    IN  IF (\E i \in fitting : i.begin <= epoch /\ epoch < i.end) \/ later = {}
        THEN epoch ELSE Min(later)

CanEnter(e) == e >= epoch /\ e \in Epochs(plan.instances) /\ ValidEpoch(e)

ReserveSite(t, site, n) ==
    LET e == EpochFor(site, n)
    IN  /\ OwnerAt("generate", "generate")
        /\ e # epoch => ~ExplicitEpoch /\ CanEnter(e)
        /\ Reserve(t, site, n, e)
        /\ epoch' = e
        /\ UNCHANGED <<expected, mailbox, overflow, cursor, state, encoding,
                       inflight, callback_failed, held, failing, drain_ok, quarantined>>

\* h3_gpu_commit_memory: the buffer exists and the model refers to it.
CommitBuffer(t, actual) ==
    /\ OwnerAt("generate", "generate")
    /\ Commit(t, actual)
    /\ held' = held \union {t}
    /\ UNCHANGED <<expected, mailbox, overflow, epoch, cursor, state, encoding,
                   inflight, callback_failed, failing, drain_ok, quarantined>>

\* A reservation that is not used, or that the exit of the session gives back.
CancelBuffer(t) ==
    /\ pc \in {"generate", "destroy"}
    /\ CancelReservation(t)
    /\ UNCHANGED execVars

\* h3_gpu_tensor_free.  The runtime frees a buffer this way only after a
\* submit or a drain, when no command that uses it is encoded or in flight.
FreeBuffer(t) ==
    /\ pc \in {"generate", "destroy"}
    /\ t \in held /\ ~encoding /\ inflight = <<>>
    /\ Release(t)
    /\ held' = held \ {t}
    /\ UNCHANGED <<expected, mailbox, overflow, epoch, cursor, state, encoding,
                   inflight, callback_failed, pc, failing, drain_ok, quarantined>>

\* h3_gpu_begin.
BeginCommand ==
    /\ OwnerAt("generate", "generate")
    /\ ~encoding /\ inflight = <<>>
    /\ encoding' = TRUE
    /\ UNCHANGED <<ledgerVars, expected, mailbox, overflow, epoch, cursor,
                   state, inflight, callback_failed, held, failing, drain_ok, quarantined>>

\* h3_gpu_continue: commits the open command and opens the next.
ContinueCommand ==
    /\ OwnerAt("generate", "generate")
    /\ encoding /\ Len(inflight) < MaxCommands
    /\ inflight' = Append(inflight, Command({}))
    /\ UNCHANGED <<ledgerVars, expected, mailbox, overflow, epoch, cursor,
                   state, encoding, callback_failed, held, failing, drain_ok, quarantined>>

Forget(S) == held \ S

\* h3_gpu_continue_releasing, evict_final_block_group: the buffers of S are
\* retired, registered and freed by the handler of the command; the model
\* forgets them.
ContinueReleasing(S) ==
    /\ OwnerAt("generate", "generate")
    /\ encoding /\ Len(inflight) < MaxCommands
    /\ S \subseteq held
    /\ Cardinality(expected) + Cardinality(S) <= RegistryCapacity
    /\ Retire(S)
    /\ expected' = expected \union S
    /\ inflight' = Append(inflight, Command(S))
    /\ held' = Forget(S)
    /\ UNCHANGED <<mailbox, overflow, epoch, cursor, state, encoding,
                   callback_failed, failing, drain_ok, quarantined>>

\* h3_gpu_submit commits the open command and waits for the queue.
Submit ==
    /\ OwnerAt("generate", "submit")
    /\ encoding
    /\ inflight' = Append(inflight, Command({}))
    /\ encoding' = FALSE
    /\ UNCHANGED <<ledgerVars, expected, mailbox, overflow, epoch, cursor,
                   state, callback_failed, held, failing, drain_ok, quarantined>>

CommandFailed == \E n \in DOMAIN inflight : inflight[n].status = "error"

\* h3_gpu_drain: the commands and their handlers are over; an error of any of
\* them fails the request.
SubmitReturns ==
    /\ OwnerAt("submit", IF CommandFailed THEN "cleanup" ELSE "generate")
    /\ GpuIdle
    /\ inflight' = <<>>
    /\ failing' = CommandFailed
    /\ UNCHANGED <<ledgerVars, expected, mailbox, overflow, epoch, cursor,
                   state, encoding, callback_failed, held, drain_ok, quarantined>>

\* MemoryExecutionContext::enter_epoch, called by the session.
EnterEpoch(e) ==
    /\ OwnerAt("generate", "generate")
    /\ ExplicitEpoch /\ ~Scheduled /\ CanEnter(e)
    /\ epoch' = e
    /\ UNCHANGED <<ledgerVars, expected, mailbox, overflow, cursor, state, encoding,
                   inflight, callback_failed, held, failing, drain_ok, quarantined>>

\* The session returns, or throws: a cancellation, a refused reservation, a
\* memory pressure checkpoint, an event that is out of order, a failed kernel.
GenerateEnds ==
    /\ OwnerAt("generate", "cleanup")
    /\ failing' \in BOOLEAN
    /\ encoding' = FALSE
    /\ UNCHANGED <<ledgerVars, expected, mailbox, overflow, epoch, cursor, state,
                   inflight, callback_failed, held, drain_ok, quarantined>>

-------------------------------------------------------------------------------
(* drain_completion_mailbox, one message at a time, and the schedule.         *)

\* Wrong on purpose: the record of a completion outlives it.
AnsweredKept(t) == expected

Answered(t) == expected \ {t}

DrainMessage ==
    /\ pc \in {"safe_point", "drain"} /\ mailbox # <<>>
    /\ pc = "drain" => inflight = <<>>
    /\ LET m == Head(mailbox)
       IN  /\ CompletePending(m.token)
           /\ expected' = Answered(m.token)
           /\ drain_ok' = (drain_ok /\ m.ok)
    /\ mailbox' = Tail(mailbox)
    /\ UNCHANGED <<overflow, epoch, cursor, state, encoding, inflight,
                   callback_failed, held, pc, failing, quarantined>>

Drained == mailbox = <<>> /\ drain_ok /\ ~overflow
Settled == Tokens("pending") = {} /\ expected = {} /\ mailbox = <<>> /\ ~overflow

\* emit_schedule_event, up to the drain of a safe point.
EmitEvent ==
    /\ OwnerAt("generate", "safe_point")
    /\ Scheduled /\ cursor < Len(plan.schedule)
    /\ ~plan.schedule[cursor + 1].terminal
    /\ drain_ok' = TRUE
    /\ UNCHANGED <<ledgerVars, expected, mailbox, overflow, epoch, cursor, state,
                   encoding, inflight, callback_failed, held, failing, quarantined>>

\* The rest of it: the promise of a drained GPU is checked, then the epoch.
EventAccepted(b) ==
    /\ b.safe => Drained
    /\ b.drained => Settled
    /\ CanEnter(b.epoch)

FinishEvent ==
    LET b == plan.schedule[cursor + 1]
    IN  /\ pc = "safe_point" /\ (b.safe => mailbox = <<>>)
        /\ IF EventAccepted(b)
           THEN epoch' = b.epoch /\ cursor' = cursor + 1 /\ pc' = "generate"
                /\ UNCHANGED <<failing, encoding>>
           ELSE pc' = "cleanup" /\ failing' = TRUE /\ encoding' = FALSE
                /\ UNCHANGED <<epoch, cursor>>
        /\ UNCHANGED <<ledgerVars, expected, mailbox, overflow, state, inflight,
                       callback_failed, held, drain_ok, quarantined>>

-------------------------------------------------------------------------------
(* The end of the request.                                                    *)

\* The cleanup of h3_generate drains every queue while the hooks are alive; a
\* command that is still open is dropped.
CloseQueues ==
    /\ OwnerAt("cleanup", "destroy")
    /\ GpuIdle
    /\ inflight' = <<>>
    /\ failing' = (failing \/ CommandFailed)
    /\ UNCHANGED <<ledgerVars, expected, mailbox, overflow, epoch, cursor, state,
                   encoding, callback_failed, held, drain_ok, quarantined>>

\* A request that succeeded so far goes on to drain_memory_execution.
SessionReturns ==
    /\ OwnerAt("destroy", IF failing THEN "finalize" ELSE "drain")
    /\ Tokens("reserved") = {}
    /\ state' = IF failing \/ Scheduled THEN state ELSE "draining"
    /\ drain_ok' = TRUE
    /\ UNCHANGED <<ledgerVars, expected, mailbox, overflow, epoch, cursor, encoding,
                   inflight, callback_failed, held, failing, quarantined>>

DrainCompleted == Drained /\ ~callback_failed /\ Tokens("pending") = {}

\* Wrong on purpose: the verdict does not reach the engine.
GiveUpQuietly == state' = "quarantined" /\ UNCHANGED quarantined

\* complete_failure_cleanup(false): the worker is quarantined, then unloaded.
GiveUp == state' = "quarantined" /\ quarantined' = TRUE

\* Wrong on purpose: a failed drain is tried again for as long as it fails.
LastAttemptNever == drain_ok /\ ~drain_ok

\* The drain of the failure path is not repeated.
LastAttempt == failing

\* drain_memory_completions has drained the mailbox; without proof that all of
\* it completed, drain_memory_execution throws.
DrainReturns ==
    /\ pc = "drain" /\ mailbox = <<>>
    /\ IF DrainCompleted THEN pc' = "unload" /\ UNCHANGED <<failing, state, quarantined>>
       ELSE IF LastAttempt THEN pc' = "unload" /\ GiveUp /\ UNCHANGED failing
       ELSE pc' = "finalize" /\ failing' = TRUE /\ UNCHANGED <<state, quarantined>>
    /\ UNCHANGED <<ledgerVars, expected, mailbox, overflow, epoch, cursor,
                   encoding, inflight, callback_failed, held, drain_ok>>

\* ModelSession::unload frees the buffers the model still refers to.
UnloadBuffer(t) ==
    /\ pc = "unload" /\ t \in held
    /\ Release(t)
    /\ held' = held \ {t}
    /\ UNCHANGED <<expected, mailbox, overflow, epoch, cursor, state, encoding,
                   inflight, callback_failed, pc, failing, drain_ok, quarantined>>

Clean == Settled /\ Occupying = {}

\* The rest of drain_memory_execution and, on the failure path,
\* complete_failure_cleanup(true).
Unloaded ==
    /\ pc = "unload" /\ held = {}
    /\ IF ~failing
       THEN pc' = (IF Clean THEN "finish" ELSE "finalize") /\ failing' = ~Clean
            /\ UNCHANGED <<state, quarantined>>
       ELSE /\ pc' = "done" /\ UNCHANGED failing
            /\ IF state = "quarantined" THEN UNCHANGED <<state, quarantined>>
               ELSE IF Clean THEN state' = "failed" /\ UNCHANGED quarantined
               ELSE GiveUp
    /\ UNCHANGED <<ledgerVars, expected, mailbox, overflow, epoch, cursor,
                   encoding, inflight, callback_failed, held, drain_ok>>

\* emit_terminal_schedule_event, or the last checkpoint, then finish_success.
\* A checkpoint or a swap sample may find the process over its budget.
ScheduleComplete ==
    Scheduled => /\ cursor + 1 = Len(plan.schedule)
                 /\ CanEnter(plan.schedule[cursor + 1].epoch)

FinishSuccess ==
    /\ pc = "finish"
    /\ \/ /\ ScheduleComplete /\ Clean
          /\ state' = "succeeded" /\ pc' = "done" /\ UNCHANGED failing
       \/ pc' = "finalize" /\ failing' = TRUE /\ UNCHANGED state
    /\ UNCHANGED <<ledgerVars, expected, mailbox, overflow, epoch, cursor,
                   encoding, inflight, callback_failed, held, drain_ok, quarantined>>

\* Wrong on purpose: only active leases call for a drain.
NeedsGpuDrainActive == Tokens("active") # {}

NeedsGpuDrain == Tokens("active") \union Tokens("pending") \union expected # {}
                     \/ mailbox # <<>>

\* finalize_failure and the choice of finalize_memory_failure.
FinalizeFailure ==
    /\ pc = "finalize"
    /\ IF NeedsGpuDrain
       THEN pc' = "drain" /\ state' = "draining" /\ UNCHANGED quarantined
       ELSE /\ pc' = "done"
            /\ IF Tokens("reserved") = {}
               THEN state' = "failed" /\ UNCHANGED quarantined
               ELSE GiveUp
    /\ drain_ok' = TRUE
    /\ UNCHANGED <<ledgerVars, expected, mailbox, overflow, epoch, cursor,
                   encoding, inflight, callback_failed, held, failing>>

-------------------------------------------------------------------------------

Working ==
    \/ \E t \in Token, site \in Sites, n \in Requests : ReserveSite(t, site, n)
    \/ \E t \in Token : \E actual \in 1 .. alloc[t].bytes : CommitBuffer(t, actual)
    \/ \E t \in Token : FreeBuffer(t)
    \/ BeginCommand
    \/ ContinueCommand
    \/ \E S \in SUBSET Token : S # {} /\ ContinueReleasing(S)
    \/ Submit
    \/ \E e \in Epochs(plan.instances) : EnterEpoch(e)
    \/ EmitEvent
    \/ GenerateEnds

\* What the owner does without the session: it never waits for anything but
\* the GPU.
Concluding ==
    \/ \E t \in Token : CancelBuffer(t)
    \/ SubmitReturns
    \/ DrainMessage
    \/ FinishEvent
    \/ CloseQueues
    \/ SessionReturns
    \/ DrainReturns
    \/ \E t \in Token : UnloadBuffer(t)
    \/ Unloaded
    \/ FinishSuccess
    \/ FinalizeFailure

Next == Working \/ Concluding \/ Gpu

Spec == Init /\ [][Next]_vars

\* Metal ends every command; the owner thread runs when it is not waiting.
FairSpec == Spec /\ WF_vars(Concluding) /\ WF_vars(Gpu)

-------------------------------------------------------------------------------
(* Properties.                                                                *)

Positions == {"generate", "submit", "safe_point", "cleanup", "destroy", "drain",
              "unload", "finish", "finalize", "done"}
CommandRecord ==
    [uses : SUBSET Token, frees : SUBSET Token,
     status : {"running", "completed", "error"}]

\* The shape of the state; the queues stay within what the code allocates.
TypeOK ==
    /\ LedgerTypeOK
    /\ expected \subseteq Token /\ Cardinality(expected) <= RegistryCapacity
    /\ mailbox \in Seq([token : Token, ok : BOOLEAN])
    /\ Len(mailbox) <= MailboxCapacity
    /\ epoch \in Epochs(plan.instances) /\ cursor \in 0 .. Len(plan.schedule)
    /\ state \in {"running", "draining", "succeeded", "failed", "quarantined"}
    /\ inflight \in Seq(CommandRecord) /\ Len(inflight) <= MaxCommands + 1
    /\ held \subseteq Token
    /\ pc \in Positions
    /\ {overflow, encoding, callback_failed, failing, drain_ok, quarantined} \subseteq BOOLEAN

\* A reservation that the manifest permits at the epoch it would be made in is
\* never denied for lack of budget: the peak the plan was compiled with covers
\* every set of buffers the epochs and the alias groups let coexist, the
\* retired ones whose completion is still under way included
\* (memory_plan.cpp:150-195 against memory_accounting.cpp:497-581).
PlannedAllocationFits ==
    \A site \in Sites, n \in Requests :
        LET e == EpochFor(site, n)
        IN  (e # epoch => ~ExplicitEpoch /\ CanEnter(e)) /\ Permits(site, n, e)
                => n <= Ceiling(plan) - Committed

\* Every pending release awaits exactly one completion, which the GPU still has
\* to post, has posted, or was refused for lack of room
\* (memory_scheduler.cpp:181-276): none is lost silently or applied twice.
CompletionsAccounted ==
    LET coming == UNION {inflight[n].frees : n \in DOMAIN inflight}
    IN  /\ expected = Tokens("pending")
        /\ Cardinality(Queued) = Len(mailbox)
        /\ Queued \intersect coming = {}
        /\ expected \ (Queued \union coming) # {} => overflow /\ callback_failed
        /\ Queued \union coming \subseteq expected

\* A buffer that a running command may touch is still charged: the owner
\* thread's frees and drains never overtake the GPU (h3_gpu.h:36-38).
ChargedWhileUsed == InUse \subseteq Tokens("active") \union Tokens("pending")

\* The model keeps no reference to a buffer that was given away, so no buffer
\* is freed twice (h3_gpu.h:261-263).
NoDanglingReference == held \subseteq Tokens("active")

\* When tc_engine_generate returns and the engine may serve another request,
\* nothing of this one is left: no charge, no command, no completion, no
\* reference (c_api.mm:261-340).
ReusableMeansClean ==
    pc = "done" /\ ~quarantined =>
        /\ Occupying = {} /\ held = {}
        /\ inflight = <<>> /\ expected = {} /\ mailbox = <<>>

\* A request whose completions were lost is never reported as a success, nor
\* its engine reused, however the failure paths are taken.
LossIsNeverSuccess ==
    pc = "done" /\ (overflow \/ callback_failed) => quarantined

\* The owner comes back to the session or returns, whatever it waits for.
CallEnds == []<>(pc \in {"generate", "done"})

\* What the request promises the process (MemoryContract).
Contract == INSTANCE MemoryContract WITH
    Buffer <- Token,
    budget <- Ceiling(plan) - Baseline,
    charged <- [t \in Token |-> alloc[t].bytes],
    used <- InUse,
    verdict <- IF pc # "done" THEN "none"
               ELSE IF quarantined THEN "quarantined" ELSE "reusable"

ImplementsContract == Contract!Spec
===============================================================================
