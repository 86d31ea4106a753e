------------------------------ MODULE IoExecutor ------------------------------
(***************************************************************************)
(* The I/O workers of a streaming stage and the mailbox they report to     *)
(* (native/runtime/streaming/io_executor.cpp, classes IoExecutor and       *)
(* CompletionMailbox), at the level of the mutex and the condition         *)
(* variable.                                                               *)
(*                                                                         *)
(* The owner thread enqueues fill jobs, pops completions and finally shuts *)
(* the executor down; each worker takes a job, fills outside the lock,     *)
(* gives its credit back, posts one completion and notifies.               *)
(*                                                                         *)
(* std::condition_variable::wait(lock, pred) is modelled step by step: a   *)
(* worker that found the predicate false still holds the mutex             *)
(* ("parking") until it is registered as a waiter and releases the mutex   *)
(* in one step ("asleep").  A notification reaches only the workers that   *)
(* are asleep.                                                             *)
(***************************************************************************)
EXTENDS Naturals, Sequences, FiniteSets

CONSTANTS
  Worker,           \* the worker threads
  Job,              \* the fill jobs; the ticket of a job is unique
  NoJob,
  QueueCapacity,    \* job credits
  MailboxCapacity   \* completion records

ASSUME IoAssumption ==
  /\ IsFiniteSet(Worker) /\ Worker # {}
  /\ NoJob \notin Job
  /\ QueueCapacity \in Nat /\ Cardinality(Worker) \in 1 .. QueueCapacity
  /\ MailboxCapacity \in Nat \ {0}

VARIABLES
  jobs,       \* the job ring
  running,    \* credits held by workers
  cancelled,  \* the atomic stop flag
  mailbox,    \* the completion ring: [job, ok]
  overflow,   \* the sticky overflow latch of the mailbox
  pc,         \* where each worker is
  held,       \* the job each worker has taken
  result,     \* whether the fill of the held job succeeded
  owner,      \* "open", "notifying", "joining", "joined"
  submitted,  \* history: jobs enqueue() accepted
  delivered,  \* history: how often the owner popped a completion of a job
  dropped     \* history: jobs whose completion the mailbox refused

vars == <<jobs, running, cancelled, mailbox, overflow, pc, held, result,
          owner, submitted, delivered, dropped>>

queueVars == <<jobs, running>>
mailVars == <<mailbox, overflow>>
history == <<submitted, delivered, dropped>>

WorkerState == {"test", "parking", "asleep", "filling", "crediting",
                "posting", "aborting", "notifying", "exited"}

Init ==
  /\ jobs = <<>> /\ running = 0 /\ cancelled = FALSE
  /\ mailbox = <<>> /\ overflow = FALSE
  /\ pc = [w \in Worker |-> "test"]
  /\ held = [w \in Worker |-> NoJob]
  /\ result = [w \in Worker |-> FALSE]
  /\ owner = "open"
  /\ submitted = {} /\ delivered = [j \in Job |-> 0] /\ dropped = {}

(* Nobody but a parking worker keeps the mutex from one step to the next.   *)
MutexFree == \A w \in Worker : pc[w] # "parking"

WakeAll == [w \in Worker |-> IF pc[w] = "asleep" THEN "test" ELSE pc[w]]

-----------------------------------------------------------------------------
(* The owner.                                                               *)

HasCredit == Len(jobs) + running # QueueCapacity

(* Wrong on purpose: the job is queued without a notification.              *)
EnqueueSilently(j) ==
  /\ owner = "open" /\ MutexFree
  /\ j \notin submitted
  /\ ~cancelled
  /\ HasCredit
  /\ jobs' = Append(jobs, j)
  /\ submitted' = submitted \cup {j}
  /\ UNCHANGED <<running, cancelled, mailVars, pc, held, result, owner, delivered,
                 dropped>>

(* enqueue(): throws once cancelled, returns false without credit - both    *)
(* leave everything as it is - and otherwise notifies one waiter.           *)
Enqueue(j) ==
  /\ owner = "open" /\ MutexFree
  /\ j \notin submitted
  /\ ~cancelled
  /\ HasCredit
  /\ jobs' = Append(jobs, j)
  /\ submitted' = submitted \cup {j}
  /\ \/ \E w \in Worker : pc[w] = "asleep" /\ pc' = [pc EXCEPT ![w] = "test"]
     \/ (\A w \in Worker : pc[w] # "asleep") /\ UNCHANGED pc
  /\ UNCHANGED <<running, cancelled, mailVars, held, result, owner, delivered,
                 dropped>>

(* pop(), also after the join.                                              *)
Pop ==
  /\ owner \in {"open", "joined"}
  /\ mailbox # <<>>
  /\ mailbox' = Tail(mailbox)
  /\ delivered' = [delivered EXCEPT ![Head(mailbox).job] = @ + 1]
  /\ UNCHANGED <<queueVars, cancelled, overflow, pc, held, result, owner,
                 submitted, dropped>>

(* shutdown_and_join(): store the flag - without the mutex - notify all,    *)
(* join every thread.                                                       *)
StoreCancelled ==
  /\ owner = "open"
  /\ cancelled' = TRUE
  /\ owner' = "notifying"
  /\ UNCHANGED <<queueVars, mailVars, pc, held, result, history>>

NotifyAll ==
  /\ owner = "notifying"
  /\ pc' = WakeAll
  /\ owner' = "joining"
  /\ UNCHANGED <<queueVars, cancelled, mailVars, held, result, history>>

(* Wrong on purpose: only one thread is joined.                             *)
JoinFirst ==
  /\ owner = "joining"
  /\ \E w \in Worker : pc[w] = "exited"
  /\ owner' = "joined"
  /\ UNCHANGED <<queueVars, cancelled, mailVars, pc, held, result, history>>

Join ==
  /\ owner = "joining"
  /\ \A w \in Worker : pc[w] = "exited"
  /\ owner' = "joined"
  /\ UNCHANGED <<queueVars, cancelled, mailVars, pc, held, result, history>>

-----------------------------------------------------------------------------
(* A worker.                                                                *)

Goto(w, from, to) == pc[w] = from /\ pc' = [pc EXCEPT ![w] = to]

(* The wait predicate and what follows it under the lock.                   *)
Exit(w) ==
  /\ MutexFree
  /\ cancelled
  /\ Goto(w, "test", "exited")
  /\ UNCHANGED <<queueVars, cancelled, mailVars, held, result, owner, history>>

Take(w) ==
  /\ MutexFree
  /\ ~cancelled
  /\ jobs # <<>>
  /\ Goto(w, "test", "filling")
  /\ held' = [held EXCEPT ![w] = Head(jobs)]
  /\ jobs' = Tail(jobs)
  /\ running' = running + 1
  /\ UNCHANGED <<cancelled, mailVars, result, owner, history>>

FindNothing(w) ==
  /\ MutexFree
  /\ ~cancelled
  /\ jobs = <<>>
  /\ Goto(w, "test", "parking")
  /\ UNCHANGED <<queueVars, cancelled, mailVars, held, result, owner, history>>

Park(w) ==
  /\ Goto(w, "parking", "asleep")
  /\ UNCHANGED <<queueVars, cancelled, mailVars, held, result, owner, history>>

(* A condition variable may wake for no reason.                             *)
WakeSpuriously(w) ==
  /\ Goto(w, "asleep", "test")
  /\ UNCHANGED <<queueVars, cancelled, mailVars, held, result, owner, history>>

(* Wrong on purpose: a failed fill leaves without giving its credit back.   *)
FillLeaksCredit(w, ok) ==
  /\ Goto(w, "filling", IF ok THEN "crediting" ELSE "posting")
  /\ result' = [result EXCEPT ![w] = ok]
  /\ UNCHANGED <<queueVars, cancelled, mailVars, held, owner, history>>

(* The fill reports a status; an exception becomes status -1.               *)
Fill(w, ok) ==
  /\ Goto(w, "filling", "crediting")
  /\ result' = [result EXCEPT ![w] = ok]
  /\ UNCHANGED <<queueVars, cancelled, mailVars, held, owner, history>>

ReturnCredit(w) ==
  /\ MutexFree
  /\ Goto(w, "crediting", "posting")
  /\ running' = running - 1
  /\ UNCHANGED <<jobs, cancelled, mailVars, held, result, owner, history>>

(* CompletionMailbox::post().                                               *)
Post(w) ==
  /\ Len(mailbox) < MailboxCapacity
  /\ Goto(w, "posting", "notifying")
  /\ mailbox' = Append(mailbox, [job |-> held[w], ok |-> result[w]])
  /\ held' = [held EXCEPT ![w] = NoJob]
  /\ UNCHANGED <<queueVars, cancelled, overflow, result, owner, history>>

(* Wrong on purpose: the overflow leaves no trace.                          *)
PostRefusedSilently(w) ==
  /\ Len(mailbox) = MailboxCapacity
  /\ Goto(w, "posting", "aborting")
  /\ dropped' = dropped \cup {held[w]}
  /\ held' = [held EXCEPT ![w] = NoJob]
  /\ UNCHANGED <<queueVars, cancelled, mailVars, result, owner, submitted,
                 delivered>>

PostRefused(w) ==
  /\ Len(mailbox) = MailboxCapacity
  /\ Goto(w, "posting", "aborting")
  /\ overflow' = TRUE
  /\ dropped' = dropped \cup {held[w]}
  /\ held' = [held EXCEPT ![w] = NoJob]
  /\ UNCHANGED <<queueVars, cancelled, mailbox, result, owner, submitted,
                 delivered>>

(* A refused post stops the executor.                                       *)
Abort(w) ==
  /\ Goto(w, "aborting", "notifying")
  /\ cancelled' = TRUE
  /\ UNCHANGED <<queueVars, mailVars, held, result, owner, history>>

Notify(w) ==
  /\ pc[w] = "notifying"
  /\ pc' = [WakeAll EXCEPT ![w] = "test"]
  /\ UNCHANGED <<queueVars, cancelled, mailVars, held, result, owner, history>>

WorkerStep(w) ==
  \/ Exit(w) \/ Take(w) \/ FindNothing(w) \/ Park(w)
  \/ \E ok \in BOOLEAN : Fill(w, ok)
  \/ ReturnCredit(w) \/ Post(w) \/ PostRefused(w) \/ Abort(w) \/ Notify(w)

OwnerStep ==
  \/ \E j \in Job : Enqueue(j)
  \/ Pop \/ StoreCancelled \/ NotifyAll \/ Join

Next ==
  \/ OwnerStep
  \/ \E w \in Worker : WorkerStep(w) \/ WakeSpuriously(w)

Spec == Init /\ [][Next]_vars

(* Every thread keeps running, a thread that waits for the mutex gets it    *)
(* when it is free again and again (strong fairness), a fill ends, and an   *)
(* owner that has begun to shut down goes on.  Nothing makes a waiter wake  *)
(* spuriously.                                                              *)
Fairness ==
  /\ \A w \in Worker : SF_vars(WorkerStep(w))
  /\ WF_vars(NotifyAll) /\ WF_vars(Join)

FairSpec == Spec /\ Fairness

-----------------------------------------------------------------------------
TypeOK ==
  /\ jobs \in Seq(Job) /\ Len(jobs) + running <= QueueCapacity
  /\ running \in Nat
  /\ cancelled \in BOOLEAN /\ overflow \in BOOLEAN
  /\ mailbox \in Seq([job: Job, ok: BOOLEAN])
  /\ Len(mailbox) <= MailboxCapacity
  /\ pc \in [Worker -> WorkerState]
  /\ held \in [Worker -> Job \cup {NoJob}]
  /\ result \in [Worker -> BOOLEAN]
  /\ owner \in {"open", "notifying", "joining", "joined"}
  /\ submitted \subseteq Job /\ dropped \subseteq Job
  /\ delivered \in [Job -> Nat]

(* An accepted job is in one place at a time - the ring, one worker, the    *)
(* mailbox, delivered - and ends up reported exactly once: no completion is *)
(* lost or repeated while workers, owner and shutdown interleave, unless    *)
(* the mailbox was full, and then the overflow latch says so                *)
(* (io_executor.cpp:14-23, :66-91).                                         *)
ReportedExactlyOnce ==
  \A j \in submitted :
    /\ Cardinality({i \in DOMAIN jobs : jobs[i] = j})
       + Cardinality({w \in Worker : held[w] = j})
       + Cardinality({i \in DOMAIN mailbox : mailbox[i].job = j})
       + delivered[j]
       + (IF j \in dropped THEN 1 ELSE 0) = 1
    /\ j \in dropped => overflow

(* An owner that has at most QueueCapacity jobs without a visible           *)
(* completion always gets a credit: credits are given back before the       *)
(* completion is visible, so a false from enqueue() never means a worker    *)
(* that is merely late (io_executor.cpp:83-88).                             *)
CreditBeforeCompletion ==
  LET visible == {j \in submitted : delivered[j] > 0 \/ j \in dropped
                    \/ \E i \in DOMAIN mailbox : mailbox[i].job = j}
  IN  Len(jobs) + running <= Cardinality(submitted \ visible)

(* After shutdown_and_join() no worker touches anything any more: the       *)
(* caller may free the memory the fills write to (io_executor.cpp:92-98).   *)
QuietAfterJoin ==
  [][owner = "joined" =>
       UNCHANGED <<jobs, running, cancelled, overflow, pc, held, result>>]_vars

(* Without a shutdown no job is forgotten: a worker that sleeps is always   *)
(* woken for a queued job (io_executor.cpp:59-60, :74, :90).                *)
JobsComplete ==
  \A j \in Job :
    j \in submitted ~> \/ cancelled
                       \/ delivered[j] > 0
                       \/ \E i \in DOMAIN mailbox : mailbox[i].job = j

(* Shutdown ends: once shutdown_and_join() is entered every worker exits    *)
(* and the call returns, which the drain of a failed run relies on          *)
(* (context.cpp:66).                                                        *)
ShutdownReturns == owner = "notifying" ~> owner = "joined"

===============================================================================
