------------------------------- MODULE EngineApi -------------------------------
(***************************************************************************)
(* The native engines of one process (native/api/c_api.mm,                 *)
(* native/runtime/execution.cpp): several caller threads use several       *)
(* engines that share one GPU.                                             *)
(*                                                                         *)
(* A call tries the mutex of its engine, then the execution mutex of the   *)
(* process, then the device lease - a file lock it shares with the other   *)
(* processes of the user - and never waits for one: a caller that loses is *)
(* told "busy".  When a call cannot prove that the GPU has finished, the   *)
(* engine, or the whole process, is quarantined.                           *)
(*                                                                         *)
(* The session of an engine (model specific code behind a virtual          *)
(* interface) is kept to what the API sees of it: it ends, it polls the    *)
(* cancel flag, and it may be unable to drain.  The streaming_quarantined  *)
(* flag of an engine is set only together with the flag of the process and *)
(* read only next to it; it is left out.  So are the entry points without  *)
(* an engine and tc_engine_take_last_memory_report_json.                   *)
(***************************************************************************)
CONSTANTS
  Engine,
  Caller,     \* threads; each makes one call after the other
  NoCaller, NoEngine

(* tc_engine_verify_streaming_sources_json, _generate, _prepare, _load and  *)
(* _unload.                                                                 *)
Kinds == {"verify", "generate", "prepare", "load", "unload"}

ASSUME EngineAssumption == NoEngine \notin Engine /\ NoCaller \notin Caller

VARIABLES
  call,         \* what each caller does and where it is
  status,       \* engines: "live", "deleted", "retained"
  suspect,      \* engines whose session cannot prove that the GPU left its memory
  memory,       \* engines with memory_quarantined
  lock,         \* engine mutexes
  execution,    \* execution_mutex()
  lease,        \* DeviceLease: "free", "here" or "elsewhere"
  quarantined,  \* streaming_process_quarantined
  cancelled,    \* engines with the cancel flag set
  told          \* a call returned that found the GPU unproven

locks == <<lock, execution, lease>>
vars == <<call, status, suspect, memory, locks, quarantined, cancelled, told>>

NoRequest == [pc |-> "idle", kind |-> "none", engine |-> NoEngine, admitted |-> FALSE,
              result |-> "none", asked |-> FALSE]

Init ==
  /\ call = [c \in Caller |-> NoRequest]
  /\ status = [e \in Engine |-> "live"]
  /\ suspect = {} /\ memory = {}
  /\ lock = [e \in Engine |-> NoCaller]
  /\ execution = NoCaller
  /\ lease = "free"
  /\ quarantined = FALSE
  /\ cancelled = {}
  /\ told = FALSE

-----------------------------------------------------------------------------

Is(c, pc) == call[c].pc = pc
Its(c) == call[c].engine
Active(c) == ~Is(c, "idle")

Goto(c, pc) == call' = [call EXCEPT ![c].pc = pc]

(* The stack of the call is unwound, by a return or an exception; only the  *)
(* cleanup that comes late still needs to know of an admission.             *)
Leave(c, why) ==
  call' = [call EXCEPT ![c] = [call[c] EXCEPT
    !.pc = "unwind", !.kind = "none", !.result = why,
    !.admitted = call[c].admitted /\ why = "quarantined"]]
Return(c) == call' = [call EXCEPT ![c] = NoRequest]

Runs(c) == call[c].kind \in {"generate", "prepare"}

(* The session begins its work.  generate() and prepare() of a quarantined  *)
(* session refuse; load() does not look.                                    *)
Begun(c) == IF Runs(c) /\ Its(c) \in suspect THEN "caught" ELSE "running"

(* require_streaming_process_healthy(), then the next step of the call.     *)
Enter(c, pc) == IF quarantined THEN Leave(c, "none") ELSE Goto(c, pc)
AfterLock(c) == IF call[c].kind = "verify" THEN "reset" ELSE "execution"
AfterExecution(c) == IF call[c].kind = "unload" THEN Begun(c) ELSE "lease"

(* Before anything else, generate and prepare look at the memory            *)
(* quarantine of the engine; nothing happens when it is set.                *)
Start(c, kind, e) ==
  /\ Is(c, "idle")
  /\ status[e] = "live"
  /\ kind \in {"generate", "prepare"} => e \notin memory
  /\ call' = [call EXCEPT ![c] = [NoRequest EXCEPT
       !.pc = "lock", !.kind = kind, !.engine = e]]
  /\ UNCHANGED <<status, suspect, memory, locks, quarantined, cancelled, told>>

(* Wrong on purpose: the cancel flag is reset before the engine is held.    *)
LockEngineReset(c) ==
  /\ Is(c, "lock")
  /\ IF lock[Its(c)] # NoCaller THEN Return(c) /\ UNCHANGED lock
     ELSE /\ lock' = [lock EXCEPT ![Its(c)] = c]
          /\ Enter(c, AfterLock(c))
  /\ cancelled' = cancelled \ {Its(c)}
  /\ UNCHANGED <<status, suspect, memory, execution, lease, quarantined, told>>

(* The mutex of the engine is tried.  A verification needs no GPU.          *)
LockEngine(c) ==
  /\ Is(c, "lock")
  /\ IF lock[Its(c)] # NoCaller THEN Return(c) /\ UNCHANGED lock
     ELSE /\ lock' = [lock EXCEPT ![Its(c)] = c]
          /\ Enter(c, AfterLock(c))
  /\ UNCHANGED <<status, suspect, memory, execution, lease, quarantined, cancelled,
                 told>>

(* Wrong on purpose: the execution mutex is not tried.                      *)
LockExecutionShared(c) ==
  /\ Is(c, "execution")
  /\ execution' = c
  /\ Enter(c, AfterExecution(c))
  /\ UNCHANGED <<status, suspect, memory, lock, lease, quarantined, cancelled, told>>

(* Wrong on purpose: the second look at the flag is left out.               *)
LockExecutionUnchecked(c) ==
  /\ Is(c, "execution")
  /\ IF execution # NoCaller THEN Leave(c, "none") /\ UNCHANGED execution
     ELSE execution' = c /\ Goto(c, AfterExecution(c))
  /\ UNCHANGED <<status, suspect, memory, lock, lease, quarantined, cancelled, told>>

(* The execution mutex of the process is tried, and the process looked at a *)
(* second time: it may have been quarantined in between.                    *)
LockExecution(c) ==
  /\ Is(c, "execution")
  /\ IF execution # NoCaller THEN Leave(c, "none") /\ UNCHANGED execution
     ELSE /\ execution' = c
          /\ Enter(c, AfterExecution(c))
  /\ UNCHANGED <<status, suspect, memory, lock, lease, quarantined, cancelled, told>>

(* DeviceLease: flock without waiting.  Unloading does not take it.  A      *)
(* preparation under a memory limit is admitted here, a generation after    *)
(* the reset.                                                               *)
TakeLease(c) ==
  /\ Is(c, "lease")
  /\ IF lease # "free" THEN Leave(c, "none") /\ UNCHANGED lease
     ELSE /\ lease' = "here"
          /\ Goto(c, "reset") \/ (call[c].kind = "prepare" /\ Goto(c, "admit"))
  /\ UNCHANGED <<status, suspect, memory, lock, execution, quarantined, cancelled,
                 told>>

AfterReset(c) == Goto(c, Begun(c)) \/ (call[c].kind = "generate" /\ Goto(c, "admit"))

(* Wrong on purpose: the flag of an earlier request is kept.                *)
ResetNothing(c) ==
  /\ Is(c, "reset")
  /\ AfterReset(c)
  /\ UNCHANGED <<status, suspect, memory, locks, quarantined, cancelled, told>>

(* cancelled.store(false): a request starts uncancelled.                    *)
Reset(c) ==
  /\ Is(c, "reset")
  /\ cancelled' = cancelled \ {Its(c)}
  /\ AfterReset(c)
  /\ UNCHANGED <<status, suspect, memory, locks, quarantined, told>>

(* ModelSession::unload(): streams that were kept are drained once more.    *)
(* If that fails the session quarantines itself and throws; the quarantine  *)
(* ends with the session.                                                   *)
UnloadFails(e) == suspect' = suspect \cup {e}

(* prepare_memory_execution() of a constrained request unloads the session  *)
(* and admits the request, or refuses it.                                   *)
Admit(c) ==
  /\ Is(c, "admit")
  /\ \/ /\ UNCHANGED suspect
        /\ \/ call' = [call EXCEPT ![c].admitted = TRUE,
                         ![c].pc = IF call[c].kind = "prepare" THEN "reset" ELSE Begun(c)]
           \/ Leave(c, "none")
     \/ UnloadFails(Its(c)) /\ Leave(c, "none")
  /\ UNCHANGED <<status, memory, locks, quarantined, cancelled, told>>

Fails(c, why) ==
  IF Runs(c) THEN call' = [call EXCEPT ![c].pc = "caught", ![c].result = why]
  ELSE Leave(c, why)

(* What the session answers.  Only a request that streams can end without a *)
(* proof that the GPU is done; a failed load is unloaded.                   *)
Succeeds(c) ==
  /\ UNCHANGED suspect
  /\ Leave(c, "none")

FailsDrained(c) ==
  /\ call[c].kind # "unload"
  /\ UNCHANGED suspect
  /\ Fails(c, "none")

StopsCancelled(c) ==
  /\ Its(c) \in cancelled /\ call[c].kind # "unload"
  /\ UNCHANGED suspect
  /\ Fails(c, "cancelled")

FailsUndrained(c) ==
  /\ call[c].kind # "verify"
  /\ UnloadFails(Its(c))
  /\ Fails(c, "none")

SessionEnds(c) ==
  /\ Is(c, "running")
  /\ Succeeds(c) \/ FailsDrained(c) \/ StopsCancelled(c) \/ FailsUndrained(c)
  /\ UNCHANGED <<status, memory, locks, quarantined, cancelled, told>>

(* The inner catch of a request.  generate() first looks whether the        *)
(* session is quarantined: then the process is, and the cleanup of a        *)
(* constrained request is left to the outer catch.  Otherwise               *)
(* finalize_memory_failure() cleans up; when it cannot it unloads the       *)
(* session and quarantines the engine.                                      *)
Propagates(c) == call[c].kind = "generate" /\ Its(c) \in suspect

Caught(c) ==
  /\ Is(c, "caught")
  /\ \/ /\ Propagates(c)
        /\ quarantined' = TRUE
        /\ Leave(c, "quarantined")
        /\ UNCHANGED <<suspect, memory>>
     \/ /\ ~Propagates(c)
        /\ Leave(c, call[c].result)
        /\ \/ UNCHANGED <<suspect, memory>>
           \/ /\ call[c].admitted
              /\ memory' = memory \cup {Its(c)}
              /\ UNCHANGED suspect \/ UnloadFails(Its(c))
        /\ UNCHANGED quarantined
  /\ UNCHANGED <<status, locks, cancelled, told>>

(* Lease, execution mutex and engine mutex are released on the way out; the *)
(* outer catch runs after that, and only then the caller has its answer.    *)
Unwind(c) ==
  /\ Is(c, "unwind")
  /\ lease' = IF execution = c /\ lease = "here" THEN "free" ELSE lease
  /\ execution' = IF execution = c THEN NoCaller ELSE execution
  /\ lock' = [lock EXCEPT ![Its(c)] = NoCaller]
  /\ IF call[c].admitted THEN Goto(c, "late") ELSE Return(c)
  /\ told' = (told \/ (~call[c].admitted /\ call[c].result = "quarantined"))
  /\ UNCHANGED <<status, suspect, memory, quarantined, cancelled>>

LateCleanup(c) ==
  /\ Is(c, "late")
  /\ memory' \in {memory, memory \cup {Its(c)}}
  /\ Return(c)
  /\ told' = TRUE
  /\ UNCHANGED <<status, suspect, locks, quarantined, cancelled>>

-----------------------------------------------------------------------------

(* tc_engine_cancel() from any thread.                                      *)
Cancel(e) ==
  /\ status[e] = "live"
  /\ cancelled' = cancelled \cup {e}
  /\ call' = [c \in Caller |-> IF Active(c) /\ Its(c) = e
                             THEN [call[c] EXCEPT !.asked = TRUE] ELSE call[c]]
  /\ UNCHANGED <<status, suspect, memory, locks, quarantined, told>>

(* Wrong on purpose: the session is not asked.                              *)
FreeUnobserved(e) ==
  /\ status[e] = "live"
  /\ \A c \in Caller : Active(c) => Its(c) # e
  /\ status' = [status EXCEPT ![e] = IF quarantined THEN "retained" ELSE "deleted"]
  /\ cancelled' = cancelled \ {e} /\ memory' = memory \ {e}
  /\ UNCHANGED <<call, suspect, locks, quarantined, told>>

(* tc_engine_free(), after all calls have returned: it asks the session     *)
(* itself, and in a quarantined process keeps the engine for ever.  Nobody  *)
(* reads the flags of the engine afterwards.                                *)
Free(e) ==
  /\ status[e] = "live"
  /\ \A c \in Caller : Active(c) => Its(c) # e
  /\ quarantined' = (quarantined \/ e \in suspect)
  /\ status' = [status EXCEPT ![e] = IF quarantined' THEN "retained" ELSE "deleted"]
  /\ cancelled' = cancelled \ {e} /\ memory' = memory \ {e}
  /\ UNCHANGED <<call, suspect, locks, told>>

(* Another process takes and returns the device.                            *)
OtherProcess ==
  /\ \/ lease = "free" /\ lease' = "elsewhere"
     \/ lease = "elsewhere" /\ lease' = "free"
  /\ UNCHANGED <<call, status, suspect, memory, lock, execution, quarantined, cancelled,
                 told>>

Advance(c) ==
  \/ LockEngine(c) \/ LockExecution(c) \/ TakeLease(c) \/ Reset(c) \/ Admit(c)
  \/ Caught(c) \/ Unwind(c) \/ LateCleanup(c)

Next ==
  \/ \E c \in Caller :
       \/ \E kind \in Kinds, e \in Engine : Start(c, kind, e)
       \/ Advance(c)
       \/ SessionEnds(c)
  \/ \E e \in Engine : Cancel(e) \/ Free(e)
  \/ OtherProcess

Spec == Init /\ [][Next]_vars

(* Callers run, and a session polls the cancel flag; without it a request   *)
(* may take for ever.                                                       *)
Fairness ==
  \A c \in Caller : WF_vars(Advance(c)) /\ WF_vars(Its(c) \in cancelled /\ SessionEnds(c))

FairSpec == Spec /\ Fairness

-----------------------------------------------------------------------------

Pc == {"idle", "lock", "execution", "lease", "admit", "reset", "running", "caught",
       "unwind", "late"}

(* Types, and who may hold what: the engine mutex a call on that engine,    *)
(* the lease only together with the execution mutex (c_api.mm:1163-1181).   *)
TypeOK ==
  /\ call \in [Caller -> [pc : Pc, kind : Kinds \cup {"none"},
                          engine : Engine \cup {NoEngine}, admitted : BOOLEAN,
                          result : {"none", "cancelled", "quarantined"},
                          asked : BOOLEAN]]
  /\ status \in [Engine -> {"live", "deleted", "retained"}]
  /\ suspect \subseteq Engine /\ memory \subseteq Engine /\ cancelled \subseteq Engine
  /\ lock \in [Engine -> Caller \cup {NoCaller}]
  /\ execution \in Caller \cup {NoCaller}
  /\ lease \in {"free", "here", "elsewhere"}
  /\ quarantined \in BOOLEAN /\ told \in BOOLEAN
  /\ \A e \in Engine : lock[e] # NoCaller => Active(lock[e]) /\ Its(lock[e]) = e
  /\ lease = "here" => execution # NoCaller

OnGpu(c) == Is(c, "running") /\ call[c].kind # "verify"
Begins(c) == ~Is(c, "running") /\ call'[c].pc = "running"

(* One session at a time works on the GPU of this process, and none but an  *)
(* unload does while another process has the device (execution.cpp:9-33,    *)
(* c_api.mm:1178-1181).                                                     *)
OneSessionOnGpu ==
  /\ \A c, d \in Caller : OnGpu(c) /\ OnGpu(d) => c = d
  /\ \A c \in Caller : OnGpu(c) /\ call[c].kind # "unload" => lease = "here"

(* Once a request has returned because its own work could not be proved     *)
(* over, no thread begins GPU work in this process on any engine - not even *)
(* one that passed its first check before the quarantine (c_api.mm:63-79,   *)
(* :1165, :1180, :1290-1292).                                               *)
NoWorkAfterQuarantine ==
  [][\A c \in Caller : Begins(c) /\ call[c].kind # "verify" => ~told]_vars

(* Memory the GPU may still use is never deleted: whatever call left it     *)
(* unproven, and whether or not that call told anybody, freeing the engine  *)
(* keeps it (c_api.mm:59-62, :1138-1149).                                   *)
UnprovenIsKept == \A e \in suspect : status[e] # "deleted"

(* A cancellation is for the requests it finds: a request ends cancelled    *)
(* only if the flag was set while it was being made, never because of one   *)
(* that an earlier request left behind (c_api.mm:726, :1182, :1589, :1712). *)
CancelledForThisCall ==
  \A c \in Caller : call[c].result = "cancelled" => call[c].asked

(* A cancellation that finds a session working ends it, although other      *)
(* callers keep trying the same engine (c_api.mm:1134-1137).                *)
CancelEndsWork ==
  \A c \in Caller : Is(c, "running") /\ Its(c) \in cancelled /\ call[c].kind # "unload"
                  ~> Is(c, "idle")

(* What the design says of an engine whose memory could not be cleaned up:  *)
(* it refuses requests until it is recreated.                               *)
WorkerRefuses ==
  [][\A c \in Caller : Begins(c) /\ Runs(c) => Its(c) \notin memory]_vars

(* What the design says of a session in quarantine: it is only destroyed,   *)
(* never used again by loading it.                                          *)
NotReusedByLoad ==
  [][\A c \in Caller : Begins(c) /\ call[c].kind = "load" => Its(c) \notin suspect]_vars
===============================================================================
