----------------------------- MODULE EngineProofs -----------------------------
(***************************************************************************)
(* Proofs about EngineApi, for any set of engines and of caller threads.   *)
(*                                                                         *)
(* The invariant says what a caller holds where it is in its call          *)
(* (Holding), whom the cancel flag was meant for (Asking), that memory in  *)
(* doubt is not deleted (UnprovenIsKept), and that once somebody knows of  *)
(* an unproven GPU the way to the GPU is empty (Stopped).                  *)
(***************************************************************************)
EXTENDS EngineApi, TLAPS

Calls == [pc : Pc, kind : Kinds \cup {"none"}, engine : Engine \cup {NoEngine},
          admitted : BOOLEAN, result : {"none", "cancelled", "quarantined"},
          asked : BOOLEAN]

(* A caller that has passed the execution mutex, before its session works.  *)
NearGpu(c) == Is(c, "lease") \/ Is(c, "admit") \/ (Is(c, "reset") /\ call[c].kind # "verify")

AtSession(c) == call[c].kind # "verify" /\ (Is(c, "running") \/ Is(c, "caught"))

(* What a caller holds, and which calls come where.                         *)
Holding ==
  \A c \in Caller :
    /\ Active(c) => Its(c) \in Engine /\ status[Its(c)] = "live"
    /\ call[c].pc \notin {"idle", "lock", "late"} => lock[Its(c)] = c
    /\ Is(c, "lock") \/ Is(c, "late") => lock[Its(c)] # c
    /\ call[c].pc \in {"lock", "execution", "lease", "admit", "reset", "running", "caught"}
         => call[c].kind \in Kinds
    /\ call[c].pc \in {"execution", "lease", "admit", "caught"} => call[c].kind # "verify"
    /\ call[c].pc \in {"lease", "admit", "reset", "caught"} => call[c].kind # "unload"
    /\ Is(c, "admit") => Runs(c)
    /\ NearGpu(c) \/ AtSession(c) => execution = c
    /\ call[c].kind # "unload" /\ (Is(c, "admit") \/ AtSession(c)) => lease = "here"
    /\ call[c].kind # "verify" /\ Is(c, "reset") => lease = "here"

(* A flag that is up after the reset was put up for this call.              *)
AfterTheReset(c) ==
  call[c].kind # "unload" /\ (Is(c, "running") \/ (Is(c, "admit") /\ call[c].kind = "generate"))

Asking ==
  \A c \in Caller : AfterTheReset(c) /\ Its(c) \in cancelled => call[c].asked

(* The quarantine of the process precedes everything that tells of it.      *)
Reporting ==
  \A c \in Caller :
    /\ Is(c, "unwind") /\ call[c].admitted => call[c].result = "quarantined"
    /\ Is(c, "unwind") /\ call[c].result = "quarantined" => quarantined /\ execution = c
    /\ ~Is(c, "unwind") /\ ~Is(c, "late") => call[c].result # "quarantined"

Known == told \/ \E c \in Caller : Is(c, "late")

Stopped == Known => quarantined /\ \A c \in Caller : ~NearGpu(c)

IInv ==
  TypeOK /\ Holding /\ Asking /\ Reporting /\ Stopped /\ UnprovenIsKept /\ CancelledForThisCall

LEMMA InitIInv == Init => IInv
<1> SUFFICES ASSUME Init PROVE IInv
  OBVIOUS
<1> USE DEF Init
<1>1. \A c \in Caller : call[c] = NoRequest
  OBVIOUS
<1>2. \A c \in Caller : ~Active(c) /\ call[c].kind = "none" /\ call[c].result = "none"
  BY <1>1 DEF NoRequest, Active, Is
<1>3. NoRequest \in Calls
  BY DEF NoRequest, Calls, Pc
<1>4. TypeOK
  BY <1>3, EngineAssumption DEF TypeOK, Calls
<1>5. Holding /\ Asking /\ Reporting
  BY <1>1, <1>2 DEF Holding, Asking, Reporting, NoRequest, Is, NearGpu, AtSession,
     AfterTheReset, Active
<1>6. Stopped
  BY <1>2 DEF Stopped, Known, Active, Is
<1>7. UnprovenIsKept /\ CancelledForThisCall
  BY <1>2 DEF UnprovenIsKept, CancelledForThisCall
<1> QED
  BY <1>4, <1>5, <1>6, <1>7 DEF IInv

(* The three ways in which the row of a caller changes.                     *)
LEMMA GotoRow ==
  ASSUME call \in [Caller -> Calls], NEW c \in Caller, NEW pc \in Pc, Goto(c, pc)
  PROVE  /\ call' \in [Caller -> Calls]
         /\ \A d \in Caller \ {c} : call'[d] = call[d]
         /\ call'[c] = [call[c] EXCEPT !.pc = pc]
BY DEF Goto, Calls

LEMMA LeaveRow ==
  ASSUME call \in [Caller -> Calls], NEW c \in Caller,
         NEW why \in {"none", "cancelled", "quarantined"}, Leave(c, why)
  PROVE  /\ call' \in [Caller -> Calls]
         /\ \A d \in Caller \ {c} : call'[d] = call[d]
         /\ call'[c].pc = "unwind" /\ call'[c].kind = "none" /\ call'[c].result = why
         /\ call'[c].engine = call[c].engine /\ call'[c].asked = call[c].asked
         /\ call'[c].admitted => why = "quarantined"
<1> DEFINE admitted == call[c].admitted /\ why = "quarantined"
           r == [call[c] EXCEPT !.pc = "unwind", !.kind = "none", !.result = why,
                                !.admitted = admitted]
<1>1. call' = [call EXCEPT ![c] = r]
  BY DEF Leave
<1>2. admitted \in BOOLEAN /\ (admitted => why = "quarantined")
  OBVIOUS
<1> HIDE DEF admitted
<1>3. r \in Calls /\ r.admitted = admitted
  BY <1>2 DEF Calls, Pc
<1>4. /\ r.pc = "unwind" /\ r.kind = "none" /\ r.result = why
      /\ r.engine = call[c].engine /\ r.asked = call[c].asked
  BY DEF Calls
<1> HIDE DEF r
<1>5. call'[c] = r /\ call' \in [Caller -> Calls] /\ \A d \in Caller \ {c} : call'[d] = call[d]
  BY <1>1, <1>3
<1> QED
  BY <1>2, <1>3, <1>4, <1>5

LEMMA ReturnRow ==
  ASSUME call \in [Caller -> Calls], NEW c \in Caller, Return(c)
  PROVE  /\ call' \in [Caller -> Calls]
         /\ \A d \in Caller \ {c} : call'[d] = call[d]
         /\ call'[c] = NoRequest
BY DEF Return, Calls, Pc, NoRequest

-----------------------------------------------------------------------------
(* One lemma per action.                                                    *)

(* Reporting is a property of one row at a time.                            *)
LEMMA ReportingRow ==
  ASSUME Reporting, NEW c \in Caller, \A d \in Caller \ {c} : call'[d] = call[d],
         quarantined => quarantined',
         \A d \in Caller \ {c} : execution = d => execution' = d,
         call'[c].pc = "unwind" /\ call'[c].admitted => call'[c].result = "quarantined",
         call'[c].pc = "unwind" /\ call'[c].result = "quarantined"
           => quarantined' /\ execution' = c,
         call'[c].pc # "unwind" /\ call'[c].pc # "late" => call'[c].result # "quarantined"
  PROVE  Reporting'
<1> SUFFICES ASSUME NEW d \in Caller
             PROVE  /\ Is(d, "unwind")' /\ call'[d].admitted => call'[d].result = "quarantined"
                    /\ Is(d, "unwind")' /\ call'[d].result = "quarantined"
                         => quarantined' /\ execution' = d
                    /\ ~Is(d, "unwind")' /\ ~Is(d, "late")' => call'[d].result # "quarantined"
  BY Zenon DEF Reporting
<1>1. CASE d = c
  BY <1>1 DEF Is
<1>2. CASE d # c
  BY <1>2 DEF Reporting, Is
<1> QED
  BY <1>1, <1>2

LEMMA StartKeeps ==
  ASSUME IInv, NEW c \in Caller, NEW kind \in Kinds, NEW e \in Engine, Start(c, kind, e)
  PROVE  IInv'
<1> USE DEF IInv
<1>1. /\ call' \in [Caller -> Calls]
      /\ \A d \in Caller \ {c} : call'[d] = call[d]
      /\ call'[c] = [NoRequest EXCEPT !.pc = "lock", !.kind = kind, !.engine = e]
  BY DEF Start, TypeOK, Calls, NoRequest, Pc
<1>2. /\ call'[c].pc = "lock" /\ call'[c].kind = kind /\ call'[c].engine = e
      /\ call'[c].result = "none"
  BY <1>1 DEF NoRequest
<1>3. UNCHANGED <<status, suspect, memory, locks, quarantined, cancelled, told>>
  BY DEF Start
<1> USE DEF locks, Is, Its, Active
<1>4. TypeOK'
  BY <1>1, <1>2, <1>3 DEF TypeOK, Calls, Start
<1>10. lock[e] # c
  BY EngineAssumption DEF Start, TypeOK
<1>5. Holding'
  BY <1>1, <1>2, <1>3, <1>10 DEF Holding, NearGpu, AtSession, Runs, Start
<1>6. Asking'
  BY <1>1, <1>2, <1>3 DEF Asking, AfterTheReset
<1>7. Reporting'
  BY <1>1, <1>2, <1>3, ReportingRow
<1>8. Stopped'
  BY <1>1, <1>2, <1>3 DEF Stopped, Known, NearGpu
<1>9. UnprovenIsKept' /\ CancelledForThisCall'
  BY <1>1, <1>2, <1>3 DEF UnprovenIsKept, CancelledForThisCall
<1> QED
  BY <1>4, <1>5, <1>6, <1>7, <1>8, <1>9

(* A call that is over before it held its engine, or with the last cleanup. *)
LEMMA ReturnKeeps ==
  ASSUME IInv, NEW c \in Caller, Is(c, "lock") \/ Is(c, "late"), Return(c),
         \A e \in Engine : lock[e] # c,
         memory' \subseteq Engine, told' \in BOOLEAN,
         told' => told \/ Is(c, "late"), told => told',
         Is(c, "late") => told',
         UNCHANGED <<status, suspect, locks, quarantined, cancelled>>
  PROVE  IInv'
<1> USE DEF IInv, locks, Is, Its, Active
<1>1. /\ call' \in [Caller -> Calls]
      /\ \A d \in Caller \ {c} : call'[d] = call[d]
      /\ call'[c] = NoRequest
  BY ReturnRow DEF TypeOK, Calls
<1>2. call'[c].pc = "idle" /\ call'[c].result = "none"
  BY <1>1 DEF NoRequest
<1>3. TypeOK'
  BY <1>1, <1>2 DEF TypeOK, Calls
<1>4. Holding'
  BY <1>1, <1>2 DEF Holding, NearGpu, AtSession, Runs
<1>5. Asking' /\ Reporting'
  BY <1>1, <1>2 DEF Asking, AfterTheReset, Reporting
<1>6. Stopped'
  BY <1>1, <1>2 DEF Stopped, Known, NearGpu
<1>7. UnprovenIsKept' /\ CancelledForThisCall'
  BY <1>1, <1>2 DEF UnprovenIsKept, CancelledForThisCall
<1> QED
  BY <1>3, <1>4, <1>5, <1>6, <1>7

(* A call that gives up while it holds its engine, and tells nobody of a    *)
(* quarantine.  The session, or the engine, may have become doubtful.       *)
LEMMA LeaveKeeps ==
  ASSUME IInv, NEW c \in Caller, NEW why \in {"none", "cancelled"},
         lock[Its(c)] = c \/ (Is(c, "lock") /\ lock[Its(c)] = NoCaller),
         Active(c), ~Is(c, "late"), Leave(c, why),
         why = "cancelled" => call[c].asked,
         lock' = [lock EXCEPT ![Its(c)] = c],
         execution' = execution \/ (execution = NoCaller /\ execution' = c),
         suspect' \subseteq suspect \cup {Its(c)}, memory' \subseteq memory \cup {Its(c)},
         UNCHANGED <<status, lease, quarantined, cancelled, told>>
  PROVE  IInv'
<1> USE DEF IInv, Is, Its, Active
<1>1. /\ call' \in [Caller -> Calls]
      /\ \A d \in Caller \ {c} : call'[d] = call[d]
      /\ call'[c].pc = "unwind" /\ call'[c].kind = "none" /\ call'[c].result = why
      /\ call'[c].engine = call[c].engine /\ call'[c].asked = call[c].asked
      /\ ~call'[c].admitted
  BY LeaveRow DEF TypeOK, Calls
<1>2. call[c].engine \in Engine /\ status[call[c].engine] = "live"
  BY DEF Holding
<1>3. TypeOK'
  BY <1>1, <1>2 DEF TypeOK, Calls
<1>4. Holding'
  BY <1>1, <1>2, EngineAssumption DEF Holding, NearGpu, AtSession, Runs, TypeOK
<1>5. Asking'
  BY <1>1 DEF Asking, AfterTheReset
<1>8. Reporting'
  BY <1>1, EngineAssumption, ReportingRow DEF TypeOK
<1>6. Stopped'
  BY <1>1 DEF Stopped, Known, NearGpu
<1>7. UnprovenIsKept' /\ CancelledForThisCall'
  BY <1>1, <1>2 DEF UnprovenIsKept, CancelledForThisCall
<1> QED
  BY <1>3, <1>4, <1>5, <1>6, <1>7, <1>8

(* A call that goes on: what it must hold where it arrives.                 *)
LEMMA MoveKeeps ==
  ASSUME IInv, NEW c \in Caller, Active(c), ~Is(c, "unwind"), ~Is(c, "late"),
         lock[Its(c)] = c \/ (Is(c, "lock") /\ lock[Its(c)] = NoCaller),
         NEW pc \in {"execution", "lease", "admit", "reset", "running", "caught"},
         call' \in [Caller -> Calls], \A d \in Caller \ {c} : call'[d] = call[d],
         call'[c].pc = pc, call'[c].kind = call[c].kind, call'[c].engine = call[c].engine,
         call'[c].asked = call[c].asked, call'[c].result = call[c].result,
         pc \in {"execution", "lease", "admit", "caught"} => call[c].kind # "verify",
         pc \in {"lease", "admit", "reset", "caught"} => call[c].kind # "unload",
         pc = "admit" => Runs(c),
         pc # "execution" /\ call[c].kind # "verify" => execution' = c,
         pc \in {"admit", "reset", "running", "caught"} /\ call[c].kind \notin {"verify", "unload"}
           => lease' = "here",
         AfterTheReset(c)' /\ Its(c) \in cancelled' => call[c].asked,
         pc \in {"lease", "admit", "reset"} /\ call[c].kind # "verify" => NearGpu(c) \/ ~quarantined,
         lock' = [lock EXCEPT ![Its(c)] = c],
         execution' = execution \/ (execution = NoCaller /\ execution' = c),
         lease' = lease \/ (lease = "free" /\ lease' = "here" /\ execution' = c),
         cancelled' \subseteq cancelled,
         UNCHANGED <<status, suspect, memory, quarantined, told>>
  PROVE  IInv'
<1> USE DEF IInv, Is, Its, Active
<1>1. call[c].engine \in Engine /\ status[call[c].engine] = "live" /\ call[c].kind \in Kinds
  BY DEF Holding, TypeOK, Calls, Pc
<1>2. \A d \in Caller \ {c} : execution = d => execution' = d
  BY EngineAssumption
<1>3. TypeOK'
  BY <1>1, EngineAssumption DEF TypeOK, Calls
<1>4. Holding'
  BY <1>1, <1>2, EngineAssumption DEF Holding, NearGpu, AtSession, Runs, TypeOK
<1>5. Asking'
  BY <1>1 DEF Asking, AfterTheReset
<1>6. Reporting'
  <2>1. call[c].result # "quarantined"
    BY DEF Reporting
  <2> QED
    BY <2>1, <1>2, ReportingRow
<1>7. Stopped'
  BY DEF Stopped, Known, NearGpu
<1>8. UnprovenIsKept' /\ CancelledForThisCall'
  BY DEF UnprovenIsKept, CancelledForThisCall
<1> QED
  BY <1>3, <1>4, <1>5, <1>6, <1>7, <1>8

LEMMA LockEngineKeeps ==
  ASSUME IInv, NEW c \in Caller, LockEngine(c)
  PROVE  IInv'
<1> USE DEF Its
<1>1. /\ UNCHANGED <<status, suspect, memory, execution, lease, quarantined, cancelled, told>>
      /\ Is(c, "lock") /\ Active(c)
  BY DEF LockEngine, Is, Active
<1>2. /\ call \in [Caller -> Calls] /\ call[c].engine \in Engine /\ call[c].kind \in Kinds
      /\ call[c].result # "quarantined"
  BY <1>1 DEF IInv, TypeOK, Calls, Holding, Reporting, Is
<1>3. CASE lock[Its(c)] # NoCaller
  <2>1. Return(c) /\ UNCHANGED lock
    BY <1>3 DEF LockEngine
  <2>2. \A e \in Engine : lock[e] # c
    BY <1>1, EngineAssumption DEF IInv, TypeOK, Holding, Is, Active
  <2> QED
    BY <1>1, <2>1, <2>2, ReturnKeeps DEF IInv, TypeOK, locks, Is
<1>4. CASE lock[Its(c)] = NoCaller
  <2>1. lock' = [lock EXCEPT ![Its(c)] = c] /\ Enter(c, AfterLock(c))
    BY <1>4 DEF LockEngine
  <2>2. CASE quarantined
    <3>1. Leave(c, "none")
      BY <2>1, <2>2 DEF Enter
    <3> QED
      BY <1>1, <1>4, <2>1, <3>1, LeaveKeeps DEF Is
  <2>3. CASE ~quarantined
    <3>1. Goto(c, AfterLock(c)) /\ AfterLock(c) \in {"reset", "execution"}
      BY <2>1, <2>3 DEF Enter, AfterLock
    <3>2. AfterLock(c) = "reset" <=> call[c].kind = "verify"
      BY DEF AfterLock
    <3>3. /\ call' \in [Caller -> Calls] /\ \A d \in Caller \ {c} : call'[d] = call[d]
          /\ call'[c] = [call[c] EXCEPT !.pc = AfterLock(c)]
      BY <1>2, <3>1, GotoRow DEF Pc
    <3>4. /\ call'[c].pc = AfterLock(c) /\ call'[c].kind = call[c].kind
          /\ call'[c].engine = call[c].engine /\ call'[c].asked = call[c].asked
          /\ call'[c].result = call[c].result
      BY <1>2, <3>3 DEF Calls
    <3>5. ~AfterTheReset(c)'
      BY <3>1, <3>4 DEF AfterTheReset, Is
    <3> HIDE DEF AfterLock
    <3> QED
      BY <1>1, <1>2, <1>4, <2>1, <2>3, <3>1, <3>2, <3>3, <3>4, <3>5, MoveKeeps DEF Is
  <2> QED
    BY <2>2, <2>3
<1> QED
  BY <1>3, <1>4

(* What is known of a call that holds its engine.                           *)
LEMMA RowFacts ==
  ASSUME IInv, NEW c \in Caller, Active(c), ~Is(c, "unwind"), ~Is(c, "late")
  PROVE  /\ call \in [Caller -> Calls] /\ call[c] \in Calls
         /\ call[c].engine \in Engine /\ call[c].kind \in Kinds
         /\ call[c].result # "quarantined"
         /\ call[c].result = "cancelled" => call[c].asked
         /\ ~Is(c, "lock") => lock[Its(c)] = c /\ lock = [lock EXCEPT ![Its(c)] = c]
BY DEF IInv, TypeOK, Calls, Holding, Reporting, Is, Its, Active, CancelledForThisCall, Pc

(* The row of a call that only goes to another place.                       *)
LEMMA MovedRow ==
  ASSUME call \in [Caller -> Calls], NEW c \in Caller, NEW pc \in Pc, Goto(c, pc)
  PROVE  /\ call' \in [Caller -> Calls] /\ \A d \in Caller \ {c} : call'[d] = call[d]
         /\ call'[c].pc = pc /\ call'[c].kind = call[c].kind
         /\ call'[c].engine = call[c].engine /\ call'[c].asked = call[c].asked
         /\ call'[c].result = call[c].result
<1>1. /\ call' \in [Caller -> Calls] /\ \A d \in Caller \ {c} : call'[d] = call[d]
      /\ call'[c] = [call[c] EXCEPT !.pc = pc]
  BY GotoRow
<1>2. call[c] \in Calls
  OBVIOUS
<1> QED
  BY <1>1, <1>2 DEF Calls

LEMMA LockExecutionKeeps ==
  ASSUME IInv, NEW c \in Caller, LockExecution(c)
  PROVE  IInv'
<1>1. /\ UNCHANGED <<status, suspect, memory, lock, lease, quarantined, cancelled, told>>
      /\ Is(c, "execution") /\ Active(c) /\ ~Is(c, "unwind") /\ ~Is(c, "late") /\ ~Is(c, "lock")
  BY DEF LockExecution, Is, Active
<1>2. call[c].kind # "verify" /\ (execution = c => execution # NoCaller)
  BY <1>1, EngineAssumption DEF IInv, Holding, Is
<1>3. CASE Leave(c, "none") /\ (UNCHANGED execution \/ (execution = NoCaller /\ execution' = c))
  BY <1>1, <1>3, RowFacts, LeaveKeeps
<1>4. CASE /\ Goto(c, AfterExecution(c)) /\ ~quarantined
           /\ execution = NoCaller /\ execution' = c
  <2>1. AfterExecution(c) = IF call[c].kind = "unload" THEN "running" ELSE "lease"
    BY DEF AfterExecution, Begun, Runs
  <2>2. AfterExecution(c) \in Pc
    BY <2>1 DEF Pc
  <2> HIDE DEF AfterExecution
  <2>3. /\ call' \in [Caller -> Calls] /\ \A d \in Caller \ {c} : call'[d] = call[d]
        /\ call'[c].pc = AfterExecution(c) /\ call'[c].kind = call[c].kind
        /\ call'[c].engine = call[c].engine /\ call'[c].asked = call[c].asked
        /\ call'[c].result = call[c].result
    BY <1>1, <1>4, <2>2, RowFacts, MovedRow
  <2>4. ~AfterTheReset(c)'
    BY <2>1, <2>3 DEF AfterTheReset, Is
  <2> QED
    BY <1>1, <1>2, <1>4, <2>1, <2>3, <2>4, RowFacts, MoveKeeps
<1> QED
  BY <1>3, <1>4 DEF LockExecution, Enter

LEMMA TakeLeaseKeeps ==
  ASSUME IInv, NEW c \in Caller, TakeLease(c)
  PROVE  IInv'
<1>1. /\ UNCHANGED <<status, suspect, memory, lock, execution, quarantined, cancelled, told>>
      /\ Is(c, "lease") /\ Active(c) /\ ~Is(c, "unwind") /\ ~Is(c, "late") /\ ~Is(c, "lock")
  BY DEF TakeLease, Is, Active
<1>2. /\ NearGpu(c) /\ execution = c /\ call[c].kind \notin {"verify", "unload"}
  BY <1>1 DEF IInv, Holding, NearGpu, Is
<1>3. CASE Leave(c, "none") /\ UNCHANGED lease
  BY <1>1, <1>3, RowFacts, LeaveKeeps
<1>4. ASSUME NEW pc \in {"reset", "admit"}, Goto(c, pc), lease = "free", lease' = "here",
             pc = "admit" => call[c].kind = "prepare"
      PROVE  IInv'
  <2>1. /\ call' \in [Caller -> Calls] /\ \A d \in Caller \ {c} : call'[d] = call[d]
        /\ call'[c].pc = pc /\ call'[c].kind = call[c].kind
        /\ call'[c].engine = call[c].engine /\ call'[c].asked = call[c].asked
        /\ call'[c].result = call[c].result
    BY <1>1, <1>4, RowFacts, MovedRow DEF Pc
  <2>2. ~AfterTheReset(c)'
    BY <1>4, <2>1 DEF AfterTheReset, Is
  <2> QED
    BY <1>1, <1>2, <1>4, <2>1, <2>2, RowFacts, MoveKeeps DEF Runs
<1> QED
  BY <1>3, <1>4 DEF TakeLease

LEMMA ResetKeeps ==
  ASSUME IInv, NEW c \in Caller, Reset(c)
  PROVE  IInv'
<1>1. /\ UNCHANGED <<status, suspect, memory, lock, execution, lease, quarantined, told>>
      /\ cancelled' = cancelled \ {Its(c)}
      /\ Is(c, "reset") /\ Active(c) /\ ~Is(c, "unwind") /\ ~Is(c, "late") /\ ~Is(c, "lock")
  BY DEF Reset, Is, Active, locks
<1>2. /\ call[c].kind # "unload"
      /\ call[c].kind # "verify" => NearGpu(c) /\ execution = c /\ lease = "here"
  BY <1>1 DEF IInv, Holding, NearGpu, Is
<1>3. PICK pc \in {"running", "caught", "admit"} :
        /\ Goto(c, pc)
        /\ pc = "caught" => Runs(c)
        /\ pc = "admit" => call[c].kind = "generate"
  BY DEF Reset, AfterReset, Begun
<1>4. /\ call' \in [Caller -> Calls] /\ \A d \in Caller \ {c} : call'[d] = call[d]
      /\ call'[c].pc = pc /\ call'[c].kind = call[c].kind
      /\ call'[c].engine = call[c].engine /\ call'[c].asked = call[c].asked
      /\ call'[c].result = call[c].result
  BY <1>1, <1>3, RowFacts, MovedRow DEF Pc
<1> QED
  BY <1>1, <1>2, <1>3, <1>4, RowFacts, MoveKeeps DEF Runs

LEMMA AdmitKeeps ==
  ASSUME IInv, NEW c \in Caller, Admit(c)
  PROVE  IInv'
<1>1. /\ UNCHANGED <<status, memory, lock, execution, lease, quarantined, cancelled, told>>
      /\ Is(c, "admit") /\ Active(c) /\ ~Is(c, "unwind") /\ ~Is(c, "late") /\ ~Is(c, "lock")
  BY DEF Admit, Is, Active, locks
<1>2. /\ call[c].kind \notin {"unload", "verify"}
      /\ NearGpu(c) /\ execution = c /\ lease = "here"
  BY <1>1 DEF IInv, Holding, NearGpu, Is
<1>6. Runs(c)
  BY <1>1 DEF IInv, Holding
<1>3. CASE Leave(c, "none") /\ suspect' \subseteq suspect \cup {Its(c)}
  BY <1>1, <1>3, RowFacts, LeaveKeeps
<1>4. ASSUME NEW pc \in {"reset", "running", "caught"},
             call' = [call EXCEPT ![c].admitted = TRUE, ![c].pc = pc],
             pc = "reset" <=> call[c].kind = "prepare", UNCHANGED suspect
      PROVE  IInv'
  <2>1. call \in [Caller -> Calls] /\ call[c] \in Calls
    BY <1>1, RowFacts
  <2>2. /\ call' \in [Caller -> Calls] /\ \A d \in Caller \ {c} : call'[d] = call[d]
        /\ call'[c] = [call[c] EXCEPT !.admitted = TRUE, !.pc = pc]
    BY <1>4, <2>1 DEF Calls, Pc
  <2>3. /\ call'[c].pc = pc /\ call'[c].kind = call[c].kind
        /\ call'[c].engine = call[c].engine /\ call'[c].asked = call[c].asked
        /\ call'[c].result = call[c].result
    BY <2>1, <2>2 DEF Calls
  <2>4. AfterTheReset(c)' /\ Its(c) \in cancelled' => call[c].asked
    <3>1. CASE call[c].kind = "prepare"
      BY <3>1, <1>4, <2>3 DEF AfterTheReset, Is
    <3>2. CASE call[c].kind # "prepare"
      BY <1>1, <1>6, <3>2 DEF IInv, Asking, AfterTheReset, Runs
    <3> QED
      BY <3>1, <3>2
  <2> QED
    BY <1>1, <1>2, <1>4, <2>2, <2>3, <2>4, RowFacts, MoveKeeps
<1>5. Begun(c) \in {"running", "caught"}
  BY DEF Begun
<1> QED
  BY <1>3, <1>4, <1>5 DEF Admit, UnloadFails

LEMMA SessionEndsKeeps ==
  ASSUME IInv, NEW c \in Caller, SessionEnds(c)
  PROVE  IInv'
<1>1. /\ UNCHANGED <<status, memory, lock, execution, lease, quarantined, cancelled, told>>
      /\ Is(c, "running") /\ Active(c) /\ ~Is(c, "unwind") /\ ~Is(c, "late") /\ ~Is(c, "lock")
  BY DEF SessionEnds, Is, Active, locks
<1>2. PICK why \in {"none", "cancelled"} :
        /\ why = "cancelled" => Its(c) \in cancelled /\ call[c].kind # "unload"
        /\ Leave(c, why) \/ (Runs(c) /\ call' = [call EXCEPT ![c].pc = "caught", ![c].result = why])
  BY DEF SessionEnds, Succeeds, FailsDrained, StopsCancelled, FailsUndrained, Fails
<1>3. suspect' \subseteq suspect \cup {Its(c)}
  BY DEF SessionEnds, Succeeds, FailsDrained, StopsCancelled, FailsUndrained, UnloadFails
<1>4. why = "cancelled" => call[c].asked
  BY <1>1, <1>2 DEF IInv, Asking, AfterTheReset
<1>5. CASE Leave(c, why)
  BY <1>1, <1>3, <1>4, <1>5, RowFacts, LeaveKeeps
<1>6. CASE Runs(c) /\ call' = [call EXCEPT ![c].pc = "caught", ![c].result = why]
  <2> USE DEF IInv
  <2>1. /\ call \in [Caller -> Calls] /\ call[c] \in Calls /\ call[c].engine \in Engine
        /\ lock[Its(c)] = c
    BY <1>1, RowFacts
  <2>2. call' \in [Caller -> Calls] /\ \A d \in Caller \ {c} : call'[d] = call[d]
    BY <1>6, <2>1 DEF Calls, Pc
  <2>3. /\ call'[c].pc = "caught" /\ call'[c].kind = call[c].kind
        /\ call'[c].engine = call[c].engine /\ call'[c].asked = call[c].asked
        /\ call'[c].result = why
    BY <1>6, <2>1 DEF Calls
  <2>4. call[c].kind \notin {"verify", "unload"} /\ status[Its(c)] = "live"
    BY <1>1, <1>6 DEF Runs, Holding, Active
  <2> USE DEF Is, Its, Active
  <2>5. TypeOK'
    BY <1>1, <1>3, <2>1, <2>2, <2>3 DEF TypeOK, Calls
  <2>6. Holding'
    BY <1>1, <1>6, <2>1, <2>2, <2>3, <2>4 DEF Holding, NearGpu, AtSession, Runs
  <2>7. Asking'
    BY <1>1, <2>2, <2>3 DEF Asking, AfterTheReset
  <2>8. Reporting'
    BY <1>1, <1>2, <2>2, <2>3, ReportingRow
  <2>9. Stopped'
    BY <1>1, <2>2, <2>3 DEF Stopped, Known, NearGpu
  <2>10. UnprovenIsKept' /\ CancelledForThisCall'
    BY <1>1, <1>3, <1>4, <2>1, <2>2, <2>3, <2>4 DEF UnprovenIsKept, CancelledForThisCall
  <2> QED
    BY <2>5, <2>6, <2>7, <2>8, <2>9, <2>10
<1> QED
  BY <1>2, <1>5, <1>6

LEMMA CaughtKeeps ==
  ASSUME IInv, NEW c \in Caller, Caught(c)
  PROVE  IInv'
<1>1. /\ UNCHANGED <<status, lock, execution, lease, cancelled, told>>
      /\ Is(c, "caught") /\ Active(c) /\ ~Is(c, "unwind") /\ ~Is(c, "late") /\ ~Is(c, "lock")
  BY DEF Caught, Is, Active, locks
<1>2. /\ call \in [Caller -> Calls] /\ call[c] \in Calls /\ call[c].engine \in Engine
      /\ lock[Its(c)] = c /\ call[c].result \in {"none", "cancelled"}
      /\ call[c].result = "cancelled" => call[c].asked
  BY <1>1, RowFacts DEF Calls
<1>3. CASE /\ Leave(c, call[c].result) /\ UNCHANGED quarantined
           /\ suspect' \subseteq suspect \cup {Its(c)} /\ memory' \subseteq memory \cup {Its(c)}
  BY <1>1, <1>2, <1>3, RowFacts, LeaveKeeps
<1>4. CASE quarantined' = TRUE /\ Leave(c, "quarantined") /\ UNCHANGED <<suspect, memory>>
  <2> USE DEF IInv, Is, Its, Active
  <2>1. /\ call' \in [Caller -> Calls]
        /\ \A d \in Caller \ {c} : call'[d] = call[d]
        /\ call'[c].pc = "unwind" /\ call'[c].kind = "none" /\ call'[c].result = "quarantined"
        /\ call'[c].engine = call[c].engine
    BY <1>2, <1>4, LeaveRow
  <2>2. execution = c /\ status[Its(c)] = "live"
    BY <1>1 DEF Holding, AtSession
  <2>3. TypeOK'
    BY <1>1, <1>2, <1>4, <2>1 DEF TypeOK, Calls
  <2>4. Holding'
    BY <1>1, <1>2, <2>1, <2>2 DEF Holding, NearGpu, AtSession, Runs
  <2>5. Asking'
    BY <1>1, <2>1 DEF Asking, AfterTheReset
  <2>6. Reporting'
    BY <1>1, <1>4, <2>1, <2>2, ReportingRow
  <2>7. Stopped'
    BY <1>1, <1>4, <2>1 DEF Stopped, Known, NearGpu
  <2>8. UnprovenIsKept' /\ CancelledForThisCall'
    BY <1>1, <1>4, <2>1 DEF UnprovenIsKept, CancelledForThisCall
  <2> QED
    BY <2>3, <2>4, <2>5, <2>6, <2>7, <2>8
<1> QED
  BY <1>3, <1>4 DEF Caught, UnloadFails

LEMMA UnwindKeeps ==
  ASSUME IInv, NEW c \in Caller, Unwind(c)
  PROVE  IInv'
<1> USE DEF IInv, Is, Its, Active
<1>1. /\ UNCHANGED <<status, suspect, memory, quarantined, cancelled>>
      /\ lease' = IF execution = c /\ lease = "here" THEN "free" ELSE lease
      /\ execution' = IF execution = c THEN NoCaller ELSE execution
      /\ lock' = [lock EXCEPT ![Its(c)] = NoCaller]
      /\ call[c].pc = "unwind"
  BY DEF Unwind
<1>2. /\ call \in [Caller -> Calls] /\ call[c] \in Calls
      /\ call[c].engine \in Engine /\ status[call[c].engine] = "live"
      /\ lock[call[c].engine] = c
  BY <1>1 DEF TypeOK, Calls, Holding
<1>3. \A d \in Caller \ {c} : (execution = d => execution' = d /\ lease' = lease)
  BY <1>1
<1>4. PICK pc \in {"idle", "late"} :
        /\ call' \in [Caller -> Calls] /\ \A d \in Caller \ {c} : call'[d] = call[d]
        /\ call'[c].pc = pc
        /\ pc = "late" => call'[c].engine = call[c].engine
        /\ call'[c].result = "cancelled" => call'[c].asked
        /\ pc = "late" => call[c].result = "quarantined" /\ told' = told
        /\ pc = "idle" => call'[c].result = "none"
        /\ pc = "idle" /\ told' => told \/ call[c].result = "quarantined"
        /\ told' \in BOOLEAN
  <2>1. told' = (told \/ (~call[c].admitted /\ call[c].result = "quarantined"))
    BY DEF Unwind
  <2>2. CASE call[c].admitted
    <3>1. Goto(c, "late") /\ call[c].result = "quarantined"
      BY <1>1, <2>2, Zenon DEF Unwind, Reporting
    <3>2. told' = told
      BY <2>1, <2>2 DEF TypeOK
    <3>3. /\ call' \in [Caller -> Calls] /\ \A d \in Caller \ {c} : call'[d] = call[d]
          /\ call'[c].pc = "late" /\ call'[c].engine = call[c].engine
          /\ call'[c].result = call[c].result
      BY <1>2, <3>1, MovedRow DEF Pc
    <3> QED
      BY <3>1, <3>2, <3>3 DEF TypeOK
  <2>3. CASE ~call[c].admitted
    <3>1. Return(c)
      BY <2>3 DEF Unwind
    <3>2. /\ call' \in [Caller -> Calls] /\ \A d \in Caller \ {c} : call'[d] = call[d]
          /\ call'[c].pc = "idle" /\ call'[c].result = "none"
      BY <1>2, <3>1, ReturnRow DEF NoRequest
    <3> QED
      BY <2>1, <3>2 DEF TypeOK
  <2> QED
    BY <2>2, <2>3
<1>5. TypeOK'
  BY <1>1, <1>2, <1>4, EngineAssumption DEF TypeOK, Calls
<1>6. Holding'
  BY <1>1, <1>2, <1>3, <1>4, EngineAssumption DEF Holding, NearGpu, AtSession, Runs, TypeOK
<1>7. Asking'
  BY <1>1, <1>4 DEF Asking, AfterTheReset
<1>8. Reporting'
  BY <1>1, <1>3, <1>4, ReportingRow
<1>9. Stopped'
  <2>1. CASE call[c].result = "quarantined"
    <3>1. quarantined /\ execution = c
      BY <1>1, <2>1 DEF Reporting
    <3>2. \A d \in Caller : ~NearGpu(d)'
      BY <1>1, <1>4, <3>1 DEF Holding, NearGpu
    <3> QED
      BY <1>1, <3>1, <3>2 DEF Stopped
  <2>2. CASE call[c].result # "quarantined"
    BY <1>1, <1>4, <2>2 DEF Stopped, Known, NearGpu
  <2> QED
    BY <2>1, <2>2
<1>10. UnprovenIsKept' /\ CancelledForThisCall'
  BY <1>1, <1>4 DEF UnprovenIsKept, CancelledForThisCall
<1> QED
  BY <1>5, <1>6, <1>7, <1>8, <1>9, <1>10

LEMMA LateCleanupKeeps ==
  ASSUME IInv, NEW c \in Caller, LateCleanup(c)
  PROVE  IInv'
<1>1. /\ UNCHANGED <<status, suspect, locks, quarantined, cancelled>>
      /\ Is(c, "late") /\ Return(c) /\ told' = TRUE
      /\ memory' \in {memory, memory \cup {Its(c)}}
  BY DEF LateCleanup
<1>2. Its(c) \in Engine /\ Active(c)
  BY <1>1 DEF IInv, Holding, Is, Active
<1>3. \A e \in Engine : lock[e] # c
  BY <1>1, EngineAssumption DEF IInv, TypeOK, Holding, Is, Active
<1>4. memory' \subseteq Engine
  BY <1>1, <1>2 DEF IInv, TypeOK
<1> QED
  BY <1>1, <1>3, <1>4, ReturnKeeps DEF IInv, TypeOK

LEMMA CancelKeeps ==
  ASSUME IInv, NEW e \in Engine, Cancel(e)
  PROVE  IInv'
<1> USE DEF IInv, locks
<1>1. UNCHANGED <<status, suspect, memory, lock, execution, lease, quarantined, told>>
  BY DEF Cancel
<1>2. ASSUME NEW d \in Caller
      PROVE  /\ call'[d] \in Calls
             /\ call'[d].pc = call[d].pc /\ call'[d].kind = call[d].kind
             /\ call'[d].engine = call[d].engine /\ call'[d].result = call[d].result
             /\ call'[d].admitted = call[d].admitted
             /\ call'[d].asked = (IF Active(d) /\ Its(d) = e THEN TRUE ELSE call[d].asked)
  <2>1. call[d] \in Calls
    BY DEF TypeOK, Calls
  <2>2. CASE Active(d) /\ Its(d) = e
    <3>1. call'[d] = [call[d] EXCEPT !.asked = TRUE]
      BY <2>2 DEF Cancel
    <3> QED
      BY <2>1, <2>2, <3>1 DEF Calls
  <2>3. CASE ~(Active(d) /\ Its(d) = e)
    <3>1. call'[d] = call[d]
      BY <2>3, Zenon DEF Cancel
    <3> QED
      BY <2>1, <2>3, <3>1
  <2> QED
    BY <2>2, <2>3
<1>3. call' \in [Caller -> Calls]
  <2>1. call' = [d \in Caller |-> IF Active(d) /\ Its(d) = e THEN [call[d] EXCEPT !.asked = TRUE]
                                                             ELSE call[d]]
    BY DEF Cancel
  <2> QED
    BY <1>2, <2>1
<1>10. \A d \in Caller : /\ call'[d].pc = call[d].pc /\ call'[d].kind = call[d].kind
                        /\ call'[d].engine = call[d].engine
  BY <1>2
<1> USE DEF Is, Its, Active
<1>4. TypeOK'
  <2>1. cancelled' \subseteq Engine
    BY DEF Cancel, TypeOK
  <2>2. call' \in [Caller -> Calls]
    BY <1>3
  <2> QED
    BY <1>1, <1>10, <2>1, <2>2 DEF TypeOK, Calls
<1>5. Holding'
  BY <1>1, <1>10 DEF Holding, NearGpu, AtSession, Runs
<1>6. Asking' /\ CancelledForThisCall'
  <2>1. cancelled' = cancelled \cup {e}
    BY DEF Cancel
  <2> SUFFICES ASSUME NEW d \in Caller
               PROVE  /\ AfterTheReset(d)' /\ Its(d)' \in cancelled' => call'[d].asked
                      /\ call'[d].result = "cancelled" => call'[d].asked
    BY Zenon DEF Asking, CancelledForThisCall
  <2>2. CASE Active(d) /\ Its(d) = e
    BY <1>2, <2>2
  <2>3. CASE ~(Active(d) /\ Its(d) = e)
    <3>1. call'[d].asked = call[d].asked
      BY <1>2, <2>3, Zenon
    <3>2. AfterTheReset(d)' => AfterTheReset(d) /\ Active(d)
      BY <1>2 DEF AfterTheReset
    <3> QED
      BY <1>2, <2>1, <2>3, <3>1, <3>2 DEF Asking, CancelledForThisCall
  <2> QED
    BY <2>2, <2>3
<1>7. Reporting'
  BY <1>1, <1>2, Zenon DEF Reporting
<1>8. Stopped'
  BY <1>1, <1>2 DEF Stopped, Known, NearGpu
<1>9. UnprovenIsKept'
  BY <1>1 DEF UnprovenIsKept
<1> QED
  BY <1>4, <1>5, <1>6, <1>7, <1>8, <1>9

LEMMA FreeKeeps ==
  ASSUME IInv, NEW e \in Engine, Free(e)
  PROVE  IInv'
<1> USE DEF IInv, locks, Is, Its, Active
<1>1. /\ UNCHANGED <<call, suspect, lock, execution, lease, told>>
      /\ quarantined' = (quarantined \/ e \in suspect)
      /\ status' = [status EXCEPT ![e] = IF quarantined' THEN "retained" ELSE "deleted"]
      /\ cancelled' = cancelled \ {e} /\ memory' = memory \ {e}
  BY DEF Free
<1>2. \A c \in Caller : call[c].pc # "idle" => call[c].engine # e
  BY DEF Free
<1>3. quarantined' \in BOOLEAN /\ (quarantined => quarantined') /\ (e \in suspect => quarantined')
  BY <1>1
<1>4. \A d \in Engine : status'[d] = IF d = e THEN IF quarantined' THEN "retained" ELSE "deleted"
                                              ELSE status[d]
  BY <1>1 DEF TypeOK
<1>5. TypeOK'
  BY <1>1, <1>3 DEF TypeOK
<1>6. Holding'
  BY <1>1, <1>2, <1>4 DEF Holding, NearGpu, AtSession, Runs
<1>7. Asking' /\ CancelledForThisCall'
  BY <1>1 DEF Asking, AfterTheReset, CancelledForThisCall
<1>8. Reporting' /\ Stopped'
  BY <1>1, <1>3, Zenon DEF Reporting, Stopped, Known, NearGpu
<1>9. UnprovenIsKept'
  BY <1>1, <1>3, <1>4 DEF UnprovenIsKept, TypeOK
<1> QED
  BY <1>5, <1>6, <1>7, <1>8, <1>9

LEMMA OtherProcessKeeps ==
  ASSUME IInv, OtherProcess
  PROVE  IInv'
<1>1. /\ UNCHANGED <<call, status, suspect, memory, lock, execution, quarantined, cancelled, told>>
      /\ lease # "here" /\ lease' \in {"free", "elsewhere"}
  BY DEF OtherProcess
<1> USE DEF IInv, Is, Its, Active
<1>2. TypeOK'
  BY <1>1 DEF TypeOK
<1>3. Holding'
  BY <1>1 DEF Holding, NearGpu, AtSession, Runs
<1>4. Asking' /\ CancelledForThisCall' /\ UnprovenIsKept'
  BY <1>1 DEF Asking, AfterTheReset, CancelledForThisCall, UnprovenIsKept
<1>5. Reporting' /\ Stopped'
  BY <1>1, Zenon DEF Reporting, Stopped, Known, NearGpu
<1> QED
  BY <1>2, <1>3, <1>4, <1>5

LEMMA StutterKeeps ==
  ASSUME IInv, UNCHANGED vars
  PROVE  IInv'
BY DEF IInv, TypeOK, Holding, Asking, Reporting, Stopped, Known, UnprovenIsKept,
   CancelledForThisCall, vars, locks, Is, Its, Active, NearGpu, AtSession, AfterTheReset, Runs

LEMMA NextKeeps == IInv /\ [Next]_vars => IInv'
<1> SUFFICES ASSUME IInv, [Next]_vars PROVE IInv'
  OBVIOUS
<1>1. ASSUME NEW c \in Caller, Advance(c) PROVE IInv'
  BY <1>1, LockEngineKeeps, LockExecutionKeeps, TakeLeaseKeeps, ResetKeeps, AdmitKeeps,
     CaughtKeeps, UnwindKeeps, LateCleanupKeeps DEF Advance
<1> QED
  BY <1>1, StartKeeps, SessionEndsKeeps, CancelKeeps, FreeKeeps, OtherProcessKeeps,
     StutterKeeps DEF Next

-----------------------------------------------------------------------------

LEMMA Invariance == Spec => []IInv
BY InitIInv, NextKeeps, PTL DEF Spec

(* The state has its types, and mutexes and lease are held by calls that    *)
(* are in the place to hold them, whatever threads there are.               *)
THEOREM TypeCorrect == Spec => []TypeOK
BY Invariance, PTL DEF IInv

(* One session at a time is on the GPU of the process, and with the lease   *)
(* of the device unless it only unloads.                                    *)
THEOREM GpuExclusion == Spec => []OneSessionOnGpu
<1>1. IInv => OneSessionOnGpu
  BY DEF IInv, Holding, OneSessionOnGpu, OnGpu, AtSession
<1> QED
  BY <1>1, Invariance, PTL

(* Memory that the GPU may still use is never deleted.                      *)
THEOREM UnprovenMemoryKept == Spec => []UnprovenIsKept
BY Invariance, PTL DEF IInv

(* A request ends cancelled only by a cancellation made during it.          *)
THEOREM CancellationFits == Spec => []CancelledForThisCall
BY Invariance, PTL DEF IInv

(* Whoever begins to work was near the GPU already, has just looked at the  *)
(* flag, or verifies.                                                       *)
LEMMA WhoBegins ==
  ASSUME IInv, Next, NEW c \in Caller, Begins(c)
  PROVE  NearGpu(c) \/ ~quarantined \/ call[c].kind = "verify"
<1> USE DEF Begins, Is
<1>1. call \in [Caller -> Calls] /\ call[c] \in Calls
  BY DEF IInv, TypeOK, Calls
<1>2. ASSUME NEW d \in Caller, NEW kind \in Kinds, NEW e \in Engine, Start(d, kind, e)
      PROVE  FALSE
  BY <1>1, <1>2 DEF Start, NoRequest, Calls
<1>3. ASSUME NEW d \in Caller, NEW pc \in Pc, Goto(d, pc)
      PROVE  d = c /\ pc = "running" /\ call'[c].kind = call[c].kind
  BY <1>1, <1>3, MovedRow
<1>4. ASSUME NEW d \in Caller, NEW why \in {"none", "cancelled", "quarantined"}, Leave(d, why)
      PROVE  FALSE
  BY <1>1, <1>4, LeaveRow
<1>5. ASSUME NEW d \in Caller, Return(d)
      PROVE  FALSE
  BY <1>1, <1>5, ReturnRow DEF NoRequest
<1>6. ASSUME NEW d \in Caller, Advance(d)
      PROVE  NearGpu(c) \/ ~quarantined \/ call[c].kind = "verify"
  <2>1. CASE LockEngine(d)
    <3>1. AfterLock(d) \in Pc \ {"running"}
      BY DEF AfterLock, Pc
    <3> QED
      BY <2>1, <3>1, <1>3, <1>4, <1>5 DEF LockEngine, Enter
  <2>2. CASE LockExecution(d)
    BY <2>2, <1>4 DEF LockExecution, Enter
  <2>3. CASE TakeLease(d)
    BY <2>3, <1>3, <1>4 DEF TakeLease, Pc
  <2>4. CASE Reset(d)
    <3>1. Begun(d) \in Pc
      BY DEF Begun, Pc
    <3>2. d = c /\ call'[c].kind = call[c].kind
      BY <2>4, <3>1, <1>3 DEF Reset, AfterReset, Pc
    <3> QED
      BY <2>4, <3>2 DEF Reset, NearGpu
  <2>5. CASE Admit(d)
    <3>1. CASE d = c
      BY <2>5, <3>1 DEF Admit, NearGpu
    <3>2. CASE d # c
      BY <2>5, <3>2, <1>1, <1>4 DEF Admit
    <3> QED
      BY <3>1, <3>2
  <2>6. CASE Caught(d)
    <3>1. call[d].result \in {"none", "cancelled", "quarantined"}
      BY DEF IInv, TypeOK
    <3> QED
      BY <2>6, <3>1, <1>4 DEF Caught
  <2>7. CASE Unwind(d) \/ LateCleanup(d)
    BY <2>7, <1>3, <1>5 DEF Unwind, LateCleanup, Pc
  <2> QED
    BY <1>6, <2>1, <2>2, <2>3, <2>4, <2>5, <2>6, <2>7 DEF Advance
<1>7. ASSUME NEW d \in Caller, SessionEnds(d)
      PROVE  FALSE
  <2>1. PICK why \in {"none", "cancelled"} :
          Leave(d, why) \/ call' = [call EXCEPT ![d].pc = "caught", ![d].result = why]
    BY <1>7 DEF SessionEnds, Succeeds, FailsDrained, StopsCancelled, FailsUndrained, Fails
  <2> QED
    BY <2>1, <1>1, <1>4 DEF Calls
<1>8. ASSUME NEW e \in Engine, Cancel(e) \/ Free(e) \/ OtherProcess
      PROVE  FALSE
  BY <1>1, <1>8 DEF Cancel, Free, OtherProcess, Calls
<1>9. \/ \E d \in Caller : Advance(d) \/ SessionEnds(d)
      \/ \E d \in Caller, kind \in Kinds, e \in Engine : Start(d, kind, e)
      \/ \E e \in Engine : Cancel(e) \/ Free(e)
      \/ OtherProcess
  BY DEF Next
<1>10. ~OtherProcess
  BY DEF OtherProcess
<1> QED
  BY <1>2, <1>6, <1>7, <1>8, <1>9, <1>10

(* After a caller was told of an unproven GPU, no thread begins GPU work.   *)
THEOREM QuarantineStops == Spec => NoWorkAfterQuarantine
<1>1. ASSUME IInv, Next
      PROVE  \A c \in Caller : Begins(c) /\ call[c].kind # "verify" => ~told
  BY <1>1, WhoBegins DEF IInv, Stopped, Known
<1>2. IInv /\ [Next]_vars => [\A c \in Caller : Begins(c) /\ call[c].kind # "verify" => ~told]_vars
  BY <1>1
<1> QED
  BY <1>2, Invariance, PTL DEF Spec, NoWorkAfterQuarantine
===============================================================================
