------------------------------ MODULE MemoryProofs ------------------------------
(***************************************************************************)
(* Proofs about MemoryExecution, for any set of buffers and of plans and   *)
(* any size of the queues.                                                 *)
(*                                                                         *)
(* The invariant has four parts.  Charges: the bytes that are promised     *)
(* stay within the budget.  Queue: commands end in the order in which they *)
(* were committed, so that no completion overtakes a command that still    *)
(* uses its buffer.  Completions: a pending release is announced by        *)
(* exactly one command or message, or it is lost and then the loss is      *)
(* known.  Verdicts: what the owner knows when it judges the request.      *)
(*                                                                         *)
(* On top of it LInv says where the charged buffers are in the plan        *)
(* (Placed) and what the counters add up to (Counted); the theorems about  *)
(* the peak of the plan and the refinement of MemoryContract need these.   *)
(***************************************************************************)
EXTENDS MemoryExecution, MemoryPlanProofs

Rows(insts) == [status : Status, inst : insts, upper : Nat, bytes : Nat]

Charges ==
    /\ plan \in Plans
    /\ \E insts : alloc \in [Token -> Rows(insts)]
    /\ reserved_bytes \in Nat /\ storage_bytes \in Nat
    /\ WithinBudget

\* The GPU as the invariant sees it.
Queue ==
    /\ inflight \in Seq(CommandRecord)
    /\ \A m, n \in DOMAIN inflight : m < n =>
           /\ inflight[m].status = "running" => inflight[n].status = "running"
           /\ inflight[m].frees \intersect inflight[n].uses = {}
    /\ \A n \in DOMAIN inflight : inflight[n].status = "running" =>
           /\ inflight[n].uses \subseteq Tokens("active") \union Tokens("pending")
           /\ inflight[n].uses \intersect Queued = {}

Messages == [token : Token, ok : BOOLEAN]

Announced == Queued \union UNION {inflight[n].frees : n \in DOMAIN inflight}

Completions ==
    /\ mailbox \in Seq(Messages)
    /\ {overflow, callback_failed, drain_ok} \subseteq BOOLEAN
    /\ expected = Tokens("pending")
    /\ Announced \subseteq expected
    /\ \A m, n \in DOMAIN mailbox : m # n => mailbox[m].token # mailbox[n].token
    /\ \A m, n \in DOMAIN inflight : m # n => inflight[m].frees \intersect inflight[n].frees = {}
    /\ \A n \in DOMAIN inflight : inflight[n].frees \intersect Queued = {}
    /\ overflow <=> expected \ Announced # {}
    /\ callback_failed <=> overflow

Verdicts ==
    /\ pc \in {"destroy", "drain", "unload", "finish", "finalize", "done"} => inflight = <<>>
    /\ state = "quarantined" => quarantined
    /\ quarantined \in BOOLEAN
    /\ ReusableMeansClean
    /\ LossIsNeverSuccess

IInv == Charges /\ NoDanglingReference /\ Queue /\ Completions /\ Verdicts

-----------------------------------------------------------------------------
(* The budget of a plan is its peak above the baseline.                     *)

LEMMA BudgetOfPlan ==
  ASSUME NEW p \in Plans
  PROVE  /\ Baseline \in Nat /\ PeakBytes(p.instances) \in Nat
         /\ Ceiling(p) = Baseline + PeakBytes(p.instances)
         /\ Ceiling(p) \in Nat /\ Baseline <= Ceiling(p)
<1>1. IsFiniteSet(p.instances) /\ Bounds(p.instances) /\ Baseline \in Nat
  BY PlanAssumption DEF Bounds
<1>2. PeakBytes(p.instances) \in Nat
  BY <1>1, PeakIsLargest
<1> QED
  BY <1>1, <1>2 DEF Ceiling

-----------------------------------------------------------------------------
(* What the operations of the ledger do to the rows and to the bytes.       *)

LEMMA ReserveKeeps ==
  ASSUME Charges, NEW t \in Token, NEW site, NEW n \in Nat, NEW e, Reserve(t, site, n, e)
  PROVE  Charges' /\ Tokens("active")' = Tokens("active") /\ Tokens("pending")' = Tokens("pending")
<1>1. PICK insts : alloc \in [Token -> Rows(insts)]
  BY DEF Charges
<1> DEFINE i == Selected(site, n, e)
           r == [status |-> "reserved", inst |-> i, upper |-> n, bytes |-> n]
           V == insts \union {i}
<1> HIDE DEF i
<1>2. /\ alloc[t].status = "free" /\ alloc' = [alloc EXCEPT ![t] = r]
      /\ reserved_bytes' = reserved_bytes + n /\ storage_bytes' = storage_bytes /\ plan' = plan
      /\ n <= Ceiling(plan) - Committed
  BY DEF Reserve, i
<1>3. r \in Rows(V) /\ r.status = "reserved"
  BY DEF Rows, Status
<1>4. \A u \in Token : alloc[u] \in Rows(V)
  BY <1>1 DEF Rows
<1> HIDE DEF r, V
<1>5. alloc' \in [Token -> Rows(V)]
  BY <1>1, <1>2, <1>3, <1>4
<1>6. \A u \in Token : alloc'[u].status = IF u = t THEN "reserved" ELSE alloc[u].status
  BY <1>1, <1>2, <1>3
<1>7. Ceiling(plan) \in Nat /\ Baseline \in Nat
  BY BudgetOfPlan DEF Charges
<1>8. Ceiling(plan)' = Ceiling(plan)
  BY <1>2 DEF Ceiling
<1>9. WithinBudget'
  BY <1>2, <1>7, <1>8 DEF WithinBudget, Committed, Charges
<1> QED
  BY <1>2, <1>5, <1>6, <1>9 DEF Charges, Tokens

(* A reservation or a storage shrinks or ends: nothing more is charged.     *)
LEMMA ShrinkKeeps ==
  ASSUME Charges, NEW t \in Token, NEW status \in Status, NEW n \in Nat,
         alloc' = [alloc EXCEPT ![t] = FreeToken]
         \/ alloc' = [alloc EXCEPT ![t].status = status, ![t].bytes = n],
         reserved_bytes' \in Nat, storage_bytes' \in Nat,
         reserved_bytes' + storage_bytes' <= reserved_bytes + storage_bytes, plan' = plan
  PROVE  /\ Charges'
         /\ \A u \in Token \ {t} : alloc'[u] = alloc[u]
         /\ alloc'[t].status \in {"free", status}
         /\ alloc' # [alloc EXCEPT ![t] = FreeToken] => alloc'[t].status = status
<1>1. PICK insts : alloc \in [Token -> Rows(insts)]
  BY DEF Charges
<1> DEFINE V == insts \union {NoInstance}
<1>2. \A u \in Token : alloc[u] \in Rows(V)
  BY <1>1 DEF Rows
<1>3. FreeToken \in Rows(V) /\ FreeToken.status = "free"
  BY DEF FreeToken, Rows, Status
<1> HIDE DEF V
<1>4. /\ alloc' \in [Token -> Rows(V)]
      /\ \A u \in Token \ {t} : alloc'[u] = alloc[u]
      /\ alloc'[t].status \in {"free", status}
      /\ alloc' # [alloc EXCEPT ![t] = FreeToken] => alloc'[t].status = status
  <2>1. CASE alloc' = [alloc EXCEPT ![t] = FreeToken]
    BY <1>1, <1>2, <1>3, <2>1
  <2>2. CASE alloc' = [alloc EXCEPT ![t].status = status, ![t].bytes = n]
    <3> DEFINE r == [alloc[t] EXCEPT !.status = status, !.bytes = n]
    <3>1. r \in Rows(V) /\ r.status = status
      BY <1>2 DEF Rows
    <3>2. alloc' = [alloc EXCEPT ![t] = r]
      BY <1>1, <2>2
    <3> HIDE DEF r
    <3> QED
      BY <1>1, <1>2, <3>1, <3>2
  <2> QED
    BY <2>1, <2>2
<1>5. Ceiling(plan) \in Nat /\ Baseline \in Nat /\ Ceiling(plan)' = Ceiling(plan)
  <2>1. Ceiling(plan) \in Nat /\ Baseline \in Nat
    BY BudgetOfPlan DEF Charges
  <2> QED
    BY <2>1 DEF Ceiling
<1>6. WithinBudget'
  BY <1>5 DEF WithinBudget, Committed, Charges
<1> QED
  BY <1>4, <1>6 DEF Charges

LEMMA CommitKeeps ==
  ASSUME Charges, NEW t \in Token, NEW actual \in Nat, Commit(t, actual)
  PROVE  /\ Charges' /\ Tokens("active")' = Tokens("active") \union {t}
         /\ Tokens("pending")' = Tokens("pending")
<1>1. alloc[t].bytes \in Nat
  BY DEF Charges, Rows
<1>2. /\ alloc[t].status = "reserved" /\ plan' = plan
      /\ alloc' = [alloc EXCEPT ![t].status = "active", ![t].bytes = actual]
      /\ reserved_bytes' \in Nat /\ storage_bytes' \in Nat
      /\ reserved_bytes' + storage_bytes' <= reserved_bytes + storage_bytes
  BY <1>1 DEF Commit, WithoutReservation, Charges
<1>3. "active" \in Status /\ FreeToken.status = "free"
  BY DEF Status, FreeToken
<1>4. /\ Charges' /\ \A u \in Token \ {t} : alloc'[u] = alloc[u]
      /\ alloc'[t].status \in {"free", "active"}
      /\ alloc' # [alloc EXCEPT ![t] = FreeToken] => alloc'[t].status = "active"
  BY <1>2, <1>3, ShrinkKeeps
<1>5. alloc'[t].status = "active"
  <2>1. PICK insts : alloc \in [Token -> Rows(insts)]
    BY DEF Charges
  <2>2. [alloc[t] EXCEPT !.status = "active", !.bytes = actual].status = "active"
    BY <2>1 DEF Rows
  <2> QED
    BY <1>2, <2>1, <2>2
<1> QED
  BY <1>2, <1>4, <1>5 DEF Tokens

LEMMA CancelReservationKeeps ==
  ASSUME Charges, NEW t \in Token, CancelReservation(t)
  PROVE  Charges' /\ Tokens("active")' = Tokens("active") /\ Tokens("pending")' = Tokens("pending")
<1>1. alloc[t].bytes \in Nat
  BY DEF Charges, Rows
<1>2. /\ alloc[t].status = "reserved" /\ plan' = plan
      /\ alloc' = [alloc EXCEPT ![t] = FreeToken]
      /\ reserved_bytes' \in Nat /\ storage_bytes' \in Nat
      /\ reserved_bytes' + storage_bytes' <= reserved_bytes + storage_bytes
  BY <1>1 DEF CancelReservation, WithoutReservation, Charges
<1>3. /\ Charges' /\ \A u \in Token \ {t} : alloc'[u] = alloc[u]
      /\ alloc'[t].status = "free"
  BY <1>1, <1>2, ShrinkKeeps DEF Status
<1> QED
  BY <1>2, <1>3 DEF Tokens

(* Release and complete_pending.                                            *)
LEMMA EraseKeeps ==
  ASSUME Charges, NEW t \in Token, EraseStorage(t)
  PROVE  /\ Charges' /\ Tokens("active")' = Tokens("active") \ {t}
         /\ Tokens("pending")' = Tokens("pending") \ {t}
<1>1. alloc[t].bytes \in Nat
  BY DEF Charges, Rows
<1>2. /\ plan' = plan /\ alloc' = [alloc EXCEPT ![t] = FreeToken]
      /\ reserved_bytes' \in Nat /\ storage_bytes' \in Nat
      /\ reserved_bytes' + storage_bytes' <= reserved_bytes + storage_bytes
  BY <1>1 DEF EraseStorage, WithoutStorage, Charges
<1>3. /\ Charges' /\ \A u \in Token \ {t} : alloc'[u] = alloc[u]
      /\ alloc'[t].status = "free"
  BY <1>1, <1>2, ShrinkKeeps DEF Status
<1> QED
  BY <1>2, <1>3 DEF Tokens

LEMMA RetireKeeps ==
  ASSUME Charges, NEW S \in SUBSET Token, Retire(S)
  PROVE  /\ Charges' /\ S \subseteq Tokens("active")
         /\ Tokens("active")' = Tokens("active") \ S
         /\ Tokens("pending")' = Tokens("pending") \union S
<1>1. PICK insts : alloc \in [Token -> Rows(insts)]
  BY DEF Charges
<1> DEFINE r(t) == [alloc[t] EXCEPT !.status = "pending"]
<1>2. \A t \in Token : r(t) \in Rows(insts) /\ r(t).status = "pending"
  BY <1>1 DEF Rows, Status
<1>3. alloc' = [t \in Token |-> IF t \in S THEN r(t) ELSE alloc[t]]
  BY DEF Retire
<1> HIDE DEF r
<1>4. alloc' \in [Token -> Rows(insts)]
  BY <1>1, <1>2, <1>3
<1>5. \A t \in Token : alloc'[t].status = IF t \in S THEN "pending" ELSE alloc[t].status
  BY <1>2, <1>3
<1>6. \A t \in S : alloc[t].status = "active"
  BY DEF Retire
<1>7. WithinBudget'
  BY DEF Retire, Charges, WithinBudget, Committed, Ceiling
<1> QED
  BY <1>4, <1>5, <1>6, <1>7 DEF Charges, Tokens, Retire

LEMMA LedgerUnchanged ==
  ASSUME Charges, UNCHANGED ledgerVars
  PROVE  Charges' /\ Tokens("active")' = Tokens("active") /\ Tokens("pending")' = Tokens("pending")
BY DEF ledgerVars, Charges, WithinBudget, Committed, Ceiling, Tokens

-----------------------------------------------------------------------------
(* What a step does to the queue and to the completions.                    *)

QuietVars == <<expected, mailbox, overflow, callback_failed>>

\* No command is added and none ends; what is still used stays charged.
LEMMA QuietKeeps ==
  ASSUME Queue, Completions, UNCHANGED <<QuietVars, inflight>>, drain_ok' \in BOOLEAN,
         Tokens("pending")' = Tokens("pending"),
         Tokens("active") \subseteq Tokens("active")' \/ inflight = <<>>
  PROVE  Queue' /\ Completions'
BY DEF QuietVars, Queue, Completions, Queued, Announced

\* A command is committed; the buffers of S are retired with it.
LEMMA CommitCommandKeeps ==
  ASSUME Queue, Completions, NEW S \in SUBSET Token,
         S \subseteq Tokens("active"), Tokens("active")' = Tokens("active") \ S,
         Tokens("pending")' = Tokens("pending") \union S, expected' = expected \union S,
         UNCHANGED <<mailbox, overflow, callback_failed>>, drain_ok' \in BOOLEAN,
         inflight' = Append(inflight, Command(S))
  PROVE  Queue' /\ Completions'
<1> DEFINE L == Len(inflight)
           c == Command(S)
<1>1. c \in CommandRecord /\ c.uses = Tokens("active") /\ c.frees = S /\ c.status = "running"
  BY DEF Command, CommandRecord, Tokens
<1> HIDE DEF c
<1>2. /\ inflight' \in Seq(CommandRecord) /\ DOMAIN inflight' = 1 .. L + 1 /\ L \in Nat
      /\ DOMAIN inflight = 1 .. L
      /\ inflight'[L + 1] = c /\ \A n \in 1 .. L : inflight'[n] = inflight[n]
  BY <1>1 DEF Queue, c
<1> HIDE DEF L
<1>3. S \intersect expected = {} /\ Tokens("active") \intersect expected = {}
  BY DEF Completions, Tokens
<1>4. Queued' = Queued /\ Queued \subseteq expected
  BY DEF Queued, Completions, Announced
<1>5. \A n \in 1 .. L : inflight[n].frees \subseteq expected
  BY <1>2 DEF Completions, Announced
<1>6. Announced' = Announced \union S
  <2>1. UNION {inflight'[n].frees : n \in DOMAIN inflight'}
          = (UNION {inflight[n].frees : n \in DOMAIN inflight}) \union S
    <3>1. /\ inflight'[L + 1].frees = S
          /\ \A n \in 1 .. L : inflight'[n].frees = inflight[n].frees
      BY <1>1, <1>2
    <3>2. DOMAIN inflight' = (1 .. L) \union {L + 1} /\ DOMAIN inflight = 1 .. L
      BY <1>2
    <3> QED
      BY <3>1, <3>2
  <2> QED
    BY <1>4, <2>1 DEF Announced
<1>7. Queue'
  <2>1. \A m, n \in DOMAIN inflight' : m < n =>
           /\ inflight'[m].status = "running" => inflight'[n].status = "running"
           /\ inflight'[m].frees \intersect inflight'[n].uses = {}
    <3> SUFFICES ASSUME NEW m \in DOMAIN inflight', NEW n \in DOMAIN inflight', m < n
                 PROVE  /\ inflight'[m].status = "running" => inflight'[n].status = "running"
                        /\ inflight'[m].frees \intersect inflight'[n].uses = {}
      OBVIOUS
    <3>1. CASE n = L + 1
      BY <1>1, <1>2, <1>3, <1>5, <3>1
    <3>2. CASE n # L + 1
      BY <1>2, <3>2 DEF Queue
    <3> QED
      BY <3>1, <3>2
  <2>2. \A n \in DOMAIN inflight' : inflight'[n].status = "running" =>
           /\ inflight'[n].uses \subseteq Tokens("active")' \union Tokens("pending")'
           /\ inflight'[n].uses \intersect Queued' = {}
    <3> SUFFICES ASSUME NEW n \in DOMAIN inflight', inflight'[n].status = "running"
                 PROVE  /\ inflight'[n].uses \subseteq Tokens("active")' \union Tokens("pending")'
                        /\ inflight'[n].uses \intersect Queued' = {}
      OBVIOUS
    <3>1. CASE n = L + 1
      BY <1>1, <1>2, <1>3, <1>4, <3>1
    <3>2. CASE n # L + 1
      BY <1>2, <1>4, <3>2 DEF Queue
    <3> QED
      BY <3>1, <3>2
  <2> QED
    BY <1>2, <2>1, <2>2 DEF Queue
<1>8. Completions'
  <2>1. \A m, n \in DOMAIN inflight' : m # n => inflight'[m].frees \intersect inflight'[n].frees = {}
    BY <1>1, <1>2, <1>3, <1>5 DEF Completions
  <2>2. \A n \in DOMAIN inflight' : inflight'[n].frees \intersect Queued' = {}
    BY <1>1, <1>2, <1>3, <1>4 DEF Completions
  <2>3. expected' \ Announced' = expected \ Announced
    BY <1>3, <1>6
  <2>4. Announced' \subseteq expected' /\ expected' = Tokens("pending")'
    BY <1>6 DEF Completions
  <2> QED
    BY <2>1, <2>2, <2>3, <2>4 DEF Completions
<1> QED
  BY <1>7, <1>8

\* The owner has waited for every command and for its handler.
LEMMA ClearKeeps ==
  ASSUME Queue, Completions, GpuIdle, inflight' = <<>>, UNCHANGED QuietVars,
         UNCHANGED ledgerVars, drain_ok' \in BOOLEAN
  PROVE  Queue' /\ Completions'
<1>1. \A n \in DOMAIN inflight : inflight[n].frees = {}
  BY DEF GpuIdle, Ended
<1>2. Queued' = Queued /\ Announced = Queued /\ Announced' = Queued
  BY <1>1 DEF Queued, Announced, QuietVars
<1>3. Tokens("pending")' = Tokens("pending")
  BY DEF ledgerVars, Tokens
<1>4. Queue'
  BY DEF Queue
<1>5. Completions'
  BY <1>2, <1>3 DEF Completions, QuietVars
<1> QED
  BY <1>4, <1>5

LEMMA EndCommandKeeps ==
  ASSUME Queue, Completions, EndCommand
  PROVE  Queue' /\ Completions'
<1>1. PICK n \in DOMAIN inflight, result \in {"completed", "error"} :
        /\ inflight[n].status = "running"
        /\ \A m \in 1 .. n - 1 : inflight[m].status # "running"
        /\ inflight' = [inflight EXCEPT ![n].status = result]
  BY DEF EndCommand
<1> DEFINE c == [inflight[n] EXCEPT !.status = result]
<1>2. /\ inflight \in Seq(CommandRecord) /\ n \in 1 .. Len(inflight) /\ Len(inflight) \in Nat
      /\ DOMAIN inflight = 1 .. Len(inflight)
  BY DEF Queue
<1>3. /\ c \in CommandRecord /\ c.uses = inflight[n].uses /\ c.frees = inflight[n].frees
      /\ c.status # "running"
  <2>1. inflight[n] \in CommandRecord
    BY <1>2
  <2> QED
    BY <2>1 DEF CommandRecord
<1>4. /\ inflight' \in Seq(CommandRecord) /\ DOMAIN inflight' = DOMAIN inflight
      /\ inflight'[n] = c /\ \A m \in DOMAIN inflight \ {n} : inflight'[m] = inflight[m]
  BY <1>1, <1>2, <1>3
<1> HIDE DEF c
<1>5. /\ \A m \in DOMAIN inflight : /\ inflight'[m].uses = inflight[m].uses
                                    /\ inflight'[m].frees = inflight[m].frees
  BY <1>3, <1>4
<1>6. UNCHANGED <<QuietVars, drain_ok, ledgerVars>>
  BY DEF EndCommand, QuietVars
<1>7. Queued' = Queued /\ Announced' = Announced
  BY <1>4, <1>5, <1>6 DEF Queued, Announced, QuietVars
<1>8. \A s : Tokens(s)' = Tokens(s)
  BY <1>6 DEF Tokens, ledgerVars
<1>9. Queue'
  <2>1. \A m \in DOMAIN inflight : inflight'[m].status = "running" =>
          m # n /\ inflight[m].status = "running"
    BY <1>3, <1>4
  <2>2. \A m, k \in DOMAIN inflight' : m < k =>
          (inflight'[m].status = "running" => inflight'[k].status = "running")
    <3> SUFFICES ASSUME NEW m \in DOMAIN inflight, NEW k \in DOMAIN inflight, m < k,
                        inflight'[m].status = "running"
                 PROVE  inflight'[k].status = "running"
      BY <1>4
    <3>1. inflight[m].status = "running" /\ m # n /\ inflight[k].status = "running"
      BY <2>1 DEF Queue
    <3>2. k # n
      BY <1>1, <1>2, <3>1
    <3> QED
      BY <1>4, <3>1, <3>2
  <2> QED
    BY <1>4, <1>5, <1>7, <1>8, <2>1, <2>2 DEF Queue
<1>10. Completions'
  BY <1>4, <1>5, <1>6, <1>7, <1>8 DEF Completions, QuietVars
<1> QED
  BY <1>9, <1>10

LEMMA CompletedHandlerKeeps ==
  ASSUME Queue, Completions, CompletedHandler
  PROVE  Queue' /\ Completions'
<1>1. PICK n \in DOMAIN inflight : \E t \in inflight[n].frees :
        /\ inflight[n].status # "running"
        /\ PostCompletion(t, inflight[n].status = "completed")
        /\ inflight' = [inflight EXCEPT ![n].frees = @ \ {t}]
  BY DEF CompletedHandler, HandlerRuns
<1>2. PICK t \in inflight[n].frees :
        /\ PostCompletion(t, inflight[n].status = "completed")
        /\ inflight' = [inflight EXCEPT ![n].frees = @ \ {t}]
  BY <1>1
<1> DEFINE c == [inflight[n] EXCEPT !.frees = inflight[n].frees \ {t}]
           coming == UNION {inflight[m].frees : m \in DOMAIN inflight}
<1>3. /\ inflight \in Seq(CommandRecord) /\ n \in 1 .. Len(inflight) /\ Len(inflight) \in Nat
      /\ DOMAIN inflight = 1 .. Len(inflight)
  BY DEF Queue
<1>4. /\ c \in CommandRecord /\ c.uses = inflight[n].uses
      /\ c.frees = inflight[n].frees \ {t} /\ c.status = inflight[n].status
  <2>1. inflight[n] \in CommandRecord
    BY <1>3
  <2> QED
    BY <2>1 DEF CommandRecord
<1>5. /\ inflight' \in Seq(CommandRecord) /\ DOMAIN inflight' = DOMAIN inflight
      /\ inflight'[n] = c /\ \A m \in DOMAIN inflight \ {n} : inflight'[m] = inflight[m]
  BY <1>2, <1>3, <1>4
<1> HIDE DEF c
<1>6. /\ \A m \in DOMAIN inflight : /\ inflight'[m].uses = inflight[m].uses
                                    /\ inflight'[m].status = inflight[m].status
                                    /\ inflight'[m].frees = inflight[m].frees \ {t}
  BY <1>4, <1>5 DEF Completions
<1>7. t \in expected \ Queued /\ t \in Token
  BY DEF Completions, Announced, Tokens
<1>8. UNION {inflight'[m].frees : m \in DOMAIN inflight'} = coming \ {t}
  BY <1>5, <1>6
<1> HIDE DEF coming
<1>9. UNCHANGED <<expected, drain_ok, ledgerVars>>
  BY DEF CompletedHandler
<1>10. \A s : Tokens(s)' = Tokens(s)
  BY <1>9 DEF Tokens, ledgerVars
<1>11. \A m \in DOMAIN inflight : inflight[m].status = "running" => t \notin inflight[m].uses
  <2> SUFFICES ASSUME NEW m \in DOMAIN inflight, inflight[m].status = "running"
               PROVE  t \notin inflight[m].uses
    OBVIOUS
  <2>1. n < m
    BY <1>1, <1>3 DEF Queue
  <2> QED
    BY <1>3, <2>1 DEF Queue
<1>12. CASE MailboxHasRoom
  <2> DEFINE msg == Message(t, inflight[n].status = "completed")
             L == Len(mailbox)
  <2>1. mailbox' = Append(mailbox, msg) /\ UNCHANGED <<overflow, callback_failed>>
    BY <1>2, <1>7, <1>12 DEF PostCompletion
  <2>2. msg \in Messages /\ msg.token = t
    <3>1. (inflight[n].status = "completed") \in BOOLEAN
      OBVIOUS
    <3> QED
      BY <1>7, <3>1 DEF Message, Messages
  <2> HIDE DEF msg
  <2>3. /\ mailbox' \in Seq(Messages) /\ L \in Nat
        /\ DOMAIN mailbox = 1 .. L /\ DOMAIN mailbox' = 1 .. L + 1
        /\ mailbox'[L + 1] = msg /\ \A k \in 1 .. L : mailbox'[k] = mailbox[k]
    BY <2>1, <2>2 DEF Completions
  <2> HIDE DEF L
  <2>4. Queued' = Queued \union {t}
    BY <2>2, <2>3 DEF Queued
  <2>5. Announced' = Announced
    <3>1. t \in coming
      BY DEF coming
    <3>2. Announced = Queued \union coming
      BY DEF Announced, coming
    <3>3. Announced' = Queued' \union (coming \ {t})
      BY <1>8 DEF Announced
    <3> QED
      BY <2>4, <3>1, <3>2, <3>3
  <2>6. Queue'
    BY <1>5, <1>6, <1>10, <1>11, <2>4 DEF Queue
  <2>7. \A k, m \in DOMAIN mailbox' : k # m => mailbox'[k].token # mailbox'[m].token
    <3>1. \A k \in 1 .. L : mailbox[k].token # t
      BY <1>7, <2>3 DEF Queued
    <3> QED
      BY <2>2, <2>3, <3>1 DEF Completions
  <2>8. Completions'
    BY <1>5, <1>6, <1>9, <1>10, <2>1, <2>3, <2>4, <2>5, <2>7 DEF Completions
  <2> QED
    BY <2>6, <2>8
<1>13. CASE ~MailboxHasRoom
  <2>1. UNCHANGED mailbox /\ overflow' /\ callback_failed' = TRUE /\ overflow' \in BOOLEAN
    <3>1. UNCHANGED mailbox /\ callback_failed' = TRUE /\ overflow' = (overflow \/ t \in expected \ Queued)
      BY <1>2, <1>7, <1>13 DEF PostCompletion
    <3> QED
      BY <1>7, <3>1
  <2>2. Queued' = Queued
    BY <2>1 DEF Queued
  <2>3. Announced' = Announced \ {t}
    <3>1. Announced = Queued \union coming
      BY DEF Announced, coming
    <3>2. Announced' = Queued' \union (coming \ {t})
      BY <1>8 DEF Announced
    <3> QED
      BY <1>7, <2>2, <3>1, <3>2
  <2>4. Queue'
    BY <1>5, <1>6, <1>10, <2>2 DEF Queue
  <2>5. expected' \ Announced' # {}
    BY <1>7, <1>9, <2>3
  <2>6. Completions'
    <3>1. (overflow <=> expected \ Announced # {})' /\ (callback_failed <=> overflow)'
      BY <2>1, <2>5
    <3>2. ({overflow, callback_failed, drain_ok} \subseteq BOOLEAN)'
      BY <1>9, <2>1 DEF Completions
    <3>3. Announced' \subseteq expected' /\ expected' = Tokens("pending")'
      BY <1>9, <1>10, <2>3 DEF Completions
    <3>4. /\ \A m, k \in DOMAIN inflight' : m # k => inflight'[m].frees \intersect inflight'[k].frees = {}
          /\ \A k \in DOMAIN inflight' : inflight'[k].frees \intersect Queued' = {}
      BY <1>5, <1>6, <2>2 DEF Completions
    <3> QED
      BY <2>1, <3>1, <3>2, <3>3, <3>4 DEF Completions
  <2> QED
    BY <2>4, <2>6
<1> QED
  BY <1>12, <1>13

\* The owner applies the first message of the mailbox.
LEMMA DrainMessageKeeps ==
  ASSUME Charges, Queue, Completions, DrainMessage
  PROVE  Charges' /\ Tokens("active")' = Tokens("active") /\ Queue' /\ Completions'
<1> DEFINE m == Head(mailbox)
           t == m.token
<1>1. /\ mailbox # <<>> /\ CompletePending(t) /\ expected' = expected \ {t}
      /\ drain_ok' = (drain_ok /\ m.ok) /\ mailbox' = Tail(mailbox)
      /\ UNCHANGED <<overflow, callback_failed, inflight>>
  BY DEF DrainMessage, Answered
<1>2. /\ mailbox \in Seq(Messages) /\ Len(mailbox) \in Nat \ {0}
      /\ DOMAIN mailbox = 1 .. Len(mailbox) /\ m = mailbox[1] /\ t \in Token
      /\ mailbox' \in Seq(Messages)
      /\ DOMAIN mailbox' = 1 .. Len(mailbox) - 1
      /\ \A k \in DOMAIN mailbox' : mailbox'[k] = mailbox[k + 1]
  <2>1. mailbox \in Seq(Messages)
    BY DEF Completions
  <2>2. Len(mailbox) \in Nat \ {0} /\ DOMAIN mailbox = 1 .. Len(mailbox)
    BY <1>1, <2>1
  <2>3. m = mailbox[1] /\ m \in Messages
    <3>1. Head(mailbox) = mailbox[1]
      BY <2>1, <2>2
    <3>2. 1 \in DOMAIN mailbox
      BY <2>2
    <3>3. mailbox[1] \in Messages
      BY <2>1, <3>2
    <3> QED
      BY <3>1, <3>3
  <2>4. mailbox' \in Seq(Messages) /\ Len(mailbox') = Len(mailbox) - 1
        /\ \A k \in 1 .. Len(mailbox) - 1 : mailbox'[k] = mailbox[k + 1]
    BY <1>1, <2>1, <2>2
  <2>5. t \in Token
    BY <2>3 DEF Messages
  <2> QED
    BY <2>1, <2>2, <2>3, <2>4, <2>5
<1> HIDE DEF m
<1>3. alloc[t].status = "pending" /\ EraseStorage(t)
  BY <1>1 DEF CompletePending
<1>4. /\ Charges' /\ Tokens("active")' = Tokens("active") \ {t}
      /\ Tokens("pending")' = Tokens("pending") \ {t}
  BY <1>2, <1>3, EraseKeeps
<1>5. Tokens("active")' = Tokens("active")
  BY <1>3, <1>4 DEF Tokens
<1>6. Queued' = Queued \ {t} /\ t \in Queued
  <2>1. \A k \in DOMAIN mailbox' : mailbox'[k].token # t
    BY <1>2 DEF Completions
  <2>2. Queued' \subseteq Queued
    BY <1>2 DEF Queued
  <2>3. \A k \in DOMAIN mailbox : k # 1 => mailbox'[k - 1] = mailbox[k] /\ k - 1 \in DOMAIN mailbox'
    BY <1>2
  <2>4. Queued \ {t} \subseteq Queued'
    BY <1>2, <2>3 DEF Queued
  <2>5. t \in Queued
    BY <1>2 DEF Queued
  <2> QED
    BY <2>1, <2>2, <2>4, <2>5 DEF Queued
<1>7. Announced' = Announced \ {t}
  BY <1>1, <1>6 DEF Announced, Completions
<1>8. Queue'
  <2>1. \A n \in DOMAIN inflight : inflight[n].status = "running" => t \notin inflight[n].uses
    BY <1>6 DEF Queue
  <2> QED
    BY <1>1, <1>4, <1>5, <1>6, <2>1 DEF Queue
<1>9. Completions'
  <2>1. \A k, n \in DOMAIN mailbox' : k # n => mailbox'[k].token # mailbox'[n].token
    BY <1>2 DEF Completions
  <2>2. drain_ok' \in BOOLEAN
    BY <1>1 DEF Completions
  <2>3. expected' \ Announced' = expected \ Announced
    BY <1>1, <1>6, <1>7 DEF Announced
  <2> QED
    BY <1>1, <1>2, <1>4, <1>6, <1>7, <2>1, <2>2, <2>3 DEF Completions
<1> QED
  BY <1>4, <1>5, <1>8, <1>9

-----------------------------------------------------------------------------
(* One lemma per kind of step.                                              *)

Closed == {"destroy", "drain", "unload", "finish", "finalize", "done"}

\* The owner goes on; no request ends.
LEMMA GoesOn ==
  ASSUME Verdicts, pc' # "done", pc' \in Closed => inflight' = <<>>,
         state' = "quarantined" => quarantined', quarantined' \in BOOLEAN
  PROVE  Verdicts'
BY DEF Verdicts, Closed, ReusableMeansClean, LossIsNeverSuccess

\* Neither a buffer nor a command changes.
LEMMA OwnerKeeps ==
  ASSUME IInv, UNCHANGED <<ledgerVars, QuietVars, inflight, held>>, drain_ok' \in BOOLEAN
  PROVE  Charges' /\ NoDanglingReference' /\ Queue' /\ Completions'
<1>1. Charges' /\ Tokens("active")' = Tokens("active") /\ Tokens("pending")' = Tokens("pending")
  BY LedgerUnchanged DEF IInv
<1>2. Queue' /\ Completions'
  BY <1>1, QuietKeeps DEF IInv
<1> QED
  BY <1>1, <1>2 DEF IInv, NoDanglingReference

LEMMA BytesRequested == Charges => Requests \subseteq Nat
<1> SUFFICES ASSUME Charges PROVE \A i \in plan.instances : 1 .. i.upper \subseteq Nat
  BY DEF Requests
<1> QED
  BY PlanAssumption DEF Charges

\* The session works on its buffers.
LEMMA BuffersKeep ==
  ASSUME IInv, NEW t \in Token,
         \/ \E site \in Sites, n \in Requests : ReserveSite(t, site, n)
         \/ \E actual \in 1 .. alloc[t].bytes : CommitBuffer(t, actual)
         \/ FreeBuffer(t) \/ CancelBuffer(t) \/ UnloadBuffer(t)
  PROVE  IInv'
<1> USE DEF IInv
<1>1. UNCHANGED <<QuietVars, inflight, drain_ok, state, quarantined, pc>> /\ pc # "done"
  BY DEF ReserveSite, CommitBuffer, FreeBuffer, CancelBuffer, UnloadBuffer, OwnerAt, QuietVars,
     execVars
<1>2. Verdicts'
  BY <1>1, GoesOn DEF Verdicts, Closed
<1>3. drain_ok' \in BOOLEAN
  BY <1>1 DEF Completions
<1>4. CASE \E site \in Sites, n \in Requests : ReserveSite(t, site, n)
  <2>1. PICK site \in Sites, n \in Requests : ReserveSite(t, site, n)
    BY <1>4
  <2>2. Reserve(t, site, n, EpochFor(site, n)) /\ held' = held
    BY <2>1 DEF ReserveSite
  <2>3. n \in Nat
    BY BytesRequested
  <2> HIDE DEF IInv
  <2>4. Charges' /\ Tokens("active")' = Tokens("active") /\ Tokens("pending")' = Tokens("pending")
    BY <2>2, <2>3, ReserveKeeps DEF IInv
  <2>5. Queue' /\ Completions'
    BY <1>1, <1>3, <2>4, QuietKeeps DEF IInv
  <2> QED
    BY <1>2, <2>2, <2>4, <2>5 DEF IInv, NoDanglingReference
<1>5. CASE \E actual \in 1 .. alloc[t].bytes : CommitBuffer(t, actual)
  <2>1. PICK actual \in 1 .. alloc[t].bytes : CommitBuffer(t, actual)
    BY <1>5
  <2>2. actual \in Nat /\ Commit(t, actual) /\ held' = held \union {t}
    BY <2>1 DEF CommitBuffer
  <2>3. /\ Charges' /\ Tokens("active")' = Tokens("active") \union {t}
        /\ Tokens("pending")' = Tokens("pending")
    BY <2>2, CommitKeeps
  <2>4. Queue' /\ Completions'
    BY <1>1, <1>3, <2>3, QuietKeeps
  <2> QED
    BY <1>2, <2>2, <2>3, <2>4 DEF NoDanglingReference
<1>6. CASE CancelBuffer(t)
  <2>1. /\ Charges' /\ Tokens("active")' = Tokens("active")
        /\ Tokens("pending")' = Tokens("pending") /\ held' = held
    BY <1>6, CancelReservationKeeps DEF CancelBuffer, execVars
  <2>2. Queue' /\ Completions'
    BY <1>1, <1>3, <2>1, QuietKeeps
  <2> QED
    BY <1>2, <2>1, <2>2 DEF NoDanglingReference
<1>7. CASE FreeBuffer(t) \/ UnloadBuffer(t)
  <2>1. Release(t) /\ held' = held \ {t} /\ inflight = <<>>
    BY <1>7 DEF FreeBuffer, UnloadBuffer, Verdicts
  <2>2. alloc[t].status = "active" /\ EraseStorage(t)
    BY <2>1 DEF Release
  <2>3. /\ Charges' /\ Tokens("active")' = Tokens("active") \ {t}
        /\ Tokens("pending")' = Tokens("pending")
    BY <2>2, EraseKeeps DEF Tokens
  <2>4. Queue' /\ Completions'
    BY <1>1, <1>3, <2>1, <2>3, QuietKeeps
  <2> QED
    BY <1>2, <2>1, <2>3, <2>4 DEF NoDanglingReference
<1> QED
  BY <1>4, <1>5, <1>6, <1>7

\* A command is committed.
LEMMA CommandsKeep ==
  ASSUME IInv,
         ContinueCommand \/ Submit \/ \E S \in SUBSET Token : ContinueReleasing(S)
  PROVE  IInv'
<1> USE DEF IInv
<1>1. /\ UNCHANGED <<mailbox, overflow, callback_failed, drain_ok, state, quarantined>>
      /\ pc' \notin Closed /\ pc' # "done"
  BY DEF ContinueCommand, Submit, ContinueReleasing, OwnerAt, Closed
<1>2. Verdicts'
  BY <1>1, GoesOn DEF Verdicts
<1>3. drain_ok' \in BOOLEAN
  BY <1>1 DEF Completions
<1>4. CASE ContinueCommand \/ Submit
  <2>1. UNCHANGED <<ledgerVars, expected, held>> /\ inflight' = Append(inflight, Command({}))
    BY <1>4 DEF ContinueCommand, Submit
  <2>2. Charges' /\ Tokens("active")' = Tokens("active") /\ Tokens("pending")' = Tokens("pending")
    BY <2>1, LedgerUnchanged
  <2>3. Queue' /\ Completions'
    BY <1>1, <1>3, <2>1, <2>2, CommitCommandKeeps
  <2> QED
    BY <1>2, <2>1, <2>2, <2>3 DEF NoDanglingReference
<1>5. CASE \E S \in SUBSET Token : ContinueReleasing(S)
  <2>1. PICK S \in SUBSET Token : ContinueReleasing(S)
    BY <1>5
  <2>2. /\ Retire(S) /\ expected' = expected \union S /\ held' = held \ S
        /\ inflight' = Append(inflight, Command(S))
    BY <2>1 DEF ContinueReleasing, Forget
  <2>3. /\ Charges' /\ S \subseteq Tokens("active")
        /\ Tokens("active")' = Tokens("active") \ S
        /\ Tokens("pending")' = Tokens("pending") \union S
    BY <2>2, RetireKeeps
  <2>4. Queue' /\ Completions'
    BY <1>1, <1>3, <2>2, <2>3, CommitCommandKeeps
  <2> QED
    BY <1>2, <2>2, <2>3, <2>4 DEF NoDanglingReference
<1> QED
  BY <1>4, <1>5

\* The GPU and its handlers; nothing is in flight once a request has ended.
LEMMA GpuKeeps ==
  ASSUME IInv, Gpu
  PROVE  IInv'
<1> USE DEF IInv
<1>1. Queue' /\ Completions'
  BY EndCommandKeeps, CompletedHandlerKeeps DEF Gpu
<1>2. UNCHANGED <<ledgerVars, held, pc, state, quarantined>>
  BY DEF Gpu, EndCommand, CompletedHandler
<1>3. inflight # <<>>
  BY DEF Gpu, EndCommand, CompletedHandler
<1>4. pc \notin Closed
  BY <1>3 DEF Verdicts, Closed
<1>5. Verdicts'
  BY <1>2, <1>4, GoesOn DEF Verdicts, Closed
<1>6. Charges' /\ Tokens("active")' = Tokens("active")
  BY <1>2, LedgerUnchanged
<1> QED
  BY <1>1, <1>2, <1>5, <1>6 DEF NoDanglingReference

\* The owner waits for its commands, or applies a completion.
LEMMA WaitsKeep ==
  ASSUME IInv, SubmitReturns \/ CloseQueues \/ DrainMessage
  PROVE  IInv'
<1> USE DEF IInv
<1>1. UNCHANGED <<state, quarantined, held>> /\ pc' # "done"
  BY DEF SubmitReturns, CloseQueues, DrainMessage, OwnerAt
<1>2. CASE SubmitReturns \/ CloseQueues
  <2>1. GpuIdle /\ inflight' = <<>> /\ UNCHANGED <<QuietVars, ledgerVars, drain_ok>>
    BY <1>2 DEF SubmitReturns, CloseQueues, QuietVars
  <2>2. drain_ok' \in BOOLEAN
    BY <2>1 DEF Completions
  <2>3. Queue' /\ Completions'
    BY <2>1, <2>2, ClearKeeps
  <2>4. Charges' /\ Tokens("active")' = Tokens("active")
    BY <2>1, LedgerUnchanged
  <2>5. Verdicts'
    BY <1>1, <2>1, GoesOn DEF Verdicts
  <2> QED
    BY <1>1, <2>3, <2>4, <2>5 DEF NoDanglingReference
<1>3. CASE DrainMessage
  <2>1. Charges' /\ Tokens("active")' = Tokens("active") /\ Queue' /\ Completions'
    BY <1>3, DrainMessageKeeps
  <2>2. UNCHANGED <<pc, inflight>>
    BY <1>3 DEF DrainMessage
  <2>3. Verdicts'
    BY <1>1, <2>2, GoesOn DEF Verdicts, Closed
  <2> QED
    BY <1>1, <2>1, <2>3 DEF NoDanglingReference
<1> QED
  BY <1>2, <1>3

\* What is left when nothing is charged or awaited.
LEMMA NothingLeft ==
  ASSUME IInv, pc \in Closed, Occupying = {}, expected = {}, mailbox = <<>>
  PROVE  inflight = <<>> /\ held = {} /\ ~overflow /\ ~callback_failed
<1>1. Tokens("active") = {}
  BY DEF Tokens, Occupying
<1>2. expected \ Announced = {}
  OBVIOUS
<1> QED
  BY <1>1, <1>2 DEF IInv, NoDanglingReference, Verdicts, Closed, Completions

\* A request ends: the engine is clean, or quarantined.
LEMMA EndsWell ==
  ASSUME IInv, pc \in Closed,
         UNCHANGED <<ledgerVars, expected, mailbox, overflow, inflight, callback_failed, held>>,
         quarantined' \/ (Occupying = {} /\ expected = {} /\ mailbox = <<>>),
         state' = "quarantined" => quarantined', quarantined' \in BOOLEAN
  PROVE  Verdicts'
<1>1. inflight' = <<>>
  BY DEF IInv, Verdicts, Closed
<1>2. ~quarantined' => /\ Occupying' = {} /\ expected' = {} /\ mailbox' = <<>>
                       /\ held' = {} /\ ~overflow' /\ ~callback_failed'
  BY NothingLeft DEF Occupying, ledgerVars
<1> QED
  BY <1>1, <1>2 DEF Verdicts, ReusableMeansClean, LossIsNeverSuccess

LEMMA OwnerStepsKeep ==
  ASSUME IInv,
         \/ BeginCommand \/ \E e \in Epochs(plan.instances) : EnterEpoch(e)
         \/ EmitEvent \/ GenerateEnds \/ FinishEvent \/ SessionReturns \/ DrainReturns
         \/ Unloaded \/ FinishSuccess \/ FinalizeFailure
  PROVE  IInv'
<1>1. UNCHANGED <<ledgerVars, QuietVars, inflight, held>> /\ drain_ok' \in {drain_ok, TRUE}
  BY DEF BeginCommand, EnterEpoch, EmitEvent, GenerateEnds, FinishEvent, SessionReturns,
     DrainReturns, Unloaded, FinishSuccess, FinalizeFailure, QuietVars
<1>2. drain_ok' \in BOOLEAN
  BY <1>1 DEF IInv, Completions
<1>3. Charges' /\ NoDanglingReference' /\ Queue' /\ Completions'
  BY <1>1, <1>2, OwnerKeeps
<1>4. Verdicts'
  <2> USE DEF IInv
  <2>1. CASE BeginCommand \/ (\E e \in Epochs(plan.instances) : EnterEpoch(e)) \/ EmitEvent
             \/ GenerateEnds \/ FinishEvent
    <3>1. pc' \notin Closed /\ pc' # "done" /\ UNCHANGED <<state, quarantined>>
      BY <2>1 DEF BeginCommand, EnterEpoch, EmitEvent, GenerateEnds, FinishEvent, OwnerAt, Closed
    <3> QED
      BY <3>1, GoesOn DEF Verdicts
  <2>2. CASE SessionReturns \/ DrainReturns
    <3>1. pc \in Closed /\ pc' # "done" /\ state' = "quarantined" => quarantined'
      BY <2>2 DEF SessionReturns, DrainReturns, OwnerAt, Closed, GiveUp, Verdicts
    <3>2. quarantined' \in {quarantined, TRUE} /\ pc \in Closed /\ pc' # "done"
      BY <2>2 DEF SessionReturns, DrainReturns, OwnerAt, Closed, GiveUp
    <3>3. state' = "quarantined" => quarantined'
      BY <3>1, <3>2
    <3> QED
      BY <1>1, <3>2, <3>3, GoesOn DEF Verdicts, Closed
  <2>3. CASE Unloaded
    <3>1. pc \in Closed /\ (state' = "quarantined" => quarantined')
          /\ quarantined' \in {quarantined, TRUE}
      BY <2>3 DEF Unloaded, Closed, GiveUp, Verdicts
    <3>2. quarantined' \in BOOLEAN
      BY <3>1 DEF Verdicts
    <3>3. CASE failing
      <4>1. quarantined' \/ Clean
        BY <2>3, <3>3 DEF Unloaded, GiveUp, Verdicts
      <4> QED
        BY <1>1, <3>1, <3>2, <4>1, EndsWell DEF QuietVars, Clean, Settled
    <3>4. CASE ~failing
      <4>1. pc' # "done"
        BY <2>3, <3>4 DEF Unloaded
      <4> QED
        BY <1>1, <3>1, <3>2, <4>1, GoesOn DEF Verdicts, Closed
    <3> QED
      BY <3>3, <3>4
  <2>4. CASE FinishSuccess
    <3>1. pc \in Closed /\ UNCHANGED quarantined /\ (state' = "quarantined" => quarantined')
          /\ quarantined' \in BOOLEAN
      BY <2>4 DEF FinishSuccess, Closed, Verdicts
    <3>2. CASE pc' = "finalize"
      BY <1>1, <3>1, <3>2, GoesOn DEF Verdicts, Closed
    <3>3. CASE pc' # "finalize"
      <4>1. Clean
        BY <2>4, <3>3 DEF FinishSuccess
      <4> QED
        BY <1>1, <3>1, <4>1, EndsWell DEF QuietVars, Clean, Settled
    <3> QED
      BY <3>2, <3>3
  <2>5. CASE FinalizeFailure
    <3>1. pc \in Closed /\ quarantined' \in {quarantined, TRUE}
      BY <2>5 DEF FinalizeFailure, Closed, GiveUp
    <3>2. state' = "quarantined" => quarantined'
      BY <2>5 DEF FinalizeFailure, GiveUp
    <3>3. quarantined' \in BOOLEAN
      BY <3>1 DEF Verdicts
    <3>4. CASE NeedsGpuDrain
      <4>1. pc' = "drain"
        BY <2>5, <3>4 DEF FinalizeFailure
      <4> QED
        BY <1>1, <3>1, <3>2, <3>3, <4>1, GoesOn DEF Verdicts, Closed
    <3>5. CASE ~NeedsGpuDrain
      <4>1. Tokens("active") = {} /\ Tokens("pending") = {} /\ expected = {} /\ mailbox = <<>>
        BY <3>5 DEF NeedsGpuDrain
      <4>2. quarantined' \/ Tokens("reserved") = {}
        BY <2>5, <3>5 DEF FinalizeFailure, GiveUp
      <4>3. Occupying = Tokens("active") \union Tokens("pending") \union Tokens("reserved")
        BY DEF Occupying, Tokens, Charges, Rows, Status
      <4> QED
        BY <1>1, <3>1, <3>2, <3>3, <4>1, <4>2, <4>3, EndsWell DEF QuietVars
    <3> QED
      BY <3>4, <3>5
  <2> QED
    BY <2>1, <2>2, <2>3, <2>4, <2>5
<1> QED
  BY <1>3, <1>4 DEF IInv

-----------------------------------------------------------------------------
(* The induction.                                                           *)

LEMMA InitIInv == Init => IInv
<1> SUFFICES ASSUME Init PROVE IInv
  OBVIOUS
<1> USE DEF Init, LedgerInit
<1>1. \A t \in Token : alloc[t] = FreeToken
  OBVIOUS
<1>2. FreeToken \in Rows({NoInstance}) /\ FreeToken.status = "free"
  BY DEF FreeToken, Rows, Status
<1>3. alloc \in [Token -> Rows({NoInstance})]
  BY <1>2
<1>4. Tokens("active") = {} /\ Tokens("pending") = {}
  BY <1>1, <1>2 DEF Tokens
<1>5. Charges
  <2>1. Baseline \in Nat /\ Ceiling(plan) \in Nat /\ Baseline <= Ceiling(plan)
    BY BudgetOfPlan
  <2> QED
    BY <1>3, <2>1 DEF Charges, WithinBudget, Committed
<1>6. Queued = {} /\ Announced = {}
  BY DEF Queued, Announced
<1>7. Queue /\ Completions
  <2>1. inflight = <<>> /\ mailbox = <<>> /\ expected = {}
    OBVIOUS
  <2>2. overflow = FALSE /\ callback_failed = FALSE /\ drain_ok = TRUE
    OBVIOUS
  <2>3. Queue
    BY <2>1 DEF Queue
  <2>4. (overflow <=> expected \ Announced # {}) /\ (callback_failed <=> overflow)
    BY <1>6, <2>1, <2>2
  <2>5. ({overflow, callback_failed, drain_ok} \subseteq BOOLEAN) /\ mailbox \in Seq(Messages)
    <3>1. overflow \in BOOLEAN /\ callback_failed \in BOOLEAN /\ drain_ok \in BOOLEAN
      BY <2>2
    <3>2. mailbox \in Seq(Messages)
      BY <2>1
    <3> QED
      BY <3>1, <3>2
  <2>6. expected = Tokens("pending") /\ Announced \subseteq expected
    BY <1>4, <1>6, <2>1
  <2> QED
    BY <2>1, <2>3, <2>4, <2>5, <2>6 DEF Completions
<1>8. NoDanglingReference /\ Verdicts
  BY DEF NoDanglingReference, Verdicts, ReusableMeansClean, LossIsNeverSuccess
<1> QED
  BY <1>5, <1>7, <1>8 DEF IInv

LEMMA NextKeeps == IInv /\ [Next]_vars => IInv'
<1> SUFFICES ASSUME IInv, [Next]_vars PROVE IInv'
  OBVIOUS
<1>1. CASE UNCHANGED vars
  <2>1. UNCHANGED <<ledgerVars, QuietVars, inflight, held, drain_ok, pc, state, quarantined>>
    BY <1>1 DEF vars, execVars, ledgerVars, QuietVars
  <2>2. drain_ok' \in BOOLEAN
    BY <2>1 DEF IInv, Completions
  <2>3. Charges' /\ NoDanglingReference' /\ Queue' /\ Completions'
    BY <2>1, <2>2, OwnerKeeps
  <2>4. Verdicts'
    BY <2>1 DEF IInv, Verdicts, ReusableMeansClean, LossIsNeverSuccess, Occupying, QuietVars,
       ledgerVars
  <2> QED
    BY <2>3, <2>4 DEF IInv
<1>2. CASE Gpu
  BY <1>2, GpuKeeps
<1>3. CASE Working
  <2>1. CASE \E t \in Token, site \in Sites, n \in Requests : ReserveSite(t, site, n)
    BY <2>1, BuffersKeep
  <2>2. CASE \E t \in Token : \E actual \in 1 .. alloc[t].bytes : CommitBuffer(t, actual)
    BY <2>2, BuffersKeep
  <2>3. CASE \E t \in Token : FreeBuffer(t)
    BY <2>3, BuffersKeep
  <2>4. CASE ContinueCommand \/ Submit \/ \E S \in SUBSET Token : S # {} /\ ContinueReleasing(S)
    BY <2>4, CommandsKeep
  <2>5. CASE BeginCommand \/ (\E e \in Epochs(plan.instances) : EnterEpoch(e)) \/ EmitEvent
             \/ GenerateEnds
    BY <2>5, OwnerStepsKeep
  <2> QED
    BY <1>3, <2>1, <2>2, <2>3, <2>4, <2>5 DEF Working
<1>4. CASE Concluding
  <2>1. CASE \E t \in Token : CancelBuffer(t) \/ UnloadBuffer(t)
    BY <2>1, BuffersKeep
  <2>2. CASE SubmitReturns \/ CloseQueues \/ DrainMessage
    BY <2>2, WaitsKeep
  <2>3. CASE FinishEvent \/ SessionReturns \/ DrainReturns \/ Unloaded \/ FinishSuccess
             \/ FinalizeFailure
    BY <2>3, OwnerStepsKeep
  <2> QED
    BY <1>4, <2>1, <2>2, <2>3 DEF Concluding
<1> QED
  BY <1>1, <1>2, <1>3, <1>4 DEF Next

LEMMA Invariance == Spec => []IInv
BY InitIInv, NextKeeps, PTL DEF Spec

-----------------------------------------------------------------------------
(* The bytes that are reserved and committed never exceed the budget of the *)
(* plan.                                                                    *)
THEOREM BudgetKept == Spec => []WithinBudget
<1>1. IInv => WithinBudget
  BY DEF IInv, Charges
<1> QED
  BY <1>1, Invariance, PTL

(* The model refers to no buffer that was given away.                       *)
THEOREM ReferencesAreGood == Spec => []NoDanglingReference
<1>1. IInv => NoDanglingReference
  BY DEF IInv
<1> QED
  BY <1>1, Invariance, PTL

(* A buffer that a running command may touch is charged, with any number of *)
(* commands in flight.                                                      *)
THEOREM UsedIsCharged == Spec => []ChargedWhileUsed
<1>1. IInv => ChargedWhileUsed
  BY DEF IInv, Queue, ChargedWhileUsed, InUse
<1> QED
  BY <1>1, Invariance, PTL

(* Every pending release has exactly one completion, or a loss that is      *)
(* known, with a registry and a mailbox of any capacity.                    *)
THEOREM CompletionsAreAccounted == Spec => []CompletionsAccounted
<1>1. IInv => CompletionsAccounted
  <2> SUFFICES ASSUME IInv PROVE CompletionsAccounted
    OBVIOUS
  <2> USE DEF IInv
  <2>1. Cardinality(Queued) = Len(mailbox)
    <3> DEFINE f == [n \in DOMAIN mailbox |-> mailbox[n].token]
    <3>1. DOMAIN mailbox = 1 .. Len(mailbox) /\ Len(mailbox) \in Nat
      BY DEF Completions
    <3>2. f \in Bijection(1 .. Len(mailbox), Queued)
      BY <3>1 DEF Completions, Queued, Bijection, Injection, Surjection, IsInjective
    <3> HIDE DEF f
    <3>3. ExistsBijection(1 .. Len(mailbox), Queued)
      BY <3>2 DEF ExistsBijection
    <3> QED
      BY <3>1, <3>3, FS_CountingElements
  <2>2. Queued \intersect UNION {inflight[n].frees : n \in DOMAIN inflight} = {}
    BY DEF Completions
  <2> QED
    BY <2>1, <2>2 DEF CompletionsAccounted, Completions, Announced
<1> QED
  BY <1>1, Invariance, PTL

(* An engine that may be used again has nothing left of the request.        *)
THEOREM ReusableIsClean == Spec => []ReusableMeansClean
<1>1. IInv => ReusableMeansClean
  BY DEF IInv, Verdicts
<1> QED
  BY <1>1, Invariance, PTL

(* A request that lost a completion quarantines its engine.                 *)
THEOREM LossQuarantines == Spec => []LossIsNeverSuccess
<1>1. IInv => LossIsNeverSuccess
  BY DEF IInv, Verdicts
<1> QED
  BY <1>1, Invariance, PTL

-----------------------------------------------------------------------------
(* Where the charged buffers are in the plan, and what the counters of the  *)
(* ledger add up to.  Each charged buffer stands for an instance of its own *)
(* that lives at the current epoch, in an alias group of its own.           *)

RowsOf(p) == Rows(p.instances \union {NoInstance})

PlacedIn(a, p, e) ==
    /\ a \in [Token -> RowsOf(p)]
    /\ e \in Epochs(p.instances)
    /\ \A t \in Token :
           /\ a[t].status = "free" => a[t].bytes = 0
           /\ a[t].status # "free" =>
                  /\ 0 < a[t].bytes /\ a[t].bytes <= a[t].inst.upper
                  /\ a[t].inst \in LiveAt(p.instances, e)
    /\ \A t, u \in Token :
           /\ a[t].status # "free" /\ a[u].status # "free"
           /\ AliasKey(a[t].inst) = AliasKey(a[u].inst)
           => t = u

\* What the reservations and what the storages are charged.
Promised(a) == [t \in Token |-> IF a[t].status = "reserved" THEN a[t].bytes ELSE 0]
Stored(a) == [t \in Token |-> IF a[t].status = "reserved" THEN 0 ELSE a[t].bytes]

CountedAs(a, reserved, stored) ==
    reserved = Total(Promised(a), Token) /\ stored = Total(Stored(a), Token)

Placed == PlacedIn(alloc, plan, epoch)
Counted == CountedAs(alloc, reserved_bytes, storage_bytes)

LInv == IInv /\ plan \in Plans /\ Placed /\ Counted

LEMMA InstancesOfPlan ==
  ASSUME NEW p \in Plans
  PROVE  /\ IsFiniteSet(p.instances) /\ ManifestValid(p.instances)
         /\ \A i \in p.instances : /\ i.id \in Nat /\ i.upper \in Nat
                                   /\ i.begin \in Nat /\ i.end \in Nat
         /\ \A e \in Epochs(p.instances) : e \in Nat
<1>1. \A i \in p.instances : {i.id, i.upper, i.begin, i.end} \subseteq Nat
  BY PlanAssumption
<1>2. \A i \in p.instances : /\ i.id \in Nat /\ i.upper \in Nat
                             /\ i.begin \in Nat /\ i.end \in Nat
  BY <1>1
<1> QED
  BY <1>2, PlanAssumption DEF Epochs

\* One row is replaced: the counters move by what the row held and holds.
LEMMA CountUpdate ==
  ASSUME NEW V, NEW a \in [Token -> Rows(V)], NEW t \in Token, NEW row \in Rows(V),
         NEW r, NEW s, CountedAs(a, r, s), NEW b, b = [a EXCEPT ![t] = row]
  PROVE  CountedAs(b, r - Promised(a)[t] + Promised(b)[t], s - Stored(a)[t] + Stored(b)[t])
<1>1. IsFiniteSet(Token)
  BY PlanAssumption
<1>2. \A u \in Token : a[u] \in Rows(V) /\ b[u] \in Rows(V) /\ (u # t => b[u] = a[u])
  OBVIOUS
<1>3. \A u \in Token : /\ Promised(a)[u] \in Nat /\ Promised(b)[u] \in Nat
                       /\ Stored(a)[u] \in Nat /\ Stored(b)[u] \in Nat
                       /\ u # t => /\ Promised(a)[u] = Promised(b)[u]
                                   /\ Stored(a)[u] = Stored(b)[u]
  BY <1>2 DEF Promised, Stored, Rows
<1>4. Total(Promised(b), Token) = Total(Promised(a), Token) - Promised(a)[t] + Promised(b)[t]
  <2> DEFINE v == Promised(a)
             w == Promised(b)
  <2>1. /\ \A u \in Token : v[u] \in Nat /\ w[u] \in Nat
        /\ \A u \in Token \ {t} : w[u] = v[u]
    BY <1>3
  <2> HIDE DEF v, w
  <2>2. Total(w, Token) = Total(v, Token) - v[t] + w[t]
    BY <1>1, <2>1, TotalUpdate
  <2> QED
    BY <2>2 DEF v, w
<1>5. Total(Stored(b), Token) = Total(Stored(a), Token) - Stored(a)[t] + Stored(b)[t]
  <2> DEFINE v == Stored(a)
             w == Stored(b)
  <2>1. /\ \A u \in Token : v[u] \in Nat /\ w[u] \in Nat
        /\ \A u \in Token \ {t} : w[u] = v[u]
    BY <1>3
  <2> HIDE DEF v, w
  <2>2. Total(w, Token) = Total(v, Token) - v[t] + w[t]
    BY <1>1, <2>1, TotalUpdate
  <2> QED
    BY <2>2 DEF v, w
<1> QED
  BY <1>4, <1>5 DEF CountedAs

\* Time goes on, and nothing charged has outlived its interval.
LEMMA PlacedLater ==
  ASSUME NEW p \in Plans, NEW a, NEW e, PlacedIn(a, p, e), NEW d \in Epochs(p.instances), e <= d,
         \A t \in Token : a[t].status # "free" => d < a[t].inst.end
  PROVE  PlacedIn(a, p, d)
<1>1. ASSUME NEW t \in Token, a[t].status # "free" PROVE a[t].inst \in LiveAt(p.instances, d)
  <2>1. a[t].inst \in p.instances /\ a[t].inst.begin <= e /\ d < a[t].inst.end
    BY <1>1 DEF PlacedIn, LiveAt
  <2>2. a[t].inst.begin \in Nat /\ e \in Nat /\ d \in Nat
    BY <2>1, InstancesOfPlan DEF PlacedIn
  <2> QED
    BY <2>1, <2>2 DEF LiveAt
<1> QED
  BY <1>1 DEF PlacedIn

\* A charged buffer changes its status, is charged less, or is given back.
LEMMA PlacedShrinks ==
  ASSUME NEW p \in Plans, NEW a, NEW e, PlacedIn(a, p, e), NEW t \in Token, NEW row \in RowsOf(p),
         \/ row.status = "free" /\ row.bytes = 0
         \/ /\ a[t].status # "free" /\ row.status # "free" /\ row.inst = a[t].inst
            /\ 0 < row.bytes /\ row.bytes <= a[t].bytes
  PROVE  PlacedIn([a EXCEPT ![t] = row], p, e)
<1> DEFINE b == [a EXCEPT ![t] = row]
<1>1. b \in [Token -> RowsOf(p)] /\ b[t] = row /\ \A u \in Token : u # t => b[u] = a[u]
  BY DEF PlacedIn
<1> HIDE DEF b
<1>2. \A u \in Token : b[u].status # "free" => a[u].status # "free" /\ b[u].inst = a[u].inst
  BY <1>1
<1>3. \A u \in Token :
           /\ b[u].status = "free" => b[u].bytes = 0
           /\ b[u].status # "free" =>
                  /\ 0 < b[u].bytes /\ b[u].bytes <= b[u].inst.upper
                  /\ b[u].inst \in LiveAt(p.instances, e)
  <2> SUFFICES ASSUME NEW u \in Token
               PROVE  /\ b[u].status = "free" => b[u].bytes = 0
                      /\ b[u].status # "free" =>
                             /\ 0 < b[u].bytes /\ b[u].bytes <= b[u].inst.upper
                             /\ b[u].inst \in LiveAt(p.instances, e)
    OBVIOUS
  <2>1. CASE u # t
    BY <1>1, <2>1 DEF PlacedIn
  <2>2. CASE u = t
    <3>1. CASE row.status = "free" /\ row.bytes = 0
      BY <1>1, <2>2, <3>1
    <3>2. CASE /\ a[t].status # "free" /\ row.status # "free" /\ row.inst = a[t].inst
               /\ 0 < row.bytes /\ row.bytes <= a[t].bytes
      <4>1. /\ a[t].bytes <= a[t].inst.upper /\ a[t].inst \in LiveAt(p.instances, e)
            /\ a[t].bytes \in Nat
        BY <3>2 DEF PlacedIn, RowsOf, Rows
      <4>2. row.bytes \in Nat
        BY DEF RowsOf, Rows
      <4>3. a[t].inst.upper \in Nat
        BY <4>1, InstancesOfPlan DEF LiveAt
      <4> QED
        BY <1>1, <2>2, <3>2, <4>1, <4>2, <4>3
    <3> QED
      BY <3>1, <3>2
  <2> QED
    BY <2>1, <2>2
<1> QED
  BY <1>1, <1>2, <1>3 DEF PlacedIn, b

\* try_reserve_site finds the smallest instance that is large enough.
LEMMA SelectedIsCandidate ==
  ASSUME plan \in Plans, NEW site, NEW n, NEW e, Candidates(site, n, e) # {}
  PROVE  Selected(site, n, e) \in Candidates(site, n, e)
<1> DEFINE C == Candidates(site, n, e)
           U == {i.upper : i \in C}
<1>1. \A i \in C : i.id \in Nat /\ i.upper \in Nat
  BY InstancesOfPlan DEF Candidates, InstancesOf
<1> HIDE DEF C
<1>2. PICK u \in U : \A m \in U : u <= m
  <2>1. U \in SUBSET Nat /\ U # {}
    BY <1>1 DEF C
  <2> HIDE DEF U
  <2> QED
    BY <2>1, LeastNumber
<1> DEFINE D == {i.id : i \in {j \in C : j.upper = u}}
<1>3. PICK d \in D : \A m \in D : d <= m
  <2>1. D \in SUBSET Nat /\ D # {}
    BY <1>1, <1>2
  <2> HIDE DEF D
  <2> QED
    BY <2>1, LeastNumber
<1>4. PICK i \in C : i.upper = u /\ i.id = d
  BY <1>3
<1>5. \A j \in C : i.upper < j.upper \/ (i.upper = j.upper /\ i.id <= j.id)
  <2> SUFFICES ASSUME NEW j \in C
               PROVE  i.upper < j.upper \/ (i.upper = j.upper /\ i.id <= j.id)
    OBVIOUS
  <2>1. u <= j.upper /\ u \in Nat /\ j.upper \in Nat
    BY <1>1, <1>2
  <2>2. j.upper = u => d <= j.id
    BY <1>3
  <2> QED
    BY <1>4, <2>1, <2>2
<1> QED
  BY <1>4, <1>5, Zenon DEF Selected, C

\* The alias group of a permitted instance is not in use.
LEMMA SelectedHasOwnGroup ==
  ASSUME plan \in Plans, NEW e, PlacedIn(alloc, plan, e), NEW i \in plan.instances,
         i \notin Occupied, AliasFree(i), NEW t \in Token, alloc[t].status # "free"
  PROVE  AliasKey(alloc[t].inst) # AliasKey(i)
<1> DEFINE j == alloc[t].inst
<1>1. j \in Occupied
  BY DEF Occupied, Occupying
<1>2. j \in plan.instances /\ i # j
  BY <1>1 DEF PlacedIn, LiveAt
<1>3. <<i.site, i.id>> # <<j.site, j.id>>
  BY <1>2, InstancesOfPlan DEF ManifestValid
<1>4. i.alias # 0 => j.alias # i.alias
  BY <1>1 DEF AliasFree
<1> HIDE DEF j
<1> SUFFICES ASSUME AliasKey(j) = AliasKey(i) PROVE FALSE
  BY DEF j
<1>5. i.alias = j.alias
  <2>1. AliasKey(i)[1] = i.alias
    BY Zenon DEF AliasKey
  <2>2. AliasKey(j)[1] = j.alias
    BY Zenon DEF AliasKey
  <2> QED
    BY <2>1, <2>2
<1>6. CASE i.alias = 0
  <2>1. <<0, i.site, i.id>> = <<0, j.site, j.id>>
    BY <1>5, <1>6 DEF AliasKey
  <2> QED
    BY <1>3, <2>1
<1> QED
  BY <1>4, <1>5, <1>6

\* The epoch of a reservation is one of the plan, and nothing charged is late.
LEMMA EpochReached ==
  ASSUME plan \in Plans, Placed, NEW e, e # epoch => CanEnter(e)
  PROVE  PlacedIn(alloc, plan, e)
<1>1. CASE e = epoch
  BY <1>1 DEF Placed
<1>2. CASE e # epoch
  <2>1. e \in Epochs(plan.instances) /\ epoch \in Epochs(plan.instances) /\ e >= epoch
    BY <1>2 DEF CanEnter, Placed, PlacedIn
  <2>2. epoch <= e
    BY <2>1, InstancesOfPlan
  <2>3. \A t \in Token : alloc[t].status # "free" => e < alloc[t].inst.end
    BY <1>2 DEF CanEnter, ValidEpoch, Occupied, Occupying
  <2> QED
    BY <2>1, <2>2, <2>3, PlacedLater DEF Placed
<1> QED
  BY <1>1, <1>2

\* A permitted reservation takes an instance that lives at its epoch, in a
\* group that no charged buffer uses, and fits below its bound.
LEMMA PermittedInstance ==
  ASSUME plan \in Plans, NEW e, PlacedIn(alloc, plan, e), NEW site, NEW n, Permits(site, n, e)
  PROVE  /\ Selected(site, n, e) \in LiveAt(plan.instances, e)
         /\ n <= Selected(site, n, e).upper
         /\ \A t \in Token : alloc[t].status # "free" =>
                AliasKey(alloc[t].inst) # AliasKey(Selected(site, n, e))
<1> DEFINE i == Selected(site, n, e)
<1>1. i \in Candidates(site, n, e) /\ AliasFree(i)
  BY SelectedIsCandidate DEF Permits
<1> HIDE DEF i
<1>2. i \in plan.instances /\ i \notin Occupied /\ i.begin <= e /\ e < i.end /\ n <= i.upper
  BY <1>1 DEF Candidates, InstancesOf
<1>3. \A t \in Token : alloc[t].status # "free" => AliasKey(alloc[t].inst) # AliasKey(i)
  BY <1>1, <1>2, SelectedHasOwnGroup
<1> QED
  BY <1>2, <1>3 DEF LiveAt, i

\* The owner reserves.
LEMMA ReserveCounted ==
  ASSUME LInv, NEW t \in Token, NEW site, NEW n \in Nat \ {0}, NEW e, e # epoch => CanEnter(e),
         Reserve(t, site, n, e)
  PROVE  /\ PlacedIn(alloc', plan, e)
         /\ CountedAs(alloc', reserved_bytes', storage_bytes')
<1> DEFINE i == Selected(site, n, e)
           row == [status |-> "reserved", inst |-> i, upper |-> n, bytes |-> n]
<1>1. PlacedIn(alloc, plan, e) /\ plan \in Plans
  BY EpochReached DEF LInv
<1>2. /\ i \in LiveAt(plan.instances, e) /\ n <= i.upper
      /\ \A u \in Token : alloc[u].status # "free" => AliasKey(alloc[u].inst) # AliasKey(i)
  BY <1>1, PermittedInstance DEF Reserve
<1>3. /\ alloc[t].status = "free" /\ alloc' = [alloc EXCEPT ![t] = row]
      /\ reserved_bytes' = reserved_bytes + n /\ storage_bytes' = storage_bytes
  BY DEF Reserve
<1> HIDE DEF i
<1>4. row \in RowsOf(plan) /\ row.status = "reserved" /\ row.inst = i /\ row.bytes = n
  BY <1>2 DEF LiveAt, RowsOf, Rows, Status
<1> HIDE DEF row
<1>5. alloc \in [Token -> RowsOf(plan)]
  BY <1>1 DEF PlacedIn
<1>6. /\ alloc' \in [Token -> RowsOf(plan)] /\ alloc'[t] = row
      /\ \A u \in Token : u # t => alloc'[u] = alloc[u]
  BY <1>3, <1>4, <1>5
<1>7. PlacedIn(alloc', plan, e)
  <2>1. \A u \in Token :
           /\ alloc'[u].status = "free" => alloc'[u].bytes = 0
           /\ alloc'[u].status # "free" =>
                  /\ 0 < alloc'[u].bytes /\ alloc'[u].bytes <= alloc'[u].inst.upper
                  /\ alloc'[u].inst \in LiveAt(plan.instances, e)
    <3> SUFFICES ASSUME NEW u \in Token
                 PROVE  /\ alloc'[u].status = "free" => alloc'[u].bytes = 0
                        /\ alloc'[u].status # "free" =>
                               /\ 0 < alloc'[u].bytes /\ alloc'[u].bytes <= alloc'[u].inst.upper
                               /\ alloc'[u].inst \in LiveAt(plan.instances, e)
      OBVIOUS
    <3>1. CASE u = t
      BY <1>2, <1>4, <1>6, <3>1
    <3>2. CASE u # t
      BY <1>1, <1>6, <3>2 DEF PlacedIn
    <3> QED
      BY <3>1, <3>2
  <2>2. \A u, s \in Token :
           /\ alloc'[u].status # "free" /\ alloc'[s].status # "free"
           /\ AliasKey(alloc'[u].inst) = AliasKey(alloc'[s].inst)
           => u = s
    <3> SUFFICES ASSUME NEW u \in Token, NEW s \in Token, u # s,
                        alloc'[u].status # "free", alloc'[s].status # "free"
                 PROVE  AliasKey(alloc'[u].inst) # AliasKey(alloc'[s].inst)
      OBVIOUS
    <3>1. CASE u = t
      BY <1>2, <1>4, <1>6, <3>1
    <3>2. CASE s = t
      BY <1>2, <1>4, <1>6, <3>2
    <3>3. CASE u # t /\ s # t
      BY <1>1, <1>6, <3>3 DEF PlacedIn
    <3> QED
      BY <3>1, <3>2, <3>3
  <2> QED
    BY <1>1, <1>6, <2>1, <2>2 DEF PlacedIn
<1>8. CountedAs(alloc', reserved_bytes', storage_bytes')
  <2> DEFINE b == alloc'
  <2>0. CountedAs(b, reserved_bytes - Promised(alloc)[t] + Promised(b)[t],
                     storage_bytes - Stored(alloc)[t] + Stored(b)[t])
    BY <1>3, <1>4, <1>5, CountUpdate DEF LInv, Counted, RowsOf
  <2>1. Promised(alloc)[t] = 0 /\ Stored(alloc)[t] = 0
    BY <1>1, <1>3 DEF Promised, Stored, PlacedIn
  <2>2. Promised(b)[t] = n /\ Stored(b)[t] = 0
    BY <1>4, <1>6 DEF Promised, Stored
  <2>3. reserved_bytes \in Nat /\ storage_bytes \in Nat
    BY DEF LInv, IInv, Charges
  <2>4. /\ reserved_bytes - Promised(alloc)[t] + Promised(b)[t] = reserved_bytes'
        /\ storage_bytes - Stored(alloc)[t] + Stored(b)[t] = storage_bytes'
    BY <1>3, <2>1, <2>2, <2>3
  <2> HIDE DEF b
  <2> QED
    BY <2>0, <2>4 DEF b
<1> QED
  BY <1>7, <1>8

\* A reservation becomes a storage.
LEMMA CommitCounted ==
  ASSUME LInv, NEW t \in Token, NEW actual \in 1 .. alloc[t].bytes, Commit(t, actual)
  PROVE  PlacedIn(alloc', plan, epoch) /\ CountedAs(alloc', reserved_bytes', storage_bytes')
<1> DEFINE row == [alloc[t] EXCEPT !.status = "active", !.bytes = actual]
<1>1. plan \in Plans /\ PlacedIn(alloc, plan, epoch)
  BY DEF LInv, Placed
<1>2. alloc \in [Token -> RowsOf(plan)]
  BY <1>1 DEF PlacedIn
<1>3. alloc[t] \in RowsOf(plan) /\ alloc[t].bytes \in Nat /\ actual \in Nat /\ 0 < actual
      /\ actual <= alloc[t].bytes
  BY <1>2 DEF RowsOf, Rows
<1>4. /\ alloc[t].status = "reserved" /\ alloc' = [alloc EXCEPT ![t] = row]
      /\ reserved_bytes' = reserved_bytes - alloc[t].bytes
      /\ storage_bytes' = storage_bytes + actual
  BY <1>2 DEF Commit, WithoutReservation
<1>5. row \in RowsOf(plan) /\ row.status = "active" /\ row.inst = alloc[t].inst /\ row.bytes = actual
  BY <1>3 DEF RowsOf, Rows, Status
<1> HIDE DEF row
<1>6. PlacedIn(alloc', plan, epoch)
  BY <1>1, <1>3, <1>4, <1>5, PlacedShrinks
<1>7. alloc'[t] = row
  BY <1>2, <1>4
<1>8. CountedAs(alloc', reserved_bytes - Promised(alloc)[t] + Promised(alloc')[t],
                        storage_bytes - Stored(alloc)[t] + Stored(alloc')[t])
  BY <1>2, <1>4, <1>5, CountUpdate DEF LInv, Counted, RowsOf
<1>9. /\ Promised(alloc)[t] = alloc[t].bytes /\ Stored(alloc)[t] = 0
      /\ Promised(alloc')[t] = 0 /\ Stored(alloc')[t] = actual
  BY <1>4, <1>5, <1>7 DEF Promised, Stored
<1>10. reserved_bytes \in Nat /\ storage_bytes \in Nat
  BY DEF LInv, IInv, Charges
<1>11. /\ reserved_bytes - Promised(alloc)[t] + Promised(alloc')[t] = reserved_bytes'
       /\ storage_bytes - Stored(alloc)[t] + Stored(alloc')[t] = storage_bytes'
  BY <1>3, <1>4, <1>9, <1>10
<1> QED
  BY <1>6, <1>8, <1>11

\* A charge is given back.
LEMMA FreedCounted ==
  ASSUME LInv, NEW t \in Token,
         CancelReservation(t)
         \/ (EraseStorage(t) /\ alloc[t].status \in {"active", "pending"})
  PROVE  PlacedIn(alloc', plan, epoch) /\ CountedAs(alloc', reserved_bytes', storage_bytes')
<1>1. plan \in Plans /\ PlacedIn(alloc, plan, epoch)
  BY DEF LInv, Placed
<1>2. alloc \in [Token -> RowsOf(plan)] /\ alloc[t].bytes \in Nat
  BY <1>1 DEF PlacedIn, RowsOf, Rows
<1>3. FreeToken \in RowsOf(plan) /\ FreeToken.status = "free" /\ FreeToken.bytes = 0
  BY DEF FreeToken, RowsOf, Rows, Status
<1>4. alloc' = [alloc EXCEPT ![t] = FreeToken]
  BY DEF CancelReservation, EraseStorage
<1>5. PlacedIn(alloc', plan, epoch)
  BY <1>1, <1>3, <1>4, PlacedShrinks
<1>6. alloc'[t] = FreeToken
  BY <1>2, <1>4
<1>7. CountedAs(alloc', reserved_bytes - Promised(alloc)[t] + Promised(alloc')[t],
                        storage_bytes - Stored(alloc)[t] + Stored(alloc')[t])
  BY <1>2, <1>3, <1>4, CountUpdate DEF LInv, Counted, RowsOf
<1>8. Promised(alloc')[t] = 0 /\ Stored(alloc')[t] = 0
  BY <1>3, <1>6 DEF Promised, Stored
<1>9. reserved_bytes \in Nat /\ storage_bytes \in Nat
  BY DEF LInv, IInv, Charges
<1>10. /\ reserved_bytes - Promised(alloc)[t] = reserved_bytes'
       /\ storage_bytes - Stored(alloc)[t] = storage_bytes'
  <2>1. CASE CancelReservation(t)
    <3>1. /\ alloc[t].status = "reserved" /\ storage_bytes' = storage_bytes
          /\ reserved_bytes' = reserved_bytes - alloc[t].bytes
      BY <2>1 DEF CancelReservation, WithoutReservation
    <3>2. Promised(alloc)[t] = alloc[t].bytes /\ Stored(alloc)[t] = 0
      BY <3>1 DEF Promised, Stored
    <3> QED
      BY <1>9, <3>1, <3>2
  <2>2. CASE EraseStorage(t) /\ alloc[t].status \in {"active", "pending"}
    <3>1. /\ reserved_bytes' = reserved_bytes /\ storage_bytes' = storage_bytes - alloc[t].bytes
      BY <2>2 DEF EraseStorage, WithoutStorage
    <3>2. Promised(alloc)[t] = 0 /\ Stored(alloc)[t] = alloc[t].bytes
      BY <2>2 DEF Promised, Stored
    <3> QED
      BY <1>9, <3>1, <3>2
  <2> QED
    BY <2>1, <2>2
<1>11. reserved_bytes' \in Int /\ storage_bytes' \in Int
  BY <1>2, <1>9 DEF CancelReservation, EraseStorage, WithoutReservation, WithoutStorage
<1>12. /\ reserved_bytes - Promised(alloc)[t] + Promised(alloc')[t] = reserved_bytes'
       /\ storage_bytes - Stored(alloc)[t] + Stored(alloc')[t] = storage_bytes'
  BY <1>8, <1>10, <1>11
<1> QED
  BY <1>5, <1>7, <1>12

\* Leases are retired: they stay charged, for the same instances.
LEMMA RetireCounted ==
  ASSUME LInv, NEW S \in SUBSET Token, Retire(S)
  PROVE  PlacedIn(alloc', plan, epoch) /\ CountedAs(alloc', reserved_bytes', storage_bytes')
<1> DEFINE r(t) == [alloc[t] EXCEPT !.status = "pending"]
<1>1. PlacedIn(alloc, plan, epoch) /\ alloc \in [Token -> RowsOf(plan)]
  BY DEF LInv, Placed, PlacedIn
<1>2. \A t \in Token : /\ r(t) \in RowsOf(plan) /\ r(t).status = "pending"
                       /\ r(t).inst = alloc[t].inst /\ r(t).bytes = alloc[t].bytes
  BY <1>1 DEF RowsOf, Rows, Status
<1>3. /\ alloc' = [t \in Token |-> IF t \in S THEN r(t) ELSE alloc[t]]
      /\ \A t \in S : alloc[t].status = "active"
      /\ reserved_bytes' = reserved_bytes /\ storage_bytes' = storage_bytes
  BY DEF Retire
<1> HIDE DEF r
<1>4. alloc' \in [Token -> RowsOf(plan)]
  BY <1>1, <1>2, <1>3
<1>5. \A t \in Token : /\ alloc'[t].inst = alloc[t].inst /\ alloc'[t].bytes = alloc[t].bytes
                       /\ alloc'[t].status = "free" <=> alloc[t].status = "free"
                       /\ alloc'[t].status = "reserved" <=> alloc[t].status = "reserved"
  BY <1>2, <1>3
<1>6. PlacedIn(alloc', plan, epoch)
  BY <1>1, <1>4, <1>5 DEF PlacedIn
<1>7. Promised(alloc') = Promised(alloc) /\ Stored(alloc') = Stored(alloc)
  BY <1>5 DEF Promised, Stored
<1> QED
  BY <1>3, <1>6, <1>7 DEF LInv, Counted, CountedAs

-----------------------------------------------------------------------------
(* The induction.                                                           *)

LEMMA InitLInv == Init => LInv
<1> SUFFICES ASSUME Init PROVE LInv
  OBVIOUS
<1>1. plan \in Plans /\ alloc = [t \in Token |-> FreeToken] /\ epoch = 0
      /\ reserved_bytes = 0 /\ storage_bytes = 0
  BY DEF Init, LedgerInit
<1>2. FreeToken \in RowsOf(plan) /\ FreeToken.status = "free" /\ FreeToken.bytes = 0
  BY DEF FreeToken, RowsOf, Rows, Status
<1>3. \A t \in Token : alloc[t] = FreeToken
  BY <1>1
<1>4. Placed
  BY <1>1, <1>2, <1>3 DEF Placed, PlacedIn, Epochs
<1>5. IsFiniteSet(Token)
  BY PlanAssumption
<1>7. \A t \in Token : Promised(alloc)[t] = 0 /\ Stored(alloc)[t] = 0
  BY <1>2, <1>3 DEF Promised, Stored
<1>8. Total(Promised(alloc), Token) = 0
  BY <1>5, <1>7, TotalZero
<1>9. Total(Stored(alloc), Token) = 0
  BY <1>5, <1>7, TotalZero
<1> QED
  BY <1>1, <1>4, <1>8, <1>9, InitIInv DEF LInv, Counted, CountedAs

LEMMA BytesPositive == LInv => Requests \subseteq Nat \ {0}
<1> SUFFICES ASSUME LInv PROVE \A i \in plan.instances : 1 .. i.upper \subseteq Nat \ {0}
  BY DEF Requests
<1> QED
  BY InstancesOfPlan DEF LInv

\* The plan and the epochs stay what they are while the ledger works.
LEMMA LedgerStepsKeepPlan ==
  ASSUME [Next]_vars
  PROVE  plan' = plan
<1>1. ASSUME NEW t \in Token, NEW site, NEW n, NEW e, Reserve(t, site, n, e) PROVE plan' = plan
  BY <1>1 DEF Reserve
<1>2. ASSUME NEW t \in Token, EraseStorage(t) \/ CancelReservation(t) \/ \E n : Commit(t, n)
      PROVE  plan' = plan
  BY <1>2 DEF EraseStorage, CancelReservation, Commit
<1>3. ASSUME NEW S, Retire(S) PROVE plan' = plan
  BY <1>3 DEF Retire
<1>4. CASE UNCHANGED vars
  BY <1>4 DEF vars
<1>5. CASE Gpu
  BY <1>5 DEF Gpu, EndCommand, CompletedHandler, ledgerVars
<1>6. CASE Working
  <2>1. CASE \E t \in Token, site \in Sites, n \in Requests : ReserveSite(t, site, n)
    BY <1>1, <2>1 DEF ReserveSite
  <2>2. CASE \E t \in Token : \E actual \in 1 .. alloc[t].bytes : CommitBuffer(t, actual)
    BY <1>2, <2>2 DEF CommitBuffer
  <2>3. CASE \E t \in Token : FreeBuffer(t)
    BY <1>2, <2>3 DEF FreeBuffer, Release
  <2>4. CASE \E S \in SUBSET Token : S # {} /\ ContinueReleasing(S)
    BY <1>3, <2>4 DEF ContinueReleasing
  <2>5. CASE BeginCommand \/ ContinueCommand \/ Submit
             \/ (\E e \in Epochs(plan.instances) : EnterEpoch(e)) \/ EmitEvent \/ GenerateEnds
    BY <2>5 DEF BeginCommand, ContinueCommand, Submit, EnterEpoch, EmitEvent, GenerateEnds,
       ledgerVars
  <2> QED
    BY <1>6, <2>1, <2>2, <2>3, <2>4, <2>5 DEF Working
<1>7. CASE Concluding
  <2>1. CASE \E t \in Token : CancelBuffer(t)
    BY <1>2, <2>1 DEF CancelBuffer
  <2>2. CASE \E t \in Token : UnloadBuffer(t)
    BY <1>2, <2>2 DEF UnloadBuffer, Release
  <2>3. CASE DrainMessage
    <3>1. EraseStorage(Head(mailbox).token)
      BY <2>3 DEF DrainMessage, CompletePending
    <3> QED
      BY <3>1 DEF EraseStorage
  <2>4. CASE SubmitReturns \/ FinishEvent \/ CloseQueues \/ SessionReturns \/ DrainReturns
             \/ Unloaded \/ FinishSuccess \/ FinalizeFailure
    BY <2>4 DEF SubmitReturns, FinishEvent, CloseQueues, SessionReturns, DrainReturns,
       Unloaded, FinishSuccess, FinalizeFailure, ledgerVars
  <2> QED
    BY <1>7, <2>1, <2>2, <2>3, <2>4 DEF Concluding
<1> QED
  BY <1>4, <1>5, <1>6, <1>7 DEF Next

LEMMA NextLInv == LInv /\ [Next]_vars => LInv'
<1> SUFFICES ASSUME LInv, [Next]_vars PROVE LInv'
  OBVIOUS
<1>1. IInv'
  BY NextKeeps DEF LInv
<1>2. plan' = plan /\ plan \in Plans
  BY LedgerStepsKeepPlan DEF LInv
<1> SUFFICES PlacedIn(alloc', plan, epoch') /\ CountedAs(alloc', reserved_bytes', storage_bytes')
  BY <1>1, <1>2 DEF LInv, Placed, Counted
<1> DEFINE Goal == PlacedIn(alloc', plan, epoch')
                   /\ CountedAs(alloc', reserved_bytes', storage_bytes')
<1>3. ASSUME UNCHANGED ledgerVars, epoch' # epoch => CanEnter(epoch') PROVE Goal
  <2>1. PlacedIn(alloc, plan, epoch')
    BY <1>3, EpochReached DEF LInv
  <2> QED
    BY <1>3, <2>1 DEF LInv, Counted, ledgerVars
<1>4. CASE UNCHANGED vars \/ Gpu
  <2>1. UNCHANGED <<ledgerVars, epoch>>
    BY <1>4 DEF vars, execVars, ledgerVars, Gpu, EndCommand, CompletedHandler
  <2> QED
    BY <1>3, <2>1
<1>5. CASE Working
  <2>1. CASE \E t \in Token, site \in Sites, n \in Requests : ReserveSite(t, site, n)
    <3>1. PICK t \in Token, site \in Sites, n \in Requests : ReserveSite(t, site, n)
      BY <2>1
    <3> DEFINE e == EpochFor(site, n)
    <3>2. Reserve(t, site, n, e) /\ epoch' = e /\ (e # epoch => CanEnter(e))
      BY <3>1 DEF ReserveSite
    <3>3. n \in Nat \ {0}
      BY BytesPositive
    <3> HIDE DEF e
    <3> QED
      BY <3>2, <3>3, ReserveCounted
  <2>2. CASE \E t \in Token : \E actual \in 1 .. alloc[t].bytes : CommitBuffer(t, actual)
    <3>1. PICK t \in Token : \E actual \in 1 .. alloc[t].bytes : CommitBuffer(t, actual)
      BY <2>2
    <3>2. PICK actual \in 1 .. alloc[t].bytes : CommitBuffer(t, actual)
      BY <3>1
    <3>3. Commit(t, actual) /\ epoch' = epoch
      BY <3>2 DEF CommitBuffer
    <3> QED
      BY <3>3, CommitCounted
  <2>3. CASE \E t \in Token : FreeBuffer(t)
    <3>1. PICK t \in Token : FreeBuffer(t)
      BY <2>3
    <3>2. EraseStorage(t) /\ alloc[t].status = "active" /\ epoch' = epoch
      BY <3>1 DEF FreeBuffer, Release
    <3> QED
      BY <3>2, FreedCounted
  <2>4. CASE \E S \in SUBSET Token : S # {} /\ ContinueReleasing(S)
    <3>1. PICK S \in SUBSET Token : ContinueReleasing(S)
      BY <2>4
    <3>2. Retire(S) /\ epoch' = epoch
      BY <3>1 DEF ContinueReleasing
    <3> QED
      BY <3>2, RetireCounted
  <2>5. CASE BeginCommand \/ ContinueCommand \/ Submit \/ EmitEvent \/ GenerateEnds
    <3>1. UNCHANGED <<ledgerVars, epoch>>
      BY <2>5 DEF BeginCommand, ContinueCommand, Submit, EmitEvent, GenerateEnds
    <3> QED
      BY <1>3, <3>1
  <2>6. CASE \E e \in Epochs(plan.instances) : EnterEpoch(e)
    <3>1. UNCHANGED ledgerVars /\ CanEnter(epoch')
      BY <2>6 DEF EnterEpoch
    <3> QED
      BY <1>3, <3>1
  <2> QED
    BY <1>5, <2>1, <2>2, <2>3, <2>4, <2>5, <2>6 DEF Working
<1>6. CASE Concluding
  <2>1. CASE \E t \in Token : CancelBuffer(t)
    <3>1. PICK t \in Token : CancelReservation(t) /\ epoch' = epoch
      BY <2>1 DEF CancelBuffer, execVars
    <3> QED
      BY <3>1, FreedCounted
  <2>2. CASE \E t \in Token : UnloadBuffer(t)
    <3>1. PICK t \in Token : EraseStorage(t) /\ alloc[t].status = "active" /\ epoch' = epoch
      BY <2>2 DEF UnloadBuffer, Release
    <3> QED
      BY <3>1, FreedCounted
  <2>3. CASE DrainMessage
    <3> DEFINE t == Head(mailbox).token
    <3>1. EraseStorage(t) /\ alloc[t].status = "pending" /\ epoch' = epoch
      BY <2>3 DEF DrainMessage, CompletePending
    <3>2. t \in Token
      <4>1. mailbox \in Seq(Messages) /\ mailbox # <<>>
        BY <2>3 DEF DrainMessage, LInv, IInv, Completions
      <4>2. Head(mailbox) \in Messages
        BY <4>1
      <4> QED
        BY <4>2 DEF Messages
    <3> HIDE DEF t
    <3> QED
      BY <3>1, <3>2, FreedCounted
  <2>4. CASE FinishEvent
    <3>1. UNCHANGED ledgerVars /\ (epoch' # epoch => CanEnter(epoch'))
      BY <2>4 DEF FinishEvent, EventAccepted
    <3> QED
      BY <1>3, <3>1
  <2>5. CASE SubmitReturns \/ CloseQueues \/ SessionReturns \/ DrainReturns
             \/ Unloaded \/ FinishSuccess \/ FinalizeFailure
    <3>1. UNCHANGED <<ledgerVars, epoch>>
      BY <2>5 DEF SubmitReturns, CloseQueues, SessionReturns, DrainReturns, Unloaded,
         FinishSuccess, FinalizeFailure
    <3> QED
      BY <1>3, <3>1
  <2> QED
    BY <1>6, <2>1, <2>2, <2>3, <2>4, <2>5 DEF Concluding
<1> QED
  BY <1>4, <1>5, <1>6 DEF Next

LEMMA LedgerInvariance == Spec => []LInv
BY InitLInv, NextLInv, PTL DEF Spec

-----------------------------------------------------------------------------
(* A reservation that the manifest permits is within the budget, for every  *)
(* plan: what is charged sits in other groups that are live at the epoch of *)
(* the reservation, and the peak of the plan covers them all.               *)

LEMMA ChargesAddUp ==
  ASSUME LInv
  PROVE  /\ \A t \in Token : alloc[t].bytes \in Nat
         /\ reserved_bytes + storage_bytes = Total([t \in Token |-> alloc[t].bytes], Token)
<1> DEFINE w == [t \in Token |-> alloc[t].bytes]
           u == Promised(alloc)
           v == Stored(alloc)
<1>1. \A t \in Token : alloc[t].bytes \in Nat
  BY DEF LInv, Placed, PlacedIn, RowsOf, Rows
<1>2. \A t \in Token : u[t] \in Nat /\ v[t] \in Nat /\ w[t] = u[t] + v[t]
  BY <1>1 DEF Promised, Stored
<1>3. IsFiniteSet(Token)
  BY PlanAssumption
<1>4. reserved_bytes = Total(u, Token) /\ storage_bytes = Total(v, Token)
  BY DEF LInv, Counted, CountedAs
<1> HIDE DEF u, v, w
<1>5. Total(w, Token) = Total(u, Token) + Total(v, Token)
  BY <1>2, <1>3, TotalAdd
<1> QED
  BY <1>1, <1>4, <1>5 DEF w

LEMMA PermittedFits ==
  ASSUME LInv, NEW site, NEW n \in Nat, NEW e, e # epoch => CanEnter(e), Permits(site, n, e)
  PROVE  n <= Ceiling(plan) - Committed
<1> DEFINE M == plan.instances
           i == Selected(site, n, e)
           w == [t \in Token |-> alloc[t].bytes]
           f == [t \in Occupying |-> alloc[t].inst]
<1>1. plan \in Plans /\ PlacedIn(alloc, plan, e)
  BY EpochReached DEF LInv
<1>2. IsFiniteSet(M) /\ Bounds(M) /\ e \in Epochs(M)
  BY <1>1, InstancesOfPlan DEF Bounds, PlacedIn
<1>3. /\ i \in LiveAt(M, e) /\ n <= i.upper
      /\ \A t \in Token : alloc[t].status # "free" => AliasKey(alloc[t].inst) # AliasKey(i)
  BY <1>1, PermittedInstance
<1>4. Occupying \in SUBSET Token /\ IsFiniteSet(Occupying) /\ IsFiniteSet(Token)
  <2>1. IsFiniteSet(Token) /\ Occupying \in SUBSET Token
    BY PlanAssumption DEF Occupying
  <2> QED
    BY <2>1, FS_Subset
<1>5. \A t \in Occupying : /\ w[t] = alloc[t].bytes /\ f[t] = alloc[t].inst
                           /\ alloc[t].status # "free"
  BY <1>4 DEF Occupying
<1>6. \A t \in Occupying : /\ f[t] \in LiveAt(M, e) /\ w[t] \in Nat /\ w[t] <= f[t].upper
                           /\ AliasKey(f[t]) # AliasKey(i)
  BY <1>1, <1>3, <1>4, <1>5, ChargesAddUp DEF PlacedIn
<1>7. f \in [Occupying -> LiveAt(M, e)]
  BY <1>6
<1>8. \A t, u \in Occupying : AliasKey(f[t]) = AliasKey(f[u]) => t = u
  BY <1>1, <1>4, <1>5 DEF PlacedIn
<1>9. \A t \in Token : w[t] \in Nat /\ (t \notin Occupying => w[t] = 0)
  BY <1>1, ChargesAddUp DEF PlacedIn, Occupying
<1>10. reserved_bytes + storage_bytes = Total(w, Token)
  BY ChargesAddUp
<1> HIDE DEF w, f, i, M
<1>11. n + Total(w, Occupying) <= PeakBytes(M)
  BY <1>2, <1>3, <1>4, <1>6, <1>7, <1>8, PeakCovers
<1>12. Total(w, Token) = Total(w, Occupying)
  BY <1>4, <1>9, TotalWithin
<1>13. /\ Baseline \in Nat /\ PeakBytes(M) \in Nat /\ Ceiling(plan) = Baseline + PeakBytes(M)
  BY <1>1, BudgetOfPlan DEF M
<1>14. reserved_bytes \in Nat /\ storage_bytes \in Nat
  BY DEF LInv, IInv, Charges
<1> QED
  BY <1>10, <1>11, <1>12, <1>13, <1>14 DEF Committed

THEOREM PermittedAllocationsFit == Spec => []PlannedAllocationFits
<1>1. LInv => PlannedAllocationFits
  <2> SUFFICES ASSUME LInv, NEW site \in Sites, NEW n \in Requests,
                      EpochFor(site, n) # epoch => CanEnter(EpochFor(site, n)),
                      Permits(site, n, EpochFor(site, n))
               PROVE  n <= Ceiling(plan) - Committed
    BY DEF PlannedAllocationFits
  <2>1. n \in Nat
    BY BytesPositive
  <2> DEFINE e == EpochFor(site, n)
  <2>2. (e # epoch => CanEnter(e)) /\ Permits(site, n, e)
    OBVIOUS
  <2> HIDE DEF e
  <2> QED
    BY <2>1, <2>2, PermittedFits
<1> QED
  BY <1>1, LedgerInvariance, PTL

-----------------------------------------------------------------------------
(* The refinement of MemoryContract.                                        *)

ChargedBytes == [t \in Token |-> alloc[t].bytes]
Verdict == IF pc # "done" THEN "none" ELSE IF quarantined THEN "quarantined" ELSE "reusable"
Budget == Ceiling(plan) - Baseline

LEMMA ContractSum == Contract!Sum(Token) = Total(ChargedBytes, Token)
BY Zenon DEF Contract!Sum, Contract!MapThenSumSet, Contract!MapThenFoldSet,
   Total, MapThenSumSet, MapThenFoldSet, ChargedBytes

LEMMA ContractInit == Init => Contract!Init
<1> SUFFICES ASSUME Init PROVE Contract!Init
  OBVIOUS
<1>1. plan \in Plans /\ alloc = [t \in Token |-> FreeToken] /\ inflight = <<>> /\ pc = "generate"
  BY DEF Init, LedgerInit
<1>2. Budget \in Nat
  BY <1>1, BudgetOfPlan DEF Budget
<1>3. ChargedBytes = [t \in Token |-> 0]
  BY <1>1 DEF ChargedBytes, FreeToken
<1>4. InUse = {}
  BY <1>1 DEF InUse
<1>5. Verdict = "none"
  BY <1>1 DEF Verdict
<1> QED
  BY <1>2, <1>3, <1>4, <1>5 DEF Contract!Init, Budget, ChargedBytes, Verdict

\* What the abstract steps look like here.
LEMMA ContractSteps ==
  ASSUME LInv, UNCHANGED Budget,
         \/ UNCHANGED <<ChargedBytes, InUse, Verdict>>
         \/ \E t \in Token, n \in 1 .. Budget :
                /\ Verdict = "none" /\ ChargedBytes[t] = 0
                /\ n <= Budget - Total(ChargedBytes, Token)
                /\ ChargedBytes' = [ChargedBytes EXCEPT ![t] = n]
                /\ UNCHANGED <<InUse, Verdict>>
         \/ \E t \in Token, n \in 1 .. Budget :
                /\ n <= ChargedBytes[t]
                /\ ChargedBytes' = [ChargedBytes EXCEPT ![t] = n]
                /\ UNCHANGED <<InUse, Verdict>>
         \/ \E t \in Token :
                /\ t \notin InUse
                /\ ChargedBytes' = [ChargedBytes EXCEPT ![t] = 0]
                /\ UNCHANGED <<InUse, Verdict>>
         \/ /\ InUse' \subseteq Token /\ \A t \in InUse' : ChargedBytes[t] > 0
            /\ UNCHANGED <<ChargedBytes, Verdict>>
         \/ /\ Verdict = "none" /\ Verdict' \in {"reusable", "quarantined"}
            /\ Verdict' = "reusable" => InUse = {} /\ \A t \in Token : ChargedBytes[t] = 0
            /\ UNCHANGED <<ChargedBytes, InUse>>
  PROVE  [Contract!Next]_Contract!contractVars
<1>1. CASE UNCHANGED <<ChargedBytes, InUse, Verdict>>
  BY <1>1 DEF Contract!contractVars, ChargedBytes, Verdict, Budget
<1>2. CASE \E t \in Token, n \in 1 .. Budget :
                /\ Verdict = "none" /\ ChargedBytes[t] = 0
                /\ n <= Budget - Total(ChargedBytes, Token)
                /\ ChargedBytes' = [ChargedBytes EXCEPT ![t] = n]
                /\ UNCHANGED <<InUse, Verdict>>
  <2>1. \E t \in Token, n \in 1 .. Budget : Contract!Charge(t, n)
    BY <1>2, ContractSum, Zenon DEF Contract!Charge, ChargedBytes, Verdict, Budget
  <2> QED
    BY <2>1 DEF Contract!Next, Budget
<1>3. CASE \E t \in Token, n \in 1 .. Budget :
                /\ n <= ChargedBytes[t]
                /\ ChargedBytes' = [ChargedBytes EXCEPT ![t] = n]
                /\ UNCHANGED <<InUse, Verdict>>
  <2>1. \E t \in Token, n \in 1 .. Budget : Contract!Shrink(t, n)
    BY <1>3, Zenon DEF Contract!Shrink, ChargedBytes, Verdict, Budget
  <2> QED
    BY <2>1 DEF Contract!Next, Budget
<1>4. CASE \E t \in Token :
                /\ t \notin InUse
                /\ ChargedBytes' = [ChargedBytes EXCEPT ![t] = 0]
                /\ UNCHANGED <<InUse, Verdict>>
  <2>1. \E t \in Token : Contract!Discharge(t)
    BY <1>4, Zenon DEF Contract!Discharge, ChargedBytes, Verdict, Budget
  <2> QED
    BY <2>1 DEF Contract!Next
<1>5. CASE /\ InUse' \subseteq Token /\ \A t \in InUse' : ChargedBytes[t] > 0
           /\ UNCHANGED <<ChargedBytes, Verdict>>
  <2>1. Contract!Execute(InUse')
    BY <1>5 DEF Contract!Execute, ChargedBytes, Verdict, Budget
  <2> QED
    BY <1>5, <2>1 DEF Contract!Next
<1>6. CASE /\ Verdict = "none" /\ Verdict' \in {"reusable", "quarantined"}
           /\ Verdict' = "reusable" => InUse = {} /\ \A t \in Token : ChargedBytes[t] = 0
           /\ UNCHANGED <<ChargedBytes, InUse>>
  <2>1. Contract!Judge(Verdict')
    BY <1>6, Zenon DEF Contract!Judge, ChargedBytes, Verdict, Budget
  <2> QED
    BY <1>6, <2>1 DEF Contract!Next
<1> QED
  BY <1>1, <1>2, <1>3, <1>4, <1>5, <1>6

LEMMA UsedIsChargedNow ==
  ASSUME LInv
  PROVE  /\ InUse \subseteq Token
         /\ \A t \in InUse : alloc[t].status \in {"active", "pending"} /\ t \notin Queued
         /\ \A t \in InUse : ChargedBytes[t] > 0
<1>1. \A t \in InUse : t \in Tokens("active") \union Tokens("pending") /\ t \notin Queued
  BY DEF LInv, IInv, Queue, InUse
<1>2. \A t \in InUse : t \in Token /\ alloc[t].status \in {"active", "pending"}
  BY <1>1 DEF Tokens
<1>3. \A t \in InUse : 0 < alloc[t].bytes /\ alloc[t].bytes \in Nat
  BY <1>2, ChargesAddUp DEF LInv, Placed, PlacedIn
<1> QED
  BY <1>1, <1>2, <1>3 DEF ChargedBytes

\* The charges of the owner are within the budget.
LEMMA ChargesWithinBudget ==
  ASSUME LInv
  PROVE  /\ Budget \in Nat /\ Total(ChargedBytes, Token) \in Nat
         /\ Committed = Baseline + Total(ChargedBytes, Token)
         /\ Total(ChargedBytes, Token) <= Budget
         /\ \A t \in Token : ChargedBytes[t] \in Nat /\ ChargedBytes[t] <= Budget
<1>1. /\ Baseline \in Nat /\ Ceiling(plan) \in Nat /\ Baseline <= Ceiling(plan)
  BY BudgetOfPlan DEF LInv
<1>2. reserved_bytes \in Nat /\ storage_bytes \in Nat /\ Committed <= Ceiling(plan)
  BY DEF LInv, IInv, Charges, WithinBudget
<1>3. /\ \A t \in Token : ChargedBytes[t] \in Nat
      /\ reserved_bytes + storage_bytes = Total(ChargedBytes, Token)
  BY ChargesAddUp DEF ChargedBytes
<1>4. IsFiniteSet(Token)
  BY PlanAssumption
<1>5. \A t \in Token : ChargedBytes[t] <= Total(ChargedBytes, Token)
  BY <1>3, <1>4, TotalBounds
<1>6. Total(ChargedBytes, Token) <= Budget /\ Budget \in Nat
  BY <1>1, <1>2, <1>3 DEF Committed, Budget
<1>7. Total(ChargedBytes, Token) \in Nat
  BY <1>3, <1>4, TotalType
<1>8. \A t \in Token : ChargedBytes[t] <= Budget
  BY <1>3, <1>5, <1>6, <1>7
<1> QED
  BY <1>1, <1>2, <1>3, <1>6, <1>7, <1>8 DEF Committed

\* A row that is replaced.
LEMMA ChargeUpdate ==
  ASSUME LInv, NEW t \in Token, NEW row, alloc' = [alloc EXCEPT ![t] = row]
  PROVE  ChargedBytes' = [ChargedBytes EXCEPT ![t] = row.bytes]
<1>1. DOMAIN alloc = Token
  BY DEF LInv, Placed, PlacedIn
<1> QED
  BY <1>1 DEF ChargedBytes

\* The request is judged, or nothing that the contract speaks of changes.
LEMMA JudgedStep ==
  ASSUME LInv, LInv', UNCHANGED <<ledgerVars, inflight>>, pc # "done",
         quarantined' \in BOOLEAN
  PROVE  [Contract!Next]_Contract!contractVars
<1>1. UNCHANGED <<Budget, ChargedBytes, InUse>> /\ Verdict = "none"
  BY DEF Budget, ChargedBytes, InUse, Verdict, ledgerVars, Ceiling
<1>2. CASE pc' # "done"
  <2>1. UNCHANGED Verdict
    BY <1>2 DEF Verdict
  <2> QED
    BY <1>1, <2>1, ContractSteps
<1>3. CASE pc' = "done"
  <2>1. Verdict' \in {"reusable", "quarantined"} /\ (Verdict' = "reusable" => ~quarantined')
    BY <1>3 DEF Verdict
  <2>2. ~quarantined' => Occupying' = {} /\ inflight' = <<>>
    BY <1>3 DEF LInv, IInv, Verdicts, ReusableMeansClean
  <2>3. ~quarantined' => InUse = {} /\ \A t \in Token : ChargedBytes[t] = 0
    <3>1. inflight' = <<>> => InUse = {}
      BY DEF InUse
    <3>2. Occupying' = {} => \A t \in Token : alloc[t].status = "free"
      BY DEF Occupying, ledgerVars
    <3>3. \A t \in Token : alloc[t].status = "free" => ChargedBytes[t] = 0
      BY DEF LInv, Placed, PlacedIn, ChargedBytes
    <3> QED
      BY <2>2, <3>1, <3>2, <3>3
  <2> QED
    BY <1>1, <2>1, <2>3, ContractSteps
<1> QED
  BY <1>2, <1>3

\* Neither the ledger nor the verdict changes: commands are committed and end.
LEMMA ExecutedStep ==
  ASSUME LInv, UNCHANGED <<Budget, ChargedBytes, Verdict>>,
         \A t \in InUse' : t \in InUse \/ t \in Tokens("active")
  PROVE  [Contract!Next]_Contract!contractVars
<1>1. \A t \in Tokens("active") : t \in Token /\ ChargedBytes[t] > 0
  <2> SUFFICES ASSUME NEW t \in Token, alloc[t].status = "active" PROVE ChargedBytes[t] > 0
    BY DEF Tokens
  <2>1. 0 < alloc[t].bytes /\ alloc[t].bytes \in Nat
    BY ChargesAddUp DEF LInv, Placed, PlacedIn
  <2> QED
    BY <2>1 DEF ChargedBytes
<1>2. InUse' \subseteq Token /\ \A t \in InUse' : ChargedBytes[t] > 0
  BY <1>1, UsedIsChargedNow
<1> QED
  BY <1>2, ContractSteps

\* A charge ends, of a buffer that no running command uses.
LEMMA DischargedStep ==
  ASSUME LInv, NEW t \in Token, t \notin InUse, CancelReservation(t) \/ EraseStorage(t),
         UNCHANGED <<pc, inflight, quarantined>>
  PROVE  [Contract!Next]_Contract!contractVars
<1>1. alloc' = [alloc EXCEPT ![t] = FreeToken] /\ plan' = plan
  BY DEF CancelReservation, EraseStorage
<1>2. ChargedBytes' = [ChargedBytes EXCEPT ![t] = 0]
  <2>1. FreeToken.bytes = 0
    BY DEF FreeToken
  <2> QED
    BY <1>1, <2>1, ChargeUpdate
<1>3. UNCHANGED <<Budget, InUse, Verdict>>
  BY <1>1 DEF Budget, Ceiling, InUse, Verdict
<1> QED
  BY <1>2, <1>3, ContractSteps

\* A reservation.
LEMMA ChargedStep ==
  ASSUME LInv, NEW t \in Token, NEW site, NEW n \in Nat \ {0}, NEW e, Reserve(t, site, n, e),
         pc # "done", UNCHANGED <<pc, inflight, quarantined>>
  PROVE  [Contract!Next]_Contract!contractVars
<1> DEFINE row == [status |-> "reserved", inst |-> Selected(site, n, e),
                   upper |-> n, bytes |-> n]
<1>1. /\ alloc[t].status = "free" /\ alloc' = [alloc EXCEPT ![t] = row]
      /\ plan' = plan /\ n <= Ceiling(plan) - Committed
  BY DEF Reserve
<1>2. row.bytes = n
  OBVIOUS
<1> HIDE DEF row
<1>3. ChargedBytes' = [ChargedBytes EXCEPT ![t] = n]
  BY <1>1, <1>2, ChargeUpdate
<1>4. ChargedBytes[t] = 0 /\ Verdict = "none"
  BY <1>1 DEF ChargedBytes, Verdict, LInv, Placed, PlacedIn
<1>5. n <= Budget - Total(ChargedBytes, Token) /\ n \in 1 .. Budget
  <2>1. /\ Budget \in Nat /\ Total(ChargedBytes, Token) \in Nat
        /\ Committed = Baseline + Total(ChargedBytes, Token)
    BY ChargesWithinBudget
  <2>2. Baseline \in Nat /\ Ceiling(plan) \in Nat
    BY BudgetOfPlan DEF LInv
  <2> QED
    BY <1>1, <2>1, <2>2 DEF Budget
<1>6. UNCHANGED <<Budget, InUse, Verdict>>
  BY <1>1 DEF Budget, Ceiling, InUse, Verdict
<1> QED
  BY <1>3, <1>4, <1>5, <1>6, ContractSteps

\* A buffer gets its size.
LEMMA ShrunkStep ==
  ASSUME LInv, NEW t \in Token, NEW actual \in 1 .. alloc[t].bytes, Commit(t, actual),
         UNCHANGED <<pc, inflight, quarantined>>
  PROVE  [Contract!Next]_Contract!contractVars
<1> DEFINE row == [alloc[t] EXCEPT !.status = "active", !.bytes = actual]
<1>1. alloc \in [Token -> RowsOf(plan)]
  BY DEF LInv, Placed, PlacedIn
<1>2. alloc' = [alloc EXCEPT ![t] = row] /\ plan' = plan
  BY <1>1 DEF Commit
<1>3. row.bytes = actual
  BY <1>1 DEF RowsOf, Rows
<1> HIDE DEF row
<1>4. ChargedBytes' = [ChargedBytes EXCEPT ![t] = actual]
  BY <1>2, <1>3, ChargeUpdate
<1>5. actual \in 1 .. Budget /\ actual <= ChargedBytes[t]
  <2>1. ChargedBytes[t] = alloc[t].bytes
    BY DEF ChargedBytes
  <2>2. ChargedBytes[t] \in Nat /\ ChargedBytes[t] <= Budget /\ Budget \in Nat
    BY ChargesWithinBudget
  <2> QED
    BY <2>1, <2>2
<1>6. UNCHANGED <<Budget, InUse, Verdict>>
  BY <1>2 DEF Budget, Ceiling, InUse, Verdict
<1> QED
  BY <1>4, <1>5, <1>6, ContractSteps

LEMMA ContractNext ==
  ASSUME LInv, LInv', [Next]_vars
  PROVE  [Contract!Next]_Contract!contractVars
<1>1. quarantined' \in BOOLEAN
  BY DEF LInv, IInv, Verdicts
<1>2. pc \in Closed \union {"done"} => inflight = <<>>
  BY DEF LInv, IInv, Verdicts, Closed
<1>3. inflight = <<>> => InUse = {}
  BY DEF InUse
<1>4. CASE UNCHANGED vars
  <2>1. UNCHANGED <<Budget, ChargedBytes, InUse, Verdict>>
    BY <1>4 DEF vars, execVars, Budget, Ceiling, ChargedBytes, InUse, Verdict
  <2> QED
    BY <2>1, ContractSteps
<1>5. CASE EndCommand
  <2>1. PICK n \in DOMAIN inflight, result \in {"completed", "error"} :
            inflight' = [inflight EXCEPT ![n].status = result]
    BY <1>5 DEF EndCommand
  <2>2. \A m \in DOMAIN inflight : inflight[m] \in CommandRecord
    BY DEF LInv, IInv, Queue
  <2>3. /\ DOMAIN inflight' = DOMAIN inflight
        /\ \A m \in DOMAIN inflight : /\ inflight'[m].uses = inflight[m].uses
                                      /\ inflight'[m].status = "running" =>
                                             inflight[m].status = "running"
    BY <2>1, <2>2 DEF CommandRecord
  <2>4. InUse' \subseteq InUse
    BY <2>3 DEF InUse
  <2>5. UNCHANGED <<Budget, ChargedBytes, Verdict>>
    BY <1>5 DEF EndCommand, ledgerVars, Budget, Ceiling, ChargedBytes, Verdict
  <2> QED
    BY <2>4, <2>5, ExecutedStep
<1>6. CASE CompletedHandler
  <2>1. PICK n \in DOMAIN inflight : \E t \in inflight[n].frees :
            inflight' = [inflight EXCEPT ![n].frees = @ \ {t}]
    BY <1>6 DEF CompletedHandler
  <2>2. \A m \in DOMAIN inflight : inflight[m] \in CommandRecord
    BY DEF LInv, IInv, Queue
  <2>3. /\ DOMAIN inflight' = DOMAIN inflight
        /\ \A m \in DOMAIN inflight : /\ inflight'[m].uses = inflight[m].uses
                                      /\ inflight'[m].status = inflight[m].status
    BY <2>1, <2>2 DEF CommandRecord
  <2>4. InUse' \subseteq InUse
    BY <2>3 DEF InUse
  <2>5. UNCHANGED <<Budget, ChargedBytes, Verdict>>
    BY <1>6 DEF CompletedHandler, ledgerVars, Budget, Ceiling, ChargedBytes, Verdict
  <2> QED
    BY <2>4, <2>5, ExecutedStep
<1>7. ASSUME NEW S, inflight' = Append(inflight, Command(S)), plan' = plan,
             UNCHANGED <<ChargedBytes, Verdict>>
      PROVE  [Contract!Next]_Contract!contractVars
  <2>1. inflight \in Seq(CommandRecord)
    BY DEF LInv, IInv, Queue
  <2> DEFINE c == Command(S)
  <2>2. c.uses = Tokens("active")
    BY DEF Command
  <2> HIDE DEF c
  <2>3. /\ DOMAIN inflight' = 1 .. Len(inflight) + 1 /\ Len(inflight) \in Nat
        /\ DOMAIN inflight = 1 .. Len(inflight)
        /\ inflight'[Len(inflight) + 1] = c
        /\ \A m \in 1 .. Len(inflight) : inflight'[m] = inflight[m]
    BY <1>7, <2>1 DEF c
  <2>4. \A m \in DOMAIN inflight' : inflight'[m].status = "running" =>
            inflight'[m].uses \subseteq InUse \union Tokens("active")
    <3> SUFFICES ASSUME NEW m \in DOMAIN inflight', inflight'[m].status = "running"
                 PROVE  inflight'[m].uses \subseteq InUse \union Tokens("active")
      OBVIOUS
    <3>1. CASE m = Len(inflight) + 1
      BY <2>2, <2>3, <3>1
    <3>2. CASE m # Len(inflight) + 1
      <4>1. m \in DOMAIN inflight /\ inflight'[m] = inflight[m]
        BY <2>3, <3>2
      <4>2. inflight[m].uses \subseteq InUse
        BY <4>1 DEF InUse
      <4> QED
        BY <4>1, <4>2
    <3> QED
      BY <3>1, <3>2
  <2>5. \A t \in InUse' : t \in InUse \/ t \in Tokens("active")
    BY <2>4 DEF InUse
  <2>6. UNCHANGED Budget
    BY <1>7 DEF Budget, Ceiling
  <2> QED
    BY <1>7, <2>5, <2>6, ExecutedStep
<1>8. CASE Working
  <2>1. CASE \E t \in Token, site \in Sites, n \in Requests : ReserveSite(t, site, n)
    <3>1. PICK t \in Token, site \in Sites, n \in Requests : ReserveSite(t, site, n)
      BY <2>1
    <3> DEFINE e == EpochFor(site, n)
    <3>2. Reserve(t, site, n, e) /\ pc # "done" /\ UNCHANGED <<pc, inflight, quarantined>>
      BY <3>1 DEF ReserveSite, OwnerAt
    <3>3. n \in Nat \ {0}
      BY BytesPositive
    <3> HIDE DEF e
    <3> QED
      BY <3>2, <3>3, ChargedStep
  <2>2. CASE \E t \in Token : \E actual \in 1 .. alloc[t].bytes : CommitBuffer(t, actual)
    <3>1. PICK t \in Token : \E actual \in 1 .. alloc[t].bytes : CommitBuffer(t, actual)
      BY <2>2
    <3>2. PICK actual \in 1 .. alloc[t].bytes : CommitBuffer(t, actual)
      BY <3>1
    <3>3. Commit(t, actual) /\ UNCHANGED <<pc, inflight, quarantined>>
      BY <3>2 DEF CommitBuffer, OwnerAt
    <3> QED
      BY <3>3, ShrunkStep
  <2>3. CASE \E t \in Token : FreeBuffer(t)
    <3>1. PICK t \in Token : FreeBuffer(t)
      BY <2>3
    <3>2. EraseStorage(t) /\ inflight = <<>> /\ UNCHANGED <<pc, inflight, quarantined>>
      BY <3>1 DEF FreeBuffer, Release
    <3> QED
      BY <1>3, <3>2, DischargedStep
  <2>4. CASE \E S \in SUBSET Token : S # {} /\ ContinueReleasing(S)
    <3>1. PICK S \in SUBSET Token : ContinueReleasing(S)
      BY <2>4
    <3>2. /\ Retire(S) /\ inflight' = Append(inflight, Command(S)) /\ UNCHANGED <<pc, quarantined>>
      BY <3>1 DEF ContinueReleasing, OwnerAt
    <3>3. UNCHANGED ChargedBytes
      <4>1. \A t \in Token : alloc'[t].bytes = alloc[t].bytes
        <5>1. \A t \in Token : [alloc[t] EXCEPT !.status = "pending"].bytes = alloc[t].bytes
          BY DEF LInv, Placed, PlacedIn, RowsOf, Rows
        <5> QED
          BY <3>2, <5>1 DEF Retire
      <4> QED
        BY <4>1 DEF ChargedBytes
    <3>4. plan' = plan /\ UNCHANGED Verdict
      BY <3>2 DEF Retire, Verdict
    <3> QED
      BY <1>7, <3>2, <3>3, <3>4
  <2>5. CASE ContinueCommand \/ Submit
    <3>1. /\ inflight' = Append(inflight, Command({})) /\ UNCHANGED ledgerVars
          /\ pc # "done" /\ pc' # "done" /\ UNCHANGED quarantined
      BY <2>5 DEF ContinueCommand, Submit, OwnerAt
    <3>2. plan' = plan /\ UNCHANGED <<ChargedBytes, Verdict>>
      BY <3>1 DEF ledgerVars, ChargedBytes, Verdict
    <3> QED
      BY <1>7, <3>1, <3>2
  <2>6. CASE BeginCommand \/ (\E e \in Epochs(plan.instances) : EnterEpoch(e)) \/ EmitEvent
             \/ GenerateEnds
    <3>1. UNCHANGED <<ledgerVars, inflight>> /\ pc # "done"
      BY <2>6 DEF BeginCommand, EnterEpoch, EmitEvent, GenerateEnds, OwnerAt
    <3> QED
      BY <1>1, <3>1, JudgedStep
  <2> QED
    BY <1>8, <2>1, <2>2, <2>3, <2>4, <2>5, <2>6 DEF Working
<1>9. CASE Concluding
  <2>1. CASE \E t \in Token : CancelBuffer(t)
    <3>1. PICK t \in Token : CancelBuffer(t)
      BY <2>1
    <3>2. CancelReservation(t) /\ UNCHANGED <<pc, inflight, quarantined>>
      BY <3>1 DEF CancelBuffer, execVars
    <3>3. t \notin InUse
      BY <3>2, UsedIsChargedNow DEF CancelReservation
    <3> QED
      BY <3>2, <3>3, DischargedStep
  <2>2. CASE \E t \in Token : UnloadBuffer(t)
    <3>1. PICK t \in Token : UnloadBuffer(t)
      BY <2>2
    <3>2. EraseStorage(t) /\ pc \in Closed /\ UNCHANGED <<pc, inflight, quarantined>>
      BY <3>1 DEF UnloadBuffer, Release, Closed
    <3> QED
      BY <1>2, <1>3, <3>2, DischargedStep
  <2>3. CASE DrainMessage
    <3> DEFINE t == Head(mailbox).token
    <3>1. EraseStorage(t) /\ UNCHANGED <<pc, inflight, quarantined>>
      BY <2>3 DEF DrainMessage, CompletePending
    <3>2. t \in Token /\ t \in Queued
      <4>1. mailbox \in Seq(Messages) /\ mailbox # <<>>
        BY <2>3 DEF DrainMessage, LInv, IInv, Completions
      <4>2. Head(mailbox) \in Messages /\ 1 \in DOMAIN mailbox /\ Head(mailbox) = mailbox[1]
        BY <4>1
      <4>3. t = mailbox[1].token
        BY <4>2
      <4> HIDE DEF t
      <4> QED
        BY <4>2, <4>3 DEF Messages, Queued
    <3> HIDE DEF t
    <3>3. t \notin InUse
      BY <3>2, UsedIsChargedNow
    <3> QED
      BY <3>1, <3>2, <3>3, DischargedStep
  <2>4. CASE SubmitReturns \/ CloseQueues
    <3>1. /\ GpuIdle /\ inflight' = <<>> /\ UNCHANGED <<ledgerVars, quarantined>>
          /\ pc # "done" /\ pc' # "done"
      BY <2>4 DEF SubmitReturns, CloseQueues, OwnerAt
    <3>2. InUse' = {}
      BY <3>1 DEF InUse
    <3>3. UNCHANGED <<Budget, ChargedBytes, Verdict>>
      BY <3>1 DEF ledgerVars, Budget, Ceiling, ChargedBytes, Verdict
    <3> QED
      BY <3>2, <3>3, ExecutedStep
  <2>5. CASE FinishEvent \/ SessionReturns \/ DrainReturns \/ Unloaded \/ FinishSuccess
             \/ FinalizeFailure
    <3>1. UNCHANGED <<ledgerVars, inflight>> /\ pc # "done"
      BY <2>5 DEF FinishEvent, SessionReturns, DrainReturns, Unloaded, FinishSuccess,
         FinalizeFailure, OwnerAt
    <3> QED
      BY <1>1, <3>1, JudgedStep
  <2> QED
    BY <1>9, <2>1, <2>2, <2>3, <2>4, <2>5 DEF Concluding
<1> QED
  BY <1>4, <1>5, <1>6, <1>8, <1>9 DEF Next, Gpu

(* A request keeps what MemoryContract promises the process, with any plan, *)
(* any buffers, and any number of commands in flight.                       *)
THEOREM ContractKept == Spec => ImplementsContract
<1>1. LInv /\ LInv' /\ [Next]_vars => [Contract!Next]_Contract!contractVars
  BY ContractNext
<1> QED
  BY <1>1, ContractInit, LedgerInvariance, PTL DEF Spec, ImplementsContract, Contract!Spec

\* The underflow checks of the ledger (memory_accounting.cpp:152, 317): what a
\* buffer is charged is in the counter it is taken from.
NeverUnderflows ==
    \A t \in Token :
        /\ alloc[t].status = "reserved" => alloc[t].bytes <= reserved_bytes
        /\ alloc[t].status \in {"active", "pending"} => alloc[t].bytes <= storage_bytes

(* No check for an underflow ever fails, whatever was reserved, shrunk,     *)
(* cancelled, retired and completed before.                                 *)
THEOREM CountersAreExact == Spec => []NeverUnderflows
<1>1. LInv => NeverUnderflows
  <2> SUFFICES ASSUME LInv PROVE NeverUnderflows
    OBVIOUS
  <2> DEFINE u == Promised(alloc)
             v == Stored(alloc)
  <2>1. \A t \in Token : u[t] \in Nat /\ v[t] \in Nat
    BY ChargesAddUp DEF Promised, Stored
  <2>2. \A t \in Token : /\ alloc[t].status = "reserved" => u[t] = alloc[t].bytes
                         /\ alloc[t].status \in {"active", "pending"} => v[t] = alloc[t].bytes
    BY DEF Promised, Stored
  <2>3. reserved_bytes = Total(u, Token) /\ storage_bytes = Total(v, Token)
    BY DEF LInv, Counted, CountedAs
  <2>4. IsFiniteSet(Token)
    BY PlanAssumption
  <2> HIDE DEF u, v
  <2>5. \A t \in Token : u[t] <= Total(u, Token) /\ v[t] <= Total(v, Token)
    BY <2>1, <2>4, TotalBounds
  <2> QED
    BY <2>2, <2>3, <2>5 DEF NeverUnderflows
<1> QED
  BY <1>1, LedgerInvariance, PTL

\* What the manifest demands of the buffers that exist together
\* (memory_manifest.cpp, memory_accounting.cpp:520-549).
ManifestKept ==
    /\ \A t \in Occupying : /\ alloc[t].inst \in LiveAt(plan.instances, epoch)
                            /\ alloc[t].bytes <= alloc[t].inst.upper
    /\ \A t, u \in Occupying : t # u =>
           /\ alloc[t].inst # alloc[u].inst
           /\ alloc[t].inst.alias # 0 => alloc[t].inst.alias # alloc[u].inst.alias

(* Buffers that are charged together stand for different instances that     *)
(* live at the current epoch, in different alias groups; an epoch is never  *)
(* entered before the buffers that end there are free.                      *)
THEOREM ManifestIsKept == Spec => []ManifestKept
<1>1. LInv => ManifestKept
  <2> SUFFICES ASSUME LInv PROVE ManifestKept
    OBVIOUS
  <2>1. PlacedIn(alloc, plan, epoch)
    BY DEF LInv, Placed
  <2>2. \A t \in Occupying : t \in Token /\ alloc[t].status # "free"
    BY DEF Occupying
  <2>3. ASSUME NEW t \in Occupying, NEW u \in Occupying, t # u
        PROVE  /\ alloc[t].inst # alloc[u].inst
               /\ alloc[t].inst.alias # 0 => alloc[t].inst.alias # alloc[u].inst.alias
    <3>1. AliasKey(alloc[t].inst) # AliasKey(alloc[u].inst)
      BY <2>1, <2>2, <2>3 DEF PlacedIn
    <3> QED
      BY <3>1, Zenon DEF AliasKey
  <2> QED
    BY <2>1, <2>2, <2>3 DEF ManifestKept, PlacedIn
<1> QED
  BY <1>1, LedgerInvariance, PTL
===============================================================================
