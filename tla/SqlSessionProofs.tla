-------------------------- MODULE SqlSessionProofs --------------------------
(***************************************************************************)
(* Theorems about SqlSession, for every set of threads, every backend,      *)
(* every list of operations and every number of messages and faults.        *)
(* First what holds of any program, then, of programs that let              *)
(* insert_message do the transactions, that insertion is atomic.            *)
(***************************************************************************)
EXTENDS SqlSession, TLAPS

----------------------------------------------------------------------------
(* What a statement does to the session. *)

\* Every outcome of a statement keeps the session well formed: a closed
\* session has no server end, and no transaction means no pending rows.
LEMMA QueryKeepsSession ==
    ASSUME SessionOK, NEW verb \in Verbs, NEW rows \in SUBSET Row,
           NEW ok \in BOOLEAN, Query(verb, rows, ok)
    PROVE  SessionOK'
<1> DEFINE s == Session
<1>1. /\ s \in Server
      /\ ~s.up => s.tx = "none"
      /\ s.tx = "none" => s.pending = {}
      BY DEF SessionOK, Session, Opened, RolledBack, Server
<1>2. CASE ConnectFails(ok)
  <2>1. faults' \in 0..MaxFaults
        BY <1>2, BoundsAssumption DEF ConnectFails, Fault, SessionOK
  <2> QED  BY <1>2, <2>1 DEF ConnectFails, SessionOK
<1>3. ASSUME s.up
      PROVE  LET e == Executed(s, verb, rows)
             IN  /\ e \in Server
                 /\ e.up
                 /\ e.tx = "none" => e.pending = {}
      BY <1>1, <1>3 DEF Executed, Begun, Committed, RolledBack, Inserted, Server, Verbs
<1>4. CASE Answered(verb, rows, ok)
  <2>1. /\ Refused(s, verb) \in Server
        /\ Refused(s, verb).up = s.up
        /\ Refused(s, verb).tx = "none" => Refused(s, verb).pending = {}
        BY <1>1 DEF Refused, RolledBack, Server
  <2>2. faults' \in 0..MaxFaults
        BY <1>4, BoundsAssumption DEF Answered, Fault, SessionOK
  <2> QED  BY <1>1, <1>3, <1>4, <2>1, <2>2 DEF Answered, SessionOK, TransactionBit
<1>5. CASE Broken(verb, rows, ok)
  <2>1. faults' \in 0..MaxFaults
        BY <1>5, BoundsAssumption DEF Broken, Fault, SessionOK
  <2>2. ASSUME s.up
        PROVE  LET d == Dropped(Executed(s, verb, rows))
               IN  d \in Server /\ ~d.up /\ d.tx = "none" /\ d.pending = {}
        BY <1>3, <2>2 DEF Dropped, RolledBack, Server
  <2> QED  BY <1>1, <1>5, <2>1, <2>2 DEF Broken, SessionOK, TransactionBit
<1> QED  BY <1>2, <1>4, <1>5 DEF Query

LEMMA EscapeKeepsSession ==
    ASSUME SessionOK, NEW ok \in BOOLEAN, Escape(ok)
    PROVE  SessionOK'
<1>1. CASE ConnectFails(ok)
  <2>1. faults' \in 0..MaxFaults
        BY <1>1, BoundsAssumption DEF ConnectFails, Fault, SessionOK
  <2> QED  BY <1>1, <2>1 DEF ConnectFails, SessionOK
<1>2. CASE ~ConnectFails(ok)
      BY <1>2 DEF SessionOK, Escape, Session, TransactionBit, Opened, RolledBack, Server
<1> QED  BY <1>1, <1>2

----------------------------------------------------------------------------
(***************************************************************************)
(* Type correctness.  It is not inductive alone: a thread between its lock  *)
(* and its BEGIN must own the mutex (or unlocking could take the depth      *)
(* below zero), and a thread inside insert_message must have a message.     *)
(***************************************************************************)

ThreadsTyped ==
    /\ pc \in [Threads -> Labels]
    /\ call \in [Threads -> {"insert", "start", "end", "abort"}]
    /\ msg \in [Threads -> 0..MaxMsgs] /\ op \in [Threads -> 1..(NumOps + 1)]
    /\ ret \in [Threads -> BOOLEAN]

RepliesTyped ==
    /\ inBatch \in [Threads -> BOOLEAN]
    /\ accepted \in [Threads -> SUBSET Messages]
    /\ mustAbort \in [Threads -> BOOLEAN]
    /\ acked \subseteq Messages /\ failed \subseteq Messages

CallsOK ==
    \A t \in Threads :
        /\ pc[t] \in {"start", "op", "abort"} => call[t] = "insert"
        /\ call[t] = "insert" /\ pc[t] # "idle" => msg[t] # 0

MutexOK ==
    /\ owner \in Writers \cup {NoThread} /\ depth \in Nat
    /\ (owner = NoThread) <=> (depth = 0)
    /\ aborted \in BOOLEAN

StarterOwns == \A t \in Threads : pc[t] \in {"begin", "mark"} => owner = t

TypeInv ==
    /\ MutexOK /\ StarterOwns /\ SessionOK
    /\ disabled \in BOOLEAN /\ backend \in Backends
    /\ ThreadsTyped /\ CallsOK /\ RepliesTyped

LEMMA WritersAreThreads == Writers \subseteq Threads /\ NoThread \notin Writers
BY ThreadsAssumption DEF Threads

\* Returning to the caller keeps every thread and every reply typed.
LEMMA ReturnKeeps ==
    ASSUME ThreadsTyped, CallsOK, RepliesTyped,
           NEW t \in Writers, NEW ok \in BOOLEAN, pc[t] # "idle", Return(t, ok)
    PROVE  /\ ThreadsTyped' /\ CallsOK' /\ RepliesTyped'
           /\ pc' = [pc EXCEPT ![t] = pc'[t]]
           /\ pc'[t] \in {"idle", "disable", "enable"}
           /\ UNCHANGED <<call, msg, op>>
<1>1. t \in Threads
      BY WritersAreThreads
<1>2. /\ ret' \in [Threads -> BOOLEAN]
      /\ UNCHANGED <<call, msg, op>>
      BY <1>1 DEF Return, ThreadsTyped
<1>3. CASE call[t] = "insert"
  <2>1. Current(t) \in Messages
    <3>1. msg[t] \in 1..MaxMsgs
          BY <1>1, <1>3, BoundsAssumption DEF ThreadsTyped, CallsOK
    <3> QED  BY <3>1 DEF Current, Messages
  <2>2. InsertReturns(t, ok)
        BY <1>3 DEF Return
  <2>3. RepliesTyped'
    <3>1. /\ acked' \subseteq Messages /\ failed' \subseteq Messages
          /\ accepted' \in [Threads -> SUBSET Messages]
          /\ inBatch' \in [Threads -> BOOLEAN]
          BY <1>1, <2>1, <2>2 DEF InsertReturns, RepliesTyped
    <3>2. mustAbort' \in [Threads -> BOOLEAN]
      <4>1. mustAbort' = mustAbort \/ mustAbort' = [mustAbort EXCEPT ![t] = ~ok]
            BY <2>2 DEF InsertReturns
      <4>2. (~ok) \in BOOLEAN
            OBVIOUS
      <4> QED  BY <1>1, <4>1, <4>2, Zenon DEF RepliesTyped
    <3> QED  BY <3>1, <3>2 DEF RepliesTyped
  <2>4. pc' = [pc EXCEPT ![t] = "idle"]
        BY <2>2 DEF InsertReturns, GoTo
  <2> QED  BY <1>1, <1>2, <2>3, <2>4 DEF ThreadsTyped, CallsOK, Labels
<1>4. CASE call[t] = "start"
  <2>1. /\ pc' = [pc EXCEPT ![t] = IF ok THEN "disable" ELSE "idle"]
        /\ UNCHANGED replyVars
        BY <1>4 DEF Return, GoTo
  <2> QED  BY <1>1, <1>2, <1>4, <2>1 DEF ThreadsTyped, CallsOK, RepliesTyped, Labels, replyVars
<1>5. CASE call[t] \in {"end", "abort"}
  <2>1. /\ pc' = [pc EXCEPT ![t] = "enable"]
        /\ UNCHANGED replyVars
        BY <1>5 DEF Return, GoTo
  <2> QED  BY <1>1, <1>2, <1>5, <2>1 DEF ThreadsTyped, CallsOK, RepliesTyped, Labels, replyVars
<1> QED  BY <1>1, <1>3, <1>4, <1>5 DEF ThreadsTyped

\* A step to another label of the same call, everything else of the threads
\* being left alone.
LEMMA GoToKeeps ==
    ASSUME ThreadsTyped, CallsOK, NEW t \in Writers, NEW label \in Labels,
           pc[t] # "idle", GoTo(t, label), UNCHANGED <<call, msg, op>>,
           label \in {"start", "op", "abort"} => call[t] = "insert",
           ret' \in [Threads -> BOOLEAN]
    PROVE  ThreadsTyped' /\ CallsOK'
<1>1. t \in Threads /\ pc' = [pc EXCEPT ![t] = label]
      BY WritersAreThreads DEF GoTo
<1> QED  BY <1>1 DEF ThreadsTyped, CallsOK

\* The mutex steps: a lock and an unlock by its owner.
LEMMA LockKeeps ==
    ASSUME MutexOK, NEW t \in Writers, Lock(t)
    PROVE  MutexOK' /\ owner' = t
BY WritersAreThreads DEF MutexOK, Lock, Free

LEMMA UnlockKeeps ==
    ASSUME MutexOK, NEW t \in Writers, owner = t, Unlock(t)
    PROVE  MutexOK' /\ owner' \in {t, NoThread}
BY WritersAreThreads DEF MutexOK, Unlock

\* A thread moves to another label: BEGIN is only reached by the owner.
LEMMA StarterKeeps ==
    ASSUME ThreadsTyped, StarterOwns, MutexOK, NEW t \in Writers, NEW label,
           pc' = [pc EXCEPT ![t] = label],
           label \in {"begin", "mark"} => owner' = t,
           owner' = owner \/ owner \in {NoThread, t}
    PROVE  StarterOwns'
<1>1. SUFFICES ASSUME NEW u \in Threads, pc'[u] \in {"begin", "mark"}
               PROVE  owner' = u
      BY DEF StarterOwns
<1>2. CASE u = t
      BY <1>1, <1>2, WritersAreThreads DEF ThreadsTyped
<1>3. CASE u # t
  <2>1. owner = u /\ u # NoThread
        BY <1>1, <1>3, ThreadsAssumption DEF ThreadsTyped, StarterOwns
  <2> QED  BY <1>3, <2>1
<1> QED  BY <1>2, <1>3

\* A step that moves thread t inside its call without touching the mutex, the
\* replies or the thread's message.
LEMMA MoveKeeps ==
    ASSUME TypeInv, NEW t \in Writers, NEW label \in Labels \ {"begin"},
           pc[t] # "idle", GoTo(t, label), UNCHANGED <<call, msg, op>>,
           label \in {"start", "op", "abort"} => call[t] = "insert",
           label = "mark" => pc[t] = "begin",
           ret' \in [Threads -> BOOLEAN],
           UNCHANGED <<mutexVars, disabled, backend, replyVars>>, SessionOK'
    PROVE  TypeInv'
<1>1. ThreadsTyped' /\ CallsOK'
      BY GoToKeeps DEF TypeInv
<1>2. MutexOK' /\ RepliesTyped' /\ disabled' \in BOOLEAN /\ backend' \in Backends
      BY DEF TypeInv, MutexOK, RepliesTyped, mutexVars, replyVars
<1>3. label = "mark" => owner' = t
      BY WritersAreThreads DEF TypeInv, StarterOwns, mutexVars
<1>4. StarterOwns'
      BY <1>3, StarterKeeps DEF TypeInv, GoTo, mutexVars
<1> QED  BY <1>1, <1>2, <1>4 DEF TypeInv

\* A step in which thread t returns from its call, with or without unlocking.
LEMMA ReturnStep ==
    ASSUME TypeInv, NEW t \in Writers, NEW ok \in BOOLEAN, pc[t] # "idle",
           Return(t, ok), UNCHANGED mutexVars \/ (owner = t /\ Unlock(t)),
           UNCHANGED <<disabled, backend>>, SessionOK'
    PROVE  TypeInv'
<1>1. /\ ThreadsTyped' /\ CallsOK' /\ RepliesTyped'
      /\ pc' = [pc EXCEPT ![t] = pc'[t]]
      /\ pc'[t] \notin {"begin", "mark"}
      BY ReturnKeeps DEF TypeInv
<1>2. MutexOK' /\ (owner' = owner \/ owner = t)
      BY UnlockKeeps DEF TypeInv, MutexOK, mutexVars
<1>3. StarterOwns'
      BY <1>1, <1>2, StarterKeeps DEF TypeInv
<1> QED  BY <1>1, <1>2, <1>3 DEF TypeInv

LEMMA SameSession ==
    ASSUME SessionOK, NEW b \in BOOLEAN, inTx' = b,
           UNCHANGED <<connected, srv, faults>>
    PROVE  SessionOK'
BY DEF SessionOK

\* The steps of _preludedb_sql_transaction_start.
LEMMA StartKeeps ==
    ASSUME TypeInv, NEW t \in Writers, UNCHANGED backend,
           StartLock(t) \/ StartRefused(t) \/ StartBegin(t) \/ StartMark(t)
    PROVE  TypeInv'
<1>1. CASE StartLock(t)
  <2>1. MutexOK' /\ owner' = t /\ owner \in {NoThread, t}
        BY <1>1, LockKeeps DEF TypeInv, StartLock, Lock, Free
  <2>2. ThreadsTyped' /\ CallsOK' /\ pc' = [pc EXCEPT ![t] = "begin"]
        BY <1>1, GoToKeeps DEF TypeInv, ThreadsTyped, StartLock, At, GoTo, Labels
  <2>3. StarterOwns'
        BY <2>1, <2>2, StarterKeeps DEF TypeInv
  <2>4. /\ SessionOK' /\ RepliesTyped'
        /\ disabled' \in BOOLEAN /\ backend' \in Backends
        BY <1>1 DEF TypeInv, StartLock, SessionOK, RepliesTyped, sessionVars, replyVars
  <2> QED  BY <2>1, <2>2, <2>3, <2>4 DEF TypeInv
<1>2. CASE StartRefused(t)
  <2>1. owner = t
        BY <1>2, WritersAreThreads DEF TypeInv, StarterOwns, StartRefused, At
  <2>2. SessionOK'
        BY <1>2 DEF TypeInv, SessionOK, StartRefused, sessionVars
  <2> QED  BY <1>2, <2>1, <2>2, ReturnStep DEF StartRefused, At
<1>3. CASE StartBegin(t)
  <2>1. owner = t
        BY <1>3, WritersAreThreads DEF TypeInv, StarterOwns, StartBegin, At
  <2>2. PICK ok \in BOOLEAN :
              /\ Query("BEGIN", {}, ok)
              /\ IF ok THEN /\ GoTo(t, "mark")
                            /\ UNCHANGED <<mutexVars, call, msg, op, ret, replyVars>>
                       ELSE Unlock(t) /\ Return(t, FALSE)
        BY <1>3 DEF StartBegin
  <2>3. SessionOK'
        BY <2>2, QueryKeepsSession DEF TypeInv, Verbs
  <2>4. CASE ok
        BY <1>3, <2>2, <2>3, <2>4, MoveKeeps
        DEF TypeInv, ThreadsTyped, StartBegin, At, Labels
  <2>5. CASE ~ok
        BY <1>3, <2>1, <2>2, <2>3, <2>5, ReturnStep DEF StartBegin, At
  <2> QED  BY <2>4, <2>5
<1>4. CASE StartMark(t)
  <2>1. SessionOK'
        BY <1>4, SameSession DEF TypeInv, StartMark
  <2>2. CASE call[t] = "insert"
        BY <1>4, <2>1, <2>2, MoveKeeps DEF TypeInv, ThreadsTyped, StartMark, At, Labels
  <2>3. CASE call[t] # "insert"
        BY <1>4, <2>1, <2>3, ReturnStep DEF StartMark, At
  <2> QED  BY <2>2, <2>3
<1> QED  BY <1>1, <1>2, <1>3, <1>4

\* The steps of _preludedb_sql_transaction_end and _abort.
LEMMA EndKeeps ==
    ASSUME TypeInv, NEW t \in Writers, UNCHANGED backend,
           \/ EndCheck(t) \/ EndCommit(t) \/ EndClear(t)
           \/ FinalUnlock(t) \/ UnlockAborts(t)
           \/ AbortCheck(t) \/ AbortClear(t) \/ AbortRollback(t)
    PROVE  TypeInv'
<1>1. CASE EndCheck(t)
  <2>1. SessionOK'
        BY <1>1 DEF TypeInv, SessionOK, EndCheck, sessionVars
  <2>2. CASE inTx
        BY <1>1, <2>1, <2>2, MoveKeeps DEF TypeInv, ThreadsTyped, EndCheck, At, Labels
  <2>3. CASE ~inTx
        BY <1>1, <2>1, <2>3, ReturnStep DEF EndCheck, At
  <2> QED  BY <2>2, <2>3
<1>2. CASE EndCommit(t)
  <2>1. SessionOK' /\ ret' \in [Threads -> BOOLEAN]
        BY <1>2, QueryKeepsSession DEF TypeInv, ThreadsTyped, EndCommit, Verbs
  <2> QED  BY <1>2, <2>1, MoveKeeps DEF EndCommit, At, Labels
<1>3. CASE EndClear(t)
  <2>1. SessionOK'
        BY <1>3, SameSession DEF TypeInv, EndClear
  <2> QED  BY <1>3, <2>1, MoveKeeps DEF TypeInv, ThreadsTyped, EndClear, At, Labels
<1>4. CASE FinalUnlock(t)
  <2>1. SessionOK' /\ ret[t] \in BOOLEAN
        BY <1>4, WritersAreThreads
        DEF TypeInv, ThreadsTyped, SessionOK, FinalUnlock, sessionVars
  <2> QED  BY <1>4, <2>1, ReturnStep DEF FinalUnlock, At
<1>5. CASE UnlockAborts(t)
      BY <1>5
      DEF TypeInv, MutexOK, StarterOwns, SessionOK, ThreadsTyped, CallsOK, RepliesTyped,
          UnlockAborts, sessionVars, threadVars, replyVars
<1>6. CASE AbortCheck(t)
  <2>1. SessionOK'
        BY <1>6 DEF TypeInv, SessionOK, AbortCheck, sessionVars
  <2>2. CASE inTx
        BY <1>6, <2>1, <2>2, MoveKeeps DEF TypeInv, ThreadsTyped, AbortCheck, At, Labels
  <2>3. CASE ~inTx
        BY <1>6, <2>1, <2>3, ReturnStep DEF AbortCheck, At
  <2> QED  BY <2>2, <2>3
<1>7. CASE AbortClear(t)
  <2>1. SessionOK'
        BY <1>7, SameSession DEF TypeInv, AbortClear
  <2> QED  BY <1>7, <2>1, MoveKeeps DEF TypeInv, ThreadsTyped, AbortClear, At, Labels
<1>8. CASE AbortRollback(t)
  <2>1. SessionOK'
    <3>1. CASE UNCHANGED sessionVars
          BY <1>8, <3>1 DEF TypeInv, SessionOK, sessionVars
    <3>2. CASE ~UNCHANGED sessionVars
          BY <1>8, <3>2, QueryKeepsSession DEF TypeInv, AbortRollback, Verbs
    <3> QED  BY <3>1, <3>2
  <2>2. ret' \in [Threads -> BOOLEAN]
    <3>1. \E b \in BOOLEAN : ret' = [ret EXCEPT ![t] = b]
          BY <1>8 DEF AbortRollback
    <3> QED  BY <3>1, WritersAreThreads DEF TypeInv, ThreadsTyped
  <2> QED  BY <1>8, <2>1, <2>2, MoveKeeps DEF AbortRollback, At, Labels
<1> QED  BY <1>1, <1>2, <1>3, <1>4, <1>5, <1>6, <1>7, <1>8

\* The steps of classic_insert.
LEMMA InsertKeeps ==
    ASSUME TypeInv, NEW t \in Writers, UNCHANGED backend,
           \/ CallInsert(t) \/ InsertStart(t) \/ InsertOp(t)
           \/ InsertEnd(t) \/ InsertAbort(t)
    PROVE  TypeInv'
<1>1. CASE CallInsert(t)
  <2>1. ThreadsTyped'
    <3>1. msg' \in [Threads -> 0..MaxMsgs] /\ op' \in [Threads -> 1..(NumOps + 1)]
          BY <1>1, WritersAreThreads, BoundsAssumption, ProgramAssumption
          DEF TypeInv, ThreadsTyped, CallInsert
    <3> QED  BY <1>1, <3>1, WritersAreThreads
             DEF TypeInv, ThreadsTyped, CallInsert, GoTo, Labels
  <2>2. CallsOK'
        BY <1>1, WritersAreThreads, BoundsAssumption
        DEF TypeInv, ThreadsTyped, CallsOK, CallInsert, GoTo
  <2>3. StarterOwns'
        BY <1>1, StarterKeeps DEF TypeInv, CallInsert, GoTo, mutexVars
  <2>4. /\ MutexOK' /\ SessionOK' /\ RepliesTyped'
        /\ disabled' \in BOOLEAN /\ backend' \in Backends
        BY <1>1 DEF TypeInv, MutexOK, SessionOK, RepliesTyped, CallInsert,
                    mutexVars, sessionVars, replyVars
  <2> QED  BY <2>1, <2>2, <2>3, <2>4 DEF TypeInv
<1>2. CASE InsertStart(t)
  <2>1. SessionOK' /\ call[t] = "insert"
        BY <1>2, WritersAreThreads
        DEF TypeInv, SessionOK, CallsOK, InsertStart, At, sessionVars
  <2>2. CASE disabled
        BY <1>2, <2>1, <2>2, MoveKeeps DEF TypeInv, ThreadsTyped, InsertStart, At, Labels
  <2>3. CASE ~disabled
        BY <1>2, <2>1, <2>3, MoveKeeps DEF TypeInv, ThreadsTyped, InsertStart, At, Labels
  <2> QED  BY <2>2, <2>3
<1>3. CASE InsertOp(t)
  <2>1. call[t] = "insert" /\ Current(t) \in Messages
        BY <1>3, WritersAreThreads, BoundsAssumption
        DEF TypeInv, ThreadsTyped, CallsOK, InsertOp, At, Current, Messages
  <2>2. PICK ok \in BOOLEAN :
          /\ CASE Program[op[t]].kind = "escape" -> Escape(ok)
               [] Program[op[t]].kind = "insert" ->
                      Query("INSERT", {<<Current(t), op[t]>>}, ok)
               [] OTHER -> Query("SELECT", {}, ok)
          /\ IF ok \/ ~Program[op[t]].checked
             THEN op' = [op EXCEPT ![t] = @ + 1] /\ UNCHANGED pc
             ELSE GoTo(t, "abort") /\ UNCHANGED op
        BY <1>3 DEF InsertOp
  <2>3. SessionOK'
    <3>1. {<<Current(t), op[t]>>} \in SUBSET Row
          BY <1>3, <2>1 DEF InsertOp, Row
    <3>2. CASE Escape(ok)
          BY <3>2, EscapeKeepsSession DEF TypeInv
    <3>3. CASE Query("INSERT", {<<Current(t), op[t]>>}, ok)
          BY <3>1, <3>3, QueryKeepsSession DEF TypeInv, Verbs
    <3>4. CASE Query("SELECT", {}, ok)
          BY <3>4, QueryKeepsSession DEF TypeInv, Verbs
    <3> QED  BY <2>2, <3>2, <3>3, <3>4
  <2>4. CASE ok \/ ~Program[op[t]].checked
    <3>1. op' = [op EXCEPT ![t] = @ + 1] /\ UNCHANGED pc
          BY <2>2, <2>4
    <3>2. ThreadsTyped' /\ CallsOK'
          BY <1>3, <3>1, WritersAreThreads, ProgramAssumption
          DEF TypeInv, ThreadsTyped, CallsOK, InsertOp, Ops
    <3> QED  BY <1>3, <2>3, <3>1, <3>2
             DEF TypeInv, MutexOK, StarterOwns, RepliesTyped, InsertOp, mutexVars, replyVars
  <2>5. CASE ~(ok \/ ~Program[op[t]].checked)
        BY <1>3, <2>1, <2>2, <2>3, <2>5, MoveKeeps
        DEF TypeInv, ThreadsTyped, InsertOp, At, Labels
  <2> QED  BY <2>4, <2>5
<1>4. CASE InsertEnd(t)
  <2>1. SessionOK'
        BY <1>4 DEF TypeInv, SessionOK, InsertEnd, sessionVars
  <2>2. CASE disabled
        BY <1>4, <2>1, <2>2, ReturnStep DEF InsertEnd, At
  <2>3. CASE ~disabled
        BY <1>4, <2>1, <2>3, MoveKeeps DEF TypeInv, ThreadsTyped, InsertEnd, At, Labels
  <2> QED  BY <2>2, <2>3
<1>5. CASE InsertAbort(t)
  <2>1. SessionOK'
        BY <1>5 DEF TypeInv, SessionOK, InsertAbort, sessionVars
  <2>2. CASE disabled
        BY <1>5, <2>1, <2>2, ReturnStep DEF InsertAbort, At
  <2>3. CASE ~disabled
        BY <1>5, <2>1, <2>3, MoveKeeps DEF TypeInv, ThreadsTyped, InsertAbort, At, Labels
  <2> QED  BY <2>2, <2>3
<1> QED  BY <1>1, <1>2, <1>3, <1>4, <1>5

\* The public transaction calls around _preludedb_sql_transaction_*.
LEMMA BatchKeeps ==
    ASSUME TypeInv, NEW t \in Writers, UNCHANGED backend,
           CallTransaction(t) \/ DisableInternal(t) \/ EnableInternal(t)
    PROVE  TypeInv'
<1>1. CASE CallTransaction(t)
  <2>1. PICK f \in {"start", "end", "abort"} :
              call' = [call EXCEPT ![t] = f] /\ GoTo(t, EntryOf[f])
        BY <1>1 DEF CallTransaction, EntryOf
  <2>2. EntryOf[f] \in {"lock", "end_check", "abort_check"}
        BY DEF EntryOf
  <2>3. ThreadsTyped' /\ CallsOK'
        BY <1>1, <2>1, <2>2, WritersAreThreads
        DEF TypeInv, ThreadsTyped, CallsOK, CallTransaction, GoTo, Labels
  <2>4. StarterOwns'
        BY <1>1, <2>1, <2>2, StarterKeeps DEF TypeInv, CallTransaction, GoTo, mutexVars
  <2> QED  BY <1>1, <2>3, <2>4
           DEF TypeInv, MutexOK, SessionOK, RepliesTyped, CallTransaction,
               mutexVars, sessionVars, replyVars
<1>2. CASE DisableInternal(t) \/ EnableInternal(t)
  <2>1. /\ pc[t] # "idle" /\ pc' = [pc EXCEPT ![t] = "idle"]
        /\ UNCHANGED <<mutexVars, sessionVars, call, msg, op, ret>>
        /\ disabled' \in BOOLEAN
        BY <1>2 DEF DisableInternal, EnableInternal, At, GoTo
  <2>2. ThreadsTyped' /\ CallsOK' /\ StarterOwns' /\ MutexOK' /\ SessionOK'
        BY <2>1, WritersAreThreads, StarterKeeps
        DEF TypeInv, ThreadsTyped, CallsOK, MutexOK, SessionOK, StarterOwns,
            Labels, mutexVars, sessionVars
  <2>3. RepliesTyped'
    <3>1. /\ inBatch' \in [Threads -> BOOLEAN]
          /\ mustAbort' \in [Threads -> BOOLEAN]
          /\ accepted' \in [Threads -> SUBSET Messages]
          BY <1>2 DEF TypeInv, RepliesTyped, DisableInternal, EnableInternal
    <3>2. acked' \subseteq Messages /\ failed' \subseteq Messages
          BY <1>2, WritersAreThreads
          DEF TypeInv, RepliesTyped, DisableInternal, EnableInternal
    <3> QED  BY <3>1, <3>2 DEF RepliesTyped
  <2> QED  BY <2>1, <2>2, <2>3 DEF TypeInv
<1> QED  BY <1>1, <1>2

\* The steps of the readers and of the environment.
LEMMA OutsideKeeps ==
    ASSUME TypeInv, UNCHANGED backend,
           (\E t \in Readers : ReadQuery(t)) \/ ConnectionLost
    PROVE  TypeInv'
<1>1. SessionOK'
  <2>1. CASE \E t \in Readers : ReadQuery(t)
        BY <2>1, QueryKeepsSession DEF TypeInv, ReadQuery, Verbs
  <2>2. CASE ConnectionLost
    <3>1. faults' \in 0..MaxFaults
          BY <2>2, BoundsAssumption DEF TypeInv, SessionOK, ConnectionLost, Fault
    <3> QED  BY <2>2, <3>1
             DEF TypeInv, SessionOK, ConnectionLost, Dropped, RolledBack, Server
  <2> QED  BY <2>1, <2>2
<1>2. UNCHANGED <<mutexVars, disabled, threadVars, replyVars>>
      BY DEF ReadQuery, ConnectionLost
<1> QED  BY <1>1, <1>2
         DEF TypeInv, MutexOK, StarterOwns, ThreadsTyped, CallsOK, RepliesTyped,
             mutexVars, threadVars, replyVars

LEMMA StutterKeeps == TypeInv /\ UNCHANGED vars => TypeInv'
BY DEF TypeInv, MutexOK, StarterOwns, SessionOK, ThreadsTyped, CallsOK, RepliesTyped,
       vars, mutexVars, sessionVars, threadVars, replyVars

LEMMA InitTyped == Init => TypeInv
<1> SUFFICES ASSUME Init PROVE TypeInv
    OBVIOUS
<1>1. MutexOK /\ StarterOwns /\ CallsOK
      BY DEF Init, MutexOK, StarterOwns, CallsOK
<1>2. SessionOK
  <2>1. /\ connected = FALSE /\ inTx = FALSE /\ faults = 0
        /\ srv = [up |-> FALSE, tx |-> "none", pending |-> {}, durable |-> {}]
        BY DEF Init
  <2>2. srv \in Server
        BY <2>1 DEF Server
  <2>3. ~srv.up /\ srv.tx = "none" /\ srv.pending = {}
        BY <2>1
  <2>4. faults \in 0..MaxFaults
        BY <2>1, BoundsAssumption
  <2> QED  BY <2>1, <2>2, <2>3, <2>4, Zenon DEF SessionOK
<1>3. ThreadsTyped
      BY BoundsAssumption, ProgramAssumption DEF Init, ThreadsTyped, Labels
<1>4. RepliesTyped
      BY DEF Init, RepliesTyped
<1> QED  BY <1>1, <1>2, <1>3, <1>4 DEF Init, TypeInv

LEMMA NextTyped == TypeInv /\ [Next]_vars => TypeInv'
<1> SUFFICES ASSUME TypeInv, Next PROVE TypeInv'
    BY StutterKeeps
<1>1. ASSUME NEW t \in Writers, CallInsert(t) \/ Proceed(t), UNCHANGED backend
      PROVE  TypeInv'
      BY <1>1, InsertKeeps, StartKeeps, EndKeeps, BatchKeeps DEF Proceed
<1>2. ASSUME NEW t \in Batchers, CallTransaction(t), UNCHANGED backend
      PROVE  TypeInv'
      BY <1>2, BatchKeeps DEF Writers
<1>3. CASE ((\E t \in Readers : ReadQuery(t)) \/ ConnectionLost) /\ UNCHANGED backend
      BY <1>3, OutsideKeeps
<1>4. CASE Terminated
      BY <1>4, StutterKeeps DEF Terminated
<1> QED  BY <1>1, <1>2, <1>3, <1>4 DEF Next

\* Every variable keeps its type whatever the threads, the backend, the list
\* of operations and the faults; the mutex depth never goes below zero.
THEOREM TypeCorrect == Spec => []TypeOK
<1>1. TypeInv => TypeOK
      BY DEF TypeInv, TypeOK, MutexOK, ThreadsTyped, RepliesTyped
<1> QED  BY InitTyped, NextTyped, <1>1, PTL DEF Spec

----------------------------------------------------------------------------
(***************************************************************************)
(* A transaction lives under the mutex.  The inductive invariant says what  *)
(* the owner may rely on at the labels where it is about to unlock: no      *)
(* transaction is left, neither in the status bits nor on the server.       *)
(***************************************************************************)

NoTransactionLeft ==
    \A t \in Threads : owner = t =>
        /\ pc[t] = "begin" /\ depth = 1 => ~inTx /\ srv.tx = "none"
        /\ pc[t] \in {"end_clear", "unlock"} => srv.tx = "none"
        /\ pc[t] \in {"rollback", "unlock"} => ~inTx

MutexInv == TypeInv /\ TransactionUnderMutex /\ NoTransactionLeft

\* What a statement can do to the transaction: COMMIT and ROLLBACK always end
\* it, whatever the server answers; only BEGIN opens one, only INSERT in an
\* open transaction adds pending rows, and no statement sets TRANSACTION.
LEMMA QueryOnTransaction ==
    ASSUME SessionOK, NEW verb \in Verbs, NEW rows \in SUBSET Row,
           NEW ok \in BOOLEAN, Query(verb, rows, ok)
    PROVE  /\ inTx' => inTx
           /\ verb \in {"COMMIT", "ROLLBACK"} => srv'.tx = "none"
           /\ verb # "BEGIN" \/ ~ok => (srv'.tx # "none" => srv.tx # "none")
           /\ srv'.pending \subseteq srv.pending \cup rows
           /\ verb # "INSERT" \/ srv.tx # "open" => srv'.pending \subseteq srv.pending
<1> DEFINE s == Session
<1>1. /\ s \in Server /\ s.tx = srv.tx /\ s.pending = srv.pending
      /\ ~s.up => s.tx = "none"
      /\ TransactionBit => inTx
      BY DEF SessionOK, Session, TransactionBit, Opened, RolledBack, Server
<1>2. CASE ConnectFails(ok)
      BY <1>2 DEF ConnectFails, SessionOK
<1>3. LET e == Executed(s, verb, rows)
      IN  /\ e \in Server
          /\ verb \in {"COMMIT", "ROLLBACK"} => e.tx = "none"
          /\ verb # "BEGIN" => (e.tx # "none" => s.tx # "none")
          /\ e.pending \subseteq s.pending \cup rows
          /\ verb # "INSERT" \/ s.tx # "open" => e.pending \subseteq s.pending
      BY <1>1 DEF Executed, Begun, Committed, RolledBack, Inserted, Server, Verbs
<1>4. LET r == Refused(s, verb)
      IN  /\ r \in Server
          /\ verb = "COMMIT" => r.tx = "none"
          /\ r.tx # "none" => s.tx # "none"
          /\ r.pending \subseteq s.pending
      BY <1>1 DEF Refused, RolledBack, Server
<1>5. CASE Answered(verb, rows, ok)
  <2>1. CASE srv' = Executed(s, verb, rows) /\ ok
        BY <1>1, <1>3, <1>5, <2>1 DEF Answered
  <2>2. CASE srv' = Refused(s, verb) /\ ~ok /\ (MustRefuse(s, verb) \/ MayRefuse(verb))
    <3>1. verb = "ROLLBACK" => srv'.tx = "none"
          BY <1>1, <2>2, BackendAssumption
          DEF MustRefuse, MayRefuse, Refused, RolledBack, Server
    <3> QED  BY <1>1, <1>4, <1>5, <2>2, <3>1 DEF Answered
  <2> QED  BY <1>5, <2>1, <2>2 DEF Answered
<1>6. CASE Broken(verb, rows, ok)
  <2>1. ASSUME NEW e \in Server
        PROVE  Dropped(e).tx = "none" /\ Dropped(e).pending = {}
        BY DEF Dropped, RolledBack, Server
  <2> QED  BY <1>1, <1>3, <1>6, <2>1 DEF Broken
<1> QED  BY <1>2, <1>5, <1>6 DEF Query

LEMMA EscapeOnTransaction ==
    ASSUME SessionOK, NEW ok \in BOOLEAN, Escape(ok)
    PROVE  /\ inTx' => inTx
           /\ srv'.tx # "none" => srv.tx # "none"
           /\ srv'.pending \subseteq srv.pending
<1>1. CASE ConnectFails(ok)
      BY <1>1 DEF ConnectFails
<1>2. CASE ~ConnectFails(ok)
      BY <1>2 DEF SessionOK, Escape, Session, TransactionBit, Opened, RolledBack, Server
<1> QED  BY <1>1, <1>2

\* A step that opens no transaction and leaves the mutex alone.
LEMMA CalmStep ==
    ASSUME MutexInv, TypeInv', NEW t \in Writers,
           \A u \in Threads : u # t => pc'[u] = pc[u],
           UNCHANGED <<owner, depth>>,
           inTx' => inTx, srv'.tx # "none" => srv.tx # "none",
           srv'.pending \subseteq srv.pending,
           pc'[t] = "begin" => pc[t] = "begin",
           owner = t /\ pc'[t] \in {"end_clear", "unlock"} =>
               srv'.tx = "none" \/ pc[t] \in {"end_clear", "unlock"},
           owner = t /\ pc'[t] \in {"rollback", "unlock"} =>
               ~inTx' \/ pc[t] \in {"rollback", "unlock"}
    PROVE  MutexInv'
<1>1. TransactionUnderMutex'
      BY DEF MutexInv, TransactionUnderMutex
<1>2. NoTransactionLeft'
      BY DEF MutexInv, NoTransactionLeft
<1> QED  BY <1>1, <1>2 DEF MutexInv

\* Taking the mutex: the taker finds no transaction, unless it had it already.
LEMMA LockUnderMutex ==
    ASSUME MutexInv, TypeInv', NEW t \in Writers, StartLock(t)
    PROVE  MutexInv'
<1>1. /\ t \in Threads /\ t # NoThread
      /\ owner \in {NoThread, t} /\ owner' = t /\ depth' = depth + 1
      /\ UNCHANGED <<inTx, srv>> /\ pc' = [pc EXCEPT ![t] = "begin"]
      BY WritersAreThreads DEF StartLock, Lock, Free, GoTo, sessionVars
<1>2. owner = NoThread => ~inTx /\ srv.tx = "none" /\ srv.pending = {}
      BY DEF MutexInv, TypeInv, SessionOK, TransactionUnderMutex
<1>3. TransactionUnderMutex'
      BY <1>1, <1>2 DEF MutexInv, TransactionUnderMutex
<1>4. owner = t => depth' # 1
      BY <1>1 DEF MutexInv, TypeInv, MutexOK
<1>5. NoTransactionLeft'
  <2>1. pc'[t] = "begin"
        BY <1>1 DEF MutexInv, TypeInv, ThreadsTyped
  <2> QED  BY <1>1, <1>2, <1>4, <2>1 DEF NoTransactionLeft
<1> QED  BY <1>3, <1>5 DEF MutexInv

\* Giving one level back: when it is the last one, no transaction is left.
LEMMA UnlockUnderMutex ==
    ASSUME MutexInv, TypeInv', NEW t \in Writers, owner = t, Unlock(t),
           \A u \in Threads : u # t => pc'[u] = pc[u],
           pc'[t] \in {"idle", "disable", "enable"},
           inTx' => inTx, srv'.tx # "none" => srv.tx # "none",
           srv'.pending \subseteq srv.pending,
           depth = 1 => ~inTx' /\ srv'.tx = "none"
    PROVE  MutexInv'
<1>1. t \in Threads /\ t # NoThread
      BY WritersAreThreads
<1>2. CASE depth = 1
  <2>1. owner' = NoThread /\ srv'.pending = {}
        BY <1>2 DEF Unlock, TypeInv, SessionOK
  <2> QED  BY <1>2, <2>1, ThreadsAssumption
           DEF MutexInv, TransactionUnderMutex, NoTransactionLeft
<1>3. CASE depth # 1
  <2>1. owner' = t
        BY <1>3 DEF Unlock
  <2> QED  BY <1>1, <2>1 DEF MutexInv, TransactionUnderMutex, NoTransactionLeft
<1> QED  BY <1>2, <1>3

\* A call that returns leaves its thread at one of three labels.
LEMMA ReturnLabels ==
    ASSUME TypeInv, NEW t \in Writers, NEW ok \in BOOLEAN, pc[t] # "idle", Return(t, ok)
    PROVE  /\ \A u \in Threads : u # t => pc'[u] = pc[u]
           /\ pc'[t] \in {"idle", "disable", "enable"}
<1>1. /\ pc' = [pc EXCEPT ![t] = pc'[t]]
      /\ pc'[t] \in {"idle", "disable", "enable"}
      BY ReturnKeeps DEF TypeInv
<1> QED  BY <1>1 DEF TypeInv, ThreadsTyped

LEMMA GoToLabels ==
    ASSUME TypeInv, NEW t \in Writers, NEW label, GoTo(t, label)
    PROVE  /\ \A u \in Threads : u # t => pc'[u] = pc[u]
           /\ pc'[t] = label
BY WritersAreThreads DEF TypeInv, ThreadsTyped, GoTo

\* BEGIN and the TRANSACTION bit: both only ever under the caller's lock.
LEMMA StartUnderMutex ==
    ASSUME MutexInv, TypeInv', NEW t \in Writers,
           StartRefused(t) \/ StartBegin(t) \/ StartMark(t)
    PROVE  MutexInv'
<1>1. owner = t /\ t \in Threads /\ t # NoThread
      BY WritersAreThreads
      DEF MutexInv, TypeInv, StarterOwns, StartRefused, StartBegin, StartMark, At
<1>2. CASE StartRefused(t)
  <2>1. depth # 1
        BY <1>1, <1>2 DEF MutexInv, NoTransactionLeft, StartRefused, At
  <2> QED  BY <1>1, <1>2, <2>1, ReturnLabels, UnlockUnderMutex
           DEF MutexInv, StartRefused, At, sessionVars
<1>3. CASE StartBegin(t)
  <2>1. PICK ok \in BOOLEAN :
              /\ Query("BEGIN", {}, ok)
              /\ IF ok THEN GoTo(t, "mark") /\ UNCHANGED mutexVars
                       ELSE Unlock(t) /\ Return(t, FALSE)
        BY <1>3 DEF StartBegin
  <2>2. /\ ~inTx' /\ srv'.pending \subseteq srv.pending
        /\ ~ok => (srv'.tx # "none" => srv.tx # "none")
        BY <1>3, <2>1, QueryOnTransaction DEF MutexInv, TypeInv, StartBegin, Verbs
  <2>3. CASE ok
    <3>1. UNCHANGED <<owner, depth>> /\ pc'[t] = "mark"
          BY <2>1, <2>3, GoToLabels DEF MutexInv, mutexVars
    <3> QED  BY <1>1, <2>2, <3>1 DEF MutexInv, TransactionUnderMutex, NoTransactionLeft
  <2>4. CASE ~ok
    <3>1. depth = 1 => srv'.tx = "none"
          BY <1>1, <1>3, <2>2, <2>4 DEF MutexInv, NoTransactionLeft, StartBegin, At
    <3> QED  BY <1>1, <1>3, <2>1, <2>2, <2>4, <3>1, ReturnLabels, UnlockUnderMutex
             DEF MutexInv, StartBegin, At
  <2> QED  BY <2>3, <2>4
<1>4. CASE StartMark(t)
  <2>1. pc'[t] \in {"op", "idle", "disable", "enable"}
        BY <1>4, GoToLabels, ReturnLabels DEF MutexInv, StartMark, At
  <2> QED  BY <1>1, <1>4, <2>1
           DEF MutexInv, TransactionUnderMutex, NoTransactionLeft, StartMark, mutexVars
<1> QED  BY <1>2, <1>3, <1>4

\* Ending or aborting a transaction: COMMIT and ROLLBACK leave none.
LEMMA EndUnderMutex ==
    ASSUME MutexInv, TypeInv', NEW t \in Writers,
           \/ EndCheck(t) \/ EndCommit(t) \/ EndClear(t)
           \/ FinalUnlock(t) \/ UnlockAborts(t)
           \/ AbortCheck(t) \/ AbortClear(t) \/ AbortRollback(t)
    PROVE  MutexInv'
<1> USE DEF MutexInv
<1>1. t \in Threads
      BY WritersAreThreads
<1>2. CASE EndCheck(t) \/ AbortCheck(t)
  <2>1. /\ \A u \in Threads : u # t => pc'[u] = pc[u]
        /\ pc'[t] \in {"commit", "abort_clear", "idle", "disable", "enable"}
        BY <1>2, GoToLabels, ReturnLabels DEF EndCheck, AbortCheck, At
  <2>2. UNCHANGED <<owner, depth, inTx, srv>>
        BY <1>2 DEF EndCheck, AbortCheck, mutexVars, sessionVars
  <2> QED  BY <2>1, <2>2, CalmStep
<1>3. CASE EndCommit(t)
  <2>1. /\ inTx' => inTx
        /\ srv'.tx = "none" /\ srv'.pending \subseteq srv.pending
    <3>1. PICK ok \in BOOLEAN : Query("COMMIT", {}, ok)
          BY <1>3 DEF EndCommit
    <3> QED  BY <3>1, QueryOnTransaction DEF TypeInv, Verbs
  <2>2. /\ \A u \in Threads : u # t => pc'[u] = pc[u]
        /\ pc'[t] = "end_clear" /\ UNCHANGED <<owner, depth>>
        BY <1>3, GoToLabels DEF EndCommit, mutexVars
  <2> QED  BY <2>1, <2>2, CalmStep
<1>4. CASE EndClear(t)
  <2>1. /\ \A u \in Threads : u # t => pc'[u] = pc[u]
        /\ pc[t] = "end_clear" /\ pc'[t] = "unlock" /\ ~inTx'
        /\ UNCHANGED <<owner, depth, srv>>
        BY <1>4, GoToLabels DEF EndClear, At, mutexVars
  <2> QED  BY <2>1, CalmStep
<1>5. CASE FinalUnlock(t)
  <2>1. ~inTx /\ srv.tx = "none" /\ UNCHANGED <<inTx, srv>>
        BY <1>1, <1>5 DEF NoTransactionLeft, FinalUnlock, At, sessionVars
  <2>2. /\ \A u \in Threads : u # t => pc'[u] = pc[u]
        /\ pc'[t] \in {"idle", "disable", "enable"}
    <3>1. ret[t] \in BOOLEAN
          BY <1>1 DEF TypeInv, ThreadsTyped
    <3> QED  BY <1>5, <3>1, ReturnLabels DEF FinalUnlock, At
  <2> QED  BY <1>5, <2>1, <2>2, UnlockUnderMutex DEF FinalUnlock
<1>6. CASE UnlockAborts(t)
      BY <1>6 DEF TransactionUnderMutex, NoTransactionLeft, UnlockAborts,
                  sessionVars, threadVars
<1>7. CASE AbortClear(t)
  <2>1. /\ \A u \in Threads : u # t => pc'[u] = pc[u]
        /\ pc'[t] = "rollback" /\ ~inTx' /\ UNCHANGED <<owner, depth, srv>>
        BY <1>7, GoToLabels DEF AbortClear, mutexVars
  <2> QED  BY <2>1, CalmStep
<1>8. CASE AbortRollback(t)
  <2>1. /\ inTx' => inTx
        /\ srv'.tx = "none" /\ srv'.pending \subseteq srv.pending
    <3>1. CASE ~connected /\ UNCHANGED sessionVars
          BY <3>1 DEF TypeInv, SessionOK, sessionVars
    <3>2. CASE \E ok \in BOOLEAN : Query("ROLLBACK", {}, ok)
          BY <3>2, QueryOnTransaction DEF TypeInv, Verbs
    <3> QED  BY <1>8, <3>1, <3>2 DEF AbortRollback
  <2>2. /\ \A u \in Threads : u # t => pc'[u] = pc[u]
        /\ pc[t] = "rollback" /\ pc'[t] = "unlock" /\ UNCHANGED <<owner, depth>>
        BY <1>8, GoToLabels DEF AbortRollback, At, mutexVars
  <2> QED  BY <2>1, <2>2, CalmStep
<1> QED  BY <1>2, <1>3, <1>4, <1>5, <1>6, <1>7, <1>8

\* Rows are added to a transaction by its owner only.
LEMMA InsertUnderMutex ==
    ASSUME MutexInv, TypeInv', NEW t \in Writers, InsertOp(t)
    PROVE  MutexInv'
<1> USE DEF MutexInv
<1>1. /\ t \in Threads /\ pc[t] = "op" /\ pc'[t] \in {"op", "abort"}
      /\ \A u \in Threads : u # t => pc'[u] = pc[u]
      /\ UNCHANGED <<owner, depth>>
      BY WritersAreThreads, GoToLabels DEF InsertOp, At, mutexVars
<1>2. PICK ok \in BOOLEAN :
         \/ Escape(ok)
         \/ Query("INSERT", {<<Current(t), op[t]>>}, ok)
         \/ Query("SELECT", {}, ok)
      BY DEF InsertOp
<1>3. CASE Escape(ok) \/ Query("SELECT", {}, ok)
  <2>1. /\ inTx' => inTx
        /\ srv'.tx # "none" => srv.tx # "none"
        /\ srv'.pending \subseteq srv.pending
    <3>1. CASE Escape(ok)
          BY <3>1, EscapeOnTransaction DEF TypeInv
    <3>2. CASE Query("SELECT", {}, ok)
          BY <3>2, QueryOnTransaction DEF TypeInv, Verbs
    <3> QED  BY <1>3, <3>1, <3>2
  <2> QED  BY <1>1, <2>1, CalmStep
<1>4. CASE Query("INSERT", {<<Current(t), op[t]>>}, ok)
  <2> DEFINE row == <<Current(t), op[t]>>
  <2>1. row \in Row
    <3>1. Current(t) \in Messages
          BY <1>1, BoundsAssumption
          DEF TypeInv, ThreadsTyped, CallsOK, Current, Messages
    <3> QED  BY <3>1 DEF InsertOp, Row
  <2>2. /\ inTx' => inTx
        /\ srv'.tx # "none" => srv.tx # "none"
        /\ srv'.pending \subseteq srv.pending \cup {row}
        /\ srv.tx # "open" => srv'.pending \subseteq srv.pending
        BY <1>4, <2>1, QueryOnTransaction DEF TypeInv, Verbs
  <2>3. CASE srv.tx # "open"
        BY <1>1, <2>2, <2>3, CalmStep
  <2>4. CASE srv.tx = "open"
    <3>1. owner = t
          BY <2>4 DEF TransactionUnderMutex, InsertOp, Free
    <3>2. row[1][1] = t
          BY DEF Current
    <3>3. TransactionUnderMutex'
          BY <1>1, <2>2, <3>1, <3>2 DEF TransactionUnderMutex
    <3>4. NoTransactionLeft'
          BY <1>1, <2>2 DEF NoTransactionLeft
    <3> QED  BY <3>3, <3>4
  <2> QED  BY <2>3, <2>4
<1> QED  BY <1>2, <1>3, <1>4

\* The other steps of the writers only move between labels.
LEMMA MoveUnderMutex ==
    ASSUME MutexInv, TypeInv', NEW t \in Writers,
           \/ CallInsert(t) \/ InsertStart(t) \/ InsertEnd(t) \/ InsertAbort(t)
           \/ CallTransaction(t) \/ DisableInternal(t) \/ EnableInternal(t)
    PROVE  MutexInv'
<1> USE DEF MutexInv
<1>1. UNCHANGED <<owner, depth, inTx, srv>>
      BY DEF CallInsert, InsertStart, InsertEnd, InsertAbort, CallTransaction,
             DisableInternal, EnableInternal, mutexVars, sessionVars
<1>2. CASE InsertEnd(t) \/ InsertAbort(t)
  <2>1. /\ \A u \in Threads : u # t => pc'[u] = pc[u]
        /\ pc'[t] \in {"end_check", "abort_check", "idle", "disable", "enable"}
        BY <1>2, GoToLabels, ReturnLabels DEF InsertEnd, InsertAbort, At
  <2> QED  BY <1>1, <2>1, CalmStep
<1>3. CASE ~(InsertEnd(t) \/ InsertAbort(t))
  <2>1. PICK label \in {"start", "op", "lock", "end_check", "abort_check", "idle"} :
              GoTo(t, label)
        BY <1>3 DEF CallInsert, InsertStart, CallTransaction, EntryOf,
                    DisableInternal, EnableInternal
  <2>2. /\ \A u \in Threads : u # t => pc'[u] = pc[u]
        /\ pc'[t] \notin {"begin", "end_clear", "unlock", "rollback"}
        BY <2>1, GoToLabels
  <2> QED  BY <1>1, <2>2, CalmStep
<1> QED  BY <1>2, <1>3

LEMMA OutsideUnderMutex ==
    ASSUME MutexInv, TypeInv', (\E t \in Readers : ReadQuery(t)) \/ ConnectionLost
    PROVE  MutexInv'
<1>1. /\ inTx' => inTx
      /\ srv'.tx # "none" => srv.tx # "none"
      /\ srv'.pending \subseteq srv.pending
  <2>1. CASE \E t \in Readers : ReadQuery(t)
        BY <2>1, QueryOnTransaction DEF MutexInv, TypeInv, ReadQuery, Verbs
  <2>2. CASE ConnectionLost
        BY <2>2 DEF MutexInv, TypeInv, SessionOK, ConnectionLost, Dropped,
                    RolledBack, Server
  <2> QED  BY <2>1, <2>2
<1>2. UNCHANGED <<owner, depth, pc>>
      BY DEF ReadQuery, ConnectionLost, mutexVars, threadVars
<1> QED  BY <1>1, <1>2 DEF MutexInv, TransactionUnderMutex, NoTransactionLeft

LEMMA NextUnderMutex == MutexInv /\ [Next]_vars => MutexInv'
<1> SUFFICES ASSUME MutexInv, [Next]_vars PROVE MutexInv'
    OBVIOUS
<1>1. TypeInv'
      BY NextTyped DEF MutexInv
<1>2. ASSUME NEW t \in Writers, CallInsert(t) \/ Proceed(t)
      PROVE  MutexInv'
      BY <1>1, <1>2, LockUnderMutex, StartUnderMutex, EndUnderMutex, InsertUnderMutex,
         MoveUnderMutex DEF Proceed
<1>3. ASSUME NEW t \in Batchers, CallTransaction(t)
      PROVE  MutexInv'
      BY <1>1, <1>3, MoveUnderMutex DEF Writers
<1>4. CASE (\E t \in Readers : ReadQuery(t)) \/ ConnectionLost
      BY <1>1, <1>4, OutsideUnderMutex
<1>5. CASE UNCHANGED vars
      BY <1>1, <1>5 DEF MutexInv, TransactionUnderMutex, NoTransactionLeft,
                        vars, mutexVars, sessionVars, threadVars
<1> QED  BY <1>2, <1>3, <1>4, <1>5 DEF Next, Terminated

LEMMA InitUnderMutex == Init => MutexInv
<1> SUFFICES ASSUME Init PROVE MutexInv
    OBVIOUS
<1>1. TransactionUnderMutex
  <2>1. ~inTx /\ srv.tx = "none" /\ srv.pending = {}
        BY DEF Init
  <2> QED  BY <2>1 DEF TransactionUnderMutex
<1>2. NoTransactionLeft
      BY ThreadsAssumption DEF Init, NoTransactionLeft
<1> QED  BY <1>1, <1>2, InitTyped DEF MutexInv

\* A transaction always has an owner of the mutex, and holds that thread's
\* rows only: with any number of inserting, batching and reading threads, in
\* any order of transaction calls, whatever the server refuses or loses.
THEOREM MutexCoversTransactions == Spec => []TransactionUnderMutex
<1>1. MutexInv => TransactionUnderMutex
      BY DEF MutexInv
<1> QED  BY <1>1, InitUnderMutex, NextUnderMutex, PTL DEF Spec

----------------------------------------------------------------------------
(***************************************************************************)
(* Insertion is atomic and truthful, for any number of threads, messages,   *)
(* operations and faults, any backend and any mix of refused statements and *)
(* lost connections, in a process that                                      *)
(*   - leaves transactions to insert_message (no public transaction calls), *)
(*   - inserts messages whose statements are all checked (heartbeats).      *)
(* The runs alert_partial, alert_leak and batch_race_lost show that neither *)
(* condition can be dropped.                                                *)
(***************************************************************************)
CheckedInsertions == Batchers = {} /\ \A i \in Ops : Program[i].checked

----------------------------------------------------------------------------
(* The inductive invariant. *)

\* Labels at which insert_message holds the mutex, at which the TRANSACTION
\* bit is set, and at which every statement so far has succeeded.
Holding == {"begin", "mark", "op", "abort", "end_check", "commit", "end_clear",
            "unlock", "abort_check", "abort_clear", "rollback"}
Marked == {"op", "abort", "end_check", "commit", "end_clear", "abort_check", "abort_clear"}
Succeeding == {"mark", "op", "end_check", "commit"}

\* The rows of its current message a thread has sent.
Sent(t) == {r \in RowsOf(Current(t)) : r[2] < op[t]}

InsertOnly(t) ==
    /\ call[t] = "insert" /\ ~inBatch[t]
    /\ pc[t] \in Holding \cup {"idle", "start", "lock"}
    /\ pc[t] \in {"start", "lock", "begin", "mark"} => op[t] = 1
    /\ pc[t] \in {"end_check", "commit"} => op[t] = NumOps + 1

HoldsInside(t) == (owner = t) <=> (pc[t] \in Holding)

TransactionIsWhole(t) == owner = t =>
    /\ inTx <=> (pc[t] \in Marked)
    /\ pc[t] \in Succeeding =>
          /\ connected
          /\ srv.up => srv.tx = "open" /\ srv.pending = Sent(t)

TruthfulReturn(t) ==
    pc[t] \in {"end_clear", "unlock"} /\ ret[t] => RowsOf(Current(t)) \subseteq srv.durable

ThreadInv(t) ==
    InsertOnly(t) /\ HoldsInside(t) /\ TransactionIsWhole(t) /\ TruthfulReturn(t)

\* A thread is told the outcome of its messages in order.
RepliesInOrder ==
    \A m \in acked \cup failed :
        m[2] < msg[m[1]] \/ (m[2] = msg[m[1]] /\ pc[m[1]] = "idle")

SharedInv ==
    /\ ~disabled /\ ~aborted
    /\ owner # NoThread => depth = 1

InsertInv ==
    /\ CheckedInsertions /\ MutexInv /\ SharedInv
    /\ \A t \in Threads : ThreadInv(t)
    /\ RepliesInOrder /\ AckedStored

----------------------------------------------------------------------------
(* What a step changes. *)

\* The step is taken by thread t: the others keep their state, and the
\* session changes only when no other thread owns the mutex.
StepBy(t) ==
    /\ \A u \in Threads \ {t} :
          /\ pc'[u] = pc[u] /\ call'[u] = call[u] /\ msg'[u] = msg[u]
          /\ op'[u] = op[u] /\ ret'[u] = ret[u] /\ inBatch'[u] = inBatch[u]
    /\ \/ owner \in {t, NoThread} /\ owner' \in {t, NoThread}
       \/ UNCHANGED <<owner, depth, connected, inTx, srv>>
    /\ srv.durable \subseteq srv'.durable

\* What the step does to the tables and to the callers: nothing, or it
\* commits the message of t, or it tells t the outcome.
Silent == UNCHANGED <<acked, failed>> /\ srv'.durable = srv.durable
Commits(t) ==
    /\ pc[t] = "commit" /\ Current(t) \in Messages \ (acked \cup failed)
    /\ srv'.durable = srv.durable \cup RowsOf(Current(t))
    /\ UNCHANGED <<acked, failed>>
Replies(t) ==
    /\ pc'[t] = "idle" /\ Current(t) \in Messages \ (acked \cup failed)
    /\ srv'.durable = srv.durable
    /\ \/ /\ RowsOf(Current(t)) \subseteq srv.durable
          /\ acked' = acked \cup {Current(t)} /\ failed' = failed
       \/ failed' = failed \cup {Current(t)} /\ acked' = acked

MessageStep(t) ==
    \/ msg'[t] = msg[t] /\ (pc[t] = "idle" => pc'[t] = "idle")
    \/ msg'[t] = msg[t] + 1

StoreStep(t) == StepBy(t) /\ MessageStep(t) /\ (Silent \/ Commits(t) \/ Replies(t))

LEMMA OthersKeep ==
    ASSUME InsertInv, NEW t \in Writers, StepBy(t)
    PROVE  \A u \in Threads \ {t} : ThreadInv(u)'
<1> SUFFICES ASSUME NEW u \in Threads \ {t} PROVE ThreadInv(u)'
    OBVIOUS
<1>1. /\ pc'[u] = pc[u] /\ call'[u] = call[u] /\ msg'[u] = msg[u]
      /\ op'[u] = op[u] /\ ret'[u] = ret[u] /\ inBatch'[u] = inBatch[u]
      /\ ThreadInv(u) /\ u # NoThread
      BY ThreadsAssumption DEF StepBy, InsertInv
<1>2. InsertOnly(u)' /\ TruthfulReturn(u)'
      BY <1>1 DEF ThreadInv, InsertOnly, TruthfulReturn, Current, StepBy
<1>3. CASE owner \in {t, NoThread} /\ owner' \in {t, NoThread}
      BY <1>1, <1>2, <1>3 DEF ThreadInv, HoldsInside, TransactionIsWhole
<1>4. CASE UNCHANGED <<owner, depth, connected, inTx, srv>>
      BY <1>1, <1>2, <1>4 DEF ThreadInv, HoldsInside, TransactionIsWhole, Sent, Current
<1> QED  BY <1>3, <1>4 DEF StepBy

LEMMA RepliesKeep ==
    ASSUME InsertInv, TypeInv', NEW t \in Writers, StoreStep(t)
    PROVE  RepliesInOrder' /\ AckedStored'
<1>1. ASSUME NEW m \in acked \cup failed
      PROVE  m[2] < msg'[m[1]] \/ (m[2] = msg'[m[1]] /\ pc'[m[1]] = "idle")
  <2>1. m[1] \in Threads /\ m[2] \in Nat
        BY WritersAreThreads
        DEF InsertInv, MutexInv, TypeInv, RepliesTyped, Messages
  <2>2. m[2] < msg[m[1]] \/ (m[2] = msg[m[1]] /\ pc[m[1]] = "idle")
        BY DEF InsertInv, RepliesInOrder
  <2>3. msg[m[1]] \in Nat /\ msg'[m[1]] \in Nat
        BY <2>1, BoundsAssumption DEF InsertInv, MutexInv, TypeInv, ThreadsTyped
  <2>4. CASE m[1] = t
        BY <2>1, <2>2, <2>3, <2>4 DEF StoreStep, MessageStep
  <2>5. CASE m[1] # t
        BY <2>1, <2>2, <2>5 DEF StoreStep, StepBy
  <2> QED  BY <2>4, <2>5
<1>2. /\ acked' \cup failed' \subseteq acked \cup failed \cup {Current(t)}
      /\ acked' \cup failed' # acked \cup failed => pc'[t] = "idle" /\ Replies(t)
      BY DEF StoreStep, Silent, Commits, Replies
<1>3. RepliesInOrder'
  <2>1. ASSUME Replies(t) PROVE msg[t] < msg'[t] \/ msg'[t] = msg[t]
        BY WritersAreThreads, BoundsAssumption
        DEF StoreStep, MessageStep, InsertInv, MutexInv, TypeInv, ThreadsTyped
  <2> QED  BY <1>1, <1>2, <2>1 DEF RepliesInOrder, Replies, Current
<1>4. AckedStored'
      BY DEF InsertInv, AckedStored, StoreStep, StepBy, Silent, Commits, Replies, Current
<1> QED  BY <1>3, <1>4

\* A step of t that keeps t's own part of the invariant keeps all of it.
LEMMA StepKeeps ==
    ASSUME InsertInv, MutexInv', SharedInv', NEW t \in Writers,
           StoreStep(t), ThreadInv(t)'
    PROVE  InsertInv'
<1>1. \A u \in Threads : ThreadInv(u)'
      BY OthersKeep DEF StoreStep
<1>2. RepliesInOrder' /\ AckedStored'
      BY RepliesKeep DEF MutexInv
<1>3. CheckedInsertions'
      BY DEF InsertInv, CheckedInsertions
<1> QED  BY <1>1, <1>2, <1>3 DEF InsertInv

----------------------------------------------------------------------------
(* What a statement does to the tables, by verb. *)

LEMMA QueryOnTables ==
    ASSUME SessionOK, NEW verb \in Verbs, NEW rows \in SUBSET Row,
           NEW ok \in BOOLEAN, Query(verb, rows, ok)
    PROVE  /\ connected => inTx' = inTx
           /\ ok => connected' /\ srv'.up
           /\ ok /\ connected => srv.up
           /\ verb \in {"SELECT", "ROLLBACK"} => srv'.durable = srv.durable
           /\ verb = "BEGIN" /\ srv.pending = {} => srv'.durable = srv.durable
           /\ verb = "INSERT" /\ connected /\ (srv.up => srv.tx = "open") =>
                srv'.durable = srv.durable
           /\ verb = "COMMIT" =>
                \/ srv'.durable = srv.durable
                \/ srv.up /\ srv.tx = "open"
                   /\ srv'.durable = srv.durable \cup srv.pending
           /\ verb = "COMMIT" /\ ok /\ srv.tx = "open" =>
                srv'.durable = srv.durable \cup srv.pending
           /\ verb = "BEGIN" /\ ok => srv'.tx = "open" /\ srv'.pending \subseteq srv.pending
           /\ verb = "INSERT" /\ ok /\ connected /\ srv.tx = "open" =>
                srv'.tx = "open" /\ srv'.pending = srv.pending \cup rows
           /\ verb = "SELECT" /\ ok /\ connected => srv' = srv
<1> DEFINE s == Session
<1>1. /\ s \in Server /\ s.tx = srv.tx /\ s.pending = srv.pending
      /\ s.durable = srv.durable
      /\ ~s.up => s.tx = "none"
      /\ connected => s = srv
      /\ s.tx = "open" => srv.up
      BY DEF SessionOK, Session, Opened, RolledBack, Server
<1>2. CASE ConnectFails(ok)
      BY <1>2 DEF ConnectFails
<1>3. connected => TransactionBit = inTx
      BY DEF TransactionBit, SessionOK
<1>4. ASSUME s.up
      PROVE  LET e == Executed(s, verb, rows)
             IN  /\ e \in Server /\ e.up
                 /\ verb \in {"SELECT", "ROLLBACK"} => e.durable = s.durable
                 /\ verb = "BEGIN" => e.tx = "open" /\ e.pending \subseteq s.pending
                 /\ verb = "BEGIN" /\ s.pending = {} => e.durable = s.durable
                 /\ verb = "INSERT" /\ s.tx = "open" =>
                      /\ e.durable = s.durable
                      /\ e.tx = "open" /\ e.pending = s.pending \cup rows
                 /\ verb = "COMMIT" =>
                      IF s.tx = "open" THEN e.durable = s.durable \cup s.pending
                                       ELSE e.durable = s.durable
                 /\ verb = "SELECT" => e = s
      BY <1>1, <1>4 DEF Executed, Begun, Committed, RolledBack, Inserted, Server, Verbs
<1>5. Refused(s, verb).durable = s.durable
      BY <1>1 DEF Refused, RolledBack, Server
<1>6. CASE Answered(verb, rows, ok)
  <2>1. s.up
        BY <1>6 DEF Answered
  <2>2. CASE ok
        BY <1>1, <1>3, <1>4, <1>6, <2>1, <2>2 DEF Answered
  <2>3. CASE ~ok
        BY <1>1, <1>3, <1>5, <1>6, <2>3 DEF Answered
  <2> QED  BY <2>2, <2>3
<1>7. CASE Broken(verb, rows, ok)
  <2>1. ASSUME NEW e \in Server PROVE Dropped(e).durable = e.durable
        BY DEF Dropped, RolledBack, Server
  <2>2. ~ok /\ (connected => inTx' = inTx)
        BY <1>3, <1>7 DEF Broken
  <2>3. CASE ~s.up
        BY <1>1, <1>7, <2>2, <2>3 DEF Broken
  <2>4. CASE s.up
        BY <1>1, <1>4, <1>7, <2>1, <2>2, <2>4 DEF Broken
  <2> QED  BY <2>3, <2>4
<1> QED  BY <1>2, <1>6, <1>7 DEF Query

\* One INSERT inside the transaction: an answered one joins the pending rows.
LEMMA InsertOnTables ==
    ASSUME SessionOK, connected, srv.up => srv.tx = "open",
           NEW r \in Row, NEW ok \in BOOLEAN, Query("INSERT", {r}, ok)
    PROVE  /\ inTx' = inTx /\ srv'.durable = srv.durable
           /\ ok => connected' /\ srv.up
           /\ ok /\ srv.tx = "open" =>
                srv'.tx = "open" /\ srv'.pending = srv.pending \cup {r}
<1> DEFINE rows == {r}
<1>1. /\ rows \in SUBSET Row /\ "INSERT" \in Verbs
      /\ Query("INSERT", rows, ok)
      BY DEF Verbs
<1> HIDE DEF rows
<1>2. inTx' = inTx
      BY <1>1, QueryOnTables
<1>3. srv'.durable = srv.durable
      BY <1>1, QueryOnTables
<1>4. ok => connected' /\ srv.up
  <2>1. ok => connected'
        BY <1>1, QueryOnTables
  <2>2. ok => srv.up
        BY <1>1, QueryOnTables
  <2> QED  BY <2>1, <2>2
<1>5. ASSUME ok, srv.tx = "open"
      PROVE  srv'.tx = "open" /\ srv'.pending = srv.pending \cup rows
  <2>1. srv'.tx = "open"
        BY <1>1, <1>5, QueryOnTables
  <2>2. srv'.pending = srv.pending \cup rows
        BY <1>1, <1>5, QueryOnTables
  <2> QED  BY <2>1, <2>2
<1> QED  BY <1>2, <1>3, <1>4, <1>5 DEF rows

LEMMA EscapeOnTables ==
    ASSUME SessionOK, connected, NEW ok \in BOOLEAN, Escape(ok)
    PROVE  ok /\ connected' /\ UNCHANGED <<inTx, srv>>
BY DEF SessionOK, Escape, ConnectFails, Session, TransactionBit

----------------------------------------------------------------------------
(* The steps of one insertion: each keeps the invariant and is a step of    *)
(* the tables and of the replies that the abstract store allows.            *)

\* A message in flight has no reply yet.
LEMMA InFlight ==
    ASSUME InsertInv, NEW t \in Writers, pc[t] # "idle"
    PROVE  Current(t) \in Messages \ (acked \cup failed)
<1>1. msg[t] \in 1..MaxMsgs
      BY WritersAreThreads, BoundsAssumption
      DEF InsertInv, MutexInv, TypeInv, ThreadsTyped, CallsOK, ThreadInv, InsertOnly
<1>2. Current(t) \in Messages
      BY <1>1 DEF Current, Messages
<1>3. ASSUME Current(t) \in acked \cup failed PROVE FALSE
      BY <1>1, <1>3 DEF InsertInv, RepliesInOrder, Current
<1> QED  BY <1>2, <1>3

\* A step of t to another label that changes nothing but pc.
LEMMA LabelStep ==
    ASSUME InsertInv, NEW t \in Writers, NEW label, GoTo(t, label),
           UNCHANGED <<mutexVars, sessionVars, disabled, call, msg, op, ret, replyVars>>,
           pc[t] # "idle" \/ label = "idle"
    PROVE  StoreStep(t) /\ SharedInv' /\ pc'[t] = label
<1>1. pc'[t] = label /\ \A u \in Threads \ {t} : pc'[u] = pc[u]
      BY GoToLabels DEF InsertInv, MutexInv
<1> QED  BY <1>1 DEF InsertInv, SharedInv, StoreStep, StepBy, MessageStep, Silent,
                      mutexVars, sessionVars, replyVars

LEMMA LabelsKeep ==
    ASSUME InsertInv, MutexInv', NEW t \in Writers,
           \/ InsertStart(t) \/ InsertEnd(t) \/ InsertAbort(t)
           \/ EndCheck(t) \/ AbortCheck(t)
    PROVE  InsertInv' /\ StoreStep(t)
<1>1. /\ t \in Threads /\ ThreadInv(t) /\ ~disabled /\ ThreadsTyped
      BY WritersAreThreads DEF InsertInv, SharedInv, MutexInv, TypeInv
<1>2. /\ EndCheck(t) \/ AbortCheck(t) => inTx
      /\ InsertEnd(t) => op[t] = NumOps + 1
  <2>1. EndCheck(t) \/ AbortCheck(t) => inTx
        BY <1>1 DEF EndCheck, AbortCheck, At, ThreadInv, HoldsInside,
                    TransactionIsWhole, Holding, Marked
  <2>2. InsertEnd(t) => op[t] = NumOps + 1
    <3>1. op[t] \in 1..(NumOps + 1) /\ NumOps \in Nat
          BY <1>1, ProgramAssumption DEF ThreadsTyped
    <3> QED  BY <3>1 DEF InsertEnd, Ops
  <2> QED  BY <2>1, <2>2
<1>3. PICK label :
         /\ GoTo(t, label)
         /\ <<pc[t], label>> \in {<<"start", "lock">>, <<"op", "end_check">>,
                                  <<"abort", "abort_check">>, <<"end_check", "commit">>,
                                  <<"abort_check", "abort_clear">>}
         /\ label = "end_check" => op[t] = NumOps + 1
      BY <1>1, <1>2 DEF InsertStart, InsertEnd, InsertAbort, EndCheck, AbortCheck, At
<1>4. UNCHANGED <<mutexVars, sessionVars, disabled, call, msg, op, ret, replyVars>>
      BY <1>1, <1>2 DEF InsertStart, InsertEnd, InsertAbort, EndCheck, AbortCheck, At
<1>5. StoreStep(t) /\ SharedInv' /\ pc'[t] = label
      BY <1>3, <1>4, LabelStep
<1>6. ThreadInv(t)'
      BY <1>1, <1>3, <1>4, <1>5
      DEF ThreadInv, InsertOnly, HoldsInside, TransactionIsWhole, TruthfulReturn, Sent,
          Current, Holding, Marked, Succeeding, mutexVars, sessionVars, replyVars
<1> QED  BY <1>5, <1>6, StepKeeps

LEMMA LockKeepsInsert ==
    ASSUME InsertInv, MutexInv', NEW t \in Writers, StartLock(t)
    PROVE  InsertInv' /\ StoreStep(t)
<1>1. /\ t \in Threads /\ ThreadInv(t) /\ t # NoThread
      /\ pc[t] = "lock" /\ pc'[t] = "begin"
      /\ \A u \in Threads \ {t} : pc'[u] = pc[u]
      BY WritersAreThreads, GoToLabels DEF InsertInv, MutexInv, StartLock, At
<1>2. owner = NoThread /\ owner' = t /\ depth' = 1 /\ aborted' = aborted
      BY <1>1 DEF StartLock, Lock, Free, ThreadInv, HoldsInside, Holding,
                  MutexInv, TypeInv, MutexOK, InsertInv
<1>3. UNCHANGED <<sessionVars, disabled, call, msg, op, ret, replyVars>>
      BY DEF StartLock
<1>4. StoreStep(t) /\ SharedInv'
      BY <1>1, <1>2, <1>3
      DEF InsertInv, SharedInv, StoreStep, StepBy, MessageStep, Silent, sessionVars, replyVars
<1>5. ThreadInv(t)'
  <2>1. ~inTx'
        BY <1>2, <1>3 DEF InsertInv, MutexInv, TransactionUnderMutex, sessionVars
  <2> QED  BY <1>1, <1>2, <1>3, <2>1
           DEF ThreadInv, InsertOnly, HoldsInside, TransactionIsWhole, TruthfulReturn,
               Holding, Marked, Succeeding, replyVars
<1> QED  BY <1>4, <1>5, StepKeeps

\* insert_message returns, after a failed BEGIN or after the final unlock.
LEMMA ReturnKeepsInsert ==
    ASSUME InsertInv, MutexInv', NEW t \in Writers, NEW ok \in BOOLEAN,
           pc[t] \in {"begin", "unlock"}, Return(t, ok), Unlock(t),
           UNCHANGED disabled, srv'.durable = srv.durable,
           ok => RowsOf(Current(t)) \subseteq srv.durable
    PROVE  InsertInv' /\ StoreStep(t)
<1>1. /\ t \in Threads /\ ThreadInv(t) /\ t # NoThread
      /\ owner = t /\ depth = 1
      BY WritersAreThreads DEF InsertInv, SharedInv, ThreadInv, HoldsInside, Holding
<1>2. owner' = NoThread /\ depth' = 0 /\ aborted' = aborted
      BY <1>1 DEF Unlock
<1>3. /\ InsertReturns(t, ok) /\ ~inBatch[t]
      /\ UNCHANGED <<call, msg, op>> /\ ret' = [ret EXCEPT ![t] = ok]
      BY <1>1 DEF Return, ThreadInv, InsertOnly
<1>4. /\ pc' = [pc EXCEPT ![t] = "idle"] /\ inBatch' = inBatch
      /\ acked' = IF ok THEN acked \cup {Current(t)} ELSE acked
      /\ failed' = IF ok THEN failed ELSE failed \cup {Current(t)}
      BY <1>3 DEF InsertReturns, GoTo
<1>5. /\ pc'[t] = "idle"
      /\ \A u \in Threads \ {t} : pc'[u] = pc[u] /\ ret'[u] = ret[u]
      BY <1>1, <1>3, <1>4 DEF InsertInv, MutexInv, TypeInv, ThreadsTyped
<1>6. StepBy(t) /\ MessageStep(t)
      BY <1>1, <1>2, <1>3, <1>4, <1>5 DEF StepBy, MessageStep
<1>7. Replies(t)
      BY <1>4, <1>5, InFlight DEF Replies
<1>8. SharedInv' /\ ThreadInv(t)'
      BY <1>1, <1>2, <1>3, <1>4, <1>5
      DEF InsertInv, SharedInv, ThreadInv, InsertOnly, HoldsInside, TransactionIsWhole,
          TruthfulReturn, Holding
<1> QED  BY <1>6, <1>7, <1>8, StepKeeps DEF StoreStep

LEMMA StartKeepsInsert ==
    ASSUME InsertInv, MutexInv', NEW t \in Writers,
           StartRefused(t) \/ StartBegin(t) \/ StartMark(t)
    PROVE  InsertInv' /\ StoreStep(t)
<1>1. /\ t \in Threads /\ ThreadInv(t) /\ SessionOK
      /\ owner = t /\ depth = 1 /\ ~inTx /\ op[t] = 1
      /\ pc[t] \in {"begin", "mark"}
      BY WritersAreThreads
      DEF InsertInv, SharedInv, MutexInv, TypeInv, ThreadInv, InsertOnly, HoldsInside,
          TransactionIsWhole, Holding, Marked, StartRefused, StartBegin, StartMark, At
<1>2. Sent(t) = {}
      BY <1>1 DEF Sent, RowsOf, Ops
<1>3. ~StartRefused(t)
      BY <1>1 DEF StartRefused
<1>4. CASE StartBegin(t)
  <2>1. PICK ok \in BOOLEAN :
              /\ Query("BEGIN", {}, ok)
              /\ IF ok THEN /\ GoTo(t, "mark")
                            /\ UNCHANGED <<mutexVars, call, msg, op, ret, replyVars>>
                       ELSE Unlock(t) /\ Return(t, FALSE)
        BY <1>4 DEF StartBegin
  <2>2. pc[t] = "begin" /\ UNCHANGED disabled /\ srv.pending = {}
        BY <1>1, <1>4 DEF StartBegin, At, InsertInv, MutexInv, NoTransactionLeft, SessionOK
  <2>3. /\ srv'.durable = srv.durable /\ ~inTx'
        /\ ok => connected' /\ srv'.up /\ srv'.tx = "open" /\ srv'.pending = {}
        BY <1>1, <2>1, <2>2, QueryOnTables, QueryOnTransaction DEF Verbs
  <2>4. CASE ok
    <3>1. /\ pc'[t] = "mark" /\ \A u \in Threads \ {t} : pc'[u] = pc[u]
          /\ UNCHANGED <<mutexVars, call, msg, op, ret, replyVars>>
          BY <2>1, <2>4, GoToLabels DEF InsertInv, MutexInv
    <3>2. StoreStep(t) /\ SharedInv'
          BY <1>1, <2>2, <2>3, <3>1
          DEF InsertInv, SharedInv, StoreStep, StepBy, MessageStep, Silent,
              mutexVars, replyVars
    <3>3. Sent(t)' = {}
          BY <1>2, <3>1 DEF Sent, Current
    <3>4. ThreadInv(t)'
          BY <1>1, <2>3, <2>4, <3>1, <3>3
          DEF ThreadInv, InsertOnly, HoldsInside, TransactionIsWhole, TruthfulReturn,
              Holding, Marked, Succeeding, mutexVars, replyVars
    <3> QED  BY <3>2, <3>4, StepKeeps
  <2>5. CASE ~ok
        BY <2>1, <2>2, <2>3, <2>5, ReturnKeepsInsert
  <2> QED  BY <2>4, <2>5
<1>5. CASE StartMark(t)
  <2>1. /\ pc[t] = "mark" /\ inTx'
        /\ pc'[t] = "op" /\ \A u \in Threads \ {t} : pc'[u] = pc[u]
        /\ UNCHANGED <<mutexVars, connected, srv, disabled, call, msg, op, ret, replyVars>>
        BY <1>1, <1>5, GoToLabels
        DEF StartMark, At, InsertInv, MutexInv, ThreadInv, InsertOnly
  <2>2. StoreStep(t) /\ SharedInv'
        BY <1>1, <2>1
        DEF InsertInv, SharedInv, StoreStep, StepBy, MessageStep, Silent, mutexVars, replyVars
  <2>3. ThreadInv(t)'
        BY <1>1, <2>1
        DEF ThreadInv, InsertOnly, HoldsInside, TransactionIsWhole, TruthfulReturn,
            Holding, Marked, Succeeding, Sent, Current, mutexVars, replyVars
  <2> QED  BY <2>2, <2>3, StepKeeps
<1> QED  BY <1>3, <1>4, <1>5

\* One statement of the message: its row joins the ones already sent.
LEMMA OpKeepsInsert ==
    ASSUME InsertInv, MutexInv', NEW t \in Writers, InsertOp(t)
    PROVE  InsertInv' /\ StoreStep(t)
<1>1. /\ t \in Threads /\ ThreadInv(t) /\ SessionOK /\ ThreadsTyped
      /\ pc[t] = "op" /\ op[t] \in Ops /\ Program[op[t]].checked
      /\ owner = t /\ depth = 1 /\ inTx /\ connected
      /\ srv.up => srv.tx = "open" /\ srv.pending = Sent(t)
      /\ UNCHANGED <<mutexVars, disabled, call, msg, ret, replyVars>>
      BY WritersAreThreads
      DEF InsertInv, CheckedInsertions, SharedInv, MutexInv, TypeInv, ThreadInv,
          HoldsInside, TransactionIsWhole, Holding, Marked, Succeeding, InsertOp, At
<1> DEFINE row == <<Current(t), op[t]>>
<1>2. PICK ok \in BOOLEAN :
          /\ CASE Program[op[t]].kind = "escape" -> Escape(ok)
               [] Program[op[t]].kind = "insert" -> Query("INSERT", {row}, ok)
               [] OTHER -> Query("SELECT", {}, ok)
          /\ IF ok \/ ~Program[op[t]].checked
             THEN op' = [op EXCEPT ![t] = @ + 1] /\ UNCHANGED pc
             ELSE GoTo(t, "abort") /\ UNCHANGED op
      BY DEF InsertOp
<1>3. row \in Row
      BY <1>1, InFlight DEF Row
<1>4. /\ inTx' /\ srv'.durable = srv.durable
      /\ ok => /\ connected'
               /\ srv'.up => /\ srv'.tx = "open"
                             /\ srv'.pending = srv.pending \cup
                                    (IF Program[op[t]].kind = "insert" THEN {row} ELSE {})
  <2>1. CASE Program[op[t]].kind = "escape"
        BY <1>1, <1>2, <2>1, EscapeOnTables
  <2>2. CASE Program[op[t]].kind = "insert"
    <3>1. Query("INSERT", {row}, ok)
          BY <1>2, <2>2
    <3>2. /\ inTx' = inTx /\ srv'.durable = srv.durable
          /\ ok => connected' /\ srv.up
          /\ ok /\ srv.tx = "open" =>
               srv'.tx = "open" /\ srv'.pending = srv.pending \cup {row}
      <4>1. SessionOK /\ connected /\ (srv.up => srv.tx = "open")
            BY <1>1
      <4> HIDE DEF row
      <4> QED  BY <1>3, <3>1, <4>1, InsertOnTables
    <3> QED  BY <1>1, <2>2, <3>2
  <2>3. CASE Program[op[t]].kind \notin {"escape", "insert"}
    <3>1. Query("SELECT", {}, ok)
          BY <1>2, <2>3
    <3> QED  BY <1>1, <2>3, <3>1, QueryOnTables DEF Verbs
  <2> QED  BY <2>1, <2>2, <2>3
<1>5. \A u \in Threads \ {t} : pc'[u] = pc[u] /\ op'[u] = op[u]
  <2>1. CASE ok
        BY <1>1, <1>2, <2>1 DEF ThreadsTyped
  <2>2. CASE ~ok
        BY <1>1, <1>2, <2>2, GoToLabels DEF InsertInv, MutexInv
  <2> QED  BY <2>1, <2>2
<1>6. StoreStep(t) /\ SharedInv'
      BY <1>1, <1>4, <1>5
      DEF InsertInv, SharedInv, StoreStep, StepBy, MessageStep, Silent, mutexVars, replyVars
<1>7. ThreadInv(t)'
  <2>1. CASE ok
    <3>1. pc'[t] = "op" /\ op'[t] = op[t] + 1
          BY <1>1, <1>2, <2>1 DEF ThreadsTyped
    <3>2. Sent(t)' = Sent(t) \cup (IF Program[op[t]].kind = "insert" THEN {row} ELSE {})
      <4>1. Current(t)' = Current(t)
            BY <1>1 DEF Current
      <4>2. op[t] \in Nat
            BY <1>1 DEF Ops
      <4> QED  BY <1>1, <3>1, <4>1, <4>2 DEF Sent, RowsOf, Ops
    <3>3. srv'.up => srv.up
      <4>1. CASE Program[op[t]].kind = "escape"
            BY <1>1, <1>2, <4>1, EscapeOnTables
      <4>2. CASE Program[op[t]].kind = "insert"
            BY <1>1, <1>2, <1>3, <2>1, <4>2, QueryOnTables DEF Verbs
      <4>3. CASE Program[op[t]].kind \notin {"escape", "insert"}
        <5>1. Query("SELECT", {}, ok)
              BY <1>2, <4>3
        <5> QED  BY <1>1, <2>1, <5>1, QueryOnTables DEF Verbs
      <4> QED  BY <4>1, <4>2, <4>3
    <3> QED  BY <1>1, <1>4, <2>1, <3>1, <3>2, <3>3
             DEF ThreadInv, InsertOnly, HoldsInside, TransactionIsWhole, TruthfulReturn,
                 Holding, Marked, Succeeding, mutexVars, replyVars
  <2>2. CASE ~ok
    <3>1. pc'[t] = "abort" /\ op' = op
          BY <1>1, <1>2, <2>2, GoToLabels DEF InsertInv, MutexInv
    <3> QED  BY <1>1, <1>4, <3>1
             DEF ThreadInv, InsertOnly, HoldsInside, TransactionIsWhole, TruthfulReturn,
                 Holding, Marked, Succeeding, mutexVars, replyVars
  <2> QED  BY <2>1, <2>2
<1> QED  BY <1>6, <1>7, StepKeeps

\* COMMIT: when the transaction is open it holds the whole message, so the
\* message becomes durable whole or not at all, and success is truthful.
LEMMA CommitKeepsInsert ==
    ASSUME InsertInv, MutexInv', NEW t \in Writers, EndCommit(t)
    PROVE  InsertInv' /\ StoreStep(t)
<1>1. /\ t \in Threads /\ ThreadInv(t) /\ SessionOK /\ ThreadsTyped
      /\ pc[t] = "commit" /\ owner = t /\ depth = 1 /\ inTx /\ connected
      /\ srv.up => srv.tx = "open" /\ srv.pending = Sent(t)
      /\ op[t] = NumOps + 1
      /\ UNCHANGED <<mutexVars, disabled, call, msg, op, replyVars>>
      BY WritersAreThreads
      DEF InsertInv, SharedInv, MutexInv, TypeInv, ThreadInv, InsertOnly, HoldsInside,
          TransactionIsWhole, Holding, Marked, Succeeding, EndCommit, At
<1>2. PICK ok \in BOOLEAN : Query("COMMIT", {}, ok) /\ ret' = [ret EXCEPT ![t] = ok]
      BY DEF EndCommit
<1>3. Sent(t) = RowsOf(Current(t))
      BY <1>1, ProgramAssumption DEF Sent, RowsOf, Ops
<1>4. /\ inTx' = inTx
      /\ ok => srv.up
      /\ \/ srv'.durable = srv.durable
         \/ srv.up /\ srv'.durable = srv.durable \cup srv.pending
      /\ ok /\ srv.tx = "open" => srv'.durable = srv.durable \cup srv.pending
      BY <1>1, <1>2, QueryOnTables DEF Verbs
<1>5. /\ pc'[t] = "end_clear" /\ \A u \in Threads \ {t} : pc'[u] = pc[u]
      /\ ret'[t] = ok /\ \A u \in Threads \ {t} : ret'[u] = ret[u]
      BY <1>1, <1>2, GoToLabels DEF EndCommit, InsertInv, MutexInv, ThreadsTyped
<1>6. Silent \/ Commits(t)
      BY <1>1, <1>3, <1>4, InFlight DEF Silent, Commits, replyVars
<1>7. StoreStep(t) /\ SharedInv'
      BY <1>1, <1>4, <1>5, <1>6
      DEF InsertInv, SharedInv, StoreStep, StepBy, MessageStep, mutexVars, replyVars
<1>8. ThreadInv(t)'
  <2>1. ret'[t] => RowsOf(Current(t)) \subseteq srv'.durable
        BY <1>1, <1>3, <1>4, <1>5
  <2> QED  BY <1>1, <1>4, <1>5, <2>1
           DEF ThreadInv, InsertOnly, HoldsInside, TransactionIsWhole, TruthfulReturn,
               Current, Holding, Marked, Succeeding, mutexVars, replyVars
<1> QED  BY <1>7, <1>8, StepKeeps

LEMMA EndKeepsInsert ==
    ASSUME InsertInv, MutexInv', NEW t \in Writers,
           \/ EndClear(t) \/ FinalUnlock(t) \/ UnlockAborts(t)
           \/ AbortClear(t) \/ AbortRollback(t)
    PROVE  InsertInv' /\ StoreStep(t)
<1>1. /\ t \in Threads /\ ThreadInv(t) /\ SessionOK /\ ThreadsTyped
      /\ owner = t /\ depth = 1
      BY WritersAreThreads
      DEF InsertInv, SharedInv, MutexInv, TypeInv, ThreadInv, HoldsInside, Holding,
          EndClear, FinalUnlock, UnlockAborts, AbortClear, AbortRollback, At
<1>2. ~UnlockAborts(t)
      BY <1>1 DEF UnlockAborts
<1>3. CASE FinalUnlock(t)
  <2>1. /\ pc[t] = "unlock" /\ ret[t] \in BOOLEAN
        /\ Unlock(t) /\ Return(t, ret[t]) /\ UNCHANGED <<disabled, srv>>
        BY <1>1, <1>3 DEF FinalUnlock, At, ThreadsTyped, sessionVars
  <2>2. ret[t] => RowsOf(Current(t)) \subseteq srv.durable
        BY <1>1, <2>1 DEF ThreadInv, TruthfulReturn
  <2> QED  BY <2>1, <2>2, ReturnKeepsInsert
<1>4. CASE EndClear(t) \/ AbortClear(t)
  <2>1. PICK label : GoTo(t, label) /\ <<pc[t], label>> \in {<<"end_clear", "unlock">>,
                                                            <<"abort_clear", "rollback">>}
        BY <1>4 DEF EndClear, AbortClear, At
  <2>2. /\ pc'[t] = label /\ \A u \in Threads \ {t} : pc'[u] = pc[u]
        /\ ~inTx'
        /\ UNCHANGED <<mutexVars, connected, srv, disabled, call, msg, op, ret, replyVars>>
        BY <1>4, <2>1, GoToLabels DEF EndClear, AbortClear, InsertInv, MutexInv
  <2>3. StoreStep(t) /\ SharedInv'
        BY <1>1, <2>1, <2>2
        DEF InsertInv, SharedInv, StoreStep, StepBy, MessageStep, Silent,
            mutexVars, replyVars
  <2>4. ThreadInv(t)'
        BY <1>1, <2>1, <2>2
        DEF ThreadInv, InsertOnly, HoldsInside, TransactionIsWhole, TruthfulReturn,
            Current, Holding, Marked, Succeeding, mutexVars, replyVars
  <2> QED  BY <2>3, <2>4, StepKeeps
<1>5. CASE AbortRollback(t)
  <2>1. ret' = [ret EXCEPT ![t] = FALSE] /\ ~inTx' /\ srv'.durable = srv.durable
    <3>1. ~inTx /\ call[t] = "insert"
          BY <1>1, <1>5 DEF AbortRollback, At, ThreadInv, InsertOnly, TransactionIsWhole,
                            Marked
    <3>2. CASE UNCHANGED sessionVars /\ ret' = [ret EXCEPT ![t] = FALSE]
          BY <3>1, <3>2 DEF sessionVars
    <3>3. CASE \E ok \in BOOLEAN :
                  /\ Query("ROLLBACK", {}, ok)
                  /\ ret' = [ret EXCEPT ![t] = ok /\ call[t] # "insert"]
          BY <1>1, <3>1, <3>3, QueryOnTables, QueryOnTransaction DEF Verbs
    <3> QED  BY <1>5, <3>2, <3>3 DEF AbortRollback
  <2>2. /\ pc[t] = "rollback" /\ pc'[t] = "unlock" /\ ~ret'[t]
        /\ \A u \in Threads \ {t} : pc'[u] = pc[u] /\ ret'[u] = ret[u]
        /\ UNCHANGED <<mutexVars, disabled, call, msg, op, replyVars>>
        BY <1>1, <1>5, <2>1, GoToLabels
        DEF AbortRollback, At, InsertInv, MutexInv, ThreadsTyped
  <2>3. StoreStep(t) /\ SharedInv'
        BY <1>1, <2>1, <2>2
        DEF InsertInv, SharedInv, StoreStep, StepBy, MessageStep, Silent,
            mutexVars, replyVars
  <2>4. ThreadInv(t)'
        BY <1>1, <2>1, <2>2
        DEF ThreadInv, InsertOnly, HoldsInside, TransactionIsWhole, TruthfulReturn,
            Holding, Marked, Succeeding, mutexVars, replyVars
  <2> QED  BY <2>3, <2>4, StepKeeps
<1> QED  BY <1>2, <1>3, <1>4, <1>5

LEMMA CallKeepsInsert ==
    ASSUME InsertInv, MutexInv', NEW t \in Writers, CallInsert(t)
    PROVE  InsertInv' /\ StoreStep(t)
<1>1. /\ t \in Threads /\ ThreadInv(t) /\ ThreadsTyped /\ pc[t] = "idle" /\ owner # t
      BY WritersAreThreads
      DEF InsertInv, MutexInv, TypeInv, ThreadInv, HoldsInside, Holding, CallInsert, At
<1>2. /\ pc'[t] = "start" /\ msg'[t] = msg[t] + 1 /\ op'[t] = 1 /\ call'[t] = "insert"
      /\ \A u \in Threads \ {t} : /\ pc'[u] = pc[u] /\ msg'[u] = msg[u]
                                  /\ op'[u] = op[u] /\ call'[u] = call[u]
      /\ UNCHANGED <<mutexVars, sessionVars, disabled, ret, replyVars>>
      BY <1>1, GoToLabels DEF CallInsert, ThreadsTyped, InsertInv, MutexInv
<1>3. StoreStep(t) /\ SharedInv'
      BY <1>1, <1>2
      DEF InsertInv, SharedInv, StoreStep, StepBy, MessageStep, Silent,
          mutexVars, sessionVars, replyVars
<1>4. ThreadInv(t)'
      BY <1>1, <1>2
      DEF ThreadInv, InsertOnly, HoldsInside, TransactionIsWhole, TruthfulReturn,
          Holding, mutexVars, replyVars
<1> QED  BY <1>3, <1>4, StepKeeps

\* A reader finds the mutex free, and a lost connection takes the whole
\* transaction with it.
LEMMA OutsideKeepsInsert ==
    ASSUME InsertInv, MutexInv', (\E t \in Readers : ReadQuery(t)) \/ ConnectionLost
    PROVE  InsertInv' /\ Silent
<1>1. /\ srv'.durable = srv.durable
      /\ UNCHANGED <<mutexVars, disabled, threadVars, replyVars>>
  <2>1. CASE \E t \in Readers : ReadQuery(t)
        BY <2>1, QueryOnTables DEF InsertInv, MutexInv, TypeInv, ReadQuery, Verbs
  <2>2. CASE ConnectionLost
        BY <2>2 DEF InsertInv, MutexInv, TypeInv, SessionOK, ConnectionLost, Dropped,
                    RolledBack, Server
  <2> QED  BY <2>1, <2>2
<1>2. \/ owner = NoThread
      \/ UNCHANGED <<connected, inTx>> /\ ~srv'.up
  <2>1. CASE \E t \in Readers : ReadQuery(t)
        BY <2>1, ThreadsAssumption
        DEF InsertInv, MutexInv, TypeInv, MutexOK, ReadQuery, Free
  <2>2. CASE ConnectionLost
        BY <2>2 DEF InsertInv, MutexInv, TypeInv, SessionOK, ConnectionLost, Dropped,
                    RolledBack, Server
  <2> QED  BY <2>1, <2>2
<1>3. ASSUME NEW t \in Threads PROVE ThreadInv(t)'
  <2>1. ThreadInv(t) /\ t # NoThread
        BY ThreadsAssumption DEF InsertInv
  <2> QED  BY <1>1, <1>2, <2>1
           DEF ThreadInv, InsertOnly, HoldsInside, TransactionIsWhole, TruthfulReturn,
               Current, mutexVars, threadVars, replyVars
<1> QED  BY <1>1, <1>3
         DEF InsertInv, CheckedInsertions, SharedInv, RepliesInOrder, AckedStored, Silent,
             mutexVars, threadVars, replyVars

----------------------------------------------------------------------------
(* The theorems. *)

LEMMA InitKeepsInsert == CheckedInsertions /\ Init => InsertInv
<1> SUFFICES ASSUME CheckedInsertions, Init PROVE InsertInv
    OBVIOUS
<1>1. MutexInv
      BY InitUnderMutex
<1>2. SharedInv /\ RepliesInOrder /\ AckedStored
      BY DEF Init, SharedInv, RepliesInOrder, AckedStored
<1>3. ASSUME NEW t \in Threads PROVE ThreadInv(t)
      BY ThreadsAssumption
      DEF Init, ThreadInv, InsertOnly, HoldsInside, TransactionIsWhole, TruthfulReturn,
          Holding
<1> QED  BY <1>1, <1>2, <1>3 DEF InsertInv

LEMMA NextKeepsInsert ==
    InsertInv /\ [Next]_vars => InsertInv' /\ (Silent \/ \E t \in Writers : StoreStep(t))
<1> SUFFICES ASSUME InsertInv, [Next]_vars
             PROVE  InsertInv' /\ (Silent \/ \E t \in Writers : StoreStep(t))
    OBVIOUS
<1>1. MutexInv'
      BY NextUnderMutex DEF InsertInv
<1>2. ASSUME NEW t \in Writers, CallInsert(t) \/ Proceed(t)
      PROVE  InsertInv' /\ StoreStep(t)
  <2>1. ~DisableInternal(t) /\ ~EnableInternal(t)
        BY WritersAreThreads
        DEF InsertInv, ThreadInv, InsertOnly, Holding, DisableInternal, EnableInternal, At
  <2> QED  BY <1>1, <1>2, <2>1, CallKeepsInsert, LabelsKeep, LockKeepsInsert,
              StartKeepsInsert, OpKeepsInsert, CommitKeepsInsert, EndKeepsInsert
           DEF Proceed
<1>3. ~ \E t \in Batchers : CallTransaction(t)
      BY DEF InsertInv, CheckedInsertions
<1>4. CASE (\E t \in Readers : ReadQuery(t)) \/ ConnectionLost
      BY <1>1, <1>4, OutsideKeepsInsert
<1>5. CASE UNCHANGED vars
  <2>1. UNCHANGED <<mutexVars, sessionVars, disabled, threadVars, replyVars>>
        BY <1>5 DEF vars
  <2>2. ASSUME NEW t \in Threads PROVE ThreadInv(t)'
        BY <2>1
        DEF InsertInv, ThreadInv, InsertOnly, HoldsInside, TransactionIsWhole,
            TruthfulReturn, Sent, Current, mutexVars, sessionVars, threadVars, replyVars
  <2> QED  BY <1>1, <2>1, <2>2
           DEF InsertInv, CheckedInsertions, SharedInv, RepliesInOrder, AckedStored,
               Silent, mutexVars, sessionVars, threadVars, replyVars
<1> QED  BY <1>2, <1>3, <1>4, <1>5 DEF Next, Terminated

LEMMA InsertInvariant == CheckedInsertions /\ Spec => []InsertInv
BY InitKeepsInsert, NextKeepsInsert, PTL DEF Spec

\* preludedb_insert_message returns success only for a message that has all
\* its rows committed.
THEOREM SuccessMeansStored == CheckedInsertions /\ Spec => []AckedStored
<1>1. InsertInv => AckedStored
      BY DEF InsertInv
<1> QED  BY <1>1, InsertInvariant, PTL

\* Whatever fails, a thread that is back from preludedb_insert_message does
\* not hold the mutex.
THEOREM MutexGivenBack == CheckedInsertions /\ Spec => []MutexReleased
<1>1. InsertInv => MutexReleased
      BY WritersAreThreads
      DEF InsertInv, SharedInv, ThreadInv, HoldsInside, Holding, MutexReleased
<1> QED  BY <1>1, InsertInvariant, PTL

\* And no unlock on the way there aborts the process: every path through
\* preludedb_sql_transaction_end and _abort unlocks what the thread has locked.
THEOREM NoUnlockAborts == CheckedInsertions /\ Spec => []NeverAborts
<1>1. InsertInv => NeverAborts
      BY DEF InsertInv, SharedInv, NeverAborts
<1> QED  BY <1>1, InsertInvariant, PTL

\* Rows become durable only in the COMMIT of _preludedb_sql_transaction_end.
THEOREM OnlyCommitStores == CheckedInsertions /\ Spec => DurableOnlyByCommit
<1>1. InsertInv /\ [Next]_vars =>
        [srv'.durable # srv.durable => \E t \in Writers : pc[t] = "commit"]_vars
      BY NextKeepsInsert DEF StoreStep, Silent, Commits, Replies
<1> QED  BY <1>1, InsertInvariant, PTL DEF Spec, DurableOnlyByCommit

\* Every step of the detailed model is a step of AtomicStore or changes
\* nothing it can see: a message is stored whole, by the one COMMIT that ends
\* its insertion, before its caller is told, and never once it was reported
\* as failed.
THEOREM InsertionIsAtomic == CheckedInsertions /\ Spec => InsertIsAtomic
<1>1. Init => Store!Init
      BY DEF Init, Store!Init
<1>2. InsertInv /\ [Next]_vars => [Store!Next]_(Store!store)
  <2> SUFFICES ASSUME InsertInv, [Next]_vars PROVE [Store!Next]_(Store!store)
      OBVIOUS
  <2>1. CASE Silent
        BY <2>1 DEF Silent, Store!store
  <2>2. ASSUME NEW t \in Writers, Commits(t)
        PROVE  Store!StoreMessage(Current(t)) /\ Current(t) \in Messages
        BY <2>2 DEF Commits, Store!StoreMessage
  <2>3. ASSUME NEW t \in Writers, Replies(t)
        PROVE  /\ Current(t) \in Messages
               /\ Store!Acknowledge(Current(t)) \/ Store!Fail(Current(t))
        BY <2>3 DEF Replies, Store!Acknowledge, Store!Fail, Store!Stored
  <2> QED  BY <2>1, <2>2, <2>3, NextKeepsInsert DEF StoreStep, Store!Next
<1> QED  BY <1>1, <1>2, InsertInvariant, PTL DEF Spec, InsertIsAtomic, Store!Spec

=============================================================================
