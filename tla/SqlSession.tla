----------------------------- MODULE SqlSession -----------------------------
(***************************************************************************)
(* One preludedb_sql_t shared by the threads of a process: its recursive    *)
(* mutex, its status bits, the transaction calls built on them, and the     *)
(* classic format's insert_message and the public transaction API running   *)
(* on top.  The database server is the environment: what it does with a     *)
(* statement depends on Backend, and it may refuse a statement or lose the  *)
(* connection, at most MaxFaults times.                                     *)
(*                                                                         *)
(* A statement runs under the mutex from lock to unlock and is one action;  *)
(* everything the code reads or writes without the mutex (the               *)
(* internal_transaction_disabled flag, the TRANSACTION bit in               *)
(* _preludedb_sql_transaction_end/abort) is an action of its own.           *)
(***************************************************************************)
EXTENDS Naturals, FiniteSets

CONSTANTS
    Inserters,    \* threads that call preludedb_insert_message
    Batchers,     \* threads that also call preludedb_transaction_start/end/abort
    Readers,      \* threads that run a SELECT outside any transaction
    NoThread,     \* owner of a free mutex
    MaxMsgs,      \* bound: messages each writer inserts
    MaxFaults,    \* bound: statements refused plus connections lost or refused
    Backends,     \* SQL plugins that may be loaded
    Refusable,    \* verbs the server may refuse while the connection stays up
    LinkFaults,   \* may the connection be lost, or opening one fail?
    Disciplined,  \* do batchers abort a batch once an insertion in it failed?
    NumOps,       \* calls on the sql object one insert_message makes
    Program       \* [1..NumOps -> OpSpec]: those calls, in order

Writers == Inserters \cup Batchers
Threads == Writers \cup Readers
Ops == 1..NumOps
Verbs == {"BEGIN", "COMMIT", "ROLLBACK", "INSERT", "SELECT"}

\* A call of the insert path: does it send a statement, does it only escape
\* a value, and does the caller look at its result?
OpSpec == [kind : {"escape", "insert", "select"}, checked : BOOLEAN]

ASSUME ThreadsAssumption ==
    /\ Inserters \cap Batchers = {} /\ Writers \cap Readers = {}
    /\ NoThread \notin Threads
ASSUME BoundsAssumption == MaxMsgs \in Nat /\ MaxFaults \in Nat
ASSUME BackendAssumption ==
    /\ Backends \subseteq {"mysql", "pgsql", "sqlite3"}
    /\ Refusable \subseteq Verbs \ {"ROLLBACK"}
    /\ LinkFaults \in BOOLEAN /\ Disciplined \in BOOLEAN
ASSUME ProgramAssumption ==
    /\ NumOps \in Nat
    /\ Program \in [Ops -> OpSpec]
    /\ \E i \in Ops : Program[i].kind = "insert"

Messages == Writers \X (1..MaxMsgs)
Row == Messages \X Ops
RowsOf(m) == {<<m, i>> : i \in {j \in Ops : Program[j].kind = "insert"}}

VARIABLES
    owner, depth,      \* sql->mutex
    connected, inTx,   \* sql->status: the CONNECTED and TRANSACTION bits
    disabled,          \* sql->internal_transaction_disabled
    backend,           \* the plugin this process loaded
    srv,               \* the server's end of the session, and its tables
    faults,            \* faults injected so far
    pc,                \* where each thread stands
    call,              \* the library function a thread is in
    msg, op,           \* the message a writer inserts, and its next operation
    ret,               \* return code held by a call that still has to unlock
    inBatch,           \* the batcher's view: between transaction_start and end
    accepted,          \* messages insert_message accepted in the open batch
    mustAbort,         \* an insertion failed in the open batch
    acked, failed,     \* messages the caller was told are stored, or failed
    aborted            \* gl_recursive_lock_unlock() called abort()

mutexVars == <<owner, depth, aborted>>
sessionVars == <<connected, inTx, srv, faults>>
threadVars == <<pc, call, msg, op, ret>>
replyVars == <<inBatch, accepted, mustAbort, acked, failed>>
vars == <<mutexVars, sessionVars, disabled, backend, threadVars, replyVars>>

----------------------------------------------------------------------------
(***************************************************************************)
(* The server.  tx is the transaction of the current session: "doomed" is   *)
(* PostgreSQL's aborted transaction, which only COMMIT or ROLLBACK ends,    *)
(* both by rolling back.                                                    *)
(***************************************************************************)
Server == [up : BOOLEAN, tx : {"none", "open", "doomed"},
           pending : SUBSET Row, durable : SUBSET Row]

RolledBack(s) == [s EXCEPT !.tx = "none", !.pending = {}]
Committed(s) == [s EXCEPT !.tx = "none", !.pending = {},
                          !.durable = @ \cup s.pending]
Dropped(s) == [RolledBack(s) EXCEPT !.up = FALSE]
Opened(s) == [RolledBack(s) EXCEPT !.up = TRUE]

Begun(s) == [s EXCEPT !.tx = "open",
                      !.pending = IF backend = "mysql" THEN {} ELSE @,
                      !.durable = IF backend = "mysql" THEN @ \cup s.pending ELSE @]
Inserted(s, rows) == IF s.tx = "open" THEN [s EXCEPT !.pending = @ \cup rows]
                                      ELSE [s EXCEPT !.durable = @ \cup rows]

\* The state after the server accepts a statement.
Executed(s, verb, rows) ==
    CASE verb = "BEGIN"    -> Begun(s)
      [] verb = "COMMIT"   -> IF s.tx = "open" THEN Committed(s) ELSE RolledBack(s)
      [] verb = "ROLLBACK" -> RolledBack(s)
      [] verb = "INSERT"   -> Inserted(s, rows)
      [] OTHER             -> s

\* The state after the server answers a statement with an error: a failed
\* COMMIT ends the transaction, pgsql dooms it when anything else fails.
Refused(s, verb) ==
    IF s.tx = "none" THEN s
    ELSE IF verb = "COMMIT" THEN RolledBack(s)
    ELSE IF backend = "pgsql" THEN [s EXCEPT !.tx = "doomed"]
    ELSE s

\* Statements this session's state makes the server refuse.
MustRefuse(s, verb) ==
    \/ s.tx = "doomed" /\ verb \notin {"COMMIT", "ROLLBACK"}
    \/ /\ backend = "sqlite3"
       /\ \/ verb = "BEGIN" /\ s.tx # "none"
          \/ verb \in {"COMMIT", "ROLLBACK"} /\ s.tx = "none"

Fault == faults < MaxFaults /\ faults' = faults + 1

\* The sqlite3 plugin waits for a busy COMMIT (SQLITE_BUSY_TIMEOUT is
\* INT_MAX), and none of its queries returns a connection error.
MayRefuse(verb) == verb \in Refusable /\ ~(backend = "sqlite3" /\ verb = "COMMIT")
LinkMayFail == LinkFaults /\ backend # "sqlite3"

\* The server or the network closes the connection: nothing tells the client.
ConnectionLost ==
    /\ LinkMayFail /\ srv.up /\ Fault
    /\ srv' = Dropped(srv)
    /\ UNCHANGED <<mutexVars, connected, inTx, disabled, threadVars, replyVars>>

----------------------------------------------------------------------------
(***************************************************************************)
(* assert_connected() and the calls that start with it.  Opening a session  *)
(* assigns sql->status, so it also clears TRANSACTION; a connection error   *)
(* closes the session and clears CONNECTED only.                            *)
(***************************************************************************)
Session == IF connected THEN srv ELSE Opened(srv)
TransactionBit == connected /\ inTx

ConnectFails(ok) ==
    /\ ~ok /\ ~connected /\ LinkMayFail /\ Fault
    /\ UNCHANGED <<connected, inTx, srv>>

Answered(verb, rows, ok) ==
    /\ Session.up /\ connected' = TRUE /\ inTx' = TransactionBit
    /\ \/ /\ ok /\ ~MustRefuse(Session, verb)
          /\ srv' = Executed(Session, verb, rows)
          /\ UNCHANGED faults
       \/ /\ ~ok /\ MustRefuse(Session, verb)
          /\ srv' = Refused(Session, verb)
          /\ UNCHANGED faults
       \/ /\ ~ok /\ MayRefuse(verb) /\ Fault
          /\ srv' = Refused(Session, verb)

\* The connection is found dead, or dies between execution and answer.
Broken(verb, rows, ok) ==
    /\ ~ok /\ connected' = FALSE /\ inTx' = TransactionBit
    /\ \/ /\ ~Session.up
          /\ srv' = Session
          /\ UNCHANGED faults
       \/ /\ Session.up /\ ~MustRefuse(Session, verb) /\ LinkMayFail /\ Fault
          /\ srv' = Dropped(Executed(Session, verb, rows))

\* preludedb_sql_query(), with ok: "it returned no error".
Query(verb, rows, ok) ==
    \/ ConnectFails(ok)
    \/ Answered(verb, rows, ok)
    \/ Broken(verb, rows, ok)

\* preludedb_sql_escape(): needs a session, sends nothing.
Escape(ok) ==
    \/ ConnectFails(ok)
    \/ /\ ok /\ connected' = TRUE /\ inTx' = TransactionBit
       /\ srv' = Session
       /\ UNCHANGED faults

----------------------------------------------------------------------------
(* The recursive mutex. *)

Free(t) == owner \in {NoThread, t}

Lock(t) ==
    /\ Free(t)
    /\ owner' = t /\ depth' = depth + 1
    /\ UNCHANGED aborted

\* Mutation: the owner is not reset when the depth reaches zero.
UnlockKeepsOwner(t) == depth' = depth - 1 /\ UNCHANGED <<owner, aborted>>

Unlock(t) ==
    /\ depth' = depth - 1
    /\ owner' = IF depth = 1 THEN NoThread ELSE t
    /\ UNCHANGED aborted

----------------------------------------------------------------------------
(* Returning to the caller. *)

At(t, label) == ~aborted /\ pc[t] = label
GoTo(t, label) == pc' = [pc EXCEPT ![t] = label]
Current(t) == <<t, msg[t]>>

\* insert_message returns: inside a batch a success only counts once the
\* batch is committed.
InsertReturns(t, ok) ==
    /\ GoTo(t, "idle")
    /\ failed' = IF ok THEN failed ELSE failed \cup {Current(t)}
    /\ IF inBatch[t]
       THEN /\ accepted' = IF ok THEN [accepted EXCEPT ![t] = @ \cup {Current(t)}]
                                 ELSE accepted
            /\ mustAbort' = [mustAbort EXCEPT ![t] = ~ok]
            /\ UNCHANGED acked
       ELSE /\ acked' = IF ok THEN acked \cup {Current(t)} ELSE acked
            /\ UNCHANGED <<accepted, mustAbort>>
    /\ UNCHANGED inBatch

\* A failing preludedb_transaction_start returns as it is, a successful one
\* has the flag to set; preludedb_transaction_end/abort clear it either way.
Return(t, ok) ==
    /\ ret' = [ret EXCEPT ![t] = ok]
    /\ CASE call[t] = "insert" -> InsertReturns(t, ok)
         [] call[t] = "start"  -> /\ GoTo(t, IF ok THEN "disable" ELSE "idle")
                                  /\ UNCHANGED replyVars
         [] OTHER              -> GoTo(t, "enable") /\ UNCHANGED replyVars
    /\ UNCHANGED <<call, msg, op>>

----------------------------------------------------------------------------
(* _preludedb_sql_transaction_start(). *)

StartLock(t) ==
    /\ At(t, "lock") /\ Lock(t)
    /\ GoTo(t, "begin")
    /\ UNCHANGED <<sessionVars, disabled, call, msg, op, ret, replyVars>>

\* Mutation: ALREADY_IN_TRANSACTION is returned with the mutex still locked.
StartRefusedLeaks(t) ==
    /\ At(t, "begin") /\ inTx
    /\ Return(t, FALSE)
    /\ UNCHANGED <<mutexVars, sessionVars, disabled>>

StartRefused(t) ==
    /\ At(t, "begin") /\ inTx
    /\ Unlock(t) /\ Return(t, FALSE)
    /\ UNCHANGED <<sessionVars, disabled>>

\* Mutation: the mutex covers the BEGIN statement only.
StartBeginUnlocks(t) ==
    /\ At(t, "begin") /\ ~inTx
    /\ \E ok \in BOOLEAN :
          /\ Query("BEGIN", {}, ok) /\ Unlock(t)
          /\ IF ok THEN GoTo(t, "mark") /\ UNCHANGED <<call, msg, op, ret, replyVars>>
                   ELSE Return(t, FALSE)
    /\ UNCHANGED disabled

\* Mutation: a BEGIN that fails returns with the mutex still locked.
StartBeginLeaks(t) ==
    /\ At(t, "begin") /\ ~inTx
    /\ \E ok \in BOOLEAN :
          /\ Query("BEGIN", {}, ok)
          /\ IF ok THEN GoTo(t, "mark") /\ UNCHANGED <<call, msg, op, ret, replyVars>>
                   ELSE Return(t, FALSE)
    /\ UNCHANGED <<mutexVars, disabled>>

StartBegin(t) ==
    /\ At(t, "begin") /\ ~inTx
    /\ \E ok \in BOOLEAN :
          /\ Query("BEGIN", {}, ok)
          /\ IF ok THEN /\ GoTo(t, "mark")
                        /\ UNCHANGED <<mutexVars, call, msg, op, ret, replyVars>>
                   ELSE Unlock(t) /\ Return(t, FALSE)
    /\ UNCHANGED disabled

StartMark(t) ==
    /\ At(t, "mark")
    /\ inTx' = TRUE
    /\ IF call[t] = "insert"
       THEN GoTo(t, "op") /\ UNCHANGED <<call, msg, op, ret, replyVars>>
       ELSE Return(t, TRUE)
    /\ UNCHANGED <<mutexVars, connected, srv, faults, disabled>>

----------------------------------------------------------------------------
(* _preludedb_sql_transaction_end(). *)

\* Mutation: COMMIT is sent without looking at the TRANSACTION bit.
EndCheckBlind(t) ==
    /\ At(t, "end_check")
    /\ GoTo(t, "commit")
    /\ UNCHANGED <<mutexVars, sessionVars, disabled, call, msg, op, ret, replyVars>>

EndCheck(t) ==
    /\ At(t, "end_check")
    /\ IF inTx
       THEN GoTo(t, "commit") /\ UNCHANGED <<call, msg, op, ret, replyVars>>
       ELSE Return(t, FALSE)
    /\ UNCHANGED <<mutexVars, sessionVars, disabled>>

\* Mutation: the result of COMMIT is not returned.
EndCommitBlind(t) ==
    /\ At(t, "commit") /\ Free(t)
    /\ \E ok \in BOOLEAN : Query("COMMIT", {}, ok)
    /\ ret' = [ret EXCEPT ![t] = TRUE]
    /\ GoTo(t, "end_clear")
    /\ UNCHANGED <<mutexVars, disabled, call, msg, op, replyVars>>

EndCommit(t) ==
    /\ At(t, "commit") /\ Free(t)
    /\ \E ok \in BOOLEAN :
          /\ Query("COMMIT", {}, ok)
          /\ ret' = [ret EXCEPT ![t] = ok]
    /\ GoTo(t, "end_clear")
    /\ UNCHANGED <<mutexVars, disabled, call, msg, op, replyVars>>

EndClear(t) ==
    /\ At(t, "end_clear")
    /\ inTx' = FALSE
    /\ GoTo(t, "unlock")
    /\ UNCHANGED <<mutexVars, connected, srv, faults, disabled,
                   call, msg, op, ret, replyVars>>

\* The last step of _preludedb_sql_transaction_end and _abort: nothing makes
\* sure the caller is the thread that locked the mutex.
FinalUnlock(t) ==
    /\ At(t, "unlock") /\ owner = t
    /\ Unlock(t) /\ Return(t, ret[t])
    /\ UNCHANGED <<sessionVars, disabled>>

\* gl_recursive_lock_unlock() aborts the process when the unlock fails.
UnlockAborts(t) ==
    /\ At(t, "unlock") /\ owner # t
    /\ aborted' = TRUE
    /\ UNCHANGED <<owner, depth, sessionVars, disabled, threadVars, replyVars>>

----------------------------------------------------------------------------
(* _preludedb_sql_transaction_abort(). *)

AbortCheck(t) ==
    /\ At(t, "abort_check")
    /\ IF inTx
       THEN GoTo(t, "abort_clear") /\ UNCHANGED <<call, msg, op, ret, replyVars>>
       ELSE Return(t, FALSE)
    /\ UNCHANGED <<mutexVars, sessionVars, disabled>>

AbortClear(t) ==
    /\ At(t, "abort_clear")
    /\ inTx' = FALSE
    /\ GoTo(t, "rollback")
    /\ UNCHANGED <<mutexVars, connected, srv, faults, disabled,
                   call, msg, op, ret, replyVars>>

\* Mutation: no ROLLBACK after an error, whether the session is open or not.
AbortRollbackSkipped(t) ==
    /\ At(t, "rollback")
    /\ ret' = [ret EXCEPT ![t] = FALSE]
    /\ GoTo(t, "unlock")
    /\ UNCHANGED <<mutexVars, sessionVars, disabled, call, msg, op, replyVars>>

\* No ROLLBACK when the thread has an error text and the session is closed:
\* the call then returns an error.  A failed insert_message stays failed
\* whatever its transaction_abort returns.
AbortRollback(t) ==
    /\ At(t, "rollback")
    /\ \/ /\ ~connected
          /\ ret' = [ret EXCEPT ![t] = FALSE]
          /\ UNCHANGED sessionVars
       \/ /\ Free(t)
          /\ \E ok \in BOOLEAN :
                /\ Query("ROLLBACK", {}, ok)
                /\ ret' = [ret EXCEPT ![t] = ok /\ call[t] # "insert"]
    /\ GoTo(t, "unlock")
    /\ UNCHANGED <<mutexVars, disabled, call, msg, op, replyVars>>

----------------------------------------------------------------------------
(* classic_insert(). *)

CallInsert(t) ==
    /\ At(t, "idle") /\ msg[t] < MaxMsgs
    /\ ~(Disciplined /\ mustAbort[t])
    /\ call' = [call EXCEPT ![t] = "insert"]
    /\ msg' = [msg EXCEPT ![t] = @ + 1]
    /\ op' = [op EXCEPT ![t] = 1]
    /\ GoTo(t, "start")
    /\ UNCHANGED <<mutexVars, sessionVars, disabled, ret, replyVars>>

\* Mutation: classic_insert starts no transaction of its own.
InsertStartAutocommit(t) ==
    /\ At(t, "start")
    /\ GoTo(t, "op")
    /\ UNCHANGED <<mutexVars, sessionVars, disabled, call, msg, op, ret, replyVars>>

\* preludedb_sql_transaction_start(): the flag is read without the mutex.
InsertStart(t) ==
    /\ At(t, "start")
    /\ GoTo(t, IF disabled THEN "op" ELSE "lock")
    /\ UNCHANGED <<mutexVars, sessionVars, disabled, call, msg, op, ret, replyVars>>

\* Mutation: no result is checked.
InsertOpUnchecked(t) ==
    /\ At(t, "op") /\ op[t] \in Ops /\ Free(t)
    /\ \E ok \in BOOLEAN :
          CASE Program[op[t]].kind = "escape" -> Escape(ok)
            [] Program[op[t]].kind = "insert" ->
                   Query("INSERT", {<<Current(t), op[t]>>}, ok)
            [] OTHER -> Query("SELECT", {}, ok)
    /\ op' = [op EXCEPT ![t] = @ + 1]
    /\ UNCHANGED <<mutexVars, disabled, pc, call, msg, ret, replyVars>>

\* One call of insert_heartbeat or insert_alert: an unchecked result is lost.
InsertOp(t) ==
    /\ At(t, "op") /\ op[t] \in Ops /\ Free(t)
    /\ \E ok \in BOOLEAN :
          /\ CASE Program[op[t]].kind = "escape" -> Escape(ok)
               [] Program[op[t]].kind = "insert" ->
                      Query("INSERT", {<<Current(t), op[t]>>}, ok)
               [] OTHER -> Query("SELECT", {}, ok)
          /\ IF ok \/ ~Program[op[t]].checked
             THEN op' = [op EXCEPT ![t] = @ + 1] /\ UNCHANGED pc
             ELSE GoTo(t, "abort") /\ UNCHANGED op
    /\ UNCHANGED <<mutexVars, disabled, call, msg, ret, replyVars>>

\* preludedb_sql_transaction_end() with internal transactions disabled
\* returns success.
InsertEnd(t) ==
    /\ At(t, "op") /\ op[t] \notin Ops
    /\ IF disabled
       THEN Return(t, TRUE)
       ELSE GoTo(t, "end_check") /\ UNCHANGED <<call, msg, op, ret, replyVars>>
    /\ UNCHANGED <<mutexVars, sessionVars, disabled>>

\* ... and so does preludedb_sql_transaction_abort(): the error of the
\* failing statement is what insert_message returns.
InsertAbort(t) ==
    /\ At(t, "abort")
    /\ IF disabled
       THEN Return(t, FALSE)
       ELSE GoTo(t, "abort_check") /\ UNCHANGED <<call, msg, op, ret, replyVars>>
    /\ UNCHANGED <<mutexVars, sessionVars, disabled>>

----------------------------------------------------------------------------
(* preludedb_transaction_start(), _end() and _abort().  A disciplined caller *)
(* aborts the batch once an insertion failed, as preludedb-admin does; it    *)
(* may otherwise call them in any order, nested or unmatched.                *)

EntryOf == [start |-> "lock", end |-> "end_check", abort |-> "abort_check"]

CallTransaction(t) ==
    /\ At(t, "idle")
    /\ \E f \in IF Disciplined /\ mustAbort[t] THEN {"abort"} ELSE DOMAIN EntryOf :
          /\ call' = [call EXCEPT ![t] = f]
          /\ GoTo(t, EntryOf[f])
    /\ UNCHANGED <<mutexVars, sessionVars, disabled, msg, op, ret, replyVars>>

DisableInternal(t) ==
    /\ At(t, "disable")
    /\ disabled' = TRUE
    /\ inBatch' = [inBatch EXCEPT ![t] = TRUE]
    /\ GoTo(t, "idle")
    /\ UNCHANGED <<mutexVars, sessionVars, call, msg, op, ret,
                   accepted, mustAbort, acked, failed>>

\* What the caller learns: transaction_end returning 0 acknowledges the batch.
EnableInternal(t) ==
    /\ At(t, "enable")
    /\ disabled' = FALSE
    /\ inBatch' = [inBatch EXCEPT ![t] = FALSE]
    /\ accepted' = [accepted EXCEPT ![t] = {}]
    /\ mustAbort' = [mustAbort EXCEPT ![t] = FALSE]
    /\ acked' = IF call[t] = "end" /\ ret[t] THEN acked \cup accepted[t] ELSE acked
    /\ failed' = IF call[t] = "end" /\ ret[t] THEN failed ELSE failed \cup accepted[t]
    /\ GoTo(t, "idle")
    /\ UNCHANGED <<mutexVars, sessionVars, call, msg, op, ret>>

----------------------------------------------------------------------------
(* A SELECT outside any transaction, from a thread of its own. *)

ReadQuery(t) ==
    /\ At(t, "idle") /\ Free(t)
    /\ \E ok \in BOOLEAN : Query("SELECT", {}, ok)
    /\ UNCHANGED <<mutexVars, disabled, threadVars, replyVars>>

----------------------------------------------------------------------------
Init ==
    /\ owner = NoThread /\ depth = 0 /\ aborted = FALSE
    /\ connected = FALSE /\ inTx = FALSE /\ disabled = FALSE
    /\ backend \in Backends
    /\ srv = [up |-> FALSE, tx |-> "none", pending |-> {}, durable |-> {}]
    /\ faults = 0
    /\ pc = [t \in Threads |-> "idle"]
    /\ call = [t \in Threads |-> "insert"]
    /\ msg = [t \in Threads |-> 0] /\ op = [t \in Threads |-> 1]
    /\ ret = [t \in Threads |-> TRUE]
    /\ inBatch = [t \in Threads |-> FALSE]
    /\ accepted = [t \in Threads |-> {}]
    /\ mustAbort = [t \in Threads |-> FALSE]
    /\ acked = {} /\ failed = {}

\* A step inside a library call: the steps the scheduler must not starve.
Proceed(t) ==
    \/ InsertStart(t) \/ InsertOp(t) \/ InsertEnd(t) \/ InsertAbort(t)
    \/ StartLock(t) \/ StartRefused(t) \/ StartBegin(t) \/ StartMark(t)
    \/ EndCheck(t) \/ EndCommit(t) \/ EndClear(t) \/ FinalUnlock(t) \/ UnlockAborts(t)
    \/ AbortCheck(t) \/ AbortClear(t) \/ AbortRollback(t)
    \/ DisableInternal(t) \/ EnableInternal(t)

Finished == \A t \in Writers : pc[t] = "idle" /\ msg[t] = MaxMsgs /\ ~inBatch[t]

\* Every writer has inserted its messages: the process goes on without us.
Terminated == Finished /\ UNCHANGED vars

Next ==
    \/ /\ \/ \E t \in Writers : CallInsert(t) \/ Proceed(t)
          \/ \E t \in Batchers : CallTransaction(t)
          \/ \E t \in Readers : ReadQuery(t)
          \/ ConnectionLost
       /\ UNCHANGED backend
    \/ Terminated

Spec == Init /\ [][Next]_vars
FairSpec == Spec /\ \A t \in Writers : WF_vars(Proceed(t) /\ UNCHANGED backend)

----------------------------------------------------------------------------
(* Properties. *)

Labels == {"idle", "start", "lock", "begin", "mark", "op", "abort", "end_check",
           "commit", "end_clear", "unlock", "abort_check", "abort_clear",
           "rollback", "disable", "enable"}

SessionOK ==
    /\ connected \in BOOLEAN /\ inTx \in BOOLEAN
    /\ srv \in Server /\ faults \in 0..MaxFaults
    /\ ~connected => ~srv.up
    /\ ~srv.up => srv.tx = "none"
    /\ srv.tx = "none" => srv.pending = {}

\* Every variable keeps its type; the mutex is held exactly while its depth
\* is positive, and a closed session has no server end.
TypeOK ==
    /\ owner \in Writers \cup {NoThread} /\ depth \in Nat
    /\ (owner = NoThread) <=> (depth = 0)
    /\ disabled \in BOOLEAN /\ aborted \in BOOLEAN
    /\ backend \in Backends
    /\ SessionOK
    /\ pc \in [Threads -> Labels]
    /\ call \in [Threads -> {"insert", "start", "end", "abort"}]
    /\ msg \in [Threads -> 0..MaxMsgs] /\ op \in [Threads -> 1..(NumOps + 1)]
    /\ ret \in [Threads -> BOOLEAN] /\ inBatch \in [Threads -> BOOLEAN]
    /\ accepted \in [Threads -> SUBSET Messages]
    /\ mustAbort \in [Threads -> BOOLEAN]
    /\ acked \subseteq Messages /\ failed \subseteq Messages

\* preludedb.c:373, "Returns: 0 on success": a message whose insertion (or
\* whose batch) was reported successful has every one of its rows committed.
AckedStored == \A m \in acked : RowsOf(m) \subseteq srv.durable

\* NEWS:418, "the mutex won't be released until the transaction is over": a
\* transaction, as the TRANSACTION bit or the server sees it, always has an
\* owner of the mutex, and holds rows of that thread only; nobody else can
\* then read them uncommitted, or commit them.
TransactionUnderMutex ==
    /\ inTx \/ srv.tx # "none" => owner # NoThread
    /\ \A r \in srv.pending : r[1][1] = owner

\* The converse: once insert_message has returned, or the batch is closed,
\* the thread no longer holds the mutex that the other threads wait for.
MutexReleased ==
    \A t \in Writers : owner = t => pc[t] # "idle" \/ inBatch[t]

\* No statement of an insertion takes effect on its own (autocommit): rows
\* become durable only in a COMMIT issued by _preludedb_sql_transaction_end.
DurableOnlyByCommit ==
    [][srv'.durable # srv.durable => \E t \in Writers : pc[t] = "commit"]_vars

\* A thread never unlocks a mutex it does not hold, which would abort() the
\* process in gl_recursive_lock_unlock().
NeverAborts == ~aborted

\* Every insert_message returns, whatever fails and whoever holds the mutex.
EveryInsertReturns == \A t \in Writers : (pc[t] = "start") ~> (pc[t] = "idle")

\* Once the faults have stopped and the client's idea of the session is
\* right, the next insertion is stored: no failure leaves the shared sql
\* object or the server session in a state that rejects messages for ever.
RecoversAfterFaults ==
    \A m \in Messages :
        (/\ faults = MaxFaults /\ (connected => srv.up)
         /\ pc[m[1]] = "start" /\ msg[m[1]] = m[2]) ~> (m \in acked)

\* What insert_message promises its caller, see AtomicStore.
Store == INSTANCE AtomicStore WITH
    Rows <- [m \in Messages |-> RowsOf(m)],
    rows <- srv.durable

InsertIsAtomic == Store!Spec
=============================================================================
