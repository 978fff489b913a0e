# A TLA+ verification of libpreludedb

libpreludedb stores IDMEF messages (alerts and heartbeats) in an SQL database
and gives them back. This directory models the parts of it whose correctness
depends on order, failure and sharing; TLC checks the models on small instances
and TLAPS proves the central results for every value of the constants.

Paths below are relative to the repository; `src/...` is the library,
`plugins/...` the SQL and format plugins, `preludedb-admin.c` the tool.

## 1. Inventory

| Component | State | Operations |
|---|---|---|
| SQL session (`src/preludedb-sql.c`) | one recursive mutex, the status bits CONNECTED and TRANSACTION, `internal_transaction_disabled`, the plugin's session, a reference count | connect, query, escape, unescape, transaction start/end/abort (internal and public), get_last_insert_ident |
| Tables, rows, fields (`src/preludedb-sql.c`, `plugins/sql/*`) | per result: row cache, `nrow`, `done`, row count, the client library's cursor, reference counts of table, row and field | get_row, fetch_row, get_row_count, get_field, ref/destroy, and each plugin's fetch_row |
| Insertion, classic format (`plugins/format/classic/classic-insert.c`) | none of its own: the rows it writes | insert_alert, insert_heartbeat and one function per IDMEF class, inside one transaction |
| Retrieval, classic format (`classic-get.c`) | none | one query per class, rows ordered by index, mapped to IDMEF objects |
| Deletion (`classic-delete.c`, `src/preludedb-plugin-format.c`) | none | delete one message, a list, or the idents of a result |
| Database handle (`src/preludedb.c`) | reference counts of handle, sql object and results; the loaded format plugin | new/destroy, insert/get/delete message, result idents and values, transaction_start/end/abort |
| preludedb-admin (`preludedb-admin.c`) | counters of the run, open transactions on two databases, `delete_tbl` | copy, move, load, save, delete, in transactions of `events_per_transaction` messages |
| Path selection, SELECT building (`src/preludedb-path-selection.c`, `src/preludedb-sql-select.c`) | selected paths and their column positions | parse, add, build a SELECT, find a value's columns |
| Path resolution, joins, values (`classic-path-resolve.c`, `classic-sql-join.c`, `classic.c`) | the joined tables of one query | resolve a path to a column, find or add its join, read a value, update |
| Criteria, field conversion, settings (`src/preludedb-sql.c`, `src/preludedb-sql-settings.c`) | none | build a WHERE clause, escape LIKE patterns, field_to_*, parse `name=value` settings |
| Plugin interfaces (`src/preludedb-plugin-*.c`) | a table of callbacks | dispatch |
| Bindings (`bindings/c++`, `bindings/python`) | one reference per handle | construct, copy, assign and destroy handles, get rows and values, delete from a result |
| Grammar of path selections, error tables, vendored gnulib | – | – |

How they interact: every SQL statement of every component goes through
`preludedb_sql_query`, which takes the session's mutex; `insert_message` wraps
its statements in `preludedb_sql_transaction_start` / `_end` / `_abort`, which
keep the recursive mutex from BEGIN to COMMIT; the public
`preludedb_transaction_*` calls do the same around several insertions and set a
flag that turns the inner calls into no-ops. The database server is a second
party: it can refuse a statement or lose the connection at any statement.

What is hard:

* several threads share one session, and parts of the transaction calls read or
  write shared state without the mutex;
* the client's view of the session (CONNECTED, TRANSACTION) and the server's
  (is there a session, is a transaction open, is it doomed) drift apart when a
  connection is lost, and are put together again by a silent reconnection;
* an insertion is many statements, each of which may fail, and some results are
  not looked at;
* the three servers differ: MySQL commits implicitly at BEGIN, PostgreSQL dooms
  a transaction after one error, SQLite refuses a nested BEGIN;
* idents are read back with `SELECT max(_ident)`, rows are cached by index,
  batches are cut by counters: off-by-one and stale-state hazards.

`PROJECT.json` lists each hazard at its line.

Properties that make each component correct: (session) no transaction without
the mutex, no mutex left behind, no unlock by a non-owner, recovery after
faults; (insertion) atomic and truthful outcomes; (retrieval and deletion) what
was inserted is what is read, and deletion removes all of a message and nothing
else; (tables) a row is what the server sent for that index, reference counts
balance; (admin) copied messages are in the destination, a moved message is
always in at least one database; (paths) the value read for a path comes from
the columns selected for it.

## 2. Plan

| Order | Module | Models | Runs | Theorems |
|---|---|---|---|---|
| 1 (done) | `SqlSession`, `AtomicStore` | session, transactions, insertion | 4 | `SqlSessionProofs` |
| 2 (done) | `AdminBatch` | the batch commands of preludedb-admin with failures, signals, resumption | 2 | `PickedProofs`, `AdminBatchProofs`, `AdminDoneProofs` |
| 3 (done) | `ClassicRows`, `ClassicStore` | the rows the classic format writes, reads and deletes for a message, the rows a path selects, idents taken by several sessions | 5 | `ClassicStoreProofs` |
| 4 (done) | `ResultTable` | result tables, the three fetch_row, reference counts of every object, deletion from result idents | 2 | `ResultTableProofs`, `ResultRowsProofs` |
| 5 (done) | `ValueQuery` | selections, their columns, joins, GROUP and ORDER BY, criteria, reading values | 3 | `ValueQueryProofs` |
| 6 | `SettingsText` | the `name=value` parser and its quoting, LIKE escaping, the ranges of field_to_* | 1 | range lemmas |

`AtomicStore` is the abstract specification of an insertion and `SqlSession` is
shown to implement it; the promises of the other modules relate their state to
what the program was told, and are invariants. Constants have named assumptions,
there is one action per operation, and no module that theorems are about reaches
a RECURSIVE operator. An `MC` module beside each model gives its constants values
for TLC.

## 3. The models

### Session and insertion (`SqlSession`, `AtomicStore`)

`SqlSession` models one `preludedb_sql_t` shared by the threads of a process.

State and code:

| Variable | Code |
|---|---|
| `owner`, `depth`, `aborted` | `sql->mutex`, a recursive lock; `gl_recursive_lock_unlock` calls `abort()` when the unlock fails |
| `connected`, `inTx` | the bits of `sql->status` |
| `disabled` | `sql->internal_transaction_disabled` |
| `srv` | the server: is the client's session alive, its transaction (none, open, doomed), rows written in it (`pending`), rows committed (`durable`) |
| `pc`, `call`, `msg`, `op`, `ret` | where a thread stands, in which call, for which message and statement, and the return code it holds |
| `inBatch`, `accepted`, `mustAbort`, `acked`, `failed` | what the callers were told |

One action is one uninterrupted step: a whole statement (lock, connect if
needed, execute, update the status, unlock) or one unlocked read or write.
`StartLock`, `StartRefused`, `StartBegin`, `StartMark` are
`_preludedb_sql_transaction_start`; `EndCheck`, `EndCommit`, `EndClear`,
`FinalUnlock` (or `UnlockAborts`) are `_preludedb_sql_transaction_end`;
`AbortCheck`, `AbortClear`, `AbortRollback` are the abort call; `CallInsert`,
`InsertStart`, `InsertOp`, `InsertEnd`, `InsertAbort` are `classic_insert`;
`CallTransaction`, `DisableInternal`, `EnableInternal` are the public calls.
`Query` has the outcomes of `preludedb_sql_query`: opening a session fails; the
server answers, with success or an error; or the connection is found dead or
dies between execution and answer.

An insertion is a `Program`: a list of calls, each an escape, an INSERT or a
SELECT, with a flag saying whether the code looks at its result.
`MCSqlSession` gives the lists of a heartbeat (all checked) and of alerts whose
classification has no reference (`classic-insert.c:1342` overwrites the result).
They are shortened: the messages have two rows, enough to tell a part from the
whole.

The servers are external and modelled from how the plugins use them: MySQL
commits an open transaction at BEGIN, PostgreSQL answers COMMIT of a doomed
transaction with success after rolling back, SQLite refuses BEGIN inside a
transaction and COMMIT or ROLLBACK outside. A failed COMMIT ends the
transaction; ROLLBACK is not refused inside one. The sqlite3 plugin returns no
connection error and sets a busy timeout of INT_MAX, so its COMMIT is not
refused. These are assumptions about the servers, not facts of this repository.

`AtomicStore` is the abstract specification: a message is stored whole in one
step, acknowledged only when stored, and not stored after it was reported
failed. `InsertIsAtomic` says that `SqlSession` implements it, with
`rows <- srv.durable`.

### The batch commands (`AdminBatch`)

One process runs one command, chosen with its options at the start. `limit_copy`,
`offset_copy`, `cur_count`, `event_no`, `idents`, `ident_idx`, `delete_tbl`,
`ret` and `stop_processing` are the variables of `preludedb-admin.c`; `opt` is
the command line; `db` holds, for the source and the destination, what the
process's session sees (`now`) and what is committed (`kept`), which differ only
inside a transaction of the public API. `output` and `missed` record what save
and print wrote and what save could not read.

| Action | Code |
|---|---|
| `Start`, `Finish` | `transaction_start`, `transaction_end`, the end of the process |
| `Fetch` | `fetch_message_idents_limited` and the LIMIT and OFFSET it asks for |
| `CopyMessage`, `TrackDeletion`, `EndOfBatch`, `DeleteRest` | `copy_iterate` |
| `IdentFails` | `preludedb_result_idents_get` fails in the loop of `copy_iterate`, `save_iterate_message` or `print_iterate_message`: a copy flushes and deletes what it has gone through and then stops, a print stops, a save does not look |
| `Flush` (and `FlushIfNeeded`) | `flush_transaction_if_needed` |
| `Erase` | the deletion of a batch in `cmd_delete` |
| `Emit` | `save_iterate_message`, `print_iterate_message` |
| `OpenFile`, `NoMoreFiles`, `EndOfFile`, `SkipMessage`, `LoadMessage` | `cmd_load`, `load_from_file`, `do_read_message` |
| `Signal`, `Resume` | `handle_signal`; the user running the command again from the offset `main` prints |
| `Arrive` | a manager inserting into the source meanwhile |

Each database call may fail. A failed insertion or deletion leaves part of its
rows in an open transaction and nothing outside one (there its own transaction
is rolled back). Failures of BEGIN and COMMIT, which the code drops, are
remembered in `ignored`: the properties that cannot survive them say so. The
properties speak of what is committed at every moment, so killing the process
between any two steps needs no action of its own. The source returns idents in
order (the query has no ORDER BY; the engines walk the primary key), and no
other process deletes from the source meanwhile: a copy pages by offset and
would skip messages then.

### Rows, idents, retrieval and paths (`ClassicRows`, `ClassicStore`)

`ClassicRows` has one operator per function of `classic-insert.c` and
`classic-get.c`, under its name, and the operators behind deletions and joins.
An IDMEF object is a record: `v` stands for its scalar attributes, an optional
child is a set of at most one object, a list is a sequence. `IsMessage` says
which classes a message is built of, as libprelude's accessors give them. A row is its table
and the columns that identify it: `_parent_type`, `_message_ident`, the
`_parentN_index` columns, `_index`; `v` is the rest of it. `Listed` is the loop
that numbers a list and stores its last element again under -1, `Numbered` the
loop that does not (process arguments and environment, alert idents of a tool
alert). Reading numbers the children of a list by counting the rows of their
parents, as the code does. `Char` is the `char` that `get_process_arg` takes its
parent's index through, of `2 * CharHalf` values.

Some errors of a read are swallowed, and each function takes them as an argument
`e`. `get_service` returns 0 when its query fails, as it does when there is no
service. The loops of `get_source`, `get_target` and `get_file` end on 0 and on
an error alike, and what follows overwrites `ret`: when fetching a row fails
after the first one, which only the sqlite3 plugin can report, the rest of the
list is lost (`Reached`). `LostErrors` is what may be swallowed while one part of
a message is read; every other failing query ends the read (`ReadFails`).

`join_rows` is the LEFT JOIN made for a path: the table (`resolve_table_name`),
`_parent_type`, the constraints on the index columns (`resolve_indexes`,
`add_index_constraint`: an index is asked for with `=`, a list without an index
leaves out the copy under -1).

`ClassicStore` runs them in time. `w[s]` is the transaction of session `s`:
`InsertFirstRow`, `get_last_insert_ident` (`SELECT max(_ident)`, of what is
committed and of its own rows), `InsertRest`, `Commit`, `Abort`. `Delete` is one
transaction. The reader takes the parts of a message one by one (`StartRead`,
`ReadHead`, `ReadPart`, `ReadFails`, `EndRead`), and anything may happen in
between; `rd.partial` remembers the parts that an error was swallowed in. `stored` records the messages whose insertion reported success and
that were not deleted.

Assumed of the servers: an ident is never given twice; a SELECT sees what is
committed and its own transaction (under MySQL's REPEATABLE READ the snapshot is
taken by the `SELECT max`, the first SELECT of the transaction, which comes to
the same); a row whose key is committed is refused, and one whose key an open
transaction holds waits for it. The rows after the first are written in one
step, so deadlocks between two sessions waiting for each other's rows are not
represented. SQLite admits one writer at a time: two sessions stand for MySQL
and PostgreSQL. The plugins of these two answer a SELECT that finds nothing with
no table, the sqlite3 plugin with an empty one (`empty_tables`): two functions of
`classic-get.c` do not look further, and `ReadHead`, `get_assessment` and
`AsRead` say what comes of it.

### Result tables and handles (`ResultTable`)

One program uses the C++ classes, each method of which takes and gives back
references of the C library; other threads run queries on the same session
(`OtherQuery`). `refs` holds the reference count of every object and `own` how
many of these references the program has, so that counts and references that
exist can be compared. `tab` and `data` are a result table: the size of the
answer, `nrow`, `done`, `row_count`, the cursor of the client library and the
server's row behind each cached row. A result of idents or of values is built on
a table and dies with it.

| Definition | Code |
|---|---|
| `sql_ref` … `result_destroy` | the `_ref` and `_destroy` functions, with what a last release gives back; a row keeps its table alive once somebody besides the cache holds it |
| `QueryOnSession`, `table_new` | `preludedb_sql_query` and the table it returns; only sqlite3 returns one without rows |
| `mysql_fetch_row`, `pgsql_fetch_row`, `sqlite3_fetch_row` | `sql_fetch_row` of the plugins: MySQL and SQLite step through the answer and cache every row on the way, PostgreSQL takes any row |
| `get_row` | `preludedb_sql_table_get_row`, with its three answers |
| `SqlNew` … `DestroyRow`, `CopyResult`, `DestroyResult` | constructors, copies and destructors of `SQL`, `DB`, `Table`, `Row`, `ResultIdents`, `ResultValues`; `CopySql` and `CopyDb` by assignment (`operator=`, which takes a reference) and, with `ImplicitCopies`, by construction |
| `DbNew` | `preludedb_new` with both ways it fails; `lost` counts the references it then does not give back |
| `TableGet`, `ResultGet`, `GetRowCount` | reading a row, an ident or values, and the count (emulated for SQLite) |
| `DeleteStart`, `get_string_from_result_ident`, `do_delete` | `classic_delete_alert_from_result_idents`: one action per turn of its loop |

`SQL` and `DB` declare a destructor and `operator=` and no copy constructor
(`preludedb-sql.hxx:78-81`, `preludedb.hxx:77-79`): `DB d2(d1)` copies the
pointer, takes no reference, and two destructors give one back. With
`ImplicitCopies` the model has this copy, and `HeldAlive` fails: make `d2(d1)`,
take a result from one, destroy both, and the result has lost its db. The run and
the theorems are about programs that copy these two by assignment. The model means nothing past the release of an object that is gone.

A table counts its references in 16 bits (`preludedb-sql.c:112`), and each row
held by the program is one of them: `AsCount` keeps the count modulo
`TableCounts`, 65536 in the code. Nothing in the code stops a program from
holding more; `MaxHeld` handles of a table and `MaxRowsHeld` rows of it are the
program's bounds here, and the theorems ask that the count can tell them. The
other counts (an int for session, db and result, an unsigned int for a
selection, 32 bits for a row) are taken as unbounded.

What the model says of the client libraries: `mysql_errno` reports the last
query of the session, whoever made it, and after a close it is a read of freed
memory (both answers are then possible); a SQLite statement that fails or ends
starts over at the next step. The loop of a deletion is followed up to
`LongList` turns, after which its index moves between the last two values, so
that a loop that never ends is a cycle TLC finds. `jumped` remembers that a
program asked for a row before the ones in front of it.

Conditions that the properties name: `EndMeansRead` and `DeletesWhatWasRead`
leave out a PostgreSQL table whose rows were asked for out of order, since asking
past its end then hides the rows never fetched; `DeletesWhatWasRead` leaves out a
loop that met an error, which the code counts as another ident. With
`ScanErrors` a SQLite statement may fail after it returned rows; the run has it
FALSE because the count kept by `preludedb_sql_table_get_row_count` is then
short and the answer restarts from its first row: `CountRight` and `RowsInPlace`
do not hold. Query and fetch are atomic. The counts themselves are incremented
and decremented without any lock in the code; the model has one thread that
does so.

### Selections, joins, criteria and values (`ValueQuery`)

`selection` is a `preludedb_path_selection_t`: objects, each with the position
and column count given when it was added. A query is built in steps, as the code
does: `classic_get_values` or `get_message_idents` begin it, `AddSelected` is a
turn of the loop that adds the columns of a selected path, `classic_path_resolve_criterion`
adds a criterion, and `RunQuery` leaves in `result` what a row of the answer
consists of. `Refuse` is the error return. The program may add paths before a
query, after it and after reading from it.

A path is a record of what the code asks libprelude about it (its message, the
object it is a field of, that object's class, its depth, the type of its value,
whether it is a list); columns remember for which object they were written.
`classic_get_path_column_count` is how many columns the selection counts;
`resolve_field_name` is how many the resolver writes; `get_value` is how many are
read. `classic_path_resolve`, with `classic_sql_join_lookup_table` and
`classic_sql_join_new_table`, finds the table of a field. The WHERE clause is a
sequence of words: tests of a field, AND, OR, NOT and parentheses; `Sql` gives it
the meaning SQL does, with AND before OR and the unknown truth of NULL, and
`Matches` is what the criteria say of the same row.

Conditions: `ValuesOwn` and `OptionsRight` stop at a time of an inode (counted
as two columns, written as one: the `values_shift` run). `TablesRight` leaves out
a field whose object had a list joined before it: `process.arg(0)` selected
before `process.name` makes the lookup take the arguments' table for the name,
which that table does not have, and the server refuses the query. `TablesRight`
also says nothing of fields in the message's own table; `values_top` is about
these. The truth of criteria is checked for operators of equality, NULL tests and
broken-down times; the others differ in one test each.

## 4. Runs

| Run | Instance | Shows |
|---|---|---|
| `insert` | 2 inserting threads, 2 messages each, 1 reader, all three backends, 2 faults of any kind, fairness | types, `TransactionUnderMutex`, `MutexReleased`, `DurableOnlyByCommit`, refinement of `AtomicStore`, and the liveness properties `EveryInsertReturns`, `RecoversAfterFaults` |
| `batch` | 1 thread with up to 3 messages and the public calls in any order, 1 reader, all backends, 2 faults | `AckedStored` for whole batches, mutex balance (`MutexReleased`, `NeverAborts`) |
| `alert_leak` | 2 alerts, 1 lost connection | violation: `insert_message` returns with the mutex locked |
| `batch_race_lost` | 1 batching and 1 inserting thread, no fault | violation: success for a message that is not committed |
| `admin` | every command, 5 messages and 1 arriving, one not selected, transactions of 1 to 4 messages with a deletion table of 4, with and without `--count` and `--offset`, one file or two, 3 faults | order, completeness and exactly-once of what is committed (`CommittedInOrder`, `CommandCompletes`), `NothingLost`, `InsertedWhole`, `KeepsTheRest`, `CountRespected`, `TransactionBounded`, `DeleteTableFits`, `EveryCommandEnds` |
| `move_lost` | a move, 1 failed COMMIT | violation: messages in neither database |
| `rows` | five messages (three alerts, two heartbeats) with lists of two at every level, idents 1 and 2 of each kind; one session inserting with a program deleting and one reading, on both kinds of engine; two sessions inserting | `StoredExactly`, `KeysHold`, `ReadIsExact`, `PathsSelect` |
| `rows_race` | two sessions inserting, a program deleting | violation: a message reported inserted has its rows under another ident |
| `results` | answers of up to 3 rows, one result at a time, 2 handles per object and 3 rows held, a table count of 7 values, 1 refused query or lost connection, 3 client libraries, other threads querying | `RefsExact`, `HeldAlive`, `RowsInPlace`, `EndMeansRead`, `CountRight`, `DeletesWhatWasRead`, `DeletionEnds` |
| `values` | 12 paths, 19 objects, 3 selected objects and criteria together, all trees of up to 3 criteria with 5 tests | `ValuesOwn`, `OptionsRight`, `TablesRight`, `CriteriaMean` |
| `values_top` | the same | violation: `alert.messageid` is selected from the heartbeats |
| `values_shift` | the same | violation: an object after an inode's time is read from the wrong column |

Bounds. `MaxMsgs` and `MaxFaults` bound the messages of a thread and the faults
of a behaviour; nothing else is unbounded. Two faults reach a fault during the
handling of another (a lost connection found by ROLLBACK, a refused BEGIN after
a lost COMMIT); two messages per thread reach the reuse of a session left by a
failed insertion; two threads and a reader reach every pairing at the mutex.
The batch run needs three messages: two in one batch and one in the next.

In `admin`, five messages and transactions of one to four reach every relation
of batch, transaction and remainder (equal, divisor, larger); a table of four
makes the deletion inside the loop of `copy_iterate` reachable with the largest
transaction; three faults reach two interruptions and a failure in the last run.
Of `--events-per-transaction 0` nothing is checked: the commands that fetch
idents then ask for LIMIT 0, do nothing and report success.

In `rows`, every object has a name of its own, so one that is returned in the
wrong place, twice or not at all is told apart; lists of two with children under
one of the elements only separate the -1 copy, the order and the parent indexes;
two idents of each kind make alerts and heartbeats share idents and two messages
of a kind stand side by side. The paths are all combinations of no index, -1, 0
and 1 on the lists of all classes, with three exceptions where the code answers
otherwise: -1 on a list without such a copy selects nothing;
`file_access(i).permission(j)` ignores `i`; process arguments are looked up
through a `char` and are wrong from the 129th source or target on, which lists of
two do not reach (with `CharHalf` 2 a third source would).
`ReadIsExact` says that a failing query is an error or costs no more than a
service or the end of a list of sources, targets or files: nothing is attached to
another element, and no other part is missing. That a read which reports success
has found everything, as the comment of `preludedb_get_alert` has it
(`src/preludedb.c:618`), is not so: one failing query on `Prelude_Service` is
enough (`classic-get.c:695`). `ReadIsExact` says nothing of a read during which
its own message is committed or deleted: dozens of queries without a transaction
then return a mixture. `rows` has no session inserting next to another *and* a
deletion, because that is where `rows_race` finds `StoredExactly` broken.

In `results`, three rows are the first, a middle and the last one; two handles
reach a copy that outlives its original; one result at a time is enough because
results share only the session and the db, which other threads and the handles of
the program hold too, and a place is used again after its result is gone. A count
of seven values is the smallest that two handles and three rows of a table, with
the reference of a result, do not wrap. One fault reaches a stale `mysql_errno`, a lost session and a failed `preludedb_new`.
In `values`, the paths have two attributes of one object, a list of it, a time
with and without microseconds, an inode's time, additional data and both kinds of
message; three objects reach a table joined before, a shift by one column and a
number of GROUP BY past a wide object; three criteria reach every nesting of AND
and OR in two levels.

Fairness. `ResultTable` assumes that a deletion inside the library goes on
(`DeletionEnds` is conditional: the session must at last stop reporting an error,
for the loop takes errors for idents until then). `ValueQuery` states no
liveness. `AdminBatch` assumes weak fairness of the command's own steps; nobody
has to signal, resume or feed it. `EveryCommandEnds` rests on the faults being
finitely many: save fetches again a message it could not read and would do so
for ever if the last message can never be read.

`FairSpec` of `SqlSession` assumes weak fairness of each writer's step inside a
library call: the thread is scheduled, and a statement returns. Nothing is
assumed of callers, of readers, of the mutex (there is no strong fairness:
a writer that waits for a mutex gets it because the holder must finish and each
writer has finitely many messages) or of the network. With unboundedly many
messages of the others a waiting thread could starve on an unfair lock: the
liveness result is about leaked mutexes and stuck sessions, not lock fairness.

`batch` assumes a caller that aborts a batch once an insertion in it failed
(`Disciplined`), as preludedb-admin does. A caller that goes on gets success
from `preludedb_transaction_end` for messages the server rolled back, when the
connection was lost inside the batch (COMMIT is then sent on a fresh session)
or when PostgreSQL doomed the transaction; setting `Disciplined = FALSE` in
`Batch.cfg` shows it.

The two interfaces together, batches of one thread and insertions of another on
one handle, keep only what `MutexCoversTransactions` proves: an insertion that
reads `internal_transaction_disabled` while another thread's batch is open runs
later statements outside any transaction (`DurableOnlyByCommit` fails), may skip
its COMMIT (`batch_race_lost`), and either thread may unlock a mutex it does not
hold, which calls `abort()`.

Behaviours of the code that the models contain and no run singles out:

* an alert whose classification the server refuses is committed without it,
  since `classic-insert.c:1342` drops the result, and `insert_message` returns
  success;
* `--count` of a load is compared with a counter that advances only when a
  transaction of `events_per_transaction` messages is complete
  (`preludedb-admin.c:990`): it may be exceeded by nearly that many, so
  `CountRespected` is about the other commands;
* a read of a message nobody touches can report success and lack a service, when
  its query fails (`classic-get.c:695`), or the end of a list of sources, targets
  or files, when fetching its rows does (lines 1464, 1531, 1365);
* the destructor of an `SQL` or `DB` copied by construction frees what the
  original still holds; setting `ImplicitCopies = TRUE` in `Results.cfg` shows it
  within three steps;
* the offset printed by an interrupted move or deletion counts messages that
  have left the source, so resuming with it skips as many: in `admin` copies and
  loads are resumed.

## 5. Proofs

`SqlSessionProofs` is about `SqlSession` with any threads, any backend, any
program, any number of messages and faults:

* `TypeCorrect`: `Spec => []TypeOK`. `TypeInv` strengthens it: a thread between
  lock and BEGIN owns the mutex (else the depth could drop below zero) and a
  thread inside `insert_message` has a message.
* `MutexCoversTransactions`: `Spec => []TransactionUnderMutex`, also with racing
  batches and undisciplined callers. The inductive invariant adds
  `NoTransactionLeft`: the owner about to give up its last lock has neither the
  TRANSACTION bit nor a transaction on the server. It rests on
  `QueryOnTransaction`: COMMIT and ROLLBACK end the transaction whatever the
  outcome, and no statement sets the bit.

Its second half is about processes that use no public transaction and insert
messages whose statements are all checked (`CheckedInsertions`; the violation
runs show that neither condition can be dropped):

* `InsertionIsAtomic`: the specification implements `AtomicStore` (initial
  states map to initial states, each step to a step or a stutter).
* `SuccessMeansStored` (`AckedStored`), `MutexGivenBack` (`MutexReleased`),
  `NoUnlockAborts` (`NeverAborts`), `OnlyCommitStores` (`DurableOnlyByCommit`).

The argument is one inductive invariant, `InsertInv`, per thread: it owns the
mutex exactly at the labels in `Holding`; while it does, the TRANSACTION bit is
set exactly at the labels in `Marked`, and as long as every statement succeeded
the session is connected and, if the server still has it, its open transaction
holds exactly the rows sent so far; a success about to be returned is stored.
Commit then stores the message whole, and a message in flight has no reply yet.

`ValueQueryProofs` is about `ValueQuery` with any paths, objects, criteria and
number of them:

* `ReadsOwnColumns`: `Spec => []ValuesOwn`; `TypeCorrect`: `Spec => []TypeOK`,
  which includes that every joined table is of the top table's class.
* The inductive invariant `QueryInv` adds three parts. `SelectionOK`: positions
  start at 0, each is the one before plus its column count, none overlaps.
  `BuildOK`: after n turns of the loop, the SELECT has as many columns as the
  position of object n + 1 says and each object's columns stand at its position,
  provided no miscounted object is among them. `ResultOK`: the same of the query
  that was run, for the objects the selection had then. `ValuesOwn` speaks of
  reading only, so it is not inductive: without `BuildOK` nothing ties the columns
  of a query under way to the positions. The lemma `WriteNext` is the step of the
  loop, `NamesCounted` is the agreement of selection and resolver, by cases on the
  class and type of a path.
* `FieldsHaveTables`: `Spec => []TablesRight`. The inductive invariant,
  `TablesInv`, says of every field of the query being built and of the one that
  was run: it is in the top table exactly when `InTop`, and otherwise in the first
  joined table that serves its path, all the tables before it serving it not.
  "First" is what makes it inductive (`StaysFound`: tables joined later come
  after) and what makes two fields of one object share a row (`SameTable`: tables
  serve both or neither); that the table has the field is a lemma about one path
  and one table (`RightTable`), and fails exactly where `ListBefore` says.
* `NumbersAreRight`: `Spec => []OptionsRight`. The inductive invariant,
  `OptionsInv`, adds that the SELECT's own count of its columns, `field_count`, is
  their number as long as no object is miscounted, and that every column
  remembers an object of the selection; `NumbersAdded` and `NumbersKept` are the
  two cases of a turn of the loop. The idents query is a case of its own: the
  resolver writes three columns for the time and counts one, which is right only
  because nothing is added after it.
* They rest on `SelectionAssumption`: a path of depth two is a field of a message,
  and paths of one object have the same class, depth and message.

`ResultTableProofs` is about `ResultTable` with any number of results, answers of
any size, any client libraries and faults, for programs that are `Careful`: they
copy `SQL` and `DB` by assignment, and the handles and rows of a table they hold,
`MaxHeld + MaxRowsHeld` and the reference of a result, are fewer than the values
of its count. Both conditions are needed: a `DB` copied by construction is
released twice, and 65536 references to a table wrap its count to 0.

* `CountsAreExact`: `Careful => (Spec => []RefsExact)`; `HeldIsAlive`:
  `Careful => (Spec => []HeldAlive)`.
* `HeldBounded`, that the program holds no more than its bounds, is invariant by
  itself; with `RefsExact` it bounds the count of a table (`c.table[r] + 1 <
  TableCounts` wherever a reference is taken), so that `AsCount` changes nothing.
* `RefsExact` is not inductive: a row could be put into the cache over one that is
  held, and a deletion could go on with a result that is gone. `RefsInv` adds that
  a cached row lies below `nrow` (so what a client library hands out in order is
  new) and its table exists, that the cursor stays inside the answer, that a
  deletion works on a result the program holds and that an open session has an
  SQL object.
* There is one lemma per operation on counts. Those for a last release go through
  states in which the counts are one too high (`Owing`: the table is about to give
  back a reference whose holder is gone; `DbExact(c, n + 1)`: so is the db), which
  `TableRelease` and `DbDestroy` make exact again. `OneMore` says how a number of
  objects changes when one count does, `FetchedGood` what any of the three client
  libraries may put into a cache.
* It uses that there are finitely many results and that rows are numbered from 0.

`ResultRowsProofs` goes on with the rows of an answer: `RowsAreInPlace`
(`RowsInPlace`), `EndIsTheEnd` (`EndMeansRead`), `CountIsRight` (`CountRight`),
`DeletesTheRowsRead` (`DeletesWhatWasRead`) and `TypesAreCorrect` (`TypeOK`),
for `Careful` programs again.

* The invariant relates, for every result, the cursor of the client library
  (`next`), the size of the cache (`nrow`), `done`, and the server's row in each
  slot: what is cached below `nrow` is the answer's first rows, and the library
  stands just behind them, except on PostgreSQL, where a row is asked for by its
  index and a program may pass some over (`jumped`).
* A deletion collects idents in a loop; while it runs, its list is the rows the
  loop has taken, and when it is ready and no error was met, all of them.
* `BoundsInv` adds the ranges `TypeOK` asks for. Those of `nrow`, the count and the
  cursor follow from the rows' invariant for a table that exists; a table that is
  gone keeps what it had, so `TableChanged` shows that a step changes only a table
  that exists after it. Those of the program's handles rest on each destroy being
  asked of a handle it holds.
* All but `EndIsTheEnd` are stated under `SafeScans`: SQLite does not fail after
  the first row of a scan, or is not used. When it does, `sqlite3_step` resets the
  statement and the next fetch starts again from the first row, which the code
  does not notice; the theorems say what holds otherwise.

`PickedProofs`, `AdminBatchProofs` and `AdminDoneProofs` are about `AdminBatch`, for any
command lines, messages, criteria, table size of at least two entries, faults, signals
and any set of resumed commands:

* `TypeCorrect` (`TypeOK`). For each action a lemma `...Facts` states once what it
  does to the two sessions, the phase and the counters; the invariants below use
  those and not the actions.
* `CommitsAreWhole` (`InsertedWhole`). The invariant `Whole`: torn messages and a
  broken transaction exist only between a failed insertion and the end of the
  command, with `ret` at -1, which makes the end roll back.
* `TableFits` (`DeleteTableFits`). `Listed`: the table holds no more messages than
  the loop has gone past in its batch, a batch is no longer than a transaction, and
  the table is empty when the next batch is fetched.
* `CommitsAreBounded` (`TransactionBounded`). `Bounded`: the messages not committed
  yet are no more than `event_no`, one more while the flush after an insertion is
  due. For a move this leans on `Listed`: a deletion that fails inside the loop
  skips the flush, and the messages pile up in the transaction until the batch
  ends. With a table of one entry and transactions of one message they would pile
  up over batches, so `EnvironmentAssumption` asks for two entries; the code has
  1024.
* `MovesLoseNothing` (`NothingLost`). `MoveKeeps`: the source has no transaction, what
  the destination has committed stays in it, and a message listed for deletion is
  in the destination. The table is larger than a batch (`Listed`), so nothing is
  deleted inside the loop; the deletion after it follows a flush, which leaves
  nothing uncommitted (`Bounded`).
* `CountIsRespected` (`CountRespected`). `Counted`: what was output, what is in the
  destination and what is gone from the source or listed to go are each no more
  than `limit - limit_copy`, less what is left of the batch.
* `TheRestIsKept` (`KeepsTheRest`). `Keeping`: the source is in ident order and lacks
  only messages `Asked` for, those whose rank among all that `--criteria` selects
  lies past `--offset` and within `--count`. A batch is taken by place, not by rank:
  `PickedRanks` says the rank of the message at place p is at least p, and at most
  p plus the number of messages missing from the source, which `Counted` bounds.
* `CommitsInOrder` (`CommittedInOrder`), for any number of interrupted and resumed
  runs, under two conditions. A move is not resumed from the offset printed, which
  counts messages the source does not hold any more (end of section 4). And a load has
  `--events-per-transaction` of at least one: with 0 it commits each message by
  itself and counts none, so the offset printed after an interruption is the one it
  was started with and the next run loads the same messages again. The invariant
  `OrderInv` has two halves. Of a copy or a move (`CopyOrder`): the message at place
  k of the destination is the one of rank `origin + k`, and the batch in hand goes
  on from there. A copy gets there because what it counts is what it has committed
  (`KeptTo`) and what it has gone past (`Passed`), a move because its source lacks
  exactly what is inserted and not listed any more (`MoveRests`), so that the same
  place of the source holds the next rank (`RestRanks`, from `GapPlaces`: numbers
  that grow and leave out one block). Of a load (`LoadOrder`): what the destination
  holds is what `--criteria` selects of the first `Passed` messages of all files,
  each file standing at its place in the whole (`FileParts`, from `FlattenJoins`),
  and the cursor in the file is `Passed` less that place, unless a signal or
  `--count` has stopped the load in the middle of a file.

* `CommandsComplete` (`CommandCompletes`, in `AdminDoneProofs`): a command that
  reports success has left nothing out. Two conditions again: a move or a deletion is
  not resumed, for the reason above, and `--events-per-transaction` is at least one,
  since with 0 a command that asks for a batch of idents gets none and ends at once.
  `DoneInv` adds what a command has done so far, in ranks: the messages asked for
  that were there at the start (`Known`) have the ranks from `origin + 1` on
  (`KnownFacts`), and `Through(S, r)` says that S holds all of them up to rank r. One
  part for each kind of command says which set has got how far: what is committed in
  the destination of a copy (`CopyDone`), what is printed, saved or could not be read
  (`ReadDone`), what is loaded (`LoadDone`, by places in the files), and, where
  messages leave the source, that what is gone is what `--count` has let through and,
  of a move, that each message is in one of the two (`TakeDone`, `MoveDone`,
  `DeleteDone`). A command ends with success (`Over`) when the last fetch came back
  empty or `--count` is used up; in both cases no known message has a rank past the
  one reached (`Within`). An error ends it otherwise (`Returned`): at once, after the
  flush that follows a deletion, or, when an ident of a batch cannot be taken, once
  what the batch has copied is flushed and deleted.

`ClassicStoreProofs` is about `ClassicStore` with any sessions, any deployments and any
messages that `IsMessage` admits (lists of any length at every level):

* `StoreTypeCorrect` (`TypeOK`). `TypeInv` adds what a session holds at each step:
  after the first row, that row alone, under an ident below the next one. That
  `SELECT max(_ident)` finds an ident at all rests on `GreatestElement`.
* `DatabaseIsExact` (`StoredExactly`), where nobody deletes or only one session
  inserts (`RaceFree`; `rows_race` shows what happens otherwise). `StoredInv` adds
  whose ident a session may have found. Next to a deletion it is its own, the last
  one given. Without deletions it may be that of a message stored meanwhile; then
  its rows are refused, because every message has a creation time and that row's
  key is taken (`RefusedOrOwn`). This is what the mandatory creation time of
  `IsMessage` is for: without it a message of no other rows would be accepted under
  the ident of another. `DeletionIsExact` says that the table lists and parent types
  of the DELETE statements fit those of the rows: what a row shows tells its kind.
* `KeysIdentify` (`KeysHold`), without that condition. `MessageKeys` says that the
  rows of one message have different keys: table and parent type tell the part of
  the message (`Zone`), the indexes the element of each list on the way down, where
  the copy under -1 counts as a place of its own. Between messages `KeysInv` says
  that the committed rows and the rows of each insertion have no key in common:
  first rows because an ident is given once, the others because the database
  refuses a key that is committed and makes one wait that an open transaction
  holds. That a database has finitely many rows (`FiniteMessage`) is proved too, as
  keys are compared by number.

`Picked`, the messages of a sequence that are in a set, is a recursive function.
`PickedProofs` shows that the function exists (`PickedExists`), what it holds
(`PickedMembers`), how it grows (`PickedAppend`) and where each message stands in it
(`PickedPlaces`, `RankIsPlace`, `PickedRanks`), and that what is picked of the
beginning of a sequence is the beginning of what is picked of it
(`PickedBeginning`). `FlattenJoins` says the same sort of thing of `FlattenSeq`, the
files of a load one after the other. The induction these need is
`UpTo`, a set that holds 0 and with each n < N also n + 1 holds 0..N, which is
proved from a least counterexample (`LeastElement`, itself from the well-founded
inclusion of finite sets) since the library's induction over the naturals takes
an operator.

The proofs about `SqlSession` use the named assumptions of `SqlSession`: threads are disjoint and
`NoThread` is none of them, the bounds are naturals, ROLLBACK is never refused,
the program is a finite list with at least one INSERT.

Only model-checked: liveness (`EveryInsertReturns`, `RecoversAfterFaults`,
`EveryCommandEnds`, `DeletionEnds`), which is out of the prover's reach;
`AckedStored`, `MutexReleased` and `NeverAborts` for batches; `ReadIsExact` and
`PathsSelect` of `ClassicStore`, which rest on sorting rows into a sequence and on
a fold over a path; and `CriteriaMean` of `ValueQuery`, which is about a text
built by recursion over a tree, whose meaning is an induction over data, out of
the prover's reach as well.

## 6. Not modelled, and why

Not yet: the settings parser, LIKE escaping and the ranges of `field_to_*`
(section 2, pure conversions without state); query logging,
`unescape_binary` and `get_last_insert_ident` of the session, which take the
mutex as an escape does or do not touch its state; `count`, `optimize` and
`update` of preludedb-admin, one library call each; functions of several
arguments in a selection; fields as objects (a field lives and dies with its
row).

In `ClassicRows` the attributes of an object are one value: the formatting of
columns, optional attributes and the types of additional data are left out. So
is, in `ValueQuery`, the conversion of a column to the type of its path.

Left out for good: the path-selection grammar (a bison and flex grammar with its
4,100 lines of generated code), the Python glue that SWIG generates (17,600
lines), the error tables and the version check, vendored gnulib (13,000 lines; its
recursive lock is modelled where it is used), the build system, logging and the
wording of queries. SWIG's glue, the generated parser and gnulib alone are about
60 % of the repository's lines of C and C++; the models stand for a part of the
rest, which `PROJECT.json` names line by line.
