---------------------------- MODULE ResultTable ----------------------------
(***************************************************************************)
(* The answers of a database and the objects that hold them: the SQL        *)
(* handle, the db handle, result tables with their cache of rows, and the   *)
(* result idents and result values built on a table.  Each object counts    *)
(* its references; a row lives inside its table, whose memory it keeps      *)
(* alive for as long as the program holds it.                               *)
(*                                                                         *)
(* The program is one thread that uses the C++ classes (or the C calls they *)
(* wrap); other threads run queries on the same session.  A row is the      *)
(* position the server has it at, and an ident is the row it came from.     *)
(***************************************************************************)
EXTENDS Integers, Sequences, FiniteSets

CONSTANTS
    Results,      \* places for a result table and what is built on it
    Nobody,       \* none of them
    MaxRows,      \* bound: rows of an answer
    MaxHeld,      \* bound: handles the program holds on one object
    MaxRowsHeld,  \* bound: rows of one table that it holds at once
    TableCounts,  \* values of a table's count: 65536, it is a uint16_t
    ImplicitCopies, \* does the program copy SQL and DB by construction?
    MaxFaults,    \* bound: queries refused, connections lost, locks met
    Backends,     \* the SQL plugins to consider
    ScanErrors    \* may SQLite fail after it has returned rows?

ASSUME BoundsAssumption ==
    /\ IsFiniteSet(Results) /\ Nobody \notin Results
    /\ MaxRows \in Nat /\ MaxHeld \in Nat \ {0} /\ MaxFaults \in Nat
    /\ MaxRowsHeld \in Nat /\ TableCounts \in Nat \ {0, 1} /\ ImplicitCopies \in BOOLEAN
    /\ Backends \subseteq {"mysql", "pgsql", "sqlite3"} /\ ScanErrors \in BOOLEAN

Index == 0..(MaxRows - 1)
NoRow == -1            \* also what an ident holds before it is first assigned

VARIABLES
    backend,
    connected,     \* the session is open
    stale,         \* mysql_errno(session) reports the last query that failed
    refs,          \* the reference counts; 0 for an object that does not exist
    own,           \* the references the program holds, of the same shape
    lost,          \* references a failed preludedb_new did not give back
    use,           \* what a table serves: "table", "idents" or "values"
    tab,           \* size of the answer, nrow, done, row_count, the cursor of
                   \* the client library, and whether a row was asked for
                   \* before the ones in front of it
    data,          \* the server row each cached row holds
    del,           \* a deletion from result idents: its loop and its list
    faults

sessionVars == <<connected, stale, faults>>
tableVars == <<tab, data>>
vars == <<backend, connected, stale, refs, own, lost, use, tab, data, del, faults>>

NoRefs == [sql |-> 0, db |-> 0, selection |-> [r \in Results |-> 0],
           table |-> [r \in Results |-> 0], result |-> [r \in Results |-> 0],
           row |-> [r \in Results |-> [i \in Index |-> 0]]]
Cached(r, i) == i \in Index /\ refs.row[r][i] > 0
Idle == del.on = Nobody
Hidden(r) == tab[r].done /\ \E i \in 0..(tab[r].size - 1) : ~Cached(r, i)

----------------------------------------------------------------------------
(***************************************************************************)
(* Reference counts.  A destroy that takes a count to zero gives back what  *)
(* the object held; c is the counts before the call, the value the counts   *)
(* after it.  What a call does to an object whose count is zero, which is   *)
(* freed memory, is not defined, and the counts mean nothing from there on. *)
(***************************************************************************)
AsCount(n) == n % TableCounts    \* as the table keeps it

sql_ref(c) == [c EXCEPT !.sql = @ + 1]
sql_destroy(c) == [c EXCEPT !.sql = @ - 1]

db_ref(c) == [c EXCEPT !.db = @ + 1]
db_destroy(c) ==
    LET d == [c EXCEPT !.db = @ - 1]
    IN  IF d.db = 0 THEN sql_destroy(d) ELSE d

selection_destroy(c, r) ==
    LET d == [c EXCEPT !.selection[r] = @ - 1]
    IN  IF d.selection[r] = 0 THEN db_destroy(d) ELSE d

\* The cache holds one reference on each of its rows.
table_destroy(c, r) ==
    LET d == [c EXCEPT !.table[r] = @ - 1]
    IN  IF d.table[r] > 0 THEN d
        ELSE sql_destroy([d EXCEPT !.row[r] = [i \in Index |->
                              IF @[i] > 0 THEN @[i] - 1 ELSE 0]])

\* Mutation: rows do not hold their table.
row_ref_alone(c, r, i) == [c EXCEPT !.row[r][i] = @ + 1]
\* The first reference besides the cache's keeps the table; the last one
\* lets it go.
row_ref(c, r, i) ==
    [c EXCEPT !.row[r][i] = @ + 1,
              !.table[r] = IF c.row[r][i] = 1 THEN AsCount(@ + 1) ELSE @]
\* Mutation: every release of a row lets the table go.
row_destroy_always(c, r, i) == table_destroy([c EXCEPT !.row[r][i] = @ - 1], r)
row_destroy(c, r, i) ==
    LET d == [c EXCEPT !.row[r][i] = @ - 1]
    IN  IF d.row[r][i] = 1 THEN table_destroy(d, r) ELSE d

\* Mutation: the result keeps its reference on the db.
result_destroy_keeps(c, r) ==
    LET d == [c EXCEPT !.result[r] = @ - 1]
    IN  IF d.result[r] # 0 THEN d ELSE table_destroy(d, r)
result_destroy(c, r) ==
    LET d == [c EXCEPT !.result[r] = @ - 1]
        e == table_destroy(d, r)
    IN  IF d.result[r] # 0 THEN d
        ELSE db_destroy(IF use[r] = "values" THEN selection_destroy(e, r) ELSE e)

----------------------------------------------------------------------------
(***************************************************************************)
(* One query on the session: it answers with rows, without any, is refused, *)
(* or the connection is found or gets lost.  Only SQLite makes a table of   *)
(* an answer without rows.                                                  *)
(***************************************************************************)
Answers == {"rows", "none", "refused", "broken"}

QueryOnSession(answer) ==
    /\ answer = "broken" => backend # "sqlite3"
    /\ answer \in {"refused", "broken"} => faults < MaxFaults
    /\ connected' = (answer # "broken")
    /\ stale' = (answer = "refused" /\ backend = "mysql")
    /\ faults' = faults + IF answer \in {"refused", "broken"} THEN 1 ELSE 0

Sizes(answer) == CASE answer = "rows" -> 1..MaxRows
                   [] answer = "none" /\ backend = "sqlite3" -> {0}
                   [] OTHER -> {}

table_new(r, size) ==
    /\ tab' = [tab EXCEPT ![r] = [size |-> size, nrow |-> 0, done |-> FALSE,
                                  count |-> 0, next |-> 0, jumped |-> FALSE]]
    /\ data' = [data EXCEPT ![r] = [i \in Index |-> NoRow]]

----------------------------------------------------------------------------
(***************************************************************************)
(* Rows.  Each operator gives the outcomes of a call: the answer, nrow, the *)
(* cursor of the client library, and the rows it put in the cache.          *)
(***************************************************************************)
Outcome(answer, nrow, next, rows, fault) ==
    [answer |-> answer, nrow |-> nrow, next |-> next, rows |-> rows, fault |-> fault]
Unchanged(r, answer) == Outcome(answer, tab[r].nrow, tab[r].next, <<>>, FALSE)

\* The next k rows of the client library, appended to the cache.
InOrder(r, answer, k, next, fault) ==
    LET t == tab[r]
    IN  Outcome(answer, t.nrow + k, next,
                [j \in t.nrow..(t.nrow + k - 1) |-> t.next + j - t.nrow], fault)

\* Rows to fetch to reach index i, and how many of them there are.
Wanted(r, i) == IF i < tab[r].nrow THEN 0 ELSE i + 1 - tab[r].nrow
Left(r, i) == IF Wanted(r, i) <= tab[r].size - tab[r].next
              THEN Wanted(r, i) ELSE tab[r].size - tab[r].next

\* The end of the stored result is told from an error by mysql_errno, which
\* speaks of the last query of the session; once the connection is lost the
\* session is freed memory.
mysql_fetch_row(r, i) ==
    LET k == Left(r, i)
        answers == IF k = Wanted(r, i) THEN {"row"}
                   ELSE IF connected THEN {IF stale THEN "error" ELSE "end"}
                   ELSE {"end", "error"}
    IN  {InOrder(r, a, k, tab[r].next + k, FALSE) : a \in answers}

\* A step that fails, or that returns SQLITE_DONE, rewinds the statement.
sqlite3_fetch_row(r, i) ==
    LET k == Left(r, i)
        reached == k = Wanted(r, i)
        failing == {j \in 0..k : /\ faults < MaxFaults /\ j < Wanted(r, i)
                                 /\ tab[r].next + j = 0 \/ ScanErrors}
    IN  {IF reached THEN InOrder(r, "row", k, tab[r].next + k, FALSE)
                    ELSE InOrder(r, "end", k, 0, FALSE)}
            \cup {InOrder(r, "error", j, 0, TRUE) : j \in failing}

\* Mutation: the last row is taken for the end.
pgsql_fetch_row_short(r, i) ==
    {IF i + 1 < tab[r].size
     THEN Outcome("row", IF i < tab[r].nrow THEN tab[r].nrow ELSE i + 1, 0,
                  [j \in {i} |-> i], FALSE)
     ELSE Unchanged(r, "end")}

\* The whole answer is in memory: any row can be taken.
pgsql_fetch_row(r, i) ==
    {IF i < tab[r].size
     THEN Outcome("row", IF i < tab[r].nrow THEN tab[r].nrow ELSE i + 1, 0,
                  [j \in {i} |-> i], FALSE)
     ELSE Unchanged(r, "end")}

fetch_row(r, i) == CASE backend = "mysql" -> mysql_fetch_row(r, i)
                     [] backend = "sqlite3" -> sqlite3_fetch_row(r, i)
                     [] backend = "pgsql" -> pgsql_fetch_row(r, i)

\* Mutation: the end is not remembered.
get_row_again(r, i) == IF Cached(r, i) THEN {Unchanged(r, "row")} ELSE fetch_row(r, i)
get_row(r, i) ==
    CASE Cached(r, i) -> {Unchanged(r, "row")}
      [] ~Cached(r, i) /\ tab[r].done ->
           {Unchanged(r, IF i = tab[r].nrow THEN "end" ELSE "error")}
      [] OTHER -> fetch_row(r, i)

\* What outcome o of asking for row i leaves in the table, with counts c
\* after it; a new row belongs to the cache.
Store(r, i, o) ==
    /\ tab' = [tab EXCEPT ![r].nrow = o.nrow, ![r].next = o.next,
                          ![r].done = @ \/ o.answer = "end",
                          ![r].jumped = @ \/ i > tab[r].nrow]
    /\ data' = [data EXCEPT ![r] = [j \in Index |->
                    IF j \in DOMAIN o.rows THEN o.rows[j] ELSE @[j]]]
    /\ faults' = faults + IF o.fault THEN 1 ELSE 0
    /\ UNCHANGED <<connected, stale>>
CacheRows(c, r, o) ==
    [c EXCEPT !.row[r] = [j \in Index |-> IF j \in DOMAIN o.rows THEN 1 ELSE @[j]]]

----------------------------------------------------------------------------
(***************************************************************************)
(* Handles: creating, copying and destroying the C++ objects.               *)
(***************************************************************************)
Keeps == UNCHANGED <<backend, lost, use, tableVars, del, sessionVars>>

\* Giving back the last reference on the SQL handle closes its session.
Release(counts) ==
    /\ refs' = counts
    /\ connected' = (connected /\ counts.sql > 0)
    /\ UNCHANGED <<backend, lost, use, tableVars, del, stale, faults>>

\* The program starts again; a handle that leaked stays behind for good.
SqlNew ==
    /\ Idle /\ own = NoRefs /\ refs.sql = lost
    /\ refs' = sql_ref(NoRefs) /\ own' = sql_ref(NoRefs)
    /\ lost' = 0 /\ connected' = FALSE /\ stale' = FALSE
    /\ UNCHANGED <<backend, use, tableVars, del, faults>>

\* SQL and DB are copied by operator=, which takes a reference.  They declare
\* no copy constructor: a copy made by construction holds the object without
\* a reference, and its destructor gives one back all the same.
Copying == {"assign"} \cup IF ImplicitCopies THEN {"construct"} ELSE {}

CopySql ==
    /\ Idle /\ own.sql \in 1..(MaxHeld - 1)
    /\ \E how \in Copying : refs' = IF how = "assign" THEN sql_ref(refs) ELSE refs
    /\ own' = sql_ref(own) /\ Keeps
DestroySql ==
    /\ Idle /\ own.sql > 0
    /\ own' = [own EXCEPT !.sql = @ - 1] /\ Release(sql_destroy(refs))

\* preludedb_new asks the database for its format.  When that fails, or no
\* plugin knows the format, the db object is freed with its reference.
DbNew(answer, known) ==
    /\ Idle /\ own.sql > 0 /\ refs.db = 0
    /\ QueryOnSession(answer)
    /\ IF answer = "rows" /\ known
       THEN /\ refs' = sql_ref([refs EXCEPT !.db = 1])
            /\ own' = [own EXCEPT !.db = 1] /\ UNCHANGED lost
       ELSE /\ lost < MaxHeld
            /\ refs' = sql_ref(refs) /\ lost' = lost + 1 /\ UNCHANGED own
    /\ UNCHANGED <<backend, use, tableVars, del>>
CopyDb ==
    /\ Idle /\ own.db \in 1..(MaxHeld - 1)
    /\ \E how \in Copying : refs' = IF how = "assign" THEN db_ref(refs) ELSE refs
    /\ own' = db_ref(own) /\ Keeps
DestroyDb ==
    /\ Idle /\ own.db > 0
    /\ own' = [own EXCEPT !.db = @ - 1] /\ Release(db_destroy(refs))

\* SQL::query
Query(r, answer) ==
    /\ Idle /\ own.sql > 0 /\ refs.table[r] = 0
    /\ QueryOnSession(answer)
    /\ \/ \E size \in Sizes(answer) :
            /\ table_new(r, size) /\ use' = [use EXCEPT ![r] = "table"]
            /\ refs' = sql_ref([refs EXCEPT !.table[r] = 1])
            /\ own' = [own EXCEPT !.table[r] = 1]
       \/ Sizes(answer) = {} /\ UNCHANGED <<use, tableVars, refs, own>>
    /\ UNCHANGED <<backend, lost, del>>
CopyTable(r) ==
    /\ Idle /\ own.table[r] \in 1..(MaxHeld - 1)
    /\ refs' = [refs EXCEPT !.table[r] = AsCount(@ + 1)]
    /\ own' = [own EXCEPT !.table[r] = @ + 1] /\ Keeps
DestroyTable(r) ==
    /\ Idle /\ own.table[r] > 0
    /\ own' = [own EXCEPT !.table[r] = @ - 1] /\ Release(table_destroy(refs, r))

RowsHeld(r) == {i \in Index : own.row[r][i] > 0}

\* Table::get and Table::fetch: a row that is there comes with a reference.
TableGet(r, i) ==
    /\ Idle /\ own.table[r] > 0
    /\ \E o \in get_row(r, i) :
         LET c == CacheRows(refs, r, o)
         IN  /\ Store(r, i, o)
             /\ IF o.answer = "row" /\ i \in Index /\ c.row[r][i] > 0
                THEN /\ own.row[r][i] < MaxHeld
                     /\ own.row[r][i] > 0 \/ Cardinality(RowsHeld(r)) < MaxRowsHeld
                     /\ refs' = row_ref(c, r, i)
                     /\ own' = [own EXCEPT !.row[r][i] = @ + 1]
                ELSE refs' = c /\ UNCHANGED own
    /\ UNCHANGED <<backend, lost, use, del>>
CopyRow(r, i) ==
    /\ Idle /\ own.row[r][i] \in 1..(MaxHeld - 1)
    /\ refs' = row_ref(refs, r, i)
    /\ own' = [own EXCEPT !.row[r][i] = @ + 1] /\ Keeps
DestroyRow(r, i) ==
    /\ Idle /\ own.row[r][i] > 0
    /\ own' = [own EXCEPT !.row[r][i] = @ - 1] /\ Release(row_destroy(refs, r, i))

\* DB::getAlertIdents and DB::getHeartbeatIdents; DB::getValues makes a path
\* selection for the call, and the result it gets keeps one reference on it.
\* What a freed db would answer is not followed.
GetResult(r, kind, answer) ==
    /\ Idle /\ own.db > 0 /\ refs.db > 0 /\ refs.table[r] = 0
    /\ QueryOnSession(answer)
    /\ \/ \E size \in Sizes(answer) :
            /\ table_new(r, size) /\ use' = [use EXCEPT ![r] = kind]
            /\ refs' = LET c == db_ref(sql_ref([refs EXCEPT !.table[r] = 1,
                                                            !.result[r] = 1]))
                       IN  IF kind = "values"
                           THEN db_ref([c EXCEPT !.selection[r] = 1]) ELSE c
            /\ own' = [own EXCEPT !.result[r] = 1]
       \/ Sizes(answer) = {} /\ UNCHANGED <<use, tableVars, refs, own>>
    /\ UNCHANGED <<backend, lost, del>>
CopyResult(r) ==
    /\ Idle /\ own.result[r] \in 1..(MaxHeld - 1)
    /\ refs' = [refs EXCEPT !.result[r] = @ + 1]
    /\ own' = [own EXCEPT !.result[r] = @ + 1] /\ Keeps
DestroyResult(r) ==
    /\ Idle /\ own.result[r] > 0
    /\ own' = [own EXCEPT !.result[r] = @ - 1] /\ Release(result_destroy(refs, r))

\* ResultIdents::get reads the ident at once; ResultValues::get gives a row
\* object that holds the result, not the row.
ResultGet(r, i) ==
    /\ Idle /\ own.result[r] > 0
    /\ \E o \in get_row(r, i) :
         /\ Store(r, i, o)
         /\ IF use[r] = "values" /\ o.answer = "row"
            THEN /\ own.result[r] < MaxHeld
                 /\ refs' = [CacheRows(refs, r, o) EXCEPT !.result[r] = @ + 1]
                 /\ own' = [own EXCEPT !.result[r] = @ + 1]
            ELSE refs' = CacheRows(refs, r, o) /\ UNCHANGED own
    /\ UNCHANGED <<backend, lost, use, del>>

\* The count of the rows, asked of the table or of what is built on it.
\* SQLite has none: the rows are fetched until there is no other.
CountRows(r, i) ==
    /\ Idle
    /\ own.table[r] > 0 \/ own.result[r] > 0
    /\ tab[r].count = 0
    /\ IF backend # "sqlite3"
       THEN /\ tab' = [tab EXCEPT ![r].count = tab[r].size]
            /\ UNCHANGED <<refs, data, sessionVars>>
       ELSE \E o \in IF tab[r].done THEN {Unchanged(r, "end")}
                                    ELSE fetch_row(r, i) :
              /\ refs' = CacheRows(refs, r, o)
              /\ tab' = [tab EXCEPT ![r].nrow = o.nrow, ![r].next = o.next,
                                    ![r].done = @ \/ o.answer = "end",
                                    ![r].count = o.nrow]
              /\ data' = [data EXCEPT ![r] = [j \in Index |->
                              IF j \in DOMAIN o.rows THEN o.rows[j] ELSE @[j]]]
              /\ faults' = faults + IF o.fault THEN 1 ELSE 0
              /\ UNCHANGED <<connected, stale>>
    /\ UNCHANGED <<backend, own, lost, use, del>>
\* Mutation: one row is fetched, not all of them.
GetRowCountOnce(r) == CountRows(r, tab[r].nrow)
GetRowCount(r) == CountRows(r, MaxRows)

----------------------------------------------------------------------------
(***************************************************************************)
(* DB::deleteAlert(idents): the idents are read one by one into a list,     *)
(* and one statement sequence deletes the messages of the list.             *)
(***************************************************************************)
NoDeletion == [on |-> Nobody, ready |-> FALSE, i |-> 0, ident |-> NoRow,
               list |-> <<>>, failed |-> FALSE]
LongList == MaxRows + 2    \* bound: how far the list is followed

DeleteStart(r) ==
    /\ Idle /\ own.result[r] > 0 /\ use[r] = "idents"
    /\ del' = [NoDeletion EXCEPT !.on = r]
    /\ UNCHANGED <<backend, refs, own, lost, use, tableVars, sessionVars>>

\* The loop goes on while the call does not return 0: an error counts as an
\* ident, and the variable keeps what it held.  A loop past the bound goes on
\* between the last two indexes.
CollectIdent(r, i, next) ==
    /\ del.on = r /\ ~del.ready
    /\ \E o \in get_row(r, i) :
         LET ident == IF o.answer # "row" THEN del.ident
                      ELSE IF i \in DOMAIN o.rows THEN o.rows[i] ELSE data[r][i]
         IN  /\ Store(r, i, o) /\ refs' = CacheRows(refs, r, o)
             /\ del' = IF o.answer = "end" THEN [del EXCEPT !.ready = TRUE]
                       ELSE [del EXCEPT
                               !.i = IF next > LongList THEN LongList - 1 ELSE next,
                               !.ident = ident,
                               !.list = IF Len(@) < LongList THEN Append(@, ident) ELSE @,
                               !.failed = @ \/ o.answer = "error"]
    /\ UNCHANGED <<backend, own, lost, use>>
\* Mutation: the first ident is passed over.
get_string_skips(r) == CollectIdent(r, del.i + 1, del.i + 1)
\* Mutation: the index stays where it is.
get_string_stays(r) == CollectIdent(r, del.i, del.i)
get_string_from_result_ident(r) == CollectIdent(r, del.i, del.i + 1)

\* do_delete_alert on the list, unless it is empty; the call returns the
\* length of the list or the error.
do_delete(r, answer) ==
    /\ del.on = r /\ del.ready
    /\ IF del.list = <<>> THEN UNCHANGED sessionVars ELSE QueryOnSession(answer)
    /\ del' = NoDeletion
    /\ UNCHANGED <<backend, refs, own, lost, use, tableVars>>

\* Other threads use the session, before and after every step above.
OtherQuery(answer) ==
    /\ refs.sql > 0
    /\ QueryOnSession(answer)
    /\ UNCHANGED <<backend, refs, own, lost, use, tableVars, del>>

----------------------------------------------------------------------------
Init ==
    /\ backend \in Backends /\ connected = FALSE /\ stale = FALSE /\ faults = 0
    /\ refs = sql_ref(NoRefs) /\ own = sql_ref(NoRefs) /\ lost = 0
    /\ use = [r \in Results |-> "table"]
    /\ tab = [r \in Results |-> [size |-> 0, nrow |-> 0, done |-> FALSE, count |-> 0,
                                 next |-> 0, jumped |-> FALSE]]
    /\ data = [r \in Results |-> [i \in Index |-> NoRow]]
    /\ del = NoDeletion

Handles == SqlNew \/ CopySql \/ DestroySql \/ CopyDb \/ DestroyDb
TableHandles(r) ==
    \/ CopyTable(r) \/ DestroyTable(r) \/ CopyResult(r) \/ DestroyResult(r)
    \/ \E i \in Index : CopyRow(r, i) \/ DestroyRow(r, i)
Asks(r) ==
    \/ \E a \in Answers : Query(r, a) \/ GetResult(r, "idents", a)
                                      \/ GetResult(r, "values", a)
    \/ \E i \in 0..MaxRows : TableGet(r, i) \/ ResultGet(r, i)
    \/ GetRowCount(r)
Deletes(r) ==
    \/ DeleteStart(r) \/ get_string_from_result_ident(r)
    \/ \E a \in Answers : do_delete(r, a)

Next ==
    \/ Handles
    \/ \E a \in Answers, known \in BOOLEAN : DbNew(a, known)
    \/ \E r \in Results : TableHandles(r) \/ Asks(r) \/ Deletes(r)
    \/ \E a \in Answers : OtherQuery(a)

\* A call of the library that has begun goes on.
Fairness == \A r \in Results :
    WF_vars(get_string_from_result_ident(r) \/ \E a \in Answers : do_delete(r, a))
Spec == Init /\ [][Next]_vars /\ Fairness

----------------------------------------------------------------------------
Counts(n) == [sql : 0..n, db : 0..n, selection : [Results -> 0..n],
              table : [Results -> 0..n], result : [Results -> 0..n],
              row : [Results -> [Index -> 0..n]]]

\* Types of the state: nothing is ever released twice (a count below zero).
TypeOK ==
    /\ backend \in Backends /\ connected \in BOOLEAN /\ stale \in BOOLEAN
    /\ own \in Counts(MaxHeld)
    /\ refs \in [sql : Nat, db : Nat, selection : [Results -> Nat],
                 table : [Results -> 0..(TableCounts - 1)], result : [Results -> Nat],
                 row : [Results -> [Index -> Nat]]]
    /\ lost \in 0..MaxHeld /\ faults \in 0..MaxFaults
    /\ use \in [Results -> {"table", "idents", "values"}]
    /\ tab \in [Results -> [size : 0..MaxRows, nrow : 0..MaxRows, done : BOOLEAN,
                            count : 0..MaxRows, next : 0..MaxRows, jumped : BOOLEAN]]
    /\ data \in [Results -> [Index -> Index \cup {NoRow}]]
    /\ del \in [on : Results \cup {Nobody}, ready : BOOLEAN, i : 0..LongList,
                ident : Index \cup {NoRow}, list : Seq(Index \cup {NoRow}),
                failed : BOOLEAN]

\* Every count is the number of references that exist: the program's and the
\* ones objects hold on each other, whatever order they are destroyed in.
One(n) == IF n > 0 THEN 1 ELSE 0    \* held by an object with n references
RefsExact ==
    /\ refs.sql = own.sql + lost + One(refs.db)
                  + Cardinality({r \in Results : refs.table[r] > 0})
    /\ refs.db = own.db + Cardinality({r \in Results : refs.result[r] > 0})
                        + Cardinality({r \in Results : refs.selection[r] > 0})
    /\ \A r \in Results :
         /\ refs.result[r] = own.result[r]
         /\ refs.selection[r] = (IF use[r] = "values" THEN One(refs.result[r]) ELSE 0)
         /\ refs.table[r] = own.table[r] + One(refs.result[r])
                            + Cardinality(RowsHeld(r))
         /\ \A i \in Index :
              refs.row[r][i] = own.row[r][i] + One(refs.row[r][i])

\* A result the program holds has its table, and the db it came from.
ResultsAlive == \A r \in Results :
    own.result[r] > 0 => refs.table[r] > 0 /\ refs.db > 0

\* What the program holds is alive, with all it needs: a row its table, a
\* table its session, a result its table and its db.
HeldAlive ==
    /\ own.sql > 0 => refs.sql > 0
    /\ own.db > 0 => refs.db > 0
    /\ \A r \in Results : own.table[r] > 0 => refs.table[r] > 0
    /\ \A r \in Results, i \in Index :
         own.row[r][i] > 0 => refs.row[r][i] > 1 /\ refs.table[r] > 0
    /\ ResultsAlive
    /\ (\E r \in Results : refs.table[r] > 0) \/ refs.db > 0 => refs.sql > 0
    /\ connected => refs.sql > 0

\* A cached row is the server's row of that index, and a library that hands
\* rows out in order leaves no hole in the cache.
RowsInPlace == \A r \in Results : refs.table[r] > 0 =>
    /\ \A i \in Index : Cached(r, i) => i < tab[r].nrow /\ data[r][i] = i
    /\ backend # "pgsql" => \A i \in 0..(tab[r].nrow - 1) : Cached(r, i)

\* A table is done only when it has given every row; on PostgreSQL only if the
\* program asked for the rows in order.
Jumped(r) == backend = "pgsql" /\ tab[r].jumped
EndMeansRead == \A r \in Results :
    refs.table[r] > 0 /\ ~Jumped(r) => ~Hidden(r)

\* A row count that was kept is the number of rows of the answer.
CountRight == \A r \in Results :
    refs.table[r] > 0 => tab[r].count \in {0, tab[r].size}

\* The idents a deletion collected are all those of its result.
DeletesTheResult ==
    del.ready => {del.list[k] : k \in 1..Len(del.list)} = 0..(tab[del.on].size - 1)

\* A deletion whose loop met no error, of a result no row of which was passed
\* over, is of all the idents of the result and of no other.
DeletesWhatWasRead ==
    del.on # Nobody => del.failed \/ Jumped(del.on) \/ DeletesTheResult

\* A deletion that starts ends, provided the session stops reporting errors.
DeletionEnds == <>[](connected /\ ~stale) => (del.on # Nobody ~> del.on = Nobody)
=============================================================================
