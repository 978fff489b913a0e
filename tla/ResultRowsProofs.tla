--------------------------- MODULE ResultRowsProofs ---------------------------
(***************************************************************************)
(* The rows of ResultTable, for any number of tables, each client library   *)
(* and a careful program: the cache of a table holds the server's rows, a   *)
(* table is done only when it has given them all, its count is right, a     *)
(* deletion is of what was read, and every variable stays in its bounds.    *)
(***************************************************************************)
EXTENDS ResultTableProofs, SequenceTheorems

----------------------------------------------------------------------------
(* No scan of SQLite fails after its first row, or there is no SQLite. *)
SafeScans == ~ScanErrors \/ "sqlite3" \notin Backends

\* A table whose answer is described by t, with row d[i] cached at i when
\* cached[i] > 0: no hole below nrow unless rows were taken out of order, and
\* done only with the whole answer.  A scan that fails rewinds the cursor of
\* SQLite; without such a scan each row is in its place.
Filled(cached, t, d) ==
    /\ t.size <= MaxRows
    /\ backend # "pgsql" \/ ~t.jumped => \A i \in Index : i < t.nrow => cached[i] > 0
    /\ backend # "pgsql" => t.next <= t.nrow
    /\ t.done => t.size <= t.nrow \/ (backend = "pgsql" /\ t.jumped)
    /\ SafeScans =>
         /\ t.nrow <= t.size /\ t.count \in {0, t.size}
         /\ \A i \in Index : cached[i] > 0 => d[i] = i
         /\ backend # "pgsql" /\ ~t.done => t.next = t.nrow

Rows == Index \cup {NoRow}
RowsInv ==
    /\ data \in [Results -> [Index -> Rows]]
    /\ \A r \in Results : refs.table[r] > 0 => Filled(refs.row[r], tab[r], data[r])

\* Filled only looks at which rows are cached.
LEMMA FilledAlike ==
    ASSUME NEW t, NEW d, NEW a, NEW b, Filled(a, t, d),
           \A i \in Index : b[i] > 0 <=> a[i] > 0
    PROVE  Filled(b, t, d)
BY DEF Filled

\* Rows handed out in order: k of them, the cursor left at n.
LEMMA InOrderFilled ==
    ASSUME NEW t \in Tables, NEW d, NEW a, Filled(a, t, d), backend # "pgsql", ~t.done,
           t.next <= t.size, NEW k \in Nat, k <= t.size - t.next, NEW n \in {0, t.next + k},
           NEW u, u.size = t.size, u.nrow = t.nrow + k, u.next = n,
           u.count \in {t.count, t.nrow + k},
           u.done => k = t.size - t.next,
           SafeScans => n = t.next + k \/ u.done \/ (k = 0 /\ t.next = 0),
           SafeScans => u.count = t.count \/ u.done \/ (k = 0 /\ t.next = 0),
           NEW b, \A i \in Index : b[i] = IF i \in t.nrow..(t.nrow + k - 1) THEN 1 ELSE a[i],
           NEW e, \A i \in Index : e[i] = IF i \in t.nrow..(t.nrow + k - 1)
                                          THEN t.next + i - t.nrow ELSE d[i]
    PROVE  Filled(b, u, e)
<1>1. /\ t.size \in Nat /\ t.nrow \in Nat /\ t.next \in Nat /\ t.count \in Nat
      /\ \A i \in Index : i \in Nat
      BY DEF Tables, Index
<1>2. t.size <= MaxRows /\ t.next <= t.nrow /\ \A i \in Index : i < t.nrow => a[i] > 0
      BY DEF Filled
<1>3. ASSUME NEW i \in Index, i < u.nrow PROVE b[i] > 0
      BY <1>1, <1>2, <1>3
<1>4. u.next <= u.nrow
      BY <1>1, <1>2
<1>5. u.done => u.size <= u.nrow
      BY <1>1, <1>2
<1>6. ASSUME SafeScans
      PROVE  /\ u.nrow <= u.size /\ u.count \in {0, u.size}
             /\ \A i \in Index : b[i] > 0 => e[i] = i
             /\ ~u.done => u.next = u.nrow
  <2>1. /\ t.nrow <= t.size /\ t.count \in {0, t.size} /\ t.next = t.nrow
        /\ \A i \in Index : a[i] > 0 => d[i] = i
        BY <1>6 DEF Filled
  <2>2. u.nrow <= u.size
        BY <1>1, <2>1
  <2>3. u.count \in {0, u.size}
        BY <1>1, <1>6, <2>1
  <2>4. ~u.done => u.next = u.nrow
        BY <1>1, <1>6, <2>1
  <2>5. ASSUME NEW i \in Index, b[i] > 0 PROVE e[i] = i
        BY <1>1, <2>1, <2>5
  <2> QED  BY <2>2, <2>3, <2>4, <2>5
<1> QED  BY <1>2, <1>3, <1>4, <1>5, <1>6 DEF Filled

\* Row i taken out of the answer of PostgreSQL.
LEMMA TakenFilled ==
    ASSUME NEW t \in Tables, NEW d, NEW a, Filled(a, t, d), backend = "pgsql",
           NEW i \in Nat, i < t.size,
           NEW u, u.size = t.size, u.nrow = (IF i < t.nrow THEN t.nrow ELSE i + 1),
           u.count = t.count, u.done <=> t.done, u.jumped <=> t.jumped \/ i > t.nrow,
           NEW b, \A j \in Index : b[j] = IF j \in {i} THEN 1 ELSE a[j],
           NEW e, \A j \in Index : e[j] = IF j \in {i} THEN i ELSE d[j]
    PROVE  Filled(b, u, e)
<1>1. /\ t.size \in Nat /\ t.nrow \in Nat /\ \A j \in Index : j \in Nat
      BY DEF Tables, Index
<1>2. ASSUME NEW j \in Index, j < u.nrow, ~u.jumped PROVE b[j] > 0
  <2>1. ~t.jumped /\ ~(i > t.nrow)
        BY <1>2
  <2>2. j < t.nrow => a[j] > 0
        BY <2>1 DEF Filled
  <2> QED  BY <1>1, <1>2, <2>1, <2>2
<1>3. u.done => u.size <= u.nrow \/ u.jumped
      BY <1>1 DEF Filled
<1>4. SafeScans => /\ u.nrow <= u.size /\ u.count \in {0, u.size}
                   /\ \A j \in Index : b[j] > 0 => e[j] = j
      BY <1>1 DEF Filled
<1> QED  BY <1>2, <1>3, <1>4 DEF Filled

----------------------------------------------------------------------------
(***************************************************************************)
(* One call for row i: outcome o, and what Store or the row count make of   *)
(* it: u in the table, b in the cache of row references, e in the rows.     *)
(***************************************************************************)
StoredTable(r, o, u) ==
    /\ u.size = tab[r].size /\ u.nrow = o.nrow /\ u.next = o.next
    /\ u.done <=> tab[r].done \/ o.answer = "end"
StoredRows(r, o, b, e) ==
    /\ \A j \in Index : b[j] = IF j \in DOMAIN o.rows THEN 1 ELSE refs.row[r][j]
    /\ \A j \in Index : e[j] = IF j \in DOMAIN o.rows THEN o.rows[j] ELSE data[r][j]

\* Rows of MySQL and SQLite.
LEMMA InOrderStored ==
    ASSUME RefsInv, RowsInv, NEW r \in Results, refs.table[r] > 0, backend # "pgsql",
           ~tab[r].done, NEW i \in Nat, NEW k \in 0..Left(r, i), NEW n \in {0, tab[r].next + k},
           NEW answer, NEW f, NEW o, o = InOrder(r, answer, k, n, f),
           NEW u, StoredTable(r, o, u), u.count \in {tab[r].count, o.nrow},
           answer = "end" => k = tab[r].size - tab[r].next,
           SafeScans => n = tab[r].next + k \/ answer = "end" \/ (k = 0 /\ tab[r].next = 0),
           SafeScans => \/ u.count = tab[r].count \/ answer = "end"
                        \/ k = 0 /\ tab[r].next = 0,
           NEW b, NEW e, StoredRows(r, o, b, e)
    PROVE  /\ Filled(b, u, e)
           /\ \A j \in Index : j \in DOMAIN o.rows => o.rows[j] \in Rows
<1>1. /\ tab[r] \in Tables /\ tab[r].nrow \in Nat /\ tab[r].next \in Nat
      /\ tab[r].size \in Nat /\ tab[r].next <= tab[r].size
      /\ Filled(refs.row[r], tab[r], data[r])
      BY DEF RefsInv, TablesOK, Tables, RowsInv
<1>2. k \in Nat /\ k <= tab[r].size - tab[r].next
  <2>1. Left(r, i) \in Int /\ Left(r, i) <= tab[r].size - tab[r].next
        BY <1>1 DEF Left, Wanted
  <2> QED  BY <1>1, <2>1
<1>3. /\ o.answer = answer /\ o.nrow = tab[r].nrow + k /\ o.next = n
      /\ DOMAIN o.rows = tab[r].nrow..(tab[r].nrow + k - 1)
      /\ \A j \in DOMAIN o.rows : o.rows[j] = tab[r].next + j - tab[r].nrow
      BY DEF InOrder, Outcome
<1>4. /\ \A j \in Index : b[j] = IF j \in tab[r].nrow..(tab[r].nrow + k - 1)
                                  THEN 1 ELSE refs.row[r][j]
      /\ \A j \in Index : e[j] = IF j \in tab[r].nrow..(tab[r].nrow + k - 1)
                                  THEN tab[r].next + j - tab[r].nrow ELSE data[r][j]
      BY <1>3 DEF StoredRows
<1>5. /\ u.size = tab[r].size /\ u.nrow = tab[r].nrow + k /\ u.next = n
      /\ u.done <=> answer = "end"
      /\ u.count \in {tab[r].count, tab[r].nrow + k}
      /\ u.done => k = tab[r].size - tab[r].next
      /\ SafeScans => n = tab[r].next + k \/ u.done \/ (k = 0 /\ tab[r].next = 0)
      /\ SafeScans => u.count = tab[r].count \/ u.done \/ (k = 0 /\ tab[r].next = 0)
      BY <1>3 DEF StoredTable
<1>6. Filled(b, u, e)
  <2> DEFINE t == tab[r]
             d == data[r]
             a == refs.row[r]
  <2>1. /\ t \in Tables /\ Filled(a, t, d) /\ ~t.done /\ t.next <= t.size
        /\ k \in Nat /\ k <= t.size - t.next /\ n \in {0, t.next + k}
        BY <1>1, <1>2
  <2>2. /\ u.size = t.size /\ u.nrow = t.nrow + k /\ u.next = n
        /\ u.count \in {t.count, t.nrow + k}
        /\ u.done => k = t.size - t.next
        /\ SafeScans => n = t.next + k \/ u.done \/ (k = 0 /\ t.next = 0)
        /\ SafeScans => u.count = t.count \/ u.done \/ (k = 0 /\ t.next = 0)
        BY <1>5
  <2>3. /\ \A j \in Index : b[j] = IF j \in t.nrow..(t.nrow + k - 1) THEN 1 ELSE a[j]
        /\ \A j \in Index : e[j] = IF j \in t.nrow..(t.nrow + k - 1)
                                   THEN t.next + j - t.nrow ELSE d[j]
        BY <1>4
  <2> HIDE DEF t, d, a
  <2> QED  BY <2>1, <2>2, <2>3, InOrderFilled
<1>7. ASSUME NEW j \in Index, j \in DOMAIN o.rows PROVE o.rows[j] \in Rows
  <2>1. tab[r].size <= MaxRows
        BY <1>1 DEF Filled
  <2>2. j \in tab[r].nrow..(tab[r].nrow + k - 1) /\ o.rows[j] = tab[r].next + j - tab[r].nrow
        BY <1>3, <1>7, Zenon
  <2>3. tab[r].next + j - tab[r].nrow \in 0..(MaxRows - 1)
        BY <1>1, <1>2, <2>1, <2>2, BoundsAssumption
  <2> QED  BY <2>2, <2>3 DEF Rows, Index
<1> QED  BY <1>6, <1>7

\* What an outcome of fetch_row is: PostgreSQL takes any row of the answer or
\* is past its end, the other libraries hand out rows in order.
RowTaken(r, i, o) ==
    /\ backend = "pgsql" /\ i < tab[r].size
    /\ o = Outcome("row", IF i < tab[r].nrow THEN tab[r].nrow ELSE i + 1, 0,
                   [j \in {i} |-> i], FALSE)
PastTheEnd(r, i, o) == backend = "pgsql" /\ i >= tab[r].size /\ o = Unchanged(r, "end")
HandedOut(r, i, o, k, answer, f, n) ==
    /\ o = InOrder(r, answer, k, n, f)
    /\ answer = "row" => k = Wanted(r, i)
    /\ answer = "end" => k = tab[r].size - tab[r].next /\ k < Wanted(r, i)
    /\ SafeScans => n = tab[r].next + k \/ answer = "end" \/ (k = 0 /\ tab[r].next = 0)
    /\ backend = "sqlite3" /\ SafeScans /\ answer = "error" => k = 0 /\ tab[r].next = 0

LEMMA FetchCases ==
    ASSUME RefsInv, NEW r \in Results, NEW i \in Nat, NEW o \in fetch_row(r, i)
    PROVE  \/ RowTaken(r, i, o)
           \/ PastTheEnd(r, i, o)
           \/ /\ backend # "pgsql"
              /\ \E k \in 0..Left(r, i), answer \in {"row", "end", "error"}, f \in BOOLEAN :
                    \E n \in {0, tab[r].next + k} : HandedOut(r, i, o, k, answer, f, n)
<1>1. backend \in {"mysql", "pgsql", "sqlite3"} /\ backend \in Backends
      BY BoundsAssumption DEF RefsInv
<1>2. /\ tab[r].nrow \in Nat /\ tab[r].next \in Nat /\ tab[r].size \in Nat
      /\ tab[r].next <= tab[r].size
      BY DEF RefsInv, TablesOK, Tables
<1>3. /\ Left(r, i) \in Nat /\ Wanted(r, i) \in Nat
      /\ Left(r, i) # Wanted(r, i) =>
            Left(r, i) = tab[r].size - tab[r].next /\ Left(r, i) < Wanted(r, i)
      BY <1>2 DEF Left, Wanted
<1>4. Left(r, i) \in 0..Left(r, i)
      BY <1>3
<1>5. CASE backend = "mysql"
  <2>1. o \in mysql_fetch_row(r, i)
        BY <1>5 DEF fetch_row
  <2>2. PICK a : /\ o = InOrder(r, a, Left(r, i), tab[r].next + Left(r, i), FALSE)
                 /\ a \in (IF Left(r, i) = Wanted(r, i) THEN {"row"}
                           ELSE IF connected THEN {IF stale THEN "error" ELSE "end"}
                           ELSE {"end", "error"})
        BY <2>1, Zenon DEF mysql_fetch_row
  <2>3. /\ a \in {"row", "end", "error"} /\ (a = "row" => Left(r, i) = Wanted(r, i))
        /\ (a = "end" => Left(r, i) # Wanted(r, i))
        BY <2>2
  <2> HIDE DEF Left, Wanted
  <2> QED  BY <1>3, <1>4, <1>5, <2>2, <2>3 DEF HandedOut
<1>6. CASE backend = "sqlite3"
  <2>1. o \in sqlite3_fetch_row(r, i)
        BY <1>6 DEF fetch_row
  <2>2. \/ /\ Left(r, i) = Wanted(r, i)
           /\ o = InOrder(r, "row", Left(r, i), tab[r].next + Left(r, i), FALSE)
        \/ /\ Left(r, i) # Wanted(r, i)
           /\ o = InOrder(r, "end", Left(r, i), 0, FALSE)
        \/ \E j \in 0..Left(r, i) : /\ o = InOrder(r, "error", j, 0, TRUE)
                                     /\ (tab[r].next + j = 0 \/ ScanErrors)
        BY <2>1, Zenon DEF sqlite3_fetch_row
  <2>3. SafeScans => ~ScanErrors
        BY <1>1, <1>6 DEF SafeScans
  <2> HIDE DEF Left, Wanted
  <2>4. ASSUME NEW j \in 0..Left(r, i), o = InOrder(r, "error", j, 0, TRUE),
               tab[r].next + j = 0 \/ ScanErrors
        PROVE  SafeScans => j = 0 /\ tab[r].next = 0
        BY <1>2, <1>3, <2>3, <2>4
  <2> QED  BY <1>3, <1>4, <1>6, <2>2, <2>4 DEF HandedOut
<1>7. CASE backend = "pgsql"
  <2>1. o \in pgsql_fetch_row(r, i)
        BY <1>7 DEF fetch_row
  <2>2. CASE i < tab[r].size
        BY <1>7, <2>1, <2>2 DEF pgsql_fetch_row, RowTaken
  <2>3. CASE ~(i < tab[r].size)
    <3>1. o = Unchanged(r, "end")
          BY <2>1, <2>3 DEF pgsql_fetch_row
    <3>2. i >= tab[r].size
          BY <1>2, <2>3
    <3> QED  BY <1>7, <3>1, <3>2 DEF PastTheEnd
  <2> QED  BY <2>2, <2>3
<1> QED  BY <1>1, <1>5, <1>6, <1>7

\* A call that asked the library.
LEMMA FetchStored ==
    ASSUME RefsInv, RowsInv, NEW r \in Results, refs.table[r] > 0, ~tab[r].done,
           NEW i \in Nat, NEW o \in fetch_row(r, i),
           NEW u, StoredTable(r, o, u), NEW b, NEW e, StoredRows(r, o, b, e),
           \/ u.count = tab[r].count /\ (u.jumped <=> tab[r].jumped \/ i > tab[r].nrow)
           \/ backend = "sqlite3" /\ i = MaxRows /\ u.count = o.nrow
    PROVE  /\ Filled(b, u, e)
           /\ \A j \in Index : j \in DOMAIN o.rows => o.rows[j] \in Rows
<1>1. /\ tab[r] \in Tables /\ tab[r].nrow \in Nat /\ tab[r].next \in Nat
      /\ tab[r].size \in Nat /\ tab[r].next <= tab[r].size
      /\ Filled(refs.row[r], tab[r], data[r])
      BY DEF RefsInv, TablesOK, Tables, RowsInv
<1>2. CASE RowTaken(r, i, o)
  <2> DEFINE t == tab[r]
             d == data[r]
             a == refs.row[r]
  <2>1. /\ o.answer = "row" /\ o.nrow = (IF i < t.nrow THEN t.nrow ELSE i + 1)
        /\ o.rows = [j \in {i} |-> i]
        BY <1>2 DEF RowTaken, Outcome
  <2>2. /\ u.size = t.size /\ u.nrow = (IF i < t.nrow THEN t.nrow ELSE i + 1)
        /\ u.count = t.count /\ (u.done <=> t.done) /\ (u.jumped <=> t.jumped \/ i > t.nrow)
        BY <1>2, <2>1 DEF RowTaken, StoredTable
  <2>3. /\ \A j \in Index : b[j] = IF j \in {i} THEN 1 ELSE a[j]
        /\ \A j \in Index : e[j] = IF j \in {i} THEN i ELSE d[j]
        BY <2>1 DEF StoredRows
  <2>4. t \in Tables /\ Filled(a, t, d) /\ i < t.size /\ backend = "pgsql"
        BY <1>1, <1>2 DEF RowTaken
  <2>5. t.size <= MaxRows /\ t.size \in Nat
        BY <1>1 DEF Filled
  <2> HIDE DEF t, d, a
  <2>6. Filled(b, u, e)
        BY <2>2, <2>3, <2>4, TakenFilled
  <2>7. \A j \in Index : j \in DOMAIN o.rows => o.rows[j] \in Rows
        BY <2>1, <2>4, <2>5, BoundsAssumption DEF Rows, Index
  <2> QED  BY <2>6, <2>7
<1>3. CASE PastTheEnd(r, i, o)
  <2>1. /\ o.answer = "end" /\ o.nrow = tab[r].nrow /\ o.next = tab[r].next /\ o.rows = <<>>
        BY <1>3 DEF PastTheEnd, Unchanged, Outcome
  <2>2. /\ u.size = tab[r].size /\ u.nrow = tab[r].nrow /\ u.next = tab[r].next
        /\ u.count = tab[r].count /\ (u.jumped <=> tab[r].jumped \/ i > tab[r].nrow)
        BY <1>3, <2>1 DEF PastTheEnd, StoredTable
  <2>3. /\ \A j \in Index : j \notin DOMAIN o.rows
        BY <2>1
  <2>4. \A j \in Index : b[j] = refs.row[r][j] /\ e[j] = data[r][j]
        BY <2>3 DEF StoredRows
  <2>5. u.size <= u.nrow \/ u.jumped
        BY <1>1, <1>3, <2>2 DEF PastTheEnd
  <2>6. Filled(b, u, e)
        BY <1>1, <1>3, <2>2, <2>4, <2>5 DEF PastTheEnd, Filled
  <2> QED  BY <2>3, <2>6
<1>4. ASSUME backend # "pgsql",
             NEW k \in 0..Left(r, i), NEW answer \in {"row", "end", "error"}, NEW f \in BOOLEAN,
             NEW n \in {0, tab[r].next + k},
             HandedOut(r, i, o, k, answer, f, n)
      PROVE  /\ Filled(b, u, e)
             /\ \A j \in Index : j \in DOMAIN o.rows => o.rows[j] \in Rows
  <2>1. SafeScans => u.count = tab[r].count \/ answer = "end" \/ (k = 0 /\ tab[r].next = 0)
    <3>1. ASSUME SafeScans, i = MaxRows, answer = "row" PROVE FALSE
      <4>1. /\ tab[r].size <= MaxRows /\ tab[r].nrow <= tab[r].size
            /\ tab[r].next = tab[r].nrow
            BY <1>1, <1>4, <3>1 DEF Filled
      <4>2. Wanted(r, i) = MaxRows + 1 - tab[r].nrow /\ k = Wanted(r, i)
            BY <1>1, <1>4, <3>1, <4>1, BoundsAssumption DEF HandedOut, Wanted
      <4>3. k <= tab[r].size - tab[r].next
        <5>1. Left(r, i) \in Int /\ Left(r, i) <= tab[r].size - tab[r].next
              BY <1>1 DEF Left, Wanted
        <5> QED  BY <1>1, <5>1
      <4> QED  BY <1>1, <4>1, <4>2, <4>3, BoundsAssumption
    <3> QED  BY <1>4, <3>1 DEF HandedOut
  <2>2. u.count \in {tab[r].count, o.nrow}
        OBVIOUS
  <2>3. /\ o = InOrder(r, answer, k, n, f)
        /\ answer = "end" => k = tab[r].size - tab[r].next
        /\ SafeScans => n = tab[r].next + k \/ answer = "end" \/ (k = 0 /\ tab[r].next = 0)
        BY <1>4 DEF HandedOut
  <2> QED  BY <1>4, <2>1, <2>2, <2>3, InOrderStored
<1> QED  BY <1>2, <1>3, <1>4, FetchCases

\* get_row, and what Store makes of it.
LEMMA GotStored ==
    ASSUME RefsInv, RowsInv, NEW r \in Results, refs.table[r] > 0, NEW i \in Nat,
           NEW o \in get_row(r, i), Store(r, i, o)
    PROVE  /\ Filled(CacheRows(refs, r, o).row[r], tab'[r], data'[r])
           /\ data' \in [Results -> [Index -> Rows]]
           /\ \A s \in Results \ {r} : tab'[s] = tab[s] /\ data'[s] = data[s]
<1>1. /\ tab \in [Results -> Tables] /\ refs \in Kept
      /\ data \in [Results -> [Index -> Rows]]
      /\ Filled(refs.row[r], tab[r], data[r])
      BY DEF RefsInv, TablesOK, RowsInv
<1> DEFINE b == CacheRows(refs, r, o).row[r]
           e == data'[r]
           u == tab'[r]
<1>2. u = [size |-> tab[r].size, nrow |-> o.nrow,
           done |-> tab[r].done \/ o.answer = "end", count |-> tab[r].count,
           next |-> o.next, jumped |-> tab[r].jumped \/ i > tab[r].nrow]
      BY <1>1, ZenonT(30) DEF Store, Tables
<1>3. /\ e = [j \in Index |-> IF j \in DOMAIN o.rows THEN o.rows[j] ELSE data[r][j]]
      /\ \A s \in Results \ {r} : tab'[s] = tab[s] /\ data'[s] = data[s]
      BY <1>1 DEF Store
<1>4. b = [j \in Index |-> IF j \in DOMAIN o.rows THEN 1 ELSE refs.row[r][j]]
      BY <1>1 DEF CacheRows, Kept
<1>5. /\ StoredTable(r, o, u) /\ StoredRows(r, o, b, e)
      /\ u.count = tab[r].count /\ (u.jumped <=> tab[r].jumped \/ i > tab[r].nrow)
  <2> HIDE DEF u, b, e
  <2> QED  BY <1>2, <1>3, <1>4 DEF StoredTable, StoredRows
<1>6. \/ \E a \in {"row", "end", "error"} : /\ o = Unchanged(r, a)
                                            /\ a = "end" => tab[r].done
      \/ ~tab[r].done /\ o \in fetch_row(r, i)
      BY Zenon DEF get_row
<1>7. /\ Filled(b, u, e)
      /\ \A j \in Index : j \in DOMAIN o.rows => o.rows[j] \in Rows
  <2>1. ASSUME NEW a \in {"row", "end", "error"}, o = Unchanged(r, a), a = "end" => tab[r].done
        PROVE  /\ Filled(b, u, e) /\ \A j \in Index : j \notin DOMAIN o.rows
    <3>1. /\ o.answer = a /\ o.nrow = tab[r].nrow /\ o.next = tab[r].next /\ o.rows = <<>>
          BY <2>1 DEF Unchanged, Outcome
    <3>2. \A j \in Index : j \notin DOMAIN o.rows
          BY <3>1
    <3> HIDE DEF u, b, e
    <3>3. \A j \in Index : b[j] = refs.row[r][j] /\ e[j] = data[r][j]
          BY <1>5, <3>2 DEF StoredRows
    <3>4. Filled(b, u, e)
          BY <1>1, <1>5, <2>1, <3>1, <3>3 DEF Filled, StoredTable
    <3> QED  BY <3>2, <3>4
  <2>2. CASE ~tab[r].done /\ o \in fetch_row(r, i)
    <3> HIDE DEF u, b, e
    <3> QED  BY <1>5, <2>2, FetchStored
  <2> QED  BY <1>6, <2>1, <2>2
<1>8. data' \in [Results -> [Index -> Rows]]
  <2>1. e \in [Index -> Rows]
        BY <1>1, <1>3, <1>7
  <2> QED  BY <1>1, <1>3, <2>1 DEF Store
<1> QED  BY <1>3, <1>7, <1>8

\* A step after which the tables c still counts are as they should be, and
\* that otherwise only releases tables.
LEMMA RowsKept ==
    ASSUME NEW c, backend' = backend, data' \in [Results -> [Index -> Rows]],
           \A s \in Results : c.table[s] > 0 => Filled(c.row[s], tab'[s], data'[s]),
           Within(c, refs')
    PROVE  RowsInv'
<1>1. ASSUME NEW s \in Results, refs'.table[s] > 0
      PROVE  Filled(refs.row[s], tab[s], data[s])'
  <2>1. Filled(c.row[s], tab'[s], data'[s])
        BY <1>1 DEF Within
  <2>2. \A j \in Index : refs'.row[s][j] > 0 <=> c.row[s][j] > 0
        BY <1>1 DEF Within
  <2>3. Filled(refs'.row[s], tab'[s], data'[s])
        BY <2>1, <2>2, FilledAlike
  <2> QED  BY <2>3 DEF Filled
<1> QED  BY <1>1 DEF RowsInv

----------------------------------------------------------------------------
(* The steps. *)

\* A step that leaves the tables alone.
LEMMA SameTableStep ==
    ASSUME RowsInv, UNCHANGED <<backend, tab, data>>, Within(refs, refs')
    PROVE  RowsInv'
BY RowsKept DEF RowsInv

LEMMA HandleRows ==
    ASSUME Careful, RefsInv, HeldBounded, RowsInv, Handles \/ \E r \in Results : TableHandles(r)
    PROVE  RowsInv'
<1>1. UNCHANGED <<backend, tab, data>>
      BY Zenon DEF Handles, TableHandles, SqlNew, CopySql, DestroySql, CopyDb, DestroyDb,
                   CopyTable, DestroyTable, CopyRow, DestroyRow, CopyResult, DestroyResult,
                   Keeps, Release, tableVars
<1>2. Within(refs, refs')
      BY HandlesStep, TableHandlesStep
<1> QED  BY <1>1, <1>2, SameTableStep

LEMMA DbNewRows ==
    ASSUME RefsInv, RowsInv, NEW a, NEW known, DbNew(a, known)
    PROVE  RowsInv'
<1>1. UNCHANGED <<backend, tab, data>>
      BY Zenon DEF DbNew, tableVars
<1> QED  BY <1>1, DbNewStep, SameTableStep

\* The references of a new table.
LEMMA NewReferences ==
    ASSUME NEW c \in Kept, NEW r \in Results, NEW kind, NEW b, b = db_ref(sql_ref(FirstBoth(c, r))),
           NEW d, \/ d = sql_ref(FirstTable(c, r))
                  \/ d = IF kind = "values" THEN db_ref(FirstSelection(b, r)) ELSE b
    PROVE  d.row = c.row /\ \A s \in Results \ {r} : d.table[s] = c.table[s]
<1>1. CASE d = sql_ref(FirstTable(c, r))
      BY <1>1 DEF Kept, sql_ref, FirstTable
<1>2. b.row = c.row /\ \A s \in Results \ {r} : b.table[s] = c.table[s]
  <2>1. b = [sql |-> c.sql + 1, db |-> c.db + 1, selection |-> c.selection,
             table |-> [c.table EXCEPT ![r] = 1], result |-> [c.result EXCEPT ![r] = 1],
             row |-> c.row]
        BY DEF Kept, sql_ref, db_ref, FirstBoth
  <2> QED  BY <2>1 DEF Kept
<1>3. CASE d = b
      BY <1>2, <1>3
<1>4. CASE d = db_ref(FirstSelection(b, r))
  <2>1. d.row = b.row /\ d.table = b.table
    <3>1. b = [sql |-> c.sql + 1, db |-> c.db + 1, selection |-> c.selection,
               table |-> [c.table EXCEPT ![r] = 1], result |-> [c.result EXCEPT ![r] = 1],
               row |-> c.row]
          BY DEF Kept, sql_ref, db_ref, FirstBoth
    <3> QED  BY <1>4, <3>1 DEF db_ref, FirstSelection
  <2> QED  BY <1>2, <2>1
<1> QED  BY <1>1, <1>3, <1>4

\* A table made by a query is empty.
LEMMA NewTableRows ==
    ASSUME RefsInv, RowsInv, NEW r \in Results, refs.table[r] = 0, NEW a, NEW size \in Sizes(a),
           table_new(r, size), backend' = backend, refs'.row = refs.row,
           \A s \in Results \ {r} : refs'.table[s] = refs.table[s]
    PROVE  RowsInv'
<1>1. /\ refs \in Kept /\ own \in Kept /\ lost \in Nat /\ Exact(refs, own, lost, use)
      /\ tab \in [Results -> Tables] /\ data \in [Results -> [Index -> Rows]]
      BY DEF RefsInv, TablesOK, RowsInv
<1>2. \A i \in Index : refs.row[r][i] = 0
      BY <1>1, EmptyPlace
<1>3. size \in Nat /\ size <= MaxRows
  <2>1. size \in 1..MaxRows \/ size \in {0}
        BY Zenon DEF Sizes
  <2> QED  BY <2>1, BoundsAssumption
<1>4. /\ tab'[r] = [size |-> size, nrow |-> 0, done |-> FALSE, count |-> 0, next |-> 0,
                    jumped |-> FALSE]
      /\ data'[r] = [i \in Index |-> NoRow]
      /\ data' \in [Results -> [Index -> Rows]]
      /\ \A s \in Results \ {r} : tab'[s] = tab[s] /\ data'[s] = data[s]
      BY <1>1 DEF table_new, Rows
<1>5. Filled(refs'.row[r], tab'[r], data'[r])
      BY <1>2, <1>3, <1>4 DEF Filled, Index
<1>6. \A s \in Results : refs'.table[s] > 0 => Filled(refs'.row[s], tab'[s], data'[s])
      BY <1>4, <1>5 DEF RowsInv
<1>7. Within(refs', refs')
      BY DEF Within
<1> QED  BY <1>4, <1>6, <1>7, RowsKept

LEMMA QueryRows ==
    ASSUME RefsInv, RowsInv, NEW r \in Results, NEW a,
           Query(r, a) \/ GetResult(r, "idents", a) \/ GetResult(r, "values", a)
    PROVE  RowsInv'
<1>1. refs \in Kept /\ refs.table[r] = 0 /\ backend' = backend
      BY Zenon DEF RefsInv, Query, GetResult
<1>2. CASE UNCHANGED <<tab, data, refs>>
  <2>1. Within(refs, refs')
        BY <1>2 DEF Within
  <2> QED  BY <1>1, <1>2, <2>1, SameTableStep
<1>3. ASSUME NEW size \in Sizes(a), table_new(r, size), NEW kind,
             NEW b, b = db_ref(sql_ref(FirstBoth(refs, r))),
             \/ refs' = sql_ref(FirstTable(refs, r))
             \/ refs' = IF kind = "values" THEN db_ref(FirstSelection(b, r)) ELSE b
      PROVE  RowsInv'
  <2>1. refs'.row = refs.row /\ \A s \in Results \ {r} : refs'.table[s] = refs.table[s]
        BY <1>1, <1>3, NewReferences
  <2> QED  BY <1>1, <1>3, <2>1, NewTableRows
<1>4. \/ UNCHANGED <<tab, data, refs>>
      \/ \E size \in Sizes(a) :
            table_new(r, size) /\ refs' = sql_ref(FirstTable(refs, r))
      \/ \E size \in Sizes(a), kind \in {"idents", "values"} :
            /\ table_new(r, size)
            /\ refs' = IF kind = "values"
                       THEN db_ref(FirstSelection(db_ref(sql_ref(FirstBoth(refs, r))), r))
                       ELSE db_ref(sql_ref(FirstBoth(refs, r)))
      BY Zenon DEF Query, GetResult, FirstTable, FirstBoth, FirstSelection, tableVars
<1> QED  BY <1>2, <1>3, <1>4

\* The cache after a call that stored what it fetched.
LEMMA CacheAfter ==
    ASSUME RefsInv, RowsInv, NEW r \in Results, refs.table[r] > 0, NEW i \in Nat,
           NEW o \in get_row(r, i), Store(r, i, o), backend' = backend,
           Within(CacheRows(refs, r, o), refs')
    PROVE  RowsInv'
<1> DEFINE c == CacheRows(refs, r, o)
<1>1. /\ Filled(c.row[r], tab'[r], data'[r])
      /\ data' \in [Results -> [Index -> Rows]]
      /\ \A s \in Results \ {r} : tab'[s] = tab[s] /\ data'[s] = data[s]
      BY GotStored
<1>2. c.table = refs.table /\ \A s \in Results \ {r} : c.row[s] = refs.row[s]
      BY DEF CacheRows, RefsInv, Kept
<1> HIDE DEF c
<1>3. \A s \in Results : c.table[s] > 0 => Filled(c.row[s], tab'[s], data'[s])
      BY <1>1, <1>2 DEF RowsInv
<1>4. Within(c, refs')
      BY DEF c
<1> QED  BY <1>1, <1>3, <1>4, RowsKept

LEMMA TableGetRows ==
    ASSUME Careful, RefsInv, HeldBounded, RowsInv, NEW r \in Results, NEW i \in 0..MaxRows,
           TableGet(r, i)
    PROVE  RowsInv'
<1>1. refs.table[r] > 0 /\ i \in Nat /\ own \in Kept /\ lost \in Nat /\ backend' = backend
      BY TableHeld, BoundsAssumption DEF TableGet, RefsInv
<1>2. PICK o \in get_row(r, i) :
         /\ Store(r, i, o)
         /\ \/ /\ i \in Index /\ CacheRows(refs, r, o).row[r][i] > 0
               /\ own.row[r][i] > 0 \/ Cardinality(RowsHeld(r)) < MaxRowsHeld
               /\ refs' = row_ref(CacheRows(refs, r, o), r, i)
            \/ refs' = CacheRows(refs, r, o)
      BY Zenon DEF TableGet
<1> DEFINE c == CacheRows(refs, r, o)
<1>3. c \in Kept /\ Exact(c, own, lost, use)
      BY <1>1, <1>2, Stored
<1> HIDE DEF c
<1>4. Within(c, refs')
  <2>1. CASE /\ i \in Index /\ c.row[r][i] > 0 /\ refs' = row_ref(c, r, i)
             /\ own.row[r][i] > 0 \/ Cardinality(RowsHeld(r)) < MaxRowsHeld
        BY <1>1, <1>3, <2>1, RowTakenRoom, RowCopied
  <2>2. CASE refs' = c
        BY <2>2 DEF Within
  <2> QED  BY <1>2, <2>1, <2>2 DEF c
<1> QED  BY <1>1, <1>2, <1>4, CacheAfter DEF c

LEMMA ResultGetRows ==
    ASSUME RefsInv, RowsInv, NEW r \in Results, NEW i \in 0..MaxRows, ResultGet(r, i)
    PROVE  RowsInv'
<1>1. /\ refs.table[r] > 0 /\ i \in Nat /\ own \in Kept /\ lost \in Nat
      /\ own.result[r] > 0 /\ backend' = backend
      BY TableHeld, BoundsAssumption DEF ResultGet, RefsInv
<1>2. PICK o \in get_row(r, i) :
         /\ Store(r, i, o)
         /\ \/ refs' = MoreResult(CacheRows(refs, r, o), r)
            \/ refs' = CacheRows(refs, r, o)
      BY Zenon DEF ResultGet, MoreResult
<1> DEFINE c == CacheRows(refs, r, o)
<1>3. c \in Kept /\ Exact(c, own, lost, use)
      BY <1>1, <1>2, Stored
<1> HIDE DEF c
<1>4. Within(c, refs')
  <2>1. CASE refs' = MoreResult(c, r)
        BY <1>1, <1>3, <2>1, ResultCopied
  <2>2. CASE refs' = c
        BY <2>2 DEF Within
  <2> QED  BY <1>2, <2>1, <2>2 DEF c
<1> QED  BY <1>1, <1>2, <1>4, CacheAfter DEF c

\* The row count: on SQLite the rows are fetched up to one that is not there.
LEMMA RowCountRows ==
    ASSUME RefsInv, RowsInv, NEW r \in Results, GetRowCount(r)
    PROVE  RowsInv'
<1>1. /\ refs.table[r] > 0 /\ backend' = backend /\ refs \in Kept
      /\ tab \in [Results -> Tables] /\ tab[r].done \in BOOLEAN /\ tab[r].size \in Nat
      /\ tab[r].nrow \in Nat
      /\ data \in [Results -> [Index -> Rows]] /\ Filled(refs.row[r], tab[r], data[r])
  <2>1. refs.table[r] > 0
        BY TableHeld DEF GetRowCount, CountRows
  <2>2. backend' = backend
        BY Zenon DEF GetRowCount, CountRows
  <2> QED  BY <2>1, <2>2 DEF RefsInv, TablesOK, Tables, RowsInv
<1>2. CASE backend # "sqlite3"
  <2>1. tab' = [tab EXCEPT ![r].count = tab[r].size] /\ refs' = refs /\ data' = data
        BY <1>2, Zenon DEF GetRowCount, CountRows
  <2>2. /\ tab'[r] = [size |-> tab[r].size, nrow |-> tab[r].nrow, done |-> tab[r].done,
                      count |-> tab[r].size, next |-> tab[r].next, jumped |-> tab[r].jumped]
        /\ \A s \in Results \ {r} : tab'[s] = tab[s]
        BY <1>1, <2>1 DEF Tables
  <2>3. Filled(refs.row[r], tab'[r], data[r])
        BY <1>1, <2>2 DEF Filled
  <2>4. \A s \in Results : refs.table[s] > 0 => Filled(refs.row[s], tab'[s], data'[s])
        BY <2>1, <2>2, <2>3 DEF RowsInv
  <2>5. Within(refs, refs')
        BY <2>1 DEF Within
  <2> QED  BY <1>1, <2>1, <2>4, <2>5, RowsKept
<1>3. CASE backend = "sqlite3"
  <2>1. PICK o \in IF tab[r].done THEN {Unchanged(r, "end")} ELSE fetch_row(r, MaxRows) :
             /\ refs' = CacheRows(refs, r, o)
             /\ tab' = [tab EXCEPT ![r].nrow = o.nrow, ![r].next = o.next,
                                   ![r].done = @ \/ o.answer = "end", ![r].count = o.nrow]
             /\ data' = [data EXCEPT ![r] = [j \in Index |->
                              IF j \in DOMAIN o.rows THEN o.rows[j] ELSE @[j]]]
        BY <1>3, Zenon DEF GetRowCount, CountRows
  <2> DEFINE b == refs'.row[r]
             e == data'[r]
             u == tab'[r]
  <2>2. /\ u = [size |-> tab[r].size, nrow |-> o.nrow,
                done |-> tab[r].done \/ o.answer = "end", count |-> o.nrow,
                next |-> o.next, jumped |-> tab[r].jumped]
        /\ \A s \in Results \ {r} : tab'[s] = tab[s]
        BY <1>1, <2>1, ZenonT(30) DEF Tables
  <2>3. /\ e = [j \in Index |-> IF j \in DOMAIN o.rows THEN o.rows[j] ELSE data[r][j]]
        /\ \A s \in Results \ {r} : data'[s] = data[s]
        BY <1>1, <2>1
  <2>4. /\ b = [j \in Index |-> IF j \in DOMAIN o.rows THEN 1 ELSE refs.row[r][j]]
        /\ refs'.table = refs.table /\ \A s \in Results \ {r} : refs'.row[s] = refs.row[s]
        BY <1>1, <2>1 DEF CacheRows, Kept
  <2>5. /\ StoredTable(r, o, u) /\ StoredRows(r, o, b, e) /\ u.count = o.nrow
    <3> HIDE DEF u, b, e
    <3> QED  BY <2>2, <2>3, <2>4 DEF StoredTable, StoredRows
  <2>6. Filled(b, u, e) /\ \A j \in Index : j \in DOMAIN o.rows => o.rows[j] \in Rows
    <3>1. CASE tab[r].done
      <4>1. /\ o.answer = "end" /\ o.nrow = tab[r].nrow /\ o.next = tab[r].next /\ o.rows = <<>>
            BY <2>1, <3>1 DEF Unchanged, Outcome
      <4>2. \A j \in Index : j \notin DOMAIN o.rows
            BY <4>1
      <4>3. /\ u.size = tab[r].size /\ u.nrow = tab[r].nrow /\ u.next = tab[r].next
            /\ u.count = tab[r].nrow /\ u.done
        <5>1. u.done = (tab[r].done \/ o.answer = "end")
              BY <2>2
        <5>2. /\ u.size = tab[r].size /\ u.nrow = o.nrow /\ u.next = o.next
              /\ u.count = o.nrow
              BY <2>2
        <5> HIDE DEF u
        <5> QED  BY <3>1, <4>1, <5>1, <5>2
      <4> HIDE DEF u, b, e
      <4>4. \A j \in Index : b[j] = refs.row[r][j] /\ e[j] = data[r][j]
            BY <2>5, <4>2 DEF StoredRows
      <4>5. SafeScans => tab[r].nrow = tab[r].size
        <5>1. tab[r].size <= tab[r].nrow
              BY <1>1, <1>3, <3>1 DEF Filled
        <5>2. SafeScans => tab[r].nrow <= tab[r].size
              BY <1>1 DEF Filled
        <5> QED  BY <1>1, <5>1, <5>2
      <4>6. Filled(b, u, e)
            BY <1>1, <1>3, <3>1, <4>3, <4>4, <4>5 DEF Filled
      <4> QED  BY <4>2, <4>6
    <3>2. CASE ~tab[r].done
      <4>1. o \in fetch_row(r, MaxRows) /\ MaxRows \in Nat
            BY <2>1, <3>2, BoundsAssumption
      <4> HIDE DEF u, b, e
      <4> QED  BY <1>1, <1>3, <2>5, <3>2, <4>1, FetchStored
    <3> QED  BY <1>1, <3>1, <3>2
  <2>7. data' \in [Results -> [Index -> Rows]]
    <3>1. e \in [Index -> Rows]
          BY <1>1, <2>3, <2>6
    <3> QED  BY <1>1, <2>1, <2>3, <3>1
  <2>8. \A s \in Results : refs'.table[s] > 0 => Filled(refs'.row[s], tab'[s], data'[s])
        BY <2>2, <2>3, <2>4, <2>6 DEF RowsInv
  <2>9. Within(refs', refs')
        BY DEF Within
  <2> QED  BY <1>1, <2>7, <2>8, <2>9, RowsKept
<1> QED  BY <1>2, <1>3

LEMMA DeletesRows ==
    ASSUME RefsInv, RowsInv, NEW r \in Results, Deletes(r)
    PROVE  RowsInv'
<1>1. CASE DeleteStart(r) \/ \E a \in Answers : do_delete(r, a)
  <2>1. UNCHANGED <<backend, tab, data, refs>>
        BY <1>1, Zenon DEF DeleteStart, do_delete, tableVars
  <2>2. Within(refs, refs')
        BY <2>1 DEF Within
  <2> QED  BY <2>1, <2>2, SameTableStep
<1>2. CASE get_string_from_result_ident(r)
  <2>1. /\ del.on = r /\ backend' = backend
        /\ \E o \in get_row(r, del.i) : Store(r, del.i, o) /\ refs' = CacheRows(refs, r, o)
        BY <1>2, Zenon DEF get_string_from_result_ident, CollectIdent
  <2>2. del.i \in Nat /\ refs.table[r] > 0
        BY <2>1, TableHeld, BoundsAssumption DEF RefsInv, DeletionOK
  <2>3. Within(refs', refs')
        BY DEF Within
  <2> QED  BY <2>1, <2>2, <2>3, CacheAfter
<1> QED  BY <1>1, <1>2, Zenon DEF Deletes

LEMMA RowsInit ==
    ASSUME Init
    PROVE  RowsInv
<1>1. \A r \in Results : refs.table[r] = 0
      BY DEF Init, sql_ref, NoRefs
<1>2. data \in [Results -> [Index -> Rows]]
      BY DEF Init, Rows
<1> QED  BY <1>1, <1>2 DEF RowsInv

LEMMA RowsStep ==
    ASSUME Careful, RefsInv, HeldBounded, RowsInv, [Next]_vars
    PROVE  RowsInv'
<1>1. CASE UNCHANGED vars
  <2>1. UNCHANGED <<backend, tab, data>> /\ Within(refs, refs')
        BY <1>1 DEF vars, Within
  <2> QED  BY <2>1, SameTableStep
<1>2. CASE Handles \/ \E r \in Results : TableHandles(r)
      BY <1>2, HandleRows
<1>3. ASSUME NEW a \in Answers, NEW known \in BOOLEAN, DbNew(a, known) PROVE RowsInv'
      BY <1>3, DbNewRows
<1>4. ASSUME NEW r \in Results, Asks(r) PROVE RowsInv'
  <2>1. CASE \E a \in Answers : Query(r, a) \/ GetResult(r, "idents", a) \/ GetResult(r, "values", a)
        BY <2>1, QueryRows
  <2>2. CASE \E i \in 0..MaxRows : TableGet(r, i) \/ ResultGet(r, i)
        BY <2>2, TableGetRows, ResultGetRows
  <2>3. CASE GetRowCount(r)
        BY <2>3, RowCountRows
  <2> QED  BY <1>4, <2>1, <2>2, <2>3, Zenon DEF Asks
<1>5. ASSUME NEW r \in Results, Deletes(r) PROVE RowsInv'
      BY <1>5, DeletesRows
<1>6. ASSUME NEW a \in Answers, OtherQuery(a) PROVE RowsInv'
  <2>1. UNCHANGED <<backend, tab, data, refs>>
        BY <1>6, Zenon DEF OtherQuery, tableVars
  <2>2. Within(refs, refs')
        BY <2>1 DEF Within
  <2> QED  BY <2>1, <2>2, SameTableStep
<1> QED  BY <1>1, <1>2, <1>3, <1>4, <1>5, <1>6, Zenon DEF Next

\* The rows of every table are as Filled says, on every client library and
\* whatever the program, the other threads and the server do.
THEOREM RowsInvariant == Careful => (Spec => [](RefsInv /\ RowsInv))
<1> SUFFICES ASSUME Careful PROVE Spec => [](RefsInv /\ RowsInv)
    OBVIOUS
<1>1. Init => RowsInv
      BY RowsInit
<1>2. RefsInv /\ HeldBounded /\ RowsInv /\ [Next]_vars => RowsInv'
      BY RowsStep
<1> QED  BY <1>1, <1>2, RefsInvariant, PTL DEF Spec

\* The row get_row caches at an index is the server's row of that index, and
\* only PostgreSQL leaves a hole in the cache, provided no scan of SQLite fails
\* after its first row.
THEOREM RowsAreInPlace == Careful => (Spec => [](SafeScans => RowsInPlace))
<1> SUFFICES ASSUME Careful PROVE Spec => [](SafeScans => RowsInPlace)
    OBVIOUS
<1>1. RefsInv /\ RowsInv => (SafeScans => RowsInPlace)
  <2> SUFFICES ASSUME RefsInv, RowsInv, SafeScans, NEW r \in Results, refs.table[r] > 0
               PROVE  /\ \A i \in Index : Cached(r, i) => i < tab[r].nrow /\ data[r][i] = i
                      /\ backend # "pgsql" => \A i \in 0..(tab[r].nrow - 1) : Cached(r, i)
      BY DEF RowsInPlace
  <2>1. /\ tab[r].nrow \in Nat /\ tab[r].size \in Nat
        /\ Filled(refs.row[r], tab[r], data[r])
        BY DEF RefsInv, TablesOK, Tables, RowsInv
  <2>2. ASSUME NEW i \in Index, Cached(r, i) PROVE i < tab[r].nrow /\ data[r][i] = i
        BY <2>1, <2>2 DEF Cached, RefsInv, RowsBelow, Filled
  <2>3. ASSUME backend # "pgsql", NEW i \in 0..(tab[r].nrow - 1) PROVE Cached(r, i)
    <3>1. tab[r].nrow <= MaxRows
          BY <2>1, BoundsAssumption DEF Filled
    <3>2. i \in Index /\ i < tab[r].nrow
          BY <2>1, <2>3, <3>1, BoundsAssumption DEF Index
    <3> QED  BY <2>1, <2>3, <3>2 DEF Filled, Cached
  <2> QED  BY <2>2, <2>3
<1> QED  BY <1>1, RowsInvariant, PTL

\* A table whose done flag is set has every row of the answer in its cache,
\* unless PostgreSQL was asked for a row before the ones in front of it.
THEOREM EndIsTheEnd == Careful => (Spec => []EndMeansRead)
<1> SUFFICES ASSUME Careful PROVE Spec => []EndMeansRead
    OBVIOUS
<1>1. RefsInv /\ RowsInv => EndMeansRead
  <2> SUFFICES ASSUME RefsInv, RowsInv, NEW r \in Results, refs.table[r] > 0, ~Jumped(r),
                      tab[r].done, NEW i \in 0..(tab[r].size - 1)
               PROVE  Cached(r, i)
      BY DEF EndMeansRead, Hidden
  <2>1. /\ tab[r].nrow \in Nat /\ tab[r].size \in Nat
        /\ Filled(refs.row[r], tab[r], data[r])
        BY DEF RefsInv, TablesOK, Tables, RowsInv
  <2>2. tab[r].size <= tab[r].nrow /\ tab[r].size <= MaxRows
        BY <2>1 DEF Filled, Jumped
  <2>3. i \in Index /\ i < tab[r].nrow
        BY <2>1, <2>2, BoundsAssumption DEF Index
  <2> QED  BY <2>1, <2>3 DEF Filled, Jumped, Cached
<1> QED  BY <1>1, RowsInvariant, PTL

\* The row count a table keeps is the size of the answer, SQLite's included,
\* which is counted by fetching.
THEOREM CountIsRight == Careful => (Spec => [](SafeScans => CountRight))
<1> SUFFICES ASSUME Careful PROVE Spec => [](SafeScans => CountRight)
    OBVIOUS
<1>1. RefsInv /\ RowsInv => (SafeScans => CountRight)
      BY DEF RowsInv, Filled, CountRight
<1> QED  BY <1>1, RowsInvariant, PTL

----------------------------------------------------------------------------
(***************************************************************************)
(* A deletion from result idents.  Its loop has read the rows 0..i-1, in    *)
(* this order, as long as no call failed and no row was passed over.        *)
(***************************************************************************)
ReadUpTo(d, size) ==
    /\ d.i <= size /\ Len(d.list) = d.i
    /\ \A k \in 1..d.i : d.list[k] = k - 1
    /\ d.ready => d.i = size
ReadInv ==
    del.on # Nobody =>
        /\ del.list \in Seq(Rows) /\ del.ident \in Rows
        /\ del.failed \in BOOLEAN /\ del.ready \in BOOLEAN
        /\ del.failed \/ Jumped(del.on) \/ ReadUpTo(del, tab[del.on].size)

\* A row that get_row returned is one of the answer's, and is cached.
LEMMA RowAnswered ==
    ASSUME RefsInv, RowsInv, SafeScans, NEW r \in Results, refs.table[r] > 0, NEW i \in Nat,
           NEW o \in get_row(r, i), o.answer = "row"
    PROVE  i < tab[r].size /\ i \in Index /\ CacheRows(refs, r, o).row[r][i] > 0
<1>1. /\ tab[r].nrow \in Nat /\ tab[r].next \in Nat /\ tab[r].size \in Nat
      /\ tab[r].next <= tab[r].size /\ refs \in Kept
      /\ Filled(refs.row[r], tab[r], data[r])
      BY DEF RefsInv, TablesOK, Tables, RowsInv
<1>2. tab[r].nrow <= tab[r].size /\ tab[r].size <= MaxRows
      BY <1>1 DEF Filled
<1>3. \A j \in Index : CacheRows(refs, r, o).row[r][j]
                           = IF j \in DOMAIN o.rows THEN 1 ELSE refs.row[r][j]
      BY <1>1 DEF CacheRows, Kept
<1>4. CASE Cached(r, i)
  <2>1. i \in Index /\ refs.row[r][i] > 0 /\ i < tab[r].nrow
        BY <1>4 DEF Cached, RefsInv, RowsBelow
  <2>2. i < tab[r].size
        BY <1>1, <1>2, <2>1
  <2> QED  BY <1>3, <2>1, <2>2
<1>5. CASE ~Cached(r, i)
  <2>1. ~tab[r].done /\ o \in fetch_row(r, i)
    <3>1. tab[r].done => o \in {Unchanged(r, "end"), Unchanged(r, "error")}
          BY <1>5 DEF get_row
    <3>2. tab[r].done => o.answer # "row"
          BY <3>1 DEF Unchanged, Outcome
    <3>3. tab[r].done \in BOOLEAN
          BY DEF RefsInv, TablesOK, Tables
    <3> QED  BY <1>5, <3>2, <3>3 DEF get_row
  <2>2. CASE RowTaken(r, i, o)
    <3>1. i < tab[r].size /\ o.rows = [j \in {i} |-> i]
          BY <2>2 DEF RowTaken, Outcome
    <3>2. i \in Index
          BY <1>1, <1>2, <3>1, BoundsAssumption DEF Index
    <3> QED  BY <1>3, <3>1, <3>2
  <2>3. ~PastTheEnd(r, i, o)
        BY DEF PastTheEnd, Unchanged, Outcome
  <2>4. ASSUME backend # "pgsql",
               NEW k \in 0..Left(r, i), NEW answer \in {"row", "end", "error"},
               NEW f \in BOOLEAN, NEW n \in {0, tab[r].next + k},
               HandedOut(r, i, o, k, answer, f, n)
        PROVE  i < tab[r].size /\ i \in Index /\ CacheRows(refs, r, o).row[r][i] > 0
    <3>1. /\ answer = "row" /\ k = Wanted(r, i)
          /\ DOMAIN o.rows = tab[r].nrow..(tab[r].nrow + k - 1)
          BY <2>4 DEF HandedOut, InOrder, Outcome
    <3>2. k \in Nat /\ k <= tab[r].size - tab[r].next
      <4>1. Left(r, i) \in Int /\ Left(r, i) <= tab[r].size - tab[r].next
            BY <1>1 DEF Left, Wanted
      <4> QED  BY <1>1, <4>1
    <3>3. tab[r].next = tab[r].nrow
          BY <1>1, <2>1, <2>4 DEF Filled
    <3>4. CASE i < tab[r].nrow
      <4>1. i \in Index
            BY <1>1, <1>2, <3>4, BoundsAssumption DEF Index
      <4>2. refs.row[r][i] > 0
            BY <1>1, <2>4, <3>4, <4>1 DEF Filled
      <4> QED  BY <1>1, <1>2, <1>3, <3>4, <4>1, <4>2
    <3>5. CASE ~(i < tab[r].nrow)
      <4>1. k = i + 1 - tab[r].nrow
            BY <3>1, <3>5 DEF Wanted
      <4>2. i < tab[r].size /\ i \in tab[r].nrow..(tab[r].nrow + k - 1)
            BY <1>1, <3>2, <3>3, <3>5, <4>1
      <4>3. i \in Index
            BY <1>1, <1>2, <4>2, BoundsAssumption DEF Index
      <4> QED  BY <1>3, <3>1, <4>2, <4>3
    <3> QED  BY <3>4, <3>5
  <2> QED  BY <2>1, <2>2, <2>3, <2>4, FetchCases
<1> QED  BY <1>4, <1>5

\* get_row says there is no row only past the rows of the answer.
LEMMA EndAnswered ==
    ASSUME RefsInv, RowsInv, NEW r \in Results, refs.table[r] > 0, NEW i \in Nat,
           NEW o \in get_row(r, i), o.answer = "end"
    PROVE  tab[r].size <= i \/ Jumped(r)
<1>1. /\ tab[r].nrow \in Nat /\ tab[r].next \in Nat /\ tab[r].size \in Nat
      /\ Filled(refs.row[r], tab[r], data[r])
      BY DEF RefsInv, TablesOK, Tables, RowsInv
<1>2. ~Cached(r, i)
      BY DEF get_row, Unchanged, Outcome
<1>3. CASE tab[r].done
  <2>1. i = tab[r].nrow
        BY <1>2, <1>3 DEF get_row, Unchanged, Outcome
  <2> QED  BY <1>1, <1>3, <2>1 DEF Filled, Jumped
<1>4. CASE ~tab[r].done
  <2>1. o \in fetch_row(r, i)
        BY <1>2, <1>4 DEF get_row
  <2>2. ~RowTaken(r, i, o)
        BY DEF RowTaken, Outcome
  <2>3. CASE PastTheEnd(r, i, o)
        BY <1>1, <2>3 DEF PastTheEnd
  <2>4. ASSUME backend # "pgsql",
               NEW k \in 0..Left(r, i), NEW answer \in {"row", "end", "error"},
               NEW f \in BOOLEAN, NEW n \in {0, tab[r].next + k},
               HandedOut(r, i, o, k, answer, f, n)
        PROVE  tab[r].size <= i
    <3>1. k = tab[r].size - tab[r].next /\ k < Wanted(r, i)
          BY <2>4 DEF HandedOut, InOrder, Outcome
    <3>2. tab[r].next <= tab[r].nrow
          BY <1>1, <2>4 DEF Filled
    <3>3. k \in Nat
      <4>1. Left(r, i) \in Int
            BY <1>1 DEF Left, Wanted
      <4> QED  BY <4>1
    <3> QED  BY <1>1, <3>1, <3>2, <3>3 DEF Wanted
  <2> QED  BY <2>1, <2>2, <2>3, <2>4, FetchCases
<1> QED  BY <1>3, <1>4

\* get_row answers in one of three ways.
LEMMA AnswerCases ==
    ASSUME RefsInv, NEW r \in Results, NEW i \in Nat, NEW o \in get_row(r, i)
    PROVE  o.answer \in {"row", "end", "error"}
<1>1. CASE \E a \in {"row", "end", "error"} : o = Unchanged(r, a)
      BY <1>1 DEF Unchanged, Outcome
<1>2. CASE o \in fetch_row(r, i)
  <2>1. CASE RowTaken(r, i, o) \/ PastTheEnd(r, i, o)
        BY <2>1 DEF RowTaken, PastTheEnd, Unchanged, Outcome
  <2>2. ASSUME NEW k, NEW answer \in {"row", "end", "error"}, NEW f, NEW n,
               HandedOut(r, i, o, k, answer, f, n)
        PROVE  o.answer \in {"row", "end", "error"}
        BY <2>2 DEF HandedOut, InOrder, Outcome
  <2> QED  BY <1>2, <2>1, <2>2, FetchCases
<1> QED  BY <1>1, <1>2, Zenon DEF get_row

\* The loop's next call: the end, an error, or the row of index i.
LEMMA CollectReads ==
    ASSUME RefsInv, RowsInv, SafeScans, ReadInv, NEW r \in Results,
           get_string_from_result_ident(r)
    PROVE  ReadInv'
<1>1. /\ del.on = r /\ ~del.ready /\ backend' = backend
      BY Zenon DEF get_string_from_result_ident, CollectIdent
<1>2. /\ del = [on |-> del.on, ready |-> del.ready, i |-> del.i, ident |-> del.ident,
                list |-> del.list, failed |-> del.failed]
      /\ del.i \in Nat /\ r # Nobody /\ refs.table[r] > 0
      BY <1>1, TableHeld, BoundsAssumption DEF RefsInv, DeletionOK
<1>3. /\ del.list \in Seq(Rows) /\ Len(del.list) \in Nat /\ del.ident \in Rows
      /\ del.failed \in BOOLEAN
      /\ del.failed \/ Jumped(r) \/ ReadUpTo(del, tab[r].size)
      /\ tab \in [Results -> Tables] /\ tab[r].size \in Nat /\ tab[r].size <= MaxRows
      BY <1>1, <1>2 DEF ReadInv, RefsInv, TablesOK, Tables, RowsInv, Filled
<1> DEFINE next == IF del.i + 1 > LongList THEN LongList - 1 ELSE del.i + 1
           ident(o) == IF o.answer # "row" THEN del.ident
                       ELSE IF del.i \in DOMAIN o.rows THEN o.rows[del.i] ELSE data[r][del.i]
           list(o) == IF Len(del.list) < LongList THEN Append(del.list, ident(o)) ELSE del.list
           failed(o) == del.failed \/ o.answer = "error"
<1>4. PICK o \in get_row(r, del.i) :
         /\ Store(r, del.i, o)
         /\ del' = IF o.answer = "end" THEN [del EXCEPT !.ready = TRUE]
                   ELSE [del EXCEPT !.i = next, !.ident = ident(o), !.list = list(o),
                                    !.failed = failed(o)]
      BY <1>1, Zenon DEF get_string_from_result_ident, CollectIdent
<1>5. tab'[r] = [size |-> tab[r].size, nrow |-> o.nrow,
                 done |-> tab[r].done \/ o.answer = "end", count |-> tab[r].count,
                 next |-> o.next, jumped |-> tab[r].jumped \/ del.i > tab[r].nrow]
      BY <1>3, <1>4, ZenonT(30) DEF Store, Tables
<1>6. tab'[r].size = tab[r].size /\ (Jumped(r) => Jumped(r)')
  <2>1. tab'[r].jumped = (tab[r].jumped \/ del.i > tab[r].nrow)
        BY <1>5
  <2>2. tab[r].jumped => tab'[r].jumped
        BY <2>1, Zenon
  <2>3. Jumped(r) => Jumped(r)'
        BY <1>1, <2>2, Zenon DEF Jumped
  <2> QED  BY <1>5, <2>3
<1>7. CASE o.answer = "end"
  <2>1. del' = [on |-> r, ready |-> TRUE, i |-> del.i, ident |-> del.ident,
                list |-> del.list, failed |-> del.failed]
    <3>1. del' = [del EXCEPT !.ready = TRUE]
          BY <1>4, <1>7
    <3> QED  BY <1>1, <1>2, <3>1
  <2>2. tab[r].size <= del.i \/ Jumped(r)
        BY <1>2, <1>4, <1>7, EndAnswered
  <2>3. ReadUpTo(del, tab[r].size) /\ tab[r].size <= del.i => ReadUpTo(del', tab[r].size)
        BY <1>2, <1>3, <2>1 DEF ReadUpTo
  <2>4. del'.failed \/ Jumped(r)' \/ ReadUpTo(del', tab'[r].size)
        BY <1>3, <1>6, <2>1, <2>2, <2>3
  <2>5. /\ del'.on = r /\ del'.list \in Seq(Rows) /\ del'.ident \in Rows
        /\ del'.failed \in BOOLEAN /\ del'.ready \in BOOLEAN
        BY <1>3, <2>1
  <2> QED  BY <1>2, <2>4, <2>5 DEF ReadInv, Jumped
<1>8. CASE o.answer # "end"
  <2>1. del' = [on |-> r, ready |-> FALSE, i |-> next, ident |-> ident(o), list |-> list(o),
                failed |-> failed(o)]
    <3>1. /\ del' = [del EXCEPT !.i = next, !.ident = ident(o), !.list = list(o),
                                !.failed = failed(o)]
          /\ del.ready = FALSE
          BY <1>1, <1>3, <1>4, <1>8 DEF ReadInv
    <3> HIDE DEF next, ident, list, failed
    <3> QED  BY <1>1, <1>2, <3>1
  <2>2. ASSUME o.answer = "row"
        PROVE  del.i < tab[r].size /\ ident(o) = del.i /\ del.i \in Index
    <3>1. /\ del.i < tab[r].size /\ del.i \in Index
          /\ CacheRows(refs, r, o).row[r][del.i] > 0
          BY <1>2, <1>4, <2>2, RowAnswered
    <3>2. /\ Filled(CacheRows(refs, r, o).row[r], tab'[r], data'[r])
          /\ data' \in [Results -> [Index -> Rows]]
          BY <1>2, <1>4, GotStored
    <3>3. data'[r][del.i] = del.i
          BY <3>1, <3>2 DEF Filled
    <3>4. data'[r][del.i] = ident(o)
      <4>1. data'[r] = [j \in Index |-> IF j \in DOMAIN o.rows THEN o.rows[j] ELSE data[r][j]]
            BY <1>4 DEF Store, RowsInv
      <4> QED  BY <2>2, <3>1, <4>1
    <3> QED  BY <3>1, <3>3, <3>4
  <2>3. ident(o) \in Rows
        BY <1>3, <2>2 DEF Rows
  <2>4. list(o) \in Seq(Rows)
        BY <1>3, <2>3
  <2>5. ASSUME ReadUpTo(del, tab[r].size), o.answer = "row"
        PROVE  ReadUpTo(del', tab[r].size)
    <3>1. /\ del.i < tab[r].size /\ ident(o) = del.i
          /\ Len(del.list) = del.i /\ \A k \in 1..del.i : del.list[k] = k - 1
          BY <2>2, <2>5 DEF ReadUpTo
    <3>2. next = del.i + 1 /\ list(o) = Append(del.list, del.i)
          BY <1>2, <1>3, <3>1, BoundsAssumption DEF LongList
    <3>3. /\ del'.i = del.i + 1 /\ ~del'.ready /\ del'.list = Append(del.list, del.i)
          BY <2>1, <3>2
    <3>4. Len(del'.list) = del.i + 1 /\ \A k \in 1..(del.i + 1) : del'.list[k] = k - 1
          BY <1>2, <1>3, <3>1, <3>3
    <3> QED  BY <1>2, <1>3, <3>1, <3>3, <3>4 DEF ReadUpTo
  <2>6. o.answer # "row" => o.answer = "error"
        BY <1>2, <1>4, <1>8, AnswerCases
  <2>7. del'.failed \/ Jumped(r)' \/ ReadUpTo(del', tab'[r].size)
        BY <1>3, <1>6, <2>1, <2>5, <2>6
  <2>8. /\ del'.on = r /\ del'.list \in Seq(Rows) /\ del'.ident \in Rows
        /\ del'.failed \in BOOLEAN /\ del'.ready \in BOOLEAN
        BY <1>3, <2>1, <2>3, <2>4
  <2> QED  BY <1>2, <2>7, <2>8 DEF ReadInv, Jumped
<1> QED  BY <1>7, <1>8

LEMMA ReadStep ==
    ASSUME RefsInv, RowsInv, SafeScans, ReadInv, [Next]_vars
    PROVE  ReadInv'
<1>1. CASE UNCHANGED <<backend, tab, del>>
      BY <1>1 DEF ReadInv, ReadUpTo, Jumped
<1>2. CASE Idle /\ del' = del
      BY <1>2 DEF ReadInv, Idle
<1>3. ASSUME NEW r \in Results, DeleteStart(r) PROVE ReadInv'
  <2>1. /\ own.result[r] > 0 /\ del' = [NoDeletion EXCEPT !.on = r]
        /\ UNCHANGED <<backend, tab>>
        BY <1>3, Zenon DEF DeleteStart, tableVars
  <2>2. del' = [on |-> r, ready |-> FALSE, i |-> 0, ident |-> NoRow, list |-> <<>>,
                failed |-> FALSE]
        BY <2>1 DEF NoDeletion
  <2>3. tab'[r].size \in Nat
        BY <2>1 DEF RefsInv, TablesOK, Tables
  <2>4. ReadUpTo(del', tab'[r].size)
        BY <2>2, <2>3 DEF ReadUpTo
  <2> QED  BY <2>2, <2>4 DEF ReadInv, Rows
<1>4. ASSUME NEW r \in Results, NEW a, do_delete(r, a) PROVE ReadInv'
      BY <1>4 DEF do_delete, NoDeletion, ReadInv
<1>5. ASSUME NEW r \in Results, Asks(r) PROVE Idle /\ del' = del
      BY <1>5, Zenon DEF Asks, Query, GetResult, TableGet, ResultGet, GetRowCount, CountRows
<1>6. Handles \/ (\E r \in Results : TableHandles(r)) => Idle /\ del' = del
      BY Zenon DEF Handles, TableHandles, SqlNew, CopySql, DestroySql, CopyDb, DestroyDb,
                   CopyTable, DestroyTable, CopyRow, DestroyRow, CopyResult, DestroyResult,
                   Keeps, Release, tableVars
<1>7. ASSUME NEW a, NEW known, DbNew(a, known) PROVE Idle /\ del' = del
      BY <1>7, Zenon DEF DbNew
<1>8. ASSUME NEW a, OtherQuery(a) PROVE UNCHANGED <<backend, tab, del>>
      BY <1>8, Zenon DEF OtherQuery, tableVars
<1>9. CASE UNCHANGED vars
      BY <1>1, <1>9, Zenon DEF vars, tableVars
<1>10. ASSUME NEW r \in Results, Deletes(r) PROVE ReadInv'
      BY <1>3, <1>4, <1>10, CollectReads, Zenon DEF Deletes
<1> QED  BY <1>1, <1>2, <1>5, <1>6, <1>7, <1>8, <1>9, <1>10, Zenon DEF Next

\* The list a deletion from result idents ends with is the idents of all the
\* rows of the result and of nothing else, if the loop met no error and no row
\* of PostgreSQL was passed over, whatever the other threads do to the session
\* between its calls; provided no scan of SQLite fails after its first row.
THEOREM DeletesTheRowsRead == Careful => (Spec => [](SafeScans => DeletesWhatWasRead))
<1> SUFFICES ASSUME Careful PROVE Spec => [](SafeScans => DeletesWhatWasRead)
    OBVIOUS
<1>1. Init => (SafeScans => ReadInv)
      BY DEF Init, NoDeletion, ReadInv
<1>2. RefsInv /\ RowsInv /\ (SafeScans => ReadInv) /\ [Next]_vars => (SafeScans => ReadInv)'
  <2>1. SafeScans' <=> SafeScans
        BY DEF SafeScans
  <2> QED  BY <2>1, ReadStep
<1>3. RefsInv /\ (SafeScans => ReadInv) => (SafeScans => DeletesWhatWasRead)
  <2> SUFFICES ASSUME RefsInv, ReadInv, del.on # Nobody, ~del.failed, ~Jumped(del.on), del.ready
               PROVE  {del.list[k] : k \in 1..Len(del.list)} = 0..(tab[del.on].size - 1)
      BY DEF DeletesWhatWasRead, DeletesTheResult
  <2> DEFINE n == tab[del.on].size
  <2>1. /\ del.i \in Nat /\ del.i = n /\ Len(del.list) = n
        /\ \A k \in 1..n : del.list[k] = k - 1
        BY DEF ReadInv, ReadUpTo, RefsInv, DeletionOK
  <2>2. n \in Nat
        BY <2>1
  <2> HIDE DEF n
  <2>3. ASSUME NEW j \in 0..(n - 1) PROVE \E k \in 1..n : del.list[k] = j
    <3>1. j + 1 \in 1..n /\ del.list[j + 1] = j
          BY <2>1, <2>2
    <3> QED  BY <3>1
  <2>4. ASSUME NEW k \in 1..n PROVE del.list[k] \in 0..(n - 1)
        BY <2>1, <2>2
  <2>5. {del.list[k] : k \in 1..n} = 0..(n - 1)
        BY <2>3, <2>4, Zenon
  <2> QED  BY <2>1, <2>5, Zenon DEF n
<1> QED  BY <1>1, <1>2, <1>3, RowsInvariant, PTL DEF Spec

----------------------------------------------------------------------------
(***************************************************************************)
(* The bounds of the state: no handle is released twice or copied past the  *)
(* bound, no table grows past its answer, also one that is gone, and between *)
(* deletions nothing is left of the last one.                               *)
(***************************************************************************)
InBounds(t) == t.size <= MaxRows /\ t.nrow <= MaxRows /\ t.next <= MaxRows /\ t.count <= MaxRows
SessionBounds ==
    /\ connected \in BOOLEAN /\ stale \in BOOLEAN /\ faults \in 0..MaxFaults
HeldBounds == own \in Counts(MaxHeld) /\ lost \in 0..MaxHeld
DeletionBounds == del.i <= LongList /\ (del.on = Nobody => del = NoDeletion)
BoundsInv ==
    /\ SessionBounds /\ HeldBounds /\ DeletionBounds
    /\ \A r \in Results : InBounds(tab[r])

\* One count set to a number in its range.
LEMMA HeldChange ==
    ASSUME NEW n \in Nat, NEW o \in Counts(n), NEW x \in 0..n
    PROVE  /\ [o EXCEPT !.sql = x] \in Counts(n) /\ [o EXCEPT !.db = x] \in Counts(n)
           /\ \A r \in Results : /\ [o EXCEPT !.table[r] = x] \in Counts(n)
                                 /\ [o EXCEPT !.result[r] = x] \in Counts(n)
           /\ \A r \in Results, i \in Index : [o EXCEPT !.row[r][i] = x] \in Counts(n)
<1>1. /\ o = [sql |-> o.sql, db |-> o.db, selection |-> o.selection, table |-> o.table,
              result |-> o.result, row |-> o.row]
      /\ o.sql \in 0..n /\ o.db \in 0..n /\ o.selection \in [Results -> 0..n]
      /\ o.table \in [Results -> 0..n] /\ o.result \in [Results -> 0..n]
      /\ o.row \in [Results -> [Index -> 0..n]]
      BY DEF Counts
<1>2. [o EXCEPT !.sql = x] \in Counts(n)
      BY <1>1 DEF Counts
<1>3. [o EXCEPT !.db = x] \in Counts(n)
      BY <1>1 DEF Counts
<1>4. ASSUME NEW r \in Results PROVE [o EXCEPT !.table[r] = x] \in Counts(n)
      BY <1>1 DEF Counts
<1>5. ASSUME NEW r \in Results PROVE [o EXCEPT !.result[r] = x] \in Counts(n)
      BY <1>1 DEF Counts
<1>6. ASSUME NEW r \in Results, NEW i \in Index PROVE [o EXCEPT !.row[r][i] = x] \in Counts(n)
  <2>1. [o.row[r] EXCEPT ![i] = x] \in [Index -> 0..n]
        BY <1>1
  <2>2. [o.row EXCEPT ![r] = [o.row[r] EXCEPT ![i] = x]] \in [Results -> [Index -> 0..n]]
        BY <1>1, <2>1
  <2> DEFINE w == [o.row EXCEPT ![r] = [o.row[r] EXCEPT ![i] = x]]
  <2>3. [o EXCEPT !.row[r][i] = x] = [o EXCEPT !.row = w]
        BY <1>1, Zenon
  <2> HIDE DEF w
  <2>4. [o EXCEPT !.row = w] \in Counts(n)
        BY <1>1, <2>2 DEF Counts, w
  <2> QED  BY <2>3, <2>4
<1> QED  BY <1>2, <1>3, <1>4, <1>5, <1>6

\* The ranges of what the program holds.
LEMMA HeldRanges ==
    ASSUME HeldBounds
    PROVE  /\ MaxHeld \in Nat /\ MaxHeld > 0 /\ own \in Counts(MaxHeld)
           /\ own.sql \in 0..MaxHeld /\ own.db \in 0..MaxHeld
           /\ \A r \in Results : own.table[r] \in 0..MaxHeld /\ own.result[r] \in 0..MaxHeld
           /\ \A r \in Results, i \in Index : own.row[r][i] \in 0..MaxHeld
BY BoundsAssumption DEF HeldBounds, Counts

\* One count of what the program holds.
LEMMA HeldChanges ==
    ASSUME HeldBounds, NEW x \in 0..MaxHeld, NEW r \in Results,
           \/ own' = [own EXCEPT !.table[r] = x]
           \/ own' = [own EXCEPT !.result[r] = x]
           \/ \E i \in Index : own' = [own EXCEPT !.row[r][i] = x]
    PROVE  own' \in Counts(MaxHeld)
<1>1. MaxHeld \in Nat /\ own \in Counts(MaxHeld)
      BY HeldRanges
<1>2. /\ [own EXCEPT !.table[r] = x] \in Counts(MaxHeld)
      /\ [own EXCEPT !.result[r] = x] \in Counts(MaxHeld)
      /\ \A i \in Index : [own EXCEPT !.row[r][i] = x] \in Counts(MaxHeld)
      BY <1>1, HeldChange
<1>3. CASE own' = [own EXCEPT !.table[r] = x]
      BY <1>2, <1>3
<1>4. CASE own' = [own EXCEPT !.result[r] = x]
      BY <1>2, <1>4
<1>5. ASSUME NEW i \in Index, own' = [own EXCEPT !.row[r][i] = x]
      PROVE  own' \in Counts(MaxHeld)
      BY <1>2, <1>5
<1> QED  BY <1>3, <1>4, <1>5

\* The handles on the SQL object and on the db.
LEMMA HandlesHeld ==
    ASSUME HeldBounds, Handles
    PROVE  HeldBounds'
<1>1. /\ MaxHeld \in Nat /\ MaxHeld > 0 /\ own \in Counts(MaxHeld) /\ own.sql \in 0..MaxHeld
      /\ own.db \in 0..MaxHeld /\ lost \in 0..MaxHeld
      BY HeldRanges DEF HeldBounds
<1>2. CASE SqlNew
  <2>1. own' = sql_ref(NoRefs) /\ lost' = 0
        BY <1>2 DEF SqlNew
  <2>2. sql_ref(NoRefs) = [NoRefs EXCEPT !.sql = 1]
        BY DEF sql_ref, NoRefs
  <2>3. NoRefs \in Counts(MaxHeld) /\ 1 \in 0..MaxHeld
        BY <1>1 DEF NoRefs, Counts
  <2>4. own' \in Counts(MaxHeld)
        BY <1>1, <2>1, <2>2, <2>3, HeldChange
  <2> QED  BY <1>1, <2>1, <2>4 DEF HeldBounds
<1>3. ASSUME NEW k \in {-1, 1}, own.sql + k \in 0..MaxHeld,
             own' = [own EXCEPT !.sql = @ + k], lost' = lost
      PROVE  HeldBounds'
  <2>1. own' = [own EXCEPT !.sql = own.sql + k]
        BY <1>3
  <2> DEFINE x == own.sql + k
  <2>2. x \in 0..MaxHeld /\ own' = [own EXCEPT !.sql = x]
        BY <1>3, <2>1
  <2> HIDE DEF x
  <2>3. own' \in Counts(MaxHeld)
        BY <1>1, <2>2, HeldChange
  <2> QED  BY <1>1, <1>3, <2>3 DEF HeldBounds
<1>4. ASSUME NEW k \in {-1, 1}, own.db + k \in 0..MaxHeld,
             own' = [own EXCEPT !.db = @ + k], lost' = lost
      PROVE  HeldBounds'
  <2>1. own' = [own EXCEPT !.db = own.db + k]
        BY <1>4
  <2> DEFINE x == own.db + k
  <2>2. x \in 0..MaxHeld /\ own' = [own EXCEPT !.db = x]
        BY <1>4, <2>1
  <2> HIDE DEF x
  <2>3. own' \in Counts(MaxHeld)
        BY <1>1, <2>2, HeldChange
  <2> QED  BY <1>1, <1>4, <2>3 DEF HeldBounds
<1>5. CASE CopySql
  <2>1. own.sql \in 1..(MaxHeld - 1) /\ own' = [own EXCEPT !.sql = @ + 1] /\ lost' = lost
        BY <1>5 DEF CopySql, sql_ref, Keeps
  <2> QED  BY <1>1, <1>3, <2>1
<1>6. CASE DestroySql
  <2>1. own.sql > 0 /\ own' = [own EXCEPT !.sql = @ - 1] /\ lost' = lost
        BY <1>6 DEF DestroySql, Release
  <2>2. own' = [own EXCEPT !.sql = @ + (-1)]
        BY <1>1, <2>1
  <2> QED  BY <1>1, <1>3, <2>1, <2>2
<1>7. CASE CopyDb
  <2>1. own.db \in 1..(MaxHeld - 1) /\ own' = [own EXCEPT !.db = @ + 1] /\ lost' = lost
        BY <1>7 DEF CopyDb, db_ref, Keeps
  <2> QED  BY <1>1, <1>4, <2>1
<1>8. CASE DestroyDb
  <2>1. own.db > 0 /\ own' = [own EXCEPT !.db = @ - 1] /\ lost' = lost
        BY <1>8 DEF DestroyDb, Release
  <2>2. own' = [own EXCEPT !.db = @ + (-1)]
        BY <1>1, <2>1
  <2> QED  BY <1>1, <1>4, <2>1, <2>2
<1> QED  BY <1>2, <1>5, <1>6, <1>7, <1>8 DEF Handles

\* The handles on a table, a result or a row.
LEMMA TableHandlesHeld ==
    ASSUME HeldBounds, NEW r \in Results, TableHandles(r)
    PROVE  HeldBounds'
<1>1. /\ MaxHeld \in Nat /\ own \in Counts(MaxHeld) /\ lost \in 0..MaxHeld
      /\ own.table[r] \in 0..MaxHeld /\ own.result[r] \in 0..MaxHeld
      /\ \A i \in Index : own.row[r][i] \in 0..MaxHeld
      BY HeldRanges DEF HeldBounds
<1>2. lost' = lost
      BY Zenon DEF TableHandles, CopyTable, DestroyTable, CopyResult, DestroyResult, CopyRow,
                   DestroyRow, Keeps, Release
<1>3. CASE CopyTable(r) \/ DestroyTable(r)
  <2>1. \E x \in 0..MaxHeld : own' = [own EXCEPT !.table[r] = x]
    <3>1. CASE CopyTable(r)
      <4>1. own.table[r] + 1 \in 0..MaxHeld /\ own' = [own EXCEPT !.table[r] = own.table[r] + 1]
            BY <1>1, <3>1 DEF CopyTable
      <4> QED  BY <4>1, Zenon
    <3>2. CASE DestroyTable(r)
      <4>1. own.table[r] - 1 \in 0..MaxHeld /\ own' = [own EXCEPT !.table[r] = own.table[r] - 1]
            BY <1>1, <3>2 DEF DestroyTable
      <4> QED  BY <4>1, Zenon
    <3> QED  BY <1>3, <3>1, <3>2
  <2>2. own' \in Counts(MaxHeld)
        BY <2>1, HeldChanges
  <2> QED  BY <1>1, <1>2, <2>2 DEF HeldBounds
<1>4. CASE CopyResult(r) \/ DestroyResult(r)
  <2>1. \E x \in 0..MaxHeld : own' = [own EXCEPT !.result[r] = x]
    <3>1. CASE CopyResult(r)
      <4>1. /\ own.result[r] + 1 \in 0..MaxHeld
            /\ own' = [own EXCEPT !.result[r] = own.result[r] + 1]
            BY <1>1, <3>1 DEF CopyResult
      <4> QED  BY <4>1, Zenon
    <3>2. CASE DestroyResult(r)
      <4>1. /\ own.result[r] - 1 \in 0..MaxHeld
            /\ own' = [own EXCEPT !.result[r] = own.result[r] - 1]
            BY <1>1, <3>2 DEF DestroyResult
      <4> QED  BY <4>1, Zenon
    <3> QED  BY <1>4, <3>1, <3>2
  <2>2. own' \in Counts(MaxHeld)
        BY <2>1, HeldChanges
  <2> QED  BY <1>1, <1>2, <2>2 DEF HeldBounds
<1>5. ASSUME NEW i \in Index, CopyRow(r, i) \/ DestroyRow(r, i) PROVE HeldBounds'
  <2>1. \E x \in 0..MaxHeld : own' = [own EXCEPT !.row[r][i] = x]
    <3>1. CASE CopyRow(r, i)
      <4>1. /\ own.row[r][i] + 1 \in 0..MaxHeld
            /\ own' = [own EXCEPT !.row[r][i] = own.row[r][i] + 1]
            BY <1>1, <3>1 DEF CopyRow
      <4> QED  BY <4>1, Zenon
    <3>2. CASE DestroyRow(r, i)
      <4>1. /\ own.row[r][i] - 1 \in 0..MaxHeld
            /\ own' = [own EXCEPT !.row[r][i] = own.row[r][i] - 1]
            BY <1>1, <3>2 DEF DestroyRow
      <4> QED  BY <4>1, Zenon
    <3> QED  BY <1>5, <3>1, <3>2
  <2>2. own' \in Counts(MaxHeld)
        BY <2>1, HeldChanges
  <2> QED  BY <1>1, <1>2, <2>2 DEF HeldBounds
<1> QED  BY <1>3, <1>4, <1>5, Zenon DEF TableHandles

\* The handles that a query, a row or a preludedb_new gives the program.
LEMMA AsksHeld ==
    ASSUME HeldBounds, NEW r \in Results, Asks(r)
    PROVE  HeldBounds'
<1>1. /\ MaxHeld \in Nat /\ MaxHeld > 0 /\ own \in Counts(MaxHeld) /\ lost \in 0..MaxHeld
      /\ own.table[r] \in 0..MaxHeld /\ own.result[r] \in 0..MaxHeld
      /\ \A i \in Index : own.row[r][i] \in 0..MaxHeld
      BY HeldRanges DEF HeldBounds
<1>2. lost' = lost
      BY Zenon DEF Asks, Query, GetResult, TableGet, ResultGet, GetRowCount, CountRows
<1>3. 1 \in 0..MaxHeld
      BY <1>1
<1>4. ASSUME NEW a, Query(r, a) \/ GetResult(r, "idents", a) \/ GetResult(r, "values", a)
      PROVE  HeldBounds'
  <2>1. own' = own \/ own' = [own EXCEPT !.table[r] = 1] \/ own' = [own EXCEPT !.result[r] = 1]
        BY <1>4, Zenon DEF Query, GetResult
  <2>2. own' \in Counts(MaxHeld)
        BY <1>1, <1>3, <2>1, HeldChanges
  <2> QED  BY <1>1, <1>2, <2>2 DEF HeldBounds
<1>5. ASSUME NEW i, TableGet(r, i) PROVE HeldBounds'
  <2>1. \/ own' = own
        \/ i \in Index /\ own.row[r][i] < MaxHeld /\ own' = [own EXCEPT !.row[r][i] = @ + 1]
        BY <1>5, Zenon DEF TableGet
  <2>2. CASE own' = own
        BY <1>1, <1>2, <2>2 DEF HeldBounds
  <2>3. CASE i \in Index /\ own.row[r][i] < MaxHeld /\ own' = [own EXCEPT !.row[r][i] = @ + 1]
    <3>1. /\ own.row[r][i] + 1 \in 0..MaxHeld
          /\ own' = [own EXCEPT !.row[r][i] = own.row[r][i] + 1]
          BY <1>1, <2>3
    <3>2. own' \in Counts(MaxHeld)
          BY <2>3, <3>1, HeldChanges
    <3> QED  BY <1>1, <1>2, <3>2 DEF HeldBounds
  <2> QED  BY <2>1, <2>2, <2>3
<1>6. ASSUME NEW i, ResultGet(r, i) PROVE HeldBounds'
  <2>1. \/ own' = own
        \/ own.result[r] < MaxHeld /\ own' = [own EXCEPT !.result[r] = @ + 1]
        BY <1>6, Zenon DEF ResultGet
  <2>2. CASE own' = own
        BY <1>1, <1>2, <2>2 DEF HeldBounds
  <2>3. CASE own.result[r] < MaxHeld /\ own' = [own EXCEPT !.result[r] = @ + 1]
    <3>1. /\ own.result[r] + 1 \in 0..MaxHeld
          /\ own' = [own EXCEPT !.result[r] = own.result[r] + 1]
          BY <1>1, <2>3
    <3>2. own' \in Counts(MaxHeld)
          BY <3>1, HeldChanges
    <3> QED  BY <1>1, <1>2, <3>2 DEF HeldBounds
  <2> QED  BY <2>1, <2>2, <2>3
<1>7. CASE GetRowCount(r)
  <2>1. own' = own
        BY <1>7, Zenon DEF GetRowCount, CountRows
  <2> QED  BY <1>2, <2>1 DEF HeldBounds
<1> QED  BY <1>4, <1>5, <1>6, <1>7, Zenon DEF Asks

LEMMA HeldStep ==
    ASSUME HeldBounds, [Next]_vars
    PROVE  HeldBounds'
<1>1. CASE UNCHANGED <<own, lost>>
      BY <1>1 DEF HeldBounds
<1>2. ASSUME NEW a, NEW known, DbNew(a, known) PROVE HeldBounds'
  <2>1. /\ MaxHeld \in Nat /\ MaxHeld > 0 /\ own \in Counts(MaxHeld) /\ lost \in 0..MaxHeld
        BY HeldRanges DEF HeldBounds
  <2>2. \/ own' = [own EXCEPT !.db = 1] /\ lost' = lost
        \/ own' = own /\ lost < MaxHeld /\ lost' = lost + 1
        BY <1>2, Zenon DEF DbNew
  <2>3. CASE own' = [own EXCEPT !.db = 1] /\ lost' = lost
    <3>1. 1 \in 0..MaxHeld
          BY <2>1
    <3> QED  BY <2>1, <2>3, <3>1, HeldChange DEF HeldBounds
  <2>4. CASE own' = own /\ lost < MaxHeld /\ lost' = lost + 1
        BY <2>1, <2>4 DEF HeldBounds
  <2> QED  BY <2>2, <2>3, <2>4
<1>3. ASSUME NEW r \in Results, Deletes(r) PROVE UNCHANGED <<own, lost>>
      BY <1>3, Zenon DEF Deletes, DeleteStart, do_delete, get_string_from_result_ident,
                         CollectIdent
<1>4. ASSUME NEW a, OtherQuery(a) PROVE UNCHANGED <<own, lost>>
      BY <1>4, Zenon DEF OtherQuery
<1>5. UNCHANGED vars => UNCHANGED <<own, lost>>
      BY Zenon DEF vars
<1> QED  BY <1>1, <1>2, <1>3, <1>4, <1>5, HandlesHeld, TableHandlesHeld, AsksHeld, Zenon DEF Next

\* A query counts the faults it meets.
LEMMA QueryFaults ==
    ASSUME SessionBounds, NEW a, QueryOnSession(a)
    PROVE  SessionBounds'
<1>1. /\ faults \in 0..MaxFaults /\ MaxFaults \in Nat
      /\ a \in {"refused", "broken"} => faults < MaxFaults
      /\ faults' = faults + IF a \in {"refused", "broken"} THEN 1 ELSE 0
      BY BoundsAssumption DEF SessionBounds, QueryOnSession
<1>2. faults' \in 0..MaxFaults
  <2>1. CASE a \in {"refused", "broken"}
        BY <1>1, <2>1
  <2>2. CASE a \notin {"refused", "broken"}
        BY <1>1, <2>2
  <2> QED  BY <2>1, <2>2
<1>3. connected' \in BOOLEAN /\ stale' \in BOOLEAN
      BY DEF QueryOnSession
<1> QED  BY <1>2, <1>3 DEF SessionBounds

\* Only a scan of SQLite that fails is a fault, and only below the bound.
LEMMA OutcomeFault ==
    /\ \A r, a, k, n, f : InOrder(r, a, k, n, f).fault = f
    /\ \A r, a : Unchanged(r, a).fault = FALSE
BY DEF InOrder, Unchanged, Outcome

LEMMA FetchFault ==
    ASSUME RefsInv, NEW r \in Results, NEW i \in Nat, NEW o \in fetch_row(r, i)
    PROVE  o.fault \in BOOLEAN /\ (o.fault => faults < MaxFaults)
<1>1. backend \in {"mysql", "pgsql", "sqlite3"}
      BY BoundsAssumption DEF RefsInv
<1>2. CASE backend = "mysql"
  <2>1. o \in mysql_fetch_row(r, i)
        BY <1>2 DEF fetch_row
  <2>2. PICK a : o = InOrder(r, a, Left(r, i), tab[r].next + Left(r, i), FALSE)
        BY <2>1, Zenon DEF mysql_fetch_row
  <2> QED  BY <2>2 DEF InOrder, Outcome
<1>3. CASE backend = "sqlite3"
  <2>1. o \in sqlite3_fetch_row(r, i)
        BY <1>3 DEF fetch_row
  <2>2. \/ \E k, n, a : o = InOrder(r, a, k, n, FALSE)
        \/ \E k : o = InOrder(r, "error", k, 0, TRUE) /\ faults < MaxFaults
        BY <2>1, Zenon DEF sqlite3_fetch_row
  <2>3. ASSUME NEW k, NEW n, NEW a, o = InOrder(r, a, k, n, FALSE) PROVE o.fault = FALSE
        BY <2>3 DEF InOrder, Outcome
  <2>4. ASSUME NEW k, o = InOrder(r, "error", k, 0, TRUE) PROVE o.fault = TRUE
        BY <2>4 DEF InOrder, Outcome
  <2> QED  BY <2>2, <2>3, <2>4
<1>4. CASE backend = "pgsql"
  <2>1. o \in pgsql_fetch_row(r, i)
        BY <1>4 DEF fetch_row
  <2>2. o = Unchanged(r, "end") \/ \E a, n, m, w : o = Outcome(a, n, m, w, FALSE)
        BY <2>1, Zenon DEF pgsql_fetch_row
  <2>3. ASSUME NEW a, NEW n, NEW m, NEW w, o = Outcome(a, n, m, w, FALSE) PROVE o.fault = FALSE
        BY <2>3 DEF Outcome
  <2> QED  BY <2>2, <2>3, OutcomeFault
<1> QED  BY <1>1, <1>2, <1>3, <1>4

LEMMA GetFault ==
    ASSUME RefsInv, SessionBounds, NEW r \in Results, NEW i \in Nat, NEW o,
           \/ o \in get_row(r, i)
           \/ o \in IF tab[r].done THEN {Unchanged(r, "end")} ELSE fetch_row(r, i),
           faults' = faults + (IF o.fault THEN 1 ELSE 0), UNCHANGED <<connected, stale>>
    PROVE  SessionBounds'
<1>1. (\E a : o = Unchanged(r, a)) \/ o \in fetch_row(r, i)
      BY Zenon DEF get_row
<1>2. o.fault \in BOOLEAN /\ (o.fault => faults < MaxFaults)
  <2>1. ASSUME NEW a, o = Unchanged(r, a) PROVE o.fault = FALSE
        BY <2>1, OutcomeFault, Zenon
  <2> QED  BY <1>1, <2>1, FetchFault
<1>3. faults \in 0..MaxFaults /\ MaxFaults \in Nat
      BY BoundsAssumption DEF SessionBounds
<1>4. faults' \in 0..MaxFaults
      BY <1>2, <1>3
<1> QED  BY <1>4 DEF SessionBounds

LEMMA SessionStep ==
    ASSUME RefsInv, SessionBounds, [Next]_vars
    PROVE  SessionBounds'
<1>1. CASE UNCHANGED <<connected, stale, faults>>
      BY <1>1 DEF SessionBounds
<1>2. ASSUME connected' \in BOOLEAN, stale' \in BOOLEAN, faults' = faults PROVE SessionBounds'
      BY <1>2 DEF SessionBounds
<1>3. ASSUME NEW c, Release(c) PROVE SessionBounds'
      BY <1>3 DEF Release, SessionBounds
<1>4. CASE Handles
  <2>1. CASE SqlNew
        BY <1>2, <2>1 DEF SqlNew
  <2>2. CASE CopySql \/ CopyDb
        BY <1>1, <2>2, Zenon DEF CopySql, CopyDb, Keeps, sessionVars
  <2>3. CASE DestroySql \/ DestroyDb
        BY <1>3, <2>3, Zenon DEF DestroySql, DestroyDb
  <2> QED  BY <1>4, <2>1, <2>2, <2>3 DEF Handles
<1>5. ASSUME NEW r \in Results, TableHandles(r) PROVE SessionBounds'
  <2>1. CASE CopyTable(r) \/ CopyResult(r) \/ \E i \in Index : CopyRow(r, i)
        BY <1>1, <2>1, Zenon DEF CopyTable, CopyResult, CopyRow, Keeps, sessionVars
  <2>2. CASE DestroyTable(r) \/ DestroyResult(r) \/ \E i \in Index : DestroyRow(r, i)
        BY <1>3, <2>2, Zenon DEF DestroyTable, DestroyResult, DestroyRow
  <2> QED  BY <1>5, <2>1, <2>2, Zenon DEF TableHandles
<1>6. ASSUME NEW a, NEW known, DbNew(a, known) PROVE SessionBounds'
      BY <1>6, QueryFaults, Zenon DEF DbNew
<1>7. ASSUME NEW a, OtherQuery(a) PROVE SessionBounds'
      BY <1>7, QueryFaults, Zenon DEF OtherQuery
<1>8. ASSUME NEW r \in Results, Asks(r) PROVE SessionBounds'
  <2>1. ASSUME NEW a, Query(r, a) \/ GetResult(r, "idents", a) \/ GetResult(r, "values", a)
        PROVE  SessionBounds'
        BY <2>1, QueryFaults, Zenon DEF Query, GetResult
  <2>2. ASSUME NEW i \in 0..MaxRows, TableGet(r, i) \/ ResultGet(r, i) PROVE SessionBounds'
    <3>1. i \in Nat
          BY BoundsAssumption
    <3>2. \E o \in get_row(r, i) : /\ faults' = faults + (IF o.fault THEN 1 ELSE 0)
                                   /\ UNCHANGED <<connected, stale>>
          BY <2>2, Zenon DEF TableGet, ResultGet, Store
    <3> QED  BY <3>1, <3>2, GetFault
  <2>3. CASE GetRowCount(r)
    <3>1. \/ UNCHANGED <<connected, stale, faults>>
          \/ \E o \in IF tab[r].done THEN {Unchanged(r, "end")} ELSE fetch_row(r, MaxRows) :
                /\ faults' = faults + (IF o.fault THEN 1 ELSE 0)
                /\ UNCHANGED <<connected, stale>>
          BY <2>3, Zenon DEF GetRowCount, CountRows, sessionVars
    <3> QED  BY <1>1, <3>1, GetFault, BoundsAssumption
  <2> QED  BY <1>8, <2>1, <2>2, <2>3, Zenon DEF Asks
<1>9. ASSUME NEW r \in Results, Deletes(r) PROVE SessionBounds'
  <2>1. CASE DeleteStart(r)
        BY <1>1, <2>1, Zenon DEF DeleteStart, sessionVars
  <2>2. ASSUME NEW a, do_delete(r, a) PROVE SessionBounds'
        BY <1>1, <2>2, QueryFaults, Zenon DEF do_delete, sessionVars
  <2>3. CASE get_string_from_result_ident(r)
    <3>1. /\ del.i \in Nat
          /\ \E o \in get_row(r, del.i) : /\ faults' = faults + (IF o.fault THEN 1 ELSE 0)
                                          /\ UNCHANGED <<connected, stale>>
      <4>1. del.i \in Nat
            BY DEF RefsInv, DeletionOK
      <4> QED  BY <2>3, <4>1, Zenon DEF get_string_from_result_ident, CollectIdent, Store
    <3> QED  BY <3>1, GetFault
  <2> QED  BY <1>9, <2>1, <2>2, <2>3, Zenon DEF Deletes
<1>10. UNCHANGED vars => UNCHANGED <<connected, stale, faults>>
      BY Zenon DEF vars, sessionVars
<1> QED  BY <1>1, <1>4, <1>5, <1>6, <1>7, <1>8, <1>9, <1>10, Zenon DEF Next

\* A table that a step changes is one that exists after it.
LEMMA TableChanged ==
    ASSUME RefsInv, RefsInv', HeldBounds, [Next]_vars, NEW r \in Results, tab'[r] # tab[r]
    PROVE  refs'.table[r] > 0
<1>1. own.result[r] \in Nat /\ own \in Kept /\ tab \in [Results -> Tables]
      BY HeldRanges DEF RefsInv, Kept, TablesOK
<1>2. ASSUME own'.table[r] > 0 \/ own'.result[r] > 0 PROVE refs'.table[r] > 0
  <2>1. refs' \in Kept /\ own' \in Kept /\ lost' \in Nat /\ Exact(refs', own', lost', use')
        BY DEF RefsInv
  <2>2. /\ refs'.table[r] \in Nat /\ own'.table[r] \in Nat /\ refs'.table[r] >= own'.table[r]
        /\ own'.result[r] > 0 => refs'.table[r] > 0
        BY <2>1, ExactNumbers
  <2> QED  BY <1>2, <2>2
<1>3. PICK s \in Results : Asks(s) \/ Deletes(s)
  <2>1. tab' # tab
        OBVIOUS
  <2>2. ~(UNCHANGED vars) /\ ~Handles /\ \A s \in Results : ~TableHandles(s)
        BY <2>1, Zenon DEF vars, tableVars, Handles, TableHandles, SqlNew, CopySql, DestroySql,
                   CopyDb, DestroyDb, CopyTable, DestroyTable, CopyRow, DestroyRow, CopyResult,
                   DestroyResult, Keeps, Release
  <2>3. \A a, known : ~DbNew(a, known) /\ ~OtherQuery(a)
        BY <2>1, Zenon DEF DbNew, OtherQuery, tableVars
  <2> QED  BY <2>2, <2>3, Zenon DEF Next
<1>4. ASSUME NEW a, Query(s, a) \/ GetResult(s, "idents", a) \/ GetResult(s, "values", a)
      PROVE  refs'.table[r] > 0
  <2>1. \/ UNCHANGED tab
        \/ \E size \in Sizes(a) :
              /\ table_new(s, size)
              /\ own' = [own EXCEPT !.table[s] = 1] \/ own' = [own EXCEPT !.result[s] = 1]
        BY <1>4, Zenon DEF Query, GetResult, tableVars
  <2>2. s = r
        BY <1>1, <2>1 DEF table_new
  <2>3. own'.table[r] = 1 \/ own'.result[r] = 1
        BY <1>1, <2>1, <2>2 DEF Kept
  <2> QED  BY <1>2, <2>3
<1>5. ASSUME NEW i, TableGet(s, i) \/ ResultGet(s, i) PROVE refs'.table[r] > 0
  <2>1. /\ \E o : Store(s, i, o)
        /\ own.table[s] > 0 \/ own.result[s] > 0
        /\ \/ own' = own
           \/ own' = [own EXCEPT !.row[s][i] = @ + 1]
           \/ own.result[s] > 0 /\ own' = [own EXCEPT !.result[s] = @ + 1]
        BY <1>5, Zenon DEF TableGet, ResultGet
  <2>2. s = r
        BY <1>1, <2>1 DEF Store
  <2>3. own'.table[r] > 0 \/ own'.result[r] > 0
    <3>1. /\ own.table \in [Results -> Nat] /\ own.result \in [Results -> Nat]
          /\ own = [sql |-> own.sql, db |-> own.db, selection |-> own.selection,
                    table |-> own.table, result |-> own.result, row |-> own.row]
          BY <1>1 DEF Kept
    <3>2. CASE own' = own
          BY <2>1, <2>2, <3>2
    <3>3. CASE own' = [own EXCEPT !.row[s][i] = @ + 1]
      <4>1. own'.table = own.table /\ own'.result = own.result
            BY <3>1, <3>3
      <4> QED  BY <2>1, <2>2, <4>1
    <3>4. CASE own.result[s] > 0 /\ own' = [own EXCEPT !.result[s] = @ + 1]
      <4>1. own'.result = [own.result EXCEPT ![s] = own.result[s] + 1]
            BY <3>1, <3>4
      <4> QED  BY <1>1, <2>2, <3>1, <3>4, <4>1
    <3> QED  BY <2>1, <3>2, <3>3, <3>4
  <2> QED  BY <1>2, <2>3
<1>6. CASE GetRowCount(s)
  <2>1. /\ own' = own /\ (own.table[s] > 0 \/ own.result[s] > 0)
        /\ \/ tab' = [tab EXCEPT ![s].count = tab[s].size]
           \/ \E o : tab' = [tab EXCEPT ![s].nrow = o.nrow, ![s].next = o.next,
                                   ![s].done = @ \/ o.answer = "end", ![s].count = o.nrow]
        BY <1>6, Zenon DEF GetRowCount, CountRows
  <2>2. s = r
        BY <1>1, <2>1
  <2> QED  BY <1>2, <2>1, <2>2
<1>7. CASE Deletes(s)
  <2>1. get_string_from_result_ident(s)
        BY <1>7, Zenon DEF Deletes, DeleteStart, do_delete, tableVars
  <2>2. del.on = s /\ own' = own /\ \E o : Store(s, del.i, o)
        BY <2>1, Zenon DEF get_string_from_result_ident, CollectIdent
  <2>3. s = r
        BY <1>1, <2>2 DEF Store
  <2>4. own.result[s] > 0
        BY <2>2, BoundsAssumption DEF RefsInv, DeletionOK
  <2> QED  BY <1>2, <2>2, <2>3, <2>4
<1> QED  BY <1>3, <1>4, <1>5, <1>6, <1>7, Zenon DEF Asks

\* The tables are in their bounds, those that are gone as they were.
LEMMA TablesInBounds ==
    ASSUME RefsInv, SafeScans, HeldBounds, \A r \in Results : InBounds(tab[r]),
           RefsInv', RowsInv', [Next]_vars
    PROVE  \A r \in Results : InBounds(tab'[r])
<1> SUFFICES ASSUME NEW r \in Results PROVE InBounds(tab'[r])
    OBVIOUS
<1>1. CASE tab'[r] = tab[r]
      BY <1>1
<1>2. CASE tab'[r] # tab[r]
  <2>1. refs'.table[r] > 0
        BY <1>2, TableChanged
  <2>2. Filled(refs.row[r], tab[r], data[r])'
        BY <2>1 DEF RowsInv
  <2>3. /\ tab'[r].size <= MaxRows /\ tab'[r].nrow <= tab'[r].size
        /\ tab'[r].count \in {0, tab'[r].size}
        BY <2>2 DEF Filled, SafeScans
  <2>4. /\ tab'[r].size \in Nat /\ tab'[r].nrow \in Nat /\ tab'[r].next \in Nat
        /\ tab'[r].next <= tab'[r].size
        BY DEF RefsInv, TablesOK, Tables
  <2> QED  BY <2>3, <2>4, BoundsAssumption DEF InBounds
<1> QED  BY <1>1, <1>2

\* The loop of a deletion stays below the bound, and the deletion's end leaves
\* nothing behind.
LEMMA DeletionStep ==
    ASSUME RefsInv, DeletionBounds, [Next]_vars
    PROVE  DeletionBounds'
<1>1. CASE del' = del
      BY <1>1 DEF DeletionBounds
<1>2. LongList \in Nat /\ LongList > 0
      BY BoundsAssumption DEF LongList
<1>3. ASSUME NEW r \in Results, Deletes(r) PROVE DeletionBounds'
  <2>1. CASE DeleteStart(r)
    <3>1. del' = [NoDeletion EXCEPT !.on = r]
          BY <2>1 DEF DeleteStart
    <3>2. del'.on = r /\ del'.i = 0
          BY <3>1 DEF NoDeletion
    <3> QED  BY <1>2, <3>2, BoundsAssumption DEF DeletionBounds
  <2>2. ASSUME NEW a, do_delete(r, a) PROVE DeletionBounds'
    <3>1. del' = NoDeletion
          BY <2>2 DEF do_delete
    <3> QED  BY <1>2, <3>1 DEF DeletionBounds, NoDeletion
  <2>3. CASE get_string_from_result_ident(r)
    <3> DEFINE next == IF del.i + 1 > LongList THEN LongList - 1 ELSE del.i + 1
    <3>1. del.on = r
          BY <2>3, Zenon DEF get_string_from_result_ident, CollectIdent
    <3>2. /\ del = [on |-> del.on, ready |-> del.ready, i |-> del.i, ident |-> del.ident,
                    list |-> del.list, failed |-> del.failed]
          /\ del.i \in Nat /\ del.i <= LongList
          BY DEF RefsInv, DeletionOK, DeletionBounds
    <3>3. next <= LongList
          BY <1>2, <3>2
    <3> HIDE DEF next
    <3> DEFINE upon(o, ident) ==
                 del' = IF o.answer = "end" THEN [del EXCEPT !.ready = TRUE]
                        ELSE [del EXCEPT
                                !.i = next, !.ident = ident,
                                !.list = IF Len(@) < LongList THEN Append(@, ident) ELSE @,
                                !.failed = @ \/ o.answer = "error"]
    <3>4. PICK o \in get_row(r, del.i) : \E ident : upon(o, ident)
          BY <2>3, ZenonT(30) DEF get_string_from_result_ident, CollectIdent, next
    <3>5. PICK ident : upon(o, ident)
          BY <3>4, Zenon
    <3>6. del' = IF o.answer = "end" THEN [del EXCEPT !.ready = TRUE]
                 ELSE [del EXCEPT
                         !.i = next, !.ident = ident,
                         !.list = IF Len(@) < LongList THEN Append(@, ident) ELSE @,
                         !.failed = @ \/ o.answer = "error"]
          BY <3>5
    <3> HIDE DEF upon
    <3>7. CASE o.answer = "end"
      <4>1. del' = [del EXCEPT !.ready = TRUE]
            BY <3>6, <3>7
      <4>2. del'.on = r /\ del'.i = del.i
            BY <3>1, <3>2, <4>1
      <4> QED  BY <3>1, <3>2, <4>2, BoundsAssumption DEF DeletionBounds
    <3>8. CASE o.answer # "end"
      <4> DEFINE list == IF Len(del.list) < LongList THEN Append(del.list, ident)
                         ELSE del.list
                 failed == del.failed \/ o.answer = "error"
      <4>1. del' = [del EXCEPT !.i = next, !.ident = ident, !.list = list, !.failed = failed]
            BY <3>6, <3>8
      <4> HIDE DEF list, failed
      <4>2. del'.on = r /\ del'.i = next
            BY <3>1, <3>2, <4>1
      <4> QED  BY <3>1, <3>3, <4>2, BoundsAssumption DEF DeletionBounds
    <3> QED  BY <3>7, <3>8, Zenon
  <2> QED  BY <1>3, <2>1, <2>2, <2>3, Zenon DEF Deletes
<1>4. ASSUME NEW r \in Results, Asks(r) PROVE del' = del
      BY <1>4, Zenon DEF Asks, Query, GetResult, TableGet, ResultGet, GetRowCount, CountRows
<1>5. Handles \/ (\E r \in Results : TableHandles(r)) => del' = del
      BY Zenon DEF Handles, TableHandles, SqlNew, CopySql, DestroySql, CopyDb, DestroyDb,
                   CopyTable, DestroyTable, CopyRow, DestroyRow, CopyResult, DestroyResult,
                   Keeps, Release
<1>6. \A a, known : DbNew(a, known) \/ OtherQuery(a) => del' = del
      BY Zenon DEF DbNew, OtherQuery
<1>7. UNCHANGED vars => del' = del
      BY Zenon DEF vars
<1> QED  BY <1>1, <1>3, <1>4, <1>5, <1>6, <1>7, Zenon DEF Next

LEMMA BoundsInit ==
    ASSUME Init
    PROVE  BoundsInv
<1>1. MaxHeld \in Nat /\ MaxHeld > 0 /\ MaxRows \in Nat /\ MaxFaults \in Nat
      BY BoundsAssumption
<1>2. own \in Counts(MaxHeld)
  <2>1. own = [sql |-> 1, db |-> 0, selection |-> [r \in Results |-> 0],
               table |-> [r \in Results |-> 0], result |-> [r \in Results |-> 0],
               row |-> [r \in Results |-> [i \in Index |-> 0]]]
        BY DEF Init, sql_ref, NoRefs
  <2>2. 0 \in 0..MaxHeld /\ 1 \in 0..MaxHeld
        BY <1>1
  <2>3. [r \in Results |-> [i \in Index |-> 0]] \in [Results -> [Index -> 0..MaxHeld]]
        BY <2>2
  <2> QED  BY <2>1, <2>2, <2>3 DEF Counts
<1>3. HeldBounds /\ SessionBounds
  <2>1. lost = 0 /\ faults = 0 /\ connected \in BOOLEAN /\ stale \in BOOLEAN
        BY DEF Init
  <2> QED  BY <1>1, <1>2, <2>1 DEF HeldBounds, SessionBounds
<1>4. DeletionBounds
      BY <1>1 DEF Init, DeletionBounds, NoDeletion, LongList
<1>5. \A r \in Results : InBounds(tab[r])
      BY <1>1 DEF Init, InBounds
<1> QED  BY <1>3, <1>4, <1>5 DEF BoundsInv

\* The invariants, each in its range, make the types.
LEMMA TypesFollow ==
    ASSUME Careful, RefsInv, HeldBounded, RowsInv, ReadInv, BoundsInv
    PROVE  TypeOK
<1>1. MaxRows \in Nat /\ LongList \in Nat /\ Nobody \notin Results
      BY BoundsAssumption DEF LongList
<1>2. \A r \in Results : tab[r] \in [size : 0..MaxRows, nrow : 0..MaxRows, done : BOOLEAN,
                                    count : 0..MaxRows, next : 0..MaxRows, jumped : BOOLEAN]
  <2> TAKE r \in Results
  <2>1. tab[r] \in Tables /\ InBounds(tab[r])
        BY DEF RefsInv, TablesOK, BoundsInv
  <2>2. /\ tab[r].size \in 0..MaxRows /\ tab[r].nrow \in 0..MaxRows
        /\ tab[r].count \in 0..MaxRows /\ tab[r].next \in 0..MaxRows
        BY <1>1, <2>1 DEF Tables, InBounds
  <2> QED  BY <2>1, <2>2 DEF Tables
<1>3. tab \in [Results -> [size : 0..MaxRows, nrow : 0..MaxRows, done : BOOLEAN,
                           count : 0..MaxRows, next : 0..MaxRows, jumped : BOOLEAN]]
      BY <1>2 DEF RefsInv, TablesOK
<1>4. del \in [on : Results \cup {Nobody}, ready : BOOLEAN, i : 0..LongList,
               ident : Index \cup {NoRow}, list : Seq(Index \cup {NoRow}), failed : BOOLEAN]
  <2>1. /\ del = [on |-> del.on, ready |-> del.ready, i |-> del.i, ident |-> del.ident,
                  list |-> del.list, failed |-> del.failed]
        /\ del.i \in 0..LongList /\ del.on \in Results \cup {Nobody}
        BY <1>1 DEF RefsInv, DeletionOK, BoundsInv, DeletionBounds
  <2>2. /\ del.ready \in BOOLEAN /\ del.failed \in BOOLEAN /\ del.ident \in Rows
        /\ del.list \in Seq(Rows)
    <3>1. CASE del.on # Nobody
          BY <3>1 DEF ReadInv
    <3>2. CASE del.on = Nobody
      <4>1. del = NoDeletion
            BY <3>2 DEF BoundsInv, DeletionBounds
      <4> QED  BY <4>1 DEF NoDeletion, Rows
    <3> QED  BY <3>1, <3>2
  <2> QED  BY <2>1, <2>2 DEF Rows
<1>5. /\ backend \in Backends /\ refs \in Kept
      /\ use \in [Results -> {"table", "idents", "values"}]
      /\ data \in [Results -> [Index -> Index \cup {NoRow}]]
      BY DEF RefsInv, RowsInv, Rows
<1>6. /\ connected \in BOOLEAN /\ stale \in BOOLEAN /\ faults \in 0..MaxFaults
      /\ own \in Counts(MaxHeld) /\ lost \in 0..MaxHeld
      BY DEF BoundsInv, SessionBounds, HeldBounds
<1>7. refs.table \in [Results -> 0..(TableCounts - 1)]
  <2>1. \A r \in Results : refs.table[r] \in 0..(TableCounts - 1)
        BY RoomLeft DEF RefsInv
  <2> QED  BY <1>5, <2>1 DEF Kept
<1>8. refs \in [sql : Nat, db : Nat, selection : [Results -> Nat],
                table : [Results -> 0..(TableCounts - 1)], result : [Results -> Nat],
                row : [Results -> [Index -> Nat]]]
      BY <1>5, <1>7 DEF Kept
<1> QED  BY <1>3, <1>4, <1>5, <1>6, <1>8 DEF TypeOK

\* As long as the program is careful, nothing is released twice, on no count,
\* the count of a table stays within its 16 bits, and nrow, the row count and
\* the cursor of every table stay within its answer, also of one that is gone;
\* provided no scan of SQLite fails after its first row.
THEOREM TypesAreCorrect == Careful => (Spec => [](SafeScans => TypeOK))
<1> SUFFICES ASSUME Careful PROVE Spec => [](SafeScans => TypeOK)
    OBVIOUS
<1> DEFINE Bounded == SafeScans => ReadInv /\ BoundsInv
<1>1. Init => Bounded
  <2>1. Init => ReadInv
        BY DEF Init, NoDeletion, ReadInv
  <2> QED  BY <2>1, BoundsInit
<1>2. RefsInv /\ RowsInv /\ Bounded /\ [Next]_vars /\ RefsInv' /\ RowsInv' => Bounded'
  <2> SUFFICES ASSUME RefsInv, RowsInv, ReadInv, BoundsInv, SafeScans,
                      [Next]_vars, RefsInv', RowsInv'
               PROVE  ReadInv' /\ BoundsInv'
      BY DEF SafeScans
  <2>1. SessionBounds /\ HeldBounds /\ DeletionBounds /\ \A r \in Results : InBounds(tab[r])
        BY DEF BoundsInv
  <2>2. SessionBounds' /\ HeldBounds' /\ DeletionBounds'
        BY <2>1, SessionStep, HeldStep, DeletionStep
  <2>3. \A r \in Results : InBounds(tab'[r])
        BY <2>1, TablesInBounds
  <2>4. ReadInv'
        BY ReadStep
  <2> QED  BY <2>2, <2>3, <2>4 DEF BoundsInv
<1>3. RefsInv /\ HeldBounded /\ RowsInv /\ Bounded => (SafeScans => TypeOK)
      BY TypesFollow
<1> HIDE DEF Bounded
<1> QED  BY <1>1, <1>2, <1>3, RefsInvariant, RowsInvariant, PTL DEF Spec
===============================================================================
