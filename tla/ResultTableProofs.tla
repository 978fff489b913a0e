-------------------------- MODULE ResultTableProofs --------------------------
(***************************************************************************)
(* The reference counts of ResultTable, for any number of results, each     *)
(* client library and any faults, as long as the program is careful: counts *)
(* are the references that exist, and what the program holds is alive.      *)
(***************************************************************************)
EXTENDS ResultTable, TLAPS, FiniteSetTheorems

----------------------------------------------------------------------------
(* Counting the objects that exist. *)

Kept == [sql : Nat, db : Nat, selection : [Results -> Nat], table : [Results -> Nat],
         result : [Results -> Nat], row : [Results -> [Index -> Nat]]]

\* The indexes at which f is positive.
Positive(S, f) == {s \in S : f[s] > 0}
Number(S, f) == Cardinality(Positive(S, f))

\* Changing f at one index changes their number by one or not at all.
LEMMA OneMore ==
    ASSUME NEW S, IsFiniteSet(S), NEW f \in [S -> Nat], NEW g \in [S -> Nat],
           NEW r \in S, \A s \in S \ {r} : g[s] = f[s]
    PROVE  /\ Number(S, f) \in Nat /\ Number(S, g) \in Nat
           /\ Number(S, g) + One(f[r]) = Number(S, f) + One(g[r])
<1> DEFINE F == Positive(S, f)
           G == Positive(S, g)
<1>1. F \subseteq S /\ G \subseteq S
      BY DEF Positive
<1>2. IsFiniteSet(F) /\ IsFiniteSet(G)
      BY <1>1, FS_Subset
<1>3. Cardinality(F) \in Nat /\ Cardinality(G) \in Nat
      BY <1>2, FS_CardinalityType
<1>4. (r \in F <=> f[r] > 0) /\ (r \in G <=> g[r] > 0)
      BY DEF Positive
<1>5. F \ {r} = G \ {r}
      BY DEF Positive
<1>6. IsFiniteSet(F \ {r})
      BY <1>2, FS_RemoveElement
<1>7. Cardinality(F \ {r}) = IF r \in F THEN Cardinality(F) - 1 ELSE Cardinality(F)
      BY <1>2, FS_RemoveElement
<1>8. Cardinality(G \ {r}) = IF r \in G THEN Cardinality(G) - 1 ELSE Cardinality(G)
      BY <1>2, FS_RemoveElement
<1> HIDE DEF F, G
<1>9. Cardinality(G) + One(f[r]) = Cardinality(F) + One(g[r])
      BY <1>3, <1>4, <1>5, <1>7, <1>8 DEF One
<1> QED  BY <1>3, <1>9 DEF Number, F, G

\* There is at least one if f is positive somewhere.
LEMMA AtLeastOne ==
    ASSUME NEW S, IsFiniteSet(S), NEW f \in [S -> Nat]
    PROVE  /\ Number(S, f) \in Nat
           /\ \A r \in S : f[r] > 0 => Number(S, f) > 0
           /\ (\A r \in S : f[r] = 0) => Number(S, f) = 0
<1>1. IsFiniteSet(Positive(S, f))
      BY FS_Subset DEF Positive
<1>2. Number(S, f) \in Nat
      BY <1>1, FS_CardinalityType DEF Number
<1>3. Number(S, f) = 0 <=> Positive(S, f) = {}
      BY <1>1, FS_EmptySet DEF Number
<1>4. \A r \in S : f[r] > 0 => r \in Positive(S, f)
      BY DEF Positive
<1>5. (\A r \in S : f[r] = 0) => Positive(S, f) = {}
      BY DEF Positive
<1> QED  BY <1>2, <1>3, <1>4, <1>5

\* Both range over finite sets.
LEMMA FiniteRanges == IsFiniteSet(Results) /\ IsFiniteSet(Index)
BY BoundsAssumption, FS_Interval DEF Index

\* A careful program copies SQL and DB by assignment, and holds no more of a
\* table, with its rows, than the table can count.
Careful == ~ImplicitCopies /\ MaxHeld + 1 + MaxRowsHeld < TableCounts

\* What it holds of a table.
HeldBounded == \A r \in Results :
    own.table[r] <= MaxHeld /\ Number(Index, own.row[r]) <= MaxRowsHeld

\* A count in its range is kept as it is.
LEMMA InRange ==
    ASSUME NEW n \in Nat, n < TableCounts
    PROVE  AsCount(n) = n
BY BoundsAssumption DEF AsCount

----------------------------------------------------------------------------
(***************************************************************************)
(* The counts c are exact when each is the sum of what the program holds, o, *)
(* and what other objects hold; l counts the lost references and u says what *)
(* each result is.                                                          *)
(***************************************************************************)
SqlExact(c, n) == c.sql = n + One(c.db) + Number(Results, c.table)
DbExact(c, n) == c.db = n + Number(Results, c.result) + Number(Results, c.selection)
TableExact(c, o, r) ==
    c.table[r] = o.table[r] + One(c.result[r]) + Number(Index, o.row[r])
RowsExact(c, o, r) ==
    \A i \in Index : /\ c.row[r][i] = o.row[r][i] + One(c.row[r][i])
                     /\ c.row[r][i] > 0 => c.table[r] > 0
ResultExact(c, o, u, r) ==
    /\ c.result[r] = o.result[r]
    /\ c.selection[r] = (IF u[r] = "values" THEN One(c.result[r]) ELSE 0)
Exact(c, o, l, u) ==
    /\ SqlExact(c, o.sql + l) /\ DbExact(c, o.db)
    /\ \A r \in Results : TableExact(c, o, r) /\ RowsExact(c, o, r) /\ ResultExact(c, o, u, r)

\* Giving back a reference on the db, of n that are not results' or selections'.
LEMMA DbDestroy ==
    ASSUME NEW c \in Kept, NEW n \in Nat, NEW m \in Nat, SqlExact(c, n), DbExact(c, m), m > 0
    PROVE  /\ db_destroy(c) \in Kept
           /\ SqlExact(db_destroy(c), n) /\ DbExact(db_destroy(c), m - 1)
           /\ db_destroy(c).table = c.table /\ db_destroy(c).row = c.row
           /\ db_destroy(c).result = c.result /\ db_destroy(c).selection = c.selection
           /\ db_destroy(c).db = c.db - 1
<1> DEFINE d == db_destroy(c)
<1>1. /\ Number(Results, c.table) \in Nat /\ Number(Results, c.result) \in Nat
      /\ Number(Results, c.selection) \in Nat
      BY FiniteRanges, AtLeastOne DEF Kept
<1>2. c.db > 0 /\ c.sql > 0 /\ c.db \in Nat /\ c.sql \in Nat
      BY <1>1 DEF SqlExact, DbExact, One, Kept
<1>3. d = [sql |-> IF c.db = 1 THEN c.sql - 1 ELSE c.sql, db |-> c.db - 1,
           selection |-> c.selection, table |-> c.table, result |-> c.result, row |-> c.row]
  <2>1. [c EXCEPT !.db = @ - 1]
          = [sql |-> c.sql, db |-> c.db - 1, selection |-> c.selection, table |-> c.table,
             result |-> c.result, row |-> c.row]
        BY DEF Kept
  <2>2. CASE c.db = 1
    <3>1. d = sql_destroy([c EXCEPT !.db = @ - 1])
          BY <2>1, <2>2 DEF db_destroy
    <3> QED  BY <3>1, <2>1, <2>2 DEF sql_destroy
  <2>3. CASE c.db # 1
    <3>1. d = [c EXCEPT !.db = @ - 1]
          BY <2>1, <2>3, <1>2 DEF db_destroy
    <3> QED  BY <3>1, <2>1, <2>3
  <2> QED  BY <2>2, <2>3
<1>4. d \in Kept
  <2>1. /\ c.selection \in [Results -> Nat] /\ c.table \in [Results -> Nat]
        /\ c.result \in [Results -> Nat] /\ c.row \in [Results -> [Index -> Nat]]
        BY DEF Kept
  <2>2. c.db - 1 \in Nat /\ (IF c.db = 1 THEN c.sql - 1 ELSE c.sql) \in Nat
        BY <1>2
  <2> HIDE DEF d
  <2> QED  BY <1>3, <2>1, <2>2 DEF Kept
<1>5. /\ d.db = c.db - 1 /\ d.sql = IF c.db = 1 THEN c.sql - 1 ELSE c.sql
      /\ d.table = c.table /\ d.result = c.result /\ d.selection = c.selection /\ d.row = c.row
      BY <1>3
<1>6. SqlExact(d, n) /\ DbExact(d, m - 1)
      BY <1>1, <1>2, <1>5 DEF SqlExact, DbExact, One
<1> QED  BY <1>4, <1>5, <1>6

\* Giving back a reference on a table: the last one empties the cache.
LEMMA TableDestroy ==
    ASSUME NEW c \in Kept, NEW n \in Nat, SqlExact(c, n), NEW r \in Results, c.table[r] > 0
    PROVE  LET d == table_destroy(c, r)
           IN  /\ d \in Kept /\ SqlExact(d, n)
               /\ d.db = c.db /\ d.selection = c.selection /\ d.result = c.result
               /\ d.table = [c.table EXCEPT ![r] = @ - 1]
               /\ \A s \in Results \ {r} : d.row[s] = c.row[s]
               /\ d.table[r] > 0 => d.row[r] = c.row[r]
               /\ d.table[r] = 0 => d.row[r] = [i \in Index |-> IF c.row[r][i] > 0
                                                     THEN c.row[r][i] - 1 ELSE 0]
<1> DEFINE d == table_destroy(c, r)
           t == [c.table EXCEPT ![r] = @ - 1]
           emptied == [i \in Index |-> IF c.row[r][i] > 0 THEN c.row[r][i] - 1 ELSE 0]
<1>1. /\ c.table \in [Results -> Nat] /\ c.row \in [Results -> [Index -> Nat]]
      /\ c.sql \in Nat /\ c.db \in Nat /\ c.table[r] \in Nat
      BY DEF Kept
<1>2. t \in [Results -> Nat] /\ t[r] = c.table[r] - 1 /\ \A s \in Results \ {r} : t[s] = c.table[s]
      BY <1>1
<1>3. /\ Number(Results, c.table) \in Nat /\ Number(Results, t) \in Nat
      /\ Number(Results, t) + 1 = Number(Results, c.table) + One(t[r])
  <2>1. One(c.table[r]) = 1
        BY DEF One
  <2> QED  BY <1>1, <1>2, <2>1, OneMore, FiniteRanges
<1>4. c.sql > 0
  <2>1. Number(Results, c.table) > 0
        BY <1>1, FiniteRanges, AtLeastOne
  <2> QED  BY <2>1, <1>1, <1>3 DEF SqlExact, One
<1>5. CASE t[r] > 0
  <2>1. d = [sql |-> c.sql, db |-> c.db, selection |-> c.selection, table |-> t,
             result |-> c.result, row |-> c.row]
        BY <1>5, <1>2 DEF table_destroy, Kept
  <2>2. d \in Kept /\ d.table = t /\ d.row = c.row /\ d.sql = c.sql /\ d.db = c.db
        /\ d.selection = c.selection /\ d.result = c.result
        BY <2>1, <1>2 DEF Kept
  <2>3. SqlExact(d, n)
        BY <2>2, <1>3, <1>5 DEF SqlExact, One
  <2> QED  BY <2>2, <2>3, <1>2, <1>5
<1>6. CASE ~(t[r] > 0)
  <2>1. emptied \in [Index -> Nat]
        BY <1>1
  <2>2. d = [sql |-> c.sql - 1, db |-> c.db, selection |-> c.selection, table |-> t,
             result |-> c.result, row |-> [c.row EXCEPT ![r] = emptied]]
    <3> DEFINE e == [c EXCEPT !.table[r] = @ - 1]
               w == [i \in Index |-> IF e.row[r][i] > 0 THEN e.row[r][i] - 1 ELSE 0]
    <3>1. e = [sql |-> c.sql, db |-> c.db, selection |-> c.selection, table |-> t,
               result |-> c.result, row |-> c.row]
      <4>1. e = [c EXCEPT !.table = t]
            BY DEF Kept
      <4> HIDE DEF e, t
      <4> QED  BY <4>1 DEF Kept
    <3>2. ~(e.table[r] > 0)
          BY <3>1, <1>6
    <3>3. d = sql_destroy([e EXCEPT !.row[r] = w])
          BY <3>2, Zenon DEF table_destroy
    <3>4. w = emptied
          BY <3>1
    <3> HIDE DEF e, w, emptied, d, t
    <3>5. [e EXCEPT !.row[r] = emptied]
            = [sql |-> c.sql, db |-> c.db, selection |-> c.selection, table |-> t,
               result |-> c.result, row |-> [c.row EXCEPT ![r] = emptied]]
          BY <3>1
    <3>6. d = sql_destroy([e EXCEPT !.row[r] = emptied])
          BY <3>3, <3>4
    <3> QED  BY <3>5, <3>6 DEF sql_destroy
  <2>3. /\ d \in Kept /\ d.table = t /\ d.row = [c.row EXCEPT ![r] = emptied]
        /\ d.sql = c.sql - 1 /\ d.db = c.db /\ d.selection = c.selection /\ d.result = c.result
        BY <2>1, <2>2, <1>1, <1>2, <1>4 DEF Kept
  <2>4. SqlExact(d, n)
    <3>1. d.table = t /\ d.sql = c.sql - 1 /\ d.db = c.db
          BY <2>3
    <3> HIDE DEF d, t
    <3>2. Number(Results, d.table) = Number(Results, c.table) - 1
          BY <3>1, <1>3, <1>6 DEF One
    <3> QED  BY <3>1, <3>2, <1>1, <1>3 DEF SqlExact, One
  <2> QED  BY <2>3, <2>4, <1>1, <1>2, <1>6
<1> QED  BY <1>5, <1>6, <1>2

\* Only what belongs to r changed.
Elsewhere(c, d, r) ==
    \A s \in Results \ {r} : /\ d.table[s] = c.table[s] /\ d.row[s] = c.row[s]
                             /\ d.result[s] = c.result[s] /\ d.selection[s] = c.selection[s]

\* No table is there that was not there before, and the rows cached are those
\* that were, unless their table went.
Within(c, d) == \A s \in Results :
    /\ d.table[s] > 0 => c.table[s] > 0
    /\ \A j \in Index : d.row[s][j] > 0 => c.row[s][j] > 0
    /\ \A j \in Index : d.table[s] > 0 /\ c.row[s][j] > 0 => d.row[s][j] > 0

\* The table counts one reference more than there are besides it.
Owing(c, p, r) ==
    /\ c.table[r] = 1 + p.table[r] + One(c.result[r]) + Number(Index, p.row[r])
    /\ \A i \in Index : c.row[r][i] = p.row[r][i] + One(c.row[r][i])

\* A table gives back one reference of those it counts: its counts are exact
\* again, whether it goes on or is freed with its rows.
LEMMA TableRelease ==
    ASSUME NEW c \in Kept, NEW p \in Kept, NEW n \in Nat, SqlExact(c, n),
           NEW r \in Results, Owing(c, p, r),
           NEW d, d = table_destroy(c, r)
    PROVE  /\ d \in Kept /\ SqlExact(d, n) /\ TableExact(d, p, r) /\ RowsExact(d, p, r)
           /\ d.db = c.db /\ d.selection = c.selection /\ d.result = c.result
           /\ Elsewhere(c, d, r) /\ Within(c, d)
<1>1. /\ c.table \in [Results -> Nat] /\ c.row[r] \in [Index -> Nat]
      /\ p.row[r] \in [Index -> Nat] /\ p.table[r] \in Nat
      BY DEF Kept
<1>2. /\ Number(Index, p.row[r]) \in Nat
      /\ \A i \in Index : p.row[r][i] > 0 => Number(Index, p.row[r]) > 0
      BY <1>1, FiniteRanges, AtLeastOne
<1>3. c.table[r] > 0
      BY <1>1, <1>2 DEF Owing, One
<1>4. /\ d \in Kept /\ SqlExact(d, n)
      /\ d.db = c.db /\ d.selection = c.selection /\ d.result = c.result
      /\ d.table = [c.table EXCEPT ![r] = @ - 1]
      /\ \A s \in Results \ {r} : d.row[s] = c.row[s]
      /\ d.table[r] > 0 => d.row[r] = c.row[r]
      /\ d.table[r] = 0 => d.row[r] = [i \in Index |-> IF c.row[r][i] > 0
                                                       THEN c.row[r][i] - 1 ELSE 0]
      BY <1>3, TableDestroy
<1>5. d.table[r] = c.table[r] - 1 /\ d.table[r] \in Nat
      BY <1>1, <1>3, <1>4
<1>6. Elsewhere(c, d, r)
      BY <1>1, <1>4 DEF Elsewhere
<1>7. d.table[r] > 0 \/ d.table[r] = 0
  <2>1. \A x \in Nat : x > 0 \/ x = 0
        OBVIOUS
  <2> QED  BY <1>5, <2>1, Zenon
<1>8. Within(c, d)
  <2>1. ASSUME NEW s \in Results, NEW j \in Index, d.row[s][j] > 0 PROVE c.row[s][j] > 0
    <3>1. CASE s # r
          BY <1>4, <2>1, <3>1
    <3>2. CASE s = r /\ d.table[r] > 0
          BY <1>4, <2>1, <3>2
    <3>3. CASE s = r /\ d.table[r] = 0
          BY <1>1, <1>4, <2>1, <3>3
    <3> QED  BY <1>7, <3>1, <3>2, <3>3, Zenon
  <2>2. ASSUME NEW s \in Results, d.table[s] > 0
        PROVE  c.table[s] > 0 /\ d.row[s] = c.row[s]
    <3>1. CASE s # r
          BY <1>1, <1>4, <2>2, <3>1
    <3>2. CASE s = r
          BY <1>3, <1>4, <2>2, <3>2
    <3> QED  BY <3>1, <3>2
  <2> QED  BY <2>1, <2>2 DEF Within
<1>9. TableExact(d, p, r)
      BY <1>1, <1>2, <1>4, <1>5 DEF Owing, TableExact, One
<1>10. CASE d.table[r] > 0
      BY <1>4, <1>9, <1>10, <1>6, <1>8 DEF Owing, RowsExact
<1>11. CASE d.table[r] = 0
  <2>1. Number(Index, p.row[r]) = 0
        BY <1>1, <1>2, <1>9, <1>11 DEF TableExact, One
  <2>2. ASSUME NEW i \in Index PROVE p.row[r][i] = 0 /\ d.row[r][i] = 0
    <3>1. p.row[r][i] = 0
          BY <1>1, <1>2, <2>1
    <3>2. c.row[r][i] \in {0, 1}
          BY <1>1, <3>1 DEF Owing, One
    <3> QED  BY <1>4, <1>11, <3>1, <3>2
  <2>3. RowsExact(d, p, r)
        BY <2>2 DEF RowsExact, One
  <2> QED  BY <1>4, <1>9, <1>6, <1>8, <2>3
<1> QED  BY <1>10, <1>11, <1>7, Zenon

----------------------------------------------------------------------------
(***************************************************************************)
(* Each operation on handles keeps the counts exact: c and o before it.     *)
(***************************************************************************)
\* What exact counts say of numbers.
LEMMA ExactNumbers ==
    ASSUME NEW c \in Kept, NEW o \in Kept, NEW l \in Nat, NEW u, Exact(c, o, l, u)
    PROVE  /\ Number(Results, c.table) \in Nat /\ Number(Results, c.result) \in Nat
           /\ Number(Results, c.selection) \in Nat
           /\ c.sql \in Nat /\ c.db \in Nat /\ o.sql \in Nat /\ o.db \in Nat
           /\ c.sql >= o.sql /\ c.db >= o.db
           /\ c.db > 0 => c.sql > 0
           /\ \A r \in Results :
                 /\ c.table[r] \in Nat /\ o.table[r] \in Nat /\ o.result[r] \in Nat
                 /\ c.result[r] \in Nat /\ c.selection[r] \in Nat
                 /\ o.row[r] \in [Index -> Nat] /\ c.row[r] \in [Index -> Nat]
                 /\ Number(Index, o.row[r]) \in Nat
                 /\ c.table[r] >= o.table[r]
                 /\ c.table[r] > 0 => c.sql > 0
                 /\ o.result[r] > 0 => c.table[r] > 0 /\ c.db > 0
<1>1. /\ c.table \in [Results -> Nat] /\ c.result \in [Results -> Nat]
      /\ c.selection \in [Results -> Nat] /\ o.table \in [Results -> Nat]
      /\ o.result \in [Results -> Nat]
      /\ c.sql \in Nat /\ c.db \in Nat /\ o.sql \in Nat /\ o.db \in Nat
      /\ \A r \in Results : o.row[r] \in [Index -> Nat] /\ c.row[r] \in [Index -> Nat]
      BY DEF Kept
<1>2. /\ Number(Results, c.table) \in Nat /\ Number(Results, c.result) \in Nat
      /\ Number(Results, c.selection) \in Nat
      /\ \A r \in Results : c.table[r] > 0 => Number(Results, c.table) > 0
      /\ \A r \in Results : c.result[r] > 0 => Number(Results, c.result) > 0
      /\ \A r \in Results : Number(Index, o.row[r]) \in Nat
      BY <1>1, FiniteRanges, AtLeastOne
<1>3. /\ c.sql >= o.sql /\ c.db >= o.db
      /\ c.db > 0 => c.sql > 0
      BY <1>1, <1>2 DEF Exact, SqlExact, DbExact, One
<1>4. ASSUME NEW r \in Results
      PROVE  /\ c.table[r] >= o.table[r]
             /\ c.table[r] > 0 => c.sql > 0
             /\ o.result[r] > 0 => c.table[r] > 0 /\ c.db > 0
  <2>1. /\ TableExact(c, o, r) /\ ResultExact(c, o, u, r)
        /\ SqlExact(c, o.sql + l) /\ DbExact(c, o.db)
        BY DEF Exact
  <2>2. /\ c.table[r] \in Nat /\ o.table[r] \in Nat /\ o.result[r] \in Nat
        /\ Number(Index, o.row[r]) \in Nat
        BY <1>1, <1>2
  <2>3. c.table[r] >= o.table[r] /\ (o.result[r] > 0 => c.table[r] > 0)
        BY <2>1, <2>2 DEF TableExact, ResultExact, One
  <2>4. c.table[r] > 0 => c.sql > 0
    <3>1. c.table[r] > 0 => Number(Results, c.table) > 0
          BY <1>2
    <3> QED  BY <3>1, <2>1, <1>1, <1>2 DEF SqlExact, One
  <2>5. o.result[r] > 0 => c.db > 0
    <3>1. c.result[r] > 0 => Number(Results, c.result) > 0
          BY <1>2
    <3> QED  BY <3>1, <2>1, <1>1, <1>2 DEF DbExact, ResultExact
  <2> QED  BY <2>3, <2>4, <2>5
<1> QED  BY <1>1, <1>2, <1>3, <1>4

\* The tables, results and rows of c and d are the same, and so are the
\* program's handles on them.
SameTables(c, d) ==
    /\ d.table = c.table /\ d.row = c.row /\ d.result = c.result /\ d.selection = c.selection
SameHandles(o, p) == p.table = o.table /\ p.row = o.row /\ p.result = o.result

\* The edits of counts that the operations below make.
FirstDb(c) == [c EXCEPT !.db = 1]
LessDb(c) == [c EXCEPT !.db = @ - 1]
FirstTable(c, r) == [c EXCEPT !.table[r] = 1]
MoreTable(c, r) == [c EXCEPT !.table[r] = @ + 1]
LessTable(c, r) == [c EXCEPT !.table[r] = @ - 1]
MoreRow(c, r, i) == [c EXCEPT !.row[r][i] = @ + 1]
LessRow(c, r, i) == [c EXCEPT !.row[r][i] = @ - 1]
FirstBoth(c, r) == [c EXCEPT !.table[r] = 1, !.result[r] = 1]
FirstSelection(c, r) == [c EXCEPT !.selection[r] = 1]
FirstResult(c, r) == [c EXCEPT !.result[r] = 1]
MoreResult(c, r) == [c EXCEPT !.result[r] = @ + 1]
LessResult(c, r) == [c EXCEPT !.result[r] = @ - 1]

\* Changing the counts of the session's objects leaves the rest alone.
LEMMA EditSql ==
    ASSUME NEW c \in Kept, NEW n \in Nat, NEW d, d = [c EXCEPT !.sql = n]
    PROVE  d \in Kept /\ d.sql = n /\ d.db = c.db /\ SameTables(c, d) /\ SameHandles(c, d)
BY DEF Kept, SameTables, SameHandles
LEMMA EditDb ==
    ASSUME NEW c \in Kept, NEW n \in Nat, NEW d, d = [c EXCEPT !.db = n]
    PROVE  d \in Kept /\ d.db = n /\ d.sql = c.sql /\ SameTables(c, d) /\ SameHandles(c, d)
BY DEF Kept, SameTables, SameHandles

LEMMA SessionExact ==
    ASSUME NEW c \in Kept, NEW o \in Kept, NEW l, NEW u, Exact(c, o, l, u),
           NEW d \in Kept, NEW p \in Kept, NEW m,
           SameTables(c, d), SameHandles(o, p),
           SqlExact(d, p.sql + m), DbExact(d, p.db)
    PROVE  Exact(d, p, m, u)
<1>1. ASSUME NEW r \in Results
      PROVE  TableExact(d, p, r) /\ RowsExact(d, p, r) /\ ResultExact(d, p, u, r)
  <2>1. TableExact(c, o, r) /\ RowsExact(c, o, r) /\ ResultExact(c, o, u, r)
        BY DEF Exact
  <2> QED  BY <2>1 DEF SameTables, SameHandles, TableExact, RowsExact, ResultExact
<1> QED  BY <1>1 DEF Exact

\* SQL handles: one more, one less, and one that a failed preludedb_new lost.
LEMMA SqlHandles ==
    ASSUME NEW c \in Kept, NEW o \in Kept, NEW l \in Nat, NEW u, Exact(c, o, l, u)
    PROVE  /\ sql_ref(c) \in Kept /\ sql_ref(o) \in Kept /\ Exact(sql_ref(c), sql_ref(o), l, u)
           /\ Exact(sql_ref(c), o, l + 1, u)
           /\ sql_ref(c).sql > 0 /\ Within(c, sql_ref(c))
           /\ o.sql > 0 => /\ sql_destroy(c) \in Kept /\ sql_destroy(o) \in Kept
                           /\ Exact(sql_destroy(c), sql_destroy(o), l, u)
                           /\ Within(c, sql_destroy(c))
<1> DEFINE more == sql_ref(o)
           less == sql_destroy(o)
           d == sql_ref(c)
           e == sql_destroy(c)
<1>1. /\ Number(Results, c.table) \in Nat /\ c.sql \in Nat /\ c.db \in Nat /\ o.sql \in Nat
      /\ c.sql >= o.sql
      BY ExactNumbers
<1>2. SqlExact(c, o.sql + l) /\ DbExact(c, o.db)
      BY DEF Exact
<1>3. d.sql = c.sql + 1 /\ d.db = c.db /\ SameTables(c, d) /\ d \in Kept
      BY DEF sql_ref, SameTables, Kept
<1>4. more.sql = o.sql + 1 /\ more.db = o.db /\ SameHandles(o, more) /\ more \in Kept
      BY DEF sql_ref, SameHandles, Kept
<1>5. DbExact(d, o.db) /\ DbExact(d, more.db)
      BY <1>2, <1>3, <1>4 DEF DbExact, SameTables
<1>6. SqlExact(d, more.sql + l) /\ SqlExact(d, o.sql + (l + 1))
      BY <1>1, <1>2, <1>3, <1>4 DEF SqlExact, SameTables, One
<1>7. SameHandles(o, o)
      BY DEF SameHandles
<1>8. ASSUME o.sql > 0 PROVE e \in Kept /\ less \in Kept /\ Exact(e, less, l, u) /\ Within(c, e)
  <2>1. e.sql = c.sql - 1 /\ e.db = c.db /\ SameTables(c, e) /\ e \in Kept
    <3>1. e = [c EXCEPT !.sql = c.sql - 1] /\ c.sql - 1 \in Nat
          BY <1>1, <1>8 DEF sql_destroy
    <3> HIDE DEF e
    <3> QED  BY <3>1, EditSql
  <2>2. less.sql = o.sql - 1 /\ less.db = o.db /\ SameHandles(o, less) /\ less \in Kept
    <3>1. less = [o EXCEPT !.sql = o.sql - 1] /\ o.sql - 1 \in Nat
          BY <1>1, <1>8 DEF sql_destroy
    <3> HIDE DEF less
    <3> QED  BY <3>1, EditSql
  <2>3. SqlExact(e, less.sql + l) /\ DbExact(e, less.db)
        BY <1>1, <1>2, <2>1, <2>2 DEF SqlExact, DbExact, SameTables, One
  <2> HIDE DEF e, less
  <2>4. Exact(e, less, l, u)
        BY <2>1, <2>2, <2>3, SessionExact
  <2> QED  BY <2>1, <2>2, <2>4 DEF Within, SameTables
<1> HIDE DEF d, more
<1>9. Exact(d, more, l, u)
      BY <1>3, <1>4, <1>5, <1>6, SessionExact
<1>10. Exact(d, o, l + 1, u)
      BY <1>3, <1>5, <1>6, <1>7, SessionExact
<1>11. d.sql > 0 /\ Within(c, d)
      BY <1>1, <1>3 DEF Within, SameTables
<1> QED  BY <1>3, <1>4, <1>8, <1>9, <1>10, <1>11 DEF d, more

\* Db handles: the first, one more and one less.
LEMMA DbHandles ==
    ASSUME NEW c \in Kept, NEW o \in Kept, NEW l \in Nat, NEW u, Exact(c, o, l, u)
    PROVE  /\ c.db = 0 => /\ sql_ref(FirstDb(c)) \in Kept /\ FirstDb(o) \in Kept
                          /\ Exact(sql_ref(FirstDb(c)), FirstDb(o), l, u)
                          /\ Within(c, sql_ref(FirstDb(c))) /\ sql_ref(FirstDb(c)).sql > 0
           /\ o.db > 0 => /\ db_ref(c) \in Kept /\ db_ref(o) \in Kept
                          /\ Exact(db_ref(c), db_ref(o), l, u)
                          /\ Within(c, db_ref(c)) /\ db_ref(c).sql = c.sql
           /\ o.db > 0 => /\ db_destroy(c) \in Kept /\ LessDb(o) \in Kept
                          /\ Exact(db_destroy(c), LessDb(o), l, u)
                          /\ Within(c, db_destroy(c))
<1> DEFINE first == sql_ref(FirstDb(c))
           one == FirstDb(o)
           more == db_ref(o)
           less == LessDb(o)
           d == db_ref(c)
           e == db_destroy(c)
<1>1. /\ Number(Results, c.table) \in Nat /\ Number(Results, c.result) \in Nat
      /\ Number(Results, c.selection) \in Nat
      /\ c.sql \in Nat /\ c.db \in Nat /\ o.sql \in Nat /\ o.db \in Nat /\ c.db >= o.db
      BY ExactNumbers
<1>2. SqlExact(c, o.sql + l) /\ DbExact(c, o.db)
      BY DEF Exact
<1>3. ASSUME c.db = 0
      PROVE  /\ first \in Kept /\ one \in Kept /\ Exact(first, one, l, u)
             /\ Within(c, first) /\ first.sql > 0
  <2>1. first.sql = c.sql + 1 /\ first.db = 1 /\ SameTables(c, first) /\ first \in Kept
    <3> DEFINE b == FirstDb(c)
    <3>1. first = [b EXCEPT !.sql = b.sql + 1]
          BY DEF sql_ref
    <3>2. b \in Kept /\ b.db = 1 /\ b.sql = c.sql /\ SameTables(c, b)
          BY EditDb DEF FirstDb
    <3> HIDE DEF b, first
    <3>3. first \in Kept /\ first.sql = b.sql + 1 /\ first.db = b.db /\ SameTables(b, first)
          BY <3>1, <3>2, <1>1, EditSql
    <3> QED  BY <3>2, <3>3 DEF SameTables
  <2>2. one.sql = o.sql /\ one.db = 1 /\ SameHandles(o, one) /\ one \in Kept
        BY DEF SameHandles, Kept, FirstDb
  <2> HIDE DEF first, one
  <2>3. /\ o.db = 0 /\ Number(Results, c.result) = 0 /\ Number(Results, c.selection) = 0
        BY <1>1, <1>2, <1>3 DEF DbExact
  <2>4. DbExact(first, one.db)
        BY <2>1, <2>2, <2>3 DEF DbExact, SameTables
  <2>5. SqlExact(first, one.sql + l)
        BY <1>1, <1>2, <1>3, <2>1, <2>2 DEF SqlExact, SameTables, One
  <2>6. Exact(first, one, l, u)
        BY <2>1, <2>2, <2>4, <2>5, SessionExact
  <2> QED  BY <2>1, <2>2, <2>6, <1>1 DEF Within, SameTables
<1>4. ASSUME o.db > 0
      PROVE  /\ d \in Kept /\ more \in Kept /\ Exact(d, more, l, u)
             /\ Within(c, d) /\ d.sql = c.sql
  <2>1. d.sql = c.sql /\ d.db = c.db + 1 /\ SameTables(c, d) /\ d \in Kept
        BY DEF db_ref, SameTables, Kept
  <2>2. more.sql = o.sql /\ more.db = o.db + 1 /\ SameHandles(o, more) /\ more \in Kept
        BY DEF db_ref, SameHandles, Kept
  <2>3. SqlExact(d, more.sql + l) /\ DbExact(d, more.db)
        BY <1>1, <1>2, <1>4, <2>1, <2>2 DEF SqlExact, DbExact, SameTables, One
  <2> HIDE DEF d, more
  <2>4. Exact(d, more, l, u)
        BY <2>1, <2>2, <2>3, SessionExact
  <2> QED  BY <2>1, <2>2, <2>4 DEF Within, SameTables
<1>5. ASSUME o.db > 0
      PROVE  e \in Kept /\ less \in Kept /\ Exact(e, less, l, u) /\ Within(c, e)
  <2>1. e \in Kept /\ SqlExact(e, o.sql + l) /\ DbExact(e, o.db - 1) /\ SameTables(c, e)
        BY <1>1, <1>2, <1>5, DbDestroy DEF SameTables
  <2>2. less.sql = o.sql /\ less.db = o.db - 1 /\ SameHandles(o, less) /\ less \in Kept
    <3>1. less = [o EXCEPT !.db = o.db - 1] /\ o.db - 1 \in Nat
          BY <1>1, <1>5 DEF LessDb
    <3> HIDE DEF less
    <3> QED  BY <3>1, EditDb
  <2> HIDE DEF e, less
  <2>3. Exact(e, less, l, u)
        BY <2>1, <2>2, SessionExact
  <2> QED  BY <2>1, <2>2, <2>3 DEF Within, SameTables
<1> QED  BY <1>3, <1>4, <1>5

----------------------------------------------------------------------------
(* Operations on one table and what is built on it. *)

\* Exact counts that change at r alone.
LEMMA TableExactly ==
    ASSUME NEW c \in Kept, NEW o \in Kept, NEW l, NEW u, Exact(c, o, l, u),
           NEW d \in Kept, NEW p \in Kept, NEW v, NEW r \in Results,
           Elsewhere(c, d, r), Elsewhere(o, p, r), \A s \in Results \ {r} : v[s] = u[s],
           SqlExact(d, p.sql + l), DbExact(d, p.db),
           TableExact(d, p, r), RowsExact(d, p, r), ResultExact(d, p, v, r)
    PROVE  Exact(d, p, l, v)
<1>1. ASSUME NEW s \in Results \ {r}
      PROVE  TableExact(d, p, s) /\ RowsExact(d, p, s) /\ ResultExact(d, p, v, s)
  <2>1. TableExact(c, o, s) /\ RowsExact(c, o, s) /\ ResultExact(c, o, u, s)
        BY DEF Exact
  <2> QED  BY <2>1 DEF Elsewhere, TableExact, RowsExact, ResultExact
<1> QED  BY <1>1 DEF Exact

\* A copy of a table handle.
LEMMA TableCopied ==
    ASSUME NEW c \in Kept, NEW o \in Kept, NEW l \in Nat, NEW u, Exact(c, o, l, u),
           NEW r \in Results, o.table[r] > 0,
           NEW d, d = MoreTable(c, r), NEW p, p = MoreTable(o, r)
    PROVE  /\ d \in Kept /\ p \in Kept /\ Exact(d, p, l, u)
           /\ Within(c, d) /\ d.sql = c.sql
<1>1. /\ c.table[r] \in Nat /\ o.table[r] \in Nat /\ c.table[r] >= o.table[r]
      /\ Number(Index, o.row[r]) \in Nat /\ c.table \in [Results -> Nat]
      /\ o.table \in [Results -> Nat]
      BY ExactNumbers DEF Kept
<1>2. /\ SqlExact(c, o.sql + l) /\ DbExact(c, o.db)
      /\ TableExact(c, o, r) /\ RowsExact(c, o, r) /\ ResultExact(c, o, u, r)
      BY DEF Exact
<1>3. /\ d \in Kept /\ d.table = [c.table EXCEPT ![r] = c.table[r] + 1]
      /\ d.sql = c.sql /\ d.db = c.db /\ d.row = c.row /\ d.result = c.result
      /\ d.selection = c.selection
  <2>1. c.table[r] + 1 \in Nat
        BY <1>1
  <2> QED  BY <2>1 DEF Kept, MoreTable
<1>4. /\ p \in Kept /\ p.table = [o.table EXCEPT ![r] = o.table[r] + 1]
      /\ p.sql = o.sql /\ p.db = o.db /\ p.row = o.row /\ p.result = o.result
      /\ p.selection = o.selection
  <2>1. o.table[r] + 1 \in Nat
        BY <1>1
  <2> QED  BY <2>1 DEF Kept, MoreTable
<1>5. d.table[r] = c.table[r] + 1 /\ p.table[r] = o.table[r] + 1
      BY <1>1, <1>3, <1>4
<1>6. Elsewhere(c, d, r) /\ Elsewhere(o, p, r)
      BY <1>1, <1>3, <1>4 DEF Elsewhere
<1>7. Number(Results, d.table) = Number(Results, c.table)
      BY <1>1, <1>3, <1>5, OneMore, FiniteRanges DEF One
<1>8. SqlExact(d, p.sql + l) /\ DbExact(d, p.db)
      BY <1>2, <1>3, <1>4, <1>7 DEF SqlExact, DbExact
<1>9. TableExact(d, p, r)
      BY <1>1, <1>2, <1>3, <1>4, <1>5 DEF TableExact, One
<1>10. RowsExact(d, p, r) /\ ResultExact(d, p, u, r)
      BY <1>1, <1>2, <1>3, <1>4, <1>5 DEF RowsExact, ResultExact
<1>11. Exact(d, p, l, u)
      BY <1>3, <1>4, <1>6, <1>8, <1>9, <1>10, TableExactly
<1>12. Within(c, d)
      BY <1>1, <1>3 DEF Within
<1> QED  BY <1>3, <1>4, <1>11, <1>12

\* Giving back a table handle.
LEMMA TableDestroyed ==
    ASSUME NEW c \in Kept, NEW o \in Kept, NEW l \in Nat, NEW u, Exact(c, o, l, u),
           NEW r \in Results, o.table[r] > 0,
           NEW d, d = table_destroy(c, r), NEW p, p = LessTable(o, r)
    PROVE  d \in Kept /\ p \in Kept /\ Exact(d, p, l, u) /\ Within(c, d)
<1>1. /\ c.table[r] \in Nat /\ o.table[r] \in Nat /\ o.sql \in Nat
      /\ o.table \in [Results -> Nat] /\ Number(Index, o.row[r]) \in Nat
      BY ExactNumbers DEF Kept
<1>2. /\ SqlExact(c, o.sql + l) /\ DbExact(c, o.db)
      /\ TableExact(c, o, r) /\ RowsExact(c, o, r) /\ ResultExact(c, o, u, r)
      BY DEF Exact
<1>3. /\ p \in Kept /\ p.table = [o.table EXCEPT ![r] = o.table[r] - 1]
      /\ p.sql = o.sql /\ p.db = o.db /\ p.row = o.row /\ p.result = o.result
      /\ p.selection = o.selection
  <2>1. o.table[r] - 1 \in Nat
        BY <1>1
  <2> QED  BY <2>1 DEF Kept, LessTable
<1>4. p.table[r] = o.table[r] - 1 /\ p.row[r] = o.row[r]
      BY <1>1, <1>3
<1>5. Owing(c, p, r)
      BY <1>1, <1>2, <1>4 DEF Owing, TableExact, RowsExact, One
<1>6. PICK m \in Nat : m = o.sql + l
      BY <1>1
<1>7. SqlExact(c, m)
      BY <1>2, <1>6
<1>8. /\ d \in Kept /\ SqlExact(d, m) /\ TableExact(d, p, r) /\ RowsExact(d, p, r)
      /\ d.db = c.db /\ d.selection = c.selection /\ d.result = c.result
      /\ Elsewhere(c, d, r) /\ Within(c, d)
      BY <1>3, <1>5, <1>7, TableRelease
<1>9. Elsewhere(o, p, r)
      BY <1>1, <1>3 DEF Elsewhere, Kept
<1>10. DbExact(d, p.db) /\ ResultExact(d, p, u, r) /\ SqlExact(d, p.sql + l)
      BY <1>2, <1>3, <1>6, <1>8 DEF DbExact, ResultExact
<1> QED  BY <1>3, <1>8, <1>9, <1>10, TableExactly

\* Another reference on a cached row, which the program gets.
LEMMA RowCopied ==
    ASSUME NEW c \in Kept, NEW o \in Kept, NEW l \in Nat, NEW u, Exact(c, o, l, u),
           NEW r \in Results, NEW i \in Index, c.row[r][i] > 0,
           c.row[r][i] = 1 => c.table[r] + 1 < TableCounts,
           NEW d, d = row_ref(c, r, i), NEW p, p = MoreRow(o, r, i)
    PROVE  /\ d \in Kept /\ p \in Kept /\ Exact(d, p, l, u)
           /\ Within(c, d) /\ d.sql = c.sql
<1> DEFINE before == o.row[r]
           after == [o.row[r] EXCEPT ![i] = o.row[r][i] + 1]
           n == IF c.row[r][i] = 1 THEN c.table[r] + 1 ELSE c.table[r]
<1>1. /\ c.table \in [Results -> Nat] /\ before \in [Index -> Nat] /\ c.row[r] \in [Index -> Nat]
      /\ after \in [Index -> Nat] /\ o.table[r] \in Nat /\ c.table[r] \in Nat /\ n \in Nat
      /\ after[i] = before[i] + 1 /\ \A j \in Index \ {i} : after[j] = before[j]
      BY ExactNumbers DEF Kept
<1>2. /\ SqlExact(c, o.sql + l) /\ DbExact(c, o.db)
      /\ TableExact(c, o, r) /\ RowsExact(c, o, r) /\ ResultExact(c, o, u, r)
      BY DEF Exact
<1>3. /\ d \in Kept /\ d.table = [c.table EXCEPT ![r] = n]
      /\ d.row = [c.row EXCEPT ![r] = [c.row[r] EXCEPT ![i] = c.row[r][i] + 1]]
      /\ d.sql = c.sql /\ d.db = c.db /\ d.result = c.result /\ d.selection = c.selection
  <2>1. c.row[r][i] + 1 \in Nat
        BY <1>1
  <2>2. c.row[r][i] = 1 => AsCount(c.table[r] + 1) = c.table[r] + 1
        BY <1>1, InRange
  <2>3. (IF c.row[r][i] = 1 THEN AsCount(c.table[r] + 1) ELSE c.table[r]) = n
        BY <2>2
  <2>4. d = [c EXCEPT !.row[r][i] = c.row[r][i] + 1, !.table[r] = n]
        BY <2>3, Zenon DEF row_ref
  <2>5. n \in Nat
        BY <1>1
  <2> HIDE DEF n, before, after
  <2>6. d = [sql |-> c.sql, db |-> c.db, selection |-> c.selection, result |-> c.result,
             table |-> [c.table EXCEPT ![r] = n],
             row |-> [c.row EXCEPT ![r] = [c.row[r] EXCEPT ![i] = c.row[r][i] + 1]]]
        BY <2>4 DEF Kept
  <2> QED  BY <2>1, <2>5, <2>6 DEF Kept
<1>4. /\ p \in Kept /\ p.row = [o.row EXCEPT ![r] = after]
      /\ p.sql = o.sql /\ p.db = o.db /\ p.table = o.table /\ p.result = o.result
      /\ p.selection = o.selection
  <2>1. o.row[r][i] + 1 \in Nat
        BY <1>1
  <2> QED  BY <2>1 DEF Kept, MoreRow
<1>5. p.row[r] = after /\ d.table[r] = n
      BY <1>1, <1>3, <1>4 DEF Kept
<1>6. d.row[r] = [c.row[r] EXCEPT ![i] = c.row[r][i] + 1]
      BY <1>3 DEF Kept
<1>7. c.row[r][i] = before[i] + 1 /\ c.table[r] > 0 /\ n > 0
      BY <1>1, <1>2 DEF RowsExact, One
<1> HIDE DEF before, after, n
<1>8. /\ Number(Index, before) \in Nat /\ Number(Index, after) \in Nat
      /\ Number(Index, after) + One(before[i]) = Number(Index, before) + One(after[i])
      BY <1>1, OneMore, FiniteRanges
<1>9. Number(Index, after) = Number(Index, before) + (IF c.row[r][i] = 1 THEN 1 ELSE 0)
      BY <1>1, <1>7, <1>8 DEF One
<1>10. TableExact(d, p, r)
  <2>1. c.table[r] = o.table[r] + One(c.result[r]) + Number(Index, before)
        BY <1>2 DEF TableExact, before
  <2>2. n = o.table[r] + One(c.result[r]) + Number(Index, after)
        BY <2>1, <1>1, <1>8, <1>9 DEF n, One
  <2> QED  BY <2>2, <1>3, <1>4, <1>5 DEF TableExact
<1>11. RowsExact(d, p, r)
  <2>1. ASSUME NEW j \in Index, j # i PROVE d.row[r][j] = p.row[r][j] + One(d.row[r][j])
        BY <2>1, <1>1, <1>2, <1>5, <1>6 DEF RowsExact, before
  <2>2. d.row[r][i] = p.row[r][i] + One(d.row[r][i])
        BY <1>1, <1>5, <1>6, <1>7 DEF One
  <2> QED  BY <2>1, <2>2, <1>5, <1>7 DEF RowsExact
<1>12. Elsewhere(c, d, r) /\ Elsewhere(o, p, r)
      BY <1>1, <1>3, <1>4 DEF Elsewhere, Kept
<1>13. Number(Results, d.table) = Number(Results, c.table)
  <2>1. d.table \in [Results -> Nat] /\ \A s \in Results \ {r} : d.table[s] = c.table[s]
        BY <1>3, <1>12 DEF Elsewhere, Kept
  <2>2. /\ Number(Results, c.table) \in Nat /\ Number(Results, d.table) \in Nat
        /\ Number(Results, d.table) + One(c.table[r]) = Number(Results, c.table) + One(d.table[r])
        BY <2>1, <1>1, OneMore, FiniteRanges
  <2> QED  BY <2>2, <1>1, <1>5, <1>7 DEF One
<1>14. SqlExact(d, p.sql + l) /\ DbExact(d, p.db) /\ ResultExact(d, p, u, r)
      BY <1>2, <1>3, <1>4, <1>13 DEF SqlExact, DbExact, ResultExact
<1>15. Exact(d, p, l, u)
      BY <1>3, <1>4, <1>10, <1>11, <1>12, <1>14, TableExactly
<1>16. Within(c, d)
  <2>1. ASSUME NEW s \in Results
        PROVE  /\ d.table[s] > 0 => c.table[s] > 0
               /\ \A j \in Index : d.row[s][j] > 0 <=> c.row[s][j] > 0
    <3>1. CASE s # r
          BY <1>12, <3>1 DEF Elsewhere
    <3>2. CASE s = r
          BY <1>1, <1>6, <1>7, <3>2
    <3> QED  BY <3>1, <3>2
  <2> QED  BY <2>1 DEF Within
<1> QED  BY <1>3, <1>4, <1>15, <1>16

\* Giving back a row, and with the last handle on it the table.
LEMMA RowDestroyed ==
    ASSUME NEW c \in Kept, NEW o \in Kept, NEW l \in Nat, NEW u, Exact(c, o, l, u),
           NEW r \in Results, NEW i \in Index, o.row[r][i] > 0,
           NEW d, d = row_destroy(c, r, i), NEW p, p = LessRow(o, r, i)
    PROVE  d \in Kept /\ p \in Kept /\ Exact(d, p, l, u) /\ Within(c, d)
<1> DEFINE before == o.row[r]
           after == [o.row[r] EXCEPT ![i] = o.row[r][i] - 1]
           e == [c EXCEPT !.row[r][i] = c.row[r][i] - 1]
<1>1. /\ before \in [Index -> Nat] /\ c.row[r] \in [Index -> Nat] /\ o.sql \in Nat
      /\ after \in [Index -> Nat] /\ o.table[r] \in Nat /\ c.table[r] \in Nat
      /\ after[i] = before[i] - 1 /\ \A j \in Index \ {i} : after[j] = before[j]
      /\ before[i] > 0 /\ c.result[r] \in Nat
      BY ExactNumbers DEF Kept
<1>2. /\ SqlExact(c, o.sql + l) /\ DbExact(c, o.db)
      /\ TableExact(c, o, r) /\ RowsExact(c, o, r) /\ ResultExact(c, o, u, r)
      BY DEF Exact
<1>3. c.row[r][i] = before[i] + 1 /\ c.row[r][i] - 1 \in Nat
      BY <1>1, <1>2 DEF RowsExact, One
<1>4. /\ p \in Kept /\ p.row = [o.row EXCEPT ![r] = after]
      /\ p.sql = o.sql /\ p.db = o.db /\ p.table = o.table /\ p.result = o.result
      /\ p.selection = o.selection
  <2>1. o.row[r][i] - 1 \in Nat
        BY <1>1
  <2> QED  BY <2>1 DEF Kept, LessRow
<1>5. /\ e \in Kept /\ e.row = [c.row EXCEPT ![r] = [c.row[r] EXCEPT ![i] = c.row[r][i] - 1]]
      /\ e.sql = c.sql /\ e.db = c.db /\ e.table = c.table /\ e.result = c.result
      /\ e.selection = c.selection
      BY <1>3 DEF Kept
<1>6. p.row[r] = after /\ e.row[r] = [c.row[r] EXCEPT ![i] = c.row[r][i] - 1]
      BY <1>4, <1>5 DEF Kept
<1>7. Elsewhere(o, p, r) /\ Elsewhere(c, e, r)
      BY <1>4, <1>5 DEF Elsewhere, Kept
<1>8. d = IF e.row[r][i] = 1 THEN table_destroy(e, r) ELSE e
      BY Zenon DEF row_destroy
<1> HIDE DEF before, after, e
<1>9. /\ Number(Index, before) \in Nat /\ Number(Index, after) \in Nat
      /\ Number(Index, after) + One(before[i]) = Number(Index, before) + One(after[i])
      BY <1>1, OneMore, FiniteRanges
<1>10. e.row[r][i] = before[i] /\ e.row[r][i] \in Nat
      BY <1>1, <1>3, <1>6
<1>11. Number(Index, before) = Number(Index, after) + (IF e.row[r][i] = 1 THEN 1 ELSE 0)
      BY <1>1, <1>9, <1>10 DEF One
<1>12. c.table[r] = o.table[r] + One(c.result[r]) + Number(Index, before) /\ c.table[r] > 0
      BY <1>1, <1>2, <1>3 DEF TableExact, RowsExact, before
<1>13. ASSUME NEW j \in Index PROVE e.row[r][j] = p.row[r][j] + One(e.row[r][j])
  <2>1. CASE j = i
        BY <2>1, <1>1, <1>6, <1>10 DEF One
  <2>2. CASE j # i
        BY <2>2, <1>1, <1>2, <1>6 DEF RowsExact, before
  <2> QED  BY <2>1, <2>2
<1>14. PICK m \in Nat : m = o.sql + l
      BY <1>1
<1>15. SqlExact(e, m) /\ DbExact(e, p.db) /\ ResultExact(e, p, u, r)
      BY <1>2, <1>4, <1>5, <1>14 DEF SqlExact, DbExact, ResultExact
<1>16. Within(c, e)
  <2>1. ASSUME NEW s \in Results, NEW j \in Index PROVE e.row[s][j] > 0 <=> c.row[s][j] > 0
    <3>1. CASE s # r
          BY <1>7, <3>1 DEF Elsewhere
    <3>2. CASE s = r /\ j = i
          BY <1>1, <1>3, <1>10, <3>2
    <3>3. CASE s = r /\ j # i
          BY <1>1, <1>6, <3>3
    <3> QED  BY <3>1, <3>2, <3>3
  <2> QED  BY <1>5, <2>1 DEF Within
<1>17. CASE e.row[r][i] = 1
  <2>1. Owing(e, p, r)
    <3>1. e.table[r] = 1 + p.table[r] + One(e.result[r]) + Number(Index, p.row[r])
          BY <1>1, <1>4, <1>5, <1>6, <1>9, <1>11, <1>12, <1>17 DEF One
    <3> QED  BY <3>1, <1>13 DEF Owing
  <2>2. d = table_destroy(e, r)
        BY <1>8, <1>17
  <2>3. /\ d \in Kept /\ SqlExact(d, m) /\ TableExact(d, p, r) /\ RowsExact(d, p, r)
        /\ d.db = e.db /\ d.selection = e.selection /\ d.result = e.result
        /\ Elsewhere(e, d, r) /\ Within(e, d)
        BY <1>4, <1>5, <1>15, <2>1, <2>2, TableRelease
  <2>4. Elsewhere(c, d, r)
        BY <1>7, <2>3 DEF Elsewhere
  <2>5. DbExact(d, p.db) /\ ResultExact(d, p, u, r) /\ SqlExact(d, p.sql + l)
        BY <1>4, <1>14, <1>15, <2>3 DEF DbExact, ResultExact
  <2>6. Exact(d, p, l, u)
        BY <1>4, <1>7, <2>3, <2>4, <2>5, TableExactly
  <2> QED  BY <1>4, <1>16, <2>3, <2>6 DEF Within
<1>18. CASE e.row[r][i] # 1
  <2>1. d = e
        BY <1>8, <1>18
  <2>2. TableExact(e, p, r)
        BY <1>4, <1>5, <1>6, <1>9, <1>11, <1>12, <1>18 DEF TableExact
  <2>3. RowsExact(e, p, r)
        BY <1>5, <1>12, <1>13 DEF RowsExact
  <2>4. SqlExact(e, p.sql + l)
        BY <1>4, <1>14, <1>15
  <2>5. Exact(e, p, l, u)
        BY <1>4, <1>5, <1>7, <1>15, <2>2, <2>3, <2>4, TableExactly
  <2> QED  BY <1>4, <1>5, <1>16, <2>1, <2>5
<1> QED  BY <1>17, <1>18

\* Rows that come into the cache belong to it.
LEMMA RowsCached ==
    ASSUME NEW c \in Kept, NEW o \in Kept, NEW l \in Nat, NEW u, Exact(c, o, l, u),
           NEW r \in Results, c.table[r] > 0, NEW x,
           \A j \in Index : j \in DOMAIN x.rows => c.row[r][j] = 0,
           NEW d, d = CacheRows(c, r, x)
    PROVE  d \in Kept /\ Exact(d, o, l, u) /\ d.sql = c.sql
<1> DEFINE rows == [j \in Index |-> IF j \in DOMAIN x.rows THEN 1 ELSE c.row[r][j]]
<1>1. c.row[r] \in [Index -> Nat] /\ o.row[r] \in [Index -> Nat] /\ rows \in [Index -> Nat]
      BY DEF Kept
<1>2. /\ SqlExact(c, o.sql + l) /\ DbExact(c, o.db)
      /\ TableExact(c, o, r) /\ RowsExact(c, o, r) /\ ResultExact(c, o, u, r)
      BY DEF Exact
<1> HIDE DEF rows
<1>3. d = [sql |-> c.sql, db |-> c.db, selection |-> c.selection, table |-> c.table,
           result |-> c.result, row |-> [c.row EXCEPT ![r] = rows]]
      BY DEF CacheRows, Kept, rows
<1>4. /\ d \in Kept /\ d.row = [c.row EXCEPT ![r] = rows] /\ d.sql = c.sql /\ d.db = c.db
      /\ d.table = c.table /\ d.result = c.result /\ d.selection = c.selection
      BY <1>1, <1>3 DEF Kept
<1>5. d.row[r] = rows /\ Elsewhere(c, d, r) /\ Elsewhere(o, o, r)
      BY <1>4 DEF Elsewhere, Kept
<1>6. ASSUME NEW j \in Index PROVE rows[j] = o.row[r][j] + One(rows[j])
  <2>1. c.row[r][j] = o.row[r][j] + One(c.row[r][j])
        BY <1>2 DEF RowsExact
  <2>2. CASE j \in DOMAIN x.rows
        BY <2>1, <2>2, <1>1 DEF One, rows
  <2>3. CASE j \notin DOMAIN x.rows
        BY <2>1, <2>3, <1>1 DEF rows
  <2> QED  BY <2>2, <2>3
<1>7. RowsExact(d, o, r)
      BY <1>4, <1>5, <1>6 DEF RowsExact
<1>8. /\ SqlExact(d, o.sql + l) /\ DbExact(d, o.db)
      /\ TableExact(d, o, r) /\ ResultExact(d, o, u, r)
      BY <1>2, <1>4 DEF SqlExact, DbExact, TableExact, ResultExact
<1>9. Exact(d, o, l, u)
      BY <1>4, <1>5, <1>7, <1>8, TableExactly
<1> QED  BY <1>4, <1>9

\* What exact counts say of a place with no table.
LEMMA EmptyPlace ==
    ASSUME NEW c \in Kept, NEW o \in Kept, NEW l \in Nat, NEW u, Exact(c, o, l, u),
           NEW r \in Results, c.table[r] = 0
    PROVE  /\ o.table[r] = 0 /\ o.result[r] = 0 /\ c.result[r] = 0 /\ c.selection[r] = 0
           /\ Number(Index, o.row[r]) = 0
           /\ \A i \in Index : c.row[r][i] = 0 /\ o.row[r][i] = 0
<1>1. /\ o.table[r] \in Nat /\ c.result[r] \in Nat /\ c.selection[r] \in Nat
      /\ o.row[r] \in [Index -> Nat] /\ c.row[r] \in [Index -> Nat]
      /\ Number(Index, o.row[r]) \in Nat
      BY ExactNumbers
<1>2. TableExact(c, o, r) /\ RowsExact(c, o, r) /\ ResultExact(c, o, u, r)
      BY DEF Exact
<1>3. /\ o.table[r] = 0 /\ c.result[r] = 0 /\ Number(Index, o.row[r]) = 0
  <2>1. One(c.result[r]) \in Nat /\ (One(c.result[r]) = 0 => c.result[r] = 0)
        BY <1>1 DEF One
  <2>2. o.table[r] + One(c.result[r]) + Number(Index, o.row[r]) = 0
        BY <1>2 DEF TableExact
  <2> QED  BY <1>1, <2>1, <2>2
<1>4. o.result[r] = 0 /\ c.selection[r] = 0
      BY <1>2, <1>3 DEF ResultExact, One
<1>5. ASSUME NEW i \in Index PROVE c.row[r][i] = 0 /\ o.row[r][i] = 0
      BY <1>1, <1>2 DEF RowsExact, One
<1> QED  BY <1>3, <1>4, <1>5

\* A query that made a table.
LEMMA TableOpened ==
    ASSUME NEW c \in Kept, NEW o \in Kept, NEW l \in Nat, NEW u, Exact(c, o, l, u),
           NEW r \in Results, c.table[r] = 0,
           NEW v, \A s \in Results \ {r} : v[s] = u[s],
           NEW d, d = sql_ref(FirstTable(c, r)), NEW p, p = FirstTable(o, r)
    PROVE  /\ d \in Kept /\ p \in Kept /\ Exact(d, p, l, v)
           /\ d.row = c.row /\ d.sql > 0
<1> DEFINE t == [c.table EXCEPT ![r] = 1]
           w == [o.table EXCEPT ![r] = 1]
<1>1. /\ c.table \in [Results -> Nat] /\ t \in [Results -> Nat] /\ t[r] = 1
      /\ w \in [Results -> Nat] /\ w[r] = 1
      /\ \A s \in Results \ {r} : t[s] = c.table[s] /\ w[s] = o.table[s]
      /\ c.sql \in Nat /\ o.sql \in Nat /\ c.db \in Nat /\ c.sql + 1 \in Nat
      BY DEF Kept
<1>2. /\ SqlExact(c, o.sql + l) /\ DbExact(c, o.db)
      BY DEF Exact
<1>3. /\ o.table[r] = 0 /\ o.result[r] = 0 /\ c.result[r] = 0 /\ c.selection[r] = 0
      /\ Number(Index, o.row[r]) = 0
      /\ \A i \in Index : c.row[r][i] = 0 /\ o.row[r][i] = 0
      BY EmptyPlace
<1>4. d = [sql |-> c.sql + 1, db |-> c.db, selection |-> c.selection, table |-> t,
           result |-> c.result, row |-> c.row]
      BY DEF sql_ref, FirstTable, Kept
<1>5. p = [sql |-> o.sql, db |-> o.db, selection |-> o.selection, table |-> w,
           result |-> o.result, row |-> o.row]
      BY DEF Kept, FirstTable
<1> HIDE DEF t, w
<1>6. d \in Kept /\ p \in Kept
      BY <1>1, <1>4, <1>5 DEF Kept
<1>7. Number(Results, t) = Number(Results, c.table) + 1 /\ Number(Results, c.table) \in Nat
      BY <1>1, OneMore, FiniteRanges DEF One
<1>8. SqlExact(d, p.sql + l)
      BY <1>1, <1>2, <1>4, <1>5, <1>7 DEF SqlExact, One
<1>9. DbExact(d, p.db) /\ Elsewhere(c, d, r) /\ Elsewhere(o, p, r)
      BY <1>1, <1>2, <1>4, <1>5 DEF DbExact, Elsewhere
<1>10. TableExact(d, p, r) /\ RowsExact(d, p, r) /\ ResultExact(d, p, v, r)
      BY <1>1, <1>3, <1>4, <1>5 DEF TableExact, RowsExact, ResultExact, One
<1>11. Exact(d, p, l, v)
      BY <1>6, <1>8, <1>9, <1>10, TableExactly
<1>12. d.row = c.row /\ d.sql > 0
      BY <1>1, <1>4
<1> QED  BY <1>6, <1>11, <1>12

\* A query that made a result: of idents, or of values with a selection.
LEMMA ResultOpened ==
    ASSUME NEW c \in Kept, NEW o \in Kept, NEW l \in Nat, NEW u, Exact(c, o, l, u),
           NEW r \in Results, c.table[r] = 0, o.db > 0, NEW kind,
           NEW v, v[r] = kind, \A s \in Results \ {r} : v[s] = u[s],
           NEW b, b = db_ref(sql_ref(FirstBoth(c, r))),
           NEW d, d = (IF kind = "values" THEN db_ref(FirstSelection(b, r)) ELSE b),
           NEW p, p = FirstResult(o, r)
    PROVE  /\ d \in Kept /\ p \in Kept /\ Exact(d, p, l, v)
           /\ d.row = c.row /\ d.sql > 0
<1> DEFINE t == [c.table EXCEPT ![r] = 1]
           w == [c.result EXCEPT ![r] = 1]
           h == [o.result EXCEPT ![r] = 1]
           q == [c.selection EXCEPT ![r] = 1]
           z == IF kind = "values" THEN q ELSE c.selection
           n == IF kind = "values" THEN 2 ELSE 1
<1>1. /\ c.table \in [Results -> Nat] /\ t \in [Results -> Nat] /\ t[r] = 1
      /\ c.result \in [Results -> Nat] /\ w \in [Results -> Nat] /\ w[r] = 1
      /\ c.selection \in [Results -> Nat] /\ q \in [Results -> Nat] /\ q[r] = 1
      /\ o.result \in [Results -> Nat] /\ h \in [Results -> Nat] /\ h[r] = 1
      /\ \A s \in Results \ {r} : /\ t[s] = c.table[s] /\ w[s] = c.result[s]
                                  /\ q[s] = c.selection[s] /\ h[s] = o.result[s]
      /\ c.sql \in Nat /\ o.sql \in Nat /\ c.db \in Nat /\ o.db \in Nat
      /\ c.sql + 1 \in Nat /\ c.db + n \in Nat
      BY DEF Kept
<1>2. /\ SqlExact(c, o.sql + l) /\ DbExact(c, o.db)
      BY DEF Exact
<1>3. /\ o.table[r] = 0 /\ o.result[r] = 0 /\ c.result[r] = 0 /\ c.selection[r] = 0
      /\ Number(Index, o.row[r]) = 0
      /\ \A i \in Index : c.row[r][i] = 0 /\ o.row[r][i] = 0
      BY EmptyPlace
<1>4. b = [sql |-> c.sql + 1, db |-> c.db + 1, selection |-> c.selection, table |-> t,
           result |-> w, row |-> c.row]
      BY DEF sql_ref, db_ref, FirstBoth, Kept
<1>5. p = [sql |-> o.sql, db |-> o.db, selection |-> o.selection, table |-> o.table,
           result |-> h, row |-> o.row]
      BY DEF Kept, FirstResult
<1> HIDE DEF t, w, h
<1>6. d = [sql |-> c.sql + 1, db |-> c.db + n, selection |-> z, table |-> t,
           result |-> w, row |-> c.row]
  <2>1. CASE kind = "values"
    <3>1. FirstSelection(b, r)
            = [sql |-> c.sql + 1, db |-> c.db + 1, selection |-> q, table |-> t,
               result |-> w, row |-> c.row]
          BY <1>4 DEF FirstSelection
    <3>2. d = db_ref(FirstSelection(b, r)) /\ z = q /\ n = 2 /\ c.db + 1 + 1 = c.db + 2
          BY <2>1, <1>1
    <3> HIDE DEF q, z, n
    <3> QED  BY <3>1, <3>2 DEF db_ref
  <2>2. CASE kind # "values"
        BY <2>2, <1>1, <1>4
  <2> QED  BY <2>1, <2>2
<1>7. /\ z \in [Results -> Nat] /\ z[r] = (IF kind = "values" THEN 1 ELSE 0)
      /\ \A s \in Results \ {r} : z[s] = c.selection[s]
      BY <1>1, <1>3
<1> HIDE DEF q, z
<1>8. d \in Kept /\ p \in Kept
      BY <1>1, <1>5, <1>6, <1>7 DEF Kept
<1>9. Number(Results, t) = Number(Results, c.table) + 1 /\ Number(Results, c.table) \in Nat
      BY <1>1, OneMore, FiniteRanges DEF One
<1>10. Number(Results, w) = Number(Results, c.result) + 1 /\ Number(Results, c.result) \in Nat
      BY <1>1, <1>3, OneMore, FiniteRanges DEF One
<1>11. /\ Number(Results, z) = Number(Results, c.selection) + (n - 1)
       /\ Number(Results, c.selection) \in Nat
  <2>1. /\ Number(Results, z) \in Nat /\ Number(Results, c.selection) \in Nat
        /\ Number(Results, z) + One(c.selection[r]) = Number(Results, c.selection) + One(z[r])
        BY <1>1, <1>7, OneMore, FiniteRanges
  <2>2. One(c.selection[r]) = 0 /\ One(z[r]) = n - 1
        BY <1>3, <1>7 DEF One
  <2> QED  BY <2>1, <2>2
<1>12. c.db > 0
      BY <1>1, <1>2, <1>10, <1>11 DEF DbExact
<1>13. SqlExact(d, p.sql + l) /\ DbExact(d, p.db)
      BY <1>1, <1>2, <1>5, <1>6, <1>9, <1>10, <1>11, <1>12, SMTT(20) DEF SqlExact, DbExact, One
<1>14. Elsewhere(c, d, r) /\ Elsewhere(o, p, r)
      BY <1>1, <1>5, <1>6, <1>7 DEF Elsewhere
<1>15. TableExact(d, p, r) /\ RowsExact(d, p, r) /\ ResultExact(d, p, v, r)
      BY <1>1, <1>3, <1>5, <1>6, <1>7 DEF TableExact, RowsExact, ResultExact, One
<1>16. Exact(d, p, l, v)
      BY <1>8, <1>13, <1>14, <1>15, TableExactly
<1>17. d.row = c.row /\ d.sql > 0
      BY <1>1, <1>6
<1> QED  BY <1>8, <1>16, <1>17

\* A copy of a result handle, or a row object of a result of values.
LEMMA ResultCopied ==
    ASSUME NEW c \in Kept, NEW o \in Kept, NEW l \in Nat, NEW u, Exact(c, o, l, u),
           NEW r \in Results, o.result[r] > 0,
           NEW d, d = MoreResult(c, r), NEW p, p = MoreResult(o, r)
    PROVE  /\ d \in Kept /\ p \in Kept /\ Exact(d, p, l, u)
           /\ Within(c, d) /\ d.sql = c.sql
<1> DEFINE w == [c.result EXCEPT ![r] = c.result[r] + 1]
           h == [o.result EXCEPT ![r] = o.result[r] + 1]
<1>1. /\ c.result \in [Results -> Nat] /\ w \in [Results -> Nat] /\ w[r] = c.result[r] + 1
      /\ o.result \in [Results -> Nat] /\ h \in [Results -> Nat] /\ h[r] = o.result[r] + 1
      /\ \A s \in Results \ {r} : w[s] = c.result[s] /\ h[s] = o.result[s]
      /\ c.result[r] \in Nat /\ o.result[r] \in Nat
      BY DEF Kept
<1>2. /\ SqlExact(c, o.sql + l) /\ DbExact(c, o.db)
      /\ TableExact(c, o, r) /\ RowsExact(c, o, r) /\ ResultExact(c, o, u, r)
      BY DEF Exact
<1>3. d = [sql |-> c.sql, db |-> c.db, selection |-> c.selection, table |-> c.table,
           result |-> w, row |-> c.row]
      BY DEF Kept, MoreResult
<1>4. p = [sql |-> o.sql, db |-> o.db, selection |-> o.selection, table |-> o.table,
           result |-> h, row |-> o.row]
      BY DEF Kept, MoreResult
<1> HIDE DEF w, h
<1>5. d \in Kept /\ p \in Kept
      BY <1>1, <1>3, <1>4 DEF Kept
<1>6. w[r] = h[r] /\ One(w[r]) = 1 /\ One(c.result[r]) = 1
      BY <1>1, <1>2 DEF ResultExact, One
<1>7. Number(Results, w) = Number(Results, c.result)
      BY <1>1, <1>6, OneMore, FiniteRanges
<1>8. SqlExact(d, p.sql + l) /\ DbExact(d, p.db)
      BY <1>2, <1>3, <1>4, <1>7 DEF SqlExact, DbExact
<1>9. Elsewhere(c, d, r) /\ Elsewhere(o, p, r)
      BY <1>1, <1>3, <1>4 DEF Elsewhere
<1>10. TableExact(d, p, r) /\ RowsExact(d, p, r) /\ ResultExact(d, p, u, r)
      BY <1>2, <1>3, <1>4, <1>6 DEF TableExact, RowsExact, ResultExact
<1>11. Exact(d, p, l, u)
      BY <1>5, <1>8, <1>9, <1>10, TableExactly
<1> QED  BY <1>3, <1>5, <1>11 DEF Within

\* A selection gives back its one reference, and with it one on the db.
LEMMA SelectionDestroy ==
    ASSUME NEW c \in Kept, NEW n \in Nat, NEW m \in Nat, SqlExact(c, n), DbExact(c, m), m > 0,
           NEW r \in Results, c.selection[r] = 1,
           NEW d, d = selection_destroy(c, r)
    PROVE  /\ d \in Kept /\ SqlExact(d, n) /\ DbExact(d, m)
           /\ d.table = c.table /\ d.row = c.row /\ d.result = c.result
           /\ d.selection[r] = 0 /\ \A s \in Results \ {r} : d.selection[s] = c.selection[s]
<1> DEFINE e == [c EXCEPT !.selection[r] = @ - 1]
           z == [c.selection EXCEPT ![r] = 0]
<1>1. /\ c.selection \in [Results -> Nat] /\ z \in [Results -> Nat] /\ z[r] = 0
      /\ \A s \in Results \ {r} : z[s] = c.selection[s]
      BY DEF Kept
<1>2. e = [sql |-> c.sql, db |-> c.db, selection |-> z, table |-> c.table,
           result |-> c.result, row |-> c.row]
  <2>1. e = [c EXCEPT !.selection = z]
        BY DEF Kept
  <2> HIDE DEF e, z
  <2> QED  BY <2>1 DEF Kept
<1>3. d = IF e.selection[r] = 0 THEN db_destroy(e) ELSE e
      BY Zenon DEF selection_destroy
<1> HIDE DEF e, z
<1>4. d = db_destroy(e) /\ e \in Kept
      BY <1>1, <1>2, <1>3 DEF Kept
<1>5. Number(Results, c.selection) = Number(Results, z) + 1
  <2>1. /\ Number(Results, z) \in Nat /\ Number(Results, c.selection) \in Nat
        /\ Number(Results, z) + One(c.selection[r]) = Number(Results, c.selection) + One(z[r])
        BY <1>1, OneMore, FiniteRanges
  <2>2. One(c.selection[r]) = 1 /\ One(z[r]) = 0
        BY <1>1 DEF One
  <2> QED  BY <2>1, <2>2
<1>6. Number(Results, z) \in Nat /\ Number(Results, c.result) \in Nat
      BY <1>1, FiniteRanges, AtLeastOne DEF Kept
<1>7. SqlExact(e, n) /\ DbExact(e, m + 1)
      BY <1>2, <1>5, <1>6 DEF SqlExact, DbExact
<1>8. m + 1 \in Nat /\ m + 1 > 0 /\ m + 1 - 1 = m
      OBVIOUS
<1>9. /\ d \in Kept /\ SqlExact(d, n) /\ DbExact(d, m)
      /\ d.table = e.table /\ d.row = e.row /\ d.result = e.result /\ d.selection = e.selection
      BY <1>4, <1>7, <1>8, DbDestroy
<1> QED  BY <1>1, <1>2, <1>9

\* Giving back a result: the last handle gives back its table, its selection
\* if it has one, and its reference on the db.
LEMMA ResultDestroyed ==
    ASSUME NEW c \in Kept, NEW o \in Kept, NEW l \in Nat, Exact(c, o, l, use),
           NEW r \in Results, o.result[r] > 0,
           NEW d, d = result_destroy(c, r), NEW p, p = LessResult(o, r)
    PROVE  d \in Kept /\ p \in Kept /\ Exact(d, p, l, use) /\ Within(c, d)
<1> DEFINE e == LessResult(c, r)
           f == table_destroy(e, r)
           g == selection_destroy(f, r)
           w == [c.result EXCEPT ![r] = c.result[r] - 1]
           h == [o.result EXCEPT ![r] = o.result[r] - 1]
<1>1. /\ SqlExact(c, o.sql + l) /\ DbExact(c, o.db)
      /\ TableExact(c, o, r) /\ RowsExact(c, o, r) /\ ResultExact(c, o, use, r)
      BY DEF Exact
<1>2. /\ c.result \in [Results -> Nat] /\ o.result \in [Results -> Nat]
      /\ c.result[r] \in Nat /\ o.result[r] \in Nat /\ c.result[r] = o.result[r]
      /\ o.table[r] \in Nat /\ c.table[r] \in Nat /\ o.sql \in Nat /\ o.db \in Nat
      /\ Number(Results, c.selection) \in Nat /\ Number(Index, o.row[r]) \in Nat
      BY <1>1, ExactNumbers DEF Kept, ResultExact
<1>3. /\ w \in [Results -> Nat] /\ w[r] = c.result[r] - 1 /\ h \in [Results -> Nat] /\ h[r] = w[r]
      /\ \A s \in Results \ {r} : w[s] = c.result[s] /\ h[s] = o.result[s]
      BY <1>2
<1>4. e = [sql |-> c.sql, db |-> c.db, selection |-> c.selection, table |-> c.table,
           result |-> w, row |-> c.row]
  <2>1. e = [c EXCEPT !.result = w]
        BY DEF Kept, LessResult
  <2> HIDE DEF e, w
  <2> QED  BY <2>1 DEF Kept
<1>5. p = [sql |-> o.sql, db |-> o.db, selection |-> o.selection, table |-> o.table,
           result |-> h, row |-> o.row]
      BY DEF Kept, LessResult
<1>6. d = IF e.result[r] # 0 THEN e
          ELSE db_destroy(IF use[r] = "values" THEN g ELSE f)
      BY Zenon DEF result_destroy, LessResult
<1> HIDE DEF e, f, g, w, h
<1>7. e \in Kept /\ p \in Kept
      BY <1>3, <1>4, <1>5 DEF Kept
<1>8. Elsewhere(c, e, r) /\ Elsewhere(o, p, r)
      BY <1>3, <1>4, <1>5 DEF Elsewhere
<1>9. /\ Number(Results, w) \in Nat /\ Number(Results, c.result) \in Nat
      /\ Number(Results, c.result) = Number(Results, w) + (IF w[r] = 0 THEN 1 ELSE 0)
  <2>1. /\ Number(Results, w) \in Nat /\ Number(Results, c.result) \in Nat
        /\ Number(Results, w) + One(c.result[r]) = Number(Results, c.result) + One(w[r])
        BY <1>2, <1>3, OneMore, FiniteRanges
  <2>2. One(c.result[r]) = 1 /\ One(w[r]) = (IF w[r] = 0 THEN 0 ELSE 1)
        BY <1>2, <1>3 DEF One
  <2> QED  BY <2>1, <2>2
<1>10. PICK m \in Nat : m = o.sql + l
      BY <1>2
<1>11. SqlExact(e, m)
      BY <1>1, <1>4, <1>10 DEF SqlExact
<1>12. CASE w[r] # 0
  <2>1. d = e /\ One(w[r]) = One(c.result[r])
        BY <1>2, <1>3, <1>4, <1>6, <1>12 DEF One
  <2>2. SqlExact(e, p.sql + l) /\ DbExact(e, p.db)
        BY <1>1, <1>4, <1>5, <1>9, <1>10, <1>11, <1>12 DEF DbExact
  <2>3. TableExact(e, p, r) /\ RowsExact(e, p, r) /\ ResultExact(e, p, use, r)
        BY <1>1, <1>3, <1>4, <1>5, <2>1 DEF TableExact, RowsExact, ResultExact
  <2>4. Exact(e, p, l, use)
        BY <1>7, <1>8, <2>2, <2>3, TableExactly
  <2> QED  BY <1>4, <1>7, <2>1, <2>4 DEF Within
<1>13. CASE w[r] = 0
  <2>1. Owing(e, p, r)
    <3>1. One(c.result[r]) = 1 /\ One(w[r]) = 0
          BY <1>2, <1>3, <1>13 DEF One
    <3>2. c.table[r] = 1 + o.table[r] + 0 + Number(Index, o.row[r])
          BY <1>1, <1>2, <3>1 DEF TableExact
    <3>3. e.table[r] = 1 + p.table[r] + One(e.result[r]) + Number(Index, p.row[r])
          BY <1>4, <1>5, <3>1, <3>2
    <3>4. \A i \in Index : e.row[r][i] = p.row[r][i] + One(e.row[r][i])
          BY <1>1, <1>4, <1>5 DEF RowsExact
    <3> QED  BY <3>3, <3>4 DEF Owing
  <2>2. /\ f \in Kept /\ SqlExact(f, m) /\ TableExact(f, p, r) /\ RowsExact(f, p, r)
        /\ f.db = e.db /\ f.selection = e.selection /\ f.result = e.result
        /\ Elsewhere(e, f, r) /\ Within(e, f)
        BY <1>7, <1>11, <2>1, TableRelease DEF f
  <2>3. DbExact(f, o.db + 1) /\ o.db + 1 \in Nat /\ o.db + 1 > 0
        BY <1>1, <1>2, <1>4, <1>9, <1>13, <2>2 DEF DbExact
  <2>4. f.result[r] = 0 /\ p.result[r] = 0 /\ One(c.result[r]) = 1 /\ One(0) = 0
        BY <1>2, <1>3, <1>4, <1>5, <1>13, <2>2 DEF One
  <2>5. ASSUME NEW x \in Kept, d = db_destroy(x), SqlExact(x, m), DbExact(x, o.db + 1),
               x.table = f.table, x.row = f.row, x.result = f.result,
               x.selection[r] = 0, \A s \in Results \ {r} : x.selection[s] = f.selection[s]
        PROVE  d \in Kept /\ Exact(d, p, l, use) /\ Within(c, d)
    <3>1. /\ d \in Kept /\ SqlExact(d, m) /\ DbExact(d, o.db)
          /\ d.table = f.table /\ d.row = f.row /\ d.result = f.result
          /\ d.selection = x.selection
      <4>1. PICK k \in Nat : k = o.db + 1
            BY <1>2
      <4>2. k > 0 /\ k - 1 = o.db
            BY <1>2, <4>1
      <4>3. DbExact(x, k)
            BY <2>5, <4>1
      <4> QED  BY <2>5, <4>2, <4>3, DbDestroy
    <3>2. SqlExact(d, p.sql + l) /\ DbExact(d, p.db)
          BY <1>5, <1>10, <3>1
    <3>3. TableExact(d, p, r) /\ RowsExact(d, p, r)
          BY <2>2, <3>1 DEF TableExact, RowsExact
    <3>4. ResultExact(d, p, use, r)
          BY <2>4, <2>5, <3>1 DEF ResultExact
    <3>5. Elsewhere(c, d, r)
          BY <1>8, <2>2, <2>5, <3>1 DEF Elsewhere
    <3>6. Exact(d, p, l, use)
          BY <1>7, <1>8, <3>1, <3>2, <3>3, <3>4, <3>5, TableExactly
    <3> QED  BY <1>4, <2>2, <3>1, <3>6 DEF Within
  <2>6. CASE use[r] = "values"
    <3>1. f.selection[r] = 1
          BY <1>1, <1>4, <2>2, <2>4, <2>6 DEF ResultExact
    <3>2. d = db_destroy(g)
          BY <1>3, <1>4, <1>6, <1>13, <2>6
    <3>3. /\ g \in Kept /\ SqlExact(g, m) /\ DbExact(g, o.db + 1)
          /\ g.table = f.table /\ g.row = f.row /\ g.result = f.result
          /\ g.selection[r] = 0 /\ \A s \in Results \ {r} : g.selection[s] = f.selection[s]
          BY <2>2, <2>3, <3>1, SelectionDestroy DEF g
    <3> QED  BY <1>7, <2>5, <3>2, <3>3
  <2>7. CASE use[r] # "values"
    <3>1. f.selection[r] = 0
          BY <1>1, <1>4, <2>2, <2>7 DEF ResultExact
    <3>2. d = db_destroy(f)
          BY <1>3, <1>4, <1>6, <1>13, <2>7
    <3> QED  BY <1>7, <2>2, <2>3, <2>5, <3>1, <3>2
  <2> QED  BY <2>6, <2>7
<1> QED  BY <1>12, <1>13

----------------------------------------------------------------------------
(***************************************************************************)
(* The state: exact counts, tables whose cursor stays in the answer, caches *)
(* that hold rows already fetched only, a deletion from a result the        *)
(* program still holds, and a session only while it is referenced.          *)
(***************************************************************************)
Tables == [size : Nat, nrow : Nat, done : BOOLEAN, count : Nat, next : Nat, jumped : BOOLEAN]
TablesOK(t) == t \in [Results -> Tables] /\ \A r \in Results : t[r].next <= t[r].size
RowsBelow(c, t) == \A r \in Results, j \in Index : c.row[r][j] > 0 => j < t[r].nrow
DeletionOK(d, o) ==
    /\ d = [on |-> d.on, ready |-> d.ready, i |-> d.i, ident |-> d.ident,
            list |-> d.list, failed |-> d.failed]
    /\ d.i \in Nat /\ d.on \in Results \cup {Nobody}
    /\ d.on # Nobody => o.result[d.on] > 0

RefsInv ==
    /\ backend \in Backends /\ lost \in Nat
    /\ refs \in Kept /\ own \in Kept /\ Exact(refs, own, lost, use)
    /\ use \in [Results -> {"table", "idents", "values"}]
    /\ TablesOK(tab) /\ RowsBelow(refs, tab)
    /\ DeletionOK(del, own)
    /\ connected => refs.sql > 0

\* An outcome of asking table r for a row: the cursor stays in the answer and
\* the rows that come are new and below nrow.
GoodOutcome(r, o) ==
    /\ o.nrow \in Nat /\ o.nrow >= tab[r].nrow /\ o.next \in Nat /\ o.next <= tab[r].size
    /\ \A j \in Index : j \in DOMAIN o.rows => refs.row[r][j] = 0 /\ j < o.nrow

LEMMA UnchangedGood ==
    ASSUME RefsInv, NEW r \in Results, NEW a
    PROVE  GoodOutcome(r, Unchanged(r, a))
BY DEF RefsInv, TablesOK, Tables, GoodOutcome, Unchanged, Outcome

\* Rows handed out in order, as many as are left.
LEMMA InOrderGood ==
    ASSUME RefsInv, NEW r \in Results, NEW i \in Int, NEW k \in 0..Left(r, i), NEW a, NEW f,
           NEW n \in {0, tab[r].next + k}
    PROVE  GoodOutcome(r, InOrder(r, a, k, n, f))
<1> DEFINE o == InOrder(r, a, k, n, f)
<1>1. /\ tab[r].nrow \in Nat /\ tab[r].next \in Nat /\ tab[r].size \in Nat
      /\ tab[r].next <= tab[r].size
      BY DEF RefsInv, TablesOK, Tables
<1>2. Left(r, i) <= tab[r].size - tab[r].next /\ k \in Int /\ 0 <= k /\ k <= Left(r, i)
  <2>1. Left(r, i) \in Int /\ Left(r, i) <= tab[r].size - tab[r].next
        BY <1>1 DEF Left, Wanted
  <2> QED  BY <2>1
<1>3. o.nrow = tab[r].nrow + k /\ o.next = n
      /\ DOMAIN o.rows = tab[r].nrow..(tab[r].nrow + k - 1)
      BY DEF InOrder, Outcome
<1>4. o.nrow \in Nat /\ o.nrow >= tab[r].nrow
      BY <1>1, <1>2, <1>3
<1>5. o.next \in Nat /\ o.next <= tab[r].size
  <2>1. Left(r, i) \in Int
        BY <1>1 DEF Left, Wanted
  <2> QED  BY <1>1, <1>2, <1>3, <2>1
<1>6. ASSUME NEW j \in Index, j \in DOMAIN o.rows PROVE refs.row[r][j] = 0 /\ j < o.nrow
  <2>1. j \in Int /\ j >= tab[r].nrow /\ j <= tab[r].nrow + k - 1
        BY <1>3, <1>6
  <2>2. refs.row[r][j] \in Nat /\ ~(refs.row[r][j] > 0)
        BY <1>1, <2>1 DEF RefsInv, RowsBelow, Kept
  <2> QED  BY <1>1, <1>2, <1>3, <2>1, <2>2
<1> QED  BY <1>4, <1>5, <1>6 DEF GoodOutcome

\* Each client library gives good outcomes.
LEMMA FetchedGood ==
    ASSUME RefsInv, NEW r \in Results, NEW i \in Nat, ~Cached(r, i), NEW o \in fetch_row(r, i)
    PROVE  GoodOutcome(r, o)
<1>1. backend \in {"mysql", "pgsql", "sqlite3"}
      BY BoundsAssumption DEF RefsInv
<1>2. /\ tab[r].nrow \in Nat /\ tab[r].next \in Nat /\ tab[r].size \in Nat
      /\ tab[r].next <= tab[r].size
      BY DEF RefsInv, TablesOK, Tables
<1>3. Left(r, i) \in Nat
      BY <1>2 DEF Left, Wanted
<1>4. CASE backend = "mysql"
  <2>1. o \in mysql_fetch_row(r, i)
        BY <1>4 DEF fetch_row
  <2>2. PICK a : o = InOrder(r, a, Left(r, i), tab[r].next + Left(r, i), FALSE)
        BY <2>1, Zenon DEF mysql_fetch_row
  <2>3. /\ Left(r, i) \in 0..Left(r, i) /\ i \in Int
        /\ tab[r].next + Left(r, i) \in {0, tab[r].next + Left(r, i)}
        BY <1>3
  <2> HIDE DEF Left
  <2>4. GoodOutcome(r, InOrder(r, a, Left(r, i), tab[r].next + Left(r, i), FALSE))
        BY <2>3, InOrderGood
  <2> QED  BY <2>2, <2>4
<1>5. CASE backend = "sqlite3"
  <2>1. o \in sqlite3_fetch_row(r, i)
        BY <1>5 DEF fetch_row
  <2>2. \E k \in 0..Left(r, i) : \E n \in {0, tab[r].next + k} : \E a, f :
            o = InOrder(r, a, k, n, f)
    <3>1. \/ o = InOrder(r, "row", Left(r, i), tab[r].next + Left(r, i), FALSE)
          \/ o = InOrder(r, "end", Left(r, i), 0, FALSE)
          \/ \E j \in 0..Left(r, i) : o = InOrder(r, "error", j, 0, TRUE)
          BY <2>1, Zenon DEF sqlite3_fetch_row
    <3>2. Left(r, i) \in 0..Left(r, i)
          BY <1>3
    <3> QED  BY <3>1, <3>2, Zenon
  <2> QED  BY <2>2, InOrderGood
<1>6. CASE backend = "pgsql"
  <2>1. o \in pgsql_fetch_row(r, i)
        BY <1>6 DEF fetch_row
  <2>2. CASE i < tab[r].size
    <3> DEFINE n == IF i < tab[r].nrow THEN tab[r].nrow ELSE i + 1
    <3>1. o = Outcome("row", n, 0, [j \in {i} |-> i], FALSE)
          BY <2>1, <2>2 DEF pgsql_fetch_row
    <3>2. n \in Nat /\ n >= tab[r].nrow /\ i < n
          BY <1>2
    <3> HIDE DEF n
    <3>3. o.nrow = n /\ o.next = 0 /\ DOMAIN o.rows = {i}
          BY <3>1 DEF Outcome
    <3>4. ASSUME i \in Index PROVE refs.row[r][i] = 0
          BY <3>4 DEF Cached, RefsInv, Kept
    <3> QED  BY <1>2, <3>2, <3>3, <3>4 DEF GoodOutcome
  <2>3. CASE ~(i < tab[r].size)
    <3>1. o = Unchanged(r, "end")
          BY <2>1, <2>3 DEF pgsql_fetch_row
    <3> QED  BY <3>1, UnchangedGood
  <2> QED  BY <2>2, <2>3
<1> QED  BY <1>1, <1>4, <1>5, <1>6

LEMMA GotGood ==
    ASSUME RefsInv, NEW r \in Results, NEW i \in Nat, NEW o \in get_row(r, i)
    PROVE  GoodOutcome(r, o)
<1>1. \/ o = Unchanged(r, "row") \/ o = Unchanged(r, "end") \/ o = Unchanged(r, "error")
      \/ ~Cached(r, i) /\ o \in fetch_row(r, i)
      BY Zenon DEF get_row
<1> QED  BY <1>1, UnchangedGood, FetchedGood

\* What a good outcome leaves in the table and in its cache.
LEMMA Fetched ==
    ASSUME RefsInv, NEW r \in Results, refs.table[r] > 0, NEW o, GoodOutcome(r, o),
           NEW c, c = CacheRows(refs, r, o),
           NEW t \in [Results -> Tables], t[r].nrow = o.nrow, t[r].next = o.next,
           t[r].size = tab[r].size, \A s \in Results \ {r} : t[s] = tab[s]
    PROVE  /\ TablesOK(t) /\ c \in Kept /\ Exact(c, own, lost, use) /\ RowsBelow(c, t)
           /\ c.sql = refs.sql
<1>1. refs \in Kept /\ own \in Kept /\ lost \in Nat /\ Exact(refs, own, lost, use)
      BY DEF RefsInv
<1>2. \A j \in Index : j \in DOMAIN o.rows => refs.row[r][j] = 0
      BY DEF GoodOutcome
<1>3. c \in Kept /\ Exact(c, own, lost, use) /\ c.sql = refs.sql
      BY <1>1, <1>2, RowsCached
<1>4. TablesOK(t)
      BY DEF RefsInv, TablesOK, GoodOutcome
<1>5. RowsBelow(c, t)
  <2>1. ASSUME NEW s \in Results, NEW j \in Index, c.row[s][j] > 0 PROVE j < t[s].nrow
    <3>1. refs.row[s][j] > 0 => j < tab[s].nrow
          BY DEF RefsInv, RowsBelow
    <3>2. CASE s # r
      <4>1. c.row[s] = refs.row[s]
            BY <1>1, <3>2 DEF CacheRows, Kept
      <4> QED  BY <2>1, <3>1, <3>2, <4>1
    <3>3. CASE s = r /\ j \in DOMAIN o.rows
          BY <3>3 DEF GoodOutcome
    <3>4. CASE s = r /\ j \notin DOMAIN o.rows
      <4>1. c.row[r][j] = refs.row[r][j]
            BY <1>1, <3>4 DEF CacheRows, Kept
      <4>2. tab[r].nrow \in Nat /\ o.nrow \in Nat /\ o.nrow >= tab[r].nrow /\ j \in Int
            BY DEF RefsInv, TablesOK, Tables, GoodOutcome, Index
      <4> QED  BY <2>1, <3>1, <3>4, <4>1, <4>2
    <3> QED  BY <3>2, <3>3, <3>4
  <2> QED  BY <2>1 DEF RowsBelow
<1> QED  BY <1>3, <1>4, <1>5

----------------------------------------------------------------------------
(* The steps. *)

\* A step on handles: the tables stay, and no row comes into a cache.
LEMMA HandleStep ==
    ASSUME RefsInv, Idle, UNCHANGED <<backend, use, tab, del>>, lost' \in Nat,
           refs' \in Kept, own' \in Kept, Exact(refs', own', lost', use),
           Within(refs, refs'), connected' => refs'.sql > 0
    PROVE  RefsInv' /\ Within(refs, refs')
<1>1. RowsBelow(refs', tab')
      BY DEF RefsInv, RowsBelow, Within
<1>2. DeletionOK(del', own')
      BY DEF RefsInv, DeletionOK, Idle
<1>3. TablesOK(tab')
      BY DEF RefsInv
<1> QED  BY <1>1, <1>2, <1>3 DEF RefsInv

\* A careful program makes no copy by construction.
LEMMA Assigned ==
    ASSUME Careful, NEW how \in Copying
    PROVE  how = "assign"
BY DEF Careful, Copying

\* There is room in the count of a table for what the program may hold.
LEMMA RoomLeft ==
    ASSUME Careful, HeldBounded, NEW c \in Kept, own \in Kept, lost \in Nat,
           Exact(c, own, lost, use), NEW r \in Results
    PROVE  /\ c.table[r] \in 0..(TableCounts - 1)
           /\ own.table[r] < MaxHeld => c.table[r] + 1 < TableCounts
           /\ Number(Index, own.row[r]) < MaxRowsHeld => c.table[r] + 1 < TableCounts
<1>1. /\ c.table[r] \in Nat /\ own.table[r] \in Nat /\ Number(Index, own.row[r]) \in Nat
      BY ExactNumbers
<1>2. c.table[r] = own.table[r] + One(c.result[r]) + Number(Index, own.row[r])
      BY DEF Exact, TableExact
<1>3. own.table[r] <= MaxHeld /\ Number(Index, own.row[r]) <= MaxRowsHeld
      BY DEF HeldBounded
<1>4. One(c.result[r]) \in {0, 1}
      BY DEF One
<1> QED  BY <1>1, <1>2, <1>3, <1>4, BoundsAssumption DEF Careful

\* A copy or a destruction of a handle by the program.
LEMMA HandlesStep ==
    ASSUME Careful, RefsInv, Handles
    PROVE  RefsInv' /\ Within(refs, refs')
<1>1. /\ refs \in Kept /\ own \in Kept /\ lost \in Nat /\ Exact(refs, own, lost, use)
      /\ refs.sql \in Nat /\ refs.db \in Nat
      BY DEF RefsInv, Kept
<1>2. CASE SqlNew
  <2> DEFINE c == sql_ref(NoRefs)
  <2>1. refs' = c /\ own' = c /\ lost' = 0 /\ Idle /\ UNCHANGED <<backend, use, tab, del>>
        /\ connected' = FALSE
        BY <1>2, Zenon DEF SqlNew, tableVars
  <2>2. c = [sql |-> 1, db |-> 0, selection |-> [r \in Results |-> 0],
             table |-> [r \in Results |-> 0], result |-> [r \in Results |-> 0],
             row |-> [r \in Results |-> [i \in Index |-> 0]]]
        BY DEF sql_ref, NoRefs
  <2> HIDE DEF c
  <2>3. c \in Kept
        BY <2>2 DEF Kept
  <2>4. Exact(c, c, 0, use)
    <3>1. /\ Number(Results, c.table) = 0 /\ Number(Results, c.result) = 0
          /\ Number(Results, c.selection) = 0
          BY <2>2, AtLeastOne, FiniteRanges
    <3>2. \A r \in Results : Number(Index, c.row[r]) = 0
          BY <2>2, AtLeastOne, FiniteRanges
    <3> QED  BY <2>2, <3>1, <3>2 DEF Exact, SqlExact, DbExact, TableExact, RowsExact,
                                     ResultExact, One
  <2>5. Within(refs, c)
        BY <2>2 DEF Within
  <2> QED  BY <2>1, <2>3, <2>4, <2>5, HandleStep
<1>3. CASE CopySql
  <2>1. refs' = sql_ref(refs) /\ own' = sql_ref(own) /\ lost' = lost /\ Idle
        /\ UNCHANGED <<backend, use, tab, del>>
        BY <1>3, Assigned, Zenon DEF CopySql, Keeps, tableVars
  <2> QED  BY <1>1, <2>1, SqlHandles, HandleStep
<1>4. CASE DestroySql
  <2>1. refs' = sql_destroy(refs) /\ own' = sql_destroy(own) /\ lost' = lost /\ Idle
        /\ own.sql > 0 /\ UNCHANGED <<backend, use, tab, del>>
        /\ connected' = (connected /\ sql_destroy(refs).sql > 0)
        BY <1>4, Zenon DEF DestroySql, Release, sql_destroy, tableVars
  <2>2. connected' => refs'.sql > 0
        BY <2>1, Zenon
  <2> QED  BY <1>1, <2>1, <2>2, SqlHandles, HandleStep
<1>5. CASE CopyDb
  <2>1. refs' = db_ref(refs) /\ own' = db_ref(own) /\ lost' = lost /\ Idle
        /\ connected' = connected /\ own.db \in 1..(MaxHeld - 1)
        /\ UNCHANGED <<backend, use, tab, del>>
        BY <1>5, Assigned, Zenon DEF CopyDb, Keeps, tableVars, sessionVars
  <2>2. own.db > 0
        BY <2>1, BoundsAssumption
  <2>3. connected' => refs'.sql > 0
        BY <1>1, <2>1, <2>2, DbHandles DEF RefsInv
  <2> QED  BY <1>1, <2>1, <2>2, <2>3, DbHandles, HandleStep
<1>6. CASE DestroyDb
  <2>1. refs' = db_destroy(refs) /\ own' = LessDb(own) /\ lost' = lost /\ Idle
        /\ own.db > 0 /\ UNCHANGED <<backend, use, tab, del>>
        /\ connected' = (connected /\ db_destroy(refs).sql > 0)
        BY <1>6, Zenon DEF DestroyDb, Release, LessDb, tableVars
  <2>2. connected' => refs'.sql > 0
        BY <2>1, Zenon
  <2> QED  BY <1>1, <2>1, <2>2, DbHandles, HandleStep
<1> QED  BY <1>2, <1>3, <1>4, <1>5, <1>6 DEF Handles

LEMMA TableHandlesStep ==
    ASSUME Careful, RefsInv, HeldBounded, NEW r \in Results, TableHandles(r)
    PROVE  RefsInv' /\ Within(refs, refs')
<1>1. /\ refs \in Kept /\ own \in Kept /\ lost \in Nat /\ Exact(refs, own, lost, use)
      /\ refs.sql \in Nat
      BY DEF RefsInv, Kept
<1>2. CASE CopyTable(r)
  <2>1. own.table[r] \in 1..(MaxHeld - 1)
        BY <1>2 DEF CopyTable
  <2>2. AsCount(refs.table[r] + 1) = refs.table[r] + 1
    <3>1. refs.table[r] \in Nat
          BY <1>1 DEF Kept
    <3>2. refs.table[r] + 1 < TableCounts
          BY <1>1, <2>1, RoomLeft, BoundsAssumption
    <3> QED  BY <3>1, <3>2, InRange
  <2>3. refs' = MoreTable(refs, r) /\ own' = MoreTable(own, r) /\ lost' = lost /\ Idle
        /\ connected' = connected /\ own.table[r] \in 1..(MaxHeld - 1)
        /\ UNCHANGED <<backend, use, tab, del>>
        BY <1>2, <2>2, Zenon DEF CopyTable, Keeps, MoreTable, tableVars, sessionVars
  <2>4. own.table[r] > 0
        BY <2>3, BoundsAssumption
  <2>5. /\ refs' \in Kept /\ own' \in Kept /\ Exact(refs', own', lost, use)
        /\ Within(refs, refs') /\ refs'.sql = refs.sql
    <3>1. refs' = MoreTable(refs, r) /\ own' = MoreTable(own, r)
          BY <2>3
    <3> QED  BY <1>1, <2>4, <3>1, TableCopied
  <2>6. connected' => refs'.sql > 0
        BY <2>3, <2>5 DEF RefsInv
  <2> QED  BY <1>1, <2>3, <2>5, <2>6, HandleStep
<1>3. CASE DestroyTable(r)
  <2>1. refs' = table_destroy(refs, r) /\ own' = LessTable(own, r) /\ lost' = lost /\ Idle
        /\ own.table[r] > 0 /\ UNCHANGED <<backend, use, tab, del>>
        /\ connected' = (connected /\ table_destroy(refs, r).sql > 0)
        BY <1>3, Zenon DEF DestroyTable, Release, LessTable, tableVars
  <2>2. connected' => refs'.sql > 0
        BY <2>1, Zenon
  <2>3. /\ refs' \in Kept /\ own' \in Kept /\ Exact(refs', own', lost, use)
        /\ Within(refs, refs')
    <3>1. refs' = table_destroy(refs, r) /\ own' = LessTable(own, r) /\ own.table[r] > 0
          BY <2>1
    <3> QED  BY <1>1, <3>1, TableDestroyed
  <2> QED  BY <1>1, <2>1, <2>2, <2>3, HandleStep
<1>4. CASE CopyResult(r)
  <2>1. refs' = MoreResult(refs, r) /\ own' = MoreResult(own, r) /\ lost' = lost /\ Idle
        /\ connected' = connected /\ own.result[r] \in 1..(MaxHeld - 1)
        /\ UNCHANGED <<backend, use, tab, del>>
        BY <1>4, Zenon DEF CopyResult, Keeps, MoreResult, tableVars, sessionVars
  <2>2. own.result[r] > 0
        BY <2>1, BoundsAssumption
  <2>3. /\ refs' \in Kept /\ own' \in Kept /\ Exact(refs', own', lost, use)
        /\ Within(refs, refs') /\ refs'.sql = refs.sql
    <3>1. refs' = MoreResult(refs, r) /\ own' = MoreResult(own, r)
          BY <2>1
    <3> QED  BY <1>1, <2>2, <3>1, ResultCopied
  <2>4. connected' => refs'.sql > 0
        BY <2>1, <2>3 DEF RefsInv
  <2> QED  BY <1>1, <2>1, <2>3, <2>4, HandleStep
<1>5. CASE DestroyResult(r)
  <2>1. refs' = result_destroy(refs, r) /\ own' = LessResult(own, r) /\ lost' = lost /\ Idle
        /\ own.result[r] > 0 /\ UNCHANGED <<backend, use, tab, del>>
        /\ connected' = (connected /\ result_destroy(refs, r).sql > 0)
        BY <1>5, Zenon DEF DestroyResult, Release, LessResult, tableVars
  <2>2. connected' => refs'.sql > 0
        BY <2>1, Zenon
  <2>3. /\ refs' \in Kept /\ own' \in Kept /\ Exact(refs', own', lost, use)
        /\ Within(refs, refs')
    <3>1. refs' = result_destroy(refs, r) /\ own' = LessResult(own, r) /\ own.result[r] > 0
          BY <2>1
    <3> QED  BY <1>1, <3>1, ResultDestroyed
  <2> QED  BY <1>1, <2>1, <2>2, <2>3, HandleStep
<1>6. ASSUME NEW i \in Index, CopyRow(r, i) PROVE RefsInv' /\ Within(refs, refs')
  <2>1. refs' = row_ref(refs, r, i) /\ own' = MoreRow(own, r, i) /\ lost' = lost /\ Idle
        /\ connected' = connected /\ own.row[r][i] \in 1..(MaxHeld - 1)
        /\ UNCHANGED <<backend, use, tab, del>>
        BY <1>6, Zenon DEF CopyRow, Keeps, MoreRow, tableVars, sessionVars
  <2>2. own.row[r][i] > 0
        BY <2>1, BoundsAssumption
  <2>3. refs.row[r][i] > 1
    <3>1. refs.row[r][i] = own.row[r][i] + One(refs.row[r][i])
          BY <1>1 DEF Exact, RowsExact
    <3> QED  BY <1>1, <2>2, <3>1 DEF One, Kept
  <2>4. /\ refs' \in Kept /\ own' \in Kept /\ Exact(refs', own', lost, use)
        /\ Within(refs, refs') /\ refs'.sql = refs.sql
    <3>1. refs' = row_ref(refs, r, i) /\ own' = MoreRow(own, r, i)
          BY <2>1
    <3>2. refs.row[r][i] > 0 /\ refs.row[r][i] # 1
          BY <1>1, <2>3 DEF Kept
    <3> QED  BY <1>1, <3>1, <3>2, RowCopied
  <2>5. connected' => refs'.sql > 0
        BY <2>1, <2>4 DEF RefsInv
  <2> QED  BY <1>1, <2>1, <2>4, <2>5, HandleStep
<1>7. ASSUME NEW i \in Index, DestroyRow(r, i) PROVE RefsInv' /\ Within(refs, refs')
  <2>1. refs' = row_destroy(refs, r, i) /\ own' = LessRow(own, r, i) /\ lost' = lost /\ Idle
        /\ own.row[r][i] > 0 /\ UNCHANGED <<backend, use, tab, del>>
        /\ connected' = (connected /\ row_destroy(refs, r, i).sql > 0)
        BY <1>7, Zenon DEF DestroyRow, Release, LessRow, tableVars
  <2>2. connected' => refs'.sql > 0
        BY <2>1, Zenon
  <2>3. /\ refs' \in Kept /\ own' \in Kept /\ Exact(refs', own', lost, use)
        /\ Within(refs, refs')
    <3>1. refs' = row_destroy(refs, r, i) /\ own' = LessRow(own, r, i) /\ own.row[r][i] > 0
          BY <2>1
    <3> QED  BY <1>1, <3>1, RowDestroyed
  <2> QED  BY <1>1, <2>1, <2>2, <2>3, HandleStep
<1> QED  BY <1>2, <1>3, <1>4, <1>5, <1>6, <1>7 DEF TableHandles

\* preludedb_new: the db takes its reference, or loses it when it fails.
LEMMA DbNewStep ==
    ASSUME RefsInv, NEW a, NEW known, DbNew(a, known)
    PROVE  RefsInv' /\ Within(refs, refs')
<1>1. /\ refs \in Kept /\ own \in Kept /\ lost \in Nat /\ Exact(refs, own, lost, use)
      BY DEF RefsInv
<1>2. Idle /\ refs.db = 0 /\ UNCHANGED <<backend, use, tab, del>>
      BY Zenon DEF DbNew, tableVars
<1>3. CASE a = "rows" /\ known
  <2>1. refs' = sql_ref(FirstDb(refs)) /\ own' = FirstDb(own) /\ lost' = lost
        BY <1>3, Zenon DEF DbNew, FirstDb
  <2> QED  BY <1>1, <1>2, <2>1, DbHandles, HandleStep
<1>4. CASE ~(a = "rows" /\ known)
  <2>1. refs' = sql_ref(refs) /\ own' = own /\ lost' = lost + 1
        BY <1>4, Zenon DEF DbNew
  <2>2. lost + 1 \in Nat
        BY <1>1
  <2> QED  BY <1>1, <1>2, <2>1, <2>2, SqlHandles, HandleStep
<1> QED  BY <1>3, <1>4

\* The tables after a query made a table at r.
LEMMA NewTable ==
    ASSUME RefsInv, NEW r \in Results, refs.table[r] = 0, NEW size \in Nat, table_new(r, size),
           refs'.row = refs.row
    PROVE  TablesOK(tab') /\ RowsBelow(refs', tab')
<1>1. /\ refs \in Kept /\ own \in Kept /\ lost \in Nat /\ Exact(refs, own, lost, use)
      /\ tab \in [Results -> Tables]
      BY DEF RefsInv, TablesOK
<1>2. \A i \in Index : refs.row[r][i] = 0
      BY <1>1, EmptyPlace
<1>3. /\ tab'[r] = [size |-> size, nrow |-> 0, done |-> FALSE, count |-> 0, next |-> 0,
                    jumped |-> FALSE]
      /\ tab' \in [Results -> Tables] /\ \A s \in Results \ {r} : tab'[s] = tab[s]
      BY <1>1 DEF table_new, Tables
<1>4. TablesOK(tab')
      BY <1>3 DEF RefsInv, TablesOK
<1>5. RowsBelow(refs', tab')
      BY <1>2, <1>3 DEF RefsInv, RowsBelow
<1> QED  BY <1>4, <1>5

LEMMA SizesNat ==
    ASSUME NEW a, NEW size \in Sizes(a)
    PROVE  size \in Nat
<1>1. size \in 1..MaxRows \/ size \in {0}
      BY Zenon DEF Sizes
<1> QED  BY <1>1, BoundsAssumption

LEMMA QueryStep ==
    ASSUME RefsInv, NEW r \in Results, NEW a, Query(r, a)
    PROVE  RefsInv'
<1>1. /\ refs \in Kept /\ own \in Kept /\ lost \in Nat /\ Exact(refs, own, lost, use)
      /\ refs.sql > 0 /\ refs.table[r] = 0
  <2>1. refs \in Kept /\ own \in Kept /\ lost \in Nat /\ Exact(refs, own, lost, use)
        BY DEF RefsInv
  <2>2. own.sql > 0 /\ refs.table[r] = 0
        BY Zenon DEF Query
  <2>3. refs.sql \in Nat /\ own.sql \in Nat /\ refs.sql >= own.sql
        BY <2>1, ExactNumbers
  <2> QED  BY <2>1, <2>2, <2>3
<1>2. Idle /\ backend' = backend /\ lost' = lost /\ del' = del
      BY Zenon DEF Query
<1>3. ASSUME NEW size \in Sizes(a), table_new(r, size), use' = [use EXCEPT ![r] = "table"],
             refs' = sql_ref(FirstTable(refs, r)), own' = FirstTable(own, r)
      PROVE  RefsInv'
  <2>1. /\ use' \in [Results -> {"table", "idents", "values"}]
        /\ \A s \in Results \ {r} : use'[s] = use[s]
        BY <1>3 DEF RefsInv
  <2>2. /\ refs' \in Kept /\ own' \in Kept /\ Exact(refs', own', lost, use')
        /\ refs'.row = refs.row /\ refs'.sql > 0
    <3>1. refs' = sql_ref(FirstTable(refs, r)) /\ own' = FirstTable(own, r)
          BY <1>3
    <3> QED  BY <1>1, <2>1, <3>1, TableOpened
  <2>3. TablesOK(tab') /\ RowsBelow(refs', tab')
        BY <1>1, <1>3, <2>2, SizesNat, NewTable
  <2>4. DeletionOK(del', own')
        BY <1>2 DEF RefsInv, DeletionOK, Idle
  <2> QED  BY <1>2, <2>1, <2>2, <2>3, <2>4 DEF RefsInv
<1>4. CASE UNCHANGED <<use, tableVars, refs, own>>
      BY <1>1, <1>2, <1>4 DEF RefsInv, tableVars
<1> QED  BY <1>3, <1>4, Zenon DEF Query, FirstTable

LEMMA GetResultStep ==
    ASSUME RefsInv, NEW r \in Results, NEW kind \in {"idents", "values"}, NEW a,
           GetResult(r, kind, a)
    PROVE  RefsInv'
<1>1. /\ refs \in Kept /\ own \in Kept /\ lost \in Nat /\ Exact(refs, own, lost, use)
      /\ refs.sql > 0 /\ refs.table[r] = 0 /\ own.db > 0
  <2>1. refs \in Kept /\ own \in Kept /\ lost \in Nat /\ Exact(refs, own, lost, use)
        BY DEF RefsInv
  <2>2. own.db > 0 /\ refs.table[r] = 0
        BY Zenon DEF GetResult
  <2>3. refs.db \in Nat /\ own.db \in Nat /\ refs.db >= own.db /\ (refs.db > 0 => refs.sql > 0)
        BY <2>1, ExactNumbers
  <2> QED  BY <2>1, <2>2, <2>3
<1>2. Idle /\ backend' = backend /\ lost' = lost /\ del' = del
      BY Zenon DEF GetResult
<1> DEFINE b == db_ref(sql_ref(FirstBoth(refs, r)))
           d == IF kind = "values" THEN db_ref(FirstSelection(b, r)) ELSE b
<1>3. ASSUME NEW size \in Sizes(a), table_new(r, size), use' = [use EXCEPT ![r] = kind],
             refs' = d, own' = FirstResult(own, r)
      PROVE  RefsInv'
  <2>1. /\ use' \in [Results -> {"table", "idents", "values"}] /\ use'[r] = kind
        /\ \A s \in Results \ {r} : use'[s] = use[s]
        BY <1>3 DEF RefsInv
  <2>2. /\ refs' \in Kept /\ own' \in Kept /\ Exact(refs', own', lost, use')
        /\ refs'.row = refs.row /\ refs'.sql > 0
    <3> HIDE DEF b
    <3>1. b = db_ref(sql_ref(FirstBoth(refs, r)))
          BY DEF b
    <3>2. refs' = (IF kind = "values" THEN db_ref(FirstSelection(b, r)) ELSE b)
          /\ own' = FirstResult(own, r)
          BY <1>3
    <3> QED  BY <1>1, <2>1, <3>1, <3>2, ResultOpened
  <2>3. TablesOK(tab') /\ RowsBelow(refs', tab')
        BY <1>1, <1>3, <2>2, SizesNat, NewTable
  <2>4. DeletionOK(del', own')
        BY <1>2 DEF RefsInv, DeletionOK, Idle
  <2> QED  BY <1>2, <2>1, <2>2, <2>3, <2>4 DEF RefsInv
<1>4. CASE UNCHANGED <<use, tableVars, refs, own>>
      BY <1>1, <1>2, <1>4 DEF RefsInv, tableVars
<1> QED  BY <1>3, <1>4, Zenon DEF GetResult, FirstBoth, FirstSelection, FirstResult

\* The handles that keep a table alive.
LEMMA TableHeld ==
    ASSUME RefsInv, NEW r \in Results, own.table[r] > 0 \/ own.result[r] > 0
    PROVE  refs.table[r] > 0 /\ refs.sql > 0
<1>1. /\ refs \in Kept /\ own \in Kept /\ lost \in Nat /\ Exact(refs, own, lost, use)
      BY DEF RefsInv
<1>2. /\ refs.table[r] \in Nat /\ own.table[r] \in Nat /\ refs.table[r] >= own.table[r]
      /\ own.result[r] > 0 => refs.table[r] > 0
      /\ refs.table[r] > 0 => refs.sql > 0
      BY <1>1, ExactNumbers
<1> QED  BY <1>2

\* A call that stores what it fetched.
LEMMA Stored ==
    ASSUME RefsInv, NEW r \in Results, refs.table[r] > 0, NEW i \in Nat, NEW o \in get_row(r, i),
           Store(r, i, o), NEW c, c = CacheRows(refs, r, o)
    PROVE  /\ TablesOK(tab') /\ c \in Kept /\ Exact(c, own, lost, use) /\ RowsBelow(c, tab')
           /\ c.sql = refs.sql /\ connected' = connected
<1>1. GoodOutcome(r, o)
      BY GotGood
<1>2. tab \in [Results -> Tables]
      BY DEF RefsInv, TablesOK
<1>3. (tab[r].done \/ o.answer = "end") \in BOOLEAN /\ (tab[r].jumped \/ i > tab[r].nrow) \in BOOLEAN
      OBVIOUS
<1>4. tab'[r] = [size |-> tab[r].size, nrow |-> o.nrow,
                 done |-> tab[r].done \/ o.answer = "end", count |-> tab[r].count,
                 next |-> o.next, jumped |-> tab[r].jumped \/ i > tab[r].nrow]
      BY <1>2, ZenonT(30) DEF Store, Tables
<1>5. /\ \A s \in Results \ {r} : tab'[s] = tab[s]
      /\ tab' \in [Results -> Tables]
      BY <1>1, <1>2, <1>4 DEF Store, Tables, GoodOutcome
<1>6. /\ TablesOK(tab') /\ c \in Kept /\ Exact(c, own, lost, use) /\ RowsBelow(c, tab')
      /\ c.sql = refs.sql
      BY <1>1, <1>4, <1>5, Fetched
<1> QED  BY <1>6 DEF Store

\* A row the program takes leaves room for its table's count.
LEMMA RowTakenRoom ==
    ASSUME Careful, HeldBounded, NEW c \in Kept, own \in Kept, lost \in Nat,
           Exact(c, own, lost, use), NEW r \in Results, NEW i \in Index, c.row[r][i] = 1,
           own.row[r][i] > 0 \/ Cardinality(RowsHeld(r)) < MaxRowsHeld
    PROVE  c.table[r] + 1 < TableCounts
<1>1. Cardinality(RowsHeld(r)) = Number(Index, own.row[r])
      BY DEF RowsHeld, Number, Positive
<1>2. c.row[r][i] = own.row[r][i] + One(c.row[r][i]) /\ own.row[r][i] \in Nat
      BY DEF Exact, RowsExact, Kept
<1>3. ~(own.row[r][i] > 0)
      BY <1>2 DEF One
<1> QED  BY <1>1, <1>3, RoomLeft

LEMMA TableGetStep ==
    ASSUME Careful, RefsInv, HeldBounded, NEW r \in Results, NEW i \in 0..MaxRows,
           TableGet(r, i)
    PROVE  RefsInv'
<1>1. /\ refs.table[r] > 0 /\ refs.sql > 0 /\ i \in Nat /\ own \in Kept /\ lost \in Nat
      BY TableHeld, BoundsAssumption DEF TableGet, RefsInv
<1>2. Idle /\ UNCHANGED <<backend, lost, use, del>>
      BY Zenon DEF TableGet
<1>3. PICK o \in get_row(r, i) :
         /\ Store(r, i, o)
         /\ \/ /\ i \in Index /\ CacheRows(refs, r, o).row[r][i] > 0
               /\ own.row[r][i] > 0 \/ Cardinality(RowsHeld(r)) < MaxRowsHeld
               /\ refs' = row_ref(CacheRows(refs, r, o), r, i) /\ own' = MoreRow(own, r, i)
            \/ refs' = CacheRows(refs, r, o) /\ own' = own
      BY Zenon DEF TableGet, MoreRow
<1> DEFINE c == CacheRows(refs, r, o)
<1>4. /\ TablesOK(tab') /\ c \in Kept /\ Exact(c, own, lost, use) /\ RowsBelow(c, tab')
      /\ c.sql = refs.sql /\ connected' = connected
      BY <1>1, <1>3, Stored
<1> HIDE DEF c
<1>5. /\ refs' \in Kept /\ own' \in Kept /\ Exact(refs', own', lost, use)
      /\ RowsBelow(refs', tab') /\ refs'.sql = c.sql
  <2>1. CASE /\ i \in Index /\ c.row[r][i] > 0
             /\ own.row[r][i] > 0 \/ Cardinality(RowsHeld(r)) < MaxRowsHeld
             /\ refs' = row_ref(c, r, i) /\ own' = MoreRow(own, r, i)
    <3>1. /\ refs' \in Kept /\ own' \in Kept /\ Exact(refs', own', lost, use)
          /\ Within(c, refs') /\ refs'.sql = c.sql
          BY <1>1, <1>4, <2>1, RowTakenRoom, RowCopied
    <3>2. RowsBelow(refs', tab')
          BY <1>4, <3>1 DEF RowsBelow, Within
    <3> QED  BY <3>1, <3>2
  <2>2. CASE refs' = c /\ own' = own
        BY <1>1, <1>4, <2>2
  <2> QED  BY <1>3, <2>1, <2>2 DEF c
<1>6. DeletionOK(del', own')
      BY <1>2 DEF RefsInv, DeletionOK, Idle
<1>7. connected' => refs'.sql > 0
      BY <1>1, <1>4, <1>5
<1> QED  BY <1>2, <1>4, <1>5, <1>6, <1>7 DEF RefsInv

LEMMA ResultGetStep ==
    ASSUME RefsInv, NEW r \in Results, NEW i \in 0..MaxRows, ResultGet(r, i)
    PROVE  RefsInv'
<1>1. /\ refs.table[r] > 0 /\ refs.sql > 0 /\ i \in Nat /\ own \in Kept /\ lost \in Nat
      /\ own.result[r] > 0
      BY TableHeld, BoundsAssumption DEF ResultGet, RefsInv
<1>2. Idle /\ UNCHANGED <<backend, lost, use, del>>
      BY Zenon DEF ResultGet
<1>3. PICK o \in get_row(r, i) :
         /\ Store(r, i, o)
         /\ \/ refs' = MoreResult(CacheRows(refs, r, o), r) /\ own' = MoreResult(own, r)
            \/ refs' = CacheRows(refs, r, o) /\ own' = own
      BY Zenon DEF ResultGet, MoreResult
<1> DEFINE c == CacheRows(refs, r, o)
<1>4. /\ TablesOK(tab') /\ c \in Kept /\ Exact(c, own, lost, use) /\ RowsBelow(c, tab')
      /\ c.sql = refs.sql /\ connected' = connected
      BY <1>1, <1>3, Stored
<1> HIDE DEF c
<1>5. /\ refs' \in Kept /\ own' \in Kept /\ Exact(refs', own', lost, use)
      /\ RowsBelow(refs', tab') /\ refs'.sql = c.sql
  <2>1. CASE refs' = MoreResult(c, r) /\ own' = MoreResult(own, r)
    <3>1. /\ refs' \in Kept /\ own' \in Kept /\ Exact(refs', own', lost, use)
          /\ Within(c, refs') /\ refs'.sql = c.sql
          BY <1>1, <1>4, <2>1, ResultCopied
    <3>2. RowsBelow(refs', tab')
          BY <1>4, <3>1 DEF RowsBelow, Within
    <3> QED  BY <3>1, <3>2
  <2>2. CASE refs' = c /\ own' = own
        BY <1>1, <1>4, <2>2
  <2> QED  BY <1>3, <2>1, <2>2 DEF c
<1>6. DeletionOK(del', own')
      BY <1>2 DEF RefsInv, DeletionOK, Idle
<1>7. connected' => refs'.sql > 0
      BY <1>1, <1>4, <1>5
<1> QED  BY <1>2, <1>4, <1>5, <1>6, <1>7 DEF RefsInv

LEMMA GetRowCountStep ==
    ASSUME RefsInv, NEW r \in Results, GetRowCount(r)
    PROVE  RefsInv'
<1>1. /\ refs.table[r] > 0 /\ refs.sql > 0
      BY TableHeld DEF GetRowCount, CountRows
<1>2. Idle /\ UNCHANGED <<backend, own, lost, use, del>>
      BY Zenon DEF GetRowCount, CountRows
<1>3. /\ tab \in [Results -> Tables] /\ tab[r].size \in Nat /\ tab[r].nrow \in Nat
      /\ tab[r].done \in BOOLEAN
      BY DEF RefsInv, TablesOK, Tables
<1>4. CASE backend # "sqlite3"
  <2>1. /\ tab' = [tab EXCEPT ![r].count = tab[r].size] /\ refs' = refs
        /\ connected' = connected
        BY <1>4, Zenon DEF GetRowCount, CountRows, sessionVars
  <2>2. /\ tab'[r] = [size |-> tab[r].size, nrow |-> tab[r].nrow, done |-> tab[r].done,
                      count |-> tab[r].size, next |-> tab[r].next, jumped |-> tab[r].jumped]
        /\ \A s \in Results \ {r} : tab'[s] = tab[s]
        /\ tab' \in [Results -> Tables]
        BY <1>3, <2>1 DEF Tables
  <2>3. TablesOK(tab') /\ RowsBelow(refs', tab')
        BY <2>1, <2>2, ZenonT(30) DEF RefsInv, TablesOK, RowsBelow
  <2> QED  BY <1>2, <2>1, <2>3 DEF RefsInv
<1>5. CASE backend = "sqlite3"
  <2>1. PICK o \in IF tab[r].done THEN {Unchanged(r, "end")} ELSE fetch_row(r, MaxRows) :
             /\ refs' = CacheRows(refs, r, o)
             /\ tab' = [tab EXCEPT ![r].nrow = o.nrow, ![r].next = o.next,
                                   ![r].done = @ \/ o.answer = "end", ![r].count = o.nrow]
             /\ connected' = connected
        BY <1>5, Zenon DEF GetRowCount, CountRows
  <2>2. GoodOutcome(r, o)
    <3>1. MaxRows \in Nat /\ ~Cached(r, MaxRows)
          BY BoundsAssumption DEF Cached, Index
    <3>2. o = Unchanged(r, "end") \/ o \in fetch_row(r, MaxRows)
          BY <2>1
    <3> QED  BY <3>1, <3>2, UnchangedGood, FetchedGood
  <2>3. tab'[r] = [size |-> tab[r].size, nrow |-> o.nrow,
                   done |-> tab[r].done \/ o.answer = "end", count |-> o.nrow,
                   next |-> o.next, jumped |-> tab[r].jumped]
        BY <1>3, <2>1, ZenonT(30) DEF Tables
  <2>4. /\ \A s \in Results \ {r} : tab'[s] = tab[s]
        /\ tab' \in [Results -> Tables]
        BY <1>3, <2>1, <2>2, <2>3 DEF Tables, GoodOutcome
  <2>5. /\ TablesOK(tab') /\ refs' \in Kept /\ Exact(refs', own, lost, use)
        /\ RowsBelow(refs', tab') /\ refs'.sql = refs.sql
    <3>1. refs' = CacheRows(refs, r, o)
          BY <2>1
    <3> QED  BY <1>1, <2>2, <2>3, <2>4, <3>1, Fetched
  <2> QED  BY <1>1, <1>2, <2>5 DEF RefsInv
<1> QED  BY <1>4, <1>5

LEMMA DeletesStep ==
    ASSUME RefsInv, NEW r \in Results, Deletes(r)
    PROVE  RefsInv'
<1>1. CASE DeleteStart(r)
  <2>1. /\ own.result[r] > 0 /\ del' = [NoDeletion EXCEPT !.on = r]
        /\ UNCHANGED <<backend, refs, own, lost, use, tab, connected>>
        BY <1>1, Zenon DEF DeleteStart, tableVars, sessionVars
  <2>2. del' = [on |-> r, ready |-> FALSE, i |-> 0, ident |-> NoRow, list |-> <<>>,
                failed |-> FALSE]
        BY <2>1 DEF NoDeletion
  <2>3. DeletionOK(del', own')
    <3>1. own' = own /\ own.result[r] > 0 /\ 0 \in Nat
          BY <2>1
    <3> QED  BY <2>2, <3>1 DEF DeletionOK
  <2> QED  BY <2>1, <2>3 DEF RefsInv
<1>2. CASE get_string_from_result_ident(r)
  <2>1. /\ del = [on |-> del.on, ready |-> del.ready, i |-> del.i, ident |-> del.ident,
                  list |-> del.list, failed |-> del.failed]
        /\ del.on = r /\ del.i \in Nat /\ own.result[r] > 0
    <3>1. del.on = r
          BY <1>2, Zenon DEF get_string_from_result_ident, CollectIdent
    <3> QED  BY <3>1, BoundsAssumption DEF RefsInv, DeletionOK
  <2> DEFINE next == IF del.i + 1 > LongList THEN LongList - 1 ELSE del.i + 1
  <2>2. PICK o \in get_row(r, del.i) :
             /\ Store(r, del.i, o) /\ refs' = CacheRows(refs, r, o)
             /\ \/ del' = [del EXCEPT !.ready = TRUE]
                \/ \E ident, list, failed :
                      del' = [del EXCEPT !.i = next, !.ident = ident, !.list = list,
                                         !.failed = failed]
    <3>1. PICK o \in get_row(r, del.i) :
             LET ident == IF o.answer # "row" THEN del.ident
                          ELSE IF del.i \in DOMAIN o.rows THEN o.rows[del.i] ELSE data[r][del.i]
             IN  /\ Store(r, del.i, o) /\ refs' = CacheRows(refs, r, o)
                 /\ del' = IF o.answer = "end" THEN [del EXCEPT !.ready = TRUE]
                           ELSE [del EXCEPT
                                   !.i = next,
                                   !.ident = ident,
                                   !.list = IF Len(@) < LongList THEN Append(@, ident) ELSE @,
                                   !.failed = @ \/ o.answer = "error"]
          BY <1>2, Zenon DEF get_string_from_result_ident, CollectIdent
    <3>2. CASE o.answer = "end"
          BY <3>1, <3>2, Zenon
    <3>3. CASE o.answer # "end"
      <4> DEFINE ident == IF o.answer # "row" THEN del.ident
                          ELSE IF del.i \in DOMAIN o.rows THEN o.rows[del.i] ELSE data[r][del.i]
                 list == IF Len(del.list) < LongList THEN Append(del.list, ident) ELSE del.list
                 failed == del.failed \/ o.answer = "error"
      <4>1. del' = [del EXCEPT !.i = next, !.ident = ident, !.list = list, !.failed = failed]
            BY <3>1, <3>3, Zenon
      <4>2. Store(r, del.i, o) /\ refs' = CacheRows(refs, r, o)
            BY <3>1, Zenon
      <4> HIDE DEF next, ident, list, failed
      <4>3. \E x, y, z : del' = [del EXCEPT !.i = next, !.ident = x, !.list = y, !.failed = z]
            BY <4>1, Zenon
      <4> QED  BY <4>2, <4>3, Zenon
    <3> QED  BY <3>2, <3>3, Zenon
  <2>3. UNCHANGED <<backend, own, lost, use>>
        BY <1>2, Zenon DEF get_string_from_result_ident, CollectIdent
  <2>4. next \in Nat
        BY <2>1, BoundsAssumption DEF LongList
  <2> HIDE DEF next
  <2>5. DeletionOK(del', own)
    <3>1. CASE del' = [del EXCEPT !.ready = TRUE]
      <4>1. del' = [on |-> del.on, ready |-> TRUE, i |-> del.i, ident |-> del.ident,
                    list |-> del.list, failed |-> del.failed]
            BY <2>1, <3>1
      <4> QED  BY <2>1, <4>1 DEF DeletionOK
    <3>2. ASSUME NEW ident, NEW list, NEW failed,
                 del' = [del EXCEPT !.i = next, !.ident = ident, !.list = list,
                                    !.failed = failed]
          PROVE  DeletionOK(del', own)
      <4>1. del' = [on |-> del.on, ready |-> del.ready, i |-> next, ident |-> ident,
                    list |-> list, failed |-> failed]
            BY <2>1, <3>2
      <4> QED  BY <2>1, <2>4, <4>1 DEF DeletionOK
    <3> QED  BY <2>2, <3>1, <3>2
  <2>6. refs.table[r] > 0 /\ refs.sql > 0
        BY <2>1, TableHeld
  <2>7. /\ TablesOK(tab') /\ refs' \in Kept /\ Exact(refs', own, lost, use)
        /\ RowsBelow(refs', tab') /\ refs'.sql = refs.sql /\ connected' = connected
        BY <2>1, <2>2, <2>6, Stored
  <2> QED  BY <2>3, <2>5, <2>6, <2>7 DEF RefsInv
<1>3. ASSUME NEW a, do_delete(r, a) PROVE RefsInv'
  <2>1. /\ del.on = r /\ del' = NoDeletion
        /\ UNCHANGED <<backend, refs, own, lost, use, tab>>
        BY <1>3, Zenon DEF do_delete, tableVars
  <2>2. own.result[r] > 0
        BY <2>1, BoundsAssumption DEF RefsInv, DeletionOK
  <2>3. refs.sql > 0
        BY <2>2, TableHeld
  <2>4. DeletionOK(del', own')
        BY <2>1 DEF DeletionOK, NoDeletion
  <2> QED  BY <2>1, <2>3, <2>4 DEF RefsInv
<1> QED  BY <1>1, <1>2, <1>3 DEF Deletes

LEMMA OtherQueryStep ==
    ASSUME RefsInv, NEW a, OtherQuery(a)
    PROVE  RefsInv'
<1>1. refs.sql > 0 /\ UNCHANGED <<backend, refs, own, lost, use, tab, del>>
      BY Zenon DEF OtherQuery, tableVars
<1> QED  BY <1>1 DEF RefsInv

\* Nothing has been asked yet, and the program holds one SQL handle.
LEMMA RefsInit ==
    ASSUME Init
    PROVE  RefsInv
<1>1. refs = [sql |-> 1, db |-> 0, selection |-> [r \in Results |-> 0],
              table |-> [r \in Results |-> 0], result |-> [r \in Results |-> 0],
              row |-> [r \in Results |-> [i \in Index |-> 0]]] /\ own = refs
      BY DEF Init, sql_ref, NoRefs
<1>2. refs \in Kept /\ own \in Kept
      BY <1>1 DEF Kept
<1>3. Exact(refs, own, lost, use)
  <2>1. /\ Number(Results, refs.table) = 0 /\ Number(Results, refs.result) = 0
        /\ Number(Results, refs.selection) = 0
        BY <1>1, AtLeastOne, FiniteRanges
  <2>2. \A r \in Results : Number(Index, refs.row[r]) = 0
        BY <1>1, AtLeastOne, FiniteRanges
  <2>3. lost = 0
        BY DEF Init
  <2> QED  BY <1>1, <2>1, <2>2, <2>3 DEF Exact, SqlExact, DbExact, TableExact, RowsExact,
                                         ResultExact, One
<1>4. /\ backend \in Backends /\ lost \in Nat /\ connected = FALSE
      /\ use \in [Results -> {"table", "idents", "values"}]
      BY DEF Init
<1>5. TablesOK(tab) /\ RowsBelow(refs, tab)
      BY <1>1 DEF Init, TablesOK, Tables, RowsBelow
<1>6. DeletionOK(del, own)
      BY DEF Init, NoDeletion, DeletionOK
<1> QED  BY <1>2, <1>3, <1>4, <1>5, <1>6 DEF RefsInv

\* The bounds on what the program holds of a table.
LEMMA HeldBoundedInit ==
    ASSUME Init
    PROVE  HeldBounded
<1>1. own = sql_ref(NoRefs)
      BY DEF Init
<1>2. \A r \in Results : own.table[r] = 0 /\ own.row[r] = [i \in Index |-> 0]
      BY <1>1 DEF sql_ref, NoRefs
<1>3. \A r \in Results : Number(Index, own.row[r]) = 0
      BY <1>2, AtLeastOne, FiniteRanges
<1> QED  BY <1>2, <1>3, BoundsAssumption DEF HeldBounded

\* One handle on a table, or on a row, more or less.
LEMMA TableHandleBounded ==
    ASSUME own \in Kept, HeldBounded, NEW r \in Results, NEW n \in Nat, n <= MaxHeld,
           own' = [own EXCEPT !.table[r] = n]
    PROVE  HeldBounded'
<1>1. own.table \in [Results -> Nat]
      BY DEF Kept
<1>2. own'.table = [own.table EXCEPT ![r] = n] /\ own'.row = own.row
      BY DEF Kept
<1> QED  BY <1>1, <1>2 DEF HeldBounded

LEMMA RowHandleBounded ==
    ASSUME own \in Kept, HeldBounded, NEW r \in Results, NEW i \in Index, NEW n \in Nat,
           own.row[r][i] > 0 \/ Number(Index, own.row[r]) < MaxRowsHeld,
           own' = [own EXCEPT !.row[r][i] = n]
    PROVE  HeldBounded'
<1> DEFINE f == own.row[r]
           g == [own.row[r] EXCEPT ![i] = n]
<1>1. /\ own.row \in [Results -> [Index -> Nat]] /\ f \in [Index -> Nat]
      /\ g \in [Index -> Nat] /\ g[i] = n /\ \A j \in Index \ {i} : g[j] = f[j]
      BY DEF Kept
<1>2. own'.table = own.table /\ own'.row = [own.row EXCEPT ![r] = g]
      BY DEF Kept
<1>3. own'.row[r] = g /\ \A s \in Results \ {r} : own'.row[s] = own.row[s]
      BY <1>1, <1>2
<1> HIDE DEF g
<1>4. /\ Number(Index, f) \in Nat /\ Number(Index, g) \in Nat
      /\ Number(Index, g) + One(f[i]) = Number(Index, f) + One(g[i])
      BY <1>1, OneMore, FiniteRanges
<1>5. Number(Index, f) <= MaxRowsHeld
      BY DEF HeldBounded
<1>6. Number(Index, g) <= MaxRowsHeld
  <2>1. One(f[i]) \in {0, 1} /\ One(g[i]) \in {0, 1} /\ (f[i] > 0 => One(f[i]) = 1)
        BY DEF One
  <2> QED  BY <1>4, <1>5, <2>1, BoundsAssumption
<1> QED  BY <1>2, <1>3, <1>6 DEF HeldBounded

LEMMA SameHandlesBounded ==
    ASSUME HeldBounded, own'.table = own.table, own'.row = own.row
    PROVE  HeldBounded'
BY DEF HeldBounded

LEMMA HeldBoundedStep ==
    ASSUME own \in Kept, HeldBounded, [Next]_vars
    PROVE  HeldBounded'
<1>0. MaxHeld \in Nat \ {0}
      BY BoundsAssumption
<1>1. CASE own' = own
      BY <1>1, SameHandlesBounded
<1>2. CASE Handles
  <2>1. CASE SqlNew
    <3>1. own = NoRefs /\ own' = [NoRefs EXCEPT !.sql = NoRefs.sql + 1]
          BY <2>1 DEF SqlNew, sql_ref
    <3> QED  BY <3>1, SameHandlesBounded DEF NoRefs
  <2>2. CASE ~SqlNew
    <3>1. \E n : own' = [own EXCEPT !.sql = n] \/ own' = [own EXCEPT !.db = n]
          BY <1>2, <2>2, Zenon DEF Handles, CopySql, DestroySql, CopyDb, DestroyDb, sql_ref, db_ref
    <3>2. own'.table = own.table /\ own'.row = own.row
          BY <3>1 DEF Kept
    <3> QED  BY <3>2, SameHandlesBounded
  <2> QED  BY <2>1, <2>2
<1>3. ASSUME NEW a, NEW known, DbNew(a, known) PROVE HeldBounded'
  <2>1. own' = [own EXCEPT !.db = 1] \/ own' = own
        BY <1>3, Zenon DEF DbNew
  <2>2. own'.table = own.table /\ own'.row = own.row
        BY <2>1 DEF Kept
  <2> QED  BY <2>2, SameHandlesBounded
<1>4. ASSUME NEW r \in Results, TableHandles(r) PROVE HeldBounded'
  <2>1. CASE CopyTable(r) \/ DestroyTable(r)
    <3>1. own.table[r] \in Nat
          BY DEF Kept
    <3>2. own.table[r] <= MaxHeld
          BY DEF HeldBounded
    <3>3. \E n \in Nat : n <= MaxHeld /\ own' = [own EXCEPT !.table[r] = n]
      <4>1. CASE CopyTable(r)
        <5>1. own.table[r] \in 1..(MaxHeld - 1) /\ own' = [own EXCEPT !.table[r] = own.table[r] + 1]
              BY <4>1 DEF CopyTable
        <5>2. own.table[r] + 1 \in Nat /\ own.table[r] + 1 <= MaxHeld
              BY <1>0, <3>1, <5>1
        <5> QED  BY <5>1, <5>2
      <4>2. CASE DestroyTable(r)
        <5>1. own.table[r] > 0 /\ own' = [own EXCEPT !.table[r] = own.table[r] - 1]
              BY <4>2 DEF DestroyTable
        <5>2. own.table[r] - 1 \in Nat /\ own.table[r] - 1 <= MaxHeld
              BY <1>0, <3>1, <3>2, <5>1
        <5> QED  BY <5>1, <5>2
      <4> QED  BY <2>1, <4>1, <4>2
    <3> QED  BY <3>3, TableHandleBounded
  <2>2. CASE CopyResult(r) \/ DestroyResult(r)
    <3>1. \E n : own' = [own EXCEPT !.result[r] = n]
          BY <2>2, Zenon DEF CopyResult, DestroyResult
    <3>2. own'.table = own.table /\ own'.row = own.row
          BY <3>1 DEF Kept
    <3> QED  BY <3>2, SameHandlesBounded
  <2>3. ASSUME NEW i \in Index, CopyRow(r, i) \/ DestroyRow(r, i) PROVE HeldBounded'
    <3>1. own.row[r][i] \in Nat
          BY DEF Kept
    <3>2. own.row[r][i] > 0
          BY <2>3, <1>0 DEF CopyRow, DestroyRow
    <3>3. \E n \in Nat : own' = [own EXCEPT !.row[r][i] = n]
      <4>1. own.row[r][i] + 1 \in Nat /\ own.row[r][i] - 1 \in Nat
            BY <3>1, <3>2
      <4>2. \/ own' = [own EXCEPT !.row[r][i] = own.row[r][i] + 1]
            \/ own' = [own EXCEPT !.row[r][i] = own.row[r][i] - 1]
            BY <2>3 DEF CopyRow, DestroyRow
      <4> QED  BY <4>1, <4>2, Zenon
    <3> QED  BY <3>2, <3>3, RowHandleBounded
  <2> QED  BY <1>4, <2>1, <2>2, <2>3, Zenon DEF TableHandles
<1>5. ASSUME NEW r \in Results, Asks(r) PROVE HeldBounded'
  <2>1. ASSUME NEW a, Query(r, a) PROVE HeldBounded'
    <3>1. own' = own \/ own' = [own EXCEPT !.table[r] = 1]
          BY <2>1, Zenon DEF Query
    <3>2. 1 \in Nat /\ 1 <= MaxHeld
          BY <1>0
    <3> QED  BY <1>1, <3>1, <3>2, TableHandleBounded
  <2>2. ASSUME NEW i, TableGet(r, i) PROVE HeldBounded'
    <3>1. \/ own' = own
          \/ /\ i \in Index /\ own' = [own EXCEPT !.row[r][i] = @ + 1]
             /\ own.row[r][i] > 0 \/ Cardinality(RowsHeld(r)) < MaxRowsHeld
          BY <2>2, Zenon DEF TableGet
    <3>2. ASSUME i \in Index, own' = [own EXCEPT !.row[r][i] = @ + 1],
                 own.row[r][i] > 0 \/ Cardinality(RowsHeld(r)) < MaxRowsHeld
          PROVE  HeldBounded'
      <4>1. own.row[r][i] + 1 \in Nat
            BY <3>2 DEF Kept
      <4>2. Cardinality(RowsHeld(r)) = Number(Index, own.row[r])
            BY DEF RowsHeld, Number, Positive
      <4>3. own' = [own EXCEPT !.row[r][i] = own.row[r][i] + 1]
            BY <3>2
      <4>4. own.row[r][i] > 0 \/ Number(Index, own.row[r]) < MaxRowsHeld
            BY <3>2, <4>2
      <4> QED  BY <3>2, <4>1, <4>3, <4>4, RowHandleBounded
    <3> QED  BY <1>1, <3>1, <3>2
  <2>3. ASSUME NEW k, NEW a, GetResult(r, k, a) PROVE HeldBounded'
    <3>1. own' = own \/ own' = [own EXCEPT !.result[r] = 1]
          BY <2>3, Zenon DEF GetResult
    <3>2. own'.table = own.table /\ own'.row = own.row
          BY <3>1 DEF Kept
    <3> QED  BY <3>2, SameHandlesBounded
  <2>4. ASSUME NEW i, ResultGet(r, i) PROVE HeldBounded'
    <3>1. own' = own \/ own' = [own EXCEPT !.result[r] = @ + 1]
          BY <2>4, Zenon DEF ResultGet
    <3>2. own'.table = own.table /\ own'.row = own.row
          BY <3>1 DEF Kept
    <3> QED  BY <3>2, SameHandlesBounded
  <2>5. CASE GetRowCount(r)
        BY <1>1, <2>5, Zenon DEF GetRowCount, CountRows
  <2> QED  BY <1>5, <2>1, <2>2, <2>3, <2>4, <2>5, Zenon DEF Asks
<1>6. ASSUME NEW r \in Results, Deletes(r) PROVE own' = own
      BY <1>6, Zenon DEF Deletes, DeleteStart, do_delete, get_string_from_result_ident,
                         CollectIdent
<1>7. ASSUME NEW a, OtherQuery(a) PROVE own' = own
      BY <1>7, Zenon DEF OtherQuery
<1>8. UNCHANGED vars => own' = own
      BY Zenon DEF vars
<1> QED  BY <1>1, <1>2, <1>3, <1>4, <1>5, <1>6, <1>7, <1>8, Zenon DEF Next

LEMMA RefsStep ==
    ASSUME Careful, RefsInv, HeldBounded, [Next]_vars
    PROVE  RefsInv'
<1>1. CASE UNCHANGED vars
      BY <1>1 DEF vars, RefsInv
<1>2. CASE Handles
      BY <1>2, HandlesStep
<1>3. ASSUME NEW a \in Answers, NEW known \in BOOLEAN, DbNew(a, known) PROVE RefsInv'
      BY <1>3, DbNewStep
<1>4. ASSUME NEW r \in Results, TableHandles(r) PROVE RefsInv'
      BY <1>4, TableHandlesStep
<1>5. ASSUME NEW r \in Results, Asks(r) PROVE RefsInv'
      BY <1>5, QueryStep, GetResultStep, TableGetStep, ResultGetStep, GetRowCountStep DEF Asks
<1>6. ASSUME NEW r \in Results, Deletes(r) PROVE RefsInv'
      BY <1>6, DeletesStep
<1>7. ASSUME NEW a \in Answers, OtherQuery(a) PROVE RefsInv'
      BY <1>7, OtherQueryStep
<1> QED  BY <1>1, <1>2, <1>3, <1>4, <1>5, <1>6, <1>7, Zenon DEF Next

THEOREM RefsInvariant == Careful => (Spec => [](RefsInv /\ HeldBounded))
<1> SUFFICES ASSUME Careful PROVE Spec => [](RefsInv /\ HeldBounded)
    OBVIOUS
<1>1. Init => RefsInv /\ HeldBounded
      BY RefsInit, HeldBoundedInit
<1>2. RefsInv /\ HeldBounded /\ [Next]_vars => (RefsInv /\ HeldBounded)'
  <2> SUFFICES ASSUME RefsInv, HeldBounded, [Next]_vars PROVE RefsInv' /\ HeldBounded'
      OBVIOUS
  <2>1. own \in Kept
        BY DEF RefsInv
  <2> QED  BY <2>1, RefsStep, HeldBoundedStep
<1> QED  BY <1>1, <1>2, PTL DEF Spec

\* As long as the program is careful, every reference count of the SQL handle,
\* the db, the tables, their rows, the results and their selections is the
\* number of references that exist: the program's, those of other objects, and
\* those a failed preludedb_new lost, in whatever order the *_ref and *_destroy
\* functions are called; a table's count never goes past its 16 bits.
THEOREM CountsAreExact == Careful => (Spec => []RefsExact)
<1> SUFFICES ASSUME Careful PROVE Spec => []RefsExact
    OBVIOUS
<1>1. RefsInv => RefsExact
      BY DEF RefsInv, Exact, SqlExact, DbExact, TableExact, RowsExact, ResultExact,
             Number, Positive, RowsHeld, RefsExact
<1> QED  BY <1>1, RefsInvariant, PTL

\* As long as the program is careful, what it holds is alive with all it needs,
\* and the session is open only while its SQL object exists: no *_destroy frees
\* what a handle, a row, a table, a result or the db still uses.
THEOREM HeldIsAlive == Careful => (Spec => []HeldAlive)
<1> SUFFICES ASSUME Careful PROVE Spec => []HeldAlive
    OBVIOUS
<1>1. ASSUME RefsInv PROVE HeldAlive
  <2>1. /\ refs \in Kept /\ own \in Kept /\ lost \in Nat /\ Exact(refs, own, lost, use)
        /\ connected => refs.sql > 0
        BY <1>1 DEF RefsInv
  <2>2. ASSUME NEW r \in Results, NEW i \in Index, own.row[r][i] > 0
        PROVE  refs.row[r][i] > 1 /\ refs.table[r] > 0
    <3>1. /\ refs.row[r][i] = own.row[r][i] + One(refs.row[r][i])
          /\ refs.row[r][i] > 0 => refs.table[r] > 0
          BY <2>1 DEF Exact, RowsExact
    <3>2. refs.row[r][i] \in Nat /\ own.row[r][i] \in Nat
          BY <2>1 DEF Kept
    <3> QED  BY <2>2, <3>1, <3>2 DEF One
  <2>3. \A r \in Results : /\ own.result[r] > 0 => refs.table[r] > 0 /\ refs.db > 0
                           /\ refs.table[r] > 0 => refs.sql > 0
        BY <2>1, ExactNumbers
  <2>4. refs.db > 0 => refs.sql > 0
        BY <2>1, ExactNumbers
  <2>5. (own.sql > 0 => refs.sql > 0) /\ (own.db > 0 => refs.db > 0)
    <3>1. /\ refs.sql \in Nat /\ refs.db \in Nat /\ own.sql \in Nat /\ own.db \in Nat
          /\ refs.sql >= own.sql /\ refs.db >= own.db
          BY <2>1, ExactNumbers
    <3> QED  BY <3>1
  <2>6. ASSUME NEW r \in Results, own.table[r] > 0 PROVE refs.table[r] > 0
        BY <1>1, <2>6, TableHeld
  <2> QED  BY <2>1, <2>2, <2>3, <2>4, <2>5, <2>6, Zenon DEF HeldAlive, ResultsAlive
<1> QED  BY <1>1, RefsInvariant, PTL
=============================================================================
