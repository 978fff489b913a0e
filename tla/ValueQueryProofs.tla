--------------------------- MODULE ValueQueryProofs ---------------------------
(***************************************************************************)
(* Theorems about ValueQuery, for every set of paths, objects and criteria  *)
(* and every number of them.                                                *)
(***************************************************************************)
EXTENDS ValueQuery, TLAPS, SequenceTheorems, WellFoundedInduction

----------------------------------------------------------------------------
(* Objects and their columns. *)

Names == {"value", "gmtoff", "usec", "type", "constant", "ident"}
\* The names of the columns of an object.
PartsOf(o) == IF o.kind = "constant" THEN <<"constant">>
              ELSE resolve_field_name(o.path, get_field_context(o))

\* What is known of an object's path.
LEMMA ObjectPath ==
    ASSUME NEW o \in Objects
    PROVE  /\ o.kind \in Kinds /\ o.path \in Paths /\ o.path \in Fields
           /\ o.path.depth = 2 <=> o.path.class \in Tops
           /\ o.path.type \in Types
BY SelectionAssumption DEF PathsAssumption, Fields

\* The selection counts between one and three columns for an object.
LEMMA CountRange ==
    ASSUME NEW o \in Objects PROVE classic_get_path_column_count(o) \in 1..3
BY DEF classic_get_path_column_count

\* The names of the columns of any object are one of a few sequences.
LEMMA NamesTyped ==
    ASSUME NEW o PROVE PartsOf(o) \in Seq(Names)
<1>1. PartsOf(o) \in {<<"constant">>, <<"value">>, <<"value", "gmtoff">>, <<"value", "type">>,
                      <<"value", "gmtoff", "usec">>}
  <2>1. CASE o.kind = "constant"
        BY <2>1 DEF PartsOf
  <2>2. CASE o.kind # "constant"
        BY <2>2 DEF PartsOf, resolve_field_name, Tops
  <2> QED  BY <2>1, <2>2
<1>2. <<"constant">> \in Seq(Names) /\ <<"value">> \in Seq(Names)
      BY DEF Names
<1>3. <<"value", "gmtoff">> \in Seq(Names) /\ <<"value", "type">> \in Seq(Names)
      BY DEF Names
<1>4. <<"value", "gmtoff", "usec">> \in Seq(Names)
      BY DEF Names
<1> QED  BY <1>1, <1>2, <1>3, <1>4

\* There are as many as the selection counts, unless it miscounts.
LEMMA NamesCounted ==
    ASSUME NEW o \in Objects, ~Miscounted(o)
    PROVE  Len(PartsOf(o)) = classic_get_path_column_count(o)
<1>1. CASE o.kind = "constant"
  <2>1. PartsOf(o) = <<"constant">> /\ classic_get_path_column_count(o) = 1
        BY <1>1 DEF PartsOf, classic_get_path_column_count
  <2> QED  BY <2>1
<1>2. CASE o.kind # "constant" /\ get_field_context(o) # "select"
  <2>1. PartsOf(o) = <<"value">>
        BY <1>2 DEF PartsOf, resolve_field_name
  <2>2. classic_get_path_column_count(o) = 1
        BY <1>2 DEF get_field_context, classic_get_path_column_count
  <2> QED  BY <2>1, <2>2
<1>3. CASE o.kind # "constant" /\ get_field_context(o) = "select"
  <2>1. o.kind = "path" /\ "group" \notin o.flags
        BY <1>3 DEF get_field_context
  <2>2. CASE o.path.type = "time" /\ o.path.class \in Tops
    <3>1. PartsOf(o) = <<"value", "gmtoff", "usec">>
          BY <1>3, <2>2 DEF PartsOf, resolve_field_name, Tops
    <3>2. classic_get_path_column_count(o) = 3
          BY <2>1, <2>2, ObjectPath DEF classic_get_path_column_count, Tops
    <3> QED  BY <3>1, <3>2
  <2>3. CASE o.path.type = "time" /\ o.path.class = "file"
    <3>1. PartsOf(o) = <<"value", "gmtoff">>
          BY <1>3, <2>3 DEF PartsOf, resolve_field_name, Tops
    <3>2. classic_get_path_column_count(o) = 2
          BY <2>1, <2>3, ObjectPath DEF classic_get_path_column_count, Tops
    <3> QED  BY <3>1, <3>2
  <2>4. CASE o.path.type = "data" /\ o.path.class = "additional_data"
    <3>1. PartsOf(o) = <<"value", "type">>
          BY <1>3, <2>4 DEF PartsOf, resolve_field_name, Tops
    <3>2. classic_get_path_column_count(o) = 2
          BY <2>1, <2>4 DEF classic_get_path_column_count
    <3> QED  BY <3>1, <3>2
  <2>5. CASE ~(\/ o.path.type = "time" /\ o.path.class \in Tops \cup {"file"}
               \/ o.path.type = "data" /\ o.path.class = "additional_data")
    <3>1. PartsOf(o) = <<"value">>
          BY <1>3, <2>5 DEF PartsOf, resolve_field_name
    <3>2. classic_get_path_column_count(o) = 1
          BY <2>1, <2>5 DEF classic_get_path_column_count, Miscounted
    <3> QED  BY <3>1, <3>2
  <2> QED  BY <2>2, <2>3, <2>4, <2>5
<1> QED  BY <1>1, <1>2, <1>3

\* What the resolver writes for an object is columns, as many as it has names.
LEMMA ColumnsTyped ==
    ASSUME NEW o, o.path \in Fields, NEW by \in Nat, NEW t \in Nat
    PROVE  /\ Columns(by, o, t) \in Seq(Column)
           /\ Len(Columns(by, o, t)) = Len(PartsOf(o))
<1>1. Columns(by, o, t)
        = [k \in DOMAIN PartsOf(o) |->
              [by |-> by, part |-> PartsOf(o)[k], path |-> o.path, table |-> t]]
      BY DEF Columns, PartsOf
<1>2. /\ DOMAIN PartsOf(o) = 1..Len(PartsOf(o)) /\ Len(PartsOf(o)) \in Nat
      /\ \A k \in 1..Len(PartsOf(o)) : PartsOf(o)[k] \in Names
      BY NamesTyped
<1>3. \A k \in 1..Len(PartsOf(o)) :
          [by |-> by, part |-> PartsOf(o)[k], path |-> o.path, table |-> t] \in Column
      BY <1>2 DEF Column, Names
<1> QED  BY <1>1, <1>2, <1>3

----------------------------------------------------------------------------
(* Joining the table of a path. *)

\* A set of numbers that is not empty has a least one.
LEMMA Smallest ==
    ASSUME NEW S, S \subseteq Nat, S # {}
    PROVE  \E t \in S : \A u \in S : t <= u
<1>1. PICK t \in S : \A u \in S : <<u, t>> \notin OpToRel(<, Nat)
      BY NatLessThanWellFounded, WFMin, Zenon
<1>2. \A u \in S : ~(u < t)
      BY <1>1 DEF OpToRel
<1> QED  BY <1>2

JoinOK(j) ==
    /\ j \in [top : Tops \cup {"none"}, tables : Seq(Fields)]
    /\ \A t \in DOMAIN j.tables : j.tables[t].top = j.top

\* A table that is found is one of those joined.
LEMMA LookupFinds ==
    ASSUME NEW j, j.tables \in Seq(Fields), NEW p, Serving(j, p) # {}
    PROVE  classic_sql_join_lookup_table(j, p) \in 1..Len(j.tables)
<1>1. Serving(j, p) \subseteq 1..Len(j.tables)
      BY DEF Serving
<1>2. PICK t \in Serving(j, p) : \A u \in Serving(j, p) : t <= u
      BY <1>1, Smallest
<1>3. classic_sql_join_lookup_table(j, p) \in Serving(j, p)
      BY <1>2 DEF classic_sql_join_lookup_table
<1> QED  BY <1>1, <1>3

\* Resolving a path keeps the tables joined before, all of one kind of
\* message, and finds its field in one of them or in a new one.
LEMMA ResolveJoins ==
    ASSUME NEW j, JoinOK(j), NEW p \in Fields, classic_path_resolve(j, p).ok
    PROVE  LET r == classic_path_resolve(j, p)
           IN  /\ JoinOK(r.join)
               /\ r.table \in 0..Len(r.join.tables)
               /\ Len(j.tables) <= Len(r.join.tables)
<1> DEFINE r == classic_path_resolve(j, p)
<1>1. p.top \in Tops
      BY SelectionAssumption DEF PathsAssumption, Fields, create_time, Tops
<1>2. Len(j.tables) \in Nat /\ DOMAIN j.tables = 1..Len(j.tables)
      BY DEF JoinOK
<1>3. CASE InTop(p)
      BY <1>2, <1>3 DEF classic_path_resolve, TopTable
<1>4. CASE ~InTop(p) /\ Serving(j, p) # {}
  <2>1. r.join = j /\ r.table = classic_sql_join_lookup_table(j, p)
        BY <1>4 DEF classic_path_resolve
  <2> QED  BY <1>2, <1>4, <2>1, LookupFinds DEF JoinOK
<1>5. CASE ~InTop(p) /\ Serving(j, p) = {}
  <2>1. /\ ~conflicting(j, p) /\ r.table = Len(j.tables) + 1
        /\ r.join.tables = Append(j.tables, p)
        /\ r.join.top = IF j.top = "none" THEN p.top ELSE j.top
        BY <1>5 DEF classic_path_resolve, classic_sql_join_new_table
  <2>2. /\ r.join.tables \in Seq(Fields) /\ Len(r.join.tables) = Len(j.tables) + 1
        /\ DOMAIN r.join.tables = 1..(Len(j.tables) + 1)
        /\ \A t \in 1..Len(j.tables) : r.join.tables[t] = j.tables[t]
        /\ r.join.tables[Len(j.tables) + 1] = p
        BY <1>2, <2>1, AppendProperties DEF JoinOK
  <2>3. r.join.top = p.top
        BY <2>1 DEF conflicting
  <2>4. \A t \in 1..Len(j.tables) : j.tables[t].top = p.top
    <3>1. CASE j.top = "none"
          BY <1>2, <3>1, SelectionAssumption DEF JoinOK, PathsAssumption, Fields, create_time, Tops
    <3>2. CASE j.top # "none"
          BY <1>2, <2>1, <3>2 DEF JoinOK, conflicting
    <3> QED  BY <3>1, <3>2
  <2>5. \A t \in 1..(Len(j.tables) + 1) : r.join.tables[t].top = r.join.top
    <3> SUFFICES ASSUME NEW t \in 1..(Len(j.tables) + 1)
                 PROVE  r.join.tables[t].top = r.join.top
        OBVIOUS
    <3>1. CASE t = Len(j.tables) + 1
          BY <2>2, <2>3, <3>1
    <3>2. CASE t \in 1..Len(j.tables)
          BY <2>2, <2>3, <2>4, <3>2
    <3> QED  BY <1>2, <3>1, <3>2
  <2>6. r.join = [top |-> r.join.top, tables |-> r.join.tables]
        BY <1>5 DEF classic_path_resolve, classic_sql_join_new_table
  <2>7. r.join \in [top : Tops \cup {"none"}, tables : Seq(Fields)]
        BY <1>1, <2>2, <2>3, <2>6
  <2>8. JoinOK(r.join)
        BY <2>2, <2>5, <2>7 DEF JoinOK
  <2> QED  BY <1>2, <2>1, <2>2, <2>8
<1> QED  BY <1>3, <1>4, <1>5

----------------------------------------------------------------------------
(***************************************************************************)
(* The inductive invariant.  Positions follow one another, and what the     *)
(* query being built, and the one that was run, have of each path is at the *)
(* path's position.                                                         *)
(***************************************************************************)

Start(sel, cols, n) == IF n <= Len(sel) THEN sel[n].position ELSE cols

Positions(sel, cols) ==
    /\ sel \in Seq(Selected) /\ cols \in Nat
    /\ Start(sel, cols, 1) = 0
    /\ \A i \in 1..Len(sel) :
          /\ sel[i].column_count = classic_get_path_column_count(sel[i].object)
          /\ Start(sel, cols, i + 1) = sel[i].position + sel[i].column_count
          /\ Start(sel, cols, i + 1) <= cols
    /\ \A i, j \in 1..Len(sel) : i < j => Start(sel, cols, i + 1) <= sel[j].position

InPlace(sel, columns, tables, i) ==
    \E t \in 0..Len(tables) : \A k \in 1..sel[i].column_count :
        /\ sel[i].position + k \in 1..Len(columns)
        /\ columns[sel[i].position + k] = Columns(i, sel[i].object, t)[k]

Counted(sel, n) == \A j \in 1..n : ~Miscounted(sel[j].object)

Written(sel, cols, columns, tables, n) ==
    /\ columns \in Seq(Column) /\ tables \in Seq(Fields)
    /\ Counted(sel, n) => Len(columns) = Start(sel, cols, n + 1)
    /\ \A i \in 1..n : Counted(sel, i) => InPlace(sel, columns, tables, i)

SelectionOK == Positions(selection, numpos)

BuildOK ==
    /\ query.criteria \in Criteria \cup {<< >>}
    /\ query.step = "select" =>
          /\ query.kind = "values" /\ query.next - 1 <= Len(selection)
          /\ Written(selection, numpos, select.columns, join.tables, query.next - 1)
    /\ query.step = "where" /\ query.kind = "values" =>
          Written(selection, numpos, select.columns, join.tables, Len(selection))

ResultOK ==
    Ran("values") =>
        /\ result.count \in 0..Len(selection)
        /\ Written(selection, numpos, result.columns, result.tables, result.count)

QueryInv == TypeOK /\ SelectionOK /\ BuildOK /\ ResultOK

\* Objects of the selection are selected objects.
LEMMA SelectedObject ==
    ASSUME NEW sel, NEW cols, Positions(sel, cols), NEW i \in 1..Len(sel)
    PROVE  /\ sel[i].object \in Objects /\ sel[i].position \in Nat
           /\ sel[i].column_count \in 1..3
<1>1. sel \in Seq(Selected)
      BY DEF Positions
<1>2. sel[i] \in Selected
      BY <1>1, ElementOfSeq
<1> QED  BY <1>2 DEF Selected

\* Writing the columns of the next path puts them at its position and leaves
\* the ones before where they were.
LEMMA WriteNext ==
    ASSUME NEW sel, NEW cols, Positions(sel, cols), NEW n \in 1..Len(sel),
           NEW columns, NEW tables, Written(sel, cols, columns, tables, n - 1),
           NEW more \in Seq(Fields), Len(tables) <= Len(more), NEW t \in 0..Len(more)
    PROVE  Written(sel, cols, columns \o Columns(n, sel[n].object, t), more, n)
<1> DEFINE o == sel[n].object
           new == Columns(n, o, t)
           all == columns \o new
<1>1. o \in Objects /\ sel[n].position \in Nat /\ sel[n].column_count \in 1..3
      BY SelectedObject
<1>2. new \in Seq(Column) /\ Len(new) \in Nat
      BY <1>1, ColumnsTyped, ObjectPath
<1>3. columns \in Seq(Column) /\ Len(columns) \in Nat /\ Len(tables) \in Nat /\ Len(more) \in Nat
      BY DEF Written
<1> HIDE DEF new
<1>4. /\ all \in Seq(Column) /\ Len(all) = Len(columns) + Len(new)
      /\ \A k \in 1..Len(columns) : all[k] = columns[k]
      /\ \A k \in 1..Len(new) : all[Len(columns) + k] = new[k]
      BY <1>2, <1>3, ConcatProperties
<1> HIDE DEF all
<1>5. ASSUME NEW i \in 1..(n - 1), Counted(sel, i) PROVE InPlace(sel, all, more, i)
  <2>1. InPlace(sel, columns, tables, i)
        BY <1>5 DEF Written
  <2>2. PICK u \in 0..Len(tables) : \A k \in 1..sel[i].column_count :
            /\ sel[i].position + k \in 1..Len(columns)
            /\ columns[sel[i].position + k] = Columns(i, sel[i].object, u)[k]
        BY <2>1 DEF InPlace
  <2>3. u \in 0..Len(more)
        BY <1>3
  <2>4. ASSUME NEW k \in 1..sel[i].column_count
        PROVE  /\ sel[i].position + k \in 1..Len(all)
               /\ all[sel[i].position + k] = Columns(i, sel[i].object, u)[k]
    <3>1. /\ sel[i].position + k \in 1..Len(columns)
          /\ columns[sel[i].position + k] = Columns(i, sel[i].object, u)[k]
          BY <2>2
    <3>2. all[sel[i].position + k] = columns[sel[i].position + k]
          BY <1>4, <3>1
    <3>3. 1..Len(columns) \subseteq 1..Len(all)
          BY <1>2, <1>3, <1>4
    <3> QED  BY <3>1, <3>2, <3>3
  <2> QED  BY <2>3, <2>4 DEF InPlace
<1>6. ASSUME Counted(sel, n)
      PROVE  InPlace(sel, all, more, n) /\ Len(all) = Start(sel, cols, n + 1)
  <2>1. Counted(sel, n - 1) /\ ~Miscounted(o)
        BY <1>6 DEF Counted
  <2>2. Len(columns) = sel[n].position
        BY <2>1 DEF Written, Start
  <2>3. Len(new) = sel[n].column_count
        BY <1>1, <2>1, NamesCounted, ColumnsTyped, ObjectPath DEF Positions, new
  <2>4. ASSUME NEW k \in 1..sel[n].column_count
        PROVE  /\ sel[n].position + k \in 1..Len(all)
               /\ all[sel[n].position + k] = new[k]
    <3>1. k \in 1..Len(new) /\ sel[n].position + k = Len(columns) + k
          BY <2>2, <2>3
    <3> QED  BY <1>2, <1>3, <1>4, <3>1
  <2> QED  BY <1>1, <1>4, <2>2, <2>3, <2>4 DEF InPlace, Positions, new
<1>7. \A i \in 1..n : Counted(sel, i) => InPlace(sel, all, more, i)
  <2>1. \A i \in 1..n : i = n \/ i \in 1..(n - 1)
        OBVIOUS
  <2> QED  BY <2>1, <1>5, <1>6
<1>8. Written(sel, cols, all, more, n)
      BY <1>4, <1>6, <1>7 DEF Written
<1> QED  BY <1>8 DEF all, new

----------------------------------------------------------------------------
(* What each operation keeps. *)

\* A path that is added comes after the others and moves none of them.
LEMMA AddExtends ==
    ASSUME SelectionOK, NEW o \in Objects, path_selection_add(o)
    PROVE  /\ Len(selection') = Len(selection) + 1 /\ Len(selection) \in Nat
           /\ \A i \in 1..Len(selection) : selection'[i] = selection[i]
           /\ \A n \in 1..(Len(selection) + 1) :
                 Start(selection', numpos', n) = Start(selection, numpos, n)
           /\ SelectionOK'
<1> DEFINE count == classic_get_path_column_count(o)
           s == [object |-> o, position |-> numpos, column_count |-> count]
           L == Len(selection)
<1>1. selection \in Seq(Selected) /\ numpos \in Nat /\ L \in Nat
      BY DEF SelectionOK, Positions
<1>2. count \in 1..3
      BY CountRange
<1>3. s \in Selected
      BY <1>1, <1>2 DEF Selected
<1>4. selection' = Append(selection, s) /\ numpos' = numpos + count
      BY DEF path_selection_add
<1> HIDE DEF count
<1>5. /\ selection' \in Seq(Selected) /\ Len(selection') = L + 1
      /\ \A i \in 1..L : selection'[i] = selection[i]
      /\ selection'[L + 1] = s
      BY <1>1, <1>3, <1>4, AppendProperties
<1> HIDE DEF s
<1>6. s.position = numpos /\ s.column_count = count /\ s.object = o
      BY DEF s
<1>7. \A n \in 1..(L + 1) : Start(selection', numpos', n) = Start(selection, numpos, n)
  <2>1. \A n \in 1..L : Start(selection', numpos', n) = Start(selection, numpos, n)
        BY <1>1, <1>5 DEF Start
  <2>2. Start(selection', numpos', L + 1) = Start(selection, numpos, L + 1)
        BY <1>1, <1>5, <1>6 DEF Start
  <2>3. \A n \in 1..(L + 1) : n \in 1..L \/ n = L + 1
        BY <1>1
  <2> QED  BY <2>1, <2>2, <2>3
<1>8. Start(selection', numpos', L + 2) = numpos + count
      BY <1>1, <1>4, <1>5 DEF Start
<1>9. \A i \in 1..L : selection[i].position \in Nat /\ selection[i].column_count \in 1..3
      BY SelectedObject DEF SelectionOK
<1>10. \A i \in 1..(L + 1) :
          /\ selection'[i].column_count = classic_get_path_column_count(selection'[i].object)
          /\ Start(selection', numpos', i + 1) = selection'[i].position + selection'[i].column_count
          /\ Start(selection', numpos', i + 1) <= numpos'
  <2>1. ASSUME NEW i \in 1..L
        PROVE  /\ selection'[i].column_count = classic_get_path_column_count(selection'[i].object)
               /\ Start(selection', numpos', i + 1)
                    = selection'[i].position + selection'[i].column_count
               /\ Start(selection', numpos', i + 1) <= numpos'
    <3>1. Start(selection', numpos', i + 1) = Start(selection, numpos, i + 1)
          BY <1>1, <1>7
    <3>2. /\ selection[i].column_count = classic_get_path_column_count(selection[i].object)
          /\ Start(selection, numpos, i + 1) = selection[i].position + selection[i].column_count
          /\ Start(selection, numpos, i + 1) <= numpos
      <4>1. Positions(selection, numpos)
            BY DEF SelectionOK
      <4> QED  BY <2>1, <4>1 DEF Positions
    <3>3. selection'[i] = selection[i] /\ numpos' = numpos + count
          BY <1>4, <1>5
    <3>4. Start(selection, numpos, i + 1) \in Nat
          BY <1>9, <3>2
    <3>5. Start(selection, numpos, i + 1) <= numpos + count
          BY <1>1, <1>2, <3>2, <3>4
    <3> QED  BY <3>1, <3>2, <3>3, <3>5
  <2>2. /\ selection'[L + 1].column_count
               = classic_get_path_column_count(selection'[L + 1].object)
        /\ Start(selection', numpos', L + 2)
             = selection'[L + 1].position + selection'[L + 1].column_count
        /\ Start(selection', numpos', L + 2) <= numpos'
        BY <1>1, <1>2, <1>4, <1>5, <1>6, <1>8 DEF count
  <2>3. \A i \in 1..(L + 1) : i \in 1..L \/ i = L + 1
        BY <1>1
  <2> QED  BY <1>1, <2>1, <2>2, <2>3
<1>11. \A i, j \in 1..(L + 1) : i < j => Start(selection', numpos', i + 1) <= selection'[j].position
  <2>1. ASSUME NEW i \in 1..(L + 1), NEW j \in 1..(L + 1), i < j
        PROVE  Start(selection', numpos', i + 1) <= selection'[j].position
    <3>1. i \in 1..L /\ Start(selection', numpos', i + 1) = Start(selection, numpos, i + 1)
          BY <1>1, <1>7, <2>1
    <3>2. CASE j \in 1..L
      <4>1. Start(selection, numpos, i + 1) <= selection[j].position
            BY <2>1, <3>1, <3>2 DEF SelectionOK, Positions
      <4> QED  BY <1>5, <3>1, <3>2, <4>1
    <3>3. CASE j = L + 1
      <4>1. Start(selection, numpos, i + 1) <= numpos
            BY <3>1 DEF SelectionOK, Positions
      <4> QED  BY <1>5, <1>6, <3>1, <3>3, <4>1
    <3> QED  BY <1>1, <3>2, <3>3
  <2> QED  BY <2>1
<1>12. Start(selection', numpos', 1) = 0
      BY <1>1, <1>7 DEF SelectionOK, Positions
<1>13. numpos' \in Nat
      BY <1>1, <1>2, <1>4
<1> QED  BY <1>1, <1>5, <1>7, <1>10, <1>11, <1>12, <1>13 DEF SelectionOK, Positions

\* What was written for the paths before it stays in place.
LEMMA AddKeepsWritten ==
    ASSUME SelectionOK, NEW o \in Objects, path_selection_add(o),
           NEW columns, NEW tables, NEW n \in 0..Len(selection),
           Written(selection, numpos, columns, tables, n)
    PROVE  Written(selection', numpos', columns, tables, n)
<1>1. /\ Len(selection) \in Nat
      /\ \A i \in 1..Len(selection) : selection'[i] = selection[i]
      /\ \A k \in 1..(Len(selection) + 1) :
            Start(selection', numpos', k) = Start(selection, numpos, k)
      BY AddExtends
<1>2. \A i \in 0..n : Counted(selection', i) <=> Counted(selection, i)
      BY <1>1 DEF Counted
<1>3. n + 1 \in 1..(Len(selection) + 1)
      BY <1>1
<1>4. Start(selection', numpos', n + 1) = Start(selection, numpos, n + 1)
      BY <1>1, <1>3
<1>5. ASSUME NEW i \in 1..n, InPlace(selection, columns, tables, i)
      PROVE  InPlace(selection', columns, tables, i)
  <2>1. selection'[i] = selection[i]
        BY <1>1
  <2> QED  BY <1>5, <2>1 DEF InPlace
<1> QED  BY <1>1, <1>2, <1>4, <1>5 DEF Written

\* Nor does joining more tables move it.
LEMMA JoinKeepsWritten ==
    ASSUME NEW sel, NEW cols, NEW columns, NEW tables, NEW n,
           Written(sel, cols, columns, tables, n),
           NEW more \in Seq(Fields), Len(tables) <= Len(more)
    PROVE  Written(sel, cols, columns, more, n)
<1>1. ASSUME NEW i \in 1..n, InPlace(sel, columns, tables, i)
      PROVE  InPlace(sel, columns, more, i)
  <2>1. 0..Len(tables) \subseteq 0..Len(more)
        BY DEF Written
  <2> QED  BY <1>1, <2>1 DEF InPlace
<1> QED  BY <1>1 DEF Written

\* An operation that changes neither the selection nor the result keeps what
\* is known of both.
LEMMA Stays ==
    ASSUME UNCHANGED <<selection, numpos>>
    PROVE  /\ SelectionOK => SelectionOK'
           /\ result' = result /\ ResultOK => ResultOK'
BY DEF SelectionOK, ResultOK, Ran

----------------------------------------------------------------------------
LEMMA InitInv == Init => QueryInv
<1> SUFFICES ASSUME Init PROVE QueryInv
    OBVIOUS
<1>1. SelectionOK
      BY DEF Init, SelectionOK, Positions, Start
<1>2. TypeOK
      BY DEF Init, TypeOK, NoBuild, NoSelect, NoJoin
<1>3. BuildOK
      BY DEF Init, BuildOK, NoBuild
<1>4. ResultOK
      BY DEF Init, ResultOK, Ran
<1> QED  BY <1>1, <1>2, <1>3, <1>4 DEF QueryInv

LEMMA ReleaseInv == QueryInv /\ Release => QueryInv'
<1> SUFFICES ASSUME QueryInv, Release PROVE QueryInv'
    OBVIOUS
<1> USE DEF QueryInv
<1>1. TypeOK' /\ BuildOK'
      BY DEF Release, TypeOK, BuildOK
<1>2. ResultOK'
      BY DEF Release, ResultOK, Ran
<1> QED  BY <1>1, <1>2, Stays DEF Release

LEMMA AddPathInv == ASSUME QueryInv, NEW o \in Objects, AddPath(o) PROVE QueryInv'
<1> USE DEF QueryInv
<1>1. path_selection_add(o) /\ UNCHANGED <<query, select, join, fields, result>> /\ Idle
      BY DEF AddPath
<1>2. SelectionOK' /\ Len(selection') = Len(selection) + 1 /\ Len(selection) \in Nat
      BY <1>1, AddExtends
<1>3. TypeOK'
      BY <1>1, <1>2 DEF TypeOK, SelectionOK, Positions
<1>4. BuildOK'
      BY <1>1 DEF BuildOK, Idle
<1>5. ResultOK'
  <2> SUFFICES ASSUME Ran("values")
               PROVE  /\ result.count \in 0..Len(selection')
                      /\ Written(selection', numpos', result.columns, result.tables,
                                 result.count)
      BY <1>1 DEF ResultOK, Ran
  <2>1. /\ result.count \in 0..Len(selection)
        /\ Written(selection, numpos, result.columns, result.tables, result.count)
        BY DEF ResultOK
  <2>2. Written(selection', numpos', result.columns, result.tables, result.count)
        BY <1>1, <2>1, AddKeepsWritten
  <2> QED  BY <1>2, <2>1, <2>2
<1> QED  BY <1>2, <1>3, <1>4, <1>5

\* The criteria of a query are about paths.
LEMMA CriterionPaths ==
    ASSUME NEW c \in Criteria
    PROVE  Len(c) \in Nat /\ DOMAIN c = 1..Len(c) /\ \A n \in DOMAIN c : c[n].path \in Paths
BY SelectionAssumption DEF CriteriaAssumption

LEMMA GetValuesInv ==
    ASSUME QueryInv, NEW c \in Criteria, classic_get_values(c) PROVE QueryInv'
<1> USE DEF QueryInv
<1>1. /\ query' = [step |-> "select", kind |-> "values", top |-> "none", criteria |-> c,
                   next |-> 1]
      /\ select' = NoSelect /\ join' = NoJoin /\ fields' = << >>
      /\ UNCHANGED <<selection, numpos, result>>
      BY DEF classic_get_values, Begin
<1>2. TypeOK'
  <2>1. \A n \in DOMAIN c : c[n].path \in Paths
        BY CriterionPaths
  <2>2. query' \in [step : {"idle", "select", "where"}, kind : {"values", "idents"},
                    top : Tops \cup {"none"}, criteria : {query'.criteria},
                    next : Nat \ {0}]
        /\ \A n \in DOMAIN query'.criteria : query'.criteria[n].path \in Paths
        BY <1>1, <2>1
  <2> QED  BY <1>1, <2>2 DEF TypeOK, NoSelect, NoJoin
<1>3. Written(selection, numpos, << >>, << >>, 0)
      BY DEF Written, SelectionOK, Positions
<1>4. Len(selection) \in Nat
      BY DEF TypeOK
<1>5. BuildOK'
      BY <1>1, <1>3, <1>4 DEF BuildOK, NoSelect, NoJoin
<1> QED  BY <1>1, <1>2, <1>5, Stays

LEMMA RefuseInv == QueryInv /\ Refuse => QueryInv'
<1> SUFFICES ASSUME QueryInv, Refuse PROVE QueryInv'
    OBVIOUS
<1> USE DEF QueryInv
<1>1. TypeOK' /\ BuildOK'
      BY DEF Refuse, TypeOK, BuildOK, NoBuild, NoSelect, NoJoin
<1> QED  BY <1>1, Stays DEF Refuse

LEMMA EndOfSelectionInv == QueryInv /\ EndOfSelection => QueryInv'
<1> SUFFICES ASSUME QueryInv, EndOfSelection PROVE QueryInv'
    OBVIOUS
<1> USE DEF QueryInv
<1>1. /\ query' = [query EXCEPT !.step = "where", !.next = 1]
      /\ query.step = "select" /\ query.next > Len(selection)
      /\ UNCHANGED <<selection, numpos, select, join, fields, result>>
      BY DEF EndOfSelection
<1>2. TypeOK'
  <2>1. query' = [step |-> "where", kind |-> query.kind, top |-> query.top,
                  criteria |-> query.criteria, next |-> 1]
        BY <1>1 DEF TypeOK
  <2> QED  BY <1>1, <2>1 DEF TypeOK
<1>3. query.next - 1 = Len(selection)
      BY <1>1 DEF TypeOK, BuildOK
<1>4. Written(selection, numpos, select.columns, join.tables, Len(selection))
      BY <1>1, <1>3 DEF BuildOK
<1>5. BuildOK'
      BY <1>1, <1>4 DEF BuildOK, TypeOK
<1> QED  BY <1>1, <1>2, <1>5, Stays

LEMMA RunQueryInv == QueryInv /\ RunQuery => QueryInv'
<1> SUFFICES ASSUME QueryInv, RunQuery PROVE QueryInv'
    OBVIOUS
<1> USE DEF QueryInv
<1>1. TypeOK' /\ BuildOK'
      BY DEF RunQuery, TypeOK, BuildOK, NoBuild, NoSelect, NoJoin
<1>2. /\ result'.kind = query.kind /\ result'.count = Len(selection)
      /\ result'.columns = select.columns /\ result'.tables = join.tables
      /\ query.step = "where" /\ UNCHANGED <<selection, numpos>>
      BY DEF RunQuery
<1>3. Len(selection) \in Nat
      BY DEF TypeOK
<1>4. ResultOK'
      BY <1>2, <1>3 DEF ResultOK, Ran, BuildOK
<1> QED  BY <1>1, <1>2, <1>4, Stays

\* Adding columns, numbering and counting them keep a SELECT well formed.
SelectTyped == [columns : Seq(Column), field_count : Nat, group_by : Seq(Nat),
                order_by : Seq(Nat)]

LEMMA ColumnsAdded ==
    ASSUME NEW s \in SelectTyped, NEW new \in Seq(Column)
    PROVE  LET w == [s EXCEPT !.columns = @ \o new]
           IN  w \in SelectTyped /\ w.columns = s.columns \o new
<1>1. s.columns \o new \in Seq(Column)
      BY ConcatProperties DEF SelectTyped
<1> DEFINE both == s.columns \o new
<1> HIDE DEF both
<1>2. [s EXCEPT !.columns = both] \in SelectTyped /\ [s EXCEPT !.columns = both].columns = both
      BY <1>1 DEF SelectTyped, both
<1> QED  BY <1>2 DEF both

LEMMA OptionsTyped ==
    ASSUME NEW s \in SelectTyped, NEW n \in Nat, NEW flags
    PROVE  /\ sql_select_add_options(s, n, flags) \in SelectTyped
           /\ sql_select_add_options(s, n, flags).columns = s.columns
<1> DEFINE numbers == Numbers(s.field_count, n)
           group == IF "group" \in flags THEN s.group_by \o numbers ELSE s.group_by
           order == IF "order" \in flags THEN s.order_by \o numbers ELSE s.order_by
           count == s.field_count + n
<1>1. s.field_count \in Nat /\ s.group_by \in Seq(Nat) /\ s.order_by \in Seq(Nat)
      BY DEF SelectTyped
<1>2. numbers \in Seq(Nat)
      BY <1>1 DEF Numbers
<1>3. s.group_by \o numbers \in Seq(Nat) /\ s.order_by \o numbers \in Seq(Nat)
      BY <1>1, <1>2, ConcatProperties
<1>4. group \in Seq(Nat) /\ order \in Seq(Nat) /\ count \in Nat
      BY <1>1, <1>3
<1>5. sql_select_add_options(s, n, flags)
        = [s EXCEPT !.field_count = count, !.group_by = group, !.order_by = order]
      BY DEF sql_select_add_options
<1> HIDE DEF group, order, count
<1>6. LET r == [s EXCEPT !.field_count = count, !.group_by = group, !.order_by = order]
      IN  r \in SelectTyped /\ r.columns = s.columns
      BY <1>4 DEF SelectTyped
<1> QED  BY <1>5, <1>6

\* Both, for one object.
LEMMA SelectedTyped ==
    ASSUME NEW s \in SelectTyped, NEW by \in Nat, NEW o, o.path \in Fields,
           NEW count \in Nat, NEW table \in Nat
    PROVE  /\ preludedb_sql_select_add_selected(s, by, o, count, table) \in SelectTyped
           /\ preludedb_sql_select_add_selected(s, by, o, count, table).columns
                 = s.columns \o Columns(by, o, table)
<1> DEFINE new == Columns(by, o, table)
           w == [s EXCEPT !.columns = @ \o new]
<1>1. new \in Seq(Column)
      BY ColumnsTyped
<1> HIDE DEF new
<1>2. w \in SelectTyped /\ w.columns = s.columns \o new
      BY <1>1, ColumnsAdded
<1> HIDE DEF w
<1>3. LET r == sql_select_add_options(w, count, o.flags)
      IN  r \in SelectTyped /\ r.columns = s.columns \o new
      BY <1>2, OptionsTyped
<1> QED  BY <1>3 DEF w, new, preludedb_sql_select_add_selected

\* Fields found in a table are still found in it when there are more.
LEMMA FieldsStay ==
    ASSUME NEW m \in Nat, NEW n \in Nat, m <= n, NEW f \in Seq([path : Paths, table : 0..m])
    PROVE  f \in Seq([path : Paths, table : 0..n])
<1>1. [path : Paths, table : 0..m] \subseteq [path : Paths, table : 0..n]
      OBVIOUS
<1> QED  BY <1>1, SeqMonotonic

LEMMA AddSelectedInv == QueryInv /\ AddSelected => QueryInv'
<1> SUFFICES ASSUME QueryInv, AddSelected PROVE QueryInv'
    OBVIOUS
<1> USE DEF QueryInv
<1> DEFINE s == selection[query.next]
           o == s.object
           r == Resolved(join, o)
           new == Columns(query.next, o, r.table)
<1>1. /\ query.step = "select" /\ query.kind = "values"
      /\ query.next \in 1..Len(selection) /\ Len(selection) \in Nat
      /\ Written(selection, numpos, select.columns, join.tables, query.next - 1)
      BY DEF AddSelected, TypeOK, BuildOK
<1>2. o \in Objects /\ s.column_count \in 1..3
      BY <1>1, SelectedObject DEF SelectionOK
<1>3. JoinOK(join)
      BY DEF TypeOK, JoinOK
<1>4. CASE ~r.ok
      BY <1>4, RefuseInv DEF AddSelected
<1>5. CASE r.ok
  <2>1. /\ select' = preludedb_sql_select_add_selected(select, query.next, o,
                                                       s.column_count, r.table)
        /\ join' = r.join /\ query' = [query EXCEPT !.next = @ + 1]
        /\ UNCHANGED <<selection, numpos, fields, result>>
        BY <1>5 DEF AddSelected
  <2>2. JoinOK(r.join) /\ r.table \in 0..Len(r.join.tables)
        /\ Len(join.tables) <= Len(r.join.tables)
    <3>1. CASE o.kind = "constant"
      <4>1. r.join = join /\ r.table = 0
            BY <3>1 DEF Resolved, TopTable
      <4> QED  BY <1>3, <4>1 DEF JoinOK
    <3>2. CASE o.kind # "constant"
      <4>1. r = classic_path_resolve(join, o.path)
            BY <3>2 DEF Resolved
      <4> QED  BY <1>2, <1>3, <1>5, <4>1, ObjectPath, ResolveJoins
    <3> QED  BY <3>1, <3>2
  <2>3. r.table \in Nat /\ Len(r.join.tables) \in Nat /\ r.join.tables \in Seq(Fields)
        BY <2>2 DEF JoinOK
  <2> HIDE DEF r
  <2>4. select \in SelectTyped /\ fields \in Seq([path : Paths, table : 0..Len(join.tables)])
        BY DEF TypeOK, SelectTyped
  <2>5. select' \in SelectTyped /\ select'.columns = select.columns \o new
    <3>1. o.path \in Fields /\ query.next \in Nat /\ s.column_count \in Nat
          BY <1>1, <1>2, ObjectPath
    <3> DEFINE count == s.column_count
    <3>2. select' = preludedb_sql_select_add_selected(select, query.next, o, count, r.table)
          BY <2>1
    <3>3. count \in Nat /\ select \in SelectTyped
          BY <2>4, <3>1
    <3> HIDE DEF o, count, new
    <3>4. /\ preludedb_sql_select_add_selected(select, query.next, o, count, r.table)
                \in SelectTyped
          /\ preludedb_sql_select_add_selected(select, query.next, o, count, r.table).columns
                = select.columns \o Columns(query.next, o, r.table)
      <4> DEFINE q == query.next
                 p == o.path
                 t == r.table
      <4>1. q \in Nat /\ p \in Fields /\ t \in Nat /\ select \in SelectTyped /\ count \in Nat
            BY <2>3, <3>1, <3>3
      <4>2. o.path \in Fields
            BY <4>1
      <4> HIDE DEF q, t, p
      <4>3. preludedb_sql_select_add_selected(select, q, o, count, t) \in SelectTyped
            BY <4>1, <4>2, SelectedTyped
      <4>4. preludedb_sql_select_add_selected(select, q, o, count, t).columns
                = select.columns \o Columns(q, o, t)
            BY <4>1, <4>2, SelectedTyped
      <4> QED BY <4>3, <4>4 DEF q, t
    <3> QED  BY <3>2, <3>4 DEF new
  <2>6. query' = [step |-> query.step, kind |-> query.kind, top |-> query.top,
                  criteria |-> query.criteria, next |-> query.next + 1]
        BY <2>1 DEF TypeOK
  <2>7. fields \in Seq([path : Paths, table : 0..Len(r.join.tables)])
    <3>1. Len(join.tables) \in Nat
          BY <1>3 DEF JoinOK
    <3> QED  BY <2>2, <2>3, <2>4, <3>1, FieldsStay
  <2>8. TypeOK'
    <3>1. query' \in [step : {"idle", "select", "where"}, kind : {"values", "idents"},
                      top : Tops \cup {"none"}, criteria : {query'.criteria},
                      next : Nat \ {0}]
          /\ \A n \in DOMAIN query'.criteria : query'.criteria[n].path \in Paths
          BY <2>6 DEF TypeOK
    <3>2. JoinOK(join') /\ fields' \in Seq([path : Paths, table : 0..Len(join'.tables)])
          BY <2>1, <2>2, <2>7
    <3>3. (selection \in Seq(Selected) /\ numpos \in Nat)'
          BY <2>1 DEF TypeOK
    <3> QED  BY <2>5, <3>1, <3>2, <3>3 DEF TypeOK, JoinOK, SelectTyped
  <2>9. Written(selection, numpos, select'.columns, r.join.tables, query.next)
    <3>1. Positions(selection, numpos)
          BY DEF SelectionOK
    <3>2. Written(selection, numpos, select.columns \o new, r.join.tables, query.next)
          BY <1>1, <2>2, <2>3, <3>1, WriteNext
    <3> QED  BY <2>5, <3>2
  <2>10. BuildOK'
        BY <1>1, <2>1, <2>6, <2>9 DEF BuildOK
  <2> QED  BY <2>1, <2>8, <2>10, Stays
<1> QED  BY <1>4, <1>5

LEMMA CriterionInv == QueryInv /\ classic_path_resolve_criterion => QueryInv'
<1> SUFFICES ASSUME QueryInv, classic_path_resolve_criterion PROVE QueryInv'
    OBVIOUS
<1> USE DEF QueryInv
<1> DEFINE p == query.criteria[query.next].path
           r == classic_path_resolve(join, p)
           Found(m) == [path : Paths, table : 0..m]
<1>1. query.step = "where" /\ query.next \in 1..Len(query.criteria)
  <2>1. query.criteria \in Criteria \cup {<< >>} /\ query.next \in Nat \ {0}
        BY DEF TypeOK, BuildOK
  <2>2. Len(query.criteria) \in Nat
        BY <2>1, CriterionPaths
  <2> QED  BY <2>1, <2>2 DEF classic_path_resolve_criterion
<1>2. p \in Paths /\ p \in Fields
  <2>1. query.criteria \in Criteria
        BY <1>1 DEF BuildOK
  <2> QED  BY <1>1, <2>1, CriterionPaths DEF Fields
<1>3. JoinOK(join) /\ Len(join.tables) \in Nat
      BY DEF TypeOK, JoinOK
<1>4. CASE ~r.ok
      BY <1>4, RefuseInv DEF classic_path_resolve_criterion
<1>5. CASE r.ok
  <2>1. /\ fields' = Append(fields, [path |-> p, table |-> r.table])
        /\ join' = r.join /\ query' = [query EXCEPT !.next = @ + 1]
        /\ UNCHANGED <<selection, numpos, select, result>>
        BY <1>5 DEF classic_path_resolve_criterion
  <2> HIDE DEF p
  <2>2. JoinOK(r.join) /\ r.table \in 0..Len(r.join.tables)
        /\ Len(join.tables) <= Len(r.join.tables)
        BY <1>2, <1>3, <1>5, ResolveJoins
  <2>3. Len(r.join.tables) \in Nat /\ r.join.tables \in Seq(Fields)
        BY <2>2 DEF JoinOK
  <2> HIDE DEF r
  <2>4. fields \in Seq(Found(Len(r.join.tables)))
    <3>1. fields \in Seq([path : Paths, table : 0..Len(join.tables)])
          BY DEF TypeOK
    <3> QED  BY <1>3, <2>2, <2>3, <3>1, FieldsStay
  <2>5. [path |-> p, table |-> r.table] \in Found(Len(r.join.tables))
        BY <1>2, <2>2
  <2> HIDE DEF Found
  <2>6. fields' \in Seq(Found(Len(join'.tables)))
        BY <2>1, <2>4, <2>5, AppendProperties
  <2>7. query' = [step |-> query.step, kind |-> query.kind, top |-> query.top,
                  criteria |-> query.criteria, next |-> query.next + 1]
        BY <2>1 DEF TypeOK
  <2>8. TypeOK'
    <3>1. query' \in [step : {"idle", "select", "where"}, kind : {"values", "idents"},
                      top : Tops \cup {"none"}, criteria : {query'.criteria},
                      next : Nat \ {0}]
          /\ \A n \in DOMAIN query'.criteria : query'.criteria[n].path \in Paths
          BY <2>7 DEF TypeOK
    <3>2. JoinOK(join')
          BY <2>1, <2>2
    <3>3. (selection \in Seq(Selected) /\ numpos \in Nat)'
          /\ select' \in [columns : Seq(Column), field_count : Nat,
                          group_by : Seq(Nat), order_by : Seq(Nat)]
          BY <2>1 DEF TypeOK
    <3> QED  BY <2>6, <3>1, <3>2, <3>3 DEF TypeOK, JoinOK, Found
  <2>9. BuildOK'
    <3>1. CASE query.kind = "values"
      <4>1. Written(selection, numpos, select.columns, join.tables, Len(selection))
            BY <1>1, <3>1 DEF BuildOK
      <4>2. Written(selection, numpos, select.columns, r.join.tables, Len(selection))
            BY <2>2, <2>3, <4>1, JoinKeepsWritten
      <4> QED  BY <1>1, <2>1, <2>7, <4>2 DEF BuildOK
    <3>2. CASE query.kind # "values"
          BY <1>1, <2>7, <3>2 DEF BuildOK
    <3> QED  BY <3>1, <3>2
  <2> QED  BY <2>1, <2>8, <2>9, Stays
<1> QED  BY <1>4, <1>5

LEMMA IdentsInv ==
    ASSUME QueryInv, NEW top \in Tops, NEW order \in BOOLEAN, NEW c \in Criteria,
           get_message_idents(top, order, c)
    PROVE  QueryInv'
<1> USE DEF QueryInv
<1> DEFINE o == create_time(top)
           j == [NoJoin EXCEPT !.top = top]
           r == classic_path_resolve(j, o.path)
           column == [by |-> 0, part |-> "ident", path |-> o.path, table |-> TopTable]
           ident == [NoSelect EXCEPT !.columns = <<column>>, !.field_count = 1]
           both == preludedb_sql_select_add_selected(ident, 1, o, 1, r.table)
<1>1. /\ query' = [step |-> "where", kind |-> "idents", top |-> top, criteria |-> c,
                   next |-> 1]
      /\ fields' = << >> /\ UNCHANGED <<selection, numpos, result>>
      /\ \/ select' = ident /\ join' = j
         \/ select' = both /\ join' = r.join
      BY DEF get_message_idents, Begin
<1>2. o.path \in Fields
      BY DEF Fields
<1>3. JoinOK(j) /\ r.ok
  <2>1. j = [top |-> top, tables |-> << >>]
        BY DEF NoJoin
  <2>2. o.path.top = top
        BY DEF create_time
  <2>3. ~conflicting(j, o.path)
        BY <2>1, <2>2 DEF conflicting
  <2>4. r.ok
        BY <2>3 DEF classic_path_resolve
  <2>5. JoinOK([top |-> top, tables |-> << >>])
        BY DEF JoinOK
  <2> HIDE DEF j, r
  <2> QED  BY <2>1, <2>4, <2>5
<1>4. JoinOK(r.join) /\ r.table \in 0..Len(r.join.tables) /\ Len(r.join.tables) \in Nat
  <2>1. JoinOK(r.join) /\ r.table \in 0..Len(r.join.tables)
        BY <1>2, <1>3, ResolveJoins
  <2> QED  BY <2>1 DEF JoinOK
<1>5. column \in Column
      BY <1>2 DEF Column, TopTable
<1> HIDE DEF column
<1>6. ident \in SelectTyped
  <2> DEFINE one == <<column>>
  <2>1. one \in Seq(Column)
        BY <1>5
  <2> HIDE DEF one
  <2>2. NoSelect \in SelectTyped
        BY DEF NoSelect, SelectTyped
  <2>3. [NoSelect EXCEPT !.columns = one, !.field_count = 1] \in SelectTyped
        BY <2>1, <2>2 DEF SelectTyped
  <2> QED  BY <2>3 DEF one
<1>7. both \in SelectTyped
  <2> DEFINE t == r.table
  <2>1. t \in Nat
        BY <1>4
  <2> HIDE DEF t, ident, o
  <2>2. preludedb_sql_select_add_selected(ident, 1, o, 1, t) \in SelectTyped
        BY <1>2, <1>6, <2>1, SelectedTyped
  <2> QED  BY <2>2 DEF t
<1> HIDE DEF both, ident, r, j
<1>8. TypeOK'
  <2>1. select' \in SelectTyped /\ JoinOK(join')
        BY <1>1, <1>3, <1>4, <1>6, <1>7
  <2>2. (selection \in Seq(Selected) /\ numpos \in Nat)'
        BY <1>1 DEF TypeOK
  <2>3. fields' \in Seq([path : Paths, table : 0..Len(join'.tables)])
        BY <1>1
  <2>4. query' \in [step : {"idle", "select", "where"}, kind : {"values", "idents"},
                    top : Tops \cup {"none"}, criteria : {query'.criteria},
                    next : Nat \ {0}]
        /\ \A n \in DOMAIN query'.criteria : query'.criteria[n].path \in Paths
        BY <1>1, CriterionPaths
  <2> QED  BY <2>1, <2>2, <2>3, <2>4 DEF TypeOK, SelectTyped, JoinOK
<1>9. BuildOK'
      BY <1>1 DEF BuildOK
<1> QED  BY <1>1, <1>8, <1>9, Stays

----------------------------------------------------------------------------
LEMMA NextInv == QueryInv /\ [Next]_vars => QueryInv'
<1> SUFFICES ASSUME QueryInv, [Next]_vars PROVE QueryInv'
    OBVIOUS
<1>1. CASE Release
      BY <1>1, ReleaseInv
<1>2. ASSUME NEW o \in Objects, AddPath(o) PROVE QueryInv'
      BY <1>2, AddPathInv
<1>3. ASSUME NEW c \in Criteria, classic_get_values(c) PROVE QueryInv'
      BY <1>3, GetValuesInv
<1>4. ASSUME NEW top \in Tops, NEW order \in BOOLEAN, NEW c \in Criteria,
             get_message_idents(top, order, c)
      PROVE  QueryInv'
      BY <1>4, IdentsInv
<1>5. CASE AddSelected
      BY <1>5, AddSelectedInv
<1>6. CASE EndOfSelection
      BY <1>6, EndOfSelectionInv
<1>7. CASE classic_path_resolve_criterion
      BY <1>7, CriterionInv
<1>8. CASE RunQuery
      BY <1>8, RunQueryInv
<1>9. CASE UNCHANGED vars
  <2>1. TypeOK' /\ BuildOK'
        BY <1>9 DEF QueryInv, TypeOK, BuildOK, vars
  <2> QED  BY <1>9, <2>1, Stays DEF QueryInv, vars
<1> QED  BY <1>1, <1>2, <1>3, <1>4, <1>5, <1>6, <1>7, <1>8, <1>9 DEF Next

\* The invariant holds in every reachable state.
THEOREM QueryInvariant == Spec => []QueryInv
BY InitInv, NextInv, PTL DEF Spec

\* Every selection, query and join is well formed, and all the tables joined
\* for a query belong to the class of message it is run on
\* (classic_sql_join_new_table refuses the others).
THEOREM TypeCorrect == Spec => []TypeOK
<1>1. QueryInv => TypeOK
      BY DEF QueryInv
<1> QED  BY <1>1, QueryInvariant, PTL

----------------------------------------------------------------------------
(* Reading values. *)

\* A value is read from as many columns as its path counts.
LEMMA ValueColumns ==
    ASSUME NEW o \in Objects, NEW columns, NEW position
    PROVE  LET last == position + classic_get_path_column_count(o)
           IN  get_value(columns, o, position)
                 = IF last > Len(columns) THEN Error ELSE SubSeq(columns, position + 1, last)
<1> DEFINE typed == o.kind # "constant" /\ o.path.type \in {"time", "data"}
<1>1. ~typed => classic_get_path_column_count(o) = 1
      BY ObjectPath DEF classic_get_path_column_count, Kinds, Types
<1>2. (IF typed THEN classic_get_path_column_count(o) ELSE 1) = classic_get_path_column_count(o)
      BY <1>1
<1> QED  BY <1>2 DEF get_value

\* Positions of the selection follow one another.
LEMMA LaterStart ==
    ASSUME SelectionOK, NEW n \in 0..Len(selection), NEW i \in 1..Len(selection), n < i
    PROVE  Start(selection, numpos, n + 1) <= selection[i].position
<1>1. Positions(selection, numpos) /\ Len(selection) \in Nat
      BY DEF SelectionOK, Positions
<1>2. \A k \in 1..Len(selection) :
          selection[k].position \in Nat /\ selection[k].column_count \in 1..3
      BY <1>1, SelectedObject
<1>3. CASE i = n + 1
      BY <1>1, <1>2, <1>3 DEF Start
<1>4. CASE n + 1 < i
  <2>1. n + 1 \in 1..Len(selection)
        BY <1>1, <1>4
  <2>2. Start(selection, numpos, (n + 1) + 1) <= selection[i].position
        BY <1>1, <1>4, <2>1 DEF Positions
  <2>3. Start(selection, numpos, (n + 1) + 1)
          = selection[n + 1].position + selection[n + 1].column_count
        BY <1>1, <2>1 DEF Positions
  <2>4. Start(selection, numpos, n + 1) = selection[n + 1].position
        BY <1>1, <2>1 DEF Start
  <2> QED  BY <1>2, <2>1, <2>2, <2>3, <2>4
<1> QED  BY <1>1, <1>3, <1>4

LEMMA ReadsIt ==
    ASSUME QueryInv, Ran("values"), NEW i \in 1..Len(selection),
           i <= result.count, Aligned(i)
    PROVE  ReadsOwn(i)
<1> DEFINE o == selection[i].object
           position == selection[i].position
           count == selection[i].column_count
<1>1. /\ result.count \in 0..Len(selection) /\ Len(selection) \in Nat
      /\ Written(selection, numpos, result.columns, result.tables, result.count)
      BY DEF QueryInv, ResultOK, TypeOK
<1>2. Positions(selection, numpos)
      BY DEF QueryInv, SelectionOK
<1>3. o \in Objects /\ position \in Nat /\ count \in 1..3
      /\ count = classic_get_path_column_count(o)
      BY <1>2, SelectedObject DEF Positions
<1>4. result.columns \in Seq(Column) /\ Len(result.columns) \in Nat
      /\ InPlace(selection, result.columns, result.tables, i)
      BY <1>1 DEF Written, Counted, Aligned
<1>5. PICK t \in 0..Len(result.tables) : \A k \in 1..count :
          /\ position + k \in 1..Len(result.columns)
          /\ result.columns[position + k] = Columns(i, o, t)[k]
      BY <1>4 DEF InPlace
<1>6. Columns(i, o, t) \in Seq(Column) /\ Len(Columns(i, o, t)) = count
  <2>1. o.path \in Fields /\ i \in Nat /\ t \in Nat
        BY <1>3, ObjectPath
  <2>2. ~Miscounted(o)
        BY DEF Aligned
  <2> QED  BY <1>3, <2>1, <2>2, ColumnsTyped, NamesCounted
<1> DEFINE columns == result.columns
           own == Columns(i, o, t)
           read == SubSeq(columns, position + 1, position + count)
<1>7. position + count \in 1..Len(columns)
      BY <1>3, <1>5
<1> HIDE DEF own, o, position, count
<1>8. /\ read \in Seq(Column) /\ Len(read) = count
      /\ \A k \in 1..count : read[k] = columns[position + k]
  <2> HIDE DEF columns
  <2>1. columns \in Seq(Column) /\ position + 1 \in 1..(Len(columns) + 1)
        /\ position + count \in (position + 1)..Len(columns)
        BY <1>3, <1>4, <1>7 DEF columns
  <2>2. /\ read \in Seq(Column) /\ Len(read) = (position + count) - (position + 1) + 1
        /\ \A k \in 1..((position + count) - (position + 1) + 1) :
              read[k] = columns[(position + 1) + k - 1]
        BY <1>3, <2>1, SubSeqProperties
  <2>3. (position + count) - (position + 1) + 1 = count
        BY <1>3
  <2>4. \A k \in 1..count : (position + 1) + k - 1 = position + k
        BY <1>3
  <2> HIDE DEF read
  <2> QED  BY <2>2, <2>3, <2>4 DEF columns
<1>9. read = own
  <2>1. \A k \in 1..Len(read) : read[k] = own[k]
        BY <1>5, <1>8 DEF own
  <2> QED  BY <1>6, <1>8, <2>1, SeqEqual DEF own
<1>10. classic_get_result_values_field(i) = read
  <2>1. classic_get_result_values_field(i) = get_value(columns, o, position)
        BY DEF classic_get_result_values_field, o, position
  <2>2. ~(position + count > Len(columns))
        BY <1>3, <1>4, <1>7
  <2> QED  BY <1>3, <2>1, <2>2, ValueColumns
<1> QED  BY <1>9, <1>10 DEF ReadsOwn, own, o

LEMMA RefusesLater ==
    ASSUME QueryInv, Ran("values"), NEW i \in 1..Len(selection),
           i > result.count, Aligned(result.count)
    PROVE  classic_get_result_values_field(i) = Error
<1> DEFINE o == selection[i].object
           position == selection[i].position
<1>1. /\ result.count \in 0..Len(selection) /\ Len(selection) \in Nat
      /\ Written(selection, numpos, result.columns, result.tables, result.count)
      BY DEF QueryInv, ResultOK, TypeOK
<1>2. o \in Objects /\ position \in Nat
      BY SelectedObject DEF QueryInv, SelectionOK
<1>3. Len(result.columns) = Start(selection, numpos, result.count + 1)
      /\ Len(result.columns) \in Nat
      BY <1>1 DEF Written, Counted, Aligned
<1>4. Len(result.columns) <= position
      BY <1>1, <1>3, LaterStart DEF QueryInv
<1>5. position + classic_get_path_column_count(o) > Len(result.columns)
      BY <1>2, <1>3, <1>4, CountRange
<1> QED  BY <1>2, <1>5, ValueColumns DEF classic_get_result_values_field

\* A value is read from the columns the resolver wrote for its path, and a
\* path added after the query is refused: the positions of the selection and
\* the columns of the SELECT, counted by different code, agree, whatever the
\* paths, their order and their number, unless a time is miscounted
\* (preludedb_path_selection_add, preludedb_sql_select_add_selection,
\* classic_get_result_values_field).
THEOREM ReadsOwnColumns == Spec => []ValuesOwn
<1>1. QueryInv => ValuesOwn
  <2> SUFFICES ASSUME QueryInv, Ran("values"), NEW i \in DOMAIN selection
               PROVE  /\ i <= result.count /\ Aligned(i) => ReadsOwn(i)
                      /\ i > result.count /\ Aligned(result.count) =>
                            classic_get_result_values_field(i) = Error
      BY DEF ValuesOwn
  <2>1. i \in 1..Len(selection)
        BY DEF QueryInv, TypeOK
  <2> QED  BY <2>1, ReadsIt, RefusesLater
<1> QED  BY <1>1, QueryInvariant, PTL

----------------------------------------------------------------------------
(***************************************************************************)
(* The tables of the fields.  A field is in the first joined table that     *)
(* serves its path, and tables joined later come after it.                  *)
(***************************************************************************)
Found(tables, u) ==
    /\ u.table \in 0..Len(tables)
    /\ u.table = TopTable <=> InTop(u.path)
    /\ u.table # TopTable =>
          /\ same_table(u.path, tables[u.table])
          /\ \A t \in 1..(u.table - 1) : ~same_table(u.path, tables[t])

Uses == [path : Paths, table : Nat]
AllFound(columns, flds, tables) ==
    /\ columns \in Seq(Column) /\ flds \in Seq(Uses) /\ tables \in Seq(Fields)
    /\ \A k \in 1..Len(columns) :
          columns[k].part \notin {"constant", "ident"} => Found(tables, columns[k])
    /\ \A n \in 1..Len(flds) : Found(tables, flds[n])

TablesInv ==
    /\ AllFound(select.columns, fields, join.tables)
    /\ result # NoQuery =>
          /\ AllFound(result.columns, result.fields, result.tables)
          /\ \A t \in 1..Len(result.tables) : result.tables[t].top = result.from

Begins(tables, more) ==
    /\ Len(tables) <= Len(more) /\ \A t \in 1..Len(tables) : more[t] = tables[t]

\* Joining more tables loses no field.
LEMMA StaysFound ==
    ASSUME NEW tables \in Seq(Fields), NEW more \in Seq(Fields), Begins(tables, more),
           NEW u, Found(tables, u)
    PROVE  Found(more, u)
<1>1. Len(tables) \in Nat /\ Len(more) \in Nat /\ Len(tables) <= Len(more)
      BY DEF Begins
<1>2. u.table \in 0..Len(tables) /\ u.table \in 0..Len(more)
      BY <1>1 DEF Found
<1>3. u.table # TopTable => more[u.table] = tables[u.table]
      BY <1>1, <1>2 DEF Begins, TopTable
<1>4. \A t \in 1..(u.table - 1) : more[t] = tables[t]
      BY <1>1, <1>2 DEF Begins
<1> QED  BY <1>2, <1>3, <1>4 DEF Found

LEMMA AllStayFound ==
    ASSUME NEW columns, NEW flds, NEW tables, AllFound(columns, flds, tables),
           NEW more \in Seq(Fields), Begins(tables, more)
    PROVE  AllFound(columns, flds, more)
<1>1. tables \in Seq(Fields)
      BY DEF AllFound
<1>2. \A u : Found(tables, u) => Found(more, u)
      BY <1>1, StaysFound
<1> QED  BY <1>2 DEF AllFound

\* Whatever the tables, a path is its own table's.
LEMMA OwnTable == \A p : same_table(p, p)
BY DEF same_table

\* Resolving a path finds it, and only joins after the tables there are.
LEMMA ResolveFinds ==
    ASSUME NEW j, JoinOK(j), NEW p \in Fields, classic_path_resolve(j, p).ok
    PROVE  LET r == classic_path_resolve(j, p)
           IN  /\ Begins(j.tables, r.join.tables)
               /\ Found(r.join.tables, [path |-> p, table |-> r.table])
<1> DEFINE r == classic_path_resolve(j, p)
           u == [path |-> p, table |-> r.table]
<1>1. Len(j.tables) \in Nat /\ DOMAIN j.tables = 1..Len(j.tables) /\ j.tables \in Seq(Fields)
      BY DEF JoinOK
<1>2. u.path = p /\ u.table = r.table
      OBVIOUS
<1>3. CASE InTop(p)
  <2>1. r.join = j /\ r.table = 0
        BY <1>3 DEF classic_path_resolve, TopTable
  <2> HIDE DEF r
  <2>2. Begins(j.tables, r.join.tables)
        BY <1>1, <2>1 DEF Begins
  <2>3. Found(r.join.tables, u)
        BY <1>1, <1>3, <2>1 DEF Found, TopTable
  <2> QED  BY <2>2, <2>3 DEF r
<1>4. CASE ~InTop(p) /\ Serving(j, p) # {}
  <2> DEFINE t == classic_sql_join_lookup_table(j, p)
  <2>1. r.join = j /\ r.table = t
        BY <1>4 DEF classic_path_resolve
  <2>2. t \in Serving(j, p) /\ \A v \in Serving(j, p) : t <= v
    <3>1. Serving(j, p) \subseteq Nat
          BY <1>1 DEF Serving
    <3>2. PICK a \in Serving(j, p) : \A v \in Serving(j, p) : a <= v
          BY <1>4, <3>1, Smallest
    <3> QED  BY <3>2 DEF classic_sql_join_lookup_table
  <2>3. t \in 1..Len(j.tables) /\ same_table(p, j.tables[t])
        BY <1>1, <2>2 DEF Serving
  <2>4. \A v \in 1..(t - 1) : ~same_table(p, j.tables[v])
    <3> SUFFICES ASSUME NEW v \in 1..(t - 1) PROVE v \notin Serving(j, p)
        BY <1>1, <2>3 DEF Serving
    <3> HIDE DEF t
    <3> QED  BY <1>1, <2>2, <2>3
  <2> HIDE DEF r, t
  <2>5. Begins(j.tables, r.join.tables)
        BY <1>1, <2>1 DEF Begins
  <2>6. Found(r.join.tables, u)
        BY <1>1, <1>4, <2>1, <2>3, <2>4 DEF Found, TopTable
  <2> QED  BY <2>5, <2>6 DEF r
<1>5. CASE ~InTop(p) /\ Serving(j, p) = {}
  <2>1. /\ r.table = Len(j.tables) + 1
        /\ r.join.tables = Append(j.tables, p)
        BY <1>5 DEF classic_path_resolve, classic_sql_join_new_table
  <2> HIDE DEF r
  <2>2. /\ Len(r.join.tables) = Len(j.tables) + 1
        /\ \A t \in 1..Len(j.tables) : r.join.tables[t] = j.tables[t]
        /\ r.join.tables[Len(j.tables) + 1] = p
        BY <1>1, <2>1, AppendProperties
  <2>3. Begins(j.tables, r.join.tables)
        BY <1>1, <2>2 DEF Begins
  <2>4. \A t \in 1..Len(j.tables) : ~same_table(p, r.join.tables[t])
        BY <1>1, <1>5, <2>2 DEF Serving
  <2>5. same_table(p, r.join.tables[r.table])
        BY <2>1, <2>2, OwnTable
  <2>6. Found(r.join.tables, u)
        BY <1>1, <1>5, <2>1, <2>2, <2>4, <2>5 DEF Found, TopTable
  <2> QED  BY <2>3, <2>6 DEF r
<1> QED  BY <1>3, <1>4, <1>5

\* The columns of an object have its path, and the table it was found in; a
\* constant has neither.
LEMMA ColumnsFound ==
    ASSUME NEW o, o.path \in Fields, NEW by \in Nat, NEW t \in Nat, NEW tables,
           o.kind = "constant" \/ Found(tables, [path |-> o.path, table |-> t]),
           NEW k \in 1..Len(Columns(by, o, t))
    PROVE  LET c == Columns(by, o, t)[k]
           IN  c.part \notin {"constant", "ident"} => Found(tables, c)
<1>1. Columns(by, o, t)
        = [i \in DOMAIN PartsOf(o) |->
              [by |-> by, part |-> PartsOf(o)[i], path |-> o.path, table |-> t]]
      BY DEF Columns, PartsOf
<1>2. DOMAIN PartsOf(o) = 1..Len(PartsOf(o)) /\ Len(Columns(by, o, t)) = Len(PartsOf(o))
      BY NamesTyped, ColumnsTyped
<1>3. Columns(by, o, t)[k]
        = [by |-> by, part |-> PartsOf(o)[k], path |-> o.path, table |-> t]
      BY <1>1, <1>2
<1> DEFINE c == Columns(by, o, t)[k]
<1>4. c.part = PartsOf(o)[k] /\ c.path = o.path /\ c.table = t
      BY <1>3
<1> HIDE DEF c
<1>5. CASE o.kind = "constant"
  <2>1. PartsOf(o) = <<"constant">>
        BY <1>5 DEF PartsOf
  <2>2. k = 1
        BY <1>2, <2>1
  <2>3. c.part = "constant"
        BY <1>4, <2>1, <2>2
  <2> QED  BY <2>3 DEF c
<1>6. CASE Found(tables, [path |-> o.path, table |-> t])
  <2>1. Found(tables, c)
        BY <1>4, <1>6 DEF Found
  <2> QED  BY <2>1 DEF c
<1> QED  BY <1>5, <1>6

\* Columns added to those that were found.
LEMMA AddFound ==
    ASSUME NEW columns, NEW flds, NEW tables, AllFound(columns, flds, tables),
           NEW new \in Seq(Column),
           \A k \in 1..Len(new) :
              new[k].part \notin {"constant", "ident"} => Found(tables, new[k])
    PROVE  AllFound(columns \o new, flds, tables)
<1>1. columns \in Seq(Column) /\ Len(columns) \in Nat /\ Len(new) \in Nat
      BY DEF AllFound
<1>2. /\ columns \o new \in Seq(Column)
      /\ Len(columns \o new) = Len(columns) + Len(new)
      /\ \A k \in 1..Len(columns) + Len(new) :
            (columns \o new)[k] = IF k <= Len(columns) THEN columns[k]
                                                       ELSE new[k - Len(columns)]
      BY <1>1, ConcatProperties
<1> DEFINE both == columns \o new
<1> HIDE DEF both
<1>3. ASSUME NEW k \in 1..Len(both), both[k].part \notin {"constant", "ident"}
      PROVE  Found(tables, both[k])
  <2>1. CASE k <= Len(columns)
    <3>1. k \in 1..Len(columns) /\ both[k] = columns[k]
          BY <1>1, <1>2, <2>1 DEF both
    <3> QED  BY <1>3, <3>1 DEF AllFound
  <2>2. CASE ~(k <= Len(columns))
    <3>1. k - Len(columns) \in 1..Len(new) /\ both[k] = new[k - Len(columns)]
          BY <1>1, <1>2, <2>2 DEF both
    <3> QED  BY <1>3, <3>1
  <2> QED  BY <2>1, <2>2
<1>4. AllFound(both, flds, tables)
      BY <1>2, <1>3 DEF AllFound, both
<1> QED  BY <1>4 DEF both

\* Resolving an object: the tables it needs are joined after the others, and
\* its columns are found in them.
LEMMA ResolvedFound ==
    ASSUME NEW j, JoinOK(j), NEW o, o.path \in Fields, Resolved(j, o).ok
    PROVE  LET r == Resolved(j, o)
           IN  /\ Begins(j.tables, r.join.tables) /\ r.table \in Nat /\ JoinOK(r.join)
               /\ o.kind = "constant" \/ Found(r.join.tables, [path |-> o.path, table |-> r.table])
<1> DEFINE r == Resolved(j, o)
<1>1. Len(j.tables) \in Nat
      BY DEF JoinOK
<1>2. CASE o.kind = "constant"
  <2>1. r.join = j /\ r.table = 0
        BY <1>2 DEF Resolved, TopTable
  <2> QED  BY <1>1, <1>2, <2>1 DEF Begins
<1>3. CASE o.kind # "constant"
  <2> DEFINE p == o.path
  <2>1. r = classic_path_resolve(j, p)
        BY <1>3 DEF Resolved
  <2>2. p \in Fields
        OBVIOUS
  <2> HIDE DEF p
  <2>3. /\ Begins(j.tables, r.join.tables)
        /\ Found(r.join.tables, [path |-> p, table |-> r.table])
        BY <2>1, <2>2, ResolveFinds
  <2>4. JoinOK(r.join) /\ r.table \in 0..Len(r.join.tables)
        BY <2>1, <2>2, ResolveJoins
  <2>5. r.table \in Nat
        BY <2>4 DEF JoinOK
  <2> QED  BY <2>3, <2>4, <2>5 DEF p
<1> QED  BY <1>2, <1>3

\* The tables of a join are all of the class the SELECT is from.
LEMMA JoinFrom ==
    ASSUME NEW j, JoinOK(j), NEW t \in 1..Len(j.tables)
    PROVE  j.tables[t].top = From(j)
<1>1. j.tables[t] \in Fields /\ j.tables[t].top = j.top
      BY DEF JoinOK
<1>2. j.tables[t].top \in Tops
      BY <1>1, SelectionAssumption DEF PathsAssumption, Fields, create_time, Tops
<1> QED  BY <1>1, <1>2 DEF From, Tops

----------------------------------------------------------------------------
\* Without a query there is nothing to find.
LEMMA NoneFound == AllFound(NoSelect.columns, << >>, NoJoin.tables)
BY DEF AllFound, NoSelect, NoJoin

LEMMA TablesInit == Init => TablesInv
BY NoneFound DEF Init, TablesInv

\* A query that is begun with nothing, or given up.
LEMMA TablesEmpty ==
    ASSUME TablesInv, select' = NoSelect, join' \in [top : Tops \cup {"none"}, tables : {<< >>}],
           fields' = << >>, UNCHANGED result
    PROVE  TablesInv'
<1>1. AllFound(select'.columns, fields', join'.tables)
      BY NoneFound DEF NoJoin
<1> QED  BY <1>1 DEF TablesInv

\* Neither the query nor its result changes.
LEMMA TablesSame ==
    ASSUME TablesInv, UNCHANGED <<select, join, fields, result>>
    PROVE  TablesInv'
BY DEF TablesInv

LEMMA TablesAddSelected == QueryInv /\ TablesInv /\ AddSelected => TablesInv'
<1> SUFFICES ASSUME QueryInv, TablesInv, AddSelected PROVE TablesInv'
    OBVIOUS
<1> DEFINE s == selection[query.next]
           o == s.object
           r == Resolved(join, o)
           new == Columns(query.next, o, r.table)
<1>1. /\ query.next \in 1..Len(selection) /\ Len(selection) \in Nat
      /\ o \in Objects /\ s.column_count \in 1..3
  <2>1. query.next \in 1..Len(selection) /\ Len(selection) \in Nat
        BY DEF QueryInv, AddSelected, TypeOK, BuildOK
  <2> QED  BY <2>1, SelectedObject DEF QueryInv, SelectionOK
<1>2. JoinOK(join) /\ o.path \in Fields
      BY <1>1, ObjectPath DEF QueryInv, TypeOK, JoinOK
<1>3. CASE ~r.ok
      BY <1>3, TablesEmpty DEF AddSelected, Refuse, NoJoin
<1>4. CASE r.ok
  <2>1. /\ select' = preludedb_sql_select_add_selected(select, query.next, o,
                                                       s.column_count, r.table)
        /\ join' = r.join /\ UNCHANGED <<fields, result>>
        BY <1>4 DEF AddSelected
  <2>2. /\ Begins(join.tables, r.join.tables) /\ r.table \in Nat /\ JoinOK(r.join)
        /\ o.kind = "constant" \/ Found(r.join.tables, [path |-> o.path, table |-> r.table])
        BY <1>2, <1>4, ResolvedFound
  <2> DEFINE q == query.next
             t == r.table
             n == s.column_count
             tables == r.join.tables
  <2>3. q \in Nat /\ t \in Nat /\ n \in Nat /\ tables \in Seq(Fields)
    <3>1. q \in Nat
          BY <1>1
    <3>2. t \in Nat
          BY <2>2
    <3>3. n \in Nat
          BY <1>1
    <3>4. tables \in Seq(Fields)
      <4> HIDE DEF r
      <4> QED  BY <2>2 DEF JoinOK
    <3> QED  BY <3>1, <3>2, <3>3, <3>4
  <2>4. select \in SelectTyped
        BY DEF QueryInv, TypeOK, SelectTyped
  <2> HIDE DEF o, q, t, n, tables
  <2>5. select' = preludedb_sql_select_add_selected(select, q, o, n, t)
        BY <2>1 DEF q, t, n
  <2>6. select'.columns = select.columns \o Columns(q, o, t)
    <3>1. q \in Nat /\ t \in Nat /\ n \in Nat /\ o.path \in Fields
          BY <1>2, <2>3
    <3>2. preludedb_sql_select_add_selected(select, q, o, n, t).columns
            = select.columns \o Columns(q, o, t)
          BY ONLY <2>4, <3>1, SelectedTyped
    <3> QED  BY <2>5, <3>2
  <2>7. Columns(q, o, t) \in Seq(Column)
        BY <1>2, <2>3, ColumnsTyped
  <2>8. \A k \in 1..Len(Columns(q, o, t)) :
            Columns(q, o, t)[k].part \notin {"constant", "ident"} =>
                Found(tables, Columns(q, o, t)[k])
    <3>1. o.kind = "constant" \/ Found(tables, [path |-> o.path, table |-> t])
          BY <2>2 DEF tables, t
    <3> QED  BY <1>2, <2>3, <3>1, ColumnsFound
  <2>9. AllFound(select.columns, fields, tables)
    <3>1. AllFound(select.columns, fields, join.tables) /\ Begins(join.tables, tables)
          BY <2>2 DEF TablesInv, tables
    <3> QED  BY <2>3, <3>1, AllStayFound
  <2>10. AllFound(select.columns \o Columns(q, o, t), fields, tables)
         BY <2>7, <2>8, <2>9, AddFound
  <2>11. AllFound(select'.columns, fields', join'.tables)
         BY <2>1, <2>6, <2>10 DEF tables
  <2> QED  BY <2>1, <2>11 DEF TablesInv
<1> QED  BY <1>3, <1>4

LEMMA TablesCriterion == QueryInv /\ TablesInv /\ classic_path_resolve_criterion => TablesInv'
<1> SUFFICES ASSUME QueryInv, TablesInv, classic_path_resolve_criterion PROVE TablesInv'
    OBVIOUS
<1> DEFINE p == query.criteria[query.next].path
           r == classic_path_resolve(join, p)
           u == [path |-> p, table |-> r.table]
<1>1. query.criteria \in Criteria /\ query.next \in DOMAIN query.criteria
  <2>1. query.criteria \in Criteria \cup {<< >>} /\ query.next \in Nat \ {0}
        /\ query.next <= Len(query.criteria)
        BY DEF QueryInv, TypeOK, BuildOK, classic_path_resolve_criterion
  <2>2. query.criteria # << >>
        BY <2>1
  <2> QED  BY <2>1, <2>2, CriterionPaths
<1>2. p \in Paths /\ p \in Fields
      BY <1>1, CriterionPaths DEF Fields
<1>3. JoinOK(join)
      BY DEF QueryInv, TypeOK, JoinOK
<1>4. CASE ~r.ok
      BY <1>4, TablesEmpty DEF classic_path_resolve_criterion, Refuse, NoJoin
<1>5. CASE r.ok
  <2>1. /\ fields' = Append(fields, u) /\ join' = r.join /\ UNCHANGED <<select, result>>
        BY <1>5 DEF classic_path_resolve_criterion
  <2> HIDE DEF p
  <2>2. /\ Begins(join.tables, r.join.tables) /\ Found(r.join.tables, u)
        /\ JoinOK(r.join) /\ r.table \in 0..Len(r.join.tables)
        BY <1>2, <1>3, <1>5, ResolveFinds, ResolveJoins
  <2> DEFINE tables == r.join.tables
  <2>3. tables \in Seq(Fields) /\ u \in Uses
        BY <1>2, <2>2 DEF JoinOK, Uses
  <2>4. AllFound(select.columns, fields, tables)
    <3>1. AllFound(select.columns, fields, join.tables)
          BY DEF TablesInv
    <3> QED  BY <2>2, <2>3, <3>1, AllStayFound
  <2> HIDE DEF tables, u
  <2>5. fields \in Seq(Uses) /\ Len(fields) \in Nat
        BY <2>4 DEF AllFound
  <2>6. /\ fields' \in Seq(Uses) /\ Len(fields') = Len(fields) + 1
        /\ \A n \in 1..Len(fields) : fields'[n] = fields[n]
        /\ fields'[Len(fields) + 1] = u
        BY <2>1, <2>3, <2>5, AppendProperties
  <2>7. \A n \in 1..Len(fields') : Found(tables, fields'[n])
    <3>1. ASSUME NEW n \in 1..Len(fields') PROVE Found(tables, fields'[n])
      <4>1. CASE n \in 1..Len(fields)
            BY <2>4, <2>6, <4>1 DEF AllFound
      <4>2. CASE n = Len(fields) + 1
            BY <2>2, <2>6, <4>2 DEF tables
      <4> QED  BY <2>5, <2>6, <4>1, <4>2
    <3> QED  BY <3>1
  <2>8. AllFound(select.columns, fields', tables)
        BY <2>4, <2>6, <2>7 DEF AllFound
  <2> QED  BY <2>1, <2>8 DEF TablesInv, tables
<1> QED  BY <1>4, <1>5

LEMMA TablesIdents ==
    ASSUME TablesInv, NEW top \in Tops, NEW order \in BOOLEAN, NEW c \in Criteria,
           get_message_idents(top, order, c)
    PROVE  TablesInv'
<1> DEFINE o == create_time(top)
           p == o.path
           j == [NoJoin EXCEPT !.top = top]
           r == classic_path_resolve(j, p)
           column == [by |-> 0, part |-> "ident", path |-> p, table |-> TopTable]
           ident == [NoSelect EXCEPT !.columns = <<column>>, !.field_count = 1]
           both == preludedb_sql_select_add_selected(ident, 1, o, 1, r.table)
<1>1. /\ fields' = << >> /\ UNCHANGED result
      /\ \/ select' = ident /\ join' = j
         \/ select' = both /\ join' = r.join
      BY DEF get_message_idents, Begin
<1>2. /\ p \in Fields /\ o.kind = "path" /\ p.top = top
      /\ j = [top |-> top, tables |-> << >>] /\ o.path = p
  <2>1. p \in Fields
        BY DEF Fields
  <2>2. o.kind = "path" /\ p.top = top
        BY DEF create_time
  <2>3. j = [top |-> top, tables |-> << >>]
        BY DEF NoJoin
  <2> QED  BY <2>1, <2>2, <2>3
<1> HIDE DEF o, p
<1>3. JoinOK(j) /\ r.ok
  <2>1. JoinOK([top |-> top, tables |-> << >>])
        BY DEF JoinOK
  <2>2. ~conflicting(j, p)
        BY <1>2 DEF conflicting
  <2>3. r.ok
        BY <2>2 DEF classic_path_resolve
  <2> HIDE DEF j, r
  <2> QED  BY <1>2, <2>1, <2>3
<1>4. column \in Column
      BY <1>2 DEF Column, TopTable
<1>5. AllFound(<<column>>, << >>, << >>)
  <2>1. column.part = "ident"
        OBVIOUS
  <2> HIDE DEF column
  <2>2. <<column>> \in Seq(Column) /\ Len(<<column>>) = 1 /\ <<column>>[1] = column
        BY <1>4
  <2> DEFINE one == <<column>>
  <2> HIDE DEF one
  <2>3. \A k \in 1..Len(one) : one[k].part = "ident"
        BY <2>1, <2>2 DEF one
  <2>4. AllFound(one, << >>, << >>)
        BY <2>2, <2>3 DEF AllFound, one
  <2> QED  BY <2>4 DEF one
<1> HIDE DEF column
<1>6. ident \in SelectTyped /\ ident.columns = <<column>>
  <2> DEFINE one == <<column>>
  <2>1. one \in Seq(Column)
        BY <1>4
  <2> HIDE DEF one
  <2>2. NoSelect \in SelectTyped
        BY DEF NoSelect, SelectTyped
  <2>3. LET s == [NoSelect EXCEPT !.columns = one, !.field_count = 1]
        IN  s \in SelectTyped /\ s.columns = one
        BY <2>1, <2>2 DEF SelectTyped
  <2> QED  BY <2>3 DEF one
<1> HIDE DEF ident
<1>7. CASE select' = ident /\ join' = j
  <2>1. AllFound(select'.columns, fields', join'.tables)
        BY <1>1, <1>2, <1>5, <1>6, <1>7
  <2> QED  BY <1>1, <2>1 DEF TablesInv
<1>8. CASE select' = both /\ join' = r.join
  <2> DEFINE t == r.table
             tables == r.join.tables
  <2>1. /\ Begins(j.tables, tables) /\ Found(tables, [path |-> p, table |-> t])
        /\ JoinOK(r.join) /\ t \in 0..Len(tables)
        BY <1>2, <1>3, ResolveFinds, ResolveJoins
  <2>2. t \in Nat /\ tables \in Seq(Fields)
        BY <2>1 DEF JoinOK
  <2>3. both = preludedb_sql_select_add_selected(ident, 1, o, 1, t)
        OBVIOUS
  <2> HIDE DEF t, tables, both, r, j
  <2>4. both.columns = <<column>> \o Columns(1, o, t)
    <3>1. ident \in SelectTyped /\ 1 \in Nat /\ o.path \in Fields /\ t \in Nat
          BY <1>2, <1>6, <2>2
    <3>2. preludedb_sql_select_add_selected(ident, 1, o, 1, t).columns
            = ident.columns \o Columns(1, o, t)
          BY <3>1, SelectedTyped
    <3> QED  BY <1>6, <2>3, <3>2
  <2>5. Columns(1, o, t) \in Seq(Column)
        BY <1>2, <2>2, ColumnsTyped
  <2>6. \A k \in 1..Len(Columns(1, o, t)) :
            Columns(1, o, t)[k].part \notin {"constant", "ident"} =>
                Found(tables, Columns(1, o, t)[k])
        BY <1>2, <2>1, <2>2, ColumnsFound
  <2>7. AllFound(<<column>>, << >>, tables)
        BY <1>2, <1>5, <2>1, <2>2, AllStayFound
  <2>8. AllFound(<<column>> \o Columns(1, o, t), << >>, tables)
        BY <2>5, <2>6, <2>7, AddFound
  <2>9. AllFound(select'.columns, fields', join'.tables)
        BY <1>1, <1>8, <2>4, <2>8 DEF tables
  <2> QED  BY <1>1, <2>9 DEF TablesInv
<1> QED  BY <1>1, <1>7, <1>8

LEMMA TablesRun == QueryInv /\ TablesInv /\ RunQuery => TablesInv'
<1> SUFFICES ASSUME QueryInv, TablesInv, RunQuery PROVE TablesInv'
    OBVIOUS
<1>1. /\ result'.columns = select.columns /\ result'.fields = fields
      /\ result'.tables = join.tables /\ result'.from = From(join)
      /\ select' = NoSelect /\ join' = NoJoin /\ fields' = << >>
      BY DEF RunQuery
<1>2. AllFound(result'.columns, result'.fields, result'.tables)
      BY <1>1 DEF TablesInv
<1>3. JoinOK(join)
      BY DEF QueryInv, TypeOK, JoinOK
<1>4. \A t \in 1..Len(result'.tables) : result'.tables[t].top = result'.from
      BY <1>1, <1>3, JoinFrom
<1> QED  BY <1>1, <1>2, <1>4, NoneFound DEF TablesInv

LEMMA TablesNext == QueryInv /\ TablesInv /\ [Next]_vars => TablesInv'
<1> SUFFICES ASSUME QueryInv, TablesInv, [Next]_vars PROVE TablesInv'
    OBVIOUS
<1>1. CASE Release
      BY <1>1 DEF Release, TablesInv
<1>2. ASSUME NEW o \in Objects, AddPath(o) PROVE TablesInv'
      BY <1>2, TablesSame DEF AddPath
<1>3. ASSUME NEW c \in Criteria, classic_get_values(c) PROVE TablesInv'
      BY <1>3, TablesEmpty DEF classic_get_values, Begin, NoJoin
<1>4. ASSUME NEW top \in Tops, NEW order \in BOOLEAN, NEW c \in Criteria,
             get_message_idents(top, order, c)
      PROVE  TablesInv'
      BY <1>4, TablesIdents
<1>5. CASE AddSelected
      BY <1>5, TablesAddSelected
<1>6. CASE EndOfSelection
      BY <1>6, TablesSame DEF EndOfSelection
<1>7. CASE classic_path_resolve_criterion
      BY <1>7, TablesCriterion
<1>8. CASE RunQuery
      BY <1>8, TablesRun
<1>9. CASE UNCHANGED vars
      BY <1>9, TablesSame DEF vars
<1> QED  BY <1>1, <1>2, <1>3, <1>4, <1>5, <1>6, <1>7, <1>8, <1>9 DEF Next

LEMMA TablesInvariant == Spec => []TablesInv
BY QueryInvariant, TablesInit, TablesNext, PTL DEF Spec

\* What a query used was found.
LEMMA UsedFound ==
    ASSUME TablesInv, result # NoQuery, NEW u \in Used
    PROVE  u.path \in Fields /\ Found(result.tables, u) /\ result.tables \in Seq(Fields)
<1>1. /\ result.columns \in Seq(Column) /\ result.fields \in Seq(Uses)
      /\ result.tables \in Seq(Fields)
      /\ \A k \in 1..Len(result.columns) :
            result.columns[k].part \notin {"constant", "ident"} =>
                Found(result.tables, result.columns[k])
      /\ \A n \in 1..Len(result.fields) : Found(result.tables, result.fields[n])
      BY DEF TablesInv, AllFound
<1>2. CASE \E k \in DOMAIN result.columns :
              /\ result.columns[k].part \notin {"constant", "ident"}
              /\ u = [path |-> result.columns[k].path, table |-> result.columns[k].table]
  <2>1. PICK k \in 1..Len(result.columns) :
              /\ result.columns[k].part \notin {"constant", "ident"}
              /\ u = [path |-> result.columns[k].path, table |-> result.columns[k].table]
        BY <1>1, <1>2
  <2>2. result.columns[k] \in Column
        BY <1>1, ElementOfSeq
  <2>3. u.path = result.columns[k].path /\ u.table = result.columns[k].table
        BY <2>1
  <2>4. u.path \in Fields
        BY <2>2, <2>3 DEF Column
  <2>5. Found(result.tables, u)
        BY <1>1, <2>1, <2>3 DEF Found
  <2> QED  BY <1>1, <2>4, <2>5
<1>3. CASE \E n \in DOMAIN result.fields : u = result.fields[n]
  <2>1. PICK n \in 1..Len(result.fields) : u = result.fields[n]
        BY <1>1, <1>3
  <2>2. result.fields[n] \in Uses
        BY <1>1, ElementOfSeq
  <2> QED  BY <1>1, <2>1, <2>2 DEF Uses, Fields
<1> QED  BY <1>2, <1>3 DEF Used

\* A field that shares its table with others of its object is a path of
\* libprelude, and a path of the same depth and class as they are.
LEMMA SharedField ==
    ASSUME NEW p \in Fields, NEW q \in Fields, ~Alone(p), p.parent = q.parent
    PROVE  /\ p \in Paths
           /\ ~InTop(p) => p.depth # 2 /\ p.class \notin Tops
           /\ q.depth # 2 \/ q \in Paths => <<q.depth, q.class>> = <<p.depth, p.class>>
<1>1. p \in Paths
      BY DEF Fields, Alone, create_time, Tops
<1>2. PathsAssumption
      BY SelectionAssumption
<1>3. /\ p.depth = 2 <=> p.class \in Tops
      /\ p.top \in Tops /\ p.listed \in BOOLEAN
      BY <1>1, <1>2 DEF PathsAssumption
<1>4. ~InTop(p) => p.depth # 2 /\ p.class \notin Tops
      BY <1>3 DEF InTop, Alone, Tops
<1>5. CASE q \in Paths
  <2>1. <<p.top, p.class, p.depth>> = <<q.top, q.class, q.depth>>
        BY <1>1, <1>2, <1>5 DEF PathsAssumption
  <2> QED  BY <1>1, <1>4, <2>1
<1>6. q \notin Paths => q.depth = 2
      BY DEF Fields, create_time
<1> QED  BY <1>1, <1>4, <1>5, <1>6

\* Two fields found in the same tables, neither alone in its table, and of one
\* object, are in the same one.
LEMMA SameTable ==
    ASSUME NEW tables \in Seq(Fields), NEW u, NEW v, u.path \in Fields, v.path \in Fields,
           Found(tables, u), Found(tables, v), u.path.parent = v.path.parent,
           ~Alone(u.path), ~Alone(v.path)
    PROVE  u.table = v.table
<1>1. u.path \in Paths /\ v.path \in Paths
      BY SharedField
<1>2. <<u.path.depth, u.path.class>> = <<v.path.depth, v.path.class>>
      BY <1>1, SharedField
<1>3. \A t : same_table(u.path, t) <=> same_table(v.path, t)
      BY <1>2 DEF same_table, Alone
<1>4. CASE InTop(u.path)
  <2>1. InTop(v.path)
        BY <1>1, <1>2, <1>4, SharedField DEF InTop
  <2> QED  BY <1>4, <2>1 DEF Found
<1>5. CASE ~InTop(u.path)
  <2>1. u.path.depth # 2
        BY <1>5, SharedField
  <2>2. ~InTop(v.path)
        BY <1>2, <2>1 DEF InTop
  <2>3. u.table \in 1..Len(tables) /\ v.table \in 1..Len(tables) /\ Len(tables) \in Nat
        BY <1>5, <2>2 DEF Found, TopTable
  <2>4. ~(u.table < v.table)
    <3>1. u.table < v.table => u.table \in 1..(v.table - 1)
          BY <2>3
    <3> QED  BY <1>3, <1>5, <2>2, <3>1 DEF Found
  <2>5. ~(v.table < u.table)
    <3>1. v.table < u.table => v.table \in 1..(u.table - 1)
          BY <2>3
    <3> QED  BY <1>3, <1>5, <2>2, <3>1 DEF Found
  <2> QED  BY <2>3, <2>4, <2>5
<1> QED  BY <1>4, <1>5

\* The table a field was found in is of its object and has it, unless a list
\* was joined before.
LEMMA RightTable ==
    ASSUME NEW p \in Fields, NEW t \in Fields, ~InTop(p), same_table(p, t),
           ~(t.listed /\ ~p.listed /\ t.parent = p.parent)
    PROVE  t.parent = p.parent /\ resolve_table_name(t) = resolve_table_name(p)
<1>1. CASE Alone(p)
      BY <1>1 DEF same_table, Alone
<1>2. CASE ~Alone(p)
  <2>1. t.parent = p.parent /\ t.depth = p.depth /\ ~p.listed
        BY <1>2 DEF same_table, Alone
  <2>2. p.depth # 2 /\ p.class \notin Tops
        BY <1>2, <2>1, SharedField
  <2>3. t.class = p.class
        BY <1>2, <2>1, <2>2, SharedField
  <2>4. ~t.listed
        BY <2>1
  <2> QED  BY <2>1, <2>2, <2>3, <2>4 DEF resolve_table_name
<1> QED  BY <1>1, <1>2

\* Every field of a query, whatever was selected and filtered before it, is
\* taken from a table that has it, of its object and of the class of message
\* the query is run on, and two fields of one object from the same row, save
\* in the two cases the property names (classic_path_resolve,
\* classic_sql_join_lookup_table, classic_sql_join_new_table).
THEOREM FieldsHaveTables == Spec => []TablesRight
<1>1. TablesInv => TablesRight
  <2> SUFFICES ASSUME TablesInv, result # NoQuery, NEW u \in Used
               PROVE  /\ u.table = TopTable => InTop(u.path)
                      /\ u.table # TopTable /\ ~ListBefore(u) =>
                            LET t == result.tables[u.table]
                            IN  /\ t.top = result.from /\ t.parent = u.path.parent
                                /\ resolve_table_name(t) = resolve_table_name(u.path)
                      /\ \A v \in Used : u.path.parent = v.path.parent /\ ~Alone(u.path)
                                           /\ ~Alone(v.path) => u.table = v.table
      BY DEF TablesRight
  <2>1. u.path \in Fields /\ Found(result.tables, u) /\ result.tables \in Seq(Fields)
        BY UsedFound
  <2>2. u.table = TopTable => InTop(u.path)
        BY <2>1 DEF Found
  <2>3. ASSUME u.table # TopTable, ~ListBefore(u)
        PROVE  LET t == result.tables[u.table]
               IN  /\ t.top = result.from /\ t.parent = u.path.parent
                   /\ resolve_table_name(t) = resolve_table_name(u.path)
    <3> DEFINE t == result.tables[u.table]
    <3>1. u.table \in 1..Len(result.tables) /\ u.table \in 1..u.table
          BY <2>1, <2>3 DEF Found, TopTable
    <3>2. t \in Fields /\ t.top = result.from
          BY <2>1, <3>1, ElementOfSeq DEF TablesInv
    <3>3. ~InTop(u.path) /\ same_table(u.path, t)
          BY <2>1, <2>3 DEF Found
    <3>4. ~(t.listed /\ ~u.path.listed /\ t.parent = u.path.parent)
          BY <2>3, <3>1 DEF ListBefore
    <3> HIDE DEF t
    <3>5. t.parent = u.path.parent /\ resolve_table_name(t) = resolve_table_name(u.path)
          BY <2>1, <3>2, <3>3, <3>4, RightTable
    <3>6. t.top = result.from
          BY <3>2
    <3> QED  BY <3>5, <3>6 DEF t
  <2>4. ASSUME NEW v \in Used, u.path.parent = v.path.parent, ~Alone(u.path), ~Alone(v.path)
        PROVE  u.table = v.table
    <3>1. v.path \in Fields /\ Found(result.tables, v)
          BY UsedFound
    <3> QED  BY <2>1, <2>4, <3>1, SameTable
  <2> QED  BY <2>2, <2>3, <2>4
<1> QED  BY <1>1, TablesInvariant, PTL

----------------------------------------------------------------------------
(***************************************************************************)
(* GROUP BY and ORDER BY.  Columns are numbered by the count of the SELECT, *)
(* kept apart from its columns.                                             *)
(***************************************************************************)
\* The numbers are of columns written for members of wanted, and all their
\* values are numbered.
Right(columns, numbers, wanted) ==
    /\ \A k \in 1..Len(numbers) :
          numbers[k] \in 1..Len(columns) /\ columns[numbers[k]].by \in wanted
    /\ \A k \in 1..Len(columns) :
          columns[k].by \in wanted /\ columns[k].part = "value" =>
              \E m \in 1..Len(numbers) : numbers[m] = k

\* The objects of sel, or the time of a query for idents, that ask for flag.
Asking(kind, sel, n, flag) ==
    IF kind = "idents" THEN {i \in {1} : flag = "order"}
                       ELSE {i \in 1..n : flag \in sel[i].object.flags}

OptionsOK(kind, sel, n, s) ==
    /\ s.columns \in Seq(Column) /\ s.group_by \in Seq(Nat) /\ s.order_by \in Seq(Nat)
    /\ kind # "idents" => \A k \in 1..Len(s.columns) : s.columns[k].by \in 1..n
    /\ Right(s.columns, s.group_by, Asking(kind, sel, n, "group"))
    /\ Right(s.columns, s.order_by, Asking(kind, sel, n, "order"))

OptionsInv ==
    /\ query.step = "select" /\ Counted(selection, query.next - 1) =>
          /\ select.field_count = Len(select.columns)
          /\ OptionsOK("values", selection, Len(selection), select)
    /\ query.step = "where" /\ (query.kind = "idents" \/ Counted(selection, Len(selection))) =>
          OptionsOK(query.kind, selection, Len(selection), select)
    /\ result # NoQuery => result.kind \in {"values", "idents"}
    /\ result # NoQuery /\ (result.kind = "idents" \/ Counted(selection, result.count)) =>
          OptionsOK(result.kind, selection, result.count, result)

LEMMA NumbersAre ==
    ASSUME NEW first \in Nat, NEW n \in Nat
    PROVE  /\ Numbers(first, n) \in Seq(Nat) /\ Len(Numbers(first, n)) = n
           /\ \A k \in 1..n : Numbers(first, n)[k] = first + k
BY DEF Numbers

\* The columns of an object that asks are numbered after the others.
LEMMA NumbersAdded ==
    ASSUME NEW columns \in Seq(Column), NEW numbers \in Seq(Nat), NEW wanted,
           Right(columns, numbers, wanted),
           NEW new \in Seq(Column), NEW by \in wanted, \A k \in 1..Len(new) : new[k].by = by
    PROVE  Right(columns \o new, numbers \o Numbers(Len(columns), Len(new)), wanted)
<1> DEFINE L == Len(columns)
           N == Len(new)
           M == Len(numbers)
           more == Numbers(L, N)
           both == columns \o new
           all == numbers \o more
<1>1. L \in Nat /\ N \in Nat /\ M \in Nat
      OBVIOUS
<1>2. more \in Seq(Nat) /\ Len(more) = N /\ \A k \in 1..N : more[k] = L + k
      BY <1>1, NumbersAre
<1> HIDE DEF more
<1>3. /\ Len(both) = L + N
      /\ \A k \in 1..L + N : both[k] = IF k <= L THEN columns[k] ELSE new[k - L]
      BY ConcatProperties
<1>4. /\ Len(all) = M + N
      /\ \A k \in 1..M + N : all[k] = IF k <= M THEN numbers[k] ELSE more[k - M]
  <2>1. more \in Seq(Nat)
        BY <1>2
  <2>2. /\ Len(all) = M + Len(more)
        /\ \A k \in 1..M + Len(more) : all[k] = IF k <= M THEN numbers[k] ELSE more[k - M]
        BY ONLY numbers \in Seq(Nat), <2>1, ConcatProperties
  <2> HIDE DEF all, M, N
  <2> QED  BY <1>2, <2>2
<1> HIDE DEF L, N, M, both, all
<1>5. ASSUME NEW k \in 1..Len(all)
      PROVE  all[k] \in 1..Len(both) /\ both[all[k]].by \in wanted
  <2>1. CASE k <= M
    <3>1. all[k] = numbers[k] /\ k \in 1..M
          BY <1>1, <1>4, <2>1
    <3>2. numbers[k] \in 1..L /\ columns[numbers[k]].by \in wanted
          BY <3>1 DEF Right, L, M
    <3>3. both[numbers[k]] = columns[numbers[k]] /\ numbers[k] \in 1..Len(both)
          BY <1>1, <1>3, <3>2
    <3> QED  BY <3>1, <3>2, <3>3
  <2>2. CASE ~(k <= M)
    <3>1. k - M \in 1..N /\ all[k] = L + (k - M)
          BY <1>1, <1>2, <1>4, <2>2
    <3>2. both[L + (k - M)] = new[k - M] /\ L + (k - M) \in 1..Len(both)
      <4>1. L + (k - M) \in 1..(L + N) /\ ~(L + (k - M) <= L) /\ (L + (k - M)) - L = k - M
            BY <1>1, <3>1
      <4> QED  BY <1>3, <4>1
    <3> QED  BY <3>1, <3>2 DEF N
  <2> QED  BY <2>1, <2>2
<1>6. ASSUME NEW k \in 1..Len(both), both[k].by \in wanted, both[k].part = "value"
      PROVE  \E m \in 1..Len(all) : all[m] = k
  <2>1. CASE k <= L
    <3>1. both[k] = columns[k] /\ k \in 1..L
          BY <1>1, <1>3, <2>1
    <3>2. PICK m \in 1..M : numbers[m] = k
          BY <1>6, <3>1 DEF Right, L, M
    <3>3. m \in 1..Len(all) /\ all[m] = k
          BY <1>1, <1>4, <3>2
    <3> QED  BY <3>3
  <2>2. CASE ~(k <= L)
    <3> DEFINE m == M + (k - L)
    <3>1. m \in 1..Len(all) /\ ~(m <= M) /\ m - M = k - L /\ k - L \in 1..N
          BY <1>1, <1>3, <1>4, <2>2
    <3>2. all[m] = L + (k - L)
          BY <1>2, <1>4, <3>1
    <3>3. all[m] = k
          BY <1>1, <1>3, <3>2
    <3> QED  BY <3>1, <3>3
  <2> QED  BY <2>1, <2>2
<1>7. Right(both, all, wanted)
      BY <1>5, <1>6 DEF Right
<1> QED  BY <1>7 DEF both, all, more, L, N

\* Those of another are not.
LEMMA NumbersKept ==
    ASSUME NEW columns \in Seq(Column), NEW numbers \in Seq(Nat), NEW wanted,
           Right(columns, numbers, wanted),
           NEW new \in Seq(Column), NEW by, by \notin wanted, \A k \in 1..Len(new) : new[k].by = by
    PROVE  Right(columns \o new, numbers, wanted)
<1> DEFINE L == Len(columns)
           N == Len(new)
           both == columns \o new
<1>1. L \in Nat /\ N \in Nat
      OBVIOUS
<1>2. /\ Len(both) = L + N
      /\ \A k \in 1..L + N : both[k] = IF k <= L THEN columns[k] ELSE new[k - L]
      BY ConcatProperties
<1> HIDE DEF L, N, both
<1>3. ASSUME NEW k \in 1..Len(numbers)
      PROVE  numbers[k] \in 1..Len(both) /\ both[numbers[k]].by \in wanted
  <2>1. numbers[k] \in 1..L /\ columns[numbers[k]].by \in wanted
        BY DEF Right, L
  <2> QED  BY <1>1, <1>2, <2>1
<1>4. ASSUME NEW k \in 1..Len(both), both[k].by \in wanted, both[k].part = "value"
      PROVE  \E m \in 1..Len(numbers) : numbers[m] = k
  <2>1. CASE k <= L
    <3>1. both[k] = columns[k] /\ k \in 1..L
          BY <1>1, <1>2, <2>1
    <3> QED  BY <1>4, <3>1 DEF Right, L
  <2>2. CASE ~(k <= L)
    <3>1. k - L \in 1..N /\ both[k] = new[k - L]
          BY <1>1, <1>2, <2>2
    <3>2. both[k].by = by
          BY <3>1 DEF N
    <3> QED  BY <1>4, <3>2
  <2> QED  BY <2>1, <2>2
<1>5. Right(both, numbers, wanted)
      BY <1>3, <1>4 DEF Right
<1> QED  BY <1>5 DEF both

\* The columns of an object are all written for it.
LEMMA ColumnsBy ==
    ASSUME NEW o, o.path \in Fields, NEW by \in Nat, NEW t \in Nat
    PROVE  \A k \in 1..Len(Columns(by, o, t)) :
              /\ Columns(by, o, t)[k].by = by
              /\ Columns(by, o, t)[k].part = PartsOf(o)[k]
<1>1. Columns(by, o, t)
        = [i \in DOMAIN PartsOf(o) |->
              [by |-> by, part |-> PartsOf(o)[i], path |-> o.path, table |-> t]]
      BY DEF Columns, PartsOf
<1>2. DOMAIN PartsOf(o) = 1..Len(PartsOf(o)) /\ Len(Columns(by, o, t)) = Len(PartsOf(o))
      BY NamesTyped, ColumnsTyped
<1>3. ASSUME NEW k \in 1..Len(Columns(by, o, t))
      PROVE  /\ Columns(by, o, t)[k].by = by
             /\ Columns(by, o, t)[k].part = PartsOf(o)[k]
  <2>1. Columns(by, o, t)[k]
          = [by |-> by, part |-> PartsOf(o)[k], path |-> o.path, table |-> t]
        BY <1>1, <1>2
  <2> QED  BY <2>1
<1> QED  BY <1>3

\* The options of an object, over the count the SELECT had.
LEMMA OptionsAre ==
    ASSUME NEW s \in SelectTyped, NEW by \in Nat, NEW o, o.path \in Fields,
           NEW count \in Nat, NEW table \in Nat
    PROVE  LET r == preludedb_sql_select_add_selected(s, by, o, count, table)
               new == Numbers(s.field_count, count)
           IN  /\ r.field_count = s.field_count + count
               /\ r.group_by = IF "group" \in o.flags THEN s.group_by \o new ELSE s.group_by
               /\ r.order_by = IF "order" \in o.flags THEN s.order_by \o new ELSE s.order_by
<1> DEFINE columns == s.columns \o Columns(by, o, table)
           w == [s EXCEPT !.columns = columns]
           new == Numbers(s.field_count, count)
           group == IF "group" \in o.flags THEN s.group_by \o new ELSE s.group_by
           order == IF "order" \in o.flags THEN s.order_by \o new ELSE s.order_by
           total == s.field_count + count
<1>1. /\ w.field_count = s.field_count /\ w.group_by = s.group_by /\ w.order_by = s.order_by
      /\ w \in [columns : {columns}, field_count : Nat, group_by : Seq(Nat), order_by : Seq(Nat)]
  <2> HIDE DEF columns
  <2> QED  BY DEF SelectTyped
<1>2. preludedb_sql_select_add_selected(s, by, o, count, table)
        = sql_select_add_options(w, count, o.flags)
      BY DEF preludedb_sql_select_add_selected
<1>3. sql_select_add_options(w, count, o.flags)
        = [w EXCEPT !.field_count = total, !.group_by = group, !.order_by = order]
  <2> HIDE DEF w, columns
  <2> QED  BY <1>1 DEF sql_select_add_options
<1> HIDE DEF w, group, order, total, columns
<1>4. LET r == [w EXCEPT !.field_count = total, !.group_by = group, !.order_by = order]
      IN  r.field_count = total /\ r.group_by = group /\ r.order_by = order
      BY <1>1
<1> QED  BY <1>2, <1>3, <1>4 DEF total, group, order

LEMMA OptionsInit == Init => OptionsInv
BY DEF Init, OptionsInv, NoBuild

\* A query that is over, or that changes only where fields are found.
LEMMA OptionsIdle ==
    ASSUME OptionsInv, query'.step = "idle", UNCHANGED <<selection, result>>
    PROVE  OptionsInv'
BY DEF OptionsInv

LEMMA OptionsSame ==
    ASSUME OptionsInv, UNCHANGED <<selection, select, result>>,
           query'.step = query.step, query'.kind = query.kind,
           query.step # "select" \/ query'.next = query.next
    PROVE  OptionsInv'
BY DEF OptionsInv

\* Nothing selected, nothing asked for.
LEMMA OptionsNone == \A sel : OptionsOK("values", sel, Len(sel), NoSelect)
BY DEF OptionsOK, NoSelect, Right

LEMMA OptionsGetValues ==
    ASSUME OptionsInv, NEW c \in Criteria, classic_get_values(c) PROVE OptionsInv'
<1>1. /\ query'.step = "select" /\ select' = NoSelect /\ UNCHANGED <<selection, result>>
      BY DEF classic_get_values, Begin
<1>2. select'.field_count = Len(select'.columns)
      BY <1>1 DEF NoSelect
<1> QED  BY <1>1, <1>2, OptionsNone DEF OptionsInv

LEMMA OptionsRun == QueryInv /\ OptionsInv /\ RunQuery => OptionsInv'
<1> SUFFICES ASSUME QueryInv, OptionsInv, RunQuery PROVE OptionsInv'
    OBVIOUS
<1>1. /\ result'.columns = select.columns /\ result'.group_by = select.group_by
      /\ result'.order_by = select.order_by /\ result'.kind = query.kind
      /\ result'.count = Len(selection) /\ query'.step = "idle" /\ query.step = "where"
      /\ selection' = selection /\ query.kind \in {"values", "idents"}
      BY DEF RunQuery, NoBuild, QueryInv, TypeOK
<1> QED  BY <1>1 DEF OptionsInv, OptionsOK

\* A path added to the selection asks for nothing of the last query.
LEMMA OptionsAddPath ==
    ASSUME QueryInv, OptionsInv, NEW o \in Objects, AddPath(o) PROVE OptionsInv'
<1>1. path_selection_add(o) /\ UNCHANGED <<query, select, result>> /\ query.step = "idle"
      BY DEF AddPath, Idle
<1>2. \A i \in 1..Len(selection) : selection'[i] = selection[i]
      BY <1>1, AddExtends DEF QueryInv
<1>3. CASE result # NoQuery /\ result.kind = "idents"
  <2>1. \A flag : Asking(result.kind, selection', result.count, flag)
                    = Asking(result.kind, selection, result.count, flag)
        BY <1>3 DEF Asking
  <2>2. OptionsOK(result.kind, selection, result.count, result)
        BY <1>3 DEF OptionsInv
  <2> QED  BY <1>1, <1>3, <2>1, <2>2 DEF OptionsInv, OptionsOK
<1>4. CASE result # NoQuery /\ Ran("values")
  <2>1. result.count \in 0..Len(selection) /\ Len(selection) \in Nat
        BY <1>4 DEF QueryInv, ResultOK, TypeOK
  <2>2. \A flag : Asking("values", selection', result.count, flag)
                    = Asking("values", selection, result.count, flag)
        BY <1>2, <2>1 DEF Asking
  <2>3. Counted(selection', result.count) <=> Counted(selection, result.count)
        BY <1>2, <2>1 DEF Counted
  <2> QED  BY <1>1, <1>4, <2>2, <2>3 DEF OptionsInv, OptionsOK, Ran
<1> QED  BY <1>1, <1>3, <1>4 DEF OptionsInv, Ran

\* An object that is counted as it is written leaves the options right.
LEMMA OptionsAdded ==
    ASSUME NEW s \in SelectTyped, NEW sel, NEW by \in 1..Len(sel), Len(sel) \in Nat,
           NEW o \in Objects, sel[by].object = o, ~Miscounted(o), NEW t \in Nat,
           s.field_count = Len(s.columns), OptionsOK("values", sel, Len(sel), s),
           NEW count \in Nat, count = classic_get_path_column_count(o)
    PROVE  LET r == preludedb_sql_select_add_selected(s, by, o, count, t)
           IN  r.field_count = Len(r.columns) /\ OptionsOK("values", sel, Len(sel), r)
<1> DEFINE r == preludedb_sql_select_add_selected(s, by, o, count, t)
           new == Columns(by, o, t)
           both == s.columns \o new
           more == Numbers(Len(s.columns), Len(new))
<1>1. o.path \in Fields /\ by \in Nat
      BY ObjectPath
<1>2. new \in Seq(Column) /\ Len(new) = count /\ \A k \in 1..Len(new) : new[k].by = by
      BY <1>1, ColumnsTyped, ColumnsBy, NamesCounted
<1>3. r \in SelectTyped /\ r.columns = both
      BY <1>1, SelectedTyped
<1>4. /\ r.field_count = s.field_count + count
      /\ r.group_by = IF "group" \in o.flags THEN s.group_by \o more ELSE s.group_by
      /\ r.order_by = IF "order" \in o.flags THEN s.order_by \o more ELSE s.order_by
  <2>1. /\ r.field_count = s.field_count + count
        /\ r.group_by = IF "group" \in o.flags
                        THEN s.group_by \o Numbers(s.field_count, count) ELSE s.group_by
        /\ r.order_by = IF "order" \in o.flags
                        THEN s.order_by \o Numbers(s.field_count, count) ELSE s.order_by
    <3> HIDE DEF new
    <3>1. s \in SelectTyped /\ by \in Nat /\ o.path \in Fields /\ count \in Nat /\ t \in Nat
          BY <1>1
    <3> QED  BY ONLY <3>1, OptionsAre
  <2> HIDE DEF r, new
  <2> QED  BY <1>2, <2>1
<1> HIDE DEF new, r
<1>5. /\ s.columns \in Seq(Column) /\ s.group_by \in Seq(Nat) /\ s.order_by \in Seq(Nat)
      /\ \A k \in 1..Len(s.columns) : s.columns[k].by \in 1..Len(sel)
      BY DEF OptionsOK
<1>6. /\ Len(both) = Len(s.columns) + Len(new)
      /\ \A k \in 1..Len(s.columns) + Len(new) :
            both[k] = IF k <= Len(s.columns) THEN s.columns[k] ELSE new[k - Len(s.columns)]
  <2>1. s.columns \in Seq(Column) /\ new \in Seq(Column)
        BY <1>2, <1>5
  <2> QED  BY ONLY <2>1, ConcatProperties
<1>7. \A k \in 1..Len(both) : both[k].by \in 1..Len(sel)
  <2> DEFINE L == Len(s.columns)
             N == Len(new)
  <2>1. L \in Nat /\ N \in Nat
        BY <1>2, <1>5
  <2> SUFFICES ASSUME NEW k \in 1..Len(both) PROVE both[k].by \in 1..Len(sel)
      OBVIOUS
  <2> HIDE DEF both, L, N
  <2>2. CASE k <= L
    <3>1. k \in 1..L /\ both[k] = s.columns[k]
          BY <1>6, <2>1, <2>2 DEF L, N
    <3> QED  BY <1>5, <3>1 DEF L
  <2>3. CASE ~(k <= L)
    <3>1. k - L \in 1..N /\ both[k] = new[k - L]
          BY <1>6, <2>1, <2>3 DEF L, N
    <3> QED  BY <1>2, <3>1 DEF N
  <2> QED  BY <2>2, <2>3
<1>8. ASSUME NEW numbers \in Seq(Nat), NEW flag, NEW wanted,
             wanted = Asking("values", sel, Len(sel), flag), Right(s.columns, numbers, wanted)
      PROVE  Right(both, IF flag \in o.flags THEN numbers \o more ELSE numbers, wanted)
  <2>1. by \in wanted <=> flag \in o.flags
        BY <1>8 DEF Asking
  <2>2. CASE flag \in o.flags
        BY <1>2, <1>5, <1>8, <2>1, <2>2, NumbersAdded
  <2>3. CASE flag \notin o.flags
        BY <1>2, <1>5, <1>8, <2>1, <2>3, NumbersKept
  <2> QED  BY <2>2, <2>3
<1> HIDE DEF both, more
<1>9. Right(r.columns, r.group_by, Asking("values", sel, Len(sel), "group"))
      BY <1>3, <1>4, <1>5, <1>8 DEF OptionsOK
<1>10. Right(r.columns, r.order_by, Asking("values", sel, Len(sel), "order"))
      BY <1>3, <1>4, <1>5, <1>8 DEF OptionsOK
<1>11. r.columns \in Seq(Column) /\ r.group_by \in Seq(Nat) /\ r.order_by \in Seq(Nat)
      BY <1>3 DEF SelectTyped
<1>12. OptionsOK("values", sel, Len(sel), r)
      BY <1>3, <1>7, <1>9, <1>10, <1>11 DEF OptionsOK
<1>13. r.field_count = Len(r.columns)
      BY <1>2, <1>3, <1>4, <1>6
<1> QED  BY <1>12, <1>13 DEF r

LEMMA OptionsAddSelected == QueryInv /\ OptionsInv /\ AddSelected => OptionsInv'
<1> SUFFICES ASSUME QueryInv, OptionsInv, AddSelected PROVE OptionsInv'
    OBVIOUS
<1> DEFINE s == selection[query.next]
           o == s.object
           r == Resolved(join, o)
<1>1. /\ query.step = "select" /\ query.kind = "values"
      /\ query.next \in 1..Len(selection) /\ Len(selection) \in Nat
      BY DEF QueryInv, AddSelected, TypeOK, BuildOK
<1>2. o \in Objects /\ s.column_count \in 1..3
      /\ s.column_count = classic_get_path_column_count(o)
      BY <1>1, SelectedObject DEF QueryInv, SelectionOK, Positions
<1>3. CASE ~r.ok
      BY <1>3, OptionsIdle DEF AddSelected, Refuse, NoBuild
<1>4. CASE r.ok
  <2>1. /\ select' = preludedb_sql_select_add_selected(select, query.next, o,
                                                       s.column_count, r.table)
        /\ query' = [query EXCEPT !.next = @ + 1] /\ UNCHANGED <<selection, result>>
        BY <1>4 DEF AddSelected
  <2>2. query'.step = "select" /\ query'.next = query.next + 1
        BY <1>1, <2>1 DEF QueryInv, TypeOK
  <2>3. r.table \in Nat
    <3>1. JoinOK(join) /\ o.path \in Fields
          BY <1>2, ObjectPath DEF QueryInv, TypeOK, JoinOK
    <3> QED  BY <1>4, <3>1, ResolvedFound
  <2>4. select \in SelectTyped
        BY DEF QueryInv, TypeOK, SelectTyped
  <2>5. ASSUME Counted(selection, query.next)
        PROVE  select'.field_count = Len(select'.columns)
               /\ OptionsOK("values", selection, Len(selection), select')
    <3>1. ~Miscounted(o) /\ Counted(selection, query.next - 1)
          BY <1>1, <2>5 DEF Counted
    <3>2. /\ select.field_count = Len(select.columns)
          /\ OptionsOK("values", selection, Len(selection), select)
          BY <1>1, <3>1 DEF OptionsInv
    <3> DEFINE q == query.next
               t == r.table
               n == s.column_count
    <3>3. q \in 1..Len(selection) /\ t \in Nat /\ n \in Nat /\ selection[q].object = o
          /\ n = classic_get_path_column_count(o)
          BY <1>1, <1>2, <2>3
    <3> HIDE DEF q, t, n, o
    <3>4. select' = preludedb_sql_select_add_selected(select, q, o, n, t)
          BY <2>1 DEF q, t, n
    <3> QED  BY <1>1, <1>2, <2>4, <3>1, <3>2, <3>3, <3>4, OptionsAdded
  <2>6. query'.next - 1 = query.next
        BY <1>1, <2>2
  <2> QED  BY <1>1, <2>1, <2>2, <2>5, <2>6 DEF OptionsInv
<1> QED  BY <1>3, <1>4

LEMMA OptionsEndOfSelection == QueryInv /\ OptionsInv /\ EndOfSelection => OptionsInv'
<1> SUFFICES ASSUME QueryInv, OptionsInv, EndOfSelection PROVE OptionsInv'
    OBVIOUS
<1>1. /\ query' = [query EXCEPT !.step = "where", !.next = 1]
      /\ query.step = "select" /\ query.next > Len(selection)
      /\ UNCHANGED <<selection, select, result>>
      BY DEF EndOfSelection
<1>2. query.next - 1 = Len(selection) /\ query.kind = "values"
  <2>1. query.next \in Nat /\ Len(selection) \in Nat
        BY DEF QueryInv, TypeOK
  <2>2. query.next - 1 <= Len(selection) /\ query.kind = "values"
        BY <1>1 DEF QueryInv, BuildOK
  <2> QED  BY <1>1, <2>1, <2>2
<1>3. query'.step = "where" /\ query'.kind = "values"
      BY <1>1, <1>2 DEF QueryInv, TypeOK
<1> QED  BY <1>1, <1>2, <1>3 DEF OptionsInv

\* The time of creation is ordered by its value, the second column.
LEMMA OptionsIdents ==
    ASSUME QueryInv, OptionsInv, NEW top \in Tops, NEW order \in BOOLEAN, NEW c \in Criteria,
           get_message_idents(top, order, c)
    PROVE  OptionsInv'
<1> DEFINE o == create_time(top)
           j == [NoJoin EXCEPT !.top = top]
           r == classic_path_resolve(j, o.path)
           column == [by |-> 0, part |-> "ident", path |-> o.path, table |-> TopTable]
           ident == [NoSelect EXCEPT !.columns = <<column>>, !.field_count = 1]
           both == preludedb_sql_select_add_selected(ident, 1, o, 1, r.table)
<1>1. /\ query'.step = "where" /\ query'.kind = "idents" /\ UNCHANGED <<selection, result>>
      /\ select' = ident \/ select' = both
      BY DEF get_message_idents, Begin
<1>2. o.path \in Fields
      BY DEF Fields
<1>3. column \in Column /\ column.by = 0 /\ column.part = "ident"
      BY <1>2 DEF Column, TopTable
<1>4. PartsOf(o) = <<"value", "gmtoff", "usec">> /\ o.flags = {"order"}
      BY DEF PartsOf, resolve_field_name, get_field_context, create_time, Tops
<1>5. r.table \in Nat
  <2>1. j = [top |-> top, tables |-> << >>]
        BY DEF NoJoin
  <2>2. JoinOK([top |-> top, tables |-> << >>])
        BY DEF JoinOK
  <2>3. o.path.top = top
        BY DEF create_time
  <2>4. r.ok
        BY <2>1, <2>3 DEF classic_path_resolve, conflicting
  <2> HIDE DEF o
  <2>5. JoinOK(r.join) /\ r.table \in 0..Len(r.join.tables)
        BY <1>2, <2>1, <2>2, <2>4, ResolveJoins
  <2> QED  BY <2>5 DEF JoinOK
<1> HIDE DEF column, o
<1>6. /\ ident \in SelectTyped /\ ident.columns = <<column>> /\ ident.field_count = 1
      /\ ident.group_by = << >> /\ ident.order_by = << >>
  <2> DEFINE one == <<column>>
  <2>1. one \in Seq(Column)
        BY <1>3
  <2> HIDE DEF one
  <2>2. NoSelect \in SelectTyped /\ NoSelect.group_by = << >> /\ NoSelect.order_by = << >>
        BY DEF NoSelect, SelectTyped
  <2>3. LET s == [NoSelect EXCEPT !.columns = one, !.field_count = 1]
        IN  /\ s \in SelectTyped /\ s.columns = one /\ s.field_count = 1
            /\ s.group_by = NoSelect.group_by /\ s.order_by = NoSelect.order_by
        BY <2>1, <2>2 DEF SelectTyped
  <2> QED  BY <2>2, <2>3 DEF one
<1> HIDE DEF ident
<1>7. \A sel, n : /\ Asking("idents", sel, n, "group") = {}
                  /\ Asking("idents", sel, n, "order") = {1}
      BY DEF Asking
<1>8. CASE select' = ident
  <2>1. \A wanted : 0 \notin wanted => Right(ident.columns, << >>, wanted)
    <3>1. Len(ident.columns) = 1 /\ ident.columns[1].by = 0
          BY <1>3, <1>6
    <3> QED  BY <3>1 DEF Right
  <2>2. OptionsOK("idents", selection, Len(selection), ident)
    <3>1. Right(ident.columns, << >>, {}) /\ Right(ident.columns, << >>, {1})
          BY <2>1
    <3>2. ident.columns \in Seq(Column) /\ << >> \in Seq(Nat)
          BY <1>6 DEF SelectTyped
    <3> QED  BY <1>6, <1>7, <3>1, <3>2, Zenon DEF OptionsOK
  <2> QED  BY <1>1, <1>8, <2>2 DEF OptionsInv
<1>9. CASE select' = both
  <2> DEFINE t == r.table
             new == Columns(1, o, t)
  <2>1. new \in Seq(Column) /\ Len(new) = 3
        BY <1>2, <1>4, <1>5, ColumnsTyped
  <2>2. \A k \in 1..3 : new[k].by = 1 /\ new[k].part = PartsOf(o)[k]
    <3> DEFINE t1 == r.table
    <3>1. o.path \in Fields /\ 1 \in Nat /\ t1 \in Nat
          BY <1>2, <1>5
    <3>2. \A k \in 1..Len(Columns(1, o, t1)) :
             /\ Columns(1, o, t1)[k].by = 1
             /\ Columns(1, o, t1)[k].part = PartsOf(o)[k]
          BY ONLY <3>1, ColumnsBy
    <3> QED  BY <2>1, <3>2
  <2>3. t \in Nat /\ both = preludedb_sql_select_add_selected(ident, 1, o, 1, t)
        BY <1>5
  <2> HIDE DEF t, both
  <2>4. both \in SelectTyped /\ both.columns = ident.columns \o new
    <3>1. ident \in SelectTyped /\ 1 \in Nat /\ o.path \in Fields /\ t \in Nat
          BY <1>2, <1>6, <2>3
    <3>2. LET w == preludedb_sql_select_add_selected(ident, 1, o, 1, t)
          IN  w \in SelectTyped /\ w.columns = ident.columns \o Columns(1, o, t)
          BY ONLY <3>1, SelectedTyped
    <3> QED  BY <2>3, <3>2
  <2>5. both.group_by = << >> /\ both.order_by = << >> \o Numbers(1, 1)
    <3>1. ident \in SelectTyped /\ 1 \in Nat /\ o.path \in Fields /\ t \in Nat
          BY <1>2, <1>6, <2>3
    <3>2. LET w == preludedb_sql_select_add_selected(ident, 1, o, 1, t)
              added == Numbers(ident.field_count, 1)
          IN  /\ w.group_by = IF "group" \in o.flags THEN ident.group_by \o added
                                                     ELSE ident.group_by
              /\ w.order_by = IF "order" \in o.flags THEN ident.order_by \o added
                                                     ELSE ident.order_by
          BY ONLY <3>1, OptionsAre
    <3> QED  BY <1>4, <1>6, <2>3, <3>2
  <2> HIDE DEF new
  <2>6. both.order_by = <<2>>
    <3>1. Numbers(1, 1) \in Seq(Nat) /\ Len(Numbers(1, 1)) = 1 /\ Numbers(1, 1)[1] = 2
          BY DEF Numbers
    <3>2. << >> \o Numbers(1, 1) = Numbers(1, 1)
          BY <3>1, ConcatEmptySeq
    <3> QED  BY <2>5, <3>1, <3>2
  <2>7. /\ Len(both.columns) = 4 /\ both.columns \in Seq(Column)
        /\ both.columns[1] = column
        /\ \A k \in 2..4 : both.columns[k] = new[k - 1]
    <3> DEFINE one == <<column>>
    <3>1. one \in Seq(Column) /\ Len(one) = 1 /\ one[1] = column
          BY <1>3
    <3>2. ident.columns = one
          BY <1>6
    <3> HIDE DEF one
    <3>3. /\ one \o new \in Seq(Column) /\ Len(one \o new) = Len(one) + Len(new)
          /\ \A k \in 1..Len(one) + Len(new) :
                (one \o new)[k] = IF k <= Len(one) THEN one[k] ELSE new[k - Len(one)]
      <4>1. one \in Seq(Column) /\ new \in Seq(Column)
            BY <2>1, <3>1
      <4> QED  BY ONLY <4>1, ConcatProperties
    <3> QED  BY <2>1, <2>4, <3>1, <3>2, <3>3
  <2>8. \A k \in 2..4 : both.columns[k].by = 1 /\ (both.columns[k].part = "value" <=> k = 2)
    <3>1. \A k \in 1..3 : PartsOf(o)[k] = "value" <=> k = 1
          BY <1>4
    <3>2. ASSUME NEW k \in 2..4
          PROVE  both.columns[k].by = 1 /\ (both.columns[k].part = "value" <=> k = 2)
      <4>1. k - 1 \in 1..3 /\ (k - 1 = 1 <=> k = 2)
            OBVIOUS
      <4> QED  BY <2>2, <2>7, <3>1, <4>1
    <3> QED  BY <3>2
  <2>9. Right(both.columns, << >>, {})
        BY DEF Right
  <2>10. Right(both.columns, <<2>>, {1})
    <3>1. both.columns[1].by = 0
          BY <1>3, <2>7
    <3>2. ASSUME NEW k \in 1..Len(both.columns), both.columns[k].by \in {1},
                 both.columns[k].part = "value"
          PROVE  k = 2
          BY <2>7, <2>8, <3>1, <3>2
    <3>3. 2 \in 1..Len(both.columns) /\ both.columns[2].by \in {1}
          BY <2>7, <2>8
    <3> QED  BY <3>2, <3>3 DEF Right
  <2>11. OptionsOK("idents", selection, Len(selection), both)
         BY <1>7, <2>4, <2>5, <2>6, <2>9, <2>10 DEF OptionsOK, SelectTyped
  <2> QED  BY <1>1, <1>9, <2>11 DEF OptionsInv, both
<1> QED  BY <1>1, <1>8, <1>9

LEMMA OptionsNext == QueryInv /\ OptionsInv /\ [Next]_vars => OptionsInv'
<1> SUFFICES ASSUME QueryInv, OptionsInv, [Next]_vars PROVE OptionsInv'
    OBVIOUS
<1>1. CASE Release
      BY <1>1 DEF Release, OptionsInv, Idle
<1>2. ASSUME NEW o \in Objects, AddPath(o) PROVE OptionsInv'
      BY <1>2, OptionsAddPath
<1>3. ASSUME NEW c \in Criteria, classic_get_values(c) PROVE OptionsInv'
      BY <1>3, OptionsGetValues
<1>4. ASSUME NEW top \in Tops, NEW order \in BOOLEAN, NEW c \in Criteria,
             get_message_idents(top, order, c)
      PROVE  OptionsInv'
      BY <1>4, OptionsIdents
<1>5. CASE AddSelected
      BY <1>5, OptionsAddSelected
<1>6. CASE EndOfSelection
      BY <1>6, OptionsEndOfSelection
<1>7. CASE classic_path_resolve_criterion
  <2>1. CASE Refuse
        BY <2>1, OptionsIdle DEF Refuse, NoBuild
  <2>2. CASE query' = [query EXCEPT !.next = @ + 1] /\ UNCHANGED <<selection, select, result>>
    <3>1. query.step = "where" /\ query'.step = query.step /\ query'.kind = query.kind
          BY <1>7, <2>2 DEF classic_path_resolve_criterion, QueryInv, TypeOK
    <3> QED  BY <2>2, <3>1, OptionsSame
  <2> QED  BY <1>7, <2>1, <2>2 DEF classic_path_resolve_criterion
<1>8. CASE RunQuery
      BY <1>8, OptionsRun
<1>9. CASE UNCHANGED vars
      BY <1>9, OptionsSame DEF vars
<1> QED  BY <1>1, <1>2, <1>3, <1>4, <1>5, <1>6, <1>7, <1>8, <1>9 DEF Next

LEMMA OptionsInvariant == Spec => []OptionsInv
BY QueryInvariant, OptionsInit, OptionsNext, PTL DEF Spec

\* GROUP BY and ORDER BY number the columns of the paths that asked for it,
\* and the value of each of them, whatever was selected before: the count the
\* numbers are taken from, kept by the selection, is that of the columns the
\* resolver wrote, unless a time is miscounted
\* (preludedb_sql_select_add_selected, sql_select_add_options).
THEOREM NumbersAreRight == Spec => []OptionsRight
<1>1. OptionsInv => OptionsRight
  <2> SUFFICES ASSUME OptionsInv, Ran("idents") \/ (Ran("values") /\ Aligned(result.count))
               PROVE  OptionsRight
      BY DEF OptionsRight
  <2>1. OptionsOK(result.kind, selection, result.count, result)
        BY DEF OptionsInv, Ran, Counted, Aligned
  <2>2. /\ DOMAIN result.columns = 1..Len(result.columns)
        /\ DOMAIN result.group_by = 1..Len(result.group_by)
        /\ DOMAIN result.order_by = 1..Len(result.order_by)
        BY <2>1 DEF OptionsOK
  <2>3. CASE Ran("idents")
    <3>1. \A k \in 1..Len(result.columns) :
              /\ result.columns[k].by \notin Asking("idents", selection, result.count, "group")
              /\ result.columns[k].by \in Asking("idents", selection, result.count, "order")
                    <=> result.columns[k].by = 1
          BY DEF Asking
    <3> QED  BY <2>1, <2>2, <2>3, <3>1 DEF OptionsOK, OptionsRight, Ran, Right
  <2>4. CASE Ran("values")
    <3>1. \A k \in 1..Len(result.columns), flag \in {"group", "order"} :
              result.columns[k].by \in Asking("values", selection, result.count, flag)
                <=> flag \in selection[result.columns[k].by].object.flags
          BY <2>1, <2>4 DEF Asking, OptionsOK, Ran
    <3> QED  BY <2>1, <2>2, <2>4, <3>1 DEF OptionsOK, OptionsRight, Ran, Right
  <2> QED  BY <2>3, <2>4
<1> QED  BY <1>1, OptionsInvariant, PTL
=============================================================================
