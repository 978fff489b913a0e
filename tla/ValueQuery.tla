----------------------------- MODULE ValueQuery -----------------------------
(***************************************************************************)
(* From a path selection and criteria to one SELECT, and back from the      *)
(* columns of a row to the values that were selected: preludedb_get_values  *)
(* and preludedb_get_*_idents of the classic format.                        *)
(*                                                                         *)
(* One selected object may take several columns of the row.  The selection  *)
(* decides how many when the object is added, the resolver of the format    *)
(* writes them when the query is built, and the two are different code.     *)
(***************************************************************************)
EXTENDS Integers, Sequences, FiniteSets

CONSTANTS
    Paths,        \* IDMEF paths, see PathsAssumption
    Objects,      \* the objects a program selects
    Criteria,     \* the criteria it filters with; << >> for none
    MaxSize,      \* bound: objects selected and criteria of one query
    NoQuery       \* no result yet

Tops == {"alert", "heartbeat"}
Types == {"time", "data", "text"}
Kinds == {"path", "function", "constant"}
Flags == {"group", "order"}
Operators == {"equal", "not_equal", "null", "not_null", "time_equal", "time_not_equal"}

\* What libprelude tells of a path: its message class, the object it is a
\* field of (all of the path but its last component, indexes included), that
\* object's class, and whether the field is a list.
PathsAssumption ==
    \A p \in Paths :
        /\ p \in [top : {p.top}, parent : {p.parent}, name : {p.name}, class : {p.class},
                  depth : {p.depth}, type : {p.type}, listed : {p.listed}]
        /\ p.top \in Tops /\ p.depth \in Nat /\ p.depth >= 2
        /\ p.type \in Types /\ p.listed \in BOOLEAN
        /\ p.depth = 2 <=> p.class \in Tops
        /\ p.depth = 2 => p.class = p.top
        /\ \A q \in Paths : p.parent = q.parent =>
              <<p.top, p.class, p.depth>> = <<q.top, q.class, q.depth>>

\* Criteria are trees: criterion n has the criteria that must also hold and
\* those that may hold instead, 0 for none; numbered as the code visits them.
CriteriaAssumption ==
    \A c \in Criteria :
        /\ Len(c) \in Nat /\ DOMAIN c = 1..Len(c)
        /\ \A n \in DOMAIN c :
              /\ c[n].path \in Paths /\ c[n].op \in Operators
              /\ c[n].and \in {0} \cup (n + 1)..Len(c)
              /\ c[n].or \in {0} \cup (n + 1)..Len(c)

ASSUME SelectionAssumption ==
    /\ PathsAssumption /\ CriteriaAssumption
    /\ Objects \subseteq [kind : Kinds, path : Paths, flags : SUBSET Flags]
    /\ MaxSize \in Nat

VARIABLES
    selection,    \* the selected paths: object, position, column_count
    numpos,       \* columns of the selection so far
    query,        \* the query being built: its kind, criteria and progress
    select,       \* fields, their count, GROUP BY and ORDER BY
    join,         \* the class of the top table and the tables joined to it
    fields,       \* where the criteria of the query find their fields
    result        \* the last query that was run

vars == <<selection, numpos, query, select, join, fields, result>>

----------------------------------------------------------------------------
(***************************************************************************)
(* How many columns an object takes, according to the selection.            *)
(***************************************************************************)
\* Mutation: every time has microseconds.
column_count_usec(o) ==
    IF o.kind # "path" \/ "group" \in o.flags THEN 1
    ELSE CASE o.path.class = "additional_data" /\ o.path.type = "data" -> 2
           [] o.path.type = "time" -> 3
           [] OTHER -> 1
classic_get_path_column_count(o) ==
    IF o.kind # "path" \/ "group" \in o.flags THEN 1
    ELSE CASE o.path.class = "additional_data" /\ o.path.type = "data" -> 2
           [] o.path.type = "time" -> IF o.path.depth = 2 THEN 3 ELSE 2
           [] OTHER -> 1

\* The columns the resolver writes for it.
get_field_context(o) ==
    IF o.kind # "path" \/ "group" \in o.flags THEN "function" ELSE "select"

resolve_field_name(p, context) ==
    CASE context = "select" /\ p.class \in Tops /\ p.type = "time" ->
             <<"value", "gmtoff", "usec">>
      [] context = "select" /\ p.class = "file" /\ p.type = "time" ->
             <<"value", "gmtoff">>
      [] context = "select" /\ p.class = "additional_data" /\ p.type = "data" ->
             <<"value", "type">>
      [] OTHER -> <<"value">>

----------------------------------------------------------------------------
(***************************************************************************)
(* Joined tables.  A column or a criterion finds its field in one of them,  *)
(* or in the table of the messages.                                         *)
(***************************************************************************)
TopTable == 0
NoJoin == [top |-> "none", tables |-> << >>]

resolve_table_name(p) ==
    IF p.listed \/ (p.class \in Tops /\ p.type = "time") THEN <<p.class, p.name>>
                                                         ELSE <<p.class, "">>

\* Mutation: any time may come from the table of another.
same_table_for_times(p, q) ==
    p.depth = q.depth /\ IF p.listed THEN p = q ELSE p.parent = q.parent
\* Which table already joined for q serves p.
same_table(p, q) ==
    /\ p.depth = q.depth
    /\ IF p.listed \/ (p.type = "time" /\ p.class # "file")
       THEN p = q
       ELSE p.parent = q.parent

Serving(j, p) == {t \in DOMAIN j.tables : same_table(p, j.tables[t])}
classic_sql_join_lookup_table(j, p) ==
    CHOOSE t \in Serving(j, p) : \A u \in Serving(j, p) : t <= u

\* Mutation: the class of the message is not compared.
conflicting_never(j, p) == FALSE
conflicting(j, p) == j.top # "none" /\ j.top # p.top
classic_sql_join_new_table(j, p) ==
    [top |-> IF j.top = "none" THEN p.top ELSE j.top, tables |-> Append(j.tables, p)]

\* Resolving p: the join after it, and the table its field is in.
InTop(p) == p.depth = 2 /\ p.type # "time"
classic_path_resolve(j, p) ==
    CASE InTop(p) -> [ok |-> TRUE, join |-> j, table |-> TopTable]
      [] ~InTop(p) /\ Serving(j, p) # {} ->
             [ok |-> TRUE, join |-> j, table |-> classic_sql_join_lookup_table(j, p)]
      [] OTHER -> [ok |-> ~conflicting(j, p), join |-> classic_sql_join_new_table(j, p),
                   table |-> Len(j.tables) + 1]

\* Without a joined table the class was never set.
From(j) == IF j.top = "alert" THEN "alert" ELSE "heartbeat"

----------------------------------------------------------------------------
(***************************************************************************)
(* The parts of the SELECT.                                                 *)
(***************************************************************************)
NoSelect == [columns |-> << >>, field_count |-> 0, group_by |-> << >>, order_by |-> << >>]
Numbers(first, n) == [k \in 1..n |-> first + k]

\* Mutation: only the first column is grouped or ordered by, and counted.
add_options_first(s, n, flags) ==
    [s EXCEPT !.field_count = @ + 1,
              !.group_by = IF "group" \in flags THEN Append(@, s.field_count + 1) ELSE @,
              !.order_by = IF "order" \in flags THEN Append(@, s.field_count + 1) ELSE @]
sql_select_add_options(s, n, flags) ==
    [s EXCEPT !.field_count = @ + n,
              !.group_by = IF "group" \in flags THEN @ \o Numbers(s.field_count, n) ELSE @,
              !.order_by = IF "order" \in flags THEN @ \o Numbers(s.field_count, n) ELSE @]

\* A column remembers the object it was written for.
Columns(by, o, table) ==
    LET parts == IF o.kind = "constant" THEN <<"constant">>
                 ELSE resolve_field_name(o.path, get_field_context(o))
    IN  [k \in DOMAIN parts |-> [by |-> by, part |-> parts[k], path |-> o.path, table |-> table]]

\* What resolving o (number by of the selection) does to a SELECT and a join.
Resolved(j, o) == IF o.kind = "constant" THEN [ok |-> TRUE, join |-> j, table |-> TopTable]
                                         ELSE classic_path_resolve(j, o.path)
preludedb_sql_select_add_selected(s, by, o, count, table) ==
    sql_select_add_options([s EXCEPT !.columns = @ \o Columns(by, o, table)], count, o.flags)

----------------------------------------------------------------------------
(***************************************************************************)
(* The WHERE clause, as SQL reads it: AND before OR, and a comparison with  *)
(* NULL that is neither true nor false.                                     *)
(***************************************************************************)
Word(w) == <<[n |-> 0, test |-> w]>>
Test(n, test) == <<[n |-> n, test |-> test]>>
Parts(n) == Test(n, "first") \o Word("AND") \o Test(n, "second")

\* Mutation: an absent field is not unequal to the value.
build_criterion_string_plain(n, op) ==
    CASE op = "time_equal" -> Parts(n)
      [] op = "time_not_equal" -> Word("NOT") \o Word("(") \o Parts(n) \o Word(")")
      [] OTHER -> Test(n, op)
preludedb_sql_build_criterion_string(n, op) ==
    LET unless(text) == Word("(") \o Test(n, "null") \o Word("OR") \o text \o Word(")")
    IN  CASE op = "not_equal" -> unless(Test(n, op))
          [] op = "time_equal" -> Parts(n)
          [] op = "time_not_equal" ->
                 unless(Word("NOT") \o Word("(") \o Parts(n) \o Word(")"))
          [] OTHER -> Test(n, op)

\* The text of each of the criteria c, and of those that follow it; 0 is none.
classic_path_resolve_criteria(c) ==
    LET text[n \in 0..Len(c)] ==
            IF n = 0 THEN << >>
            ELSE LET first == preludedb_sql_build_criterion_string(n, c[n].op)
                              \o (IF c[n].and = 0 THEN << >> ELSE Word("AND") \o text[c[n].and])
                 IN  IF c[n].or = 0 THEN first
                     ELSE Word("(") \o Word("(") \o first \o Word(")") \o Word("OR")
                          \o Word("(") \o text[c[n].or] \o Word(")") \o Word(")")
    IN  text[IF c = << >> THEN 0 ELSE 1]

----------------------------------------------------------------------------
(***************************************************************************)
(* Reading a row.  A field past the last column is an error.                *)
(***************************************************************************)
Error == << >>

\* The columns get_value looks at for object o at position: a time reads its
\* offset and microseconds, data its type.
get_value(columns, o, position) ==
    LET count == classic_get_path_column_count(o)
        typed == o.kind # "constant" /\ o.path.type \in {"time", "data"}
        last == position + IF typed THEN count ELSE 1
    IN  IF last > Len(columns) THEN Error ELSE SubSeq(columns, position + 1, last)

classic_get_result_values_field(i) ==
    get_value(result.columns, selection[i].object, selection[i].position)

----------------------------------------------------------------------------
(***************************************************************************)
(* Operations.  A query is built in steps: one for each selected path, one  *)
(* for each of the criteria, and the one that runs it.  The program gives   *)
(* up its result before it asks again.                                      *)
(***************************************************************************)
Idle == query.step = "idle"
NoBuild == [step |-> "idle", kind |-> "values", top |-> "none", criteria |-> << >>, next |-> 1]

\* Criteria of the last query; with the selected paths they make its size.
Filtered == IF result = NoQuery THEN 0 ELSE Len(result.criteria)

Init ==
    /\ selection = << >> /\ numpos = 0
    /\ query = NoBuild /\ select = NoSelect /\ join = NoJoin /\ fields = << >>
    /\ result = NoQuery

path_selection_add(o) ==
    LET count == classic_get_path_column_count(o)
    IN  /\ selection' = Append(selection, [object |-> o, position |-> numpos,
                                           column_count |-> count])
        /\ numpos' = numpos + count

AddPath(o) ==
    /\ Idle /\ Len(selection) + Filtered < MaxSize
    /\ path_selection_add(o)
    /\ UNCHANGED <<query, select, join, fields, result>>

Begin(kind, top, criteria, step, sel, j) ==
    /\ query' = [step |-> step, kind |-> kind, top |-> top, criteria |-> criteria, next |-> 1]
    /\ select' = sel /\ join' = j /\ fields' = << >>
    /\ UNCHANGED <<selection, numpos, result>>

classic_get_values(criteria) ==
    /\ Idle /\ result = NoQuery /\ selection # << >> /\ Len(selection) + Len(criteria) <= MaxSize
    /\ Begin("values", "none", criteria, "select", NoSelect, NoJoin)

\* The ident, and the time of creation when the caller wants an order; that
\* path belongs to no selection, and counts for one column.
create_time(top) ==
    [kind |-> "path", flags |-> {"order"},
     path |-> [top |-> top, parent |-> top, name |-> "create_time", class |-> top,
               depth |-> 2, type |-> "time", listed |-> FALSE]]

get_message_idents(top, order, criteria) ==
    LET ident == [NoSelect EXCEPT
                    !.columns = <<[by |-> 0, part |-> "ident", path |-> create_time(top).path,
                                   table |-> TopTable]>>,
                    !.field_count = 1]
        o == create_time(top)
        r == classic_path_resolve([NoJoin EXCEPT !.top = top], o.path)
    IN  /\ Idle /\ result = NoQuery /\ Len(selection) + Len(criteria) <= MaxSize
        /\ IF order
           THEN Begin("idents", top, criteria, "where",
                      preludedb_sql_select_add_selected(ident, 1, o, 1, r.table), r.join)
           ELSE Begin("idents", top, criteria, "where", ident, [NoJoin EXCEPT !.top = top])

\* The call returns an error and frees what it built.
Refuse ==
    /\ query' = NoBuild /\ select' = NoSelect /\ join' = NoJoin /\ fields' = << >>
    /\ UNCHANGED <<selection, numpos, result>>

\* One turn of the loop of preludedb_sql_select_add_selection.
AddSelected ==
    LET s == selection[query.next]
        r == Resolved(join, s.object)
    IN  /\ query.step = "select" /\ query.next <= Len(selection)
        /\ IF ~r.ok THEN Refuse
           ELSE /\ select' = preludedb_sql_select_add_selected(select, query.next, s.object,
                                                               s.column_count, r.table)
                /\ join' = r.join
                /\ query' = [query EXCEPT !.next = @ + 1]
                /\ UNCHANGED <<selection, numpos, fields, result>>

EndOfSelection ==
    /\ query.step = "select" /\ query.next > Len(selection)
    /\ query' = [query EXCEPT !.step = "where", !.next = 1]
    /\ UNCHANGED <<selection, numpos, select, join, fields, result>>

classic_path_resolve_criterion ==
    LET p == query.criteria[query.next].path
        r == classic_path_resolve(join, p)
    IN  /\ query.step = "where" /\ query.next <= Len(query.criteria)
        /\ IF ~r.ok THEN Refuse
           ELSE /\ fields' = Append(fields, [path |-> p, table |-> r.table])
                /\ join' = r.join
                /\ query' = [query EXCEPT !.next = @ + 1]
                /\ UNCHANGED <<selection, numpos, select, result>>

\* The row of the answer has the columns of the SELECT.
RunQuery ==
    /\ query.step = "where" /\ query.next > Len(query.criteria)
    /\ result' = [kind |-> query.kind, top |-> query.top, count |-> Len(selection),
                  columns |-> select.columns, group_by |-> select.group_by,
                  order_by |-> select.order_by, from |-> From(join), tables |-> join.tables,
                  fields |-> fields, criteria |-> query.criteria,
                  where |-> classic_path_resolve_criteria(query.criteria)]
    /\ query' = NoBuild /\ select' = NoSelect /\ join' = NoJoin /\ fields' = << >>
    /\ UNCHANGED <<selection, numpos>>

Release ==
    /\ Idle /\ result # NoQuery /\ result' = NoQuery
    /\ UNCHANGED <<selection, numpos, query, select, join, fields>>

Next ==
    \/ Release
    \/ \E o \in Objects : AddPath(o)
    \/ \E c \in Criteria : classic_get_values(c)
    \/ \E top \in Tops, order \in BOOLEAN, c \in Criteria : get_message_idents(top, order, c)
    \/ AddSelected
    \/ EndOfSelection
    \/ classic_path_resolve_criterion
    \/ RunQuery

Spec == Init /\ [][Next]_vars

----------------------------------------------------------------------------
(***************************************************************************)
(* What SQL makes of the WHERE clause for one row: 2 is true, 0 false and   *)
(* 1 unknown.  A field is absent or present, and present it equals the      *)
(* value of its criterion, or each half of a broken-down time, or not.      *)
(***************************************************************************)
Values == {[present |-> FALSE, first |-> FALSE, second |-> FALSE]}
              \cup [present : {TRUE}, first : BOOLEAN, second : BOOLEAN]
Truth(b) == IF b THEN 2 ELSE 0
Least(a, b) == IF a <= b THEN a ELSE b

Compare(v, test) ==
    CASE test = "null" -> Truth(~v.present)
      [] test = "not_null" -> Truth(v.present)
      [] test \in {"equal", "first"} -> IF v.present THEN Truth(v.first) ELSE 1
      [] test = "second" -> IF v.present THEN Truth(v.second) ELSE 1
      [] test = "not_equal" -> IF v.present THEN Truth(~v.first) ELSE 1

\* The truth of text, row[n] the value of the field of criterion n.
Sql(text, row) ==
    LET level[k \in 1..Len(text)] ==
            IF k = 1 THEN 0 ELSE level[k - 1] + (IF text[k - 1].test = "(" THEN 1 ELSE 0)
                                              - (IF text[k].test = ")" THEN 1 ELSE 0)
        Outer(i, j, w) == {k \in i..j : text[k].test = w /\ level[k] = level[i]}
        truth[i \in 1..Len(text), j \in 1..Len(text)] ==
            LET ors == Outer(i, j, "OR")
                ands == Outer(i, j, "AND")
                o == CHOOSE k \in ors : TRUE
                a == CHOOSE k \in ands : TRUE
            IN  CASE ors # {} -> 2 - Least(2 - truth[i, o - 1], 2 - truth[o + 1, j])
                  [] ors = {} /\ ands # {} -> Least(truth[i, a - 1], truth[a + 1, j])
                  [] ors = {} /\ ands = {} /\ text[i].test = "NOT" -> 2 - truth[i + 1, j]
                  [] ors = {} /\ ands = {} /\ text[i].test = "(" -> truth[i + 1, j - 1]
                  [] OTHER -> Compare(row[text[i].n], text[i].test)
    IN  truth[1, Len(text)]

\* What the criteria c say of the same row.
Matches(c, row) ==
    LET one(n) == CASE c[n].op = "null" -> ~row[n].present
                    [] c[n].op = "not_null" -> row[n].present
                    [] c[n].op = "equal" -> row[n].present /\ row[n].first
                    [] c[n].op = "not_equal" -> ~(row[n].present /\ row[n].first)
                    [] c[n].op = "time_equal" ->
                           row[n].present /\ row[n].first /\ row[n].second
                    [] c[n].op = "time_not_equal" ->
                           ~(row[n].present /\ row[n].first /\ row[n].second)
        match[n \in 1..Len(c)] ==
            \/ one(n) /\ (c[n].and # 0 => match[c[n].and])
            \/ c[n].or # 0 /\ match[c[n].or]
    IN  match[1]

----------------------------------------------------------------------------
(***************************************************************************)
(* Properties of the last query that was run.                               *)
(***************************************************************************)
Ran(kind) == result # NoQuery /\ result.kind = kind

\* A time that is neither the message's nor a file's (an inode's): the
\* selection counts two columns for it and the resolver writes one.
Miscounted(o) ==
    /\ o.kind = "path" /\ "group" \notin o.flags
    /\ o.path.type = "time" /\ o.path.class \notin Tops \cup {"file"}
ReadsOwn(i) ==
    \E t \in 0..Len(result.tables) :
        classic_get_result_values_field(i) = Columns(i, selection[i].object, t)
Aligned(n) == \A j \in 1..n : ~Miscounted(selection[j].object)

Selected == [object : Objects, position : Nat, column_count : 1..3]
Fields == Paths \cup {create_time(top).path : top \in Tops}
Column == [by : Nat, part : {"value", "gmtoff", "usec", "type", "constant", "ident"},
           path : Fields, table : Nat]
TypeOK ==
    /\ selection \in Seq(Selected) /\ numpos \in Nat
    /\ query \in [step : {"idle", "select", "where"}, kind : {"values", "idents"},
                  top : Tops \cup {"none"}, criteria : {query.criteria}, next : Nat \ {0}]
    /\ \A n \in DOMAIN query.criteria : query.criteria[n].path \in Paths
    /\ select \in [columns : Seq(Column), field_count : Nat,
                   group_by : Seq(Nat), order_by : Seq(Nat)]
    /\ join \in [top : Tops \cup {"none"}, tables : Seq(Fields)]
    /\ \A t \in DOMAIN join.tables : join.tables[t].top = join.top
    /\ fields \in Seq([path : Paths, table : 0..Len(join.tables)])

\* The value read for a selected path is made of the columns the resolver
\* wrote for that path, all of them and no other's, and a path added to the
\* selection after the query is refused, as long as neither it nor a path
\* before it is miscounted.
ValuesOwn ==
    Ran("values") => \A i \in DOMAIN selection :
        /\ i <= result.count /\ Aligned(i) => ReadsOwn(i)
        /\ i > result.count /\ Aligned(result.count) =>
              classic_get_result_values_field(i) = Error

\* GROUP BY and ORDER BY number columns of the paths that asked for it, and
\* of each of them the column of its value.
OptionsRight ==
    LET asked(c, flag) ==
            IF result.kind = "idents" THEN flag = "order" /\ c.by = 1
            ELSE flag \in selection[c.by].object.flags
        right(numbers, flag) ==
            /\ \A k \in DOMAIN numbers :
                  numbers[k] \in DOMAIN result.columns /\ asked(result.columns[numbers[k]], flag)
            /\ \A k \in DOMAIN result.columns :
                  asked(result.columns[k], flag) /\ result.columns[k].part = "value" =>
                      \E m \in DOMAIN numbers : numbers[m] = k
    IN  Ran("idents") \/ (Ran("values") /\ Aligned(result.count)) =>
            right(result.group_by, "group") /\ right(result.order_by, "order")

\* Every field is taken from a table that has it, of the object the path
\* names and of the kind of message the query is about, and two fields of one
\* object from the same row; unless a list of that object was joined before
\* the field, or a time that is neither the message's nor a file's.
Used == {[path |-> result.columns[k].path, table |-> result.columns[k].table] :
            k \in {k \in DOMAIN result.columns :
                      result.columns[k].part \notin {"constant", "ident"}}}
        \cup {result.fields[n] : n \in DOMAIN result.fields}
ListBefore(u) == \E t \in 1..u.table : result.tables[t].listed /\ ~u.path.listed
                                         /\ result.tables[t].parent = u.path.parent
Alone(p) == p.listed \/ (p.type = "time" /\ p.class # "file")
TablesRight ==
    result # NoQuery => \A u \in Used :
        /\ u.table = TopTable => InTop(u.path)
        /\ u.table # TopTable /\ ~ListBefore(u) =>
              LET t == result.tables[u.table]
              IN  /\ t.top = result.from /\ t.parent = u.path.parent
                  /\ resolve_table_name(t) = resolve_table_name(u.path)
        /\ \A v \in Used : u.path.parent = v.path.parent /\ ~Alone(u.path) /\ ~Alone(v.path)
                              => u.table = v.table

\* A row is selected exactly when it matches the criteria; a field that is
\* absent differs from every value.
CriteriaMean ==
    result # NoQuery /\ result.criteria # << >> =>
        LET c == result.criteria
            paths == {c[n].path : n \in DOMAIN c}
        IN  \A v \in [paths -> Values] :
                LET row == [n \in DOMAIN c |-> v[c[n].path]]
                IN  Sql(result.where, row) = 2 <=> Matches(c, row)

----------------------------------------------------------------------------
(***************************************************************************)
(* Properties the program does not have.                                    *)
(***************************************************************************)
\* Every selected path is read from its own columns.
ValuesAligned == Ran("values") => \A i \in 1..result.count : ReadsOwn(i)

\* All paths of a query are of the kind of message it is run on: paths of two
\* kinds are refused.
OneTopTable ==
    result # NoQuery => \A u \in Used : u.path.top = result.from
=============================================================================
