---------------------------- MODULE ClassicStore ----------------------------
(***************************************************************************)
(* Sessions that insert messages into one classic database, a program that  *)
(* deletes messages and one that reads a message back, part by part.  Each  *)
(* is a process of its own: nothing but the transactions of the database    *)
(* orders their statements.                                                 *)
(*                                                                          *)
(* The database is external.  It gives a fresh ident to every first row,    *)
(* shows a statement what is committed and what its own transaction wrote   *)
(* (READ COMMITTED), refuses a row whose key is committed and makes one     *)
(* wait whose key another open transaction wrote.                           *)
(***************************************************************************)
EXTENDS ClassicRows

CONSTANTS
    Sessions,       \* connections that insert
    MaxIdent,       \* bound on the idents given
    Deployments,    \* what runs together, see below
    Paths           \* Paths[kind]: the paths asked for

\* A deployment: inserting, the sessions at work; messages[kind], what they
\* insert, and idents[kind], a bound on how often; deleting and reading, whether
\* there is a program that does; empty_tables, whether the plugin answers a
\* SELECT that finds nothing with a table (sqlite3) instead of no result
\* (mysql, pgsql).
ASSUME StoreAssumption ==
    /\ MaxIdent \in Nat
    /\ \A d \in Deployments :
        /\ DOMAIN d = {"inserting", "messages", "idents", "deleting", "reading", "empty_tables"}
        /\ d.inserting \subseteq Sessions
        /\ DOMAIN d.messages = Kinds
        /\ \A kind \in Kinds : \A x \in d.messages[kind] : IsMessage(kind, x)
        /\ d.idents \in [Kinds -> 0..MaxIdent]
        /\ {d.deleting, d.reading, d.empty_tables} \subseteq BOOLEAN

VARIABLES
    dep,       \* the deployment, fixed
    db,        \* committed rows
    next,      \* next[kind]: the ident the database gives next
    w,         \* w[s]: the insertion of session s
    rd,        \* the reader
    stored     \* history: the messages whose insertion reported success and
               \* that no deletion named since

vars == <<dep, db, next, w, rd, stored>>

Idents == 1..MaxIdent
NoInsertion == [at |-> "idle"]
Idle == [at |-> "idle"]

Key(r) == [table |-> r.table, pt |-> r.pt, m |-> r.m, p |-> r.p, i |-> r.i]
Keys(rows) == {Key(r) : r \in rows}

Heads(rows, kind) == {r.m : r \in {q \in rows : q.table = kind}}

Init ==
    /\ dep \in Deployments
    /\ db = {}
    /\ next = [kind \in Kinds |-> 1]
    /\ w = [s \in Sessions |-> NoInsertion]
    /\ rd = Idle
    /\ stored = {}

----------------------------------------------------------------------------
(* Insertion: one transaction, in three steps where other sessions can come *)
(* between.                                                                 *)

InsertFirstRow(s) ==
    /\ s \in dep.inserting /\ w[s].at = "idle"
    /\ \E kind \in Kinds : \E x \in dep.messages[kind] :
        /\ next[kind] <= dep.idents[kind]
        /\ next' = [next EXCEPT ![kind] = @ + 1]
        /\ w' = [w EXCEPT ![s] =
                    [at |-> "inserted", kind |-> kind, x |-> x, head |-> next[kind], ident |-> 0,
                     own |-> insert_message_messageid(kind, next[kind], x)]]
    /\ UNCHANGED <<dep, db, rd, stored>>

\* SELECT max(_ident): the largest ident in sight, not the one just given.
max_ident(s) == CHOOSE m \in Heads(db \cup w[s].own, w[s].kind) :
                    \A n \in Heads(db \cup w[s].own, w[s].kind) : n <= m

\* Mutation: the result of the query is not fetched.
get_no_ident(s) ==
    /\ w[s].at = "inserted"
    /\ w' = [w EXCEPT ![s].at = "identified"]
    /\ UNCHANGED <<dep, db, next, rd, stored>>

get_last_insert_ident(s) ==
    /\ w[s].at = "inserted"
    /\ w' = [w EXCEPT ![s].at = "identified", ![s].ident = max_ident(s)]
    /\ UNCHANGED <<dep, db, next, rd, stored>>

\* The other rows.  One whose key is committed makes the statement fail, and
\* the insertion aborts; one whose key another session wrote makes it wait.
InsertRest(s) ==
    /\ w[s].at = "identified"
    /\ LET rows == insert_rest(w[s].kind, w[s].ident, w[s].x) IN
        /\ \A o \in Sessions \ {s} :
               w[o].at = "written" => Keys(rows) \cap Keys(w[o].own) = {}
        /\ w' = [w EXCEPT ![s] =
                    IF Keys(rows) \cap Keys(db) # {} THEN NoInsertion
                    ELSE [w[s] EXCEPT !.at = "written", !.own = w[s].own \cup rows]]
    /\ UNCHANGED <<dep, db, next, rd, stored>>

\* A commit or a deletion makes what a read in progress finds undefined when
\* it concerns the message being read.
Touch(kind, idents) ==
    IF rd.at = "reading" /\ rd.kind = kind /\ rd.m \in idents
    THEN [rd EXCEPT !.touched = TRUE] ELSE rd

Commit(s) ==
    /\ w[s].at = "written"
    /\ db' = db \cup w[s].own
    /\ stored' = stored \cup {[kind |-> w[s].kind, m |-> w[s].head, x |-> w[s].x]}
    /\ rd' = Touch(w[s].kind, {w[s].head})
    /\ w' = [w EXCEPT ![s] = NoInsertion]
    /\ UNCHANGED <<dep, next>>

\* A statement fails or the connection is lost.
Abort(s) ==
    /\ w[s].at # "idle"
    /\ w' = [w EXCEPT ![s] = NoInsertion]
    /\ UNCHANGED <<dep, db, next, rd, stored>>

----------------------------------------------------------------------------
(* Deletion of any set of idents, among them idents that are not there or   *)
(* are those of messages of the other kind: one transaction.                *)

Delete(kind, idents) ==
    /\ dep.deleting /\ idents # {}
    /\ db' = delete_message(db, kind, idents)
    /\ stored' = {t \in stored : t.kind # kind \/ t.m \notin idents}
    /\ rd' = Touch(kind, idents)
    /\ UNCHANGED <<dep, next, w>>

----------------------------------------------------------------------------
(* Reading: one query (or group of queries) per part, no transaction.       *)

StartRead(kind, m) ==
    /\ dep.reading /\ rd.at = "idle"
    /\ rd' = [at |-> "reading", kind |-> kind, m |-> m, k |-> 1, got |-> [v |-> ""],
              was |-> {t.x : t \in {q \in stored : q.kind = kind /\ q.m = m}},
              touched |-> FALSE, partial |-> {}]
    /\ UNCHANGED <<dep, db, next, w, stored>>

\* The first row says whether the message exists.  When there is none and the
\* plugin returned an empty table, fetch_row leaves the row pointer unset and
\* the field is read through it all the same: an error, or a message without
\* messageid, if not worse.
ReadHead ==
    /\ rd.at = "reading" /\ rd.k = 1
    /\ LET head == get_message_head(db, rd.kind, rd.m) IN
        \/ /\ head # {}
           /\ \E h \in head : rd' = [rd EXCEPT !.k = 2, !.got = h]
        \/ head = {} /\ rd' = Idle
        \/ head = {} /\ dep.empty_tables /\ rd' = [rd EXCEPT !.k = 2]
    /\ UNCHANGED <<dep, db, next, w, stored>>

\* The query, or group of queries, of a part: what it answers, less what is
\* lost to an error that is swallowed.
ReadPart ==
    /\ rd.at = "reading" /\ rd.k \in 2..Len(Parts(rd.kind))
    /\ LET part == Parts(rd.kind)[rd.k] IN
       \E e \in LostErrors(db, rd.kind, rd.m, part, dep.empty_tables) :
          LET value == get_part(db, rd.kind, rd.m, part, dep.empty_tables, e)
          IN  rd' = [rd EXCEPT !.k = @ + 1,
                     !.got = [f \in DOMAIN @ \cup {part} |-> IF f = part THEN value ELSE @[f]],
                     !.partial = IF e = NoErrors THEN @ ELSE @ \cup {part}]
    /\ UNCHANGED <<dep, db, next, w, stored>>

\* A query fails and its error is not swallowed: the message built so far is
\* destroyed.
ReadFails ==
    /\ rd.at = "reading"
    /\ rd' = Idle
    /\ UNCHANGED <<dep, db, next, w, stored>>

ReadComplete == rd.at = "reading" /\ rd.k > Len(Parts(rd.kind))

\* The message is handed over.
EndRead ==
    /\ ReadComplete
    /\ rd' = Idle
    /\ UNCHANGED <<dep, db, next, w, stored>>

Next ==
    \/ \E s \in Sessions : \/ InsertFirstRow(s) \/ get_last_insert_ident(s)
                           \/ InsertRest(s) \/ Commit(s) \/ Abort(s)
    \/ \E kind \in Kinds : \E idents \in SUBSET Idents : Delete(kind, idents)
    \/ \E kind \in Kinds : \E m \in Idents : StartRead(kind, m)
    \/ ReadHead \/ ReadPart \/ ReadFails \/ EndRead

Spec == Init /\ [][Next]_vars

----------------------------------------------------------------------------
(* Properties.                                                              *)

\* Type invariant: rows carry idents that were given, an insertion holds rows
\* of its own message only, a reader has the parts it went through.
TypeOK ==
    /\ dep \in Deployments
    /\ next \in [Kinds -> 1..(MaxIdent + 1)]
    /\ \A r \in db : r.m \in Idents /\ r.i \in Nat \cup {-1, NoIndex}
    /\ \A s \in Sessions : w[s].at \in {"idle", "inserted", "identified", "written"}
    /\ \A s \in Sessions : w[s].at # "idle" =>
           w[s].kind \in Kinds /\ w[s].x \in dep.messages[w[s].kind] /\ w[s].head \in Idents
    /\ rd.at \in {"idle", "reading"}
    /\ rd.at = "reading" => DOMAIN rd.got = {Parts(rd.kind)[k] : k \in 1..(rd.k - 1)} \cup {"v"}

MessageRows(t) == insert_message_messageid(t.kind, t.m, t.x) \cup insert_rest(t.kind, t.m, t.x)

\* The database holds exactly the rows of the messages that were reported
\* stored and not deleted: an insertion never writes under the ident of
\* another message, a deletion leaves no row of its message behind and takes
\* none of a message of the other kind with the same ident.
StoredExactly == db = UNION {MessageRows(t) : t \in stored}

\* The columns the schema makes a primary key identify a row: the numbering of
\* nested lists, the copies under -1 and the parent types never make two rows
\* of one message collide, which would make it impossible to insert.
KeysHold == Cardinality(Keys(db)) = Cardinality(db)

\* A stored message with its assessment as an engine with empty tables
\* returns it.
AsRead(x) ==
    IF dep.empty_tables /\ "assessment" \in DOMAIN x /\ x.assessment = {}
    THEN [x EXCEPT !.assessment = {[v |-> "", impact |-> {}, confidence |-> {}, action |-> <<>>]}]
    ELSE x

\* What an element can be reduced to by an error that is swallowed: its
\* service, or its last files, are missing, nothing else.
Reduced(y, x) ==
    /\ DOMAIN y = DOMAIN x
    /\ \A f \in DOMAIN x \ {"service", "file"} : y[f] = x[f]
    /\ y.service \in {x.service, {}}
    /\ "file" \in DOMAIN x => IsPrefix(y.file, x.file) /\ (y.file = <<>> => x.file = <<>>)

\* A list that lost its last elements, of elements reduced that way.
Beginning(got, whole) ==
    /\ Len(got) \in 1..Len(whole)
    /\ \A k \in DOMAIN got : Reduced(got[k], whole[k])

\* Reading a message that is neither inserted nor deleted meanwhile returns
\* the message that was inserted, every element in its list and in its place,
\* whatever happens to other messages between two queries.  A failing query
\* is an error, or costs no more than a service or the end of a list: what is
\* left is never attached to another element.  An ident that names no message
\* is reported as an error, except by an engine with empty tables.
ReadIsExact ==
    ReadComplete /\ ~rd.touched =>
        IF rd.was = {} THEN dep.empty_tables
        ELSE \E x \in rd.was :
            LET whole == AsRead(x) IN
            /\ DOMAIN rd.got = DOMAIN whole
            /\ \A part \in DOMAIN whole :
                   IF part \in rd.partial THEN Beginning(rd.got[part], whole[part])
                   ELSE rd.got[part] = whole[part]

\* The elements a path names in a message.
Child(x, step) ==
    IF step.i = Forbidden THEN x[step.n]
    ELSE LET s == x[step.n] IN
         {s[k] : k \in {j \in DOMAIN s : \/ step.i = Undefined
                                         \/ step.i = j - 1
                                         \/ step.i = -1 /\ j = Len(s)}}

Denoted(x, path) ==
    LET last == path[Len(path)]
        parents == FoldLeft(LAMBDA xs, step : UNION {Child(y, step) : y \in xs}, {x},
                            SubSeq(path, 2, Len(path) - 1))
    IN  IF last.n = "v" THEN {y.v : y \in parents}
        ELSE {y.v : y \in UNION {Child(z, last) : z \in parents}}

\* A path, with any mixture of numbers, -1 and no index on its lists, selects
\* in the tables the very elements it names in the message, each once.  (The
\* committed rows do not depend on the reader or on open insertions: it is
\* enough to look when there are none.)
PathsSelect ==
    rd.at = "idle" /\ (\A s \in Sessions : w[s].at = "idle") =>
        \A t \in stored : \A path \in Paths[t.kind] :
            LET rows == classic_path_resolve(db, path, t.m)
            IN  /\ {r.v : r \in rows} = Denoted(t.x, path)
                /\ Cardinality(rows) = Cardinality(Denoted(t.x, path))

\* preludedb_insert_message returns 0 on success: a message it reported
\* inserted, and that nobody deleted, can be read back.
InsertedIsReadable ==
    \A t \in stored :
        /\ get_message_head(db, t.kind, t.m) = {[v |-> t.x.v]}
        /\ \A k \in 2..Len(Parts(t.kind)) :
               get_part(db, t.kind, t.m, Parts(t.kind)[k], dep.empty_tables, NoErrors)
                   = AsRead(t.x)[Parts(t.kind)[k]]
=============================================================================
