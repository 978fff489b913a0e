---------------------------- MODULE ClassicRows ----------------------------
(***************************************************************************)
(* The relational form of IDMEF messages in the classic format: the rows    *)
(* classic-insert.c writes, how classic-get.c builds a message from them,   *)
(* what classic-delete.c removes, and which rows a path selects once        *)
(* classic-path-resolve.c and classic-sql-join.c made a query of it.        *)
(*                                                                          *)
(* An IDMEF object is a record: v stands for all its scalar attributes, a   *)
(* child is a set of at most one object (the create_time, mandatory in      *)
(* IDMEF, a set of exactly one), a list of children is a sequence.  A row   *)
(* keeps the columns that identify it: _parent_type (pt),                   *)
(* _message_ident (m), the _parentN_index columns (p) and _index (i).       *)
(* A table bears the name of the IDMEF class it stores.                     *)
(***************************************************************************)
EXTENDS Integers, Sequences, FiniteSets, SequencesExt

CONSTANT CharHalf    \* a C char holds -CharHalf .. CharHalf - 1

ASSUME CharHalfAssumption == CharHalf \in Nat \ {0}

NoType == "-"        \* the table has no _parent_type column
NoIndex == -2        \* the table has no _index column

Kinds == {"alert", "heartbeat"}

----------------------------------------------------------------------------
(* The objects an IDMEF message is built of.                                *)

IsLeaf(x) == "v" \in DOMAIN x

IsOpt(Is(_), o) == (\A a, b \in o : a = b) /\ \A a \in o : Is(a)

IsSeq(s) == Len(s) \in Nat /\ s = [k \in 1..Len(s) |-> s[k]]

IsList(Is(_), s) == IsSeq(s) /\ \A k \in DOMAIN s : Is(s[k])

IsNode(x) == IsList(IsLeaf, x.address)
IsUser(x) == IsList(IsLeaf, x.user_id)
IsProcess(x) == IsList(IsLeaf, x.arg) /\ IsList(IsLeaf, x.env)
IsWebService(x) == IsList(IsLeaf, x.arg)
IsService(x) == IsOpt(IsWebService, x.web_service) /\ IsOpt(IsLeaf, x.snmp_service)

IsFileAccess(x) == IsOpt(IsLeaf, x.user_id) /\ IsList(IsLeaf, x.permission)

IsFile(x) ==
    /\ IsList(IsFileAccess, x.file_access) /\ IsList(IsLeaf, x.linkage)
    /\ IsOpt(IsLeaf, x.inode) /\ IsList(IsLeaf, x.checksum)

IsSource(x) ==
    /\ IsOpt(IsNode, x.node) /\ IsOpt(IsUser, x.user)
    /\ IsOpt(IsProcess, x.process) /\ IsOpt(IsService, x.service)

IsTarget(x) == IsSource(x) /\ IsList(IsFile, x.file)

IsAnalyzer(x) == IsOpt(IsNode, x.node) /\ IsOpt(IsProcess, x.process)

IsClassification(x) == IsList(IsLeaf, x.reference)

IsAssessment(x) ==
    /\ IsOpt(IsLeaf, x.impact) /\ IsOpt(IsLeaf, x.confidence) /\ IsList(IsLeaf, x.action)

\* Of a tool alert and of a correlation alert.
IsRelatedAlert(x) == IsList(IsLeaf, x.alertident)

IsHeartbeat(x) ==
    /\ x.create_time # {} /\ IsOpt(IsLeaf, x.create_time) /\ IsOpt(IsLeaf, x.analyzer_time)
    /\ IsList(IsAnalyzer, x.analyzer) /\ IsList(IsLeaf, x.additional_data)

IsAlert(x) ==
    /\ IsHeartbeat(x)
    /\ IsOpt(IsLeaf, x.detect_time) /\ IsOpt(IsAssessment, x.assessment)
    /\ IsOpt(IsRelatedAlert, x.tool_alert) /\ IsOpt(IsRelatedAlert, x.correlation_alert)
    /\ IsOpt(IsLeaf, x.overflow_alert) /\ IsOpt(IsClassification, x.classification)
    /\ IsList(IsSource, x.source) /\ IsList(IsTarget, x.target)

IsMessage(kind, x) == IF kind = "alert" THEN IsAlert(x) ELSE IsHeartbeat(x)

----------------------------------------------------------------------------
(* Insertion.  Every list is numbered from 0; most lists also store their   *)
(* last element a second time under index -1, so that a path can ask for    *)
(* it without knowing how long the list is.                                 *)

Row(table, pt, m, p, i, x) ==
    {[table |-> table, pt |-> pt, m |-> m, p |-> p, i |-> i, v |-> x.v]}

Opt(Insert(_), o) == UNION {Insert(x) : x \in o}

Numbered(Insert(_, _), s) == UNION {Insert(k - 1, s[k]) : k \in DOMAIN s}

Listed(Insert(_, _), s) ==
    Numbered(Insert, s) \cup IF s = <<>> THEN {} ELSE Insert(-1, Last(s))

insert_address(pt, m, p, i, a) == Row("address", pt, m, <<p>>, i, a)

insert_node(pt, m, p, n) ==
    Row("node", pt, m, <<p>>, NoIndex, n)
        \cup Listed(LAMBDA i, a : insert_address(pt, m, p, i, a), n.address)

insert_user_id(pt, m, parents, i, u) == Row("user_id", pt, m, parents, i, u)

insert_user(pt, m, p, u) ==
    Row("user", pt, m, <<p>>, NoIndex, u)
        \cup Listed(LAMBDA i, x : insert_user_id(pt, m, <<p, 0, 0>>, i, x), u.user_id)

insert_process_arg(pt, m, p, i, a) == Row("process_arg", pt, m, <<p>>, i, a)

insert_process_env(pt, m, p, i, e) == Row("process_env", pt, m, <<p>>, i, e)

\* Arguments and environment have no copy under -1.
insert_process(pt, m, p, x) ==
    Row("process", pt, m, <<p>>, NoIndex, x)
        \cup Numbered(LAMBDA i, a : insert_process_arg(pt, m, p, i, a), x.arg)
        \cup Numbered(LAMBDA i, e : insert_process_env(pt, m, p, i, e), x.env)

insert_snmp_service(pt, m, p, x) == Row("snmp_service", pt, m, <<p>>, NoIndex, x)

insert_web_service_arg(pt, m, p, i, a) == Row("web_service_arg", pt, m, <<p>>, i, a)

insert_web_service(pt, m, p, x) ==
    Row("web_service", pt, m, <<p>>, NoIndex, x)
        \cup Listed(LAMBDA i, a : insert_web_service_arg(pt, m, p, i, a), x.arg)

insert_service(pt, m, p, x) ==
    Row("service", pt, m, <<p>>, NoIndex, x)
        \cup Opt(LAMBDA w : insert_web_service(pt, m, p, w), x.web_service)
        \cup Opt(LAMBDA s : insert_snmp_service(pt, m, p, s), x.snmp_service)

insert_inode(m, t, f, x) == Row("inode", NoType, m, <<t, f>>, NoIndex, x)

insert_linkage(m, t, f, i, x) == Row("linkage", NoType, m, <<t, f>>, i, x)

insert_checksum(m, t, f, i, x) == Row("checksum", NoType, m, <<t, f>>, i, x)

\* Mutation: the permissions of all accesses of a file share their keys.
insert_permission_of_file(m, t, f, fa, i, x) ==
    Row("file_access_permission", NoType, m, <<t, f, 0>>, i, x)

insert_file_access_permission(m, t, f, fa, i, x) ==
    Row("file_access_permission", NoType, m, <<t, f, fa>>, i, x)

insert_file_access(m, t, f, i, x) ==
    Row("file_access", NoType, m, <<t, f>>, i, x)
        \cup Listed(LAMBDA k, q : insert_file_access_permission(m, t, f, i, k, q), x.permission)
        \cup Opt(LAMBDA u : insert_user_id("F", m, <<t, f, i>>, 0, u), x.user_id)

insert_file(m, t, i, x) ==
    Row("file", NoType, m, <<t>>, i, x)
        \cup Listed(LAMBDA k, a : insert_file_access(m, t, i, k, a), x.file_access)
        \cup Listed(LAMBDA k, l : insert_linkage(m, t, i, k, l), x.linkage)
        \cup Opt(LAMBDA n : insert_inode(m, t, i, n), x.inode)
        \cup Listed(LAMBDA k, c : insert_checksum(m, t, i, k, c), x.checksum)

\* What a source and a target have in common.
insert_endpoint(pt, m, i, x) ==
    Opt(LAMBDA n : insert_node(pt, m, i, n), x.node)
        \cup Opt(LAMBDA u : insert_user(pt, m, i, u), x.user)
        \cup Opt(LAMBDA q : insert_process(pt, m, i, q), x.process)
        \cup Opt(LAMBDA s : insert_service(pt, m, i, s), x.service)

insert_source(m, i, x) ==
    Row("source", NoType, m, <<>>, i, x) \cup insert_endpoint("S", m, i, x)

insert_target(m, i, x) ==
    Row("target", NoType, m, <<>>, i, x)
        \cup insert_endpoint("T", m, i, x)
        \cup Listed(LAMBDA k, f : insert_file(m, i, k, f), x.file)

insert_analyzer(pt, m, i, x) ==
    Row("analyzer", pt, m, <<>>, i, x)
        \cup Opt(LAMBDA n : insert_node(pt, m, i, n), x.node)
        \cup Opt(LAMBDA q : insert_process(pt, m, i, q), x.process)

insert_additional_data(pt, m, i, x) == Row("additional_data", pt, m, <<>>, i, x)

insert_createtime(pt, m, x) == Row("create_time", pt, m, <<>>, NoIndex, x)

insert_detecttime(m, x) == Row("detect_time", NoType, m, <<>>, NoIndex, x)

insert_analyzertime(pt, m, x) == Row("analyzer_time", pt, m, <<>>, NoIndex, x)

insert_reference(m, i, x) == Row("reference", NoType, m, <<>>, i, x)

insert_classification(m, x) ==
    Row("classification", NoType, m, <<>>, NoIndex, x)
        \cup Listed(LAMBDA i, r : insert_reference(m, i, r), x.reference)

insert_impact(m, x) == Row("impact", NoType, m, <<>>, NoIndex, x)

insert_confidence(m, x) == Row("confidence", NoType, m, <<>>, NoIndex, x)

insert_action(m, i, x) == Row("action", NoType, m, <<>>, i, x)

insert_assessment(m, x) ==
    Row("assessment", NoType, m, <<>>, NoIndex, x)
        \cup Opt(LAMBDA y : insert_impact(m, y), x.impact)
        \cup Opt(LAMBDA y : insert_confidence(m, y), x.confidence)
        \cup Listed(LAMBDA i, a : insert_action(m, i, a), x.action)

insert_alertident(pt, m, i, x) == Row("alertident", pt, m, <<>>, i, x)

\* The alert idents of a tool alert have no copy under -1.
insert_tool_alert(m, x) ==
    Row("tool_alert", NoType, m, <<>>, NoIndex, x)
        \cup Numbered(LAMBDA i, a : insert_alertident("T", m, i, a), x.alertident)

insert_correlation_alert(m, x) ==
    Row("correlation_alert", NoType, m, <<>>, NoIndex, x)
        \cup Listed(LAMBDA i, a : insert_alertident("C", m, i, a), x.alertident)

insert_overflow_alert(m, x) == Row("overflow_alert", NoType, m, <<>>, NoIndex, x)

\* The row the database gives an ident to, written before all others.
insert_message_messageid(kind, m, x) == Row(kind, NoType, m, <<>>, NoIndex, x)

insert_alert(m, x) ==
    Opt(LAMBDA y : insert_createtime("A", m, y), x.create_time)
        \cup Opt(LAMBDA y : insert_detecttime(m, y), x.detect_time)
        \cup Opt(LAMBDA y : insert_analyzertime("A", m, y), x.analyzer_time)
        \cup Opt(LAMBDA y : insert_assessment(m, y), x.assessment)
        \cup Opt(LAMBDA y : insert_tool_alert(m, y), x.tool_alert)
        \cup Opt(LAMBDA y : insert_overflow_alert(m, y), x.overflow_alert)
        \cup Opt(LAMBDA y : insert_correlation_alert(m, y), x.correlation_alert)
        \cup Listed(LAMBDA i, y : insert_analyzer("A", m, i, y), x.analyzer)
        \cup Listed(LAMBDA i, y : insert_source(m, i, y), x.source)
        \cup Listed(LAMBDA i, y : insert_target(m, i, y), x.target)
        \cup Opt(LAMBDA y : insert_classification(m, y), x.classification)
        \cup Listed(LAMBDA i, y : insert_additional_data("A", m, i, y), x.additional_data)

insert_heartbeat(m, x) ==
    Listed(LAMBDA i, y : insert_analyzer("H", m, i, y), x.analyzer)
        \cup Opt(LAMBDA y : insert_createtime("H", m, y), x.create_time)
        \cup Opt(LAMBDA y : insert_analyzertime("H", m, y), x.analyzer_time)
        \cup Listed(LAMBDA i, y : insert_additional_data("H", m, i, y), x.additional_data)

\* What a message has beside its first row.
insert_rest(kind, m, x) ==
    IF kind = "alert" THEN insert_alert(m, x) ELSE insert_heartbeat(m, x)

----------------------------------------------------------------------------
(* Retrieval.  A list is read in the order of _index, leaving out the copy  *)
(* under -1; the children of its k-th element are then looked up under      *)
(* index k, whatever _index the element was read from.                      *)

Sel(db, table, pt, m, p) ==
    {r \in db : r.table = table /\ r.pt = pt /\ r.m = m /\ r.p = p}

First(rows, Build(_)) == IF rows = {} THEN {} ELSE {Build((CHOOSE r \in rows : TRUE).v)}

Items(rows, Build(_, _)) ==
    LET s == SetToSortSeq({r \in rows : r.i # -1}, LAMBDA a, b : a.i < b.i)
    IN  [k \in DOMAIN s |-> Build(k - 1, s[k].v)]

\* The errors of queries that the functions below swallow, answering with
\* success: service, the indexes whose service could not be looked up; scan,
\* the number of rows fetched when the scan of a list of sources or targets
\* broke (an empty set: it did not); file, for targets, that number for the
\* scan of their files.  All other errors end the read.
NoErrors == [service |-> {}, scan |-> {}, file |-> {}]

\* The elements a broken scan had come to.
Reached(s, scan) == [k \in {j \in DOMAIN s : \A n \in scan : j <= n} |-> s[k]]

Plain(v) == [v |-> v]
Values(rows) == Items(rows, LAMBDA k, v : Plain(v))
Single(rows) == First(rows, Plain)

\* Conversion of an int to a (signed) char.
Char(n) == ((n + CharHalf) % (2 * CharHalf)) - CharHalf

get_address(db, m, pt, p) == Values(Sel(db, "address", pt, m, <<p>>))

get_node(db, m, pt, p) ==
    First(Sel(db, "node", pt, m, <<p>>),
          LAMBDA v : [v |-> v, address |-> get_address(db, m, pt, p)])

get_user_id(db, m, pt, parents) == Values(Sel(db, "user_id", pt, m, parents))

get_user(db, m, pt, p) ==
    First(Sel(db, "user", pt, m, <<p>>),
          LAMBDA v : [v |-> v, user_id |-> get_user_id(db, m, pt, <<p, 0, 0>>)])

\* Its parent_index is declared char.
get_process_arg(db, m, pt, p) == Values(Sel(db, "process_arg", pt, m, <<Char(p)>>))

get_process_env(db, m, pt, p) == Values(Sel(db, "process_env", pt, m, <<p>>))

get_process(db, m, pt, p) ==
    First(Sel(db, "process", pt, m, <<p>>),
          LAMBDA v : [v |-> v, arg |-> get_process_arg(db, m, pt, p),
                      env |-> get_process_env(db, m, pt, p)])

get_web_service_arg(db, m, pt, p) == Values(Sel(db, "web_service_arg", pt, m, <<p>>))

get_web_service(db, m, pt, p) ==
    First(Sel(db, "web_service", pt, m, <<p>>),
          LAMBDA v : [v |-> v, arg |-> get_web_service_arg(db, m, pt, p)])

get_snmp_service(db, m, pt, p) == Single(Sel(db, "snmp_service", pt, m, <<p>>))

\* A negative answer to the query is taken for no service.
get_service(db, m, pt, p, e) ==
    First({r \in Sel(db, "service", pt, m, <<p>>) : p \notin e.service},
          LAMBDA v : [v |-> v, web_service |-> get_web_service(db, m, pt, p),
                      snmp_service |-> get_snmp_service(db, m, pt, p)])

get_file_access_permission(db, m, t, f, fa) ==
    Values(Sel(db, "file_access_permission", NoType, m, <<t, f, fa>>))

\* Counts the rows and looks the children up under 0 .. count - 1; an access
\* has one user id, the last one read.
get_file_access(db, m, t, f) ==
    Items(Sel(db, "file_access", NoType, m, <<t, f>>),
          LAMBDA k, v : [v |-> v,
              user_id |-> LET u == get_user_id(db, m, "F", <<t, f, k>>)
                          IN  IF u = <<>> THEN {} ELSE {Last(u)},
              permission |-> get_file_access_permission(db, m, t, f, k)])

get_linkage(db, m, t, f) == Values(Sel(db, "linkage", NoType, m, <<t, f>>))

get_inode(db, m, t, f) == Single(Sel(db, "inode", NoType, m, <<t, f>>))

get_checksum(db, m, t, f) == Values(Sel(db, "checksum", NoType, m, <<t, f>>))

\* The scans of get_file, get_source and get_target keep the rows fetched
\* before an error, if any, and the error is overwritten by the next query.
get_file(db, m, t, e) ==
    LET files ==
            Items(Sel(db, "file", NoType, m, <<t>>),
                  LAMBDA k, v : [v |-> v, file_access |-> get_file_access(db, m, t, k),
                                 linkage |-> get_linkage(db, m, t, k),
                                 inode |-> get_inode(db, m, t, k),
                                 checksum |-> get_checksum(db, m, t, k)])
    IN  Reached(files, {n \in DOMAIN files : <<t, n>> \in e.file})

\* Mutation: the children of a source are looked up one index too far.
get_source_shifted(db, m, e) ==
    Reached(Items(Sel(db, "source", NoType, m, <<>>),
                  LAMBDA k, v : [v |-> v, node |-> get_node(db, m, "S", k + 1),
                                 user |-> get_user(db, m, "S", k + 1),
                                 process |-> get_process(db, m, "S", k + 1),
                                 service |-> get_service(db, m, "S", k + 1, e)]),
            e.scan)

get_source(db, m, e) ==
    Reached(Items(Sel(db, "source", NoType, m, <<>>),
                  LAMBDA k, v : [v |-> v, node |-> get_node(db, m, "S", k),
                                 user |-> get_user(db, m, "S", k),
                                 process |-> get_process(db, m, "S", k),
                                 service |-> get_service(db, m, "S", k, e)]),
            e.scan)

get_target(db, m, e) ==
    Reached(Items(Sel(db, "target", NoType, m, <<>>),
                  LAMBDA k, v : [v |-> v, node |-> get_node(db, m, "T", k),
                                 user |-> get_user(db, m, "T", k),
                                 process |-> get_process(db, m, "T", k),
                                 service |-> get_service(db, m, "T", k, e),
                                 file |-> get_file(db, m, k, e)]),
            e.scan)

get_analyzer(db, m, pt) ==
    Items(Sel(db, "analyzer", pt, m, <<>>),
          LAMBDA k, v : [v |-> v, node |-> get_node(db, m, pt, k),
                         process |-> get_process(db, m, pt, k)])

get_additional_data(db, m, pt) == Values(Sel(db, "additional_data", pt, m, <<>>))

get_create_time(db, m, pt) == Single(Sel(db, "create_time", pt, m, <<>>))

get_detect_time(db, m) == Single(Sel(db, "detect_time", NoType, m, <<>>))

get_analyzer_time(db, m, pt) == Single(Sel(db, "analyzer_time", pt, m, <<>>))

get_reference(db, m) == Values(Sel(db, "reference", NoType, m, <<>>))

get_classification(db, m) ==
    First(Sel(db, "classification", NoType, m, <<>>),
          LAMBDA v : [v |-> v, reference |-> get_reference(db, m)])

get_impact(db, m) == Single(Sel(db, "impact", NoType, m, <<>>))

get_confidence(db, m) == Single(Sel(db, "confidence", NoType, m, <<>>))

get_action(db, m) == Values(Sel(db, "action", NoType, m, <<>>))

\* The only query of which nothing but the return value is looked at: a
\* plugin that returns a table without rows (empty_tables) makes an assessment.
get_assessment(db, m, empty_tables) ==
    IF Sel(db, "assessment", NoType, m, <<>>) = {} /\ ~empty_tables THEN {}
    ELSE {[v |-> "", impact |-> get_impact(db, m), confidence |-> get_confidence(db, m),
           action |-> get_action(db, m)]}

get_alertident(db, m, pt) == Values(Sel(db, "alertident", pt, m, <<>>))

get_tool_alert(db, m) ==
    First(Sel(db, "tool_alert", NoType, m, <<>>),
          LAMBDA v : [v |-> v, alertident |-> get_alertident(db, m, "T")])

get_correlation_alert(db, m) ==
    First(Sel(db, "correlation_alert", NoType, m, <<>>),
          LAMBDA v : [v |-> v, alertident |-> get_alertident(db, m, "C")])

get_overflow_alert(db, m) == Single(Sel(db, "overflow_alert", NoType, m, <<>>))

\* The parts of a message in the order they are read.
Parts(kind) ==
    IF kind = "alert"
    THEN <<"v", "assessment", "analyzer", "create_time", "detect_time", "analyzer_time",
           "source", "target", "classification", "additional_data", "tool_alert",
           "correlation_alert", "overflow_alert">>
    ELSE <<"v", "analyzer", "create_time", "analyzer_time", "additional_data">>

get_message_head(db, kind, m) == Single(Sel(db, kind, NoType, m, <<>>))

get_part(db, kind, m, part, empty_tables, e) ==
    LET pt == IF kind = "alert" THEN "A" ELSE "H" IN
    CASE part = "v" -> get_message_head(db, kind, m)
      [] part = "assessment" -> get_assessment(db, m, empty_tables)
      [] part = "analyzer" -> get_analyzer(db, m, pt)
      [] part = "create_time" -> get_create_time(db, m, pt)
      [] part = "detect_time" -> get_detect_time(db, m)
      [] part = "analyzer_time" -> get_analyzer_time(db, m, pt)
      [] part = "source" -> get_source(db, m, e)
      [] part = "target" -> get_target(db, m, e)
      [] part = "classification" -> get_classification(db, m)
      [] part = "additional_data" -> get_additional_data(db, m, pt)
      [] part = "tool_alert" -> get_tool_alert(db, m)
      [] part = "correlation_alert" -> get_correlation_alert(db, m)
      [] part = "overflow_alert" -> get_overflow_alert(db, m)

\* The errors that can be swallowed while a part is read.  Rows of an answer are
\* fetched one by one, and fetching can fail, on the plugin that returns tables
\* without rows (sqlite3) only.
LostErrors(db, kind, m, part, empty_tables) ==
    LET whole == get_part(db, kind, m, part, empty_tables, NoErrors)
        broken(s) == IF empty_tables THEN 1..(Len(s) - 1) ELSE {}
    IN  IF part \notin {"source", "target"} THEN {NoErrors}
        ELSE [service : SUBSET {k - 1 : k \in {j \in DOMAIN whole : whole[j].service # {}}},
              scan : {{}} \cup {{n} : n \in broken(whole)},
              file : IF part = "source" THEN {{}}
                     ELSE SUBSET UNION {{k - 1} \X broken(whole[k].file) : k \in DOMAIN whole}]

----------------------------------------------------------------------------
(* Deletion: the rows the statements for a set of idents leave in place.    *)

do_delete_alert(db, idents) ==
    LET shared == {"additional_data", "analyzer", "analyzer_time", "create_time"}
        nested == {"address", "node", "process", "process_arg", "process_env"}
        own == {"action", "alert", "alertident", "assessment", "classification",
                "reference", "confidence", "correlation_alert", "detect_time", "file",
                "file_access", "file_access_permission", "impact", "inode", "checksum",
                "linkage", "overflow_alert", "snmp_service", "service", "source",
                "target", "tool_alert", "user", "user_id", "web_service",
                "web_service_arg"}
    IN  {r \in db : \/ r.m \notin idents
                    \/ r.table \in shared /\ r.pt # "A"
                    \/ r.table \in nested /\ r.pt = "H"
                    \/ r.table \notin shared \cup nested \cup own}

\* Mutation: the statements for heartbeats forget _parent_type.
do_delete_untyped(db, idents) ==
    LET shared == {"additional_data", "address", "analyzer", "analyzer_time",
                   "create_time", "node", "process", "process_arg", "process_env"}
    IN  {r \in db : r.m \notin idents \/ r.table \notin shared \cup {"heartbeat"}}

do_delete_heartbeat(db, idents) ==
    LET shared == {"additional_data", "address", "analyzer", "analyzer_time",
                   "create_time", "node", "process", "process_arg", "process_env"}
    IN  {r \in db : \/ r.m \notin idents
                    \/ r.table \in shared /\ r.pt # "H"
                    \/ r.table \notin shared \cup {"heartbeat"}}

delete_message(db, kind, idents) ==
    IF kind = "alert" THEN do_delete_alert(db, idents) ELSE do_delete_heartbeat(db, idents)

----------------------------------------------------------------------------
(* Paths.  A path is a sequence of steps [n |-> name, i |-> index], the     *)
(* message class first and an attribute last.                               *)

Forbidden == -3      \* the element is not a list
Undefined == -4      \* a list without an index: any element

Name(path, depth) == path[depth + 1].n
Index(path, depth) == path[depth + 1].i
LastName(path) == Name(path, Len(path) - 1)

resolve_parent_type(path) ==
    LET class(d) == IF d < Len(path) - 1 THEN Name(path, d) ELSE NoType IN
    CASE class(0) = "heartbeat" -> "H"
      [] class(1) \in {"classification", "assessment", "overflow_alert"} -> NoType
      [] class(1) = "tool_alert" -> IF class(2) = "alertident" THEN "T" ELSE NoType
      [] class(1) = "correlation_alert" -> IF class(2) = "alertident" THEN "C" ELSE NoType
      [] class(1) = "source" -> IF Len(path) > 3 THEN "S" ELSE NoType
      [] class(1) = "target" ->
            CASE Len(path) = 3 -> NoType
              [] Len(path) # 3 /\ class(2) = "file" ->
                    IF class(3) = "file_access" /\ class(4) = "user_id" THEN "F" ELSE NoType
              [] OTHER -> "T"
      [] OTHER -> IF LastName(path) = "detect_time" THEN NoType ELSE "A"

\* The constraints on _parentN_index come from the lists above the last two
\* elements, the one on _index from the last element that is a list of these.
resolve_indexes(path) ==
    LET d == Len(path)
        index(k) == Index(path, k)
    IN  [p |-> SelectSeq([k \in 1..(IF d > 3 THEN d - 3 ELSE 0) |-> index(k)],
                         LAMBDA i : i # Forbidden),
         i |-> IF index(d - 1) # Forbidden THEN index(d - 1) ELSE index(d - 2)]

resolve_table_name(path) ==
    LET class == Name(path, Len(path) - 2) IN
    CASE LastName(path) \in {"create_time", "detect_time", "analyzer_time"}
            /\ class \in Kinds -> LastName(path)
      [] class = "process" /\ LastName(path) = "arg" -> "process_arg"
      [] class = "process" /\ LastName(path) = "env" -> "process_env"
      [] class = "web_service" /\ LastName(path) = "arg" -> "web_service_arg"
      [] class = "file_access" /\ LastName(path) = "permission" -> "file_access_permission"
      [] OTHER -> class

\* Mutation: a list without an index is not constrained at all.
add_given_constraint(column, index) == index # Undefined => column = index

add_index_constraint(column, index) ==
    IF index = Undefined THEN column # -1 ELSE column = index

\* The rows joined to message m for a path.
join_rows(db, path, m) ==
    LET table == resolve_table_name(path)
        pt == resolve_parent_type(path)
        at == resolve_indexes(path)
    IN  {r \in db : /\ r.table = table
                    /\ pt # NoType => r.pt = pt
                    /\ r.m = m
                    /\ \A k \in DOMAIN at.p : add_index_constraint(r.p[k], at.p[k])
                    /\ at.i # Forbidden => add_index_constraint(r.i, at.i)}

\* An attribute of the message itself is a column of its first row, unless it
\* is a time.
classic_path_resolve(db, path, m) ==
    IF Len(path) = 2 /\ LastName(path) \notin {"create_time", "detect_time", "analyzer_time"}
    THEN Sel(db, Name(path, 0), NoType, m, <<>>)
    ELSE join_rows(db, path, m)
=============================================================================
