------------------------- MODULE ClassicStoreProofs -------------------------
(***************************************************************************)
(* What the tables of the classic format hold, for any messages, any number *)
(* of idents and any number of sessions.                                    *)
(*                                                                          *)
(* The first part is about the rows of one message: they bear its ident,    *)
(* and their table and _parent_type tell a deletion of which kind of        *)
(* message they are.  The second part is about the sessions.                *)
(***************************************************************************)
EXTENDS ClassicStore, FiniteSetTheorems, WellFoundedInduction, TLAPS

Shared == {"additional_data", "analyzer", "analyzer_time", "create_time"}
Nested == {"address", "node", "process", "process_arg", "process_env"}
AlertOnly == {"action", "alert", "alertident", "assessment", "classification",
              "reference", "confidence", "correlation_alert", "detect_time", "file",
              "file_access", "file_access_permission", "impact", "inode", "checksum",
              "linkage", "overflow_alert", "snmp_service", "service", "source",
              "target", "tool_alert", "user", "user_id", "web_service",
              "web_service_arg"}

\* What the two deletions go by.
OfAlert(r) ==
    \/ r.table \in Shared /\ r.pt = "A"
    \/ r.table \in Nested /\ r.pt # "H"
    \/ r.table \in AlertOnly

OfHeartbeat(r) ==
    \/ r.table \in Shared \cup Nested /\ r.pt = "H"
    \/ r.table = "heartbeat"

Belongs(r, kind) == IF kind = "alert" THEN OfAlert(r) ELSE OfHeartbeat(r)

\* A row of message m, of a kind of message, in one of some tables.
Within(rows, m, kind) == \A r \in rows : r.m = m /\ Belongs(r, kind)

\* A row in one of some tables, with a parent type.
Typed(rows, tables, pt, m) == \A r \in rows : r.table \in tables /\ r.pt = pt /\ r.m = m

\* What is under a node or a process is in a table both kinds of message use.
LEMMA NodeRows ==
    ASSUME NEW pt, NEW m, NEW p, NEW n
    PROVE  Typed(insert_node(pt, m, p, n), Nested, pt, m)
BY DEF Typed, insert_node, Listed, Numbered, insert_address, Row, Nested

\* As NodeRows.
LEMMA ProcessRows ==
    ASSUME NEW pt, NEW m, NEW p, NEW x
    PROVE  Typed(insert_process(pt, m, p, x), Nested, pt, m)
BY DEF Typed, insert_process, Numbered, insert_process_arg, insert_process_env, Row, Nested

\* Users and services are elements of alerts only.
LEMMA UserRows ==
    ASSUME NEW pt, NEW m, NEW p, NEW x
    PROVE  Typed(insert_user(pt, m, p, x), AlertOnly, pt, m)
BY DEF Typed, insert_user, Listed, Numbered, insert_user_id, Row, AlertOnly

\* As UserRows.
LEMMA ServiceRows ==
    ASSUME NEW pt, NEW m, NEW p, NEW x
    PROVE  Typed(insert_service(pt, m, p, x), AlertOnly, pt, m)
BY DEF Typed, insert_service, Opt, insert_web_service, insert_snmp_service, Listed, Numbered,
       insert_web_service_arg, Row, AlertOnly

\* An access has a user id of its own, with a parent type of its own.
LEMMA FileAccessRows ==
    ASSUME NEW m, NEW t, NEW f, NEW i, NEW x
    PROVE  \A r \in insert_file_access(m, t, f, i, x) : r.table \in AlertOnly /\ r.m = m
BY DEF insert_file_access, Listed, Numbered, Opt, insert_file_access_permission, insert_user_id,
       Row, AlertOnly

\* As FileAccessRows.
LEMMA FileRows ==
    ASSUME NEW m, NEW t, NEW i, NEW x
    PROVE  \A r \in insert_file(m, t, i, x) : r.table \in AlertOnly /\ r.m = m
BY FileAccessRows
   DEF insert_file, Listed, Numbered, Opt, insert_linkage, insert_inode, insert_checksum,
       Row, AlertOnly

\* The parts a source and a target share are told from those of a heartbeat
\* by the parent type.
LEMMA EndpointRows ==
    ASSUME NEW pt \in {"S", "T"}, NEW m, NEW i, NEW x
    PROVE  Within(insert_endpoint(pt, m, i, x), m, "alert")
<1>1. ASSUME NEW r \in insert_endpoint(pt, m, i, x)
      PROVE  r.m = m /\ OfAlert(r)
  <2>1. \/ \E n \in x.node : r \in insert_node(pt, m, i, n)
        \/ \E u \in x.user : r \in insert_user(pt, m, i, u)
        \/ \E q \in x.process : r \in insert_process(pt, m, i, q)
        \/ \E s \in x.service : r \in insert_service(pt, m, i, s)
        BY <1>1 DEF insert_endpoint, Opt
  <2> QED  BY <2>1, NodeRows, UserRows, ProcessRows, ServiceRows DEF Typed, OfAlert
<1> QED  BY <1>1 DEF Within, Belongs

\* An analyzer is found again by its parent type.
LEMMA AnalyzerRows ==
    ASSUME NEW kind \in Kinds, NEW m, NEW i, NEW x
    PROVE  Within(insert_analyzer(IF kind = "alert" THEN "A" ELSE "H", m, i, x), m, kind)
<1> DEFINE pt == IF kind = "alert" THEN "A" ELSE "H"
<1>1. ASSUME NEW r \in insert_analyzer(pt, m, i, x)
      PROVE  r.m = m /\ r.pt = pt /\ r.table \in Shared \cup Nested
  <2>1. \/ r \in Row("analyzer", pt, m, <<>>, i, x)
        \/ \E n \in x.node : r \in insert_node(pt, m, i, n)
        \/ \E q \in x.process : r \in insert_process(pt, m, i, q)
        BY <1>1 DEF insert_analyzer, Opt
  <2> QED  BY <2>1, NodeRows, ProcessRows DEF Typed, Row, Shared
<1> QED  BY <1>1 DEF Within, Belongs, OfAlert, OfHeartbeat, Kinds

\* The elements of a source and of a target.
LEMMA SourceRows ==
    ASSUME NEW m, NEW i, NEW x
    PROVE  Within(insert_source(m, i, x), m, "alert")
BY EndpointRows DEF insert_source, Row, Within, Belongs, OfAlert, AlertOnly

\* As SourceRows.
LEMMA TargetRows ==
    ASSUME NEW m, NEW i, NEW x
    PROVE  Within(insert_target(m, i, x), m, "alert")
<1>1. ASSUME NEW r \in insert_target(m, i, x)
      PROVE  r.m = m /\ OfAlert(r)
  <2>1. \/ r \in Row("target", NoType, m, <<>>, i, x)
        \/ r \in insert_endpoint("T", m, i, x)
        \/ \E k, f : r \in insert_file(m, i, k, f)
        BY <1>1 DEF insert_target, Listed, Numbered
  <2>2. CASE r \in insert_endpoint("T", m, i, x)
        BY <2>2, EndpointRows DEF Within, Belongs
  <2> QED  BY <2>1, <2>2, FileRows DEF Row, OfAlert, AlertOnly
<1> QED  BY <1>1 DEF Within, Belongs

\* What is only in an alert.
LEMMA AlertPartRows ==
    ASSUME NEW m, NEW x
    PROVE  /\ Within(insert_detecttime(m, x), m, "alert")
           /\ Within(insert_assessment(m, x), m, "alert")
           /\ Within(insert_tool_alert(m, x), m, "alert")
           /\ Within(insert_overflow_alert(m, x), m, "alert")
           /\ Within(insert_correlation_alert(m, x), m, "alert")
           /\ Within(insert_classification(m, x), m, "alert")
<1> USE DEF Within, Belongs, OfAlert, AlertOnly, Row, Listed, Numbered, Opt
<1>1. Within(insert_detecttime(m, x), m, "alert")
      BY DEF insert_detecttime
<1>2. Within(insert_assessment(m, x), m, "alert")
      BY DEF insert_assessment, insert_impact, insert_confidence, insert_action
<1>3. Within(insert_tool_alert(m, x), m, "alert")
      BY DEF insert_tool_alert, insert_alertident
<1>4. Within(insert_overflow_alert(m, x), m, "alert")
      BY DEF insert_overflow_alert
<1>5. Within(insert_correlation_alert(m, x), m, "alert")
      BY DEF insert_correlation_alert, insert_alertident
<1>6. Within(insert_classification(m, x), m, "alert")
      BY DEF insert_classification, insert_reference
<1> QED  BY <1>1, <1>2, <1>3, <1>4, <1>5, <1>6

\* What an alert and a heartbeat have in common bears the parent type.
LEMMA CommonRows ==
    ASSUME NEW kind \in Kinds, NEW m, NEW i, NEW x
    PROVE  /\ Within(insert_createtime(IF kind = "alert" THEN "A" ELSE "H", m, x), m, kind)
           /\ Within(insert_analyzertime(IF kind = "alert" THEN "A" ELSE "H", m, x), m, kind)
           /\ Within(insert_additional_data(IF kind = "alert" THEN "A" ELSE "H", m, i, x), m, kind)
           /\ Within(insert_message_messageid(kind, m, x), m, kind)
BY DEF Kinds, Within, Belongs, OfAlert, OfHeartbeat, AlertOnly, Shared, Row, insert_createtime,
       insert_analyzertime, insert_additional_data, insert_message_messageid

\* Every row of a message bears its ident and tells its kind.
LEMMA RestRows ==
    ASSUME NEW kind \in Kinds, NEW m, NEW x
    PROVE  Within(insert_rest(kind, m, x), m, kind)
<1>1. CASE kind = "alert"
  <2>1. ASSUME NEW r \in insert_alert(m, x)
        PROVE  r.m = m /\ Belongs(r, "alert")
    <3>1. \/ \E y : r \in insert_createtime("A", m, y) \cup insert_analyzertime("A", m, y)
          \/ \E y : \/ r \in insert_detecttime(m, y) \/ r \in insert_assessment(m, y)
                    \/ r \in insert_tool_alert(m, y) \/ r \in insert_overflow_alert(m, y)
                    \/ r \in insert_correlation_alert(m, y) \/ r \in insert_classification(m, y)
          \/ \E i, y : \/ r \in insert_analyzer("A", m, i, y) \/ r \in insert_source(m, i, y)
                       \/ r \in insert_target(m, i, y)
                       \/ r \in insert_additional_data("A", m, i, y)
          BY <2>1 DEF insert_alert, Opt, Listed, Numbered
    <3>2. "alert" \in Kinds
          BY DEF Kinds
    <3>3. CASE \E y : r \in insert_createtime("A", m, y) \cup insert_analyzertime("A", m, y)
          BY <3>2, <3>3, CommonRows DEF Within
    <3>4. CASE \E y : \/ r \in insert_detecttime(m, y) \/ r \in insert_assessment(m, y)
                      \/ r \in insert_tool_alert(m, y) \/ r \in insert_overflow_alert(m, y)
                      \/ r \in insert_correlation_alert(m, y) \/ r \in insert_classification(m, y)
          BY <3>4, AlertPartRows DEF Within
    <3>5. CASE \E i, y : r \in insert_source(m, i, y) \/ r \in insert_target(m, i, y)
          BY <3>5, SourceRows, TargetRows DEF Within
    <3>6. CASE \E i, y : \/ r \in insert_analyzer("A", m, i, y)
                         \/ r \in insert_additional_data("A", m, i, y)
          BY <3>2, <3>6, AnalyzerRows, CommonRows DEF Within
    <3> QED  BY <3>1, <3>3, <3>4, <3>5, <3>6
  <2> QED  BY <1>1, <2>1 DEF insert_rest, Within
<1>2. CASE kind = "heartbeat"
  <2>1. ASSUME NEW r \in insert_heartbeat(m, x)
        PROVE  r.m = m /\ Belongs(r, "heartbeat")
    <3>1. \/ \E y : r \in insert_createtime("H", m, y) \cup insert_analyzertime("H", m, y)
          \/ \E i, y : \/ r \in insert_analyzer("H", m, i, y)
                       \/ r \in insert_additional_data("H", m, i, y)
          BY <2>1 DEF insert_heartbeat, Opt, Listed, Numbered
    <3>2. "heartbeat" \in Kinds
          BY DEF Kinds
    <3> QED  BY <3>1, <3>2, AnalyzerRows, CommonRows DEF Within
  <2> QED  BY <1>2, <2>1 DEF insert_rest, Within
<1> QED  BY <1>1, <1>2 DEF Kinds

\* As RestRows, for the whole of a message.
LEMMA RowsBelong ==
    ASSUME NEW t, t.kind \in Kinds
    PROVE  Within(MessageRows(t), t.m, t.kind)
BY RestRows, CommonRows DEF MessageRows, Within

\* A row tells the kind of its message: what is of one kind is not of the other.
LEMMA KindsApart ==
    ASSUME NEW r
    PROVE  ~(OfAlert(r) /\ OfHeartbeat(r))
BY DEF OfAlert, OfHeartbeat, AlertOnly, Shared, Nested

\* A deletion removes the rows of its messages and no other.
LEMMA DeletedRows ==
    ASSUME NEW rows, NEW kind \in Kinds, NEW idents,
           \A r \in rows : Belongs(r, "alert") \/ Belongs(r, "heartbeat")
    PROVE  delete_message(rows, kind, idents) =
               {r \in rows : ~(r.m \in idents /\ Belongs(r, kind))}
<1>1. CASE kind = "alert"
  <2>1. ASSUME NEW r \in rows
        PROVE  (\/ r.m \notin idents
                \/ r.table \in Shared /\ r.pt # "A"
                \/ r.table \in Nested /\ r.pt = "H"
                \/ r.table \notin Shared \cup Nested \cup AlertOnly)
               <=> ~(r.m \in idents /\ OfAlert(r))
        BY DEF OfAlert, Shared, Nested, AlertOnly
  <2> QED  BY <1>1, <2>1 DEF delete_message, do_delete_alert, Belongs, Shared, Nested, AlertOnly
<1>2. CASE kind = "heartbeat"
  <2>1. ASSUME NEW r \in rows
        PROVE  (\/ r.m \notin idents
                \/ r.table \in Shared \cup Nested /\ r.pt # "H"
                \/ r.table \notin Shared \cup Nested \cup {"heartbeat"})
               <=> ~(r.m \in idents /\ OfHeartbeat(r))
        BY DEF OfHeartbeat, Shared, Nested
  <2> QED  BY <1>2, <2>1 DEF delete_message, do_delete_heartbeat, Belongs, Shared, Nested
<1> QED  BY <1>1, <1>2 DEF Kinds

\* Of the rows of some messages, those of the messages a deletion does not name
\* are left.
LEMMA DeletionIsExact ==
    ASSUME NEW T, \A t \in T : t.kind \in Kinds, NEW kind \in Kinds, NEW idents
    PROVE  delete_message(UNION {MessageRows(t) : t \in T}, kind, idents) =
               UNION {MessageRows(t) : t \in {u \in T : u.kind # kind \/ u.m \notin idents}}
<1> DEFINE rows == UNION {MessageRows(t) : t \in T}
           left == UNION {MessageRows(t) : t \in {u \in T : u.kind # kind \/ u.m \notin idents}}
<1>1. ASSUME NEW t \in T, NEW r \in MessageRows(t)
      PROVE  /\ r.m = t.m /\ Belongs(r, t.kind)
             /\ Belongs(r, "alert") \/ Belongs(r, "heartbeat")
             /\ Belongs(r, kind) <=> t.kind = kind
  <2>1. r.m = t.m /\ Belongs(r, t.kind)
        BY RowsBelong DEF Within
  <2> QED  BY <2>1, KindsApart DEF Belongs, Kinds
<1>2. delete_message(rows, kind, idents) = {r \in rows : ~(r.m \in idents /\ Belongs(r, kind))}
      BY <1>1, DeletedRows
<1> QED  BY <1>1, <1>2

\* Both kinds of message have a creation time, a row of its own key.
LEMMA TimeRow ==
    ASSUME NEW kind \in Kinds, NEW m, NEW x, IsMessage(kind, x)
    PROVE  [table |-> "create_time", pt |-> IF kind = "alert" THEN "A" ELSE "H",
            m |-> m, p |-> <<>>, i |-> NoIndex] \in Keys(insert_rest(kind, m, x))
<1> DEFINE pt == IF kind = "alert" THEN "A" ELSE "H"
<1>1. PICK y \in x.create_time : TRUE
      BY DEF IsMessage, IsAlert, IsHeartbeat
<1> DEFINE r == [table |-> "create_time", pt |-> pt, m |-> m, p |-> <<>>, i |-> NoIndex, v |-> y.v]
<1>2. r \in insert_createtime(pt, m, y)
      BY DEF insert_createtime, Row
<1>3. r \in insert_rest(kind, m, x)
      BY <1>1, <1>2 DEF insert_rest, insert_alert, insert_heartbeat, Opt, Listed, Numbered, Kinds
<1> QED  BY <1>3 DEF Keys, Key

----------------------------------------------------------------------------
(* The indexes of rows: lists are numbered from 0, with a copy under -1.     *)

Index_ == Nat \cup {-1, NoIndex}

Indexed(rows) == \A r \in rows : r.i \in Index_

\* A list that is not empty has a last element.
LEMMA SeqEnds ==
    ASSUME NEW s, IsSeq(s)
    PROVE  /\ DOMAIN s = 1..Len(s) /\ Len(s) \in Nat
           /\ \A k \in DOMAIN s : k \in Nat /\ k >= 1 /\ k - 1 \in Index_
           /\ s # <<>> => Len(s) \in DOMAIN s
<1>1. DOMAIN s = 1..Len(s) /\ Len(s) \in Nat
      BY DEF IsSeq
<1>2. ASSUME Len(s) = 0 PROVE s = <<>>
  <2>1. s = [k \in 1..0 |-> s[k]]
        BY <1>2 DEF IsSeq
  <2>2. 1..0 = {}
        OBVIOUS
  <2>3. s = [k \in {} |-> s[k]]
        BY <2>1, <2>2
  <2> QED  BY <2>3
<1> QED  BY <1>1, <1>2 DEF Index_

\* The rows under one element of a message are numbered that way.
LEMMA PartIndexes ==
    ASSUME NEW pt, NEW m, NEW p, NEW x
    PROVE  /\ IsNode(x) => Indexed(insert_node(pt, m, p, x))
           /\ IsUser(x) => Indexed(insert_user(pt, m, p, x))
           /\ IsProcess(x) => Indexed(insert_process(pt, m, p, x))
           /\ IsService(x) => Indexed(insert_service(pt, m, p, x))
           /\ IsAssessment(x) => Indexed(insert_assessment(m, x))
           /\ IsRelatedAlert(x) => Indexed(insert_tool_alert(m, x))
           /\ IsRelatedAlert(x) => Indexed(insert_correlation_alert(m, x))
           /\ IsClassification(x) => Indexed(insert_classification(m, x))
<1> USE DEF Indexed, Index_, Row, Listed, Numbered, Opt, IsList, IsOpt
<1> USE SeqEnds
<1>1. IsNode(x) => Indexed(insert_node(pt, m, p, x))
      BY DEF IsNode, insert_node, insert_address
<1>2. IsUser(x) => Indexed(insert_user(pt, m, p, x))
      BY DEF IsUser, insert_user, insert_user_id
<1>3. IsProcess(x) => Indexed(insert_process(pt, m, p, x))
      BY DEF IsProcess, insert_process, insert_process_arg, insert_process_env
<1>4. IsService(x) => Indexed(insert_service(pt, m, p, x))
      BY DEF IsService, IsWebService, insert_service, insert_web_service, insert_snmp_service,
             insert_web_service_arg
<1>5. IsAssessment(x) => Indexed(insert_assessment(m, x))
      BY DEF IsAssessment, insert_assessment, insert_impact, insert_confidence, insert_action
<1>6. /\ IsRelatedAlert(x) => Indexed(insert_tool_alert(m, x))
      /\ IsRelatedAlert(x) => Indexed(insert_correlation_alert(m, x))
      BY DEF IsRelatedAlert, insert_tool_alert, insert_correlation_alert, insert_alertident
<1>7. IsClassification(x) => Indexed(insert_classification(m, x))
      BY DEF IsClassification, insert_classification, insert_reference
<1> QED  BY <1>1, <1>2, <1>3, <1>4, <1>5, <1>6, <1>7

\* As PartIndexes, for a file.
LEMMA FileIndexes ==
    ASSUME NEW m, NEW t, NEW i \in Index_, NEW x, IsFile(x)
    PROVE  Indexed(insert_file(m, t, i, x))
<1>1. ASSUME NEW k \in Index_, NEW a, IsFileAccess(a)
      PROVE  Indexed(insert_file_access(m, t, i, k, a))
      BY <1>1, SeqEnds
         DEF Indexed, Index_, Row, Listed, Numbered, Opt, IsList, IsOpt, IsFileAccess,
             insert_file_access, insert_file_access_permission, insert_user_id
<1>2. ASSUME NEW r \in insert_file(m, t, i, x)
      PROVE  r.i \in Index_
  <2>1. \/ r \in Row("file", NoType, m, <<t>>, i, x)
        \/ \E k \in DOMAIN x.file_access :
               r \in insert_file_access(m, t, i, k - 1, x.file_access[k])
        \/ /\ x.file_access # <<>>
           /\ r \in insert_file_access(m, t, i, -1, x.file_access[Len(x.file_access)])
        \/ \E k \in DOMAIN x.linkage : r \in insert_linkage(m, t, i, k - 1, x.linkage[k])
        \/ \E l : r \in insert_linkage(m, t, i, -1, l)
        \/ \E n : r \in insert_inode(m, t, i, n)
        \/ \E k \in DOMAIN x.checksum : r \in insert_checksum(m, t, i, k - 1, x.checksum[k])
        \/ \E c : r \in insert_checksum(m, t, i, -1, c)
        BY <1>2 DEF insert_file, Listed, Numbered, Opt, Last
  <2>2. /\ IsSeq(x.file_access) /\ \A k \in DOMAIN x.file_access : IsFileAccess(x.file_access[k])
        /\ IsSeq(x.linkage) /\ IsSeq(x.checksum)
        BY DEF IsFile, IsList
  <2>3. -1 \in Index_ /\ NoIndex \in Index_
        BY DEF Index_
  <2>4. CASE \E k \in DOMAIN x.file_access :
                 r \in insert_file_access(m, t, i, k - 1, x.file_access[k])
        BY <1>1, <2>2, <2>4, SeqEnds DEF Indexed
  <2>5. CASE /\ x.file_access # <<>>
             /\ r \in insert_file_access(m, t, i, -1, x.file_access[Len(x.file_access)])
        BY <1>1, <2>2, <2>3, <2>5, SeqEnds DEF Indexed
  <2> QED  BY <2>1, <2>2, <2>3, <2>4, <2>5, SeqEnds
           DEF Row, insert_linkage, insert_inode, insert_checksum
<1> QED  BY <1>2 DEF Indexed

\* As PartIndexes, for what is under a source or a target.
LEMMA EndpointIndexes ==
    ASSUME NEW pt, NEW m, NEW i, NEW x, IsSource(x)
    PROVE  Indexed(insert_endpoint(pt, m, i, x))
BY PartIndexes DEF IsSource, IsOpt, insert_endpoint, Opt, Indexed

\* As PartIndexes, for an element of the lists of a message.
LEMMA ElementIndexes ==
    ASSUME NEW pt, NEW m, NEW i \in Index_, NEW x
    PROVE  /\ IsSource(x) => Indexed(insert_source(m, i, x))
           /\ IsTarget(x) => Indexed(insert_target(m, i, x))
           /\ IsAnalyzer(x) => Indexed(insert_analyzer(pt, m, i, x))
<1>1. ASSUME IsSource(x) PROVE Indexed(insert_source(m, i, x))
      BY <1>1, EndpointIndexes DEF insert_source, Row, Indexed
<1>2. ASSUME IsTarget(x) PROVE Indexed(insert_target(m, i, x))
  <2>1. IsSource(x) /\ IsSeq(x.file) /\ \A k \in DOMAIN x.file : IsFile(x.file[k])
        BY <1>2 DEF IsTarget, IsList
  <2>2. ASSUME NEW r \in insert_target(m, i, x)
        PROVE  r.i \in Index_
    <3>1. \/ r \in Row("target", NoType, m, <<>>, i, x)
          \/ r \in insert_endpoint("T", m, i, x)
          \/ \E k \in DOMAIN x.file : r \in insert_file(m, i, k - 1, x.file[k])
          \/ x.file # <<>> /\ r \in insert_file(m, i, -1, x.file[Len(x.file)])
          BY <2>2 DEF insert_target, Listed, Numbered, Last
    <3>2. CASE \E k \in DOMAIN x.file : r \in insert_file(m, i, k - 1, x.file[k])
          BY <2>1, <3>2, SeqEnds, FileIndexes DEF Indexed
    <3>3. CASE x.file # <<>> /\ r \in insert_file(m, i, -1, x.file[Len(x.file)])
      <4>1. -1 \in Index_
            BY DEF Index_
      <4> QED  BY <2>1, <3>3, <4>1, SeqEnds, FileIndexes DEF Indexed
    <3> QED  BY <2>1, <3>1, <3>2, <3>3, EndpointIndexes DEF Indexed, Row
  <2> QED  BY <2>2 DEF Indexed
<1>3. ASSUME IsAnalyzer(x) PROVE Indexed(insert_analyzer(pt, m, i, x))
      BY <1>3, PartIndexes DEF IsAnalyzer, IsOpt, insert_analyzer, Opt, Row, Indexed
<1> QED  BY <1>1, <1>2, <1>3

\* As PartIndexes, for a message.
LEMMA RestIndexes ==
    ASSUME NEW kind \in Kinds, NEW m, NEW x, IsMessage(kind, x)
    PROVE  /\ Indexed(insert_rest(kind, m, x))
           /\ \A y : Indexed(insert_message_messageid(kind, m, y))
<1>1. NoIndex \in Index_ /\ -1 \in Index_
      BY DEF Index_
<1>2. \A y : Indexed(insert_message_messageid(kind, m, y))
      BY <1>1 DEF insert_message_messageid, Row, Indexed
<1>3. ASSUME NEW pt, NEW r,
             \/ \E y : r \in insert_createtime(pt, m, y) \cup insert_analyzertime(pt, m, y)
             \/ \E y : r \in insert_detecttime(m, y) \cup insert_overflow_alert(m, y)
             \/ \E i \in Index_ : \E y : r \in insert_additional_data(pt, m, i, y)
      PROVE  r.i \in Index_
      BY <1>1, <1>3 DEF insert_createtime, insert_analyzertime, insert_detecttime,
                        insert_overflow_alert, insert_additional_data, Row
<1> DEFINE InLists(pt, r) ==
        \/ \E k \in DOMAIN x.analyzer : r \in insert_analyzer(pt, m, k - 1, x.analyzer[k])
        \/ x.analyzer # <<>> /\ r \in insert_analyzer(pt, m, -1, x.analyzer[Len(x.analyzer)])
        \/ \E k \in DOMAIN x.additional_data :
               r \in insert_additional_data(pt, m, k - 1, x.additional_data[k])
        \/ \E y : r \in insert_additional_data(pt, m, -1, y)
<1>4. ASSUME IsHeartbeat(x), NEW pt, NEW r, InLists(pt, r)
      PROVE  r.i \in Index_
  <2>1. /\ IsSeq(x.analyzer) /\ \A k \in DOMAIN x.analyzer : IsAnalyzer(x.analyzer[k])
        /\ IsSeq(x.additional_data)
        BY <1>4 DEF IsHeartbeat, IsList
  <2>2. \/ \E k \in DOMAIN x.analyzer : r \in insert_analyzer(pt, m, k - 1, x.analyzer[k])
        \/ x.analyzer # <<>> /\ r \in insert_analyzer(pt, m, -1, x.analyzer[Len(x.analyzer)])
        \/ \E k \in DOMAIN x.additional_data :
               r \in insert_additional_data(pt, m, k - 1, x.additional_data[k])
        \/ \E y : r \in insert_additional_data(pt, m, -1, y)
        BY <1>4
  <2>3. CASE \E k \in DOMAIN x.analyzer : r \in insert_analyzer(pt, m, k - 1, x.analyzer[k])
        BY <2>1, <2>3, SeqEnds, ElementIndexes DEF Indexed
  <2>4. CASE x.analyzer # <<>> /\ r \in insert_analyzer(pt, m, -1, x.analyzer[Len(x.analyzer)])
        BY <1>1, <2>1, <2>4, SeqEnds, ElementIndexes DEF Indexed
  <2> QED  BY <1>1, <1>3, <2>1, <2>2, <2>3, <2>4, SeqEnds
<1>5. CASE kind = "heartbeat"
  <2>1. ASSUME NEW r \in insert_heartbeat(m, x)
        PROVE  \/ InLists("H", r)
               \/ \E y : r \in insert_createtime("H", m, y) \cup insert_analyzertime("H", m, y)
        BY DEF insert_heartbeat, Listed, Numbered, Opt, Last
  <2>2. IsHeartbeat(x)
        BY <1>5 DEF IsMessage
  <2>3. \A r \in insert_heartbeat(m, x) : r.i \in Index_
    <3> HIDE DEF InLists
    <3> QED  BY <1>3, <1>4, <2>1, <2>2
  <2> QED  BY <1>2, <1>5, <2>3 DEF insert_rest, Indexed
<1>6. CASE kind = "alert"
  <2>1. IsAlert(x) /\ IsHeartbeat(x)
        BY <1>6 DEF IsMessage, IsAlert
  <2>2. ASSUME NEW r \in insert_alert(m, x)
        PROVE  r.i \in Index_
    <3>1. \/ InLists("A", r)
          \/ \E y : r \in insert_createtime("A", m, y) \cup insert_analyzertime("A", m, y)
          \/ \E y : r \in insert_detecttime(m, y) \cup insert_overflow_alert(m, y)
          \/ \E y \in x.assessment : r \in insert_assessment(m, y)
          \/ \E y \in x.tool_alert : r \in insert_tool_alert(m, y)
          \/ \E y \in x.correlation_alert : r \in insert_correlation_alert(m, y)
          \/ \E y \in x.classification : r \in insert_classification(m, y)
          \/ \E k \in DOMAIN x.source : r \in insert_source(m, k - 1, x.source[k])
          \/ x.source # <<>> /\ r \in insert_source(m, -1, x.source[Len(x.source)])
          \/ \E k \in DOMAIN x.target : r \in insert_target(m, k - 1, x.target[k])
          \/ x.target # <<>> /\ r \in insert_target(m, -1, x.target[Len(x.target)])
          BY <2>2 DEF insert_alert, Listed, Numbered, Opt, Last
    <3>2. /\ \A y \in x.assessment : IsAssessment(y)
          /\ \A y \in x.tool_alert \cup x.correlation_alert : IsRelatedAlert(y)
          /\ \A y \in x.classification : IsClassification(y)
          BY <2>1 DEF IsAlert, IsOpt
    <3>3. /\ IsSeq(x.source) /\ \A k \in DOMAIN x.source : IsSource(x.source[k])
          /\ IsSeq(x.target) /\ \A k \in DOMAIN x.target : IsTarget(x.target[k])
          BY <2>1 DEF IsAlert, IsList
    <3>4. CASE \E y : \/ y \in x.assessment /\ r \in insert_assessment(m, y)
                      \/ y \in x.tool_alert /\ r \in insert_tool_alert(m, y)
                      \/ y \in x.correlation_alert /\ r \in insert_correlation_alert(m, y)
                      \/ y \in x.classification /\ r \in insert_classification(m, y)
          BY <3>2, <3>4, PartIndexes DEF Indexed
    <3>5. CASE \/ \E k \in DOMAIN x.source : r \in insert_source(m, k - 1, x.source[k])
               \/ \E k \in DOMAIN x.target : r \in insert_target(m, k - 1, x.target[k])
          BY <3>3, <3>5, SeqEnds, ElementIndexes DEF Indexed
    <3>6. CASE \/ x.source # <<>> /\ r \in insert_source(m, -1, x.source[Len(x.source)])
               \/ x.target # <<>> /\ r \in insert_target(m, -1, x.target[Len(x.target)])
          BY <1>1, <3>3, <3>6, SeqEnds, ElementIndexes DEF Indexed
    <3> HIDE DEF InLists
    <3> QED  BY <1>3, <1>4, <2>1, <3>1, <3>4, <3>5, <3>6
  <2> QED  BY <1>2, <1>6, <2>2 DEF insert_rest, Indexed
<1> QED  BY <1>5, <1>6 DEF Kinds

----------------------------------------------------------------------------
(* A bounded set of natural numbers that is not empty has a greatest element. *)

LEMMA GreatestElement ==
    ASSUME NEW N \in Nat, NEW B, B \subseteq 0..N, B # {}
    PROVE  \E m \in B : \A k \in B : k <= m
<1> DEFINE Above(n) == {k \in 0..N : k > n}
           T == {Above(n) : n \in B}
           R == StrictSubsetOrdering(Nat)
<1>1. IsWellFoundedOn(R, FiniteSubsetsOf(Nat))
      BY FS_StrictSubsetOrderingWellFounded
<1>2. T \subseteq FiniteSubsetsOf(Nat) /\ T # {}
  <2>1. IsFiniteSet(0..N)
        BY FS_Interval
  <2>2. \A n \in B : Above(n) \subseteq 0..N /\ Above(n) \subseteq Nat
        OBVIOUS
  <2>3. \A n \in B : IsFiniteSet(Above(n))
        BY <2>1, <2>2, FS_Subset
  <2> QED  BY <2>2, <2>3 DEF FiniteSubsetsOf
<1>3. PICK z \in T : \A y \in T : ~(<<y, z>> \in R)
  <2> HIDE DEF T, R
  <2> QED  BY <1>1, <1>2, WFMin
<1>4. PICK m \in B : z = Above(m)
      BY <1>3
<1>5. ASSUME NEW k \in B, ~(k <= m) PROVE FALSE
  <2>1. Above(k) \subseteq Above(m) /\ Above(k) # Above(m)
    <3>1. k \in Above(m) /\ k \notin Above(k)
          BY <1>5
    <3> QED  BY <1>5, <3>1
  <2>2. <<Above(k), Above(m)>> \in R
        BY <2>1 DEF StrictSubsetOrdering
  <2> QED  BY <1>3, <1>4, <1>5, <2>2
<1> QED  BY <1>5

----------------------------------------------------------------------------
(***************************************************************************)
(* The sessions.  Each holds the rows it wrote and the ident the database   *)
(* gave it, one no later insertion is given.                                *)
(***************************************************************************)
RowOK(r) == r.m \in Idents /\ r.i \in Index_

InsertionFields == {"at", "kind", "x", "head", "ident", "own"}
ReadFields == {"at", "kind", "m", "k", "got", "was", "touched", "partial"}

InsertionOK(s) ==
    /\ w[s].at \in {"idle", "inserted", "identified", "written"}
    /\ w[s].at # "idle" =>
          /\ s \in dep.inserting
          /\ DOMAIN w[s] = InsertionFields
          /\ w[s].kind \in Kinds /\ w[s].x \in dep.messages[w[s].kind]
          /\ w[s].head \in Idents /\ w[s].head < next[w[s].kind]
          /\ \A r \in w[s].own : RowOK(r)
    /\ w[s].at = "inserted" =>
          w[s].own = insert_message_messageid(w[s].kind, w[s].head, w[s].x)
    /\ w[s].at = "identified" =>
          /\ w[s].own = insert_message_messageid(w[s].kind, w[s].head, w[s].x)
          /\ w[s].ident \in Idents

ReaderOK ==
    /\ rd.at \in {"idle", "reading"}
    /\ rd.at = "reading" =>
          /\ DOMAIN rd = ReadFields
          /\ rd.k \in Nat \ {0}
          /\ DOMAIN rd.got = {Parts(rd.kind)[k] : k \in 1..(rd.k - 1)} \cup {"v"}

TypeInv ==
    /\ dep \in Deployments
    /\ next \in [Kinds -> 1..(MaxIdent + 1)]
    /\ \A r \in db : RowOK(r)
    /\ DOMAIN w = Sessions
    /\ \A s \in Sessions : InsertionOK(s)
    /\ ReaderOK

\* What a session asks for, the largest ident it sees, is an ident.
LEMMA MaxIsGiven ==
    ASSUME TypeInv, NEW s \in Sessions, w[s].at = "inserted"
    PROVE  /\ max_ident(s) \in Heads(db \cup w[s].own, w[s].kind)
           /\ \A n \in Heads(db \cup w[s].own, w[s].kind) : n <= max_ident(s)
           /\ Heads(db \cup w[s].own, w[s].kind) \subseteq Idents
           /\ w[s].head \in Heads(db \cup w[s].own, w[s].kind)
<1> DEFINE H == Heads(db \cup w[s].own, w[s].kind)
<1>1. MaxIdent \in Nat
      BY StoreAssumption
<1>2. H \subseteq Idents /\ H \subseteq 0..MaxIdent
  <2>1. \A r \in db \cup w[s].own : r.m \in Idents
        BY DEF TypeInv, InsertionOK, RowOK
  <2> QED  BY <1>1, <2>1 DEF Heads, Idents
<1>3. w[s].head \in H
  <2>1. w[s].own = insert_message_messageid(w[s].kind, w[s].head, w[s].x)
        BY DEF TypeInv, InsertionOK
  <2>2. \E r \in w[s].own : r.table = w[s].kind /\ r.m = w[s].head
        BY <2>1 DEF insert_message_messageid, Row
  <2> QED  BY <2>2 DEF Heads
<1>4. \E m \in H : \A k \in H : k <= m
  <2> HIDE DEF H
  <2> QED  BY <1>1, <1>2, <1>3, GreatestElement
<1> QED  BY <1>2, <1>3, <1>4 DEF max_ident

LEMMA InitTypes == Init => TypeInv
<1> SUFFICES ASSUME Init PROVE TypeInv
    OBVIOUS
<1>1. MaxIdent \in Nat
      BY StoreAssumption
<1>2. next \in [Kinds -> 1..(MaxIdent + 1)]
      BY <1>1 DEF Init
<1>3. DOMAIN w = Sessions /\ \A s \in Sessions : InsertionOK(s)
      BY DEF Init, NoInsertion, InsertionOK
<1>4. ReaderOK
      BY DEF Init, Idle, ReaderOK
<1> QED  BY <1>2, <1>3, <1>4 DEF Init, TypeInv

\* A step that leaves the sessions, the idents and the deployment alone.
LEMMA SessionsKept ==
    ASSUME TypeInv, UNCHANGED <<dep, next, w>>
    PROVE  /\ dep' \in Deployments /\ next' \in [Kinds -> 1..(MaxIdent + 1)]
           /\ DOMAIN w' = Sessions /\ \A s \in Sessions : InsertionOK(s)'
BY DEF TypeInv, InsertionOK

\* A step that leaves the reader alone.
LEMMA ReaderKept ==
    ASSUME ReaderOK, rd' = rd
    PROVE  ReaderOK'
BY DEF ReaderOK

\* A step of one session, by the session it makes of it.
LEMMA SessionStep ==
    ASSUME TypeInv, NEW s \in Sessions, NEW v, w' = [w EXCEPT ![s] = v],
           dep' = dep, next' \in [Kinds -> 1..(MaxIdent + 1)],
           \A kind \in Kinds : next[kind] <= next'[kind],
           InsertionOK(s)'
    PROVE  DOMAIN w' = Sessions /\ \A o \in Sessions : InsertionOK(o)'
<1>1. DOMAIN w' = Sessions
      BY DEF TypeInv
<1>2. ASSUME NEW o \in Sessions, o # s PROVE InsertionOK(o)'
  <2>1. w'[o] = w[o] /\ InsertionOK(o)
        BY <1>2 DEF TypeInv
  <2>2. ASSUME w[o].at # "idle" PROVE w[o].head < next'[w[o].kind]
    <3>1. w[o].kind \in Kinds /\ w[o].head \in Idents /\ w[o].head < next[w[o].kind]
          BY <2>1, <2>2 DEF InsertionOK
    <3>2. next[w[o].kind] <= next'[w[o].kind] /\ next[w[o].kind] \in Int /\ next'[w[o].kind] \in Int
          BY <3>1, StoreAssumption DEF TypeInv
    <3> QED  BY <3>1, <3>2 DEF Idents
  <2> QED  BY <2>1, <2>2 DEF InsertionOK
<1> QED  BY <1>1, <1>2

\* A touched reader is a reader.
LEMMA TouchedReader ==
    ASSUME ReaderOK, NEW kind, NEW idents, rd' = Touch(kind, idents)
    PROVE  ReaderOK'
<1>1. CASE rd' = rd
      BY <1>1, ReaderKept
<1>2. CASE rd' # rd
  <2>1. rd.at = "reading" /\ rd' = [rd EXCEPT !.touched = TRUE]
        BY <1>2 DEF Touch
  <2>2. DOMAIN rd = ReadFields
        BY <2>1 DEF ReaderOK
  <2>3. /\ DOMAIN rd' = ReadFields /\ rd'.at = rd.at /\ rd'.kind = rd.kind /\ rd'.k = rd.k
        /\ rd'.got = rd.got
        BY <2>1, <2>2 DEF ReadFields
  <2> QED  BY <2>1, <2>3 DEF ReaderOK
<1> QED  BY <1>1, <1>2

LEMMA TypeInsertFirstRow ==
    ASSUME TypeInv, NEW s \in Sessions, InsertFirstRow(s)
    PROVE  TypeInv'
<1>1. PICK kind \in Kinds : \E y \in dep.messages[kind] :
          /\ next[kind] <= dep.idents[kind]
          /\ next' = [next EXCEPT ![kind] = @ + 1]
          /\ w' = [w EXCEPT ![s] =
                [at |-> "inserted", kind |-> kind, x |-> y, head |-> next[kind], ident |-> 0,
                 own |-> insert_message_messageid(kind, next[kind], y)]]
      BY DEF InsertFirstRow
<1>2. PICK y \in dep.messages[kind] :
          /\ next[kind] <= dep.idents[kind]
          /\ next' = [next EXCEPT ![kind] = @ + 1]
          /\ w' = [w EXCEPT ![s] =
                [at |-> "inserted", kind |-> kind, x |-> y, head |-> next[kind], ident |-> 0,
                 own |-> insert_message_messageid(kind, next[kind], y)]]
      BY <1>1
<1>3. MaxIdent \in Nat /\ dep.idents[kind] \in 0..MaxIdent
      BY StoreAssumption DEF TypeInv
<1>4. next[kind] \in Idents /\ next[kind] \in 1..(MaxIdent + 1)
      BY <1>2, <1>3 DEF TypeInv, Idents
<1>5. next' \in [Kinds -> 1..(MaxIdent + 1)] /\ next'[kind] = next[kind] + 1
      BY <1>2, <1>3, <1>4 DEF TypeInv, Idents
<1>6. \A k \in Kinds : next[k] <= next'[k]
      BY <1>2, <1>3, <1>4 DEF TypeInv
<1>7. dep' = dep /\ db' = db /\ rd' = rd /\ s \in dep.inserting
      BY DEF InsertFirstRow
<1>8. w'[s] = [at |-> "inserted", kind |-> kind, x |-> y, head |-> next[kind], ident |-> 0,
               own |-> insert_message_messageid(kind, next[kind], y)]
      BY <1>2 DEF TypeInv
<1>9. \A r \in w'[s].own : RowOK(r)
  <2>1. \A r \in w'[s].own : r.i = NoIndex /\ r.m = next[kind]
        BY <1>8 DEF insert_message_messageid, Row
  <2> QED  BY <1>4, <2>1 DEF RowOK, Index_
<1>10. InsertionOK(s)'
  <2>1. next[kind] < next'[kind]
        BY <1>4, <1>5 DEF Idents
  <2> QED  BY <1>4, <1>7, <1>8, <1>9, <2>1 DEF InsertionOK, InsertionFields
<1>11. DOMAIN w' = Sessions /\ \A o \in Sessions : InsertionOK(o)'
      BY <1>2, <1>5, <1>6, <1>7, <1>10, SessionStep
<1> QED  BY <1>5, <1>7, <1>11, ReaderKept DEF TypeInv

LEMMA TypeLastInsertIdent ==
    ASSUME TypeInv, NEW s \in Sessions, get_last_insert_ident(s)
    PROVE  TypeInv'
<1> DEFINE v == [w[s] EXCEPT !.at = "identified", !.ident = max_ident(s)]
<1>1. /\ w[s].at = "inserted" /\ w' = [w EXCEPT ![s] = v]
      /\ dep' = dep /\ db' = db /\ next' = next /\ rd' = rd
      BY DEF get_last_insert_ident
<1>2. max_ident(s) \in Idents
      BY <1>1, MaxIsGiven
<1>3. InsertionOK(s) /\ DOMAIN w[s] = InsertionFields
      BY <1>1 DEF TypeInv, InsertionOK
<1>4. /\ DOMAIN v = InsertionFields /\ v.at = "identified" /\ v.ident = max_ident(s)
      /\ v.kind = w[s].kind /\ v.x = w[s].x /\ v.head = w[s].head /\ v.own = w[s].own
      BY <1>3 DEF InsertionFields
<1>5. w'[s] = v
      BY <1>1 DEF TypeInv
<1> HIDE DEF v
<1>6. InsertionOK(s)'
      BY <1>1, <1>2, <1>3, <1>4, <1>5 DEF InsertionOK
<1>7. /\ next' \in [Kinds -> 1..(MaxIdent + 1)]
      /\ \A kind \in Kinds : next[kind] <= next'[kind]
      BY <1>1, StoreAssumption DEF TypeInv
<1>8. DOMAIN w' = Sessions /\ \A o \in Sessions : InsertionOK(o)'
      BY <1>1, <1>6, <1>7, SessionStep
<1> QED  BY <1>1, <1>8, ReaderKept DEF TypeInv

\* The rows of a message, under any ident given.
LEMMA RestIsOK ==
    ASSUME TypeInv, NEW kind \in Kinds, NEW m \in Idents, NEW x \in dep.messages[kind]
    PROVE  /\ IsMessage(kind, x)
           /\ \A r \in insert_rest(kind, m, x) : RowOK(r)
<1>1. IsMessage(kind, x)
      BY StoreAssumption DEF TypeInv
<1>2. \A r \in insert_rest(kind, m, x) : r.m = m
      BY RestRows DEF Within
<1>3. \A r \in insert_rest(kind, m, x) : r.i \in Index_
      BY <1>1, RestIndexes DEF Indexed
<1> QED  BY <1>1, <1>2, <1>3 DEF RowOK

LEMMA TypeInsertRest ==
    ASSUME TypeInv, NEW s \in Sessions, InsertRest(s)
    PROVE  TypeInv'
<1> DEFINE rows == insert_rest(w[s].kind, w[s].ident, w[s].x)
           written == [w[s] EXCEPT !.at = "written", !.own = w[s].own \cup rows]
           v == IF Keys(rows) \cap Keys(db) # {} THEN NoInsertion ELSE written
<1>1. /\ w[s].at = "identified" /\ w' = [w EXCEPT ![s] = v]
      /\ dep' = dep /\ db' = db /\ next' = next /\ rd' = rd
      BY DEF InsertRest
<1>2. InsertionOK(s) /\ DOMAIN w[s] = InsertionFields
      BY <1>1 DEF TypeInv, InsertionOK
<1>3. \A r \in rows : RowOK(r)
  <2>1. w[s].kind \in Kinds /\ w[s].ident \in Idents /\ w[s].x \in dep.messages[w[s].kind]
        BY <1>1, <1>2 DEF InsertionOK
  <2> QED  BY <2>1, RestIsOK
<1>4. /\ DOMAIN written = InsertionFields /\ written.at = "written"
      /\ written.kind = w[s].kind /\ written.x = w[s].x /\ written.head = w[s].head
      /\ written.own = w[s].own \cup rows
      BY <1>2 DEF InsertionFields
<1>5. w'[s] = NoInsertion \/ w'[s] = written
      BY <1>1 DEF TypeInv
<1>6. /\ next' \in [Kinds -> 1..(MaxIdent + 1)]
      /\ \A kind \in Kinds : next[kind] <= next'[kind]
      BY <1>1, StoreAssumption DEF TypeInv
<1>7. w' = [w EXCEPT ![s] = v]
      BY <1>1
<1> HIDE DEF v, written, rows
<1>8. InsertionOK(s)'
  <2>1. CASE w'[s] = NoInsertion
        BY <2>1 DEF InsertionOK, NoInsertion
  <2>2. CASE w'[s] = written
        BY <1>1, <1>2, <1>3, <1>4, <2>2 DEF InsertionOK
  <2> QED  BY <1>5, <2>1, <2>2
<1>9. DOMAIN w' = Sessions /\ \A o \in Sessions : InsertionOK(o)'
      BY <1>1, <1>6, <1>7, <1>8, SessionStep
<1> QED  BY <1>1, <1>9, ReaderKept DEF TypeInv

\* A session that gives up, or has committed, is idle.
LEMMA BackToIdle ==
    ASSUME TypeInv, NEW s \in Sessions, w' = [w EXCEPT ![s] = NoInsertion],
           dep' = dep, next' = next
    PROVE  DOMAIN w' = Sessions /\ \A o \in Sessions : InsertionOK(o)'
<1>1. InsertionOK(s)'
  <2>1. w'[s] = NoInsertion
        BY DEF TypeInv
  <2> QED  BY <2>1 DEF InsertionOK, NoInsertion
<1>2. /\ next' \in [Kinds -> 1..(MaxIdent + 1)]
      /\ \A kind \in Kinds : next[kind] <= next'[kind]
      BY StoreAssumption DEF TypeInv
<1> QED  BY <1>1, <1>2, SessionStep

LEMMA TypeCommit ==
    ASSUME TypeInv, NEW s \in Sessions, Commit(s)
    PROVE  TypeInv'
<1>1. DOMAIN w' = Sessions /\ \A o \in Sessions : InsertionOK(o)'
      BY BackToIdle DEF Commit
<1>2. \A r \in db' : RowOK(r)
  <2>1. w[s].at = "written" /\ InsertionOK(s)
        BY DEF Commit, TypeInv
  <2> QED  BY <2>1 DEF Commit, InsertionOK, TypeInv
<1>3. ReaderOK'
      BY TouchedReader DEF Commit, TypeInv
<1> QED  BY <1>1, <1>2, <1>3 DEF Commit, TypeInv

LEMMA TypeAbort ==
    ASSUME TypeInv, NEW s \in Sessions, Abort(s)
    PROVE  TypeInv'
<1>1. DOMAIN w' = Sessions /\ \A o \in Sessions : InsertionOK(o)'
      BY BackToIdle DEF Abort
<1> QED  BY <1>1, ReaderKept DEF Abort, TypeInv

LEMMA TypeDelete ==
    ASSUME TypeInv, NEW kind \in Kinds, NEW idents, Delete(kind, idents)
    PROVE  TypeInv'
<1>1. db' \subseteq db
      BY DEF Delete, delete_message, do_delete_alert, do_delete_heartbeat
<1>2. ReaderOK'
      BY TouchedReader DEF Delete, TypeInv
<1> QED  BY <1>1, <1>2, SessionsKept DEF Delete, TypeInv

LEMMA TypeReads ==
    ASSUME TypeInv, \/ \E kind \in Kinds : \E m \in Idents : StartRead(kind, m)
                    \/ ReadHead \/ ReadPart \/ ReadFails \/ EndRead
    PROVE  TypeInv'
<1>1. UNCHANGED <<dep, db, next, w>>
      BY DEF StartRead, ReadHead, ReadPart, ReadFails, EndRead
<1>2. ReaderOK
      BY DEF TypeInv
<1>3. CASE ReadFails \/ EndRead
  <2>1. rd' = Idle
        BY <1>3 DEF ReadFails, EndRead
  <2> QED  BY <1>1, <2>1, SessionsKept DEF TypeInv, ReaderOK, Idle
<1>4. CASE \E kind \in Kinds : \E m \in Idents : StartRead(kind, m)
  <2>1. PICK kind \in Kinds, m \in Idents : StartRead(kind, m)
        BY <1>4
  <2>2. /\ rd'.at = "reading" /\ DOMAIN rd' = ReadFields /\ rd'.k = 1
        /\ DOMAIN rd'.got = {"v"}
        BY <2>1 DEF StartRead, ReadFields
  <2>3. {Parts(rd'.kind)[k] : k \in 1..(rd'.k - 1)} = {}
        BY <2>2
  <2>4. ReaderOK'
        BY <2>2, <2>3 DEF ReaderOK
  <2> QED  BY <1>1, <2>4, SessionsKept DEF TypeInv
<1>5. CASE ReadHead
  <2>1. rd.at = "reading" /\ rd.k = 1 /\ DOMAIN rd = ReadFields
        BY <1>2, <1>5 DEF ReadHead, ReaderOK
  <2>2. DOMAIN rd.got = {"v"}
    <3>1. {Parts(rd.kind)[k] : k \in 1..(rd.k - 1)} = {}
          BY <2>1
    <3> QED  BY <1>2, <2>1, <3>1 DEF ReaderOK
  <2>3. \/ rd' = Idle
        \/ \E h : DOMAIN h = {"v"} /\ rd' = [rd EXCEPT !.k = 2, !.got = h]
        \/ rd' = [rd EXCEPT !.k = 2]
    <3>1. \A h \in get_message_head(db, rd.kind, rd.m) : DOMAIN h = {"v"}
          BY DEF get_message_head, Single, First, Plain
    <3> QED  BY <1>5, <3>1 DEF ReadHead
  <2>4. CASE rd' # Idle
    <3>1. /\ rd'.at = "reading" /\ DOMAIN rd' = ReadFields /\ rd'.k = 2 /\ rd'.kind = rd.kind
          /\ DOMAIN rd'.got = {"v"}
          BY <2>1, <2>2, <2>3, <2>4 DEF ReadFields
    <3>2. {Parts(rd'.kind)[k] : k \in 1..(rd'.k - 1)} = {Parts(rd.kind)[1]}
          BY <3>1
    <3>3. Parts(rd.kind)[1] = "v"
          BY DEF Parts
    <3>4. ReaderOK'
          BY <3>1, <3>2, <3>3 DEF ReaderOK
    <3> QED  BY <1>1, <3>4, SessionsKept DEF TypeInv
  <2>5. CASE rd' = Idle
        BY <1>1, <2>5, SessionsKept DEF TypeInv, ReaderOK, Idle
  <2> QED  BY <2>4, <2>5
<1>6. CASE ReadPart
  <2> DEFINE part == Parts(rd.kind)[rd.k]
  <2>1. rd.at = "reading" /\ DOMAIN rd = ReadFields /\ rd.k \in Nat \ {0}
        BY <1>2, <1>6 DEF ReadPart, ReaderOK
  <2>2. \E g, lost : /\ DOMAIN g = DOMAIN rd.got \cup {part}
                     /\ rd' = [rd EXCEPT !.k = @ + 1, !.got = g, !.partial = lost]
    <3>1. PICK e \in LostErrors(db, rd.kind, rd.m, part, dep.empty_tables) :
             rd' = [rd EXCEPT !.k = @ + 1,
                       !.got = [f \in DOMAIN @ \cup {part} |->
                                   IF f = part
                                   THEN get_part(db, rd.kind, rd.m, part, dep.empty_tables, e)
                                   ELSE @[f]],
                       !.partial = IF e = NoErrors THEN @ ELSE @ \cup {part}]
          BY <1>6 DEF ReadPart
    <3> DEFINE value == get_part(db, rd.kind, rd.m, part, dep.empty_tables, e)
               g == [f \in DOMAIN rd.got \cup {part} |-> IF f = part THEN value ELSE rd.got[f]]
               lost == IF e = NoErrors THEN rd.partial ELSE rd.partial \cup {part}
    <3>2. rd' = [rd EXCEPT !.k = @ + 1, !.got = g, !.partial = lost]
          BY <3>1
    <3>3. DOMAIN g = DOMAIN rd.got \cup {part}
          OBVIOUS
    <3> QED  BY <3>2, <3>3
  <2>3. /\ rd'.at = "reading" /\ DOMAIN rd' = ReadFields /\ rd'.k = rd.k + 1
        /\ rd'.kind = rd.kind /\ DOMAIN rd'.got = DOMAIN rd.got \cup {part}
        BY <2>1, <2>2 DEF ReadFields
  <2>4. {Parts(rd'.kind)[k] : k \in 1..(rd'.k - 1)}
            = {Parts(rd.kind)[k] : k \in 1..(rd.k - 1)} \cup {part}
    <3>1. 1..(rd'.k - 1) = 1..(rd.k - 1) \cup {rd.k}
          BY <2>1, <2>3
    <3> QED  BY <2>3, <3>1
  <2>5. ReaderOK'
        BY <1>2, <2>1, <2>3, <2>4 DEF ReaderOK
  <2> QED  BY <1>1, <2>5, SessionsKept DEF TypeInv
<1> QED  BY <1>3, <1>4, <1>5, <1>6

LEMMA TypeStep == TypeInv /\ [Next]_vars => TypeInv'
<1> SUFFICES ASSUME TypeInv, [Next]_vars PROVE TypeInv'
    OBVIOUS
<1>1. CASE \E s \in Sessions : \/ InsertFirstRow(s) \/ get_last_insert_ident(s)
                               \/ InsertRest(s) \/ Commit(s) \/ Abort(s)
      BY <1>1, TypeInsertFirstRow, TypeLastInsertIdent, TypeInsertRest, TypeCommit, TypeAbort
<1>2. CASE \E kind \in Kinds : \E idents \in SUBSET Idents : Delete(kind, idents)
      BY <1>2, TypeDelete
<1>3. CASE UNCHANGED vars
      BY <1>3, SessionsKept, ReaderKept DEF vars, TypeInv
<1> QED  BY <1>1, <1>2, <1>3, TypeReads DEF Next

\* Type correctness of ClassicStore: the idents of rows and messages were
\* given, the lists of rows are numbered from 0 with at most a copy under -1,
\* and a reader has the parts it went through.
THEOREM StoreTypeCorrect == Spec => []TypeOK
<1>1. TypeInv => TypeOK
      BY DEF TypeInv, InsertionOK, ReaderOK, RowOK, Index_, TypeOK
<1> QED  BY <1>1, InitTypes, TypeStep, PTL DEF Spec

----------------------------------------------------------------------------
(***************************************************************************)
(* The database holds the messages stored.  Where nothing is deleted, any   *)
(* number of sessions may insert: the ident a session finds may be that of  *)
(* another's message, committed meanwhile, but then its rows are refused,   *)
(* because every message has a creation time and the key of that row is     *)
(* taken.  A deletion would free that key, so next to a program that        *)
(* deletes only one session may insert: its own ident is then the largest   *)
(* in sight.                                                                *)
(***************************************************************************)
RaceFree == \A d \in Deployments : d.deleting => \A a, b \in d.inserting : a = b

\* A message stored or being stored.
Being(s) == [kind |-> w[s].kind, m |-> w[s].head, x |-> w[s].x]

StoredOK ==
    \A t \in stored : /\ t.kind \in Kinds /\ t.x \in dep.messages[t.kind]
                      /\ t.m \in Idents /\ t.m < next[t.kind]

\* The ident a session found is its own, or of a message nobody will delete.
FoundOK(s) ==
    w[s].at = "identified" =>
        \/ w[s].ident = w[s].head
        \/ ~dep.deleting /\ \E t \in stored : t.kind = w[s].kind /\ t.m = w[s].ident

WrittenOK(s) == w[s].at = "written" => w[s].own = MessageRows(Being(s))

\* The only session at work was given the last ident.
LastGiven(s) == dep.deleting /\ w[s].at # "idle" => next[w[s].kind] = w[s].head + 1

StoredInv ==
    /\ StoredExactly
    /\ StoredOK
    /\ \A s \in Sessions : FoundOK(s) /\ WrittenOK(s) /\ LastGiven(s)

\* The first row of a message is the one that is found by its kind.
LEMMA MessageIdRow ==
    ASSUME NEW kind, NEW m, NEW x
    PROVE  \E r : /\ insert_message_messageid(kind, m, x) = {r}
                  /\ r.table = kind /\ r.m = m
<1> DEFINE r == [table |-> kind, pt |-> NoType, m |-> m, p |-> <<>>, i |-> NoIndex, v |-> x.v]
<1>1. insert_message_messageid(kind, m, x) = {r} /\ r.table = kind /\ r.m = m
      BY DEF insert_message_messageid, Row
<1> QED  BY <1>1

\* The idents in sight in the database are those of the messages stored.
LEMMA FirstRows ==
    ASSUME TypeInv, StoredInv, NEW kind \in Kinds
    PROVE  Heads(db, kind) = {t.m : t \in {u \in stored : u.kind = kind}}
<1>1. ASSUME NEW r \in db, r.table = kind
      PROVE  \E t \in stored : t.kind = kind /\ r.m = t.m
  <2>1. PICK t \in stored : r \in MessageRows(t)
        BY DEF StoredInv, StoredExactly
  <2>2. r.m = t.m /\ Belongs(r, t.kind) /\ t.kind \in Kinds
        BY <2>1, RowsBelong DEF StoredInv, StoredOK, Within
  <2>3. t.kind = kind
        BY <1>1, <2>2 DEF Belongs, OfAlert, OfHeartbeat, Kinds, Shared, Nested, AlertOnly
  <2> QED  BY <2>2, <2>3
<1>2. ASSUME NEW t \in stored, t.kind = kind
      PROVE  t.m \in Heads(db, kind)
  <2>1. \E r \in MessageRows(t) : r.table = kind /\ r.m = t.m
        BY <1>2, MessageIdRow DEF MessageRows
  <2> QED  BY <2>1 DEF Heads, StoredInv, StoredExactly
<1> QED  BY <1>1, <1>2 DEF Heads

\* What a session finds when it asks for its ident.
LEMMA FoundIdent ==
    ASSUME TypeInv, StoredInv, NEW s \in Sessions, w[s].at = "inserted"
    PROVE  \/ max_ident(s) = w[s].head
           \/ ~dep.deleting /\ \E t \in stored : t.kind = w[s].kind /\ t.m = max_ident(s)
<1> DEFINE kind == w[s].kind
           H == Heads(db \cup w[s].own, kind)
<1>1. kind \in Kinds /\ w[s].own = insert_message_messageid(kind, w[s].head, w[s].x)
      BY DEF TypeInv, InsertionOK
<1>2. H = Heads(db, kind) \cup {w[s].head}
  <2>1. Heads(w[s].own, kind) = {w[s].head}
        BY <1>1, MessageIdRow DEF Heads
  <2>2. H = Heads(db, kind) \cup Heads(w[s].own, kind)
        BY DEF Heads
  <2> QED  BY <2>1, <2>2
<1>3. H = {t.m : t \in {u \in stored : u.kind = kind}} \cup {w[s].head}
      BY <1>1, <1>2, FirstRows
<1>4. max_ident(s) \in H /\ H \subseteq Idents /\ \A n \in H : n <= max_ident(s)
      BY MaxIsGiven
<1>5. CASE dep.deleting
  <2>1. next[kind] = w[s].head + 1
        BY <1>5 DEF StoredInv, LastGiven
  <2>2. w[s].head \in Idents
        BY DEF TypeInv, InsertionOK
  <2>3. \A n \in H : n <= w[s].head
    <3>1. \A t \in stored : t.kind = kind => t.m <= w[s].head
          BY <2>1, <2>2 DEF StoredInv, StoredOK, Idents
    <3>2. w[s].head <= w[s].head
          BY <2>2 DEF Idents
    <3> QED  BY <1>3, <3>1, <3>2
  <2>4. w[s].head <= max_ident(s) /\ max_ident(s) <= w[s].head
        BY <1>3, <1>4, <2>3
  <2>5. w[s].head \in Idents /\ max_ident(s) \in Idents
        BY <1>3, <1>4
  <2>6. \A a, b \in Int : a <= b /\ b <= a => a = b
        OBVIOUS
  <2>7. max_ident(s) \in Int /\ w[s].head \in Int
        BY <2>5 DEF Idents
  <2> QED  BY <2>4, <2>6, <2>7
<1>6. CASE ~dep.deleting
      BY <1>3, <1>4, <1>6
<1> QED  BY <1>5, <1>6

\* A session that is not given its own ident is refused.
LEMMA RefusedOrOwn ==
    ASSUME TypeInv, StoredInv, NEW s \in Sessions, w[s].at = "identified",
           Keys(insert_rest(w[s].kind, w[s].ident, w[s].x)) \cap Keys(db) = {}
    PROVE  w[s].ident = w[s].head
<1>1. InsertionOK(s) /\ FoundOK(s)
      BY DEF TypeInv, StoredInv
<1>2. SUFFICES ASSUME NEW t \in stored, t.kind = w[s].kind, t.m = w[s].ident PROVE FALSE
      BY <1>1 DEF FoundOK
<1>3. /\ w[s].kind \in Kinds /\ w[s].x \in dep.messages[w[s].kind]
      /\ t.x \in dep.messages[t.kind]
      BY <1>1 DEF InsertionOK, StoredInv, StoredOK
<1>4. IsMessage(w[s].kind, w[s].x) /\ IsMessage(t.kind, t.x)
      BY <1>2, <1>3, StoreAssumption DEF TypeInv
<1> DEFINE k == [table |-> "create_time", pt |-> IF t.kind = "alert" THEN "A" ELSE "H",
                 m |-> t.m, p |-> <<>>, i |-> NoIndex]
<1>5. /\ k \in Keys(insert_rest(w[s].kind, w[s].ident, w[s].x))
      /\ k \in Keys(insert_rest(t.kind, t.m, t.x))
      BY <1>2, <1>3, <1>4, TimeRow
<1>6. insert_rest(t.kind, t.m, t.x) \subseteq db
      BY <1>2 DEF StoredInv, StoredExactly, MessageRows
<1>7. k \in Keys(db)
  <2> HIDE DEF k
  <2> QED  BY <1>5, <1>6 DEF Keys
<1> QED  BY <1>5, <1>7

LEMMA InitStored == Init => StoredInv
BY DEF Init, StoredInv, StoredExactly, StoredOK, FoundOK, WrittenOK, LastGiven, NoInsertion

\* What another session does to a session, as far as it can tell.
LEMMA OthersKept ==
    ASSUME TypeInv, StoredInv, RaceFree, NEW s \in Sessions, NEW v, w' = [w EXCEPT ![s] = v],
           NEW o \in Sessions, o # s, dep' = dep, stored \subseteq stored',
           next' = next \/ s \in dep.inserting
    PROVE  FoundOK(o)' /\ WrittenOK(o)' /\ LastGiven(o)'
<1>1. w'[o] = w[o]
      BY DEF TypeInv
<1>2. FoundOK(o)' /\ WrittenOK(o)'
      BY <1>1 DEF StoredInv, FoundOK, WrittenOK, Being
<1>3. LastGiven(o)'
  <2>1. SUFFICES ASSUME dep.deleting, w[o].at # "idle" PROVE next'[w[o].kind] = w[o].head + 1
        BY <1>1 DEF LastGiven
  <2>2. o \in dep.inserting
        BY <2>1 DEF TypeInv, InsertionOK
  <2>3. next' = next
        BY <2>1, <2>2 DEF RaceFree, TypeInv
  <2> QED  BY <2>1, <2>3 DEF StoredInv, LastGiven
<1> QED  BY <1>2, <1>3

\* An idle session promises nothing.
LEMMA IdlePromises ==
    ASSUME NEW s \in Sessions, w'[s] = NoInsertion
    PROVE  FoundOK(s)' /\ WrittenOK(s)' /\ LastGiven(s)'
BY DEF FoundOK, WrittenOK, LastGiven, NoInsertion

LEMMA StoredInsertFirstRow ==
    ASSUME TypeInv, StoredInv, RaceFree, NEW s \in Sessions, InsertFirstRow(s)
    PROVE  StoredInv'
<1>0. PICK kind \in Kinds : \E y :
          /\ next' = [next EXCEPT ![kind] = @ + 1]
          /\ w' = [w EXCEPT ![s] =
                [at |-> "inserted", kind |-> kind, x |-> y, head |-> next[kind], ident |-> 0,
                 own |-> insert_message_messageid(kind, next[kind], y)]]
      BY DEF InsertFirstRow
<1>1. PICK y :
          /\ next' = [next EXCEPT ![kind] = @ + 1]
          /\ w' = [w EXCEPT ![s] =
                [at |-> "inserted", kind |-> kind, x |-> y, head |-> next[kind], ident |-> 0,
                 own |-> insert_message_messageid(kind, next[kind], y)]]
      BY <1>0
<1>2. dep' = dep /\ db' = db /\ stored' = stored /\ s \in dep.inserting
      BY DEF InsertFirstRow
<1>3. \A o \in Sessions : o # s => FoundOK(o)' /\ WrittenOK(o)' /\ LastGiven(o)'
      BY <1>1, <1>2, OthersKept
<1>4. /\ w'[s].at = "inserted" /\ w'[s].kind = kind /\ w'[s].head = next[kind]
      /\ next'[kind] = next[kind] + 1
      BY <1>1 DEF TypeInv
<1>5. FoundOK(s)' /\ WrittenOK(s)' /\ LastGiven(s)'
      BY <1>4 DEF FoundOK, WrittenOK, LastGiven
<1>6. StoredOK'
  <2>1. MaxIdent \in Nat
        BY StoreAssumption
  <2>2. ASSUME NEW t \in stored PROVE t.m < next'[t.kind]
    <3>1. /\ t.kind \in Kinds /\ t.m \in Idents /\ t.m < next[t.kind]
          /\ next[t.kind] \in 1..(MaxIdent + 1)
          BY DEF StoredInv, StoredOK, TypeInv
    <3>2. next'[t.kind] = next[t.kind] \/ next'[t.kind] = next[t.kind] + 1
          BY <1>1, <3>1 DEF TypeInv
    <3> QED  BY <2>1, <3>1, <3>2 DEF Idents
  <2> QED  BY <1>2, <2>2 DEF StoredInv, StoredOK
<1>7. StoredExactly'
      BY <1>2 DEF StoredInv, StoredExactly
<1> QED  BY <1>3, <1>5, <1>6, <1>7 DEF StoredInv

\* A step that neither stores nor deletes, nor is given an ident.
LEMMA StoredKept ==
    ASSUME StoredInv, UNCHANGED <<dep, db, next, stored>>
    PROVE  StoredExactly' /\ StoredOK'
BY DEF StoredInv, StoredExactly, StoredOK

LEMMA StoredLastInsertIdent ==
    ASSUME TypeInv, StoredInv, RaceFree, NEW s \in Sessions, get_last_insert_ident(s)
    PROVE  StoredInv'
<1> DEFINE v == [w[s] EXCEPT !.at = "identified", !.ident = max_ident(s)]
<1>1. /\ w[s].at = "inserted" /\ w' = [w EXCEPT ![s] = v]
      /\ UNCHANGED <<dep, db, next, stored>>
      BY DEF get_last_insert_ident
<1>2. \A o \in Sessions : o # s => FoundOK(o)' /\ WrittenOK(o)' /\ LastGiven(o)'
  <2> HIDE DEF v
  <2> QED  BY <1>1, OthersKept
<1>3. DOMAIN w[s] = InsertionFields
      BY <1>1 DEF TypeInv, InsertionOK
<1>4. /\ v.at = "identified" /\ v.ident = max_ident(s)
      /\ v.kind = w[s].kind /\ v.head = w[s].head
      BY <1>3 DEF InsertionFields
<1>5. w'[s] = v
      BY <1>1 DEF TypeInv
<1> HIDE DEF v
<1>6. FoundOK(s)'
      BY <1>1, <1>4, <1>5, FoundIdent DEF FoundOK
<1>7. WrittenOK(s)' /\ LastGiven(s)'
      BY <1>1, <1>4, <1>5 DEF WrittenOK, LastGiven, StoredInv
<1> QED  BY <1>1, <1>2, <1>6, <1>7, StoredKept DEF StoredInv

LEMMA StoredInsertRest ==
    ASSUME TypeInv, StoredInv, RaceFree, NEW s \in Sessions, InsertRest(s)
    PROVE  StoredInv'
<1> DEFINE rows == insert_rest(w[s].kind, w[s].ident, w[s].x)
           written == [w[s] EXCEPT !.at = "written", !.own = w[s].own \cup rows]
           v == IF Keys(rows) \cap Keys(db) # {} THEN NoInsertion ELSE written
<1>1. /\ w[s].at = "identified" /\ w' = [w EXCEPT ![s] = v]
      /\ UNCHANGED <<dep, db, next, stored>>
      BY DEF InsertRest
<1>2. \A o \in Sessions : o # s => FoundOK(o)' /\ WrittenOK(o)' /\ LastGiven(o)'
  <2> HIDE DEF v
  <2> QED  BY <1>1, OthersKept
<1>3. /\ DOMAIN w[s] = InsertionFields
      /\ w[s].own = insert_message_messageid(w[s].kind, w[s].head, w[s].x)
      BY <1>1 DEF TypeInv, InsertionOK
<1>4. /\ written.at = "written" /\ written.own = w[s].own \cup rows
      /\ written.kind = w[s].kind /\ written.head = w[s].head /\ written.x = w[s].x
      BY <1>3 DEF InsertionFields
<1>5. w'[s] = v
      BY <1>1 DEF TypeInv
<1>6. CASE v = NoInsertion
  <2>1. FoundOK(s)' /\ WrittenOK(s)' /\ LastGiven(s)'
        BY <1>5, <1>6, IdlePromises
  <2> QED  BY <1>1, <1>2, <2>1, StoredKept DEF StoredInv
<1>7. CASE Keys(rows) \cap Keys(db) = {} /\ v = written
  <2>1. w[s].ident = w[s].head
        BY <1>1, <1>7, RefusedOrOwn
  <2> HIDE DEF v, written
  <2>2. w'[s].own = MessageRows(Being(s)')
        BY <1>3, <1>4, <1>5, <1>7, <2>1 DEF MessageRows, Being
  <2>3. FoundOK(s)' /\ WrittenOK(s)' /\ LastGiven(s)'
        BY <1>1, <1>4, <1>5, <1>7, <2>2 DEF FoundOK, WrittenOK, LastGiven, StoredInv
  <2> QED  BY <1>1, <1>2, <2>3, StoredKept DEF StoredInv
<1> QED  BY <1>6, <1>7

LEMMA StoredCommit ==
    ASSUME TypeInv, StoredInv, RaceFree, NEW s \in Sessions, Commit(s)
    PROVE  StoredInv'
<1>1. /\ w[s].at = "written" /\ w' = [w EXCEPT ![s] = NoInsertion]
      /\ dep' = dep /\ next' = next /\ db' = db \cup w[s].own
      /\ stored' = stored \cup {Being(s)}
      BY DEF Commit, Being
<1>2. InsertionOK(s) /\ WrittenOK(s) /\ w'[s] = NoInsertion
      BY <1>1 DEF TypeInv, StoredInv
<1>3. \A o \in Sessions : o # s => FoundOK(o)' /\ WrittenOK(o)' /\ LastGiven(o)'
      BY <1>1, OthersKept
<1>4. FoundOK(s)' /\ WrittenOK(s)' /\ LastGiven(s)'
      BY <1>2, IdlePromises
<1>5. StoredExactly'
  <2>1. w[s].own = MessageRows(Being(s))
        BY <1>1, <1>2 DEF WrittenOK
  <2>2. db = UNION {MessageRows(t) : t \in stored}
        BY DEF StoredInv, StoredExactly
  <2> HIDE DEF Being
  <2>3. \A r : r \in db' <=> \E t \in stored' : r \in MessageRows(t)
        BY <1>1, <2>1, <2>2
  <2> QED  BY <2>3 DEF StoredExactly
<1>6. StoredOK'
      BY <1>1, <1>2 DEF StoredInv, StoredOK, Being, InsertionOK
<1> QED  BY <1>3, <1>4, <1>5, <1>6 DEF StoredInv

LEMMA StoredAbort ==
    ASSUME TypeInv, StoredInv, RaceFree, NEW s \in Sessions, Abort(s)
    PROVE  StoredInv'
<1>1. w' = [w EXCEPT ![s] = NoInsertion] /\ UNCHANGED <<dep, db, next, stored>>
      BY DEF Abort
<1>2. \A o \in Sessions : o # s => FoundOK(o)' /\ WrittenOK(o)' /\ LastGiven(o)'
      BY <1>1, OthersKept
<1>3. w'[s] = NoInsertion
      BY <1>1 DEF TypeInv
<1> QED  BY <1>1, <1>2, <1>3, IdlePromises, StoredKept DEF StoredInv

LEMMA StoredDelete ==
    ASSUME TypeInv, StoredInv, NEW kind \in Kinds, NEW idents, Delete(kind, idents)
    PROVE  StoredInv'
<1>1. /\ dep.deleting /\ UNCHANGED <<dep, next, w>>
      /\ db' = delete_message(db, kind, idents)
      /\ stored' = {t \in stored : t.kind # kind \/ t.m \notin idents}
      BY DEF Delete
<1>2. db' = UNION {MessageRows(t) : t \in stored'}
  <2>1. \A t \in stored : t.kind \in Kinds
        BY DEF StoredInv, StoredOK
  <2> QED  BY <1>1, <2>1, DeletionIsExact DEF StoredInv, StoredExactly
<1>3. StoredOK'
      BY <1>1 DEF StoredInv, StoredOK
<1>4. ASSUME NEW s \in Sessions
      PROVE  FoundOK(s)' /\ WrittenOK(s)' /\ LastGiven(s)'
      BY <1>1 DEF StoredInv, FoundOK, WrittenOK, LastGiven, Being
<1> QED  BY <1>2, <1>3, <1>4 DEF StoredInv, StoredExactly

LEMMA StoredStep == RaceFree /\ TypeInv /\ StoredInv /\ [Next]_vars => StoredInv'
<1> SUFFICES ASSUME RaceFree, TypeInv, StoredInv, [Next]_vars PROVE StoredInv'
    OBVIOUS
<1>1. CASE \E s \in Sessions : \/ InsertFirstRow(s) \/ get_last_insert_ident(s)
                               \/ InsertRest(s) \/ Commit(s) \/ Abort(s)
      BY <1>1, StoredInsertFirstRow, StoredLastInsertIdent, StoredInsertRest, StoredCommit,
         StoredAbort
<1>2. CASE \E kind \in Kinds : \E idents \in SUBSET Idents : Delete(kind, idents)
      BY <1>2, StoredDelete
<1>3. CASE UNCHANGED <<dep, db, next, w, stored>>
      BY <1>3, StoredKept DEF StoredInv, FoundOK, WrittenOK, LastGiven, Being
<1>4. CASE \/ \E kind \in Kinds : \E m \in Idents : StartRead(kind, m)
           \/ ReadHead \/ ReadPart \/ ReadFails \/ EndRead
      BY <1>3, <1>4 DEF StartRead, ReadHead, ReadPart, ReadFails, EndRead
<1> QED  BY <1>1, <1>2, <1>3, <1>4 DEF Next, vars

\* The rows of the database are those of the messages stored and not deleted:
\* the children of a message are never written under the ident of another,
\* though max(_ident) may return it, and a deletion leaves no row of its
\* message and takes none of another's, whatever the messages.
THEOREM DatabaseIsExact == RaceFree => (Spec => []StoredExactly)
<1> SUFFICES ASSUME RaceFree PROVE Spec => []StoredExactly
    OBVIOUS
<1>1. Init => TypeInv /\ StoredInv
      BY InitTypes, InitStored
<1>2. TypeInv /\ StoredInv /\ [Next]_vars => (TypeInv /\ StoredInv)'
      BY TypeStep, StoredStep
<1>3. StoredInv => StoredExactly
      BY DEF StoredInv
<1> QED  BY <1>1, <1>2, <1>3, PTL DEF Spec

----------------------------------------------------------------------------
(***************************************************************************)
(* Keys.  Two rows of a message never bear the same key: the table and the  *)
(* parent type tell which part of the message a row belongs to, the indexes *)
(* which element of each list on the way to it.                             *)
(***************************************************************************)
SameKey(a, b) ==
    a.table = b.table /\ a.pt = b.pt /\ a.m = b.m /\ a.p = b.p /\ a.i = b.i

Unique(rows) == \A a, b \in rows : SameKey(a, b) => a = b

LEMMA NodeKeys ==
    ASSUME NEW pt, NEW m, NEW p, NEW x, IsNode(x)
    PROVE  /\ Unique(insert_node(pt, m, p, x))
           /\ \A r \in insert_node(pt, m, p, x) :
                  r.table \in {"node", "address"} /\ r.pt = pt /\ r.p[1] = p
BY SeqEnds DEF IsNode, IsList, insert_node, Listed, Numbered, insert_address, Row, Unique, SameKey,
               NoIndex

LEMMA UserKeys ==
    ASSUME NEW pt, NEW m, NEW p, NEW x, IsUser(x)
    PROVE  /\ Unique(insert_user(pt, m, p, x))
           /\ \A r \in insert_user(pt, m, p, x) :
                  r.table \in {"user", "user_id"} /\ r.pt = pt /\ r.p[1] = p
BY SeqEnds DEF IsUser, IsList, insert_user, Listed, Numbered, insert_user_id, Row, Unique, SameKey,
               NoIndex

LEMMA ProcessKeys ==
    ASSUME NEW pt, NEW m, NEW p, NEW x, IsProcess(x)
    PROVE  /\ Unique(insert_process(pt, m, p, x))
           /\ \A r \in insert_process(pt, m, p, x) :
                  /\ r.table \in {"process", "process_arg", "process_env"}
                  /\ r.pt = pt /\ r.p[1] = p
BY SeqEnds DEF IsProcess, IsList, insert_process, Numbered, insert_process_arg,
               insert_process_env, Row, Unique, SameKey, NoIndex

LEMMA ServiceKeys ==
    ASSUME NEW pt, NEW m, NEW p, NEW x, IsService(x)
    PROVE  /\ Unique(insert_service(pt, m, p, x))
           /\ \A r \in insert_service(pt, m, p, x) :
                  /\ r.table \in {"service", "web_service", "web_service_arg", "snmp_service"}
                  /\ r.pt = pt /\ r.p[1] = p
<1>1. ASSUME NEW y, IsWebService(y)
      PROVE  /\ Unique(insert_web_service(pt, m, p, y))
             /\ \A r \in insert_web_service(pt, m, p, y) :
                    r.table \in {"web_service", "web_service_arg"} /\ r.pt = pt /\ r.p[1] = p
      BY <1>1, SeqEnds DEF IsWebService, IsList, insert_web_service, Listed, Numbered,
                           insert_web_service_arg, Row, Unique, SameKey, NoIndex
<1>2. ASSUME NEW r \in insert_service(pt, m, p, x)
      PROVE  \/ r \in Row("service", pt, m, <<p>>, NoIndex, x)
             \/ \E y \in x.web_service : r \in insert_web_service(pt, m, p, y)
             \/ \E y \in x.snmp_service : r \in insert_snmp_service(pt, m, p, y)
      BY DEF insert_service, Opt
<1>3. /\ \A a, b \in x.web_service : a = b
      /\ \A y \in x.web_service : IsWebService(y)
      /\ \A a, b \in x.snmp_service : a = b
      BY DEF IsService, IsOpt
<1>4. ASSUME NEW r \in insert_service(pt, m, p, x)
      PROVE  /\ r.table \in {"service", "web_service", "web_service_arg", "snmp_service"}
             /\ r.pt = pt /\ r.p[1] = p
             /\ r.table = "service" => r \in Row("service", pt, m, <<p>>, NoIndex, x)
             /\ r.table \in {"web_service", "web_service_arg"} =>
                    \E y \in x.web_service : r \in insert_web_service(pt, m, p, y)
             /\ r.table = "snmp_service" =>
                    \E y \in x.snmp_service : r \in insert_snmp_service(pt, m, p, y)
      BY <1>1, <1>2, <1>3 DEF insert_snmp_service, Row
<1>5. ASSUME NEW a \in insert_service(pt, m, p, x), NEW b \in insert_service(pt, m, p, x),
             SameKey(a, b)
      PROVE  a = b
  <2>1. a.table = b.table
        BY <1>5 DEF SameKey
  <2>2. CASE a.table = "service"
        BY <1>4, <2>1, <2>2 DEF Row
  <2>3. CASE a.table = "snmp_service"
    <3>1. PICK y \in x.snmp_service : a \in insert_snmp_service(pt, m, p, y)
          BY <1>4, <2>3
    <3>2. b \in insert_snmp_service(pt, m, p, y)
          BY <1>3, <1>4, <2>1, <2>3
    <3> QED  BY <3>1, <3>2 DEF Row, insert_snmp_service
  <2>4. CASE a.table \in {"web_service", "web_service_arg"}
    <3>1. PICK y \in x.web_service : a \in insert_web_service(pt, m, p, y)
          BY <1>4, <2>4
    <3>2. b \in insert_web_service(pt, m, p, y)
          BY <1>3, <1>4, <2>1, <2>4
    <3> QED  BY <1>1, <1>3, <1>5, <3>1, <3>2 DEF Unique
  <2> QED  BY <1>4, <2>2, <2>3, <2>4
<1> QED  BY <1>4, <1>5 DEF Unique

\* The tables of what a source, a target or an analyzer has under it.
EndpointTables ==
    {"node", "address", "user", "user_id", "process", "process_arg", "process_env",
     "service", "web_service", "web_service_arg", "snmp_service"}

LEMMA EndpointKeys ==
    ASSUME NEW pt, NEW m, NEW i, NEW x, IsSource(x)
    PROVE  /\ Unique(insert_endpoint(pt, m, i, x))
           /\ \A r \in insert_endpoint(pt, m, i, x) :
                  r.table \in EndpointTables /\ r.pt = pt /\ r.p[1] = i
<1> DEFINE rows == insert_endpoint(pt, m, i, x)
<1>1. /\ \A a, b \in x.node : a = b
      /\ \A a, b \in x.user : a = b
      /\ \A a, b \in x.process : a = b
      /\ \A a, b \in x.service : a = b
      BY DEF IsSource, IsOpt
<1>2. /\ \A y \in x.node : IsNode(y)
      /\ \A y \in x.user : IsUser(y)
      /\ \A y \in x.process : IsProcess(y)
      /\ \A y \in x.service : IsService(y)
      BY DEF IsSource, IsOpt
<1>3. ASSUME NEW r \in rows
      PROVE  \/ \E y \in x.node : r \in insert_node(pt, m, i, y)
             \/ \E y \in x.user : r \in insert_user(pt, m, i, y)
             \/ \E y \in x.process : r \in insert_process(pt, m, i, y)
             \/ \E y \in x.service : r \in insert_service(pt, m, i, y)
      BY <1>3 DEF insert_endpoint, Opt
<1>4. ASSUME NEW r \in rows
      PROVE  r.table \in EndpointTables /\ r.pt = pt /\ r.p[1] = i
  <2>1. CASE \E y \in x.node : r \in insert_node(pt, m, i, y)
        BY <1>2, <2>1, NodeKeys DEF EndpointTables
  <2>2. CASE \E y \in x.user : r \in insert_user(pt, m, i, y)
        BY <1>2, <2>2, UserKeys DEF EndpointTables
  <2>3. CASE \E y \in x.process : r \in insert_process(pt, m, i, y)
        BY <1>2, <2>3, ProcessKeys DEF EndpointTables
  <2>4. CASE \E y \in x.service : r \in insert_service(pt, m, i, y)
        BY <1>2, <2>4, ServiceKeys DEF EndpointTables
  <2> QED  BY <1>3, <2>1, <2>2, <2>3, <2>4
<1>5. ASSUME NEW r \in rows
      PROVE  /\ r.table \in {"node", "address"} =>
                    \E y \in x.node : r \in insert_node(pt, m, i, y)
             /\ r.table \in {"user", "user_id"} =>
                    \E y \in x.user : r \in insert_user(pt, m, i, y)
             /\ r.table \in {"process", "process_arg", "process_env"} =>
                    \E y \in x.process : r \in insert_process(pt, m, i, y)
             /\ r.table \in {"service", "web_service", "web_service_arg", "snmp_service"} =>
                    \E y \in x.service : r \in insert_service(pt, m, i, y)
  <2>1. CASE \E y \in x.node : r \in insert_node(pt, m, i, y)
        BY <1>2, <2>1, NodeKeys
  <2>2. CASE \E y \in x.user : r \in insert_user(pt, m, i, y)
        BY <1>2, <2>2, UserKeys
  <2>3. CASE \E y \in x.process : r \in insert_process(pt, m, i, y)
        BY <1>2, <2>3, ProcessKeys
  <2>4. CASE \E y \in x.service : r \in insert_service(pt, m, i, y)
        BY <1>2, <2>4, ServiceKeys
  <2> QED  BY <1>3, <2>1, <2>2, <2>3, <2>4
<1>6. ASSUME NEW a \in rows, NEW b \in rows, SameKey(a, b)
      PROVE  a = b
  <2>1. a.table = b.table
        BY <1>6 DEF SameKey
  <2>2. CASE a.table \in {"node", "address"}
    <3>1. PICK y \in x.node : a \in insert_node(pt, m, i, y)
          BY <1>5, <2>2
    <3>2. b \in insert_node(pt, m, i, y)
          BY <1>1, <1>5, <2>1, <2>2
    <3> QED  BY <1>2, <1>6, <3>1, <3>2, NodeKeys DEF Unique
  <2>3. CASE a.table \in {"user", "user_id"}
    <3>1. PICK y \in x.user : a \in insert_user(pt, m, i, y)
          BY <1>5, <2>3
    <3>2. b \in insert_user(pt, m, i, y)
          BY <1>1, <1>5, <2>1, <2>3
    <3> QED  BY <1>2, <1>6, <3>1, <3>2, UserKeys DEF Unique
  <2>4. CASE a.table \in {"process", "process_arg", "process_env"}
    <3>1. PICK y \in x.process : a \in insert_process(pt, m, i, y)
          BY <1>5, <2>4
    <3>2. b \in insert_process(pt, m, i, y)
          BY <1>1, <1>5, <2>1, <2>4
    <3> QED  BY <1>2, <1>6, <3>1, <3>2, ProcessKeys DEF Unique
  <2>5. CASE a.table \in {"service", "web_service", "web_service_arg", "snmp_service"}
    <3>1. PICK y \in x.service : a \in insert_service(pt, m, i, y)
          BY <1>5, <2>5
    <3>2. b \in insert_service(pt, m, i, y)
          BY <1>1, <1>5, <2>1, <2>5
    <3> QED  BY <1>2, <1>6, <3>1, <3>2, ServiceKeys DEF Unique
  <2> QED  BY <1>4, <2>2, <2>3, <2>4, <2>5 DEF EndpointTables
<1> QED  BY <1>4, <1>6 DEF Unique

LEMMA SourceKeys ==
    ASSUME NEW m, NEW i, NEW x, IsSource(x)
    PROVE  /\ Unique(insert_source(m, i, x))
           /\ \A r \in insert_source(m, i, x) :
                  \/ r.table = "source" /\ r.pt = NoType /\ r.i = i
                  \/ r.table \in EndpointTables /\ r.pt = "S" /\ r.p[1] = i
<1> DEFINE rows == insert_source(m, i, x)
           row == Row("source", NoType, m, <<>>, i, x)
           under == insert_endpoint("S", m, i, x)
<1>1. rows = row \cup under
      BY DEF insert_source
<1>2. \A r \in row : r.table = "source" /\ r.pt = NoType /\ r.i = i
      BY DEF Row
<1>3. Unique(row)
      BY DEF Row, Unique
<1>4. Unique(under) /\ \A r \in under : r.table \in EndpointTables /\ r.pt = "S" /\ r.p[1] = i
      BY EndpointKeys
<1>5. "source" \notin EndpointTables
      BY DEF EndpointTables
<1> HIDE DEF row, under
<1> QED  BY <1>1, <1>2, <1>3, <1>4, <1>5 DEF Unique, SameKey

LEMMA AnalyzerKeys ==
    ASSUME NEW pt, NEW m, NEW i, NEW x, IsAnalyzer(x)
    PROVE  /\ Unique(insert_analyzer(pt, m, i, x))
           /\ \A r \in insert_analyzer(pt, m, i, x) :
                  /\ r.pt = pt
                  /\ \/ r.table = "analyzer" /\ r.i = i
                     \/ r.table \in EndpointTables /\ r.p[1] = i
<1> DEFINE rows == insert_analyzer(pt, m, i, x)
           row == Row("analyzer", pt, m, <<>>, i, x)
           e == [node |-> x.node, process |-> x.process, user |-> {}, service |-> {}]
           under == insert_endpoint(pt, m, i, e)
<1>1. rows = row \cup under
      BY DEF insert_analyzer, insert_endpoint, Opt
<1>2. IsSource(e)
      BY DEF IsAnalyzer, IsSource, IsOpt
<1>3. \A r \in row : r.table = "analyzer" /\ r.pt = pt /\ r.i = i
      BY DEF Row
<1>4. Unique(row)
      BY DEF Row, Unique
<1>5. Unique(under) /\ \A r \in under : r.table \in EndpointTables /\ r.pt = pt /\ r.p[1] = i
  <2> HIDE DEF e
  <2> QED  BY <1>2, EndpointKeys
<1>6. "analyzer" \notin EndpointTables
      BY DEF EndpointTables
<1> HIDE DEF row, under
<1> QED  BY <1>1, <1>3, <1>4, <1>5, <1>6 DEF Unique, SameKey

\* The rows of an access bear its index in the columns of its parents.
LEMMA FileAccessKeys ==
    ASSUME NEW m, NEW t, NEW f, NEW i, NEW x, IsFileAccess(x)
    PROVE  /\ Unique(insert_file_access(m, t, f, i, x))
           /\ \A r \in insert_file_access(m, t, f, i, x) :
                  \/ r.table = "file_access" /\ r.pt = NoType /\ r.p = <<t, f>> /\ r.i = i
                  \/ r.table = "file_access_permission" /\ r.pt = NoType /\ r.p = <<t, f, i>>
                  \/ r.table = "user_id" /\ r.pt = "F" /\ r.p = <<t, f, i>>
BY SeqEnds DEF IsFileAccess, IsList, IsOpt, insert_file_access, Listed, Numbered, Opt,
               insert_file_access_permission, insert_user_id, Row, Unique, SameKey

FileTables == {"file", "file_access", "file_access_permission", "linkage", "inode", "checksum"}

\* Leaves in a list.
Linkages(m, t, i, s) == Listed(LAMBDA k, l : insert_linkage(m, t, i, k, l), s)
Checksums(m, t, i, s) == Listed(LAMBDA k, c : insert_checksum(m, t, i, k, c), s)
AdditionalData(pt, m, s) == Listed(LAMBDA k, y : insert_additional_data(pt, m, k, y), s)

LEMMA LeafKeys ==
    ASSUME NEW m, NEW t, NEW i, NEW s, IsSeq(s)
    PROVE  /\ Unique(Linkages(m, t, i, s))
           /\ Unique(Checksums(m, t, i, s))
           /\ \A pt : Unique(AdditionalData(pt, m, s))
BY SeqEnds DEF Linkages, Checksums, AdditionalData, Listed, Numbered, insert_linkage,
               insert_checksum, insert_additional_data, Row, Unique, SameKey

LEMMA FileKeys ==
    ASSUME NEW m, NEW t, NEW i, NEW x, IsFile(x)
    PROVE  /\ Unique(insert_file(m, t, i, x))
           /\ \A r \in insert_file(m, t, i, x) :
                  /\ \/ r.table \in FileTables /\ r.pt = NoType
                     \/ r.table = "user_id" /\ r.pt = "F"
                  /\ r.p[1] = t
                  /\ IF r.table = "file" THEN r.i = i ELSE r.p[2] = i
<1> DEFINE rows == insert_file(m, t, i, x)
           list == x.file_access
           at(k) == IF k = -1 THEN list[Len(list)] ELSE list[k + 1]
           access(k) == insert_file_access(m, t, i, k, at(k))
           tag(r) == IF r.table = "file_access" THEN r.i ELSE r.p[3]
           linkages == Linkages(m, t, i, x.linkage)
           checksums == Checksums(m, t, i, x.checksum)
<1>1. IsSeq(list) /\ \A k \in DOMAIN list : IsFileAccess(list[k])
      BY DEF IsFile, IsList
<1>2. IsSeq(x.linkage) /\ IsSeq(x.checksum) /\ \A a, b \in x.inode : a = b
      BY DEF IsFile, IsList, IsOpt
<1>3. ASSUME NEW r \in rows
      PROVE  \/ r \in Row("file", NoType, m, <<t>>, i, x)
             \/ \E k \in DOMAIN list : r \in insert_file_access(m, t, i, k - 1, list[k])
             \/ list # <<>> /\ r \in insert_file_access(m, t, i, -1, list[Len(list)])
             \/ r \in linkages \/ r \in checksums
             \/ \E y \in x.inode : r \in insert_inode(m, t, i, y)
      BY DEF insert_file, Linkages, Checksums, Listed, Numbered, Opt, Last
<1>4. ASSUME NEW r,
             \/ \E k \in DOMAIN list : r \in insert_file_access(m, t, i, k - 1, list[k])
             \/ list # <<>> /\ r \in insert_file_access(m, t, i, -1, list[Len(list)])
      PROVE  \E k : IsFileAccess(at(k)) /\ r \in access(k)
  <2>1. CASE \E k \in DOMAIN list : r \in insert_file_access(m, t, i, k - 1, list[k])
    <3>1. PICK k \in DOMAIN list : r \in insert_file_access(m, t, i, k - 1, list[k])
          BY <2>1
    <3>2. k \in Nat /\ k >= 1
          BY <1>1, SeqEnds
    <3>3. at(k - 1) = list[k]
          BY <3>2
    <3> QED  BY <1>1, <3>1, <3>3
  <2>2. CASE list # <<>> /\ r \in insert_file_access(m, t, i, -1, list[Len(list)])
    <3>1. at(-1) = list[Len(list)]
          OBVIOUS
    <3> QED  BY <1>1, <2>2, <3>1, SeqEnds
  <2> QED  BY <1>4, <2>1, <2>2
<1>5. ASSUME NEW r, NEW k, IsFileAccess(at(k)), r \in access(k)
      PROVE  /\ r.table \in {"file_access", "file_access_permission", "user_id"}
             /\ r.pt = IF r.table = "user_id" THEN "F" ELSE NoType
             /\ r.p[1] = t /\ r.p[2] = i /\ tag(r) = k
  <2> HIDE DEF at
  <2>1. \/ r.table = "file_access" /\ r.pt = NoType /\ r.p = <<t, i>> /\ r.i = k
        \/ r.table = "file_access_permission" /\ r.pt = NoType /\ r.p = <<t, i, k>>
        \/ r.table = "user_id" /\ r.pt = "F" /\ r.p = <<t, i, k>>
        BY <1>5, FileAccessKeys
  <2> QED  BY <2>1
<1>6. ASSUME NEW r
      PROVE  /\ r \in Row("file", NoType, m, <<t>>, i, x) =>
                    r.table = "file" /\ r.pt = NoType /\ r.p[1] = t /\ r.i = i
             /\ r \in linkages =>
                    r.table = "linkage" /\ r.pt = NoType /\ r.p[1] = t /\ r.p[2] = i
             /\ r \in checksums =>
                    r.table = "checksum" /\ r.pt = NoType /\ r.p[1] = t /\ r.p[2] = i
             /\ \A y : r \in insert_inode(m, t, i, y) =>
                    r.table = "inode" /\ r.pt = NoType /\ r.p[1] = t /\ r.p[2] = i
      BY DEF Row, Linkages, Checksums, Listed, Numbered, insert_linkage, insert_checksum,
             insert_inode
<1>7. /\ Unique(linkages) /\ Unique(checksums) /\ Unique(Row("file", NoType, m, <<t>>, i, x))
      /\ \A y : Unique(insert_inode(m, t, i, y))
  <2>1. Unique(linkages) /\ Unique(checksums)
        BY <1>2, LeafKeys
  <2>2. /\ Unique(Row("file", NoType, m, <<t>>, i, x))
        /\ \A y : Unique(insert_inode(m, t, i, y))
        BY DEF Unique, Row, insert_inode
  <2> QED  BY <2>1, <2>2
<1> HIDE DEF at, access, tag, linkages, checksums, list
<1>8. ASSUME NEW r \in rows
      PROVE  /\ r.table \in {"file_access", "file_access_permission", "user_id"} =>
                    IsFileAccess(at(tag(r))) /\ r \in access(tag(r))
             /\ r.table = "file" => r \in Row("file", NoType, m, <<t>>, i, x)
             /\ r.table = "linkage" => r \in linkages
             /\ r.table = "checksum" => r \in checksums
             /\ r.table = "inode" => \E y \in x.inode : r \in insert_inode(m, t, i, y)
  <2>1. CASE \E k : IsFileAccess(at(k)) /\ r \in access(k)
    <3>1. PICK k : IsFileAccess(at(k)) /\ r \in access(k)
          BY <2>1
    <3>2. r.table \in {"file_access", "file_access_permission", "user_id"} /\ tag(r) = k
          BY <1>5, <3>1
    <3> QED  BY <3>1, <3>2
  <2>2. CASE ~\E k : IsFileAccess(at(k)) /\ r \in access(k)
        BY <1>3, <1>4, <1>6, <2>2
  <2> QED  BY <2>1, <2>2
<1>9. ASSUME NEW r \in rows
      PROVE  /\ \/ r.table \in FileTables /\ r.pt = NoType
                \/ r.table = "user_id" /\ r.pt = "F"
             /\ r.p[1] = t
             /\ IF r.table = "file" THEN r.i = i ELSE r.p[2] = i
  <2>1. CASE \E k : IsFileAccess(at(k)) /\ r \in access(k)
        BY <1>5, <2>1 DEF FileTables
  <2>2. CASE ~\E k : IsFileAccess(at(k)) /\ r \in access(k)
        BY <1>3, <1>4, <1>6, <2>2 DEF FileTables
  <2> QED  BY <2>1, <2>2
<1>10. ASSUME NEW a \in rows, NEW b \in rows, SameKey(a, b)
       PROVE  a = b
  <2>1. a.table = b.table /\ a.p = b.p /\ a.i = b.i
        BY <1>10 DEF SameKey
  <2>2. CASE a.table \in {"file_access", "file_access_permission", "user_id"}
    <3>1. tag(a) = tag(b)
          BY <2>1 DEF tag
    <3>2. IsFileAccess(at(tag(a))) /\ a \in access(tag(a)) /\ b \in access(tag(a))
          BY <1>8, <2>1, <2>2, <3>1
    <3> QED  BY <1>10, <3>2, FileAccessKeys DEF access, Unique
  <2>3. CASE a.table \in {"file", "linkage", "checksum"}
        BY <1>7, <1>8, <1>10, <2>1, <2>3 DEF Unique
  <2>4. CASE a.table = "inode"
    <3>1. PICK y \in x.inode : a \in insert_inode(m, t, i, y)
          BY <1>8, <2>4
    <3>2. b \in insert_inode(m, t, i, y)
          BY <1>2, <1>8, <2>1, <2>4
    <3> QED  BY <1>7, <1>10, <3>1, <3>2 DEF Unique
  <2> QED  BY <1>9, <2>2, <2>3, <2>4 DEF FileTables
<1> QED  BY <1>9, <1>10 DEF Unique

\* The elements of a list by the index they are stored under.
At(s, k) == IF k = -1 THEN s[Len(s)] ELSE s[k + 1]

LEMMA AtPlaces ==
    ASSUME NEW s, IsSeq(s)
    PROVE  /\ \A k \in DOMAIN s : At(s, k - 1) = s[k]
           /\ s # <<>> => At(s, -1) = s[Len(s)] /\ Len(s) \in DOMAIN s
BY SeqEnds DEF At

Files(m, t, s) == Listed(LAMBDA i, x : insert_file(m, t, i, x), s)
Analyzers(pt, m, s) == Listed(LAMBDA i, x : insert_analyzer(pt, m, i, x), s)
Sources(m, s) == Listed(LAMBDA i, x : insert_source(m, i, x), s)
Targets(m, s) == Listed(LAMBDA i, x : insert_target(m, i, x), s)

\* What tells the rows of each list.
InFiles(r, t) ==
    /\ r.p[1] = t
    /\ \/ r.table \in FileTables /\ r.pt = NoType
       \/ r.table = "user_id" /\ r.pt = "F"
InAnalyzers(r, pt) == r.pt = pt /\ r.table \in EndpointTables \cup {"analyzer"}
InSources(r) ==
    \/ r.table = "source"
    \/ r.table \in EndpointTables /\ r.pt = "S"
InTargets(r) ==
    \/ r.table \in FileTables \cup {"target"}
    \/ r.table \in EndpointTables /\ r.pt \in {"T", "F"}

LEMMA FilesKeys ==
    ASSUME NEW m, NEW t, NEW s, IsSeq(s), \A k \in DOMAIN s : IsFile(s[k])
    PROVE  /\ Unique(Files(m, t, s))
           /\ \A r \in Files(m, t, s) : InFiles(r, t)
<1> DEFINE rows == Files(m, t, s)
           tag(r) == IF r.table = "file" THEN r.i ELSE r.p[2]
<1>1. ASSUME NEW r \in rows
      PROVE  \E k : IsFile(At(s, k)) /\ r \in insert_file(m, t, k, At(s, k))
  <2>1. \/ \E k \in DOMAIN s : r \in insert_file(m, t, k - 1, s[k])
        \/ s # <<>> /\ r \in insert_file(m, t, -1, s[Len(s)])
        BY DEF Files, Listed, Numbered, Last
  <2>2. CASE \E k \in DOMAIN s : r \in insert_file(m, t, k - 1, s[k])
        BY <2>2, AtPlaces
  <2>3. CASE s # <<>> /\ r \in insert_file(m, t, -1, s[Len(s)])
        BY <2>3, AtPlaces
  <2> QED  BY <2>1, <2>2, <2>3
<1>2. ASSUME NEW r, NEW k, IsFile(At(s, k)), r \in insert_file(m, t, k, At(s, k))
      PROVE  tag(r) = k /\ InFiles(r, t)
  <2>1. /\ InFiles(r, t)
        /\ IF r.table = "file" THEN r.i = k ELSE r.p[2] = k
        BY <1>2, FileKeys DEF InFiles
  <2> QED  BY <2>1
<1>3. ASSUME NEW a \in rows, NEW b \in rows, SameKey(a, b)
      PROVE  a = b
  <2>1. tag(a) = tag(b)
        BY <1>3 DEF SameKey
  <2> HIDE DEF tag, rows
  <2>2. PICK k : IsFile(At(s, k)) /\ a \in insert_file(m, t, k, At(s, k))
        BY <1>1
  <2>3. PICK l : IsFile(At(s, l)) /\ b \in insert_file(m, t, l, At(s, l))
        BY <1>1
  <2>4. k = l
        BY <1>2, <2>1, <2>2, <2>3
  <2> QED  BY <1>3, <2>2, <2>3, <2>4, FileKeys DEF Unique
<1>4. \A r \in rows : InFiles(r, t)
  <2> HIDE DEF tag, rows
  <2> QED  BY <1>1, <1>2
<1> QED  BY <1>3, <1>4 DEF Unique

LEMMA AnalyzersKeys ==
    ASSUME NEW pt, NEW m, NEW s, IsSeq(s), \A k \in DOMAIN s : IsAnalyzer(s[k])
    PROVE  /\ Unique(Analyzers(pt, m, s))
           /\ \A r \in Analyzers(pt, m, s) : InAnalyzers(r, pt)
<1> DEFINE rows == Analyzers(pt, m, s)
           tag(r) == IF r.table = "analyzer" THEN r.i ELSE r.p[1]
<1>1. ASSUME NEW r \in rows
      PROVE  \E k : IsAnalyzer(At(s, k)) /\ r \in insert_analyzer(pt, m, k, At(s, k))
  <2>1. \/ \E k \in DOMAIN s : r \in insert_analyzer(pt, m, k - 1, s[k])
        \/ s # <<>> /\ r \in insert_analyzer(pt, m, -1, s[Len(s)])
        BY DEF Analyzers, Listed, Numbered, Last
  <2>2. CASE \E k \in DOMAIN s : r \in insert_analyzer(pt, m, k - 1, s[k])
        BY <2>2, AtPlaces
  <2>3. CASE s # <<>> /\ r \in insert_analyzer(pt, m, -1, s[Len(s)])
        BY <2>3, AtPlaces
  <2> QED  BY <2>1, <2>2, <2>3
<1>2. ASSUME NEW r, NEW k, IsAnalyzer(At(s, k)), r \in insert_analyzer(pt, m, k, At(s, k))
      PROVE  tag(r) = k /\ InAnalyzers(r, pt)
  <2>1. \/ r.table = "analyzer" /\ r.pt = pt /\ r.i = k
        \/ r.table \in EndpointTables /\ r.pt = pt /\ r.p[1] = k
        BY <1>2, AnalyzerKeys
  <2> QED  BY <2>1 DEF EndpointTables, InAnalyzers
<1>3. ASSUME NEW a \in rows, NEW b \in rows, SameKey(a, b)
      PROVE  a = b
  <2>1. tag(a) = tag(b)
        BY <1>3 DEF SameKey
  <2> HIDE DEF tag, rows
  <2>2. PICK k : IsAnalyzer(At(s, k)) /\ a \in insert_analyzer(pt, m, k, At(s, k))
        BY <1>1
  <2>3. PICK l : IsAnalyzer(At(s, l)) /\ b \in insert_analyzer(pt, m, l, At(s, l))
        BY <1>1
  <2>4. k = l
        BY <1>2, <2>1, <2>2, <2>3
  <2> QED  BY <1>3, <2>2, <2>3, <2>4, AnalyzerKeys DEF Unique
<1>4. \A r \in rows : InAnalyzers(r, pt)
  <2> HIDE DEF tag, rows
  <2> QED  BY <1>1, <1>2
<1> QED  BY <1>3, <1>4 DEF Unique

LEMMA SourcesKeys ==
    ASSUME NEW m, NEW s, IsSeq(s), \A k \in DOMAIN s : IsSource(s[k])
    PROVE  /\ Unique(Sources(m, s))
           /\ \A r \in Sources(m, s) : InSources(r)
<1> DEFINE rows == Sources(m, s)
           tag(r) == IF r.table = "source" THEN r.i ELSE r.p[1]
<1>1. ASSUME NEW r \in rows
      PROVE  \E k : IsSource(At(s, k)) /\ r \in insert_source(m, k, At(s, k))
  <2>1. \/ \E k \in DOMAIN s : r \in insert_source(m, k - 1, s[k])
        \/ s # <<>> /\ r \in insert_source(m, -1, s[Len(s)])
        BY DEF Sources, Listed, Numbered, Last
  <2>2. CASE \E k \in DOMAIN s : r \in insert_source(m, k - 1, s[k])
        BY <2>2, AtPlaces
  <2>3. CASE s # <<>> /\ r \in insert_source(m, -1, s[Len(s)])
        BY <2>3, AtPlaces
  <2> QED  BY <2>1, <2>2, <2>3
<1>2. ASSUME NEW r, NEW k, IsSource(At(s, k)), r \in insert_source(m, k, At(s, k))
      PROVE  tag(r) = k /\ InSources(r)
  <2>1. \/ r.table = "source" /\ r.pt = NoType /\ r.i = k
        \/ r.table \in EndpointTables /\ r.pt = "S" /\ r.p[1] = k
        BY <1>2, SourceKeys
  <2>2. "source" \notin EndpointTables
        BY DEF EndpointTables
  <2> QED  BY <2>1, <2>2 DEF InSources
<1>3. ASSUME NEW a \in rows, NEW b \in rows, SameKey(a, b)
      PROVE  a = b
  <2>1. tag(a) = tag(b)
        BY <1>3 DEF SameKey
  <2> HIDE DEF tag, rows
  <2>2. PICK k : IsSource(At(s, k)) /\ a \in insert_source(m, k, At(s, k))
        BY <1>1
  <2>3. PICK l : IsSource(At(s, l)) /\ b \in insert_source(m, l, At(s, l))
        BY <1>1
  <2>4. k = l
        BY <1>2, <2>1, <2>2, <2>3
  <2> QED  BY <1>3, <2>2, <2>3, <2>4, SourceKeys DEF Unique
<1>4. \A r \in rows : InSources(r)
  <2> HIDE DEF tag, rows
  <2> QED  BY <1>1, <1>2
<1> QED  BY <1>3, <1>4 DEF Unique

LEMMA TargetKeys ==
    ASSUME NEW m, NEW i, NEW x, IsTarget(x)
    PROVE  /\ Unique(insert_target(m, i, x))
           /\ \A r \in insert_target(m, i, x) :
                  \/ r.table = "target" /\ r.pt = NoType /\ r.i = i
                  \/ r.table \in EndpointTables /\ r.pt = "T" /\ r.p[1] = i
                  \/ r.table \in FileTables /\ r.p[1] = i
                  \/ r.table = "user_id" /\ r.pt = "F" /\ r.p[1] = i
<1> DEFINE rows == insert_target(m, i, x)
           row == Row("target", NoType, m, <<>>, i, x)
           under == insert_endpoint("T", m, i, x)
           files == Files(m, i, x.file)
<1>1. rows = row \cup under \cup files
      BY DEF insert_target, Files, Listed, Numbered
<1>2. \A r \in row : r.table = "target" /\ r.pt = NoType /\ r.i = i
      BY DEF Row
<1>3. Unique(row)
      BY DEF Row, Unique
<1>4. IsSource(x) /\ IsSeq(x.file) /\ \A k \in DOMAIN x.file : IsFile(x.file[k])
      BY DEF IsTarget, IsList
<1>5. Unique(under) /\ \A r \in under : r.table \in EndpointTables /\ r.pt = "T" /\ r.p[1] = i
      BY <1>4, EndpointKeys
<1>6. /\ Unique(files)
      /\ \A r \in files : InFiles(r, i)
      BY <1>4, FilesKeys
<1>7. /\ "target" \notin EndpointTables /\ "target" \notin FileTables \cup {"user_id"}
      /\ \A z \in FileTables : z \notin EndpointTables
      BY DEF EndpointTables, FileTables
<1> HIDE DEF row, under, files
<1>8. ASSUME NEW a \in rows, NEW b \in rows, SameKey(a, b)
      PROVE  a = b
  <2>1. a.table = b.table /\ a.pt = b.pt
        BY <1>8 DEF SameKey
  <2>2. \/ a \in row /\ b \in row
        \/ a \in under /\ b \in under
        \/ a \in files /\ b \in files
        BY <1>1, <1>2, <1>5, <1>6, <1>7, <2>1 DEF InFiles
  <2> QED  BY <1>3, <1>5, <1>6, <1>8, <2>2 DEF Unique
<1> QED  BY <1>1, <1>2, <1>5, <1>6, <1>8 DEF Unique, InFiles

LEMMA TargetsKeys ==
    ASSUME NEW m, NEW s, IsSeq(s), \A k \in DOMAIN s : IsTarget(s[k])
    PROVE  /\ Unique(Targets(m, s))
           /\ \A r \in Targets(m, s) : InTargets(r)
<1> DEFINE rows == Targets(m, s)
           tag(r) == IF r.table = "target" THEN r.i ELSE r.p[1]
<1>1. ASSUME NEW r \in rows
      PROVE  \E k : IsTarget(At(s, k)) /\ r \in insert_target(m, k, At(s, k))
  <2>1. \/ \E k \in DOMAIN s : r \in insert_target(m, k - 1, s[k])
        \/ s # <<>> /\ r \in insert_target(m, -1, s[Len(s)])
        BY DEF Targets, Listed, Numbered, Last
  <2>2. CASE \E k \in DOMAIN s : r \in insert_target(m, k - 1, s[k])
        BY <2>2, AtPlaces
  <2>3. CASE s # <<>> /\ r \in insert_target(m, -1, s[Len(s)])
        BY <2>3, AtPlaces
  <2> QED  BY <2>1, <2>2, <2>3
<1>2. ASSUME NEW r, NEW k, IsTarget(At(s, k)), r \in insert_target(m, k, At(s, k))
      PROVE  tag(r) = k /\ InTargets(r)
  <2>1. \/ r.table = "target" /\ r.pt = NoType /\ r.i = k
        \/ r.table \in EndpointTables /\ r.pt = "T" /\ r.p[1] = k
        \/ r.table \in FileTables /\ r.p[1] = k
        \/ r.table = "user_id" /\ r.pt = "F" /\ r.p[1] = k
        BY <1>2, TargetKeys
  <2> QED  BY <2>1 DEF EndpointTables, FileTables, InTargets
<1>3. ASSUME NEW a \in rows, NEW b \in rows, SameKey(a, b)
      PROVE  a = b
  <2>1. tag(a) = tag(b)
        BY <1>3 DEF SameKey
  <2> HIDE DEF tag, rows
  <2>2. PICK k : IsTarget(At(s, k)) /\ a \in insert_target(m, k, At(s, k))
        BY <1>1
  <2>3. PICK l : IsTarget(At(s, l)) /\ b \in insert_target(m, l, At(s, l))
        BY <1>1
  <2>4. k = l
        BY <1>2, <2>1, <2>2, <2>3
  <2> QED  BY <1>3, <2>2, <2>3, <2>4, TargetKeys DEF Unique
<1>4. \A r \in rows : InTargets(r)
  <2> HIDE DEF tag, rows
  <2> QED  BY <1>1, <1>2
<1> QED  BY <1>3, <1>4 DEF Unique

\* The parts of an alert that have no list of their own elements under them.
LEMMA PartKeys ==
    ASSUME NEW m, NEW x
    PROVE  /\ IsAssessment(x) => Unique(insert_assessment(m, x))
           /\ IsRelatedAlert(x) => Unique(insert_tool_alert(m, x))
           /\ IsRelatedAlert(x) => Unique(insert_correlation_alert(m, x))
           /\ IsClassification(x) => Unique(insert_classification(m, x))
           /\ Unique(insert_overflow_alert(m, x)) /\ Unique(insert_detecttime(m, x))
           /\ \A pt : Unique(insert_createtime(pt, m, x)) /\ Unique(insert_analyzertime(pt, m, x))
           /\ \A kind : Unique(insert_message_messageid(kind, m, x))
<1> USE SeqEnds DEF Unique, SameKey, Row, Listed, Numbered, Opt, IsList, IsOpt
<1>1. IsAssessment(x) => Unique(insert_assessment(m, x))
      BY DEF IsAssessment, insert_assessment, insert_impact, insert_confidence, insert_action
<1>2. /\ IsRelatedAlert(x) => Unique(insert_tool_alert(m, x))
      /\ IsRelatedAlert(x) => Unique(insert_correlation_alert(m, x))
      BY DEF IsRelatedAlert, insert_tool_alert, insert_correlation_alert, insert_alertident
<1>3. IsClassification(x) => Unique(insert_classification(m, x))
      BY DEF IsClassification, insert_classification, insert_reference
<1>4. /\ Unique(insert_overflow_alert(m, x)) /\ Unique(insert_detecttime(m, x))
      /\ \A pt : Unique(insert_createtime(pt, m, x)) /\ Unique(insert_analyzertime(pt, m, x))
      /\ \A kind : Unique(insert_message_messageid(kind, m, x))
      BY DEF insert_overflow_alert, insert_detecttime, insert_createtime, insert_analyzertime,
             insert_message_messageid
<1> QED  BY <1>1, <1>2, <1>3, <1>4

\* The part of a message a row belongs to, from its table and parent type.
Zone(r) ==
    IF r.table \in EndpointTables
    THEN IF r.pt \in {"A", "H"} THEN "analyzer" ELSE IF r.pt = "S" THEN "source" ELSE "target"
    ELSE IF r.table \in FileTables THEN "target"
    ELSE IF r.table = "alertident"
    THEN IF r.pt = "T" THEN "tool_alert" ELSE "correlation_alert"
    ELSE IF r.table \in {"impact", "confidence", "action"} THEN "assessment"
    ELSE IF r.table = "reference" THEN "classification"
    ELSE r.table

\* The rows of each part.
CommonZones == {"analyzer", "create_time", "analyzer_time", "additional_data"}

CommonPart(z, pt, m, x) ==
    IF z = "analyzer" THEN Analyzers(pt, m, x.analyzer)
    ELSE IF z = "create_time" THEN UNION {insert_createtime(pt, m, y) : y \in x.create_time}
    ELSE IF z = "analyzer_time" THEN UNION {insert_analyzertime(pt, m, y) : y \in x.analyzer_time}
    ELSE AdditionalData(pt, m, x.additional_data)

AlertZones == {"source", "target", "detect_time", "assessment", "tool_alert", "overflow_alert",
               "correlation_alert", "classification"}

AlertPart(z, m, x) ==
    IF z = "source" THEN Sources(m, x.source)
    ELSE IF z = "target" THEN Targets(m, x.target)
    ELSE IF z = "detect_time" THEN UNION {insert_detecttime(m, y) : y \in x.detect_time}
    ELSE IF z = "assessment" THEN UNION {insert_assessment(m, y) : y \in x.assessment}
    ELSE IF z = "tool_alert" THEN UNION {insert_tool_alert(m, y) : y \in x.tool_alert}
    ELSE IF z = "overflow_alert" THEN UNION {insert_overflow_alert(m, y) : y \in x.overflow_alert}
    ELSE IF z = "correlation_alert"
    THEN UNION {insert_correlation_alert(m, y) : y \in x.correlation_alert}
    ELSE UNION {insert_classification(m, y) : y \in x.classification}

\* A part is alone in its zone, and its keys are its own.
Zoned(rows, z) == Unique(rows) /\ \A r \in rows : Zone(r) = z

LEMMA CommonPartKeys ==
    ASSUME NEW pt \in {"A", "H"}, NEW m, NEW x, IsHeartbeat(x), NEW z \in CommonZones
    PROVE  Zoned(CommonPart(z, pt, m, x), z)
<1>1. /\ \A a, b \in x.create_time : a = b
      /\ \A a, b \in x.analyzer_time : a = b
      /\ IsSeq(x.analyzer) /\ \A k \in DOMAIN x.analyzer : IsAnalyzer(x.analyzer[k])
      /\ IsSeq(x.additional_data)
      BY DEF IsHeartbeat, IsOpt, IsList
<1>2. CASE z = "analyzer"
  <2>1. /\ Unique(Analyzers(pt, m, x.analyzer))
        /\ \A r \in Analyzers(pt, m, x.analyzer) : InAnalyzers(r, pt)
        BY <1>1, AnalyzersKeys
  <2>2. \A r : InAnalyzers(r, pt) => Zone(r) = "analyzer"
        BY DEF InAnalyzers, Zone, EndpointTables, FileTables
  <2> QED  BY <1>2, <2>1, <2>2 DEF CommonPart, Zoned
<1>3. CASE z = "create_time"
  <2> DEFINE rows == UNION {insert_createtime(pt, m, y) : y \in x.create_time}
  <2>1. \A r \in rows : \E y \in x.create_time : r \in insert_createtime(pt, m, y)
        OBVIOUS
  <2>2. Unique(rows)
        BY <1>1, <2>1, PartKeys DEF Unique
  <2>3. \A r \in rows : r.table = "create_time"
        BY DEF insert_createtime, Row
  <2>4. \A r \in rows : Zone(r) = z
        BY <1>3, <2>3 DEF Zone, EndpointTables, FileTables
  <2> QED  BY <1>3, <2>2, <2>4 DEF CommonPart, Zoned
<1>4. CASE z = "analyzer_time"
  <2> DEFINE rows == UNION {insert_analyzertime(pt, m, y) : y \in x.analyzer_time}
  <2>1. \A r \in rows : \E y \in x.analyzer_time : r \in insert_analyzertime(pt, m, y)
        OBVIOUS
  <2>2. Unique(rows)
        BY <1>1, <2>1, PartKeys DEF Unique
  <2>3. \A r \in rows : r.table = "analyzer_time"
        BY DEF insert_analyzertime, Row
  <2>4. \A r \in rows : Zone(r) = z
        BY <1>4, <2>3 DEF Zone, EndpointTables, FileTables
  <2> QED  BY <1>4, <2>2, <2>4 DEF CommonPart, Zoned
<1>5. CASE z = "additional_data"
  <2>1. Unique(AdditionalData(pt, m, x.additional_data))
        BY <1>1, LeafKeys
  <2>2. \A r \in AdditionalData(pt, m, x.additional_data) : r.table = "additional_data"
        BY DEF AdditionalData, Listed, Numbered, insert_additional_data, Row
  <2>3. \A r : r.table = "additional_data" => Zone(r) = "additional_data"
        BY DEF Zone, EndpointTables, FileTables
  <2> QED  BY <1>5, <2>1, <2>2, <2>3 DEF CommonPart, Zoned
<1> QED  BY <1>2, <1>3, <1>4, <1>5 DEF CommonZones

LEMMA AlertPartKeys ==
    ASSUME NEW m, NEW x, IsAlert(x), NEW z \in AlertZones
    PROVE  Zoned(AlertPart(z, m, x), z)
<1>1. /\ IsSeq(x.source) /\ \A k \in DOMAIN x.source : IsSource(x.source[k])
      /\ IsSeq(x.target) /\ \A k \in DOMAIN x.target : IsTarget(x.target[k])
      BY DEF IsAlert, IsList
<1>2. /\ \A a, b \in x.detect_time : a = b
      /\ \A a, b \in x.overflow_alert : a = b
      /\ \A a, b \in x.assessment : a = b
      /\ \A a, b \in x.tool_alert : a = b
      /\ \A a, b \in x.correlation_alert : a = b
      /\ \A a, b \in x.classification : a = b
      BY DEF IsAlert, IsOpt
<1>3. /\ \A y \in x.assessment : IsAssessment(y)
      /\ \A y \in x.tool_alert \cup x.correlation_alert : IsRelatedAlert(y)
      /\ \A y \in x.classification : IsClassification(y)
      BY DEF IsAlert, IsOpt
<1>4. CASE z = "source"
  <2>1. Unique(Sources(m, x.source)) /\ \A r \in Sources(m, x.source) : InSources(r)
        BY <1>1, SourcesKeys
  <2>2. \A r : InSources(r) => Zone(r) = "source"
        BY DEF InSources, Zone, EndpointTables, FileTables
  <2> QED  BY <1>4, <2>1, <2>2 DEF AlertPart, Zoned
<1>5. CASE z = "target"
  <2>1. Unique(Targets(m, x.target)) /\ \A r \in Targets(m, x.target) : InTargets(r)
        BY <1>1, TargetsKeys
  <2>2. \A r : InTargets(r) => Zone(r) = "target"
        BY DEF InTargets, Zone, EndpointTables, FileTables
  <2> QED  BY <1>5, <2>1, <2>2 DEF AlertPart, Zoned
<1>6. CASE z = "detect_time"
  <2> DEFINE rows == UNION {insert_detecttime(m, y) : y \in x.detect_time}
  <2>1. \A r \in rows : \E y \in x.detect_time : r \in insert_detecttime(m, y)
        OBVIOUS
  <2>2. Unique(rows)
        BY <1>2, <1>3, <2>1, PartKeys DEF Unique
  <2>3. \A r \in rows : r.table = "detect_time"
        BY DEF insert_detecttime, Row
  <2>4. \A r \in rows : Zone(r) = z
        BY <1>6, <2>3 DEF Zone, EndpointTables, FileTables
  <2> QED  BY <1>6, <2>2, <2>4 DEF AlertPart, Zoned
<1>7. CASE z = "assessment"
  <2> DEFINE rows == UNION {insert_assessment(m, y) : y \in x.assessment}
  <2>1. \A r \in rows : \E y \in x.assessment : r \in insert_assessment(m, y)
        OBVIOUS
  <2>2. Unique(rows)
        BY <1>2, <1>3, <2>1, PartKeys DEF Unique
  <2>3. \A r \in rows : r.table \in {"assessment", "impact", "confidence", "action"}
        BY DEF insert_assessment, insert_impact, insert_confidence, insert_action, Opt, Listed,
                  Numbered, Row
  <2>4. \A r \in rows : Zone(r) = z
        BY <1>7, <2>3 DEF Zone, EndpointTables, FileTables
  <2> QED  BY <1>7, <2>2, <2>4 DEF AlertPart, Zoned
<1>8. CASE z = "tool_alert"
  <2> DEFINE rows == UNION {insert_tool_alert(m, y) : y \in x.tool_alert}
  <2>1. \A r \in rows : \E y \in x.tool_alert : r \in insert_tool_alert(m, y)
        OBVIOUS
  <2>2. Unique(rows)
        BY <1>2, <1>3, <2>1, PartKeys DEF Unique
  <2>3. \A r \in rows : r.table = "tool_alert" \/ (r.table = "alertident" /\ r.pt = "T")
        BY DEF insert_tool_alert, insert_alertident, Numbered, Row
  <2>4. \A r \in rows : Zone(r) = z
        BY <1>8, <2>3 DEF Zone, EndpointTables, FileTables
  <2> QED  BY <1>8, <2>2, <2>4 DEF AlertPart, Zoned
<1>9. CASE z = "overflow_alert"
  <2> DEFINE rows == UNION {insert_overflow_alert(m, y) : y \in x.overflow_alert}
  <2>1. \A r \in rows : \E y \in x.overflow_alert : r \in insert_overflow_alert(m, y)
        OBVIOUS
  <2>2. Unique(rows)
        BY <1>2, <1>3, <2>1, PartKeys DEF Unique
  <2>3. \A r \in rows : r.table = "overflow_alert"
        BY DEF insert_overflow_alert, Row
  <2>4. \A r \in rows : Zone(r) = z
        BY <1>9, <2>3 DEF Zone, EndpointTables, FileTables
  <2> QED  BY <1>9, <2>2, <2>4 DEF AlertPart, Zoned
<1>10. CASE z = "correlation_alert"
  <2> DEFINE rows == UNION {insert_correlation_alert(m, y) : y \in x.correlation_alert}
  <2>1. \A r \in rows : \E y \in x.correlation_alert : r \in insert_correlation_alert(m, y)
        OBVIOUS
  <2>2. Unique(rows)
        BY <1>2, <1>3, <2>1, PartKeys DEF Unique
  <2>3. \A r \in rows : r.table = "correlation_alert" \/ (r.table = "alertident" /\ r.pt = "C")
        BY DEF insert_correlation_alert, insert_alertident, Listed, Numbered, Row
  <2>4. \A r \in rows : Zone(r) = z
        BY <1>10, <2>3 DEF Zone, EndpointTables, FileTables
  <2> QED  BY <1>10, <2>2, <2>4 DEF AlertPart, Zoned
<1>11. CASE z = "classification"
  <2> DEFINE rows == UNION {insert_classification(m, y) : y \in x.classification}
  <2>1. \A r \in rows : \E y \in x.classification : r \in insert_classification(m, y)
        OBVIOUS
  <2>2. Unique(rows)
        BY <1>2, <1>3, <2>1, PartKeys DEF Unique
  <2>3. \A r \in rows : r.table \in {"classification", "reference"}
        BY DEF insert_classification, insert_reference, Listed, Numbered, Row
  <2>4. \A r \in rows : Zone(r) = z
        BY <1>11, <2>3 DEF Zone, EndpointTables, FileTables
  <2> QED  BY <1>11, <2>2, <2>4 DEF AlertPart, Zoned
<1> QED  BY <1>4, <1>5, <1>6, <1>7, <1>8, <1>9, <1>10, <1>11 DEF AlertZones

\* A row of a message is its first one or in one of its parts.
TypeOf(t) == IF t.kind = "alert" THEN "A" ELSE "H"
ZonesOf(t) == IF t.kind = "alert" THEN AlertZones ELSE {}

LEMMA RestParts ==
    ASSUME NEW t, t.kind \in Kinds, NEW r \in insert_rest(t.kind, t.m, t.x)
    PROVE  \/ \E z \in CommonZones : r \in CommonPart(z, TypeOf(t), t.m, t.x)
           \/ \E z \in ZonesOf(t) : r \in AlertPart(z, t.m, t.x)
<1>1. CASE t.kind = "heartbeat"
  <2>1. ASSUME r \in insert_heartbeat(t.m, t.x)
        PROVE  \E z \in CommonZones : r \in CommonPart(z, "H", t.m, t.x)
        BY <2>1 DEF insert_heartbeat, Opt, CommonZones, CommonPart, Analyzers, AdditionalData,
               Listed, Numbered
  <2> QED  BY <1>1, <2>1 DEF insert_rest, TypeOf, ZonesOf
<1>2. CASE t.kind = "alert"
  <2>1. ASSUME r \in insert_alert(t.m, t.x)
        PROVE  \/ \E z \in CommonZones : r \in CommonPart(z, "A", t.m, t.x)
               \/ \E z \in AlertZones : r \in AlertPart(z, t.m, t.x)
        BY <2>1 DEF insert_alert, Opt, CommonZones, CommonPart, Analyzers, AdditionalData,
               AlertZones, AlertPart, Sources, Targets, Listed, Numbered
  <2> QED  BY <1>2, <2>1 DEF insert_rest, TypeOf, ZonesOf
<1> QED  BY <1>1, <1>2 DEF Kinds

LEMMA MessageParts ==
    ASSUME NEW t, t.kind \in Kinds, NEW r \in MessageRows(t)
    PROVE  \/ r \in insert_message_messageid(t.kind, t.m, t.x)
           \/ \E z \in CommonZones : r \in CommonPart(z, TypeOf(t), t.m, t.x)
           \/ \E z \in ZonesOf(t) : r \in AlertPart(z, t.m, t.x)
BY RestParts DEF MessageRows

\* The rows of one message have different keys.
LEMMA MessageKeys ==
    ASSUME NEW t, t.kind \in Kinds, IsMessage(t.kind, t.x)
    PROVE  Unique(MessageRows(t))
<1> DEFINE pt == TypeOf(t)
           zones == ZonesOf(t)
           first == insert_message_messageid(t.kind, t.m, t.x)
           common(z) == CommonPart(z, pt, t.m, t.x)
           alert(z) == AlertPart(z, t.m, t.x)
<1>1. Unique(first) /\ \A r \in first : r.table = t.kind
  <2>1. Unique(first)
        BY PartKeys
  <2>2. \A r \in first : r.table = t.kind
        BY DEF insert_message_messageid, Row
  <2> QED  BY <2>1, <2>2
<1>2. \A r \in first : Zone(r) = t.kind
      BY <1>1 DEF Zone, EndpointTables, FileTables, Kinds
<1>3. \A z \in CommonZones : Zoned(common(z), z)
      BY CommonPartKeys DEF IsMessage, IsAlert, TypeOf
<1>4. \A z \in zones : Zoned(alert(z), z)
      BY AlertPartKeys DEF IsMessage, ZonesOf
<1>5. \A r \in MessageRows(t) : \/ r \in first
                                \/ \E z \in CommonZones : r \in common(z)
                                \/ \E z \in zones : r \in alert(z)
      BY MessageParts
<1>6. \A z \in zones : z \notin CommonZones /\ z \notin Kinds
      BY DEF ZonesOf, AlertZones, CommonZones, Kinds
<1>7. \A z \in CommonZones : z \notin Kinds
      BY DEF CommonZones, Kinds
<1> HIDE DEF first, common, alert, zones
<1>8. ASSUME NEW a \in MessageRows(t), NEW b \in MessageRows(t), SameKey(a, b)
      PROVE  a = b
  <2>1. Zone(a) = Zone(b)
        BY <1>8 DEF SameKey, Zone
  <2>2. CASE a \in first
    <3>1. b \in first
          BY <1>2, <1>3, <1>4, <1>5, <1>6, <1>7, <2>1, <2>2 DEF Zoned
    <3> QED  BY <1>1, <1>8, <2>2, <3>1 DEF Unique
  <2>3. CASE \E z \in CommonZones : a \in common(z)
    <3>1. PICK z \in CommonZones : a \in common(z)
          BY <2>3
    <3>2. b \in common(z)
          BY <1>2, <1>3, <1>4, <1>5, <1>6, <1>7, <2>1, <3>1 DEF Zoned
    <3> QED  BY <1>3, <1>8, <3>1, <3>2 DEF Zoned, Unique
  <2>4. CASE \E z \in zones : a \in alert(z)
    <3>1. PICK z \in zones : a \in alert(z)
          BY <2>4
    <3>2. b \in alert(z)
          BY <1>2, <1>3, <1>4, <1>5, <1>6, <1>7, <2>1, <3>1 DEF Zoned
    <3> QED  BY <1>4, <1>8, <3>1, <3>2 DEF Zoned, Unique
  <2> QED  BY <1>5, <2>2, <2>3, <2>4
<1> QED  BY <1>8 DEF Unique

----------------------------------------------------------------------------
(* A message has finitely many rows.                                        *)

\* A finite family of finite sets.
LEMMA FiniteFamily ==
    ASSUME NEW D, IsFiniteSet(D), NEW f, \A k \in D : IsFiniteSet(f[k])
    PROVE  IsFiniteSet(UNION {f[k] : k \in D})
<1> DEFINE T == {f[k] : k \in D}
           g == [k \in D |-> f[k]]
<1>1. g \in Surjection(D, T)
      BY DEF Surjection
<1>2. IsFiniteSet(T)
      BY <1>1, FS_Surjection
<1> QED  BY <1>2, FS_UNION

\* An object that may be absent.
LEMMA FiniteOption ==
    ASSUME NEW o, \A a, b \in o : a = b
    PROVE  IsFiniteSet(o)
<1>1. CASE o = {}
      BY <1>1, FS_EmptySet
<1>2. CASE o # {}
  <2>1. PICK a \in o : TRUE
        BY <1>2
  <2>2. o = {a}
        BY <2>1
  <2> QED  BY <2>2, FS_Singleton
<1> QED  BY <1>1, <1>2

\* Leaves in a list.
FrontRows(table, pt, m, p, s) == UNION {Row(table, pt, m, p, k - 1, s[k]) : k \in DOMAIN s}

LeafRows(table, pt, m, p, s) ==
    FrontRows(table, pt, m, p, s) \cup Row(table, pt, m, p, -1, s[Len(s)])

LEMMA FiniteLeaves ==
    ASSUME NEW table, NEW pt, NEW m, NEW p, NEW s, IsSeq(s)
    PROVE  IsFiniteSet(LeafRows(table, pt, m, p, s))
<1>1. \A i, y : IsFiniteSet(Row(table, pt, m, p, i, y))
      BY FS_Singleton DEF Row
<1> DEFINE f == [k \in DOMAIN s |-> Row(table, pt, m, p, k - 1, s[k])]
<1>2. IsFiniteSet(DOMAIN s)
      BY SeqEnds, FS_Interval
<1>3. IsFiniteSet(UNION {f[k] : k \in DOMAIN s})
  <2>1. \A k \in DOMAIN s : IsFiniteSet(f[k])
        BY <1>1
  <2> HIDE DEF f
  <2> QED  BY <1>2, <2>1, FiniteFamily
<1>4. FrontRows(table, pt, m, p, s) = UNION {f[k] : k \in DOMAIN s}
      BY DEF FrontRows
<1>5. IsFiniteSet(FrontRows(table, pt, m, p, s))
  <2> HIDE DEF f
  <2> QED  BY <1>3, <1>4
<1>6. IsFiniteSet(Row(table, pt, m, p, -1, s[Len(s)]))
      BY <1>1
<1> DEFINE A == FrontRows(table, pt, m, p, s)
           B == Row(table, pt, m, p, -1, s[Len(s)])
<1>7. LeafRows(table, pt, m, p, s) = A \cup B
      BY DEF LeafRows
<1> HIDE DEF A, B
<1>8. IsFiniteSet(A) /\ IsFiniteSet(B)
      BY <1>5, <1>6 DEF A, B
<1> QED  BY <1>7, <1>8, FS_Union

\* A row of the list, by its place.
LEMMA LeafRow ==
    ASSUME NEW table, NEW pt, NEW m, NEW p, NEW s, NEW r
    PROVE  /\ \A k \in DOMAIN s :
                  r \in Row(table, pt, m, p, k - 1, s[k]) => r \in LeafRows(table, pt, m, p, s)
           /\ r \in Row(table, pt, m, p, -1, s[Len(s)]) => r \in LeafRows(table, pt, m, p, s)
<1>1. ASSUME NEW k \in DOMAIN s, r \in Row(table, pt, m, p, k - 1, s[k])
      PROVE  r \in LeafRows(table, pt, m, p, s)
  <2>1. Row(table, pt, m, p, k - 1, s[k]) \in {Row(table, pt, m, p, j - 1, s[j]) : j \in DOMAIN s}
        OBVIOUS
  <2> QED  BY <1>1, <2>1 DEF LeafRows, FrontRows
<1>2. ASSUME r \in Row(table, pt, m, p, -1, s[Len(s)])
      PROVE  r \in LeafRows(table, pt, m, p, s)
      BY <1>2 DEF LeafRows
<1> QED  BY <1>1, <1>2

\* Three sets.
LEMMA FiniteThree ==
    ASSUME NEW A, NEW B, NEW C, NEW rows, rows \subseteq A \cup B \cup C,
           IsFiniteSet(A), IsFiniteSet(B), IsFiniteSet(C)
    PROVE  IsFiniteSet(rows)
<1>1. IsFiniteSet(A \cup B)
      BY FS_Union
<1>2. IsFiniteSet(A \cup B \cup C)
      BY <1>1, FS_Union
<1> QED  BY <1>2, FS_Subset

LEMMA FiniteRow ==
    ASSUME NEW table, NEW pt, NEW m, NEW p, NEW i, NEW x
    PROVE  IsFiniteSet(Row(table, pt, m, p, i, x))
BY FS_Singleton DEF Row

LEMMA FiniteParts ==
    ASSUME NEW pt, NEW m, NEW p, NEW x
    PROVE  /\ IsNode(x) => IsFiniteSet(insert_node(pt, m, p, x))
           /\ IsUser(x) => IsFiniteSet(insert_user(pt, m, p, x))
           /\ IsProcess(x) => IsFiniteSet(insert_process(pt, m, p, x))
           /\ IsWebService(x) => IsFiniteSet(insert_web_service(pt, m, p, x))
           /\ IsClassification(x) => IsFiniteSet(insert_classification(m, x))
           /\ IsRelatedAlert(x) => IsFiniteSet(insert_tool_alert(m, x))
           /\ IsRelatedAlert(x) => IsFiniteSet(insert_correlation_alert(m, x))
<1>1. ASSUME IsNode(x) PROVE IsFiniteSet(insert_node(pt, m, p, x))
  <2> DEFINE A == Row("node", pt, m, <<p>>, NoIndex, x)
             B == LeafRows("address", pt, m, <<p>>, x.address)
             C == {}
  <2>1. insert_node(pt, m, p, x) \subseteq A \cup B \cup C
    <3>1. ASSUME NEW r \in insert_node(pt, m, p, x)
          PROVE  \/ r \in A
                 \/ \E k \in DOMAIN x.address :
                        r \in Row("address", pt, m, <<p>>, k - 1, x.address[k])
                 \/ r \in Row("address", pt, m, <<p>>, -1, x.address[Len(x.address)])
          BY DEF insert_node, insert_address, Listed, Numbered, Last
    <3> QED  BY <3>1, LeafRow
  <2>2. IsFiniteSet(A) /\ IsFiniteSet(B) /\ IsFiniteSet(C)
        BY <1>1, FiniteRow, FiniteLeaves, FS_EmptySet DEF IsNode, IsList
  <2> HIDE DEF A, B, C
  <2> QED  BY <2>1, <2>2, FiniteThree
<1>2. ASSUME IsUser(x) PROVE IsFiniteSet(insert_user(pt, m, p, x))
  <2> DEFINE A == Row("user", pt, m, <<p>>, NoIndex, x)
             B == LeafRows("user_id", pt, m, <<p, 0, 0>>, x.user_id)
             C == {}
  <2>1. insert_user(pt, m, p, x) \subseteq A \cup B \cup C
    <3>1. ASSUME NEW r \in insert_user(pt, m, p, x)
          PROVE  \/ r \in A
                 \/ \E k \in DOMAIN x.user_id :
                        r \in Row("user_id", pt, m, <<p, 0, 0>>, k - 1, x.user_id[k])
                 \/ r \in Row("user_id", pt, m, <<p, 0, 0>>, -1, x.user_id[Len(x.user_id)])
          BY DEF insert_user, insert_user_id, Listed, Numbered, Last
    <3> QED  BY <3>1, LeafRow
  <2>2. IsFiniteSet(A) /\ IsFiniteSet(B) /\ IsFiniteSet(C)
        BY <1>2, FiniteRow, FiniteLeaves, FS_EmptySet DEF IsUser, IsList
  <2> HIDE DEF A, B, C
  <2> QED  BY <2>1, <2>2, FiniteThree
<1>3. ASSUME IsProcess(x) PROVE IsFiniteSet(insert_process(pt, m, p, x))
  <2> DEFINE A == Row("process", pt, m, <<p>>, NoIndex, x)
             B == LeafRows("process_arg", pt, m, <<p>>, x.arg)
             C == LeafRows("process_env", pt, m, <<p>>, x.env)
  <2>1. insert_process(pt, m, p, x) \subseteq A \cup B \cup C
    <3>1. ASSUME NEW r \in insert_process(pt, m, p, x)
          PROVE  \/ r \in A
                 \/ \E k \in DOMAIN x.arg :
                        r \in Row("process_arg", pt, m, <<p>>, k - 1, x.arg[k])
                 \/ r \in Row("process_arg", pt, m, <<p>>, -1, x.arg[Len(x.arg)])
                 \/ \E k \in DOMAIN x.env :
                        r \in Row("process_env", pt, m, <<p>>, k - 1, x.env[k])
                 \/ r \in Row("process_env", pt, m, <<p>>, -1, x.env[Len(x.env)])
          BY DEF insert_process, insert_process_arg, insert_process_env, Listed, Numbered, Last
    <3> QED  BY <3>1, LeafRow
  <2>2. IsFiniteSet(A) /\ IsFiniteSet(B) /\ IsFiniteSet(C)
        BY <1>3, FiniteRow, FiniteLeaves, FS_EmptySet DEF IsProcess, IsList
  <2> HIDE DEF A, B, C
  <2> QED  BY <2>1, <2>2, FiniteThree
<1>4. ASSUME IsWebService(x) PROVE IsFiniteSet(insert_web_service(pt, m, p, x))
  <2> DEFINE A == Row("web_service", pt, m, <<p>>, NoIndex, x)
             B == LeafRows("web_service_arg", pt, m, <<p>>, x.arg)
             C == {}
  <2>1. insert_web_service(pt, m, p, x) \subseteq A \cup B \cup C
    <3>1. ASSUME NEW r \in insert_web_service(pt, m, p, x)
          PROVE  \/ r \in A
                 \/ \E k \in DOMAIN x.arg :
                        r \in Row("web_service_arg", pt, m, <<p>>, k - 1, x.arg[k])
                 \/ r \in Row("web_service_arg", pt, m, <<p>>, -1, x.arg[Len(x.arg)])
          BY DEF insert_web_service, insert_web_service_arg, Listed, Numbered, Last
    <3> QED  BY <3>1, LeafRow
  <2>2. IsFiniteSet(A) /\ IsFiniteSet(B) /\ IsFiniteSet(C)
        BY <1>4, FiniteRow, FiniteLeaves, FS_EmptySet DEF IsWebService, IsList
  <2> HIDE DEF A, B, C
  <2> QED  BY <2>1, <2>2, FiniteThree
<1>5. ASSUME IsClassification(x) PROVE IsFiniteSet(insert_classification(m, x))
  <2> DEFINE A == Row("classification", NoType, m, <<>>, NoIndex, x)
             B == LeafRows("reference", NoType, m, <<>>, x.reference)
             C == {}
  <2>1. insert_classification(m, x) \subseteq A \cup B \cup C
    <3>1. ASSUME NEW r \in insert_classification(m, x)
          PROVE  \/ r \in A
                 \/ \E k \in DOMAIN x.reference :
                        r \in Row("reference", NoType, m, <<>>, k - 1, x.reference[k])
                 \/ r \in Row("reference", NoType, m, <<>>, -1, x.reference[Len(x.reference)])
          BY DEF insert_classification, insert_reference, Listed, Numbered, Last
    <3> QED  BY <3>1, LeafRow
  <2>2. IsFiniteSet(A) /\ IsFiniteSet(B) /\ IsFiniteSet(C)
        BY <1>5, FiniteRow, FiniteLeaves, FS_EmptySet DEF IsClassification, IsList
  <2> HIDE DEF A, B, C
  <2> QED  BY <2>1, <2>2, FiniteThree
<1>6. ASSUME IsRelatedAlert(x) PROVE IsFiniteSet(insert_tool_alert(m, x))
  <2> DEFINE A == Row("tool_alert", NoType, m, <<>>, NoIndex, x)
             B == LeafRows("alertident", "T", m, <<>>, x.alertident)
             C == {}
  <2>1. insert_tool_alert(m, x) \subseteq A \cup B \cup C
    <3>1. ASSUME NEW r \in insert_tool_alert(m, x)
          PROVE  \/ r \in A
                 \/ \E k \in DOMAIN x.alertident :
                        r \in Row("alertident", "T", m, <<>>, k - 1, x.alertident[k])
                 \/ r \in Row("alertident", "T", m, <<>>, -1, x.alertident[Len(x.alertident)])
          BY DEF insert_tool_alert, insert_alertident, Listed, Numbered, Last
    <3> QED  BY <3>1, LeafRow
  <2>2. IsFiniteSet(A) /\ IsFiniteSet(B) /\ IsFiniteSet(C)
        BY <1>6, FiniteRow, FiniteLeaves, FS_EmptySet DEF IsRelatedAlert, IsList
  <2> HIDE DEF A, B, C
  <2> QED  BY <2>1, <2>2, FiniteThree
<1>7. ASSUME IsRelatedAlert(x) PROVE IsFiniteSet(insert_correlation_alert(m, x))
  <2> DEFINE A == Row("correlation_alert", NoType, m, <<>>, NoIndex, x)
             B == LeafRows("alertident", "C", m, <<>>, x.alertident)
             C == {}
  <2>1. insert_correlation_alert(m, x) \subseteq A \cup B \cup C
    <3>1. ASSUME NEW r \in insert_correlation_alert(m, x)
          PROVE  \/ r \in A
                 \/ \E k \in DOMAIN x.alertident :
                        r \in Row("alertident", "C", m, <<>>, k - 1, x.alertident[k])
                 \/ r \in Row("alertident", "C", m, <<>>, -1, x.alertident[Len(x.alertident)])
          BY DEF insert_correlation_alert, insert_alertident, Listed, Numbered, Last
    <3> QED  BY <3>1, LeafRow
  <2>2. IsFiniteSet(A) /\ IsFiniteSet(B) /\ IsFiniteSet(C)
        BY <1>7, FiniteRow, FiniteLeaves, FS_EmptySet DEF IsRelatedAlert, IsList
  <2> HIDE DEF A, B, C
  <2> QED  BY <2>1, <2>2, FiniteThree
<1> QED  BY <1>1, <1>2, <1>3, <1>4, <1>5, <1>6, <1>7

LEMMA FiniteService ==
    ASSUME NEW pt, NEW m, NEW p, NEW x, IsService(x)
    PROVE  IsFiniteSet(insert_service(pt, m, p, x))
<1> DEFINE row == Row("service", pt, m, <<p>>, NoIndex, x)
           web == UNION {insert_web_service(pt, m, p, y) : y \in x.web_service}
           snmp == UNION {insert_snmp_service(pt, m, p, y) : y \in x.snmp_service}
<1>1. insert_service(pt, m, p, x) = row \cup web \cup snmp
      BY DEF insert_service, Opt
<1>2. IsFiniteSet(row)
      BY FiniteRow
<1>3. IsFiniteSet(web)
  <2> DEFINE D == x.web_service
             f == [y \in D |-> insert_web_service(pt, m, p, y)]
  <2>1. IsFiniteSet(D)
        BY FiniteOption DEF IsService, IsOpt
  <2>2. \A y \in D : IsFiniteSet(f[y])
        BY FiniteParts DEF IsService, IsOpt
  <2>3. web = UNION {f[y] : y \in D}
        OBVIOUS
  <2> HIDE DEF f, D, web
  <2> QED  BY <2>1, <2>2, <2>3, FiniteFamily
<1>4. IsFiniteSet(snmp)
  <2> DEFINE D == x.snmp_service
             f == [y \in D |-> insert_snmp_service(pt, m, p, y)]
  <2>1. IsFiniteSet(D)
        BY FiniteOption DEF IsService, IsOpt
  <2>2. \A y \in D : IsFiniteSet(f[y])
        BY FiniteRow DEF insert_snmp_service
  <2>3. snmp = UNION {f[y] : y \in D}
        OBVIOUS
  <2> HIDE DEF f, D, snmp
  <2> QED  BY <2>1, <2>2, <2>3, FiniteFamily
<1> HIDE DEF row, web, snmp
<1> QED  BY <1>1, <1>2, <1>3, <1>4, FiniteThree

LEMMA FiniteAssessment ==
    ASSUME NEW m, NEW x, IsAssessment(x)
    PROVE  IsFiniteSet(insert_assessment(m, x))
<1> DEFINE row == Row("assessment", NoType, m, <<>>, NoIndex, x)
           impact == UNION {insert_impact(m, y) : y \in x.impact}
           confidence == UNION {insert_confidence(m, y) : y \in x.confidence}
           action == LeafRows("action", NoType, m, <<>>, x.action)
<1>1. IsFiniteSet(row)
      BY FiniteRow
<1>2. IsFiniteSet(impact)
  <2> DEFINE D == x.impact
             f == [y \in D |-> insert_impact(m, y)]
  <2>1. IsFiniteSet(D)
        BY FiniteOption DEF IsAssessment, IsOpt
  <2>2. \A y \in D : IsFiniteSet(f[y])
        BY FiniteRow DEF insert_impact
  <2>3. impact = UNION {f[y] : y \in D}
        OBVIOUS
  <2> HIDE DEF f, D, impact
  <2> QED  BY <2>1, <2>2, <2>3, FiniteFamily
<1>3. IsFiniteSet(confidence)
  <2> DEFINE D == x.confidence
             f == [y \in D |-> insert_confidence(m, y)]
  <2>1. IsFiniteSet(D)
        BY FiniteOption DEF IsAssessment, IsOpt
  <2>2. \A y \in D : IsFiniteSet(f[y])
        BY FiniteRow DEF insert_confidence
  <2>3. confidence = UNION {f[y] : y \in D}
        OBVIOUS
  <2> HIDE DEF f, D, confidence
  <2> QED  BY <2>1, <2>2, <2>3, FiniteFamily
<1>4. IsFiniteSet(action)
      BY FiniteLeaves DEF IsAssessment, IsList
<1>5. insert_assessment(m, x) \subseteq row \cup impact \cup (confidence \cup action)
  <2>1. ASSUME NEW r \in insert_assessment(m, x)
        PROVE  \/ r \in row \/ r \in impact \/ r \in confidence
               \/ \E k \in DOMAIN x.action :
                      r \in Row("action", NoType, m, <<>>, k - 1, x.action[k])
               \/ r \in Row("action", NoType, m, <<>>, -1, x.action[Len(x.action)])
        BY DEF insert_assessment, insert_action, Opt, Listed, Numbered, Last
  <2> QED  BY <2>1, LeafRow
<1> HIDE DEF row, impact, confidence, action
<1>6. IsFiniteSet(confidence \cup action)
      BY <1>3, <1>4, FS_Union
<1> QED  BY <1>1, <1>2, <1>5, <1>6, FiniteThree

LEMMA FiniteEndpoint ==
    ASSUME NEW pt, NEW m, NEW i, NEW x, IsSource(x)
    PROVE  IsFiniteSet(insert_endpoint(pt, m, i, x))
<1> DEFINE nodes == UNION {insert_node(pt, m, i, y) : y \in x.node}
           users == UNION {insert_user(pt, m, i, y) : y \in x.user}
           processes == UNION {insert_process(pt, m, i, y) : y \in x.process}
           services == UNION {insert_service(pt, m, i, y) : y \in x.service}
<1>1. insert_endpoint(pt, m, i, x) = nodes \cup users \cup (processes \cup services)
      BY DEF insert_endpoint, Opt
<1>2. IsFiniteSet(nodes)
  <2> DEFINE D == x.node
             f == [y \in D |-> insert_node(pt, m, i, y)]
  <2>1. IsFiniteSet(D)
        BY FiniteOption DEF IsSource, IsOpt
  <2>2. \A y \in D : IsFiniteSet(f[y])
        BY FiniteParts DEF IsSource, IsOpt
  <2>3. nodes = UNION {f[y] : y \in D}
        OBVIOUS
  <2> HIDE DEF f, D, nodes
  <2> QED  BY <2>1, <2>2, <2>3, FiniteFamily
<1>3. IsFiniteSet(users)
  <2> DEFINE D == x.user
             f == [y \in D |-> insert_user(pt, m, i, y)]
  <2>1. IsFiniteSet(D)
        BY FiniteOption DEF IsSource, IsOpt
  <2>2. \A y \in D : IsFiniteSet(f[y])
        BY FiniteParts DEF IsSource, IsOpt
  <2>3. users = UNION {f[y] : y \in D}
        OBVIOUS
  <2> HIDE DEF f, D, users
  <2> QED  BY <2>1, <2>2, <2>3, FiniteFamily
<1>4. IsFiniteSet(processes)
  <2> DEFINE D == x.process
             f == [y \in D |-> insert_process(pt, m, i, y)]
  <2>1. IsFiniteSet(D)
        BY FiniteOption DEF IsSource, IsOpt
  <2>2. \A y \in D : IsFiniteSet(f[y])
        BY FiniteParts DEF IsSource, IsOpt
  <2>3. processes = UNION {f[y] : y \in D}
        OBVIOUS
  <2> HIDE DEF f, D, processes
  <2> QED  BY <2>1, <2>2, <2>3, FiniteFamily
<1>5. IsFiniteSet(services)
  <2> DEFINE D == x.service
             f == [y \in D |-> insert_service(pt, m, i, y)]
  <2>1. IsFiniteSet(D)
        BY FiniteOption DEF IsSource, IsOpt
  <2>2. \A y \in D : IsFiniteSet(f[y])
        BY FiniteService DEF IsSource, IsOpt
  <2>3. services = UNION {f[y] : y \in D}
        OBVIOUS
  <2> HIDE DEF f, D, services
  <2> QED  BY <2>1, <2>2, <2>3, FiniteFamily
<1> HIDE DEF nodes, users, processes, services
<1>6. IsFiniteSet(processes \cup services)
      BY <1>4, <1>5, FS_Union
<1> QED  BY <1>1, <1>2, <1>3, <1>6, FiniteThree

LEMMA FiniteFileAccess ==
    ASSUME NEW m, NEW t, NEW f, NEW i, NEW x, IsFileAccess(x)
    PROVE  IsFiniteSet(insert_file_access(m, t, f, i, x))
<1> DEFINE row == Row("file_access", NoType, m, <<t, f>>, i, x)
           permissions == LeafRows("file_access_permission", NoType, m, <<t, f, i>>, x.permission)
           users == UNION {insert_user_id("F", m, <<t, f, i>>, 0, y) : y \in x.user_id}
<1>1. IsFiniteSet(row)
      BY FiniteRow
<1>2. IsFiniteSet(permissions)
      BY FiniteLeaves DEF IsFileAccess, IsList
<1>3. IsFiniteSet(users)
  <2> DEFINE D == x.user_id
             g == [y \in D |-> insert_user_id("F", m, <<t, f, i>>, 0, y)]
  <2>1. IsFiniteSet(D)
        BY FiniteOption DEF IsFileAccess, IsOpt
  <2>2. \A y \in D : IsFiniteSet(g[y])
        BY FiniteRow DEF insert_user_id
  <2>3. users = UNION {g[y] : y \in D}
        OBVIOUS
  <2> HIDE DEF g, D, users
  <2> QED  BY <2>1, <2>2, <2>3, FiniteFamily
<1>4. insert_file_access(m, t, f, i, x) \subseteq row \cup permissions \cup users
  <2>1. ASSUME NEW r \in insert_file_access(m, t, f, i, x)
        PROVE  \/ r \in row \/ r \in users
               \/ \E k \in DOMAIN x.permission :
                      r \in Row("file_access_permission", NoType, m, <<t, f, i>>, k - 1,
                            x.permission[k])
               \/ r \in Row("file_access_permission", NoType, m, <<t, f, i>>, -1,
                            x.permission[Len(x.permission)])
        BY DEF insert_file_access, insert_file_access_permission, Opt, Listed, Numbered, Last
  <2> QED  BY <2>1, LeafRow
<1> HIDE DEF row, permissions, users
<1> QED  BY <1>1, <1>2, <1>3, <1>4, FiniteThree

\* A list, with the copy of its last element under -1.
LEMMA FiniteList ==
    ASSUME NEW s, IsSeq(s), NEW D, D = -1..(Len(s) - 1),
           NEW f, \A k \in D : IsFiniteSet(f[k]),
           NEW rows, \A r \in rows : \E k \in D : r \in f[k]
    PROVE  IsFiniteSet(rows)
<1> DEFINE all == UNION {f[k] : k \in D}
<1>1. IsFiniteSet(D)
  <2>1. -1 \in Int /\ Len(s) - 1 \in Int
        BY DEF IsSeq
  <2> QED  BY <2>1, FS_Interval
<1>2. rows \subseteq all
      OBVIOUS
<1>3. IsFiniteSet(all)
      BY <1>1, FiniteFamily
<1> HIDE DEF all
<1> QED  BY <1>2, <1>3, FS_Subset

\* The places of a list.
LEMMA Places ==
    ASSUME NEW s, IsSeq(s)
    PROVE  /\ \A k \in DOMAIN s : k - 1 \in -1..(Len(s) - 1) /\ At(s, k - 1) = s[k]
           /\ s # <<>> => /\ -1 \in -1..(Len(s) - 1) /\ At(s, -1) = s[Len(s)]
                          /\ Len(s) \in DOMAIN s
<1>1. Len(s) \in Nat /\ DOMAIN s = 1..Len(s)
      BY DEF IsSeq
<1> QED  BY <1>1, AtPlaces

Accesses(m, t, f, s) == Listed(LAMBDA k, a : insert_file_access(m, t, f, k, a), s)

LEMMA FiniteAccesses ==
    ASSUME NEW m, NEW t, NEW f, NEW s, IsSeq(s), \A k \in DOMAIN s : IsFileAccess(s[k])
    PROVE  IsFiniteSet(Accesses(m, t, f, s))
<1> DEFINE D == -1..(Len(s) - 1)
           rows == Accesses(m, t, f, s)
           g == [k \in D |-> IF IsFileAccess(At(s, k))
                             THEN insert_file_access(m, t, f, k, At(s, k)) ELSE {}]
<1>1. ASSUME NEW r \in rows
      PROVE  \E k \in D : IsFileAccess(At(s, k)) /\ r \in insert_file_access(m, t, f, k, At(s, k))
  <2>1. \/ \E k \in DOMAIN s : r \in insert_file_access(m, t, f, k - 1, s[k])
        \/ s # <<>> /\ r \in insert_file_access(m, t, f, -1, s[Len(s)])
        BY DEF Accesses, Listed, Numbered, Last
  <2> HIDE DEF rows, g
  <2>2. CASE \E k \in DOMAIN s : r \in insert_file_access(m, t, f, k - 1, s[k])
        BY <2>2, Places
  <2>3. CASE s # <<>> /\ r \in insert_file_access(m, t, f, -1, s[Len(s)])
        BY <2>3, Places
  <2> QED  BY <2>1, <2>2, <2>3
<1>2. \A r \in rows : \E k \in D : r \in g[k]
  <2> HIDE DEF rows
  <2> QED  BY <1>1
<1>3. \A k \in D : IsFiniteSet(g[k])
      BY FiniteFileAccess, FS_EmptySet
<1>4. D = -1..(Len(s) - 1)
      OBVIOUS
<1> HIDE DEF g, rows, D
<1>5. IsFiniteSet(rows)
      BY <1>2, <1>3, <1>4, FiniteList
<1> QED  BY <1>5 DEF rows

LEMMA FiniteFile ==
    ASSUME NEW m, NEW t, NEW i, NEW x, IsFile(x)
    PROVE  IsFiniteSet(insert_file(m, t, i, x))
<1> DEFINE row == Row("file", NoType, m, <<t>>, i, x)
           accesses == Accesses(m, t, i, x.file_access)
           linkages == LeafRows("linkage", NoType, m, <<t, i>>, x.linkage)
           inodes == UNION {insert_inode(m, t, i, y) : y \in x.inode}
           checksums == LeafRows("checksum", NoType, m, <<t, i>>, x.checksum)
<1>1. IsFiniteSet(row)
      BY FiniteRow
<1>2. IsFiniteSet(accesses)
      BY FiniteAccesses DEF IsFile, IsList
<1>3. IsFiniteSet(linkages) /\ IsFiniteSet(checksums)
      BY FiniteLeaves DEF IsFile, IsList
<1>4. IsFiniteSet(inodes)
  <2> DEFINE D == x.inode
             g == [y \in D |-> insert_inode(m, t, i, y)]
  <2>1. IsFiniteSet(D)
        BY FiniteOption DEF IsFile, IsOpt
  <2>2. \A y \in D : IsFiniteSet(g[y])
        BY FiniteRow DEF insert_inode
  <2>3. inodes = UNION {g[y] : y \in D}
        OBVIOUS
  <2> HIDE DEF g, D, inodes
  <2> QED  BY <2>1, <2>2, <2>3, FiniteFamily
<1>5. insert_file(m, t, i, x) \subseteq
          row \cup accesses \cup (linkages \cup (inodes \cup checksums))
  <2>1. ASSUME NEW r \in insert_file(m, t, i, x)
        PROVE  \/ r \in row \/ r \in accesses \/ r \in inodes
               \/ \E k \in DOMAIN x.linkage :
                      r \in Row("linkage", NoType, m, <<t, i>>, k - 1, x.linkage[k])
               \/ r \in Row("linkage", NoType, m, <<t, i>>, -1, x.linkage[Len(x.linkage)])
               \/ \E k \in DOMAIN x.checksum :
                      r \in Row("checksum", NoType, m, <<t, i>>, k - 1, x.checksum[k])
               \/ r \in Row("checksum", NoType, m, <<t, i>>, -1, x.checksum[Len(x.checksum)])
        BY DEF insert_file, Accesses, insert_linkage, insert_checksum, Opt, Listed, Numbered, Last
  <2> HIDE DEF row, accesses, inodes
  <2> QED  BY <2>1, LeafRow
<1> HIDE DEF row, accesses, linkages, inodes, checksums
<1>6. IsFiniteSet(linkages \cup (inodes \cup checksums))
  <2>1. IsFiniteSet(inodes \cup checksums)
        BY <1>3, <1>4, FS_Union
  <2> QED  BY <1>3, <2>1, FS_Union
<1> QED  BY <1>1, <1>2, <1>5, <1>6, FiniteThree

LEMMA FiniteFiles ==
    ASSUME NEW m, NEW t, NEW s, IsSeq(s), \A k \in DOMAIN s : IsFile(s[k])
    PROVE  IsFiniteSet(Files(m, t, s))
<1> DEFINE D == -1..(Len(s) - 1)
           rows == Files(m, t, s)
           g == [k \in D |-> IF IsFile(At(s, k)) THEN insert_file(m, t, k, At(s, k)) ELSE {}]
<1>1. ASSUME NEW r \in rows
      PROVE  \E k \in D : IsFile(At(s, k)) /\ r \in insert_file(m, t, k, At(s, k))
  <2>1. \/ \E k \in DOMAIN s : r \in insert_file(m, t, k - 1, s[k])
        \/ s # <<>> /\ r \in insert_file(m, t, -1, s[Len(s)])
        BY DEF Files, Listed, Numbered, Last
  <2> HIDE DEF rows, g
  <2>2. CASE \E k \in DOMAIN s : r \in insert_file(m, t, k - 1, s[k])
        BY <2>2, Places
  <2>3. CASE s # <<>> /\ r \in insert_file(m, t, -1, s[Len(s)])
        BY <2>3, Places
  <2> QED  BY <2>1, <2>2, <2>3
<1>2. \A r \in rows : \E k \in D : r \in g[k]
  <2> HIDE DEF rows
  <2> QED  BY <1>1
<1>3. \A k \in D : IsFiniteSet(g[k])
      BY FiniteFile, FS_EmptySet
<1>4. D = -1..(Len(s) - 1)
      OBVIOUS
<1> HIDE DEF g, rows, D
<1>5. IsFiniteSet(rows)
      BY <1>2, <1>3, <1>4, FiniteList
<1> QED  BY <1>5 DEF rows

LEMMA FiniteSource ==
    ASSUME NEW m, NEW i, NEW x, IsSource(x)
    PROVE  IsFiniteSet(insert_source(m, i, x))
<1> DEFINE row == Row("source", NoType, m, <<>>, i, x)
           endpoint == insert_endpoint("S", m, i, x)
<1>1. insert_source(m, i, x) = row \cup endpoint
      BY DEF insert_source
<1>2. IsFiniteSet(row) /\ IsFiniteSet(endpoint)
      BY FiniteRow, FiniteEndpoint
<1> HIDE DEF row, endpoint
<1> QED  BY <1>1, <1>2, FS_Union

LEMMA FiniteTarget ==
    ASSUME NEW m, NEW i, NEW x, IsTarget(x)
    PROVE  IsFiniteSet(insert_target(m, i, x))
<1> DEFINE row == Row("target", NoType, m, <<>>, i, x)
           endpoint == insert_endpoint("T", m, i, x)
           files == Files(m, i, x.file)
<1>1. insert_target(m, i, x) \subseteq row \cup endpoint \cup files
      BY DEF insert_target, Files, Listed, Numbered
<1>2. IsFiniteSet(row) /\ IsFiniteSet(endpoint) /\ IsFiniteSet(files)
      BY FiniteRow, FiniteEndpoint, FiniteFiles DEF IsTarget, IsList
<1> HIDE DEF row, endpoint, files
<1> QED  BY <1>1, <1>2, FiniteThree

LEMMA FiniteAnalyzer ==
    ASSUME NEW pt, NEW m, NEW i, NEW x, IsAnalyzer(x)
    PROVE  IsFiniteSet(insert_analyzer(pt, m, i, x))
<1> DEFINE row == Row("analyzer", pt, m, <<>>, i, x)
           nodes == UNION {insert_node(pt, m, i, y) : y \in x.node}
           processes == UNION {insert_process(pt, m, i, y) : y \in x.process}
<1>1. insert_analyzer(pt, m, i, x) = row \cup nodes \cup processes
      BY DEF insert_analyzer, Opt
<1>2. IsFiniteSet(row)
      BY FiniteRow
<1>3. IsFiniteSet(nodes)
  <2> DEFINE D == x.node
             f == [y \in D |-> insert_node(pt, m, i, y)]
  <2>1. IsFiniteSet(D)
        BY FiniteOption DEF IsAnalyzer, IsOpt
  <2>2. \A y \in D : IsFiniteSet(f[y])
        BY FiniteParts DEF IsAnalyzer, IsOpt
  <2>3. nodes = UNION {f[y] : y \in D}
        OBVIOUS
  <2> HIDE DEF f, D, nodes
  <2> QED  BY <2>1, <2>2, <2>3, FiniteFamily
<1>4. IsFiniteSet(processes)
  <2> DEFINE D == x.process
             f == [y \in D |-> insert_process(pt, m, i, y)]
  <2>1. IsFiniteSet(D)
        BY FiniteOption DEF IsAnalyzer, IsOpt
  <2>2. \A y \in D : IsFiniteSet(f[y])
        BY FiniteParts DEF IsAnalyzer, IsOpt
  <2>3. processes = UNION {f[y] : y \in D}
        OBVIOUS
  <2> HIDE DEF f, D, processes
  <2> QED  BY <2>1, <2>2, <2>3, FiniteFamily
<1> HIDE DEF row, nodes, processes
<1> QED  BY <1>1, <1>2, <1>3, <1>4, FiniteThree

LEMMA FiniteAnalyzers ==
    ASSUME NEW pt, NEW m, NEW s, IsSeq(s), \A k \in DOMAIN s : IsAnalyzer(s[k])
    PROVE  IsFiniteSet(Analyzers(pt, m, s))
<1> DEFINE D == -1..(Len(s) - 1)
           rows == Analyzers(pt, m, s)
           g == [k \in D |-> IF IsAnalyzer(At(s, k))
                             THEN insert_analyzer(pt, m, k, At(s, k)) ELSE {}]
<1>1. ASSUME NEW r \in rows
      PROVE  \E k \in D : IsAnalyzer(At(s, k)) /\ r \in insert_analyzer(pt, m, k, At(s, k))
  <2>1. \/ \E k \in DOMAIN s : r \in insert_analyzer(pt, m, k - 1, s[k])
        \/ s # <<>> /\ r \in insert_analyzer(pt, m, -1, s[Len(s)])
        BY DEF Analyzers, Listed, Numbered, Last
  <2> HIDE DEF rows, g
  <2>2. CASE \E k \in DOMAIN s : r \in insert_analyzer(pt, m, k - 1, s[k])
        BY <2>2, Places
  <2>3. CASE s # <<>> /\ r \in insert_analyzer(pt, m, -1, s[Len(s)])
        BY <2>3, Places
  <2> QED  BY <2>1, <2>2, <2>3
<1>2. \A r \in rows : \E k \in D : r \in g[k]
  <2> HIDE DEF rows
  <2> QED  BY <1>1
<1>3. \A k \in D : IsFiniteSet(g[k])
      BY FiniteAnalyzer, FS_EmptySet
<1>4. D = -1..(Len(s) - 1)
      OBVIOUS
<1> HIDE DEF g, rows, D
<1>5. IsFiniteSet(rows)
      BY <1>2, <1>3, <1>4, FiniteList
<1> QED  BY <1>5 DEF rows

LEMMA FiniteSources ==
    ASSUME NEW m, NEW s, IsSeq(s), \A k \in DOMAIN s : IsSource(s[k])
    PROVE  IsFiniteSet(Sources(m, s))
<1> DEFINE D == -1..(Len(s) - 1)
           rows == Sources(m, s)
           g == [k \in D |-> IF IsSource(At(s, k)) THEN insert_source(m, k, At(s, k)) ELSE {}]
<1>1. ASSUME NEW r \in rows
      PROVE  \E k \in D : IsSource(At(s, k)) /\ r \in insert_source(m, k, At(s, k))
  <2>1. \/ \E k \in DOMAIN s : r \in insert_source(m, k - 1, s[k])
        \/ s # <<>> /\ r \in insert_source(m, -1, s[Len(s)])
        BY DEF Sources, Listed, Numbered, Last
  <2> HIDE DEF rows, g
  <2>2. CASE \E k \in DOMAIN s : r \in insert_source(m, k - 1, s[k])
        BY <2>2, Places
  <2>3. CASE s # <<>> /\ r \in insert_source(m, -1, s[Len(s)])
        BY <2>3, Places
  <2> QED  BY <2>1, <2>2, <2>3
<1>2. \A r \in rows : \E k \in D : r \in g[k]
  <2> HIDE DEF rows
  <2> QED  BY <1>1
<1>3. \A k \in D : IsFiniteSet(g[k])
      BY FiniteSource, FS_EmptySet
<1>4. D = -1..(Len(s) - 1)
      OBVIOUS
<1> HIDE DEF g, rows, D
<1>5. IsFiniteSet(rows)
      BY <1>2, <1>3, <1>4, FiniteList
<1> QED  BY <1>5 DEF rows

LEMMA FiniteTargets ==
    ASSUME NEW m, NEW s, IsSeq(s), \A k \in DOMAIN s : IsTarget(s[k])
    PROVE  IsFiniteSet(Targets(m, s))
<1> DEFINE D == -1..(Len(s) - 1)
           rows == Targets(m, s)
           g == [k \in D |-> IF IsTarget(At(s, k)) THEN insert_target(m, k, At(s, k)) ELSE {}]
<1>1. ASSUME NEW r \in rows
      PROVE  \E k \in D : IsTarget(At(s, k)) /\ r \in insert_target(m, k, At(s, k))
  <2>1. \/ \E k \in DOMAIN s : r \in insert_target(m, k - 1, s[k])
        \/ s # <<>> /\ r \in insert_target(m, -1, s[Len(s)])
        BY DEF Targets, Listed, Numbered, Last
  <2> HIDE DEF rows, g
  <2>2. CASE \E k \in DOMAIN s : r \in insert_target(m, k - 1, s[k])
        BY <2>2, Places
  <2>3. CASE s # <<>> /\ r \in insert_target(m, -1, s[Len(s)])
        BY <2>3, Places
  <2> QED  BY <2>1, <2>2, <2>3
<1>2. \A r \in rows : \E k \in D : r \in g[k]
  <2> HIDE DEF rows
  <2> QED  BY <1>1
<1>3. \A k \in D : IsFiniteSet(g[k])
      BY FiniteTarget, FS_EmptySet
<1>4. D = -1..(Len(s) - 1)
      OBVIOUS
<1> HIDE DEF g, rows, D
<1>5. IsFiniteSet(rows)
      BY <1>2, <1>3, <1>4, FiniteList
<1> QED  BY <1>5 DEF rows

LEMMA FiniteCommonPart ==
    ASSUME NEW pt, NEW m, NEW x, IsHeartbeat(x), NEW z \in CommonZones
    PROVE  IsFiniteSet(CommonPart(z, pt, m, x))
<1>1. CASE z = "analyzer"
  <2>1. IsSeq(x.analyzer) /\ \A k \in DOMAIN x.analyzer : IsAnalyzer(x.analyzer[k])
        BY DEF IsHeartbeat, IsList
  <2> QED  BY <1>1, <2>1, FiniteAnalyzers DEF CommonPart
<1>2. CASE z = "create_time"
  <2> DEFINE D == x.create_time
             g == [y \in D |-> insert_createtime(pt, m, y)]
             rows == UNION {insert_createtime(pt, m, y) : y \in x.create_time}
  <2>1. IsFiniteSet(D)
        BY FiniteOption DEF IsHeartbeat, IsOpt
  <2>2. \A y \in D : IsFiniteSet(g[y])
        BY FiniteRow DEF insert_createtime
  <2>3. rows = UNION {g[y] : y \in D}
        OBVIOUS
  <2>4. CommonPart(z, pt, m, x) = rows
        BY <1>2 DEF CommonPart
  <2> HIDE DEF g, D, rows
  <2> QED  BY <2>1, <2>2, <2>3, <2>4, FiniteFamily
<1>3. CASE z = "analyzer_time"
  <2> DEFINE D == x.analyzer_time
             g == [y \in D |-> insert_analyzertime(pt, m, y)]
             rows == UNION {insert_analyzertime(pt, m, y) : y \in x.analyzer_time}
  <2>1. IsFiniteSet(D)
        BY FiniteOption DEF IsHeartbeat, IsOpt
  <2>2. \A y \in D : IsFiniteSet(g[y])
        BY FiniteRow DEF insert_analyzertime
  <2>3. rows = UNION {g[y] : y \in D}
        OBVIOUS
  <2>4. CommonPart(z, pt, m, x) = rows
        BY <1>3 DEF CommonPart
  <2> HIDE DEF g, D, rows
  <2> QED  BY <2>1, <2>2, <2>3, <2>4, FiniteFamily
<1>4. CASE z = "additional_data"
  <2> DEFINE rows == AdditionalData(pt, m, x.additional_data)
             leaves == LeafRows("additional_data", pt, m, <<>>, x.additional_data)
  <2>1. IsFiniteSet(leaves)
        BY FiniteLeaves DEF IsHeartbeat, IsList
  <2>2. ASSUME NEW r \in rows
        PROVE  \/ \E k \in DOMAIN x.additional_data :
                      r \in Row("additional_data", pt, m, <<>>, k - 1, x.additional_data[k])
               \/ r \in Row("additional_data", pt, m, <<>>, -1,
                            x.additional_data[Len(x.additional_data)])
        BY DEF AdditionalData, insert_additional_data, Listed, Numbered, Last
  <2>3. rows \subseteq leaves
        BY <2>2, LeafRow
  <2>4. CommonPart(z, pt, m, x) = rows
        BY <1>4 DEF CommonPart
  <2> HIDE DEF rows, leaves
  <2> QED  BY <2>1, <2>3, <2>4, FS_Subset
<1> QED  BY <1>1, <1>2, <1>3, <1>4 DEF CommonZones

LEMMA FiniteAlertPart ==
    ASSUME NEW m, NEW x, IsAlert(x), NEW z \in AlertZones
    PROVE  IsFiniteSet(AlertPart(z, m, x))
<1>1. CASE z = "source"
  <2>1. IsSeq(x.source) /\ \A k \in DOMAIN x.source : IsSource(x.source[k])
        BY DEF IsAlert, IsList
  <2> QED  BY <1>1, <2>1, FiniteSources DEF AlertPart
<1>2. CASE z = "target"
  <2>1. IsSeq(x.target) /\ \A k \in DOMAIN x.target : IsTarget(x.target[k])
        BY DEF IsAlert, IsList
  <2> QED  BY <1>2, <2>1, FiniteTargets DEF AlertPart
<1>3. CASE z = "detect_time"
  <2> DEFINE D == x.detect_time
             g == [y \in D |-> insert_detecttime(m, y)]
             rows == UNION {insert_detecttime(m, y) : y \in x.detect_time}
  <2>1. IsFiniteSet(D)
        BY FiniteOption DEF IsAlert, IsOpt
  <2>2. \A y \in D : IsFiniteSet(g[y])
        BY FiniteRow DEF insert_detecttime
  <2>3. rows = UNION {g[y] : y \in D}
        OBVIOUS
  <2>4. AlertPart(z, m, x) = rows
        BY <1>3 DEF AlertPart
  <2> HIDE DEF g, D, rows
  <2> QED  BY <2>1, <2>2, <2>3, <2>4, FiniteFamily
<1>4. CASE z = "assessment"
  <2> DEFINE D == x.assessment
             g == [y \in D |-> insert_assessment(m, y)]
             rows == UNION {insert_assessment(m, y) : y \in x.assessment}
  <2>1. IsFiniteSet(D)
        BY FiniteOption DEF IsAlert, IsOpt
  <2>2. \A y \in D : IsFiniteSet(g[y])
        BY FiniteAssessment DEF IsAlert, IsOpt
  <2>3. rows = UNION {g[y] : y \in D}
        OBVIOUS
  <2>4. AlertPart(z, m, x) = rows
        BY <1>4 DEF AlertPart
  <2> HIDE DEF g, D, rows
  <2> QED  BY <2>1, <2>2, <2>3, <2>4, FiniteFamily
<1>5. CASE z = "tool_alert"
  <2> DEFINE D == x.tool_alert
             g == [y \in D |-> insert_tool_alert(m, y)]
             rows == UNION {insert_tool_alert(m, y) : y \in x.tool_alert}
  <2>1. IsFiniteSet(D)
        BY FiniteOption DEF IsAlert, IsOpt
  <2>2. \A y \in D : IsFiniteSet(g[y])
        BY FiniteParts DEF IsAlert, IsOpt
  <2>3. rows = UNION {g[y] : y \in D}
        OBVIOUS
  <2>4. AlertPart(z, m, x) = rows
        BY <1>5 DEF AlertPart
  <2> HIDE DEF g, D, rows
  <2> QED  BY <2>1, <2>2, <2>3, <2>4, FiniteFamily
<1>6. CASE z = "overflow_alert"
  <2> DEFINE D == x.overflow_alert
             g == [y \in D |-> insert_overflow_alert(m, y)]
             rows == UNION {insert_overflow_alert(m, y) : y \in x.overflow_alert}
  <2>1. IsFiniteSet(D)
        BY FiniteOption DEF IsAlert, IsOpt
  <2>2. \A y \in D : IsFiniteSet(g[y])
        BY FiniteRow DEF insert_overflow_alert
  <2>3. rows = UNION {g[y] : y \in D}
        OBVIOUS
  <2>4. AlertPart(z, m, x) = rows
        BY <1>6 DEF AlertPart
  <2> HIDE DEF g, D, rows
  <2> QED  BY <2>1, <2>2, <2>3, <2>4, FiniteFamily
<1>7. CASE z = "correlation_alert"
  <2> DEFINE D == x.correlation_alert
             g == [y \in D |-> insert_correlation_alert(m, y)]
             rows == UNION {insert_correlation_alert(m, y) : y \in x.correlation_alert}
  <2>1. IsFiniteSet(D)
        BY FiniteOption DEF IsAlert, IsOpt
  <2>2. \A y \in D : IsFiniteSet(g[y])
        BY FiniteParts DEF IsAlert, IsOpt
  <2>3. rows = UNION {g[y] : y \in D}
        OBVIOUS
  <2>4. AlertPart(z, m, x) = rows
        BY <1>7 DEF AlertPart
  <2> HIDE DEF g, D, rows
  <2> QED  BY <2>1, <2>2, <2>3, <2>4, FiniteFamily
<1>8. CASE z = "classification"
  <2> DEFINE D == x.classification
             g == [y \in D |-> insert_classification(m, y)]
             rows == UNION {insert_classification(m, y) : y \in x.classification}
  <2>1. IsFiniteSet(D)
        BY FiniteOption DEF IsAlert, IsOpt
  <2>2. \A y \in D : IsFiniteSet(g[y])
        BY FiniteParts DEF IsAlert, IsOpt
  <2>3. rows = UNION {g[y] : y \in D}
        OBVIOUS
  <2>4. AlertPart(z, m, x) = rows
        BY <1>8 DEF AlertPart
  <2> HIDE DEF g, D, rows
  <2> QED  BY <2>1, <2>2, <2>3, <2>4, FiniteFamily
<1> QED  BY <1>1, <1>2, <1>3, <1>4, <1>5, <1>6, <1>7, <1>8 DEF AlertZones

LEMMA FinitePair ==
    ASSUME NEW a, NEW b
    PROVE  IsFiniteSet({a, b})
<1> DEFINE A == {a}
           B == {b}
<1>1. IsFiniteSet(A) /\ IsFiniteSet(B)
      BY FS_Singleton
<1>2. {a, b} = A \cup B
      OBVIOUS
<1> HIDE DEF A, B
<1> QED  BY <1>1, <1>2, FS_Union

LEMMA FiniteFour ==
    ASSUME NEW a, NEW b, NEW c, NEW d
    PROVE  IsFiniteSet({a, b, c, d})
<1> DEFINE A == {a, b}
           B == {c, d}
<1>1. IsFiniteSet(A) /\ IsFiniteSet(B)
      BY FinitePair
<1>2. {a, b, c, d} = A \cup B
      OBVIOUS
<1> HIDE DEF A, B
<1> QED  BY <1>1, <1>2, FS_Union

LEMMA FiniteZones == IsFiniteSet(CommonZones) /\ IsFiniteSet(AlertZones)
<1>1. IsFiniteSet(CommonZones)
      BY FiniteFour DEF CommonZones
<1> DEFINE A == {"source", "target", "detect_time", "assessment"}
           B == {"tool_alert", "overflow_alert", "correlation_alert", "classification"}
<1>2. AlertZones = A \cup B
      BY DEF AlertZones
<1>3. IsFiniteSet(A) /\ IsFiniteSet(B)
      BY FiniteFour
<1> HIDE DEF A, B
<1> QED  BY <1>1, <1>2, <1>3, FS_Union

\* A message has finitely many rows.
LEMMA FiniteMessage ==
    ASSUME NEW t, t.kind \in Kinds, IsMessage(t.kind, t.x)
    PROVE  IsFiniteSet(MessageRows(t))
<1> DEFINE first == insert_message_messageid(t.kind, t.m, t.x)
           zones == ZonesOf(t)
           c == [z \in CommonZones |-> CommonPart(z, TypeOf(t), t.m, t.x)]
           a == [z \in zones |-> AlertPart(z, t.m, t.x)]
           common == UNION {c[z] : z \in CommonZones}
           alert == UNION {a[z] : z \in zones}
<1>1. IsFiniteSet(first)
      BY FiniteRow DEF insert_message_messageid
<1>2. \A z \in CommonZones : IsFiniteSet(c[z])
      BY FiniteCommonPart DEF IsMessage, IsAlert
<1>3. \A z \in zones : IsFiniteSet(a[z])
      BY FiniteAlertPart DEF IsMessage, ZonesOf
<1>4. IsFiniteSet(zones)
      BY FiniteZones, FS_EmptySet DEF ZonesOf
<1>5. \A r \in MessageRows(t) : \/ r \in first \/ \E z \in CommonZones : r \in c[z]
                                \/ \E z \in zones : r \in a[z]
      BY MessageParts
<1>6. MessageRows(t) \subseteq first \cup common \cup alert
  <2> HIDE DEF first, zones, c, a
  <2> QED  BY <1>5
<1>7. IsFiniteSet(common)
  <2> HIDE DEF c
  <2> QED  BY <1>2, FiniteZones, FiniteFamily
<1>8. IsFiniteSet(alert)
  <2> HIDE DEF a, zones
  <2> QED  BY <1>3, <1>4, FiniteFamily
<1> HIDE DEF first, common, alert
<1> QED  BY <1>1, <1>6, <1>7, <1>8, FiniteThree

----------------------------------------------------------------------------
(***************************************************************************)
(* The rows committed and those of the insertions in progress have          *)
(* different keys.  First rows differ because an ident is given once; the   *)
(* other rows because the database refuses a key that is committed and      *)
(* makes one wait that another transaction wrote: for this it does not      *)
(* matter whose ident a session found, nor who deletes what.                *)
(***************************************************************************)
Own(s) == IF w[s].at = "idle" THEN {} ELSE w[s].own

Apart(A, B) == \A a \in A, b \in B : ~SameKey(a, b)

HeadsGiven(rows, n) == \A r \in rows : r.table \in Kinds => r.m \in 1..(n[r.table] - 1)

OwnKeys(s) ==
    /\ IsFiniteSet(Own(s)) /\ Unique(Own(s))
    /\ HeadsGiven(Own(s), next) /\ Apart(Own(s), db)

KeysInv ==
    /\ IsFiniteSet(db) /\ Unique(db) /\ HeadsGiven(db, next)
    /\ \A s \in Sessions : OwnKeys(s)
    /\ \A s, o \in Sessions : s # o => Apart(Own(s), Own(o))

\* The rows an insertion adds to its first one.
LEMMA RestKeys ==
    ASSUME NEW t, t.kind \in Kinds, IsMessage(t.kind, t.x)
    PROVE  /\ IsFiniteSet(insert_rest(t.kind, t.m, t.x))
           /\ Unique(insert_rest(t.kind, t.m, t.x))
           /\ \A r \in insert_rest(t.kind, t.m, t.x) : r.table \notin Kinds
<1>1. insert_rest(t.kind, t.m, t.x) \subseteq MessageRows(t)
      BY DEF MessageRows
<1>2. IsFiniteSet(insert_rest(t.kind, t.m, t.x))
      BY <1>1, FiniteMessage, FS_Subset
<1>3. Unique(insert_rest(t.kind, t.m, t.x))
      BY <1>1, MessageKeys DEF Unique
<1>4. ASSUME NEW r \in insert_rest(t.kind, t.m, t.x) PROVE r.table \notin Kinds
  <2>1. r.table \in Kinds => Zone(r) \in Kinds
        BY DEF Zone, EndpointTables, FileTables, Kinds
  <2>2. \A z \in CommonZones \cup AlertZones : z \notin Kinds
        BY DEF CommonZones, AlertZones, Kinds
  <2>3. CASE \E z \in CommonZones : r \in CommonPart(z, TypeOf(t), t.m, t.x)
    <3>1. Zone(r) \in CommonZones
          BY <2>3, CommonPartKeys DEF Zoned, IsMessage, IsAlert, TypeOf
    <3> QED  BY <2>1, <2>2, <3>1
  <2>4. CASE \E z \in ZonesOf(t) : r \in AlertPart(z, t.m, t.x)
    <3>1. Zone(r) \in AlertZones
          BY <2>4, AlertPartKeys DEF Zoned, IsMessage, ZonesOf
    <3> QED  BY <2>1, <2>2, <3>1
  <2> QED  BY <2>3, <2>4, RestParts
<1> QED  BY <1>2, <1>3, <1>4

\* No key in common.
LEMMA NoKeyInCommon ==
    ASSUME NEW A, NEW B, Keys(A) \cap Keys(B) = {}
    PROVE  Apart(A, B)
<1> SUFFICES ASSUME NEW a \in A, NEW b \in B, SameKey(a, b) PROVE FALSE
    BY DEF Apart
<1>1. Key(a) = Key(b)
      BY DEF Key, SameKey
<1>2. Key(a) \in Keys(A) /\ Key(b) \in Keys(B)
      BY DEF Keys
<1> QED  BY <1>1, <1>2

\* Idents given before are given still.
LEMMA HeadsKept ==
    ASSUME NEW rows, NEW n \in [Kinds -> Int], NEW n2 \in [Kinds -> Int],
           \A kind \in Kinds : n[kind] <= n2[kind], HeadsGiven(rows, n)
    PROVE  HeadsGiven(rows, n2)
BY DEF HeadsGiven

\* A step of one session, seen by the others.
LEMMA KeysSession ==
    ASSUME KeysInv, NEW s \in Sessions, db' = db,
           next \in [Kinds -> Int], next' \in [Kinds -> Int],
           \A kind \in Kinds : next[kind] <= next'[kind],
           \A o \in Sessions : o # s => Own(o)' = Own(o),
           OwnKeys(s)', \A o \in Sessions : o # s => Apart(Own(s)', Own(o))
    PROVE  KeysInv'
<1>1. HeadsGiven(db', next')
      BY HeadsKept DEF KeysInv
<1>2. ASSUME NEW o \in Sessions, o # s PROVE OwnKeys(o)'
  <2>1. OwnKeys(o) /\ Own(o)' = Own(o)
        BY <1>2 DEF KeysInv
  <2>2. HeadsGiven(Own(o), next')
        BY <2>1, HeadsKept DEF OwnKeys
  <2> QED  BY <2>1, <2>2 DEF OwnKeys
<1>3. ASSUME NEW a \in Sessions, NEW b \in Sessions, a # b
      PROVE  Apart(Own(a)', Own(b)')
  <2>1. CASE a = s
        BY <1>3, <2>1
  <2>2. CASE b = s
    <3>1. Apart(Own(s)', Own(a)) /\ Own(a)' = Own(a)
          BY <1>3, <2>2
    <3> QED  BY <2>2, <3>1 DEF Apart, SameKey
  <2>3. CASE a # s /\ b # s
        BY <1>3, <2>3 DEF KeysInv
  <2> QED  BY <2>1, <2>2, <2>3
<1> QED  BY <1>1, <1>2, <1>3 DEF KeysInv

LEMMA NextIsInt == TypeInv => next \in [Kinds -> Int]
BY StoreAssumption DEF TypeInv

LEMMA KeysInsertFirstRow ==
    ASSUME TypeInv, KeysInv, TypeInv', NEW s \in Sessions, InsertFirstRow(s)
    PROVE  KeysInv'
<1>a. PICK kind \in Kinds : \E y :
          /\ next' = [next EXCEPT ![kind] = @ + 1]
          /\ w' = [w EXCEPT ![s] =
                [at |-> "inserted", kind |-> kind, x |-> y, head |-> next[kind], ident |-> 0,
                 own |-> insert_message_messageid(kind, next[kind], y)]]
      BY DEF InsertFirstRow
<1>0. PICK x :
          /\ next' = [next EXCEPT ![kind] = @ + 1]
          /\ w' = [w EXCEPT ![s] =
                [at |-> "inserted", kind |-> kind, x |-> x, head |-> next[kind], ident |-> 0,
                 own |-> insert_message_messageid(kind, next[kind], x)]]
      BY <1>a
<1> DEFINE m == next[kind]
           first == insert_message_messageid(kind, m, x)
<1>1. db' = db
      BY DEF InsertFirstRow
<1>2. next \in [Kinds -> Int] /\ next' \in [Kinds -> Int]
  <2>1. \A n : n \in [Kinds -> 1..(MaxIdent + 1)] => n \in [Kinds -> Int]
        BY StoreAssumption
  <2> QED  BY <2>1 DEF TypeInv
<1>3. m \in 1..(MaxIdent + 1) /\ MaxIdent \in Nat
      BY StoreAssumption DEF TypeInv
<1>4. next'[kind] = m + 1 /\ \A k \in Kinds : k # kind => next'[k] = next[k]
      BY <1>0, <1>2
<1>5. \A k \in Kinds : next[k] <= next'[k]
  <2>1. ASSUME NEW k \in Kinds PROVE next[k] <= next'[k]
    <3>1. next[k] \in Int
          BY <1>2
    <3> QED  BY <1>3, <1>4, <3>1
  <2> QED  BY <2>1
<1>6. \A o \in Sessions : o # s => Own(o)' = Own(o)
      BY <1>0 DEF Own, TypeInv
<1>7. Own(s)' = first
      BY <1>0 DEF Own, TypeInv
<1>8. PICK r : first = {r} /\ r.table = kind /\ r.m = m
      BY MessageIdRow
<1>9. ASSUME NEW rows, HeadsGiven(rows, next) PROVE Apart({r}, rows)
  <2>1. ASSUME NEW q \in rows, SameKey(r, q) PROVE FALSE
    <3>1. q.table = kind /\ q.m = m
          BY <1>8, <2>1 DEF SameKey
    <3>2. m \in 1..(m - 1)
          BY <1>9, <3>1 DEF HeadsGiven
    <3> QED  BY <1>3, <3>2
  <2> QED  BY <2>1 DEF Apart
<1>10. OwnKeys(s)'
  <2>1. IsFiniteSet({r}) /\ Unique({r})
        BY FS_Singleton DEF Unique
  <2>2. HeadsGiven({r}, next')
    <3>1. m \in 1..(next'[kind] - 1)
          BY <1>3, <1>4
    <3> QED  BY <1>8, <3>1 DEF HeadsGiven
  <2>3. Apart({r}, db)
        BY <1>9 DEF KeysInv
  <2> QED  BY <1>1, <1>7, <1>8, <2>1, <2>2, <2>3 DEF OwnKeys
<1>11. \A o \in Sessions : Apart(Own(s)', Own(o))
      BY <1>7, <1>8, <1>9 DEF KeysInv, OwnKeys
<1> HIDE DEF m, first
<1> QED  BY <1>1, <1>2, <1>5, <1>6, <1>10, <1>11, KeysSession

LEMMA KeysInsertRest ==
    ASSUME TypeInv, KeysInv, NEW s \in Sessions, InsertRest(s)
    PROVE  KeysInv'
<1> DEFINE t == [kind |-> w[s].kind, m |-> w[s].ident, x |-> w[s].x]
           rows == insert_rest(w[s].kind, w[s].ident, w[s].x)
           first == w[s].own
           written == [w[s] EXCEPT !.at = "written", !.own = w[s].own \cup rows]
           v == IF Keys(rows) \cap Keys(db) # {} THEN NoInsertion ELSE written
<1>1. /\ w[s].at = "identified" /\ w' = [w EXCEPT ![s] = v]
      /\ UNCHANGED <<dep, db, next, stored>>
      /\ \A o \in Sessions \ {s} : w[o].at = "written" => Keys(rows) \cap Keys(w[o].own) = {}
      BY DEF InsertRest
<1>2. /\ InsertionOK(s) /\ DOMAIN w[s] = InsertionFields
      /\ first = insert_message_messageid(w[s].kind, w[s].head, w[s].x)
      /\ w[s].kind \in Kinds /\ w[s].x \in dep.messages[w[s].kind]
      BY <1>1 DEF TypeInv, InsertionOK
<1>3. IsFiniteSet(rows) /\ Unique(rows) /\ \A r \in rows : r.table \notin Kinds
  <2>1. t.kind \in Kinds /\ IsMessage(t.kind, t.x)
        BY <1>2, StoreAssumption DEF TypeInv
  <2>2. t.kind = w[s].kind /\ t.m = w[s].ident /\ t.x = w[s].x
        OBVIOUS
  <2> HIDE DEF t
  <2> QED  BY <2>1, <2>2, RestKeys
<1>4. \A o \in Sessions : o # s => Own(o)' = Own(o)
      BY <1>1 DEF Own, TypeInv
<1>5. next \in [Kinds -> Int] /\ next' \in [Kinds -> Int]
      /\ \A kind \in Kinds : next[kind] <= next'[kind]
  <2>1. next \in [Kinds -> Int] /\ next' = next
        BY <1>1, NextIsInt
  <2>2. \A kind \in Kinds : next[kind] <= next[kind]
        BY <2>1
  <2> QED  BY <2>1, <2>2
<1>6. w'[s] = v
      BY <1>1 DEF TypeInv
<1>7. CASE v = NoInsertion
  <2> HIDE DEF v, written, rows, first, t
  <2>1. Own(s)' = {}
        BY <1>6, <1>7 DEF Own, NoInsertion
  <2>2. OwnKeys(s)' /\ \A o \in Sessions : Apart(Own(s)', Own(o))
        BY <2>1, FS_EmptySet DEF OwnKeys, Unique, HeadsGiven, Apart
  <2> QED  BY <1>1, <1>4, <1>5, <2>2, KeysSession
<1>8. CASE Keys(rows) \cap Keys(db) = {} /\ v = written
  <2>1. written.at = "written" /\ written.own = first \cup rows
        BY <1>2 DEF InsertionFields
  <2>2. Own(s)' = first \cup rows
        BY <1>6, <1>8, <2>1 DEF Own
  <2>3. /\ IsFiniteSet(first) /\ Unique(first) /\ HeadsGiven(first, next) /\ Apart(first, db)
        /\ \A r \in first : r.table \in Kinds
    <3>1. Own(s) = first
          BY <1>1 DEF Own
    <3>2. \A r \in first : r.table \in Kinds
          BY <1>2, MessageIdRow
    <3> QED  BY <3>1, <3>2 DEF KeysInv, OwnKeys
  <2>4. Apart(first, rows)
        BY <1>3, <2>3 DEF Apart, SameKey
  <2> HIDE DEF rows, first, v, written, t
  <2>5. Apart(rows, db)
        BY <1>8, NoKeyInCommon
  <2>6. OwnKeys(s)'
    <3>1. IsFiniteSet(first \cup rows)
          BY <1>3, <2>3, FS_Union
    <3>2. Unique(first \cup rows)
          BY <1>3, <2>3, <2>4 DEF Unique, Apart, SameKey
    <3>3. HeadsGiven(first \cup rows, next)
          BY <1>3, <2>3 DEF HeadsGiven
    <3>4. Apart(first \cup rows, db)
          BY <2>3, <2>5 DEF Apart
    <3> QED  BY <1>1, <2>2, <3>1, <3>2, <3>3, <3>4 DEF OwnKeys
  <2>7. ASSUME NEW o \in Sessions, o # s PROVE Apart(Own(s)', Own(o))
    <3>1. Apart(first, Own(o))
      <4>1. Own(s) = first
            BY <1>1 DEF Own, first
      <4> QED  BY <2>7, <4>1 DEF KeysInv
    <3>2. Apart(rows, Own(o))
      <4>1. CASE w[o].at = "idle"
            BY <4>1 DEF Own, Apart
      <4>2. CASE w[o].at = "written"
            BY <1>1, <2>7, <4>2, NoKeyInCommon DEF Own
      <4>3. CASE w[o].at \in {"inserted", "identified"}
        <5>1. Own(o) = insert_message_messageid(w[o].kind, w[o].head, w[o].x) /\ w[o].kind \in Kinds
              BY <4>3 DEF TypeInv, InsertionOK, Own
        <5>2. \A r \in Own(o) : r.table \in Kinds
              BY <5>1, MessageIdRow
        <5> QED  BY <1>3, <5>2 DEF Apart, SameKey
      <4> QED  BY <4>1, <4>2, <4>3 DEF TypeInv, InsertionOK
    <3> QED  BY <2>2, <3>1, <3>2 DEF Apart
  <2> QED  BY <1>1, <1>4, <1>5, <2>6, <2>7, KeysSession
<1> QED  BY <1>7, <1>8

LEMMA KeysLastInsertIdent ==
    ASSUME TypeInv, KeysInv, NEW s \in Sessions, get_last_insert_ident(s)
    PROVE  KeysInv'
<1> DEFINE v == [w[s] EXCEPT !.at = "identified", !.ident = max_ident(s)]
<1>1. /\ w[s].at = "inserted" /\ w' = [w EXCEPT ![s] = v] /\ UNCHANGED <<db, next>>
      BY DEF get_last_insert_ident
<1>2. DOMAIN w[s] = InsertionFields
      BY <1>1 DEF TypeInv, InsertionOK
<1>3. v.at = "identified" /\ v.own = w[s].own
      BY <1>2 DEF InsertionFields
<1> HIDE DEF v
<1>4. \A o \in Sessions : Own(o)' = Own(o)
      BY <1>1, <1>3 DEF Own, TypeInv
<1> QED  BY <1>1, <1>4 DEF KeysInv, OwnKeys

LEMMA KeysCommit ==
    ASSUME TypeInv, KeysInv, NEW s \in Sessions, Commit(s)
    PROVE  KeysInv'
<1>1. /\ w[s].at = "written" /\ w' = [w EXCEPT ![s] = NoInsertion]
      /\ next' = next /\ db' = db \cup w[s].own
      BY DEF Commit
<1>2. /\ \A o \in Sessions : o # s => Own(o)' = Own(o)
      /\ Own(s)' = {} /\ db' = db \cup Own(s)
      BY <1>1 DEF Own, TypeInv, NoInsertion
<1>3. OwnKeys(s)
      BY DEF KeysInv
<1>4. IsFiniteSet(db') /\ Unique(db') /\ HeadsGiven(db', next')
  <2>1. IsFiniteSet(db')
        BY <1>2, <1>3, FS_Union DEF KeysInv, OwnKeys
  <2>2. Unique(db')
        BY <1>2, <1>3 DEF KeysInv, OwnKeys, Unique, Apart, SameKey
  <2>3. HeadsGiven(db', next')
        BY <1>1, <1>2, <1>3 DEF KeysInv, OwnKeys, HeadsGiven
  <2> QED  BY <2>1, <2>2, <2>3
<1>5. OwnKeys(s)'
      BY <1>2, FS_EmptySet DEF OwnKeys, Unique, HeadsGiven, Apart
<1>6. ASSUME NEW o \in Sessions, o # s PROVE OwnKeys(o)'
  <2>1. OwnKeys(o) /\ Own(o)' = Own(o) /\ Apart(Own(o), Own(s))
        BY <1>2, <1>6 DEF KeysInv
  <2>2. Apart(Own(o), db')
        BY <1>2, <2>1 DEF OwnKeys, Apart
  <2> QED  BY <1>1, <2>1, <2>2 DEF OwnKeys
<1>7. ASSUME NEW a \in Sessions, NEW b \in Sessions, a # b
      PROVE  Apart(Own(a)', Own(b)')
      BY <1>2, <1>7 DEF KeysInv, Apart
<1> QED  BY <1>4, <1>5, <1>6, <1>7 DEF KeysInv

LEMMA KeysAbort ==
    ASSUME TypeInv, KeysInv, NEW s \in Sessions, Abort(s)
    PROVE  KeysInv'
<1>1. w' = [w EXCEPT ![s] = NoInsertion] /\ UNCHANGED <<db, next>>
      BY DEF Abort
<1>2. /\ \A o \in Sessions : o # s => Own(o)' = Own(o)
      /\ Own(s)' = {}
      BY <1>1 DEF Own, TypeInv, NoInsertion
<1>3. OwnKeys(s)'
      BY <1>2, FS_EmptySet DEF OwnKeys, Unique, HeadsGiven, Apart
<1>4. ASSUME NEW a \in Sessions, NEW b \in Sessions, a # b
      PROVE  Apart(Own(a)', Own(b)')
      BY <1>2, <1>4 DEF KeysInv, Apart
<1> QED  BY <1>1, <1>2, <1>3, <1>4 DEF KeysInv, OwnKeys

LEMMA KeysDelete ==
    ASSUME KeysInv, NEW kind \in Kinds, NEW idents, Delete(kind, idents)
    PROVE  KeysInv'
<1>1. db' \subseteq db
      BY DEF Delete, delete_message, do_delete_alert, do_delete_heartbeat
<1>2. next' = next /\ w' = w
      BY DEF Delete
<1>3. IsFiniteSet(db')
      BY <1>1, FS_Subset DEF KeysInv
<1>4. Unique(db') /\ HeadsGiven(db', next')
      BY <1>1, <1>2 DEF KeysInv, Unique, HeadsGiven
<1>5. ASSUME NEW s \in Sessions PROVE Own(s)' = Own(s) /\ OwnKeys(s)'
      BY <1>1, <1>2 DEF KeysInv, OwnKeys, Own, Apart
<1> QED  BY <1>3, <1>4, <1>5 DEF KeysInv

LEMMA KeysStep == TypeInv /\ TypeInv' /\ KeysInv /\ [Next]_vars => KeysInv'
<1> SUFFICES ASSUME TypeInv, TypeInv', KeysInv, [Next]_vars PROVE KeysInv'
    OBVIOUS
<1>1. CASE \E s \in Sessions : \/ InsertFirstRow(s) \/ get_last_insert_ident(s)
                               \/ InsertRest(s) \/ Commit(s) \/ Abort(s)
      BY <1>1, KeysInsertFirstRow, KeysLastInsertIdent, KeysInsertRest, KeysCommit, KeysAbort
<1>2. CASE \E kind \in Kinds : \E idents \in SUBSET Idents : Delete(kind, idents)
      BY <1>2, KeysDelete
<1>3. CASE UNCHANGED <<db, next, w>>
      BY <1>3 DEF KeysInv, OwnKeys, Own
<1>4. CASE \/ \E kind \in Kinds : \E m \in Idents : StartRead(kind, m)
           \/ ReadHead \/ ReadPart \/ ReadFails \/ EndRead
      BY <1>3, <1>4 DEF StartRead, ReadHead, ReadPart, ReadFails, EndRead
<1> QED  BY <1>1, <1>2, <1>3, <1>4 DEF Next, vars

\* Rows with different keys are as many as their keys.
LEMMA KeysCount ==
    ASSUME NEW rows, IsFiniteSet(rows), Unique(rows)
    PROVE  Cardinality(Keys(rows)) = Cardinality(rows)
<1> DEFINE T == Keys(rows)
           f == [r \in rows |-> Key(r)]
<1>1. f \in [rows -> T] /\ \A y \in T : \E r \in rows : f[r] = y
      BY DEF Keys
<1>2. \A a, b \in rows : f[a] = f[b] => a = b
  <2>1. \A a, b : Key(a) = Key(b) => SameKey(a, b)
        BY DEF Key, SameKey
  <2> QED  BY <2>1 DEF Unique
<1> HIDE DEF f, T
<1>3. f \in Surjection(rows, T) /\ f \in Injection(rows, T)
      BY <1>1, <1>2 DEF Surjection, Injection, IsInjective
<1>4. Cardinality(T) = Cardinality(rows)
      BY <1>3, FS_Surjection
<1> QED  BY <1>4 DEF T

\* The columns the schema makes a primary key identify a row: the numbering of
\* nested lists, the copies under -1 and the parent types never make two rows
\* collide, whatever the messages, however sessions interleave and whatever
\* is deleted meanwhile.
THEOREM KeysIdentify == Spec => []KeysHold
<1>1. Init => TypeInv /\ KeysInv
  <2>1. Init => KeysInv
        BY FS_EmptySet DEF Init, KeysInv, OwnKeys, Own, Unique, HeadsGiven, Apart, NoInsertion
  <2> QED  BY <2>1, InitTypes
<1>2. TypeInv /\ KeysInv /\ [Next]_vars => (TypeInv /\ KeysInv)'
      BY TypeStep, KeysStep
<1>3. KeysInv => KeysHold
      BY KeysCount DEF KeysInv, KeysHold
<1> QED  BY <1>1, <1>2, <1>3, PTL DEF Spec
=============================================================================
