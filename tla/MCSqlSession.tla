--------------------------- MODULE MCSqlSession ---------------------------
(***************************************************************************)
(* Small instances of SqlSession: the operation lists of a heartbeat and of *)
(* an alert, as insert_heartbeat and insert_alert issue them.               *)
(***************************************************************************)
EXTENDS SqlSession

Checked(k) == [kind |-> k, checked |-> TRUE]
Unchecked(k) == [kind |-> k, checked |-> FALSE]

\* messageid escaped, Prelude_Heartbeat, its ident, Prelude_CreateTime.
Heartbeat == <<Checked("escape"), Checked("insert"), Checked("select"), Checked("insert")>>

\* An alert whose additional data follows the classification.
AlertWithData == <<Checked("insert"), Unchecked("insert"), Checked("escape"), Checked("insert")>>

=============================================================================
