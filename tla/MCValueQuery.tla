---------------------------- MODULE MCValueQuery ----------------------------
(***************************************************************************)
(* Instances of ValueQuery.                                                 *)
(***************************************************************************)
EXTENDS ValueQuery

Field(top, parent, name, class, depth, type, listed) ==
    [top |-> top, parent |-> parent, name |-> name, class |-> class, depth |-> depth,
     type |-> type, listed |-> listed]

messageid == Field("alert", "alert", "messageid", "alert", 2, "text", FALSE)
detect_time == Field("alert", "alert", "detect_time", "alert", 2, "time", FALSE)
process == "alert.target(0).process"
process_name == Field("alert", process, "name", "process", 4, "text", FALSE)
process_pid == Field("alert", process, "pid", "process", 4, "text", FALSE)
process_arg == Field("alert", process, "arg(0)", "process", 4, "text", TRUE)
file_time == Field("alert", "alert.target(0).file(0)", "create_time", "file", 4, "time", FALSE)
file_name == Field("alert", "alert.target(0).file(0)", "name", "file", 4, "text", FALSE)
inode == "alert.target(0).file(0).inode"
inode_time == Field("alert", inode, "change_time", "inode", 5, "time", FALSE)
inode_number == Field("alert", inode, "number", "inode", 5, "text", FALSE)
data == Field("alert", "alert.additional_data(0)", "data", "additional_data", 3, "data", FALSE)
heartbeat_id == Field("heartbeat", "heartbeat", "messageid", "heartbeat", 2, "text", FALSE)
heartbeat_name == Field("heartbeat", "heartbeat.analyzer(0)", "name", "analyzer", 3, "text", FALSE)

AllPaths == {messageid, detect_time, process_name, process_pid, process_arg, file_time,
             file_name, inode_time, inode_number, data, heartbeat_id, heartbeat_name}

Plain(p) == [kind |-> "path", path |-> p, flags |-> {}]
With(p, flag) == [kind |-> "path", path |-> p, flags |-> {flag}]
Applied(kind, p, flag) == [kind |-> kind, path |-> p, flags |-> {flag}]

AllObjects == {Plain(p) : p \in AllPaths} \cup
    {With(detect_time, "group"), With(detect_time, "order"), With(file_time, "order"),
     With(data, "order"), With(process_name, "group"),
     Applied("function", detect_time, "order"), Applied("constant", messageid, "group")}

\* The shapes of trees of at most three criteria, children as <<and, or>>.
Shapes == {<< <<0, 0>> >>, << <<2, 0>>, <<0, 0>> >>, << <<0, 2>>, <<0, 0>> >>,
           << <<2, 3>>, <<0, 0>>, <<0, 0>> >>,
           << <<2, 0>>, <<3, 0>>, <<0, 0>> >>, << <<2, 0>>, <<0, 3>>, <<0, 0>> >>,
           << <<0, 2>>, <<3, 0>>, <<0, 0>> >>, << <<0, 2>>, <<0, 3>>, <<0, 0>> >>}
Tests == {[path |-> process_name, op |-> "not_equal"], [path |-> process_pid, op |-> "equal"],
          [path |-> detect_time, op |-> "time_not_equal"],
          [path |-> file_time, op |-> "time_equal"],
          [path |-> heartbeat_id, op |-> "null"]}
AllCriteria == {<< >>} \cup
    UNION {{[n \in DOMAIN s |-> [path |-> t[n].path, op |-> t[n].op,
                                 and |-> s[n][1], or |-> s[n][2]]] : t \in [DOMAIN s -> Tests]} :
           s \in Shapes}
=============================================================================
