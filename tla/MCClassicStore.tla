--------------------------- MODULE MCClassicStore ---------------------------
(***************************************************************************)
(* Messages, paths and deployments for ClassicStore.  Every object of a     *)
(* message has a name of its own, so that one that comes back in the wrong  *)
(* place, or twice, is noticed.                                             *)
(***************************************************************************)
EXTENDS ClassicStore, TLC

CONSTANTS s1, s2

T(name) == [v |-> name]
Node(name, addresses) == [v |-> name, address |-> addresses]
User(name, ids) == [v |-> name, user_id |-> ids]
Process(name, args, envs) == [v |-> name, arg |-> args, env |-> envs]
Service(name, web, snmp) == [v |-> name, web_service |-> web, snmp_service |-> snmp]
Analyzer(name, nodes, processes) == [v |-> name, node |-> nodes, process |-> processes]
Endpoint(name, nodes, users, processes, services) ==
    [v |-> name, node |-> nodes, user |-> users, process |-> processes, service |-> services]
Access(users, permissions) == [v |-> "", user_id |-> users, permission |-> permissions]
File(name, accesses, linkages, inodes, checksums) ==
    [v |-> name, file_access |-> accesses, linkage |-> linkages, inode |-> inodes,
     checksum |-> checksums]
Target(e, files) == [f \in DOMAIN e \cup {"file"} |-> IF f = "file" THEN files ELSE e[f]]

BareAlert ==
    [v |-> "id0", create_time |-> {T("ct")}, detect_time |-> {}, analyzer_time |-> {},
     assessment |-> {}, tool_alert |-> {}, overflow_alert |-> {}, correlation_alert |-> {},
     analyzer |-> <<>>, source |-> <<>>, target |-> <<>>, classification |-> {},
     additional_data |-> <<>>]

\* Lists of two everywhere, with children on one of the two only.
Correlation ==
    [BareAlert EXCEPT
        !.v = "id1", !.detect_time = {T("dt")}, !.analyzer_time = {T("at")},
        !.assessment = {[v |-> "", impact |-> {T("imp")}, confidence |-> {T("conf")},
                         action |-> <<T("act1"), T("act2")>>]},
        !.correlation_alert = {[v |-> "corr", alertident |-> <<T("ai1"), T("ai2")>>]},
        !.analyzer = <<Analyzer("an1", {Node("an1n", <<T("an1a1"), T("an1a2")>>)}, {}),
                       Analyzer("an2", {}, {Process("an2p", <<T("an2arg")>>, <<>>)})>>,
        !.source = <<Endpoint("s1", {Node("s1n", <<T("s1a")>>)}, {User("s1u", <<T("s1u1"), T("s1u2")>>)},
                              {}, {}),
                     Endpoint("s2", {}, {}, {Process("s2p", <<T("s2g1"), T("s2g2")>>, <<T("s2e1"), T("s2e2")>>)},
                              {Service("s2s", {[v |-> "s2w", arg |-> <<T("s2w1"), T("s2w2")>>]}, {})})>>,
        !.target = <<Target(Endpoint("t1", {Node("t1n", <<T("t1a1"), T("t1a2")>>)}, {}, {},
                                     {Service("t1s", {}, {T("t1snmp")})}), <<>>),
                     Target(Endpoint("t2", {}, {User("t2u", <<T("t2u1")>>)}, {}, {}),
                         <<File("f1", <<>>, <<T("l1"), T("l2")>>, {}, <<T("cs1"), T("cs2")>>),
                           File("f2", <<Access({T("fu")}, <<T("q1"), T("q2")>>), Access({}, <<T("q3")>>)>>,
                                <<>>, {T("ino")}, <<>>)>>)>>,
        !.classification = {[v |-> "class", reference |-> <<T("r1"), T("r2")>>]},
        !.additional_data = <<T("ad1"), T("ad2")>>]

Tool == [BareAlert EXCEPT
    !.v = "id2", !.tool_alert = {[v |-> "tool", alertident |-> <<T("ti1"), T("ti2")>>]},
    !.source = <<Endpoint("s3", {}, {}, {Process("s3p", <<T("s3g")>>, <<>>)}, {})>>]

Overflow == [BareAlert EXCEPT !.v = "id3", !.overflow_alert = {T("over")}]

Heartbeat ==
    [v |-> "id4", create_time |-> {T("hct")}, analyzer_time |-> {T("hat")},
     analyzer |-> <<Analyzer("han1", {}, {Process("hanp", <<T("harg")>>, <<T("henv")>>)}),
                    Analyzer("han2", {Node("hann", <<T("hana")>>)}, {})>>,
     additional_data |-> <<T("had1"), T("had2")>>]

BareHeartbeat ==
    [v |-> "id5", create_time |-> {T("hct")}, analyzer_time |-> {}, analyzer |-> <<>>,
     additional_data |-> <<>>]

----------------------------------------------------------------------------
Single_(n) == {[n |-> n, i |-> Forbidden]}
List(n) == [n : {n}, i : {Undefined, -1, 0, 1}]
\* A list that has no copy of its last element.
NoLast(n) == [n : {n}, i : {Undefined, 0, 1}]

Path2(a, b) == {<<x, y>> : x \in a, y \in b}
Path3(a, b, c) == {<<x, y, z>> : x \in a, y \in b, z \in c}
Then(paths, steps) == {Append(q, x) : q \in paths, x \in steps}
V == Single_("v")

NodePaths(p) ==
    LET n == Then(p, Single_("node"))
    IN  Then(n, V) \cup Then(Then(n, List("address")), V)
ProcessPaths(p) ==
    LET q == Then(p, Single_("process"))
    IN  Then(q, V) \cup Then(q, NoLast("arg")) \cup Then(q, NoLast("env"))
EndpointPaths(p) ==
    LET u == Then(p, Single_("user"))
        s == Then(p, Single_("service"))
        web == Then(s, Single_("web_service"))
    IN  NodePaths(p) \cup ProcessPaths(p) \cup Then(p, V) \cup Then(u, V)
        \cup Then(Then(u, List("user_id")), V) \cup Then(s, V) \cup Then(web, V)
        \cup Then(web, List("arg")) \cup Then(Then(s, Single_("snmp_service")), V)

\* All paths of the classes above but file_access.permission, whose
\* file_access index the joins ignore.
FilePaths(p) ==
    LET f == Then(p, List("file"))
        access == Then(f, List("file_access"))
    IN  Then(f, V) \cup Then(Then(f, List("linkage")), V) \cup Then(Then(f, List("checksum")), V)
        \cup Then(Then(f, Single_("inode")), V) \cup Then(Then(access, Single_("user_id")), V)

Common(kind) ==
    LET top == {<<x>> : x \in Single_(kind)}
        an == Then(top, List("analyzer"))
    IN  Then(top, V) \cup Then(top, Single_("create_time") \cup Single_("analyzer_time"))
        \cup Then(an, V) \cup NodePaths(an) \cup ProcessPaths(an)
        \cup Then(Then(top, List("additional_data")), V)

AlertPaths ==
    LET top == {<<x>> : x \in Single_("alert")}
        asm == Then(top, Single_("assessment"))
        class == Then(top, Single_("classification"))
        tool == Then(top, Single_("tool_alert"))
        corr == Then(top, Single_("correlation_alert"))
        target == Then(top, List("target"))
    IN  Common("alert") \cup Then(top, Single_("detect_time"))
        \cup Then(Then(asm, Single_("impact") \cup Single_("confidence") \cup List("action")), V)
        \cup Then(class, V) \cup Then(Then(class, List("reference")), V)
        \cup Then(tool, V) \cup Then(Then(tool, NoLast("alertident")), V)
        \cup Then(corr, V) \cup Then(Then(corr, List("alertident")), V)
        \cup Then(Then(top, Single_("overflow_alert")), V)
        \cup EndpointPaths(Then(top, List("source"))) \cup EndpointPaths(target)
        \cup FilePaths(target)

AllPaths == [kind \in Kinds |-> IF kind = "alert" THEN AlertPaths ELSE Common("heartbeat")]

----------------------------------------------------------------------------
PerKind(alerts, heartbeats) ==
    [kind \in Kinds |-> IF kind = "alert" THEN alerts ELSE heartbeats]

Running(inserting, messages, idents, deleting, reading, empty_tables) ==
    [inserting |-> inserting, messages |-> messages, idents |-> idents,
     deleting |-> deleting, reading |-> reading, empty_tables |-> empty_tables]

\* One message is inserted and read back, and nothing else happens.
Alone(x, empty_tables) ==
    Running({s1}, PerKind({x}, {}), PerKind(1, 0), FALSE, TRUE, empty_tables)

\* One session inserting next to a program that deletes and one that reads, on
\* each kind of plugin; a message with lists of two read where scans can break;
\* two sessions inserting.
SafeDeployments == {
    Running({s1}, PerKind({Correlation, Overflow}, {Heartbeat}), PerKind(2, 1), TRUE, TRUE, FALSE),
    Running({s1}, PerKind({Tool}, {BareHeartbeat}), PerKind(2, 1), TRUE, TRUE, TRUE),
    Alone(Correlation, TRUE),
    Running({s1, s2}, PerKind({Correlation, Tool}, {Heartbeat, BareHeartbeat}), PerKind(2, 2),
            FALSE, FALSE, FALSE)}

\* Two sessions inserting next to a program that deletes.
RaceDeployments == {
    Running({s1, s2}, PerKind({Tool}, {}), PerKind(2, 0), TRUE, FALSE, FALSE)}
=============================================================================
