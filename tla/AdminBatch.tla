----------------------------- MODULE AdminBatch -----------------------------
(***************************************************************************)
(* The batch commands of preludedb-admin: copy, move, delete, load, save    *)
(* and print.  A command walks over messages in batches, groups what it     *)
(* writes in transactions of events_per_transaction messages, and when it   *)
(* stops early tells the user the --offset to resume from.                  *)
(*                                                                         *)
(* A message is its ident; the source holds them in ident order, the order  *)
(* the idents query is taken to return them in.  An insertion or a deletion *)
(* is one statement sequence that succeeds or fails as a whole call; what   *)
(* it leaves behind when it fails depends on the transaction around it (see *)
(* SqlSession for what happens inside the call).  Sensors insert into the   *)
(* source while the command runs.  Everything is said of what is committed  *)
(* at every moment, so a process killed between two steps is covered.       *)
(***************************************************************************)
EXTENDS Integers, Sequences, FiniteSets, SequencesExt

CONSTANTS
    Options,        \* command lines: [cmd, ept, limit, offset, files] records
    NumMsgs,        \* messages in the source at the start
    MaxMsgs,        \* bound: messages ever in the source
    Matching,       \* the messages --criteria selects
    DeleteTblSize,  \* entries of delete_tbl (1024 in the code)
    FaultKinds,     \* what may fail: calls to the database, files, a signal
    MaxFaults,      \* bound: how many of them in a behaviour
    Resumable,      \* commands the user runs again from the printed offset
    Dooming         \* does COMMIT roll back once a statement failed (pgsql)?

Msgs == 1..MaxMsgs
Readers == {"save", "print"}              \* no transaction, write no database
Inserting == {"copy", "move", "load"}     \* insert into "dst"
Command == Readers \cup Inserting \cup {"delete"}

\* "files" is what each file of a load holds, empty for the other commands.
CommandLine == [cmd : Command, ept : Nat, limit : Int, offset : Nat,
                files : Seq(Seq(Msgs))]

ASSUME OptionsAssumption == Options \subseteq CommandLine
ASSUME MessagesAssumption ==
    /\ NumMsgs \in Nat /\ MaxMsgs \in Nat /\ NumMsgs <= MaxMsgs
    /\ Matching \subseteq Msgs
ASSUME EnvironmentAssumption ==
    /\ DeleteTblSize \in Nat /\ DeleteTblSize > 1 /\ MaxFaults \in Nat
    /\ FaultKinds \subseteq {"begin", "commit", "fetch", "get", "ident", "insert",
                             "delete", "open", "decode", "write", "signal"}
    /\ Resumable \subseteq Command /\ Dooming \in BOOLEAN

VARIABLES
    opt,               \* the command line: limit, offset, events_per_transaction
    origin,            \* the offset of the first run of the command
    db,                \* the two databases, as this process's sessions see them
    arrived,           \* messages ever inserted in the source
    pc,
    ret,               \* 0 or -1: the sign the caller looks at
    limit_copy, offset_copy, cur_count, event_no,
    idents, ident_idx, \* the batch fetched (the file, for load), and its cursor
    delete_tbl,
    fileno,            \* the file being loaded
    output,            \* what save or print wrote
    missed,            \* messages save could not read or write
    stop_processing, faults,
    ignored            \* failures of BEGIN and COMMIT nothing looked at

countVars == <<limit_copy, offset_copy, cur_count, event_no>>
batchVars == <<idents, ident_idx, delete_tbl, fileno>>
outVars == <<output, missed>>
envVars == <<arrived, stop_processing>>
faultVars == <<faults, ignored>>
vars == <<opt, origin, db, pc, ret, countVars, batchVars, outVars, envVars,
          faultVars>>

cmd == opt.cmd
ept == opt.ept
files == opt.files
Target == IF cmd = "delete" THEN "src" ELSE "dst"

----------------------------------------------------------------------------
(***************************************************************************)
(* A database session.  "now" is what the session sees, "kept" what is      *)
(* committed; they differ only inside a transaction of the public API.      *)
(* "torn" holds the messages some rows of which are there and some not.     *)
(***************************************************************************)
Contents == [msgs : Seq(Msgs), torn : SUBSET Msgs]
Session == [tx : BOOLEAN, broken : BOOLEAN, now : Contents, kept : Contents]

Empty == [msgs |-> <<>>, torn |-> {}]
NewSession(c) == [tx |-> FALSE, broken |-> FALSE, now |-> c, kept |-> c]

RolledBack(s) == NewSession(s.kept)
Committed(s) == IF s.broken /\ Dooming THEN RolledBack(s) ELSE NewSession(s.now)
Begun(s) == [s EXCEPT !.tx = TRUE, !.broken = FALSE]

\* The session after a call that wrote c: outside a transaction the call has
\* one of its own and c is committed.
Wrote(s, c) == [s EXCEPT !.now = c, !.kept = IF s.tx THEN @ ELSE c]
\* Mutation: a call that fails outside a transaction leaves its rows behind.
FailedLeaves(s, c) == [s EXCEPT !.now = c, !.broken = TRUE]
\* The session after a call that failed having written c: outside a
\* transaction its own transaction is rolled back.
Failed(s, c) == IF s.tx THEN [s EXCEPT !.now = c, !.broken = TRUE] ELSE s

\* The messages of ms that are in S, in the order of ms.
Picked(ms, S) ==
    LET picked[i \in 0..Len(ms)] ==
            IF i = 0 THEN <<>>
            ELSE IF ms[i] \in S THEN Append(picked[i - 1], ms[i]) ELSE picked[i - 1]
    IN  picked[Len(ms)]

With(c, m) == [c EXCEPT !.msgs = Append(@, m)]
Torn(c, ms) == [c EXCEPT !.torn = @ \cup ms]
Without(c, ms) == [msgs |-> Picked(c.msgs, Msgs \ ms), torn |-> c.torn \ ms]
\* A deletion that failed midway: the row that lists a message is gone or not.
HalfDeleted(c, ms) == {c, Torn(c, ms), Torn(Without(c, ms), ms)}

NoFault == UNCHANGED faultVars
Occurs(kind) == kind \in FaultKinds /\ faults < MaxFaults /\ faults' = faults + 1
Fault(kind) == Occurs(kind) /\ UNCHANGED ignored
IgnoredFault(kind) == Occurs(kind) /\ ignored' = ignored \cup {kind}

----------------------------------------------------------------------------
Init ==
    /\ opt \in Options /\ origin = opt.offset
    /\ db = [src |-> NewSession([Empty EXCEPT !.msgs = [i \in 1..NumMsgs |-> i]]),
             dst |-> NewSession(Empty)]
    /\ arrived = NumMsgs
    /\ pc = "start" /\ ret = 0
    /\ limit_copy = opt.limit /\ offset_copy = 0
    /\ cur_count = 0 /\ event_no = 0
    /\ idents = <<>> /\ ident_idx = 1 /\ delete_tbl = <<>> /\ fileno = 1
    /\ output = <<>> /\ missed = {}
    /\ stop_processing = FALSE /\ faults = 0 /\ ignored = {}

\* transaction_start(): its result is not looked at.
Start ==
    /\ pc = "start"
    /\ pc' = IF cmd = "load" THEN "open" ELSE "fetch"
    /\ IF cmd \notin Readers /\ ept > 1
       THEN \/ NoFault /\ db' = [db EXCEPT ![Target] = Begun(@)]
            \/ IgnoredFault("begin") /\ UNCHANGED db
       ELSE UNCHANGED <<db, faultVars>>
    /\ UNCHANGED <<opt, origin, ret, countVars, batchVars, outVars, envVars>>

\* Mutation: the loops do not look at stop_processing.
LoopOnBlind(r) == ret' = r /\ pc' = IF r >= 0 THEN "fetch" ELSE "end"
\* The condition at the end of the commands' do-while loops.
LoopOn(r) ==
    /\ ret' = r
    /\ pc' = IF r >= 0 /\ ~stop_processing THEN "fetch" ELSE "end"

----------------------------------------------------------------------------
(* fetch_message_idents_limited() *)
Selected(ms) == Picked(ms, Matching)
\* Mutation: a batch is bounded by --count only.
LocalLimitCount == IF limit_copy < 0 THEN MaxMsgs ELSE limit_copy
\* Mutation: a batch is bounded by the transaction size only.
LocalLimitSize == ept
LocalLimit == IF limit_copy < 0 THEN ept ELSE Min({ept, limit_copy})
\* Mutation: a move or a deletion also skips what it has processed.
FetchOffsetCounted == opt.offset + cur_count
\* Mutation: --offset is used up by the first batch.
FetchOffsetForgotten == IF cmd \in {"move", "delete"} THEN 0 ELSE opt.offset + cur_count
FetchOffset == opt.offset + IF cmd \in {"move", "delete"} THEN 0 ELSE cur_count
Batch == LET all == Selected(db["src"].now.msgs)
         IN SubSeq(all, FetchOffset + 1, Min({Len(all), FetchOffset + LocalLimit}))

Fetch ==
    /\ pc = "fetch"
    /\ \/ /\ NoFault /\ Batch = <<>>
          /\ ret' = 0 /\ pc' = "end"
          /\ UNCHANGED <<idents, ident_idx, limit_copy>>
       \/ /\ NoFault /\ Batch # <<>>
          /\ idents' = Batch /\ ident_idx' = 1
          /\ limit_copy' = IF limit_copy > 0 THEN limit_copy - Len(Batch)
                                             ELSE limit_copy
          /\ pc' = IF cmd = "delete" THEN "erase" ELSE "item"
          /\ UNCHANGED ret
       \/ /\ Fault("fetch")
          /\ ret' = -1 /\ pc' = "end"
          /\ UNCHANGED <<idents, ident_idx, limit_copy>>
    /\ UNCHANGED <<opt, origin, db, offset_copy, cur_count, event_no, delete_tbl,
                   fileno, outVars, envVars>>

----------------------------------------------------------------------------
(***************************************************************************)
(* flush_transaction_if_needed(db, event_no, increment): commit and begin,  *)
(* neither result looked at.                                                *)
(***************************************************************************)
EndThenStart ==
    LET s == db[Target] IN
    \/ NoFault /\ db' = [db EXCEPT ![Target] = Begun(Committed(s))]
    \/ /\ s.tx /\ IgnoredFault("commit")
       /\ db' = [db EXCEPT ![Target] = Begun(RolledBack(s))]
    \/ IgnoredFault("begin") /\ db' = [db EXCEPT ![Target] = Committed(s)]

\* Mutation: nothing is flushed at the end of a batch.
FlushFullOnly(increment) ==
    LET n == event_no + increment IN
    IF ept > 0 /\ n >= ept
    THEN /\ EndThenStart
         /\ cur_count' = cur_count + n /\ event_no' = 0
    ELSE /\ event_no' = IF ept > 0 THEN n ELSE event_no
         /\ UNCHANGED <<cur_count, db, faultVars>>
\* Mutation: the transaction is flushed one message late.
FlushLate(increment) ==
    LET n == event_no + increment IN
    IF ept > 0 /\ (n > ept \/ (increment = 0 /\ n > 0))
    THEN /\ EndThenStart
         /\ cur_count' = cur_count + n /\ event_no' = 0
    ELSE /\ event_no' = IF ept > 0 THEN n ELSE event_no
         /\ UNCHANGED <<cur_count, db, faultVars>>
\* Mutation: the message that fills the transaction is not counted.
FlushMiscounts(increment) ==
    LET n == event_no + increment IN
    IF ept > 0 /\ (n >= ept \/ (increment = 0 /\ n > 0))
    THEN /\ EndThenStart
         /\ cur_count' = cur_count + event_no /\ event_no' = 0
    ELSE /\ event_no' = IF ept > 0 THEN n ELSE event_no
         /\ UNCHANGED <<cur_count, db, faultVars>>

FlushIfNeeded(increment) ==
    LET n == event_no + increment IN
    IF ept > 0 /\ (n >= ept \/ (increment = 0 /\ n > 0))
    THEN /\ EndThenStart
         /\ cur_count' = cur_count + n /\ event_no' = 0
    ELSE /\ event_no' = IF ept > 0 THEN n ELSE event_no
         /\ UNCHANGED <<cur_count, db, faultVars>>

\* The flush after a message copied or loaded, or after a batch deleted.
Flush ==
    /\ pc = "flush"
    /\ FlushIfNeeded(IF cmd = "delete" THEN Len(idents) ELSE 1)
    /\ CASE cmd = "delete" -> LoopOn(ret)
         [] cmd = "load"   -> pc' = "read" /\ UNCHANGED ret
         [] OTHER          -> pc' = "item" /\ UNCHANGED ret
    /\ UNCHANGED <<opt, origin, limit_copy, offset_copy, batchVars, outVars,
                   envVars>>

----------------------------------------------------------------------------
(* copy_iterate(), for copy and move *)
Copying == cmd \in {"copy", "move"}

CopyMessage ==
    /\ pc = "item" /\ Copying /\ ident_idx <= Len(idents)
    /\ LET m == idents[ident_idx]
           dst == db["dst"] IN
       \/ /\ NoFault
          /\ db' = [db EXCEPT !["dst"] = Wrote(dst, With(dst.now, m))]
          /\ delete_tbl' = IF cmd = "move" THEN Append(delete_tbl, m) ELSE delete_tbl
          /\ pc' = IF cmd = "move" THEN "track" ELSE "flush"
          /\ UNCHANGED ret
       \/ /\ Fault("get") /\ ret' = -1 /\ pc' = "end"
          /\ UNCHANGED <<db, delete_tbl>>
       \/ /\ Fault("insert") /\ ret' = -1 /\ pc' = "end"
          /\ db' = [db EXCEPT !["dst"] = Failed(dst, Torn(dst.now, {m}))]
          /\ UNCHANGED delete_tbl
    /\ ident_idx' = ident_idx + 1
    /\ UNCHANGED <<opt, origin, countVars, idents, fileno, outVars, envVars>>

\* Delete the messages of delete_tbl from the source, in a transaction of the
\* deletion's own.
DeleteCopied == db' = [db EXCEPT !["src"] = Wrote(@, Without(@.now, ToSet(delete_tbl)))]

\* The test on delete_tbl inside the loop: a failed deletion goes on with the
\* next message, the table still full and nothing flushed.
TrackDeletion ==
    /\ pc = "track"
    /\ \/ /\ ~(ept > 0 /\ event_no >= ept) /\ Len(delete_tbl) < DeleteTblSize
          /\ pc' = "flush"
          /\ UNCHANGED <<db, delete_tbl, faultVars>>
       \/ /\ (ept > 0 /\ event_no >= ept) \/ Len(delete_tbl) >= DeleteTblSize
          /\ \/ /\ NoFault /\ DeleteCopied
                /\ delete_tbl' = <<>> /\ pc' = "flush"
             \/ /\ Fault("delete") /\ pc' = "item"
                /\ UNCHANGED <<db, delete_tbl>>
    /\ UNCHANGED <<opt, origin, ret, countVars, idents, ident_idx, fileno,
                   outVars, envVars>>

\* preludedb_result_idents_get() fails: the rest of the batch is given up, and
\* the loop ends as it does after the last ident, but for what it returns.  Save
\* does not look at it.
IdentFails ==
    /\ pc = "item" /\ ret >= 0 /\ Fault("ident")
    /\ \/ /\ Copying /\ ret' = -1
          /\ idents' = SubSeq(idents, 1, ident_idx - 1) /\ UNCHANGED pc
       \/ /\ cmd \in Readers /\ ~stop_processing
          /\ LoopOn(IF cmd = "save" THEN 0 ELSE -1) /\ UNCHANGED idents
    /\ UNCHANGED <<opt, origin, db, countVars, ident_idx, delete_tbl, fileno,
                   outVars, envVars>>

\* The loop is over: flush what is left.
EndOfBatch ==
    /\ pc = "item" /\ Copying /\ ident_idx > Len(idents)
    /\ FlushIfNeeded(0)
    /\ IF delete_tbl # <<>> THEN pc' = "rest" /\ UNCHANGED ret
                            ELSE LoopOn(ret)
    /\ UNCHANGED <<opt, origin, limit_copy, offset_copy, batchVars, outVars,
                   envVars>>

\* Then delete the messages still listed.
DeleteRest ==
    /\ pc = "rest"
    /\ \/ NoFault /\ DeleteCopied /\ LoopOn(ret)
       \/ Fault("delete") /\ ret' = -1 /\ pc' = "end" /\ UNCHANGED db
    /\ delete_tbl' = <<>>
    /\ UNCHANGED <<opt, origin, countVars, idents, ident_idx, fileno, outVars,
                   envVars>>

----------------------------------------------------------------------------
\* cmd_delete(): one deletion for the whole batch; the flush that follows
\* counts the batch even when the deletion failed.
Erase ==
    /\ pc = "erase" /\ pc' = "flush"
    /\ LET src == db["src"]
           ms == ToSet(idents) IN
       \/ /\ NoFault /\ ret' = 0
          /\ db' = [db EXCEPT !["src"] = Wrote(src, Without(src.now, ms))]
       \/ /\ Fault("delete") /\ ret' = -1
          /\ \E c \in HalfDeleted(src.now, ms) :
                 db' = [db EXCEPT !["src"] = Failed(src, c)]
    /\ UNCHANGED <<opt, origin, countVars, batchVars, outVars, envVars>>

----------------------------------------------------------------------------
\* save_iterate_message() and print_iterate_message(): save goes on after a
\* message it cannot read or write, without counting it; print stops.
Emit ==
    /\ pc = "item" /\ cmd \in Readers
    /\ IF stop_processing \/ ident_idx > Len(idents)
       THEN LoopOn(0) /\ UNCHANGED <<output, missed, cur_count, ident_idx, faultVars>>
       ELSE LET m == idents[ident_idx] IN
            /\ ident_idx' = ident_idx + 1
            /\ \/ /\ NoFault
                  /\ output' = Append(output, m) /\ cur_count' = cur_count + 1
                  /\ UNCHANGED <<pc, ret, missed>>
               \/ /\ cmd = "save" /\ (Fault("get") \/ Fault("write"))
                  /\ missed' = missed \cup {m}
                  /\ UNCHANGED <<pc, ret, output, cur_count>>
               \/ /\ cmd = "print" /\ Fault("get")
                  /\ ret' = -1 /\ pc' = "end"
                  /\ UNCHANGED <<missed, output, cur_count>>
    /\ UNCHANGED <<opt, origin, db, limit_copy, offset_copy, event_no, idents,
                   delete_tbl, fileno, envVars>>

----------------------------------------------------------------------------
\* cmd_load(): open the next file.  A file that cannot be opened returns from
\* the command at once, with no transaction_end().
OpenFile ==
    /\ pc = "open" /\ fileno <= Len(files)
    /\ \/ /\ NoFault
          /\ idents' = files[fileno] /\ ident_idx' = 1
          /\ offset_copy' = opt.offset
          /\ pc' = "read"
          /\ UNCHANGED <<ret, db>>
       \/ /\ Fault("open") /\ ret' = -1 /\ pc' = "done"
          /\ db' = [db EXCEPT !["dst"] = RolledBack(@)]
          /\ UNCHANGED <<idents, ident_idx, offset_copy>>
    /\ UNCHANGED <<opt, origin, limit_copy, cur_count, event_no, delete_tbl,
                   fileno, outVars, envVars>>

NoMoreFiles ==
    /\ pc = "open" /\ fileno > Len(files) /\ pc' = "end"
    /\ UNCHANGED <<opt, origin, db, ret, countVars, batchVars, outVars, envVars,
                   faultVars>>

\* load_from_file() and do_read_message()
LimitReached == opt.limit >= 0 /\ cur_count >= opt.limit

EndOfFile ==
    /\ pc = "read"
    /\ \/ stop_processing
       \/ ident_idx > Len(idents)
       \/ offset_copy = 0 /\ LimitReached
    /\ ret' = 0 /\ pc' = "open" /\ fileno' = fileno + 1
    /\ UNCHANGED <<opt, origin, db, countVars, idents, ident_idx, delete_tbl,
                   outVars, envVars, faultVars>>

SkipMessage ==
    /\ pc = "read" /\ ~stop_processing
    /\ ident_idx <= Len(idents) /\ offset_copy > 0
    /\ offset_copy' = offset_copy - 1 /\ ident_idx' = ident_idx + 1
    /\ UNCHANGED <<opt, origin, db, pc, ret, limit_copy, cur_count, event_no,
                   idents, delete_tbl, fileno, outVars, envVars, faultVars>>

LoadMessage ==
    /\ pc = "read" /\ ~stop_processing
    /\ ident_idx <= Len(idents) /\ offset_copy = 0 /\ ~LimitReached
    /\ LET m == idents[ident_idx]
           dst == db["dst"] IN
       \/ /\ NoFault /\ pc' = "flush"
          /\ db' = IF m \in Matching
                   THEN [db EXCEPT !["dst"] = Wrote(dst, With(dst.now, m))] ELSE db
          /\ UNCHANGED ret
       \/ /\ Fault("decode") /\ ret' = -1 /\ pc' = "end"
          /\ UNCHANGED db
       \/ /\ m \in Matching /\ Fault("insert") /\ ret' = -1 /\ pc' = "end"
          /\ db' = [db EXCEPT !["dst"] = Failed(dst, Torn(dst.now, {m}))]
    /\ ident_idx' = ident_idx + 1
    /\ UNCHANGED <<opt, origin, countVars, idents, delete_tbl, fileno, outVars,
                   envVars>>

----------------------------------------------------------------------------
\* Mutation: transaction_end() commits whether the command failed or not.
FinishCommits ==
    /\ pc = "end" /\ pc' = "done"
    /\ LET last == cmd \notin Readers /\ ept > 1 IN
       /\ cur_count' = IF last THEN cur_count + event_no ELSE cur_count
       /\ db' = [db EXCEPT ![Target] = IF last THEN Committed(@) ELSE RolledBack(@)]
    /\ UNCHANGED <<opt, origin, ret, limit_copy, offset_copy, event_no, batchVars,
                   outVars, envVars, faultVars>>

\* transaction_end() and the end of the process, which drops whatever its
\* sessions have not committed.
Finish ==
    /\ pc = "end" /\ pc' = "done"
    /\ LET s == db[Target]
           last == cmd \notin Readers /\ ept > 1 /\ ret >= 0 IN
       /\ cur_count' = IF last THEN cur_count + event_no ELSE cur_count
       /\ \/ /\ last /\ NoFault
             /\ db' = [db EXCEPT ![Target] = Committed(s)]
          \/ /\ last /\ s.tx /\ IgnoredFault("commit")
             /\ db' = [db EXCEPT ![Target] = RolledBack(s)]
          \/ /\ ~last /\ NoFault
             /\ db' = [db EXCEPT ![Target] = RolledBack(s)]
    /\ UNCHANGED <<opt, origin, ret, limit_copy, offset_copy, event_no, batchVars,
                   outVars, envVars>>

\* main() prints the offset to resume from, cur_count + offset, and the user
\* runs the same command with it.
Resume ==
    /\ pc = "done" /\ (ret < 0 \/ stop_processing)
    /\ cmd \in Resumable /\ opt.limit < 0
    /\ cmd = "load" => Len(files) = 1
    /\ opt' = [opt EXCEPT !.offset = @ + cur_count]
    /\ pc' = "start" /\ ret' = 0
    /\ limit_copy' = opt.limit /\ offset_copy' = 0
    /\ cur_count' = 0 /\ event_no' = 0
    /\ idents' = <<>> /\ ident_idx' = 1 /\ delete_tbl' = <<>> /\ fileno' = 1
    /\ stop_processing' = FALSE
    /\ UNCHANGED <<origin, db, arrived, outVars, faultVars>>

\* SIGINT or SIGTERM: handle_signal().
Signal ==
    /\ pc # "done" /\ ~stop_processing /\ Fault("signal")
    /\ stop_processing' = TRUE
    /\ UNCHANGED <<opt, origin, db, pc, ret, countVars, batchVars, outVars, arrived>>

\* A sensor's manager inserts a message into the source, in its own session.
Arrive ==
    /\ pc # "done" /\ cmd # "load" /\ arrived < MaxMsgs
    /\ arrived' = arrived + 1
    /\ db' = [db EXCEPT !["src"].now = With(@, arrived'),
                        !["src"].kept = With(@, arrived')]
    /\ UNCHANGED <<opt, origin, pc, ret, countVars, batchVars, outVars,
                   stop_processing, faultVars>>

Step ==
    \/ Start \/ Fetch \/ Flush
    \/ CopyMessage \/ TrackDeletion \/ IdentFails \/ EndOfBatch \/ DeleteRest
    \/ Erase \/ Emit
    \/ OpenFile \/ NoMoreFiles \/ EndOfFile \/ SkipMessage \/ LoadMessage
    \/ Finish

Next == Step \/ Resume \/ Signal \/ Arrive

\* The process keeps running; nobody has to resume it, signal it or feed it.
Spec == Init /\ [][Next]_vars /\ WF_vars(Step)

----------------------------------------------------------------------------
TypeOK ==
    /\ opt \in CommandLine
    /\ origin \in Nat
    /\ db \in [{"src", "dst"} -> Session]
    /\ arrived \in NumMsgs..MaxMsgs
    /\ pc \in {"start", "fetch", "item", "track", "flush", "rest", "erase",
               "open", "read", "end", "done"}
    /\ ret \in {0, -1}
    /\ limit_copy \in Int /\ offset_copy \in Nat
    /\ cur_count \in Nat /\ event_no \in Nat
    /\ idents \in Seq(Msgs) /\ ident_idx \in 1..(Len(idents) + 1)
    /\ delete_tbl \in Seq(Msgs) /\ fileno \in 1..(Len(files) + 1)
    /\ output \in Seq(Msgs) /\ missed \subseteq Msgs
    /\ stop_processing \in BOOLEAN /\ faults \in 0..MaxFaults
    /\ ignored \subseteq {"begin", "commit"}
    /\ \A d \in {"src", "dst"} : ~db[d].tx => db[d].now = db[d].kept

\* What the command is asked to go through: the messages --criteria selects
\* after the first --offset ones.  A load counts --offset in every file, before
\* it applies the criteria.
Prefix(ms, n) == SubSeq(ms, 1, Min({n, Len(ms)}))
Remainder(ms) == SubSeq(ms, origin + 1, Len(ms))
InFiles == FlattenSeq([i \in 1..Len(files) |-> Remainder(files[i])])
Wanted == IF cmd = "load" THEN Selected(InFiles)
                          ELSE Remainder(Selected([i \in 1..arrived |-> i]))

\* A message of the source is in one of the databases at every moment of a
\* move: the source forgets a message (copy_iterate(), line 677) only once the
\* destination has committed it (line 674), so that neither an error nor the
\* death of the process between the two loses it.  With transactions as large
\* as delete_tbl the deletion inside the loop (line 661) comes first, and a
\* COMMIT that fails is not noticed (line 218).
NothingLost ==
    cmd = "move" /\ ept < DeleteTblSize /\ "commit" \notin ignored =>
        \A m \in 1..arrived : \/ m \in ToSet(db["src"].kept.msgs)
                              \/ m \in ToSet(db["dst"].kept.msgs)

\* Copying, moving or loading commits the messages asked for in order, each
\* once and none skipped, over any number of interrupted runs resumed from the
\* printed offset (line 1403): what cur_count counts is what is committed,
\* unless a BEGIN or a COMMIT failed unnoticed.
CommittedInOrder ==
    cmd \in Inserting /\ ignored = {} => IsPrefix(db["dst"].kept.msgs, Wanted)

\* No transaction that is committed holds part of a message: a failed
\* insertion is followed by preludedb_transaction_abort() (line 238) or by the
\* end of the session before any COMMIT.
InsertedWhole == db["dst"].kept.torn = {}

\* The first messages asked for, up to --count, of those present at the start;
\* a load counts them before it applies the criteria.
Todo ==
    LET known == Picked(Wanted, 1..NumMsgs) IN
    CASE opt.limit < 0 -> IF cmd = "load" THEN Wanted ELSE known
      [] opt.limit >= 0 /\ cmd = "load" -> Selected(Prefix(InFiles, opt.limit))
      [] opt.limit >= 0 /\ cmd # "load" -> Prefix(known, opt.limit)

\* A command that reports success has done what was asked: copied, moved or
\* deleted every message asked for, whatever number of batches it took and
\* whatever arrived meanwhile (lines 297 and 725: a move or a deletion fetches
\* from the same offset again, a copy from past what it has copied).
CommandCompletes ==
    pc = "done" /\ ret >= 0 /\ ~stop_processing /\ "commit" \notin ignored =>
        /\ cmd \in Inserting => ToSet(Todo) \subseteq ToSet(db["dst"].kept.msgs)
        /\ cmd \in {"move", "delete"} =>
               ToSet(Todo) \cap ToSet(db["src"].kept.msgs) = {}
        /\ cmd = "print" => IsPrefix(Todo, output)
        /\ cmd = "save" /\ opt.limit < 0 => ToSet(Todo) \ missed \subseteq ToSet(output)

\* What a move or a deletion was not asked for stays in the source: the
\* messages --criteria does not select, those before --offset and, with
\* --count, those after it, even when a deletion fails halfway.
KeepsTheRest ==
    cmd \in {"move", "delete"} =>
        LET asked == IF opt.limit < 0 THEN Wanted ELSE Prefix(Wanted, opt.limit)
        IN (1..arrived) \ ToSet(asked) \subseteq ToSet(db["src"].kept.msgs)

\* "--count: Process at most count events" (line 402), for the commands that
\* fetch idents: limit_copy bounds what all the batches return together.
CountRespected ==
    opt.limit >= 0 /\ cmd # "load" =>
        /\ Len(db["dst"].now.msgs) <= opt.limit
        /\ Len(output) <= opt.limit
        /\ Len(db["src"].now.msgs) >= arrived - opt.limit

\* "--events-per-transaction: Maximum number of event to process per
\* transaction" (line 405), for the commands that insert: a COMMIT never makes
\* more messages durable at once.
TransactionBounded ==
    [][Len(db'["dst"].kept.msgs) - Len(db["dst"].kept.msgs) <= Max({ept, 1})]_vars

\* A command goes to its end whatever fails: every loop of the file leaves or
\* moves on after an error, and what save cannot read is fetched again until
\* it can be.
EveryCommandEnds == pc # "done" ~> pc = "done"

\* The table of the messages to delete never grows past its array, even when
\* deletions fail (line 656), as long as a transaction is no larger than it.
DeleteTableFits == ept <= DeleteTblSize => Len(delete_tbl) <= DeleteTblSize

\* "move - Move content of a Prelude database to another database" (line 507):
\* no message is in neither of them.
MoveLosesNothing ==
    cmd = "move" =>
        1..arrived \subseteq ToSet(db["src"].kept.msgs) \cup ToSet(db["dst"].kept.msgs)
=============================================================================
