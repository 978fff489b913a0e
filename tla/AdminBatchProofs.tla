--------------------------- MODULE AdminBatchProofs ---------------------------
(***************************************************************************)
(* The batch commands of AdminBatch, for any command lines, any contents of *)
(* the source, any failures and any size of delete_tbl.                     *)
(***************************************************************************)
EXTENDS PickedProofs

----------------------------------------------------------------------------
(***************************************************************************)
(* Sessions.                                                                *)
(***************************************************************************)
SessionOK(s) == s \in Session /\ (~s.tx => s.now = s.kept)
DbOK(d) == /\ d \in [{"src", "dst"} -> Session]
           /\ \A n \in {"src", "dst"} : SessionOK(d[n])

LEMMA ContentsWritten ==
    ASSUME NEW c \in Contents, NEW ms \in SUBSET Msgs
    PROVE  /\ \A m \in Msgs : With(c, m) \in Contents
           /\ Torn(c, ms) \in Contents /\ Without(c, ms) \in Contents
           /\ HalfDeleted(c, ms) \subseteq Contents
<1>1. c.msgs \in Seq(Msgs) /\ c.torn \in SUBSET Msgs
      BY DEF Contents
<1>2. ASSUME NEW m \in Msgs PROVE With(c, m) \in Contents
  <2>1. With(c, m) = [msgs |-> Append(c.msgs, m), torn |-> c.torn]
        BY DEF With, Contents
  <2> QED  BY <1>1, <2>1 DEF Contents
<1>4. Picked(c.msgs, Msgs \ ms) \in Seq(Msgs)
      BY <1>1, PickedMembers
<1>5. Without(c, ms) \in Contents
      BY <1>1, <1>4 DEF Without, Contents
<1>6. ASSUME NEW d \in Contents PROVE Torn(d, ms) \in Contents
      BY <1>6 DEF Torn, Contents
<1> QED  BY <1>2, <1>5, <1>6 DEF HalfDeleted

\* What each call makes of a session.
LEMMA SessionCalls ==
    ASSUME NEW s, SessionOK(s), NEW c \in Contents
    PROVE  /\ SessionOK(RolledBack(s)) /\ SessionOK(Committed(s)) /\ SessionOK(Begun(s))
           /\ SessionOK(Wrote(s, c)) /\ SessionOK(Failed(s, c))
<1>1. /\ s.tx \in BOOLEAN /\ s.broken \in BOOLEAN /\ s.now \in Contents /\ s.kept \in Contents
      /\ ~s.tx => s.now = s.kept
      BY DEF SessionOK, Session
<1>2. ASSUME NEW d \in Contents PROVE SessionOK(NewSession(d))
      BY <1>2 DEF SessionOK, Session, NewSession
<1>3. SessionOK(RolledBack(s)) /\ SessionOK(Committed(s))
      BY <1>1, <1>2 DEF RolledBack, Committed
<1>4. SessionOK(Begun(s))
  <2>1. s \in Session => Begun(s) \in Session /\ Begun(s).tx
        BY DEF Begun, Session
  <2> QED  BY <2>1 DEF SessionOK
<1>5. SessionOK(Wrote(s, c))
  <2>1. s \in Session => /\ Wrote(s, c) \in Session /\ Wrote(s, c).tx = s.tx
                         /\ Wrote(s, c).now = c
                         /\ Wrote(s, c).kept = IF s.tx THEN s.kept ELSE c
        BY DEF Wrote, Session
  <2> QED  BY <2>1 DEF SessionOK
<1>6. SessionOK(Failed(s, c))
  <2>1. s \in Session /\ s.tx => Failed(s, c) \in Session /\ Failed(s, c).tx
        BY DEF Failed, Session
  <2>2. ~s.tx => Failed(s, c) = s
        BY DEF Failed
  <2> QED  BY <1>1, <2>1, <2>2 DEF SessionOK
<1> QED  BY <1>3, <1>4, <1>5, <1>6

\* A step that changes one of the two sessions.
LEMMA OneSession ==
    ASSUME NEW d, DbOK(d), NEW n \in {"src", "dst"}, NEW s, SessionOK(s),
           NEW e, e = [d EXCEPT ![n] = s]
    PROVE  DbOK(e) /\ e[n] = s /\ \A k \in {"src", "dst"} \ {n} : e[k] = d[k]
BY DEF DbOK, SessionOK

----------------------------------------------------------------------------
(***************************************************************************)
(* Types.                                                                   *)
(***************************************************************************)

\* The phases of each command; a file is read only while there is one, and
\* only a move lists messages to delete.
Phase ==
    /\ pc = "read" \/ (pc = "flush" /\ cmd = "load") => fileno <= Len(files)
    /\ pc \in {"open", "read"} => cmd = "load"
    /\ pc = "fetch" => cmd # "load"
    /\ pc = "item" => cmd \notin {"load", "delete"}
    /\ pc \in {"track", "rest"} => cmd = "move"
    /\ pc = "erase" => cmd = "delete"
    /\ pc = "flush" => cmd \notin Readers
    /\ cmd # "move" => delete_tbl = <<>>
TypeInv == TypeOK /\ Phase

\* What may fail.
Faults == \/ NoFault \/ IgnoredFault("begin") \/ IgnoredFault("commit")
          \/ \E kind \in FaultKinds : Fault(kind)
FaultsOK == faults \in 0..MaxFaults /\ ignored \subseteq {"begin", "commit"}

LEMMA FaultsCounted ==
    ASSUME FaultsOK, Faults
    PROVE  FaultsOK'
<1>1. CASE NoFault
      BY <1>1 DEF NoFault, faultVars, FaultsOK
<1>2. ASSUME NEW kind \in {"begin", "commit"}, IgnoredFault(kind) PROVE FaultsOK'
  <2>1. faults' \in 0..MaxFaults
        BY <1>2, EnvironmentAssumption DEF IgnoredFault, Occurs, FaultsOK
  <2>2. ignored' \subseteq {"begin", "commit"}
        BY <1>2 DEF IgnoredFault, FaultsOK
  <2> QED  BY <2>1, <2>2 DEF FaultsOK
<1>3. ASSUME NEW kind, Fault(kind) PROVE FaultsOK'
      BY <1>3, EnvironmentAssumption DEF Fault, Occurs, FaultsOK
<1> QED  BY <1>1, <1>2, <1>3 DEF Faults

\* The part of the types a step on the databases can disturb, and the rest.
LocalsOK ==
    /\ opt \in CommandLine /\ origin \in Nat /\ arrived \in NumMsgs..MaxMsgs
    /\ pc \in {"start", "fetch", "item", "track", "flush", "rest", "erase",
               "open", "read", "end", "done"}
    /\ ret \in {0, -1}
    /\ limit_copy \in Int /\ offset_copy \in Nat
    /\ cur_count \in Nat /\ event_no \in Nat
    /\ idents \in Seq(Msgs) /\ ident_idx \in 1..(Len(idents) + 1)
    /\ delete_tbl \in Seq(Msgs) /\ fileno \in 1..(Len(files) + 1)
    /\ output \in Seq(Msgs) /\ missed \subseteq Msgs
    /\ stop_processing \in BOOLEAN

LEMMA TypeParts == TypeInv <=> DbOK(db) /\ LocalsOK /\ FaultsOK /\ Phase
<1>1. DbOK(db) <=> /\ db \in [{"src", "dst"} -> Session]
                   /\ \A d \in {"src", "dst"} : ~db[d].tx => db[d].now = db[d].kept
      BY DEF DbOK, SessionOK
<1> QED  BY <1>1 DEF TypeInv, TypeOK, LocalsOK, FaultsOK

LEMMA TypeNext ==
    ASSUME DbOK(db'), LocalsOK', FaultsOK', Phase'
    PROVE  TypeInv'
<1>1. /\ db' \in [{"src", "dst"} -> Session]
      /\ \A d \in {"src", "dst"} : ~db'[d].tx => db'[d].now = db'[d].kept
      BY DEF DbOK, SessionOK
<1> QED  BY <1>1 DEF TypeInv, TypeOK, LocalsOK, FaultsOK

LEMMA InitType ==
    ASSUME Init
    PROVE  TypeInv
<1>1. [i \in 1..NumMsgs |-> i] \in Seq(Msgs)
      BY MessagesAssumption DEF Msgs
<1>2. SessionOK(NewSession(Empty))
      BY DEF SessionOK, NewSession, Session, Empty, Contents
<1>3. SessionOK(NewSession([Empty EXCEPT !.msgs = [i \in 1..NumMsgs |-> i]]))
  <2>1. [Empty EXCEPT !.msgs = [i \in 1..NumMsgs |-> i]] \in Contents
        BY <1>1 DEF Empty, Contents
  <2> QED  BY <2>1 DEF SessionOK, NewSession, Session
<1>4. DbOK(db)
  <2>1. PICK a, b : db = [src |-> a, dst |-> b] /\ SessionOK(a) /\ SessionOK(b)
        BY <1>2, <1>3 DEF Init
  <2> QED  BY <2>1 DEF DbOK, SessionOK
<1>5. opt \in CommandLine
      BY OptionsAssumption DEF Init
<1>6. opt.limit \in Int /\ opt.offset \in Nat /\ Len(files) \in Nat
      BY <1>5 DEF CommandLine, files
<1>7. LocalsOK
  <2>1. /\ idents \in Seq(Msgs) /\ ident_idx \in 1..(Len(idents) + 1)
        /\ delete_tbl \in Seq(Msgs) /\ output \in Seq(Msgs)
        BY DEF Init
  <2>2. /\ origin \in Nat /\ arrived \in NumMsgs..MaxMsgs /\ limit_copy \in Int
        /\ fileno \in 1..(Len(files) + 1)
        BY <1>6, MessagesAssumption DEF Init
  <2> QED  BY <1>5, <2>1, <2>2 DEF Init, LocalsOK
<1>8. FaultsOK /\ Phase
      BY EnvironmentAssumption DEF Init, FaultsOK, Phase
<1> QED  BY <1>4, <1>7, <1>8, TypeParts

\* Starting and flushing a transaction.
LEMMA TargetDb == Target \in {"src", "dst"}
BY DEF Target

LEMMA EndThenStartDb ==
    ASSUME DbOK(db), EndThenStart
    PROVE  DbOK(db') /\ Faults
<1>1. SessionOK(db[Target])
      BY TargetDb DEF DbOK
<1>2. PICK s : SessionOK(s) /\ db' = [db EXCEPT ![Target] = s]
  <2>1. /\ SessionOK(Begun(Committed(db[Target]))) /\ SessionOK(Begun(RolledBack(db[Target])))
        /\ SessionOK(Committed(db[Target]))
        BY <1>1, SessionCalls DEF SessionOK, Session
  <2> QED  BY <2>1, Zenon DEF EndThenStart
<1>3. DbOK(db')
      BY <1>2, TargetDb, OneSession
<1>4. Faults
      BY Zenon DEF EndThenStart, Faults
<1> QED  BY <1>3, <1>4

LEMMA FlushDb ==
    ASSUME DbOK(db), NEW i \in Nat, cur_count \in Nat, event_no \in Nat, FlushIfNeeded(i)
    PROVE  DbOK(db') /\ Faults /\ cur_count' \in Nat /\ event_no' \in Nat
<1>1. CASE EndThenStart /\ cur_count' = cur_count + event_no + i /\ event_no' = 0
      BY <1>1, EndThenStartDb
<1>2. CASE /\ event_no' = IF ept > 0 THEN event_no + i ELSE event_no
           /\ UNCHANGED <<cur_count, db, faultVars>>
      BY <1>2 DEF Faults, NoFault
<1> QED  BY <1>1, <1>2 DEF FlushIfNeeded

\* One lemma per group of actions: each keeps the types.
LEMMA StartType ==
    ASSUME TypeInv, Start
    PROVE  TypeInv'
<1>1. DbOK(db) /\ LocalsOK /\ FaultsOK
      BY TypeParts
<1>2. DbOK(db') /\ Faults
  <2>1. SessionOK(db[Target])
        BY <1>1, TargetDb DEF DbOK
  <2>2. CASE NoFault /\ db' = [db EXCEPT ![Target] = Begun(@)]
    <3>1. SessionOK(Begun(db[Target]))
          BY <2>1, SessionCalls DEF SessionOK, Session
    <3> QED  BY <1>1, <2>2, <3>1, TargetDb, OneSession DEF Faults
  <2>3. CASE UNCHANGED db /\ Faults
        BY <1>1, <2>3
  <2>4. \/ NoFault /\ db' = [db EXCEPT ![Target] = Begun(@)]
        \/ UNCHANGED db /\ Faults
        BY Zenon DEF Start, Faults, NoFault, faultVars
  <2> QED  BY <2>2, <2>3, <2>4
<1>3. FaultsOK'
      BY <1>1, <1>2, FaultsCounted
<1>4. LocalsOK'
      BY <1>1 DEF Start, LocalsOK, countVars, batchVars, outVars, envVars, files
<1>5. Phase'
      BY TypeParts DEF Start, Phase, cmd, batchVars
<1> QED  BY <1>2, <1>3, <1>4, <1>5, TypeNext

LEMMA MinOfTwo ==
    ASSUME NEW a \in Int, NEW b \in Int
    PROVE  Min({a, b}) = IF a <= b THEN a ELSE b
<1> DEFINE m == IF a <= b THEN a ELSE b
<1>1. m \in {a, b} /\ \A y \in {a, b} : m <= y
      OBVIOUS
<1>2. \A x \in {a, b} : (\A y \in {a, b} : x <= y) => x = m
      OBVIOUS
<1> HIDE DEF m
<1>3. Min({a, b}) = m
      BY <1>1, <1>2 DEF Min
<1> QED  BY <1>3 DEF m

\* The batch: messages of the source the criteria select, no more of them
\* than the transactions and --count let through.
LEMMA BatchType ==
    ASSUME TypeInv
    PROVE  /\ Batch \in Seq(Msgs) /\ Len(Batch) \in Nat
           /\ ToSet(Batch) \subseteq ToSet(db["src"].now.msgs) \cap Matching
           /\ Batch # <<>> => Len(Batch) <= LocalLimit
           /\ FetchOffset \in Nat /\ LocalLimit \in Int
           /\ \A m \in ToSet(Batch) :
                 \E p \in 1..Len(Selected(db["src"].now.msgs)) :
                    /\ m = Selected(db["src"].now.msgs)[p]
                    /\ FetchOffset < p /\ p <= FetchOffset + LocalLimit
<1> DEFINE all == Selected(db["src"].now.msgs)
           n == Min({Len(all), FetchOffset + LocalLimit})
<1>1. db["src"].now.msgs \in Seq(Msgs)
      BY DEF TypeInv, TypeOK, Session, Contents
<1>2. all \in Seq(Msgs) /\ ToSet(all) = ToSet(db["src"].now.msgs) \cap Matching
      BY <1>1, PickedMembers DEF Selected
<1>3. FetchOffset \in Nat /\ LocalLimit \in Int
  <2>1. /\ opt.offset \in Nat /\ opt.ept \in Nat /\ cur_count \in Nat /\ limit_copy \in Int
        BY DEF TypeInv, TypeOK, CommandLine
  <2>2. Min({ept, limit_copy}) \in Int
        BY <2>1, MinOfTwo DEF ept
  <2> QED  BY <2>1, <2>2 DEF FetchOffset, LocalLimit, ept
<1>4. n \in Int /\ n <= Len(all) /\ n <= FetchOffset + LocalLimit
      BY <1>2, <1>3, MinOfTwo
<1>5. Batch = SubSeq(all, FetchOffset + 1, n)
      BY DEF Batch
<1> HIDE DEF all, n
<1>6. \A i \in (FetchOffset + 1)..n : all[i] \in Msgs /\ all[i] \in ToSet(all)
      BY <1>2, <1>3, <1>4 DEF ToSet
<1>7. /\ SubSeq(all, FetchOffset + 1, n) \in Seq(Msgs)
      /\ Len(SubSeq(all, FetchOffset + 1, n))
             = IF FetchOffset + 1 <= n THEN n - FetchOffset ELSE 0
      /\ \A i \in 1..(n - FetchOffset) :
             SubSeq(all, FetchOffset + 1, n)[i] = all[FetchOffset + i]
      BY <1>2, <1>3, <1>4, <1>6, SubSeqProperties
<1>8. /\ ToSet(Batch) \subseteq ToSet(all)
      /\ \A m \in ToSet(Batch) : \E p \in 1..Len(all) :
            m = all[p] /\ FetchOffset < p /\ p <= FetchOffset + LocalLimit
  <2> SUFFICES ASSUME NEW m \in ToSet(Batch)
               PROVE  /\ m \in ToSet(all)
                      /\ \E p \in 1..Len(all) : /\ m = all[p] /\ FetchOffset < p
                                                /\ p <= FetchOffset + LocalLimit
      OBVIOUS
  <2> PICK i \in 1..Len(Batch) : m = Batch[i]
      BY DEF ToSet
  <2>1. i \in 1..(n - FetchOffset) /\ FetchOffset + i \in (FetchOffset + 1)..n
        BY <1>3, <1>4, <1>5, <1>7
  <2>2. Batch[i] = all[FetchOffset + i] /\ Batch[i] \in ToSet(all)
        BY <1>5, <1>6, <1>7, <2>1
  <2>3. /\ FetchOffset + i \in 1..Len(all) /\ FetchOffset < FetchOffset + i
        /\ FetchOffset + i <= FetchOffset + LocalLimit
    <3>1. Len(all) \in Nat
          BY <1>2
    <3> QED  BY <1>3, <1>4, <2>1, <3>1
  <2> QED  BY <2>2, <2>3
<1>9. Len(Batch) \in Nat /\ (Batch # <<>> => Len(Batch) <= LocalLimit)
      BY <1>3, <1>4, <1>5, <1>7
<1> QED  BY <1>2, <1>3, <1>5, <1>7, <1>8, <1>9 DEF all

LEMMA FetchType ==
    ASSUME TypeInv, Fetch
    PROVE  TypeInv'
<1>1. DbOK(db) /\ LocalsOK /\ FaultsOK
      BY TypeParts
<1>2. db' = db /\ Faults
  <2>1. db' = db
        BY Zenon DEF Fetch
  <2>2. NoFault \/ Fault("fetch")
        BY Zenon DEF Fetch
  <2> QED  BY <2>1, <2>2 DEF Faults, Fault, Occurs
<1>3. FaultsOK'
      BY <1>1, <1>2, FaultsCounted
<1>4. /\ pc' \in {"end", "erase", "item"} /\ ret' \in {0, -1, ret}
      /\ \/ UNCHANGED <<idents, ident_idx, limit_copy>>
         \/ /\ idents' = Batch /\ ident_idx' = 1
            /\ limit_copy' = IF limit_copy > 0 THEN limit_copy - Len(Batch) ELSE limit_copy
      /\ UNCHANGED <<opt, origin, arrived, offset_copy, cur_count, event_no, delete_tbl,
                     fileno, output, missed, stop_processing>>
      BY DEF Fetch, outVars, envVars
<1>5. /\ idents' \in Seq(Msgs) /\ ident_idx' \in 1..(Len(idents') + 1)
      /\ limit_copy' \in Int
      BY <1>1, <1>4, BatchType DEF LocalsOK
<1>6. LocalsOK'
      BY <1>1, <1>4, <1>5 DEF LocalsOK, files
<1>7. Phase'
  <2>1. /\ pc = "fetch" /\ (pc' = "end" \/ (pc' = IF cmd = "delete" THEN "erase" ELSE "item"))
        BY Zenon DEF Fetch
  <2>2. cmd' = cmd /\ delete_tbl' = delete_tbl
        BY <1>4 DEF cmd
  <2> QED  BY <2>1, <2>2, TypeParts DEF Phase
<1> QED  BY <1>1, <1>2, <1>3, <1>6, <1>7, TypeNext

LEMMA LoopOnType ==
    ASSUME NEW r, LoopOn(r)
    PROVE  ret' = r /\ pc' \in {"fetch", "end"}
BY DEF LoopOn

LEMMA FlushType ==
    ASSUME TypeInv, Flush
    PROVE  TypeInv'
<1>1. DbOK(db) /\ LocalsOK /\ FaultsOK /\ Phase
      BY TypeParts
<1>2. /\ pc = "flush"
      /\ FlushIfNeeded(IF cmd = "delete" THEN Len(idents) ELSE 1)
      /\ \/ cmd = "delete" /\ ret' = ret /\ pc' \in {"fetch", "end"}
         \/ cmd = "load" /\ pc' = "read" /\ ret' = ret
         \/ cmd \notin {"load", "delete"} /\ pc' = "item" /\ ret' = ret
      /\ UNCHANGED <<opt, origin, arrived, limit_copy, offset_copy, idents, ident_idx,
                     delete_tbl, fileno, output, missed, stop_processing>>
  <2>1. /\ pc = "flush" /\ FlushIfNeeded(IF cmd = "delete" THEN Len(idents) ELSE 1)
        /\ UNCHANGED <<opt, origin, arrived, limit_copy, offset_copy, idents, ident_idx,
                       delete_tbl, fileno, output, missed, stop_processing>>
        BY Zenon DEF Flush, batchVars, outVars, envVars
  <2>2. \/ cmd = "delete" /\ LoopOn(ret)
        \/ cmd = "load" /\ pc' = "read" /\ UNCHANGED ret
        \/ cmd \notin {"load", "delete"} /\ pc' = "item" /\ UNCHANGED ret
        BY DEF Flush
  <2> QED  BY <2>1, <2>2, LoopOnType
<1>3. DbOK(db') /\ Faults /\ cur_count' \in Nat /\ event_no' \in Nat
  <2>1. (IF cmd = "delete" THEN Len(idents) ELSE 1) \in Nat
        BY <1>1 DEF LocalsOK
  <2> QED  BY <1>1, <1>2, <2>1, FlushDb DEF LocalsOK
<1>4. FaultsOK'
      BY <1>1, <1>3, FaultsCounted
<1>5. LocalsOK'
      BY <1>1, <1>2, <1>3 DEF LocalsOK, files
<1>6. Phase'
      BY <1>1, <1>2 DEF Phase, files, cmd, Readers
<1> QED  BY <1>3, <1>4, <1>5, <1>6, TypeNext

\* A call on one database that writes contents, writes some and fails, or
\* does nothing.
Calls(n) ==
    \/ db' = db
    \/ \E c \in Contents : \/ db' = [db EXCEPT ![n] = Wrote(db[n], c)]
                           \/ db' = [db EXCEPT ![n] = Failed(db[n], c)]
LEMMA CallsDb ==
    ASSUME DbOK(db), NEW n \in {"src", "dst"}, Calls(n)
    PROVE  DbOK(db')
<1>1. CASE db' = db
      BY <1>1
<1>2. ASSUME NEW c \in Contents, NEW s, s = Wrote(db[n], c) \/ s = Failed(db[n], c),
             db' = [db EXCEPT ![n] = s]
      PROVE  DbOK(db')
  <2>1. SessionOK(s)
        BY <1>2, SessionCalls DEF DbOK
  <2> QED  BY <1>2, <2>1, OneSession
<1> QED  BY <1>1, <1>2 DEF Calls

LEMMA ContentsOf ==
    ASSUME TypeInv, NEW n \in {"src", "dst"}
    PROVE  db[n] \in Session /\ db[n].now \in Contents /\ db[n].kept \in Contents
BY DEF TypeInv, TypeOK, Session

LEMMA CurrentIdent ==
    ASSUME TypeInv, ident_idx <= Len(idents)
    PROVE  /\ ident_idx \in 1..Len(idents) /\ idents[ident_idx] \in Msgs
           /\ ident_idx + 1 \in 1..(Len(idents) + 1)
BY DEF TypeInv, TypeOK

LEMMA CopyMessageType ==
    ASSUME TypeInv, CopyMessage
    PROVE  TypeInv'
<1>1. DbOK(db) /\ LocalsOK /\ FaultsOK /\ Phase
      BY TypeParts
<1> DEFINE m == idents[ident_idx]
           dst == db["dst"]
<1>2. /\ ident_idx <= Len(idents) /\ ident_idx' = ident_idx + 1
      /\ pc' \in {"track", "flush", "end"} /\ ret' \in {ret, -1}
      /\ delete_tbl' \in {delete_tbl, Append(delete_tbl, m)}
      /\ UNCHANGED <<opt, origin, arrived, limit_copy, offset_copy, cur_count, event_no,
                     idents, fileno, output, missed, stop_processing>>
      BY DEF CopyMessage, countVars, outVars, envVars
<1>3. /\ NoFault \/ Fault("get") \/ Fault("insert")
      /\ \/ db' = db
         \/ db' = [db EXCEPT !["dst"] = Wrote(dst, With(dst.now, m))]
         \/ db' = [db EXCEPT !["dst"] = Failed(dst, Torn(dst.now, {m}))]
      BY Zenon DEF CopyMessage
<1>4. m \in Msgs /\ ident_idx + 1 \in 1..(Len(idents) + 1)
      BY <1>2, CurrentIdent
<1>5. With(dst.now, m) \in Contents /\ Torn(dst.now, {m}) \in Contents
      BY <1>4, ContentsOf, ContentsWritten
<1>6. DbOK(db')
  <2>1. Calls("dst")
        BY <1>3, <1>5, Zenon DEF Calls
  <2> QED  BY <1>1, <2>1, CallsDb
<1>7. FaultsOK'
  <2>1. Faults
        BY <1>3 DEF Faults, Fault, Occurs
  <2> QED  BY <1>1, <2>1, FaultsCounted
<1>8. LocalsOK'
  <2> HIDE DEF m, dst
  <2>1. delete_tbl' \in Seq(Msgs)
    <3>1. delete_tbl \in Seq(Msgs)
          BY <1>1, Zenon DEF LocalsOK
    <3>2. Append(delete_tbl, m) \in Seq(Msgs)
          BY <1>4, <3>1
    <3>3. delete_tbl' = delete_tbl \/ delete_tbl' = Append(delete_tbl, m)
          BY <1>2, Zenon
    <3> QED  BY <3>1, <3>2, <3>3, Zenon
  <2> QED  BY <1>1, <1>2, <1>4, <2>1 DEF LocalsOK, files
<1>9. Phase'
  <2>1. /\ cmd \in {"copy", "move"} /\ cmd' = cmd
        /\ pc' = "track" => cmd = "move"
        /\ cmd # "move" => delete_tbl' = delete_tbl
        BY <1>2 DEF CopyMessage, Copying, cmd
  <2> QED  BY <1>1, <1>2, <2>1 DEF Phase, Readers
<1> QED  BY <1>6, <1>7, <1>8, <1>9, TypeNext

\* Deleting what has been copied: a call on the source.
LEMMA DeleteCopiedDb ==
    ASSUME TypeInv, DeleteCopied
    PROVE  Calls("src")
<1>1. ToSet(delete_tbl) \in SUBSET Msgs
      BY DEF TypeInv, TypeOK, ToSet
<1>2. Without(db["src"].now, ToSet(delete_tbl)) \in Contents
  <2>1. db["src"].now \in Contents
        BY ContentsOf
  <2> QED  BY <1>1, <2>1, ContentsWritten
<1>3. db' = [db EXCEPT !["src"] = Wrote(@, Without(@.now, ToSet(delete_tbl)))]
      BY Zenon DEF DeleteCopied
<1> QED  BY <1>2, <1>3, Zenon DEF Calls

LEMMA TrackDeletionType ==
    ASSUME TypeInv, TrackDeletion
    PROVE  TypeInv'
<1>1. DbOK(db) /\ LocalsOK /\ FaultsOK /\ Phase
      BY TypeParts
<1>2. /\ pc = "track" /\ pc' \in {"flush", "item"}
      /\ delete_tbl' \in {delete_tbl, <<>>}
      /\ faultVars' = faultVars \/ NoFault \/ Fault("delete")
      /\ db' = db \/ DeleteCopied
      /\ UNCHANGED <<opt, origin, ret, arrived, limit_copy, offset_copy, cur_count, event_no,
                     idents, ident_idx, fileno, output, missed, stop_processing>>
      BY DEF TrackDeletion, countVars, outVars, envVars
<1>3. DbOK(db')
      BY <1>1, <1>2, DeleteCopiedDb, CallsDb
<1>4. FaultsOK'
  <2>1. Faults
        BY <1>2 DEF Faults, Fault, Occurs, NoFault
  <2> QED  BY <1>1, <2>1, FaultsCounted
<1>5. LocalsOK'
  <2>1. delete_tbl \in Seq(Msgs) /\ <<>> \in Seq(Msgs)
        BY <1>1 DEF LocalsOK
  <2>2. delete_tbl' = delete_tbl \/ delete_tbl' = <<>>
        BY <1>2
  <2>3. delete_tbl' \in Seq(Msgs)
        BY <2>1, <2>2
  <2> QED  BY <1>1, <1>2, <2>3 DEF LocalsOK, files
<1>6. Phase'
      BY <1>1, <1>2 DEF Phase, cmd, Readers
<1> QED  BY <1>3, <1>4, <1>5, <1>6, TypeNext

\* The batch up to the ident that could not be taken.
LEMMA GivenUp ==
    ASSUME TypeInv
    PROVE  /\ SubSeq(idents, 1, ident_idx - 1) \in Seq(Msgs)
           /\ Len(SubSeq(idents, 1, ident_idx - 1)) = ident_idx - 1
           /\ \A k \in 1..(ident_idx - 1) :
                  SubSeq(idents, 1, ident_idx - 1)[k] = idents[k]
BY DEF TypeInv, TypeOK

LEMMA IdentFailsType ==
    ASSUME TypeInv, IdentFails
    PROVE  TypeInv'
<1>1. DbOK(db) /\ LocalsOK /\ FaultsOK /\ Phase
      BY TypeParts
<1>2. /\ pc = "item" /\ Fault("ident")
      /\ \/ /\ cmd \in {"copy", "move"} /\ ret' = -1 /\ pc' = "item"
            /\ idents' = SubSeq(idents, 1, ident_idx - 1)
         \/ /\ cmd \in Readers /\ ret' \in {0, -1} /\ pc' \in {"fetch", "end"}
            /\ idents' = idents
      /\ UNCHANGED <<opt, origin, db, arrived, limit_copy, offset_copy, cur_count, event_no,
                     ident_idx, delete_tbl, fileno, output, missed, stop_processing>>
      BY LoopOnType, Zenon DEF IdentFails, Copying, countVars, outVars, envVars
<1>3. FaultsOK'
  <2>1. Faults
        BY <1>2 DEF Faults, Fault, Occurs
  <2> QED  BY <1>1, <2>1, FaultsCounted
<1>4. idents' \in Seq(Msgs) /\ ident_idx \in 1..(Len(idents') + 1)
  <2>1. ident_idx \in 1..(Len(idents) + 1) /\ idents \in Seq(Msgs)
        BY <1>1 DEF LocalsOK
  <2>2. CASE idents' = SubSeq(idents, 1, ident_idx - 1)
        BY <2>1, <2>2, GivenUp
  <2> QED  BY <1>2, <2>1, <2>2
<1>5. LocalsOK'
      BY <1>1, <1>2, <1>4 DEF LocalsOK, files
<1>6. Phase'
      BY <1>1, <1>2 DEF Phase, cmd, Readers
<1> QED  BY <1>1, <1>2, <1>3, <1>5, <1>6, TypeNext

LEMMA EndOfBatchType ==
    ASSUME TypeInv, EndOfBatch
    PROVE  TypeInv'
<1>1. DbOK(db) /\ LocalsOK /\ FaultsOK /\ Phase
      BY TypeParts
<1>2. /\ cmd \in {"copy", "move"} /\ FlushIfNeeded(0)
      /\ \/ delete_tbl # <<>> /\ pc' = "rest" /\ ret' = ret
         \/ pc' \in {"fetch", "end"} /\ ret' = ret
      /\ UNCHANGED <<opt, origin, arrived, limit_copy, offset_copy, idents, ident_idx,
                     delete_tbl, fileno, output, missed, stop_processing>>
      BY LoopOnType DEF EndOfBatch, Copying, batchVars, outVars, envVars
<1>3. DbOK(db') /\ Faults /\ cur_count' \in Nat /\ event_no' \in Nat
      BY <1>1, <1>2, FlushDb DEF LocalsOK
<1>4. FaultsOK'
      BY <1>1, <1>3, FaultsCounted
<1>5. LocalsOK'
      BY <1>1, <1>2, <1>3 DEF LocalsOK, files
<1>6. Phase'
      BY <1>1, <1>2 DEF Phase, cmd
<1> QED  BY <1>3, <1>4, <1>5, <1>6, TypeNext

LEMMA DeleteRestType ==
    ASSUME TypeInv, DeleteRest
    PROVE  TypeInv'
<1>1. DbOK(db) /\ LocalsOK /\ FaultsOK /\ Phase
      BY TypeParts
<1>2. /\ pc = "rest" /\ pc' \in {"fetch", "end"} /\ ret' \in {ret, -1} /\ delete_tbl' = <<>>
      /\ NoFault \/ Fault("delete")
      /\ db' = db \/ DeleteCopied
      /\ UNCHANGED <<opt, origin, arrived, limit_copy, offset_copy, cur_count, event_no,
                     idents, ident_idx, fileno, output, missed, stop_processing>>
      BY LoopOnType DEF DeleteRest, countVars, outVars, envVars
<1>3. DbOK(db')
      BY <1>1, <1>2, DeleteCopiedDb, CallsDb
<1>4. FaultsOK'
  <2>1. Faults
        BY <1>2 DEF Faults, Fault, Occurs
  <2> QED  BY <1>1, <2>1, FaultsCounted
<1>5. LocalsOK'
      BY <1>1, <1>2 DEF LocalsOK, files
<1>6. Phase'
      BY <1>1, <1>2 DEF Phase, cmd
<1> QED  BY <1>3, <1>4, <1>5, <1>6, TypeNext

LEMMA EraseType ==
    ASSUME TypeInv, Erase
    PROVE  TypeInv'
<1>1. DbOK(db) /\ LocalsOK /\ FaultsOK /\ Phase
      BY TypeParts
<1> DEFINE c == db["src"].now
           ms == ToSet(idents)
<1>2. /\ pc = "erase" /\ pc' = "flush" /\ ret' \in {0, -1}
      /\ UNCHANGED <<opt, origin, arrived, limit_copy, offset_copy, cur_count, event_no,
                     idents, ident_idx, delete_tbl, fileno, output, missed, stop_processing>>
      BY DEF Erase, countVars, batchVars, outVars, envVars
<1>3. /\ NoFault \/ Fault("delete")
      /\ \/ db' = [db EXCEPT !["src"] = Wrote(db["src"], Without(c, ms))]
         \/ \E d \in HalfDeleted(c, ms) : db' = [db EXCEPT !["src"] = Failed(db["src"], d)]
      BY Zenon DEF Erase
<1>4. c \in Contents /\ ms \in SUBSET Msgs
      BY ContentsOf DEF TypeInv, TypeOK, ToSet
<1>5. Without(c, ms) \in Contents /\ HalfDeleted(c, ms) \subseteq Contents
      BY <1>4, ContentsWritten
<1>6. DbOK(db')
  <2>1. Calls("src")
        BY <1>3, <1>5, Zenon DEF Calls
  <2> QED  BY <1>1, <2>1, CallsDb
<1>7. FaultsOK'
  <2>1. Faults
        BY <1>3 DEF Faults, Fault, Occurs
  <2> QED  BY <1>1, <2>1, FaultsCounted
<1>8. LocalsOK'
      BY <1>1, <1>2 DEF LocalsOK, files
<1>9. Phase'
      BY <1>1, <1>2 DEF Phase, cmd, Readers
<1> QED  BY <1>6, <1>7, <1>8, <1>9, TypeNext

LEMMA EmitType ==
    ASSUME TypeInv, Emit
    PROVE  TypeInv'
<1>1. DbOK(db) /\ LocalsOK /\ FaultsOK /\ Phase
      BY TypeParts
<1> DEFINE m == idents[ident_idx]
<1>2. /\ cmd \in Readers /\ pc' \in {"item", "fetch", "end"} /\ ret' \in {0, -1, ret}
      /\ UNCHANGED <<opt, origin, arrived, db, limit_copy, offset_copy, event_no, idents,
                     delete_tbl, fileno, stop_processing>>
      BY LoopOnType DEF Emit, envVars
<1>3. \/ UNCHANGED <<output, missed, cur_count, ident_idx, faultVars>>
      \/ /\ ident_idx <= Len(idents) /\ ident_idx' = ident_idx + 1
         /\ NoFault \/ Fault("get") \/ Fault("write")
         /\ output' = output \/ output' = Append(output, m)
         /\ missed' = missed \/ missed' = missed \cup {m}
         /\ cur_count' = cur_count \/ cur_count' = cur_count + 1
  <2>1. CASE stop_processing \/ ident_idx > Len(idents)
        BY <2>1, Zenon DEF Emit
  <2>2. CASE ~(stop_processing \/ ident_idx > Len(idents))
    <3>1. ident_idx <= Len(idents)
          BY <1>1, <2>2 DEF LocalsOK
    <3>2. /\ ident_idx' = ident_idx + 1
          /\ NoFault \/ Fault("get") \/ Fault("write")
          /\ output' = output \/ output' = Append(output, m)
          /\ missed' = missed \/ missed' = missed \cup {m}
          /\ cur_count' = cur_count \/ cur_count' = cur_count + 1
          BY <2>2, Zenon DEF Emit
    <3> QED  BY <3>1, <3>2
  <2> QED  BY <2>1, <2>2
<1>4. FaultsOK'
  <2>1. Faults
        BY <1>3 DEF Faults, Fault, Occurs, NoFault
  <2> QED  BY <1>1, <2>1, FaultsCounted
<1>5. LocalsOK'
  <2>1. ident_idx <= Len(idents) =>
            m \in Msgs /\ ident_idx + 1 \in 1..(Len(idents) + 1)
        BY CurrentIdent
  <2> HIDE DEF m
  <2>2. /\ output \in Seq(Msgs) /\ missed \subseteq Msgs /\ cur_count \in Nat
        /\ ident_idx \in 1..(Len(idents) + 1)
        BY <1>1 DEF LocalsOK
  <2>3. output' \in Seq(Msgs)
        BY <1>3, <2>1, <2>2
  <2>4. missed' \subseteq Msgs
        BY <1>3, <2>1, <2>2
  <2>5. cur_count' \in Nat /\ ident_idx' \in 1..(Len(idents) + 1)
        BY <1>3, <2>1, <2>2
  <2> QED  BY <1>1, <1>2, <2>3, <2>4, <2>5 DEF LocalsOK, files
<1>6. Phase'
      BY <1>1, <1>2 DEF Phase, cmd, Readers
<1> QED  BY <1>1, <1>2, <1>4, <1>5, <1>6, TypeNext

\* The file that is open, or the next one.
LEMMA FilesType ==
    ASSUME LocalsOK
    PROVE  /\ Len(files) \in Nat
           /\ \A i \in 1..Len(files) : files[i] \in Seq(Msgs)
<1>1. opt.files \in Seq(Seq(Msgs))
      BY DEF LocalsOK, CommandLine
<1> QED  BY <1>1 DEF files

LEMMA OpenFileType ==
    ASSUME TypeInv, OpenFile
    PROVE  TypeInv'
<1>1. DbOK(db) /\ LocalsOK /\ FaultsOK /\ Phase
      BY TypeParts
<1>2. /\ pc = "open" /\ fileno <= Len(files)
      /\ UNCHANGED <<opt, origin, arrived, limit_copy, cur_count, event_no,
                     delete_tbl, fileno, output, missed, stop_processing>>
      BY DEF OpenFile, outVars, envVars
<1>3. \/ /\ NoFault /\ idents' = files[fileno] /\ ident_idx' = 1
         /\ offset_copy' = opt.offset /\ pc' = "read" /\ UNCHANGED <<ret, db>>
      \/ /\ Fault("open") /\ ret' = -1 /\ pc' = "done"
         /\ db' = [db EXCEPT !["dst"] = RolledBack(db["dst"])]
         /\ UNCHANGED <<idents, ident_idx, offset_copy>>
      BY Zenon DEF OpenFile
<1>4. DbOK(db')
  <2>1. SessionOK(RolledBack(db["dst"]))
    <3>1. SessionOK(db["dst"]) /\ db["dst"].now \in Contents
          BY <1>1, ContentsOf DEF DbOK
    <3> QED  BY <3>1, SessionCalls
  <2>2. db' = db \/ db' = [db EXCEPT !["dst"] = RolledBack(db["dst"])]
        BY <1>3
  <2> QED  BY <1>1, <2>1, <2>2, OneSession
<1>5. FaultsOK'
  <2>1. Faults
        BY <1>3 DEF Faults, Fault, Occurs
  <2> QED  BY <1>1, <2>1, FaultsCounted
<1>6. LocalsOK'
  <2>1. files[fileno] \in Seq(Msgs) /\ opt.offset \in Nat
    <3>1. fileno \in 1..Len(files)
          BY <1>1, <1>2, FilesType DEF LocalsOK
    <3> QED  BY <1>1, <3>1, FilesType DEF LocalsOK, CommandLine
  <2>2. /\ idents \in Seq(Msgs) /\ ident_idx \in 1..(Len(idents) + 1) /\ offset_copy \in Nat
        /\ ret \in {0, -1}
        BY <1>1 DEF LocalsOK
  <2>3. /\ idents' \in Seq(Msgs) /\ ident_idx' \in 1..(Len(idents') + 1)
        /\ offset_copy' \in Nat /\ ret' \in {0, -1} /\ pc' \in {"read", "done"}
        BY <1>3, <2>1, <2>2
  <2> QED  BY <1>1, <1>2, <2>3 DEF LocalsOK, files
<1>7. Phase'
      BY <1>1, <1>2, <1>3 DEF Phase, cmd, files
<1> QED  BY <1>4, <1>5, <1>6, <1>7, TypeNext

LEMMA ReadType ==
    ASSUME TypeInv, NoMoreFiles \/ EndOfFile \/ SkipMessage
    PROVE  TypeInv'
<1>1. DbOK(db) /\ LocalsOK /\ FaultsOK /\ Phase
      BY TypeParts
<1>2. /\ UNCHANGED <<opt, origin, db, arrived, limit_copy, cur_count, event_no, idents,
                     delete_tbl, output, missed, stop_processing, faults, ignored>>
      /\ \/ pc = "open" /\ pc' = "end" /\ UNCHANGED <<ret, offset_copy, ident_idx, fileno>>
         \/ /\ pc = "read" /\ pc' = "open" /\ ret' = 0 /\ fileno' = fileno + 1
            /\ UNCHANGED <<offset_copy, ident_idx>>
         \/ /\ pc = "read" /\ pc' = pc /\ UNCHANGED <<ret, fileno>>
            /\ ident_idx <= Len(idents) /\ offset_copy > 0
            /\ offset_copy' = offset_copy - 1 /\ ident_idx' = ident_idx + 1
      BY DEF NoMoreFiles, EndOfFile, SkipMessage, countVars, batchVars, outVars, envVars,
             faultVars
<1>3. FaultsOK'
      BY <1>1, <1>2 DEF FaultsOK
<1>4. LocalsOK'
  <2>1. /\ ident_idx \in 1..(Len(idents) + 1) /\ Len(idents) \in Nat /\ offset_copy \in Nat
        /\ fileno \in 1..(Len(files) + 1) /\ Len(files) \in Nat
        BY <1>1, FilesType DEF LocalsOK
  <2>2. pc = "read" => fileno <= Len(files)
        BY <1>1 DEF Phase
  <2>3. /\ ident_idx' \in 1..(Len(idents) + 1) /\ offset_copy' \in Nat
        /\ fileno' \in 1..(Len(files) + 1)
        BY <1>2, <2>1, <2>2
  <2>4. ret' \in {0, ret} /\ pc' \in {"end", "open", pc}
        BY <1>2
  <2> QED  BY <1>1, <1>2, <2>3, <2>4 DEF LocalsOK, files
<1>5. Phase'
      BY <1>1, <1>2 DEF Phase, cmd, files
<1> QED  BY <1>1, <1>2, <1>3, <1>4, <1>5, TypeNext

LEMMA LoadMessageType ==
    ASSUME TypeInv, LoadMessage
    PROVE  TypeInv'
<1>1. DbOK(db) /\ LocalsOK /\ FaultsOK /\ Phase
      BY TypeParts
<1> DEFINE m == idents[ident_idx]
           dst == db["dst"]
<1>2. /\ pc = "read" /\ ident_idx <= Len(idents) /\ ident_idx' = ident_idx + 1
      /\ pc' \in {"flush", "end"} /\ ret' \in {ret, -1}
      /\ UNCHANGED <<opt, origin, arrived, limit_copy, offset_copy, cur_count, event_no,
                     idents, delete_tbl, fileno, output, missed, stop_processing>>
      BY DEF LoadMessage, countVars, outVars, envVars
<1>3. /\ NoFault \/ Fault("decode") \/ Fault("insert")
      /\ \/ db' = db
         \/ db' = [db EXCEPT !["dst"] = Wrote(dst, With(dst.now, m))]
         \/ db' = [db EXCEPT !["dst"] = Failed(dst, Torn(dst.now, {m}))]
      BY Zenon DEF LoadMessage
<1>4. m \in Msgs /\ ident_idx + 1 \in 1..(Len(idents) + 1)
      BY <1>2, CurrentIdent
<1>5. With(dst.now, m) \in Contents /\ Torn(dst.now, {m}) \in Contents
      BY <1>4, ContentsOf, ContentsWritten
<1>6. DbOK(db')
  <2>1. Calls("dst")
        BY <1>3, <1>5, Zenon DEF Calls
  <2> QED  BY <1>1, <2>1, CallsDb
<1>7. FaultsOK'
  <2>1. Faults
        BY <1>3 DEF Faults, Fault, Occurs
  <2> QED  BY <1>1, <2>1, FaultsCounted
<1> HIDE DEF m, dst
<1>8. LocalsOK'
      BY <1>1, <1>2, <1>4 DEF LocalsOK, files
<1>9. Phase'
      BY <1>1, <1>2 DEF Phase, cmd, files, Readers
<1> QED  BY <1>6, <1>7, <1>8, <1>9, TypeNext

LEMMA FinishType ==
    ASSUME TypeInv, Finish
    PROVE  TypeInv'
<1>1. DbOK(db) /\ LocalsOK /\ FaultsOK /\ Phase
      BY TypeParts
<1>2. /\ pc' = "done" /\ cur_count' \in {cur_count, cur_count + event_no}
      /\ NoFault \/ IgnoredFault("commit")
      /\ \/ db' = [db EXCEPT ![Target] = Committed(db[Target])]
         \/ db' = [db EXCEPT ![Target] = RolledBack(db[Target])]
      /\ UNCHANGED <<opt, origin, arrived, ret, limit_copy, offset_copy, event_no, idents,
                     ident_idx, delete_tbl, fileno, output, missed, stop_processing>>
  <2>1. /\ pc' = "done" /\ (cur_count' = cur_count \/ cur_count' = cur_count + event_no)
        /\ NoFault \/ IgnoredFault("commit")
        /\ \/ db' = [db EXCEPT ![Target] = Committed(db[Target])]
           \/ db' = [db EXCEPT ![Target] = RolledBack(db[Target])]
        /\ UNCHANGED <<opt, origin, arrived, ret, limit_copy, offset_copy, event_no, idents,
                       ident_idx, delete_tbl, fileno, output, missed, stop_processing>>
        BY Zenon DEF Finish, batchVars, outVars, envVars
  <2> QED  BY <2>1
<1>3. DbOK(db')
  <2>1. SessionOK(db[Target]) /\ db[Target].now \in Contents
        BY <1>1, TargetDb, ContentsOf DEF DbOK
  <2>2. SessionOK(Committed(db[Target])) /\ SessionOK(RolledBack(db[Target]))
        BY <2>1, SessionCalls
  <2> QED  BY <1>1, <1>2, <2>2, TargetDb, OneSession
<1>4. FaultsOK'
  <2>1. Faults
        BY <1>2 DEF Faults
  <2> QED  BY <1>1, <2>1, FaultsCounted
<1>5. LocalsOK'
      BY <1>1, <1>2 DEF LocalsOK, files
<1>6. Phase'
      BY <1>1, <1>2 DEF Phase, cmd
<1> QED  BY <1>3, <1>4, <1>5, <1>6, TypeNext

LEMMA ResumeType ==
    ASSUME TypeInv, Resume
    PROVE  TypeInv'
<1>1. DbOK(db) /\ LocalsOK /\ FaultsOK /\ Phase
      BY TypeParts
<1>2. opt \in CommandLine /\ cur_count \in Nat
      BY <1>1 DEF LocalsOK
<1>3. /\ opt' \in CommandLine /\ opt'.files = opt.files /\ opt.limit \in Int
  <2>1. opt' = [opt EXCEPT !.offset = @ + cur_count]
        BY Zenon DEF Resume
  <2>2. opt.offset + cur_count \in Nat
        BY <1>2 DEF CommandLine
  <2> QED  BY <1>2, <2>1, <2>2 DEF CommandLine
<1>4. /\ pc' = "start" /\ ret' = 0 /\ limit_copy' = opt.limit /\ offset_copy' = 0
      /\ cur_count' = 0 /\ event_no' = 0 /\ idents' = <<>> /\ ident_idx' = 1
      /\ delete_tbl' = <<>> /\ fileno' = 1 /\ stop_processing' = FALSE
      /\ UNCHANGED <<origin, db, arrived, output, missed, faults, ignored>>
      BY Zenon DEF Resume, outVars, faultVars
<1>5. FaultsOK'
      BY <1>1, <1>4 DEF FaultsOK
<1>6. LocalsOK'
  <2>1. /\ idents' \in Seq(Msgs) /\ ident_idx' \in 1..(Len(idents') + 1)
        /\ delete_tbl' \in Seq(Msgs)
        BY <1>4
  <2>2. fileno' \in 1..(Len(files') + 1)
        BY <1>1, <1>3, <1>4, FilesType DEF files
  <2> QED  BY <1>1, <1>3, <1>4, <2>1, <2>2 DEF LocalsOK
<1>7. Phase'
      BY <1>4 DEF Phase
<1> QED  BY <1>1, <1>4, <1>5, <1>6, <1>7, TypeNext

LEMMA SignalType ==
    ASSUME TypeInv, Signal
    PROVE  TypeInv'
<1>1. DbOK(db) /\ LocalsOK /\ FaultsOK /\ Phase
      BY TypeParts
<1>2. /\ Fault("signal") /\ stop_processing' = TRUE
      /\ UNCHANGED <<opt, origin, db, arrived, pc, ret, limit_copy, offset_copy, cur_count,
                     event_no, idents, ident_idx, delete_tbl, fileno, output, missed>>
      BY Zenon DEF Signal, countVars, batchVars, outVars
<1>3. FaultsOK'
  <2>1. Faults
        BY <1>2 DEF Faults, Fault, Occurs
  <2> QED  BY <1>1, <2>1, FaultsCounted
<1>4. LocalsOK'
      BY <1>1, <1>2 DEF LocalsOK, files
<1>5. Phase'
      BY <1>1, <1>2 DEF Phase, cmd, files
<1> QED  BY <1>1, <1>2, <1>3, <1>4, <1>5, TypeNext

\* What an arrival makes of the source.
ArrivedIn(s) == [s EXCEPT !.now = With(@, arrived + 1), !.kept = With(@, arrived + 1)]
LEMMA ArrivedSession ==
    ASSUME NEW s, SessionOK(s), arrived + 1 \in Msgs
    PROVE  /\ SessionOK(ArrivedIn(s)) /\ ArrivedIn(s).now = With(s.now, arrived + 1)
           /\ ArrivedIn(s).kept = With(s.kept, arrived + 1)
           /\ ArrivedIn(s).tx = s.tx
<1>1. s \in Session /\ s.now \in Contents /\ s.kept \in Contents
      BY DEF SessionOK, Session
<1>2. With(s.now, arrived + 1) \in Contents /\ With(s.kept, arrived + 1) \in Contents
      BY <1>1, ContentsWritten
<1>3. /\ ArrivedIn(s).now = With(s.now, arrived + 1) /\ ArrivedIn(s).tx = s.tx
      /\ ArrivedIn(s).kept = With(s.kept, arrived + 1)
      BY <1>1 DEF ArrivedIn, Session
<1>4. ArrivedIn(s) \in Session
      BY <1>1, <1>2 DEF ArrivedIn, Session
<1> QED  BY <1>3, <1>4 DEF SessionOK

LEMMA ArriveDb ==
    ASSUME TypeInv, Arrive
    PROVE  /\ arrived' = arrived + 1 /\ arrived + 1 \in Msgs
           /\ db' = [db EXCEPT !["src"] = ArrivedIn(db["src"])]
<1>1. arrived' = arrived + 1 /\ arrived + 1 \in Msgs
      BY MessagesAssumption DEF Arrive, Msgs, TypeInv, TypeOK
<1>2. db' = [db EXCEPT !["src"].now = With(@, arrived'), !["src"].kept = With(@, arrived')]
      BY Zenon DEF Arrive
<1>3. db \in [{"src", "dst"} -> Session]
      BY DEF TypeInv, TypeOK
<1>4. [db EXCEPT !["src"].now = With(@, arrived'), !["src"].kept = With(@, arrived')]
          = [db EXCEPT !["src"] = [db["src"] EXCEPT !.now = With(@, arrived'),
                                                    !.kept = With(@, arrived')]]
      BY <1>3 DEF Session
<1> QED  BY <1>1, <1>2, <1>4 DEF ArrivedIn

LEMMA ArriveType ==
    ASSUME TypeInv, Arrive
    PROVE  TypeInv'
<1>1. DbOK(db) /\ LocalsOK /\ FaultsOK /\ Phase
      BY TypeParts
<1>2. /\ arrived' = arrived + 1 /\ arrived < MaxMsgs
      /\ UNCHANGED <<opt, origin, pc, ret, limit_copy, offset_copy, cur_count, event_no, idents,
                     ident_idx, delete_tbl, fileno, output, missed, stop_processing, faults,
                     ignored>>
      BY Zenon DEF Arrive, countVars, batchVars, outVars, faultVars
<1>3. DbOK(db')
  <2>1. SessionOK(ArrivedIn(db["src"]))
        BY <1>1, ArriveDb, ArrivedSession DEF DbOK
  <2> QED  BY <1>1, <2>1, ArriveDb, OneSession
<1>4. FaultsOK'
      BY <1>1, <1>2 DEF FaultsOK
<1>5. LocalsOK'
      BY <1>1, <1>2, MessagesAssumption DEF LocalsOK, files
<1>6. Phase'
      BY <1>1, <1>2 DEF Phase, cmd, files
<1> QED  BY <1>3, <1>4, <1>5, <1>6, TypeNext

LEMMA TypeStep ==
    ASSUME TypeInv, [Next]_vars
    PROVE  TypeInv'
<1>1. CASE UNCHANGED vars
  <2>1. UNCHANGED <<opt, origin, db, arrived, pc, ret, limit_copy, offset_copy, cur_count,
                    event_no, idents, ident_idx, delete_tbl, fileno, output, missed,
                    stop_processing, faults, ignored>>
        BY <1>1, Zenon DEF vars, countVars, batchVars, outVars, envVars, faultVars
  <2>2. DbOK(db') /\ LocalsOK' /\ FaultsOK' /\ Phase'
        BY <2>1, TypeParts DEF LocalsOK, FaultsOK, Phase, files, cmd
  <2> QED  BY <2>2, TypeNext
<1>2. CASE Step
      BY <1>2, StartType, FetchType, FlushType, CopyMessageType, TrackDeletionType,
         IdentFailsType, EndOfBatchType, DeleteRestType, EraseType, EmitType, OpenFileType, ReadType,
         LoadMessageType, FinishType, Zenon DEF Step
<1> QED  BY <1>1, <1>2, ResumeType, SignalType, ArriveType, Zenon DEF Next

\* Types of the state of every command.
THEOREM TypeCorrect == Spec => []TypeOK
<1>1. Init => TypeInv
      BY InitType
<1>2. TypeInv /\ [Next]_vars => TypeInv'
      BY TypeStep
<1>3. TypeInv => TypeOK
      BY DEF TypeInv
<1> QED  BY <1>1, <1>2, <1>3, PTL DEF Spec

----------------------------------------------------------------------------
(***************************************************************************)
(* What the actions do to the two sessions, src and dst below, and to the   *)
(* variables the invariants relate.                                         *)
(***************************************************************************)
src == db["src"]
dst == db["dst"]
OnlyDst(s) == dst' = s /\ src' = src
OnlySrc(s) == src' = s /\ dst' = dst

\* The fields of a session after each call.
LEMMA SessionFields ==
    ASSUME NEW s \in Session, NEW c \in Contents
    PROVE  /\ Begun(s).now = s.now /\ Begun(s).kept = s.kept
           /\ Begun(s).tx /\ ~Begun(s).broken
           /\ RolledBack(s).now = s.kept /\ RolledBack(s).kept = s.kept
           /\ ~RolledBack(s).tx /\ ~RolledBack(s).broken
           /\ Committed(s).now = (IF s.broken /\ Dooming THEN s.kept ELSE s.now)
           /\ Committed(s).kept = Committed(s).now
           /\ ~Committed(s).tx /\ ~Committed(s).broken
           /\ Wrote(s, c).now = c /\ Wrote(s, c).kept = (IF s.tx THEN s.kept ELSE c)
           /\ Wrote(s, c).tx = s.tx /\ Wrote(s, c).broken = s.broken
<1>1. /\ RolledBack(s).now = s.kept /\ RolledBack(s).kept = s.kept
      /\ ~RolledBack(s).tx /\ ~RolledBack(s).broken
      BY DEF RolledBack, NewSession
<1>2. /\ Committed(s).now = (IF s.broken /\ Dooming THEN s.kept ELSE s.now)
      /\ Committed(s).kept = Committed(s).now
      /\ ~Committed(s).tx /\ ~Committed(s).broken
      BY DEF Committed, RolledBack, NewSession
<1>3. Begun(s).now = s.now /\ Begun(s).kept = s.kept /\ Begun(s).tx /\ ~Begun(s).broken
      BY DEF Begun, Session
<1>4. /\ Wrote(s, c).now = c /\ Wrote(s, c).kept = (IF s.tx THEN s.kept ELSE c)
      /\ Wrote(s, c).tx = s.tx /\ Wrote(s, c).broken = s.broken
      BY DEF Wrote, Session
<1> QED  BY <1>1, <1>2, <1>3, <1>4

LEMMA FailedFields ==
    ASSUME NEW s \in Session, NEW c \in Contents
    PROVE  /\ Failed(s, c).kept = s.kept /\ Failed(s, c).tx = s.tx
           /\ s.tx => Failed(s, c).now = c /\ Failed(s, c).broken
           /\ ~s.tx => Failed(s, c) = s
<1>1. s.tx => /\ Failed(s, c).kept = s.kept /\ Failed(s, c).tx = s.tx
              /\ Failed(s, c).now = c /\ Failed(s, c).broken
      BY DEF Failed, Session
<1>2. ~s.tx => Failed(s, c) = s
      BY DEF Failed
<1> QED  BY <1>1, <1>2

\* A change of one session leaves the other alone.
LEMMA DstChanged ==
    ASSUME TypeInv, NEW s, db' = [db EXCEPT !["dst"] = s]
    PROVE  OnlyDst(s)
BY DEF TypeInv, TypeOK, OnlyDst, dst, src
LEMMA SrcChanged ==
    ASSUME TypeInv, NEW s, db' = [db EXCEPT !["src"] = s]
    PROVE  OnlySrc(s)
BY DEF TypeInv, TypeOK, OnlySrc, dst, src
LEMMA TargetChanged ==
    ASSUME TypeInv, NEW s, db' = [db EXCEPT ![Target] = s]
    PROVE  /\ cmd = "delete" => OnlySrc(s)
           /\ cmd # "delete" => OnlyDst(s)
<1>1. CASE cmd = "delete"
      BY <1>1, SrcChanged DEF Target
<1>2. CASE cmd # "delete"
      BY <1>2, DstChanged DEF Target
<1> QED  BY <1>1, <1>2

SameCommand == UNCHANGED <<opt, origin, arrived>>
LEMMA SameParts ==
    ASSUME SameCommand
    PROVE  cmd' = cmd /\ ept' = ept /\ files' = files
BY DEF SameCommand, cmd, ept, files

LEMMA StartFacts ==
    ASSUME TypeInv, Start
    PROVE  /\ pc = "start" /\ pc' = (IF cmd = "load" THEN "open" ELSE "fetch")
           /\ \/ db' = db
              \/ cmd = "delete" /\ OnlySrc(Begun(src))
              \/ cmd \in Inserting /\ ept > 1 /\ OnlyDst(Begun(dst))
           /\ ignored \subseteq ignored' /\ SameCommand
           /\ UNCHANGED <<ret, limit_copy, offset_copy, cur_count, event_no, idents, ident_idx,
                          delete_tbl, fileno, output, stop_processing>>
<1>1. /\ pc = "start" /\ pc' = (IF cmd = "load" THEN "open" ELSE "fetch")
      /\ SameCommand
      /\ UNCHANGED <<ret, limit_copy, offset_copy, cur_count, event_no, idents, ident_idx,
                     delete_tbl, fileno, output, stop_processing>>
      BY Zenon DEF Start, SameCommand, countVars, batchVars, outVars, envVars
<1>2. ignored \subseteq ignored'
      BY DEF Start, NoFault, IgnoredFault, faultVars
<1>3. \/ db' = db
      \/ cmd \notin Readers /\ ept > 1 /\ db' = [db EXCEPT ![Target] = Begun(db[Target])]
      BY Zenon DEF Start
<1>4. cmd \in Command
      BY DEF TypeInv, TypeOK, CommandLine, cmd
<1>5. cmd \notin Readers /\ db' = [db EXCEPT ![Target] = Begun(db[Target])] =>
          \/ cmd = "delete" /\ OnlySrc(Begun(src))
          \/ cmd \in Inserting /\ OnlyDst(Begun(dst))
      BY <1>4, TargetChanged DEF Command, Target, src, dst
<1> QED  BY <1>1, <1>2, <1>3, <1>5

LEMMA FetchFacts ==
    ASSUME TypeInv, Fetch
    PROVE  /\ pc = "fetch" /\ db' = db /\ ignored' = ignored /\ SameCommand
           /\ UNCHANGED <<offset_copy, cur_count, event_no, delete_tbl, fileno, output,
                          stop_processing>>
           /\ \/ pc' = "end" /\ UNCHANGED <<idents, ident_idx, limit_copy>>
              \/ /\ Batch # <<>> /\ idents' = Batch /\ ident_idx' = 1
                 /\ limit_copy' = (IF limit_copy > 0 THEN limit_copy - Len(Batch) ELSE limit_copy)
                 /\ pc' = (IF cmd = "delete" THEN "erase" ELSE "item") /\ ret' = ret
<1>1. /\ pc = "fetch" /\ db' = db /\ SameCommand
      /\ UNCHANGED <<offset_copy, cur_count, event_no, delete_tbl, fileno, output,
                     stop_processing>>
      BY Zenon DEF Fetch, SameCommand, outVars, envVars
<1>2. /\ NoFault \/ Fault("fetch")
      /\ \/ pc' = "end" /\ UNCHANGED <<idents, ident_idx, limit_copy>>
         \/ /\ Batch # <<>> /\ idents' = Batch /\ ident_idx' = 1
            /\ limit_copy' = (IF limit_copy > 0 THEN limit_copy - Len(Batch) ELSE limit_copy)
            /\ pc' = (IF cmd = "delete" THEN "erase" ELSE "item") /\ ret' = ret
      BY Zenon DEF Fetch
<1>3. ignored' = ignored
      BY <1>2, Zenon DEF NoFault, Fault, faultVars
<1> QED  BY <1>1, <1>2, <1>3

\* The transaction around a session that flush_transaction_if_needed ends and
\* begins again.
Renewed(s, t) ==
    \/ t = Begun(Committed(s))
    \/ t = Begun(RolledBack(s)) /\ "commit" \in ignored'
    \/ t = Committed(s)
FlushIsDue(i) == ept > 0 /\ (event_no + i >= ept \/ (i = 0 /\ event_no > 0))
Flushed(i) ==
    /\ FlushIsDue(i) /\ cur_count' = cur_count + event_no + i /\ event_no' = 0
    /\ cmd = "delete" => Renewed(src, src') /\ dst' = dst
    /\ cmd # "delete" => Renewed(dst, dst') /\ src' = src
NotFlushed(i) ==
    /\ ~FlushIsDue(i) /\ db' = db /\ cur_count' = cur_count
    /\ event_no' = IF ept > 0 THEN event_no + i ELSE event_no

LEMMA FlushFacts ==
    ASSUME TypeInv, NEW i \in Nat, FlushIfNeeded(i)
    PROVE  (Flushed(i) \/ NotFlushed(i)) /\ ignored \subseteq ignored'
<1>1. event_no \in Nat /\ cur_count \in Nat
      BY DEF TypeInv, TypeOK
<1>2. CASE FlushIsDue(i)
  <2>1. EndThenStart /\ cur_count' = cur_count + event_no + i /\ event_no' = 0
        BY <1>1, <1>2 DEF FlushIfNeeded, FlushIsDue
  <2>2. /\ NoFault \/ IgnoredFault("commit") \/ IgnoredFault("begin")
        /\ \/ db' = [db EXCEPT ![Target] = Begun(Committed(db[Target]))]
           \/ /\ IgnoredFault("commit")
              /\ db' = [db EXCEPT ![Target] = Begun(RolledBack(db[Target]))]
           \/ db' = [db EXCEPT ![Target] = Committed(db[Target])]
        BY <2>1, Zenon DEF EndThenStart
  <2>3. ignored \subseteq ignored' /\ (IgnoredFault("commit") => "commit" \in ignored')
        BY <2>2 DEF NoFault, IgnoredFault, faultVars
  <2>4. PICK s : db' = [db EXCEPT ![Target] = s] /\ Renewed(db[Target], s)
        BY <2>2, <2>3, Zenon DEF Renewed
  <2>5. /\ cmd = "delete" => Renewed(src, src') /\ dst' = dst
        /\ cmd # "delete" => Renewed(dst, dst') /\ src' = src
        BY <2>4, TargetChanged, Zenon DEF Target, src, dst, OnlySrc, OnlyDst
  <2> QED  BY <1>2, <2>1, <2>3, <2>5 DEF Flushed
<1>3. CASE ~FlushIsDue(i)
  <2>1. /\ event_no' = (IF ept > 0 THEN event_no + i ELSE event_no)
        /\ UNCHANGED <<cur_count, db, faultVars>>
        BY <1>1, <1>3 DEF FlushIfNeeded, FlushIsDue
  <2> QED  BY <1>3, <2>1 DEF NotFlushed, faultVars
<1> QED  BY <1>2, <1>3

\* The flush after a message or a batch, and where the command goes on.
Increment == IF cmd = "delete" THEN Len(idents) ELSE 1
LEMMA FlushActionFacts ==
    ASSUME TypeInv, Flush
    PROVE  /\ pc = "flush" /\ Increment \in Nat
           /\ Flushed(Increment) \/ NotFlushed(Increment)
           /\ ignored \subseteq ignored' /\ SameCommand /\ ret' = ret
           /\ cmd = "delete" => pc' \in {"fetch", "end"} /\ (pc' = "fetch" => ret >= 0)
           /\ cmd = "load" => pc' = "read"
           /\ cmd \notin {"delete", "load"} => pc' = "item"
           /\ UNCHANGED <<limit_copy, offset_copy, idents, ident_idx, delete_tbl, fileno,
                          output, stop_processing>>
<1>1. Increment \in Nat
      BY DEF Increment, TypeInv, TypeOK
<1>2. /\ pc = "flush" /\ FlushIfNeeded(Increment) /\ SameCommand
      /\ UNCHANGED <<limit_copy, offset_copy, idents, ident_idx, delete_tbl, fileno,
                     output, stop_processing>>
      BY Zenon DEF Flush, Increment, SameCommand, batchVars, outVars, envVars
<1>3. \/ cmd = "delete" /\ LoopOn(ret)
      \/ cmd = "load" /\ pc' = "read" /\ ret' = ret
      \/ cmd \notin {"load", "delete"} /\ pc' = "item" /\ ret' = ret
      BY DEF Flush
<1>4. LoopOn(ret) => ret' = ret /\ pc' \in {"fetch", "end"} /\ (pc' = "fetch" => ret >= 0)
      BY DEF LoopOn
<1> QED  BY <1>1, <1>2, <1>3, <1>4, FlushFacts

LEMMA CopyMessageFacts ==
    ASSUME TypeInv, CopyMessage
    PROVE  /\ pc = "item" /\ cmd \in {"copy", "move"} /\ ident_idx <= Len(idents)
           /\ idents[ident_idx] \in Msgs /\ ident_idx' = ident_idx + 1
           /\ \/ /\ OnlyDst(Wrote(dst, With(dst.now, idents[ident_idx]))) /\ ret' = ret
                 /\ \/ /\ cmd = "move" /\ pc' = "track"
                       /\ delete_tbl' = Append(delete_tbl, idents[ident_idx])
                    \/ cmd = "copy" /\ pc' = "flush" /\ delete_tbl' = delete_tbl
              \/ db' = db /\ ret' = -1 /\ pc' = "end" /\ delete_tbl' = delete_tbl
              \/ /\ OnlyDst(Failed(dst, Torn(dst.now, {idents[ident_idx]})))
                 /\ ret' = -1 /\ pc' = "end" /\ delete_tbl' = delete_tbl
           /\ ignored' = ignored /\ SameCommand
           /\ UNCHANGED <<limit_copy, offset_copy, cur_count, event_no, idents, fileno,
                          output, stop_processing>>
<1>1. /\ pc = "item" /\ Copying /\ ident_idx <= Len(idents) /\ ident_idx' = ident_idx + 1
      /\ SameCommand
      /\ UNCHANGED <<limit_copy, offset_copy, cur_count, event_no, idents, fileno, output,
                     stop_processing>>
      BY Zenon DEF CopyMessage, SameCommand, countVars, outVars, envVars
<1>2. idents[ident_idx] \in Msgs
      BY <1>1, CurrentIdent
<1>3. /\ NoFault \/ Fault("get") \/ Fault("insert")
      /\ \/ /\ db' = [db EXCEPT !["dst"] = Wrote(dst, With(dst.now, idents[ident_idx]))]
            /\ delete_tbl' = (IF cmd = "move" THEN Append(delete_tbl, idents[ident_idx])
                                              ELSE delete_tbl)
            /\ pc' = (IF cmd = "move" THEN "track" ELSE "flush") /\ ret' = ret
         \/ db' = db /\ ret' = -1 /\ pc' = "end" /\ delete_tbl' = delete_tbl
         \/ /\ db' = [db EXCEPT !["dst"] = Failed(dst, Torn(dst.now, {idents[ident_idx]}))]
            /\ ret' = -1 /\ pc' = "end" /\ delete_tbl' = delete_tbl
      BY Zenon DEF CopyMessage, dst
<1>4. ignored' = ignored
      BY <1>3, Zenon DEF NoFault, Fault, faultVars
<1>5. cmd \in {"copy", "move"}
      BY <1>1 DEF Copying
<1>6. \A s : db' = [db EXCEPT !["dst"] = s] => OnlyDst(s)
      BY DstChanged
<1> QED  BY <1>1, <1>2, <1>3, <1>4, <1>5, <1>6

\* What a deletion of the messages listed makes of the source.
Deleted == OnlySrc(Wrote(src, Without(src.now, ToSet(delete_tbl))))
LEMMA DeletedFacts ==
    ASSUME TypeInv, DeleteCopied
    PROVE  Deleted
BY SrcChanged, Zenon DEF DeleteCopied, Deleted, src

LEMMA TrackDeletionFacts ==
    ASSUME TypeInv, TrackDeletion
    PROVE  /\ pc = "track"
           /\ \/ /\ ~(ept > 0 /\ event_no >= ept) /\ Len(delete_tbl) < DeleteTblSize
                 /\ pc' = "flush" /\ db' = db /\ delete_tbl' = delete_tbl
              \/ /\ (ept > 0 /\ event_no >= ept) \/ Len(delete_tbl) >= DeleteTblSize
                 /\ \/ Deleted /\ delete_tbl' = <<>> /\ pc' = "flush"
                    \/ db' = db /\ delete_tbl' = delete_tbl /\ pc' = "item"
           /\ ignored' = ignored /\ SameCommand
           /\ UNCHANGED <<ret, limit_copy, offset_copy, cur_count, event_no, idents, ident_idx,
                          fileno, output, stop_processing>>
<1>1. /\ pc = "track" /\ SameCommand
      /\ UNCHANGED <<ret, limit_copy, offset_copy, cur_count, event_no, idents, ident_idx,
                     fileno, output, stop_processing>>
      BY Zenon DEF TrackDeletion, SameCommand, countVars, outVars, envVars
<1>2. /\ UNCHANGED faultVars \/ NoFault \/ Fault("delete")
      /\ \/ /\ ~(ept > 0 /\ event_no >= ept) /\ Len(delete_tbl) < DeleteTblSize
            /\ pc' = "flush" /\ db' = db /\ delete_tbl' = delete_tbl
         \/ /\ (ept > 0 /\ event_no >= ept) \/ Len(delete_tbl) >= DeleteTblSize
            /\ \/ DeleteCopied /\ delete_tbl' = <<>> /\ pc' = "flush"
               \/ db' = db /\ delete_tbl' = delete_tbl /\ pc' = "item"
      BY Zenon DEF TrackDeletion
<1>3. ignored' = ignored
      BY <1>2, Zenon DEF NoFault, Fault, faultVars
<1> QED  BY <1>1, <1>2, <1>3, DeletedFacts

\* Of the batch what was gone past is left, or a reader goes on without it.
Stopped(n) == /\ idents' \in Seq(Msgs) /\ Len(idents') = n
              /\ \A k \in 1..n : idents'[k] = idents[k]
LEMMA IdentFailsFacts ==
    ASSUME TypeInv, IdentFails
    PROVE  /\ pc = "item" /\ ret = 0 /\ db' = db
           /\ \/ /\ cmd \in {"copy", "move"} /\ ret' = -1 /\ pc' = "item"
                 /\ Stopped(ident_idx - 1)
              \/ /\ cmd \in Readers /\ idents' = idents
                 /\ \/ cmd = "save" /\ ret' = 0 /\ pc' \in {"fetch", "end"}
                    \/ ret' = -1 /\ pc' = "end"
           /\ ~stop_processing \/ cmd \notin Readers
           /\ ignored' = ignored /\ SameCommand
           /\ UNCHANGED <<limit_copy, offset_copy, cur_count, event_no, ident_idx,
                          delete_tbl, fileno, output, missed, stop_processing>>
<1>1. /\ pc = "item" /\ db' = db /\ ret >= 0 /\ Fault("ident") /\ SameCommand
      /\ UNCHANGED <<limit_copy, offset_copy, cur_count, event_no, ident_idx, delete_tbl,
                     fileno, output, missed, stop_processing>>
      BY Zenon DEF IdentFails, SameCommand, countVars, outVars, envVars
<1>2. \/ /\ Copying /\ ret' = -1 /\ pc' = pc
         /\ idents' = SubSeq(idents, 1, ident_idx - 1)
      \/ /\ cmd \in Readers /\ ~stop_processing /\ idents' = idents
         /\ LoopOn(IF cmd = "save" THEN 0 ELSE -1)
      BY Zenon DEF IdentFails
<1>3. ret = 0 /\ ignored' = ignored
      BY <1>1 DEF TypeInv, TypeOK, Fault
<1>4. CASE /\ Copying /\ ret' = -1 /\ pc' = pc
           /\ idents' = SubSeq(idents, 1, ident_idx - 1)
  <2>1. cmd \in {"copy", "move"} /\ cmd \notin Readers
        BY <1>4 DEF Copying, Readers
  <2>2. Stopped(ident_idx - 1)
        BY <1>4, GivenUp DEF Stopped
  <2> QED  BY <1>1, <1>3, <1>4, <2>1, <2>2
<1>5. CASE /\ cmd \in Readers /\ ~stop_processing /\ idents' = idents
           /\ LoopOn(IF cmd = "save" THEN 0 ELSE -1)
  <2>1. CASE cmd = "save"
        BY <1>1, <1>3, <1>5, <2>1, LoopOnType
  <2>2. CASE cmd # "save"
        BY <1>1, <1>3, <1>5, <2>2 DEF LoopOn
  <2> QED  BY <2>1, <2>2
<1> QED  BY <1>2, <1>4, <1>5

LEMMA EndOfBatchFacts ==
    ASSUME TypeInv, EndOfBatch
    PROVE  /\ pc = "item" /\ cmd \in {"copy", "move"} /\ ident_idx > Len(idents)
           /\ Flushed(0) \/ NotFlushed(0)
           /\ \/ delete_tbl # <<>> /\ pc' = "rest" /\ ret' = ret
              \/ /\ delete_tbl = <<>> /\ pc' \in {"fetch", "end"} /\ ret' = ret
                 /\ pc' = "fetch" => ret = 0
           /\ ignored \subseteq ignored' /\ SameCommand
           /\ UNCHANGED <<limit_copy, offset_copy, idents, ident_idx, delete_tbl, fileno,
                          output, stop_processing>>
<1>1. /\ pc = "item" /\ Copying /\ ident_idx > Len(idents) /\ FlushIfNeeded(0) /\ SameCommand
      /\ UNCHANGED <<limit_copy, offset_copy, idents, ident_idx, delete_tbl, fileno,
                     output, stop_processing>>
      BY Zenon DEF EndOfBatch, SameCommand, batchVars, outVars, envVars
<1>2. \/ delete_tbl # <<>> /\ pc' = "rest" /\ ret' = ret
      \/ delete_tbl = <<>> /\ LoopOn(ret)
      BY Zenon DEF EndOfBatch
<1>3. LoopOn(ret) => ret' = ret /\ pc' \in {"fetch", "end"} /\ (pc' = "fetch" => ret = 0)
      BY DEF LoopOn, TypeInv, TypeOK
<1> QED  BY <1>1, <1>2, <1>3, FlushFacts DEF Copying

LEMMA DeleteRestFacts ==
    ASSUME TypeInv, DeleteRest
    PROVE  /\ pc = "rest" /\ delete_tbl' = <<>>
           /\ \/ /\ Deleted /\ pc' \in {"fetch", "end"} /\ ret' = ret
                 /\ pc' = "fetch" => ret = 0
              \/ db' = db /\ pc' = "end" /\ ret' = -1
           /\ ignored' = ignored /\ SameCommand
           /\ UNCHANGED <<limit_copy, offset_copy, cur_count, event_no, idents, ident_idx,
                          fileno, output, stop_processing>>
<1>1. /\ pc = "rest" /\ delete_tbl' = <<>> /\ SameCommand
      /\ UNCHANGED <<limit_copy, offset_copy, cur_count, event_no, idents, ident_idx,
                     fileno, output, stop_processing>>
      BY Zenon DEF DeleteRest, SameCommand, countVars, outVars, envVars
<1>2. /\ NoFault \/ Fault("delete")
      /\ \/ DeleteCopied /\ LoopOn(ret)
         \/ ret' = -1 /\ pc' = "end" /\ db' = db
      BY Zenon DEF DeleteRest
<1>3. ignored' = ignored
      BY <1>2, Zenon DEF NoFault, Fault, faultVars
<1>4. LoopOn(ret) => ret' = ret /\ pc' \in {"fetch", "end"} /\ (pc' = "fetch" => ret = 0)
      BY DEF LoopOn, TypeInv, TypeOK
<1> QED  BY <1>1, <1>2, <1>3, <1>4, DeletedFacts

LEMMA EraseFacts ==
    ASSUME TypeInv, Erase
    PROVE  /\ pc = "erase" /\ pc' = "flush"
           /\ \/ ret' = 0 /\ OnlySrc(Wrote(src, Without(src.now, ToSet(idents))))
              \/ /\ ret' = -1
                 /\ \E c \in HalfDeleted(src.now, ToSet(idents)) : OnlySrc(Failed(src, c))
           /\ ignored' = ignored /\ SameCommand
           /\ UNCHANGED <<limit_copy, offset_copy, cur_count, event_no, idents, ident_idx,
                          delete_tbl, fileno, output, stop_processing>>
<1>1. /\ pc = "erase" /\ pc' = "flush" /\ SameCommand
      /\ UNCHANGED <<limit_copy, offset_copy, cur_count, event_no, idents, ident_idx,
                     delete_tbl, fileno, output, stop_processing>>
      BY Zenon DEF Erase, SameCommand, countVars, batchVars, outVars, envVars
<1>2. /\ NoFault \/ Fault("delete")
      /\ \/ /\ ret' = 0
            /\ db' = [db EXCEPT !["src"] = Wrote(src, Without(src.now, ToSet(idents)))]
         \/ /\ ret' = -1
            /\ \E c \in HalfDeleted(src.now, ToSet(idents)) :
                   db' = [db EXCEPT !["src"] = Failed(src, c)]
      BY Zenon DEF Erase, src
<1>3. ignored' = ignored
      BY <1>2, Zenon DEF NoFault, Fault, faultVars
<1>4. \A s : db' = [db EXCEPT !["src"] = s] => OnlySrc(s)
      BY SrcChanged
<1> QED  BY <1>1, <1>2, <1>3, <1>4

LEMMA EmitFacts ==
    ASSUME TypeInv, Emit
    PROVE  /\ pc = "item" /\ cmd \in Readers /\ pc' \in {"item", "fetch", "end"} /\ db' = db
           /\ ident_idx' = ident_idx \/ ident_idx' = ident_idx + 1
           /\ pc' = "item" => ident_idx <= Len(idents) /\ ident_idx' = ident_idx + 1
           /\ output' = output \/ (pc' = "item" /\ output' = Append(output, idents[ident_idx]))
           /\ ignored' = ignored /\ SameCommand
           /\ UNCHANGED <<limit_copy, offset_copy, event_no, idents, delete_tbl, fileno,
                          stop_processing>>
<1>1. /\ pc = "item" /\ cmd \in Readers /\ db' = db /\ SameCommand
      /\ UNCHANGED <<limit_copy, offset_copy, event_no, idents, delete_tbl, fileno,
                     stop_processing>>
      BY Zenon DEF Emit, SameCommand, envVars
<1>2. CASE stop_processing \/ ident_idx > Len(idents)
  <2>1. LoopOn(0) /\ UNCHANGED <<output, ident_idx, faultVars>>
        BY <1>2, Zenon DEF Emit
  <2>2. pc' \in {"fetch", "end"}
        BY <2>1, LoopOnType
  <2>3. ignored' = ignored
        BY <2>1 DEF faultVars
  <2> QED  BY <1>1, <2>1, <2>2, <2>3
<1>3. CASE ~(stop_processing \/ ident_idx > Len(idents))
  <2>1. /\ ident_idx' = ident_idx + 1
        /\ NoFault \/ Fault("get") \/ Fault("write")
        /\ \/ output' = output /\ pc' = pc
           \/ output' = Append(output, idents[ident_idx]) /\ pc' = pc
           \/ output' = output /\ pc' = "end"
        BY <1>3, Zenon DEF Emit
  <2>2. ignored' = ignored
        BY <2>1, Zenon DEF NoFault, Fault, faultVars
  <2>3. ident_idx <= Len(idents)
        BY <1>3 DEF TypeInv, TypeOK
  <2> QED  BY <1>1, <2>1, <2>2, <2>3
<1> QED  BY <1>2, <1>3

LEMMA OpenFileFacts ==
    ASSUME TypeInv, OpenFile
    PROVE  /\ pc = "open" /\ cmd = "load"
           /\ \/ pc' = "read" /\ db' = db /\ ident_idx' = 1
              \/ OnlyDst(RolledBack(dst)) /\ ret' = -1 /\ pc' = "done"
           /\ ignored' = ignored /\ SameCommand
           /\ UNCHANGED <<limit_copy, cur_count, event_no, delete_tbl, fileno, output,
                          stop_processing>>
<1>1. /\ pc = "open" /\ SameCommand
      /\ UNCHANGED <<limit_copy, cur_count, event_no, delete_tbl, fileno, output,
                     stop_processing>>
      BY Zenon DEF OpenFile, SameCommand, outVars, envVars
<1>2. /\ NoFault \/ Fault("open")
      /\ \/ pc' = "read" /\ db' = db /\ ident_idx' = 1
         \/ ret' = -1 /\ pc' = "done" /\ db' = [db EXCEPT !["dst"] = RolledBack(dst)]
      BY Zenon DEF OpenFile, dst
<1>3. ignored' = ignored
      BY <1>2, Zenon DEF NoFault, Fault, faultVars
<1>4. cmd = "load"
      BY <1>1 DEF TypeInv, Phase
<1>5. \A s : db' = [db EXCEPT !["dst"] = s] => OnlyDst(s)
      BY DstChanged
<1> QED  BY <1>1, <1>2, <1>3, <1>4, <1>5

LEMMA ReadFacts ==
    ASSUME TypeInv, NoMoreFiles \/ EndOfFile \/ SkipMessage
    PROVE  /\ cmd = "load" /\ pc \in {"open", "read"} /\ pc' \in {"end", "open", "read"}
           /\ db' = db /\ ignored' = ignored /\ SameCommand
           /\ pc' = "end" => pc = "open" /\ ret' = ret
           /\ UNCHANGED <<limit_copy, cur_count, event_no, idents, delete_tbl, output,
                          stop_processing>>
<1>1. /\ pc \in {"open", "read"} /\ pc' \in {"end", "open", pc}
      /\ pc' = "end" => pc = "open" /\ ret' = ret
      BY DEF NoMoreFiles, EndOfFile, SkipMessage, countVars, batchVars
<1>2. /\ db' = db /\ ignored' = ignored /\ SameCommand
      /\ UNCHANGED <<limit_copy, cur_count, event_no, idents, delete_tbl, output,
                     stop_processing>>
      BY DEF NoMoreFiles, EndOfFile, SkipMessage, SameCommand, countVars, batchVars, outVars,
             envVars, faultVars
<1>3. cmd = "load"
      BY <1>1 DEF TypeInv, Phase
<1> QED  BY <1>1, <1>2, <1>3

LEMMA LoadMessageFacts ==
    ASSUME TypeInv, LoadMessage
    PROVE  /\ pc = "read" /\ cmd = "load" /\ idents[ident_idx] \in Msgs
           /\ \/ /\ pc' = "flush" /\ ret' = ret
                 /\ db' = db \/ OnlyDst(Wrote(dst, With(dst.now, idents[ident_idx])))
              \/ db' = db /\ ret' = -1 /\ pc' = "end"
              \/ /\ OnlyDst(Failed(dst, Torn(dst.now, {idents[ident_idx]})))
                 /\ ret' = -1 /\ pc' = "end"
           /\ ignored' = ignored /\ SameCommand
           /\ UNCHANGED <<limit_copy, offset_copy, cur_count, event_no, idents, delete_tbl,
                          fileno, output, stop_processing>>
<1>1. /\ pc = "read" /\ ident_idx <= Len(idents) /\ SameCommand
      /\ UNCHANGED <<limit_copy, offset_copy, cur_count, event_no, idents, delete_tbl,
                     fileno, output, stop_processing>>
      BY Zenon DEF LoadMessage, SameCommand, countVars, outVars, envVars
<1>2. idents[ident_idx] \in Msgs
      BY <1>1, CurrentIdent
<1>3. /\ NoFault \/ Fault("decode") \/ Fault("insert")
      /\ \/ /\ pc' = "flush" /\ ret' = ret
            /\ \/ db' = db
               \/ db' = [db EXCEPT !["dst"] = Wrote(dst, With(dst.now, idents[ident_idx]))]
         \/ db' = db /\ ret' = -1 /\ pc' = "end"
         \/ /\ db' = [db EXCEPT !["dst"] = Failed(dst, Torn(dst.now, {idents[ident_idx]}))]
            /\ ret' = -1 /\ pc' = "end"
      BY Zenon DEF LoadMessage, dst
<1>4. ignored' = ignored
      BY <1>3, Zenon DEF NoFault, Fault, faultVars
<1>5. cmd = "load"
      BY <1>1 DEF TypeInv, Phase
<1>6. \A s : db' = [db EXCEPT !["dst"] = s] => OnlyDst(s)
      BY DstChanged
<1> QED  BY <1>1, <1>2, <1>3, <1>4, <1>5, <1>6

LEMMA FinishFacts ==
    ASSUME TypeInv, Finish
    PROVE  /\ pc = "end" /\ pc' = "done"
           /\ \E s : /\ \/ s = Committed(db[Target]) /\ ret >= 0 /\ cmd \notin Readers
                        \/ s = RolledBack(db[Target])
                     /\ cmd = "delete" => OnlySrc(s)
                     /\ cmd # "delete" => OnlyDst(s)
           /\ ignored \subseteq ignored' /\ SameCommand
           /\ UNCHANGED <<ret, limit_copy, offset_copy, event_no, idents, ident_idx, delete_tbl,
                          fileno, output, stop_processing>>
<1>1. /\ pc = "end" /\ pc' = "done" /\ SameCommand
      /\ UNCHANGED <<ret, limit_copy, offset_copy, event_no, idents, ident_idx, delete_tbl,
                     fileno, output, stop_processing>>
      BY Zenon DEF Finish, SameCommand, batchVars, outVars, envVars
<1>2. /\ NoFault \/ IgnoredFault("commit")
      /\ \/ /\ db' = [db EXCEPT ![Target] = Committed(db[Target])]
            /\ ret >= 0 /\ cmd \notin Readers
         \/ db' = [db EXCEPT ![Target] = RolledBack(db[Target])]
      BY Zenon DEF Finish
<1>3. ignored \subseteq ignored'
      BY <1>2 DEF NoFault, IgnoredFault, faultVars
<1>4. \A s : db' = [db EXCEPT ![Target] = s] =>
                 (cmd = "delete" => OnlySrc(s)) /\ (cmd # "delete" => OnlyDst(s))
      BY TargetChanged
<1> QED  BY <1>1, <1>2, <1>3, <1>4, Zenon

LEMMA ResumeFacts ==
    ASSUME TypeInv, Resume
    PROVE  /\ pc = "done" /\ opt.limit < 0 /\ cmd \in Resumable
           /\ pc' = "start" /\ ret' = 0 /\ limit_copy' = opt.limit /\ cur_count' = 0
           /\ event_no' = 0 /\ idents' = <<>> /\ ident_idx' = 1 /\ delete_tbl' = <<>>
           /\ cmd' = cmd /\ ept' = ept /\ files' = files /\ opt'.limit = opt.limit
           /\ opt'.offset = opt.offset + cur_count
           /\ UNCHANGED <<origin, arrived, db, output, ignored>>
<1>1. opt' = [opt EXCEPT !.offset = @ + cur_count]
      BY Zenon DEF Resume
<1>2. opt \in CommandLine
      BY DEF TypeInv, TypeOK
<1>3. /\ cmd' = cmd /\ ept' = ept /\ files' = files /\ opt'.limit = opt.limit
      /\ opt'.offset = opt.offset + cur_count
      BY <1>1, <1>2 DEF CommandLine, cmd, ept, files
<1>4. /\ pc = "done" /\ opt.limit < 0 /\ cmd \in Resumable
      /\ pc' = "start" /\ ret' = 0 /\ limit_copy' = opt.limit /\ cur_count' = 0
      /\ event_no' = 0 /\ idents' = <<>> /\ ident_idx' = 1 /\ delete_tbl' = <<>>
      /\ UNCHANGED <<origin, arrived, db, output, ignored>>
      BY Zenon DEF Resume, outVars, faultVars
<1> QED  BY <1>3, <1>4

LEMMA SignalFacts ==
    ASSUME TypeInv, Signal
    PROVE  /\ UNCHANGED <<opt, origin, db, arrived, pc, ret, limit_copy, offset_copy, cur_count,
                          event_no, idents, ident_idx, delete_tbl, fileno, output, ignored>>
           /\ SameCommand
<1>1. /\ Fault("signal")
      /\ UNCHANGED <<opt, origin, db, arrived, pc, ret, limit_copy, offset_copy, cur_count,
                     event_no, idents, ident_idx, delete_tbl, fileno, output>>
      BY Zenon DEF Signal, countVars, batchVars, outVars
<1> QED  BY <1>1 DEF Fault, SameCommand

LEMMA ArriveFacts ==
    ASSUME TypeInv, Arrive
    PROVE  /\ cmd # "load" /\ arrived' = arrived + 1 /\ arrived + 1 \in Msgs
           /\ OnlySrc(ArrivedIn(src))
           /\ src'.now = With(src.now, arrived + 1) /\ src'.kept = With(src.kept, arrived + 1)
           /\ src'.tx = src.tx
           /\ cmd' = cmd /\ ept' = ept /\ files' = files
           /\ UNCHANGED <<opt, origin, pc, ret, limit_copy, offset_copy, cur_count, event_no,
                          idents, ident_idx, delete_tbl, fileno, output, stop_processing,
                          ignored>>
<1>1. /\ cmd # "load"
      /\ UNCHANGED <<opt, origin, pc, ret, limit_copy, offset_copy, cur_count, event_no,
                     idents, ident_idx, delete_tbl, fileno, output, stop_processing, ignored>>
      BY Zenon DEF Arrive, countVars, batchVars, outVars, faultVars
<1>2. SessionOK(src)
      BY TypeParts DEF DbOK, src
<1>3. /\ arrived' = arrived + 1 /\ arrived + 1 \in Msgs
      /\ OnlySrc(ArrivedIn(src))
      BY ArriveDb, SrcChanged DEF src
<1>4. src'.now = With(src.now, arrived + 1) /\ src'.kept = With(src.kept, arrived + 1)
      /\ src'.tx = src.tx
      BY <1>2, <1>3, ArrivedSession DEF OnlySrc
<1> QED  BY <1>1, <1>3, <1>4 DEF cmd, ept, files

----------------------------------------------------------------------------
(***************************************************************************)
(* A failed insertion is not committed.  Whatever the transaction around    *)
(* it, rows of part of a message are in the database, and the transaction   *)
(* is broken, only between the failure and the end of the command, with ret *)
(* at -1, which makes the end abort.                                        *)
(***************************************************************************)
LEMMA WithFields ==
    ASSUME NEW c \in Contents, NEW m \in Msgs
    PROVE  /\ With(c, m).msgs = Append(c.msgs, m) /\ With(c, m).torn = c.torn
           /\ Len(With(c, m).msgs) = Len(c.msgs) + 1
BY DEF With, Contents
LEMMA TornFields ==
    ASSUME NEW c \in Contents, NEW ms
    PROVE  Torn(c, ms).msgs = c.msgs /\ Torn(c, ms).torn = c.torn \cup ms
BY DEF Torn, Contents

\* The three kinds of steps on the destination that insert.
Inserted(m) ==
    /\ dst'.tx = dst.tx /\ dst'.broken = dst.broken
    /\ dst'.now = With(dst.now, m)
    /\ dst'.kept = IF dst.tx THEN dst.kept ELSE dst'.now
HalfInserted(m) ==
    /\ dst'.tx = dst.tx /\ dst'.kept = dst.kept /\ dst'.now.msgs = dst.now.msgs
    /\ ~dst.tx => dst' = dst
Ended ==
    /\ dst'.now = dst'.kept /\ ~dst'.broken
    /\ dst'.kept = dst.kept \/ (dst'.kept = dst.now /\ ~(dst.broken /\ Dooming))

LEMMA InsertedFacts ==
    ASSUME TypeInv, NEW m \in Msgs
    PROVE  /\ dst' = Wrote(dst, With(dst.now, m)) => Inserted(m)
           /\ dst' = Failed(dst, Torn(dst.now, {m})) => HalfInserted(m)
<1>1. dst \in Session /\ dst.now \in Contents
      BY ContentsOf DEF dst
<1>2. With(dst.now, m) \in Contents /\ Torn(dst.now, {m}) \in Contents
      BY <1>1, ContentsWritten
<1>3. Torn(dst.now, {m}).msgs = dst.now.msgs
      BY <1>1, TornFields
<1>4. dst' = Wrote(dst, With(dst.now, m)) => Inserted(m)
      BY <1>1, <1>2, SessionFields DEF Inserted
<1>5. dst' = Failed(dst, Torn(dst.now, {m})) => HalfInserted(m)
      BY <1>1, <1>2, <1>3, FailedFields DEF HalfInserted
<1> QED  BY <1>4, <1>5

LEMMA EndedFacts ==
    ASSUME TypeInv
    PROVE  /\ Renewed(dst, dst') => Ended
           /\ dst' = Committed(dst) => Ended /\ ~dst'.tx
           /\ dst' = RolledBack(dst) => Ended /\ ~dst'.tx /\ dst'.kept = dst.kept
<1>1. dst \in Session /\ dst.now \in Contents
      BY ContentsOf DEF dst
<1>2. SessionOK(dst)
      BY TypeParts DEF DbOK, dst
<1>3. Committed(dst) \in Session /\ RolledBack(dst) \in Session
      BY <1>1, <1>2, SessionCalls DEF SessionOK
<1>4. /\ Committed(dst).now = Committed(dst).kept /\ ~Committed(dst).broken
      /\ ~Committed(dst).tx
      /\ \/ Committed(dst).kept = dst.kept
         \/ Committed(dst).kept = dst.now /\ ~(dst.broken /\ Dooming)
      BY <1>1, SessionFields
<1>5. /\ RolledBack(dst).now = RolledBack(dst).kept /\ ~RolledBack(dst).broken
      /\ RolledBack(dst).kept = dst.kept /\ ~RolledBack(dst).tx
      BY <1>1, SessionFields
<1>6. \A s \in Session : /\ Begun(s).now = s.now /\ Begun(s).kept = s.kept
                         /\ ~Begun(s).broken
  <2> SUFFICES ASSUME NEW s \in Session
               PROVE  Begun(s).now = s.now /\ Begun(s).kept = s.kept /\ ~Begun(s).broken
      OBVIOUS
  <2> QED  BY <1>1, SessionFields
<1>7. dst' = Committed(dst) => Ended
      BY <1>4, Zenon DEF Ended
<1>8. dst' = RolledBack(dst) => Ended
      BY <1>5, Zenon DEF Ended
<1>9. dst' = Begun(Committed(dst)) => Ended
      BY <1>3, <1>4, <1>6, Zenon DEF Ended
<1>10. dst' = Begun(RolledBack(dst)) => Ended
      BY <1>3, <1>5, <1>6, Zenon DEF Ended
<1>11. Renewed(dst, dst') => Ended
      BY <1>7, <1>9, <1>10, Zenon DEF Renewed
<1> QED  BY <1>4, <1>5, <1>7, <1>8, <1>11, Zenon

Whole ==
    /\ dst.kept.torn = {}
    /\ dst.now.torn # {} \/ dst.broken => pc = "end" /\ ret = -1 /\ cmd \in Inserting

LEMMA InitWhole ==
    ASSUME Init
    PROVE  Whole
<1>1. dst = NewSession(Empty)
      BY DEF Init, dst
<1> QED  BY <1>1 DEF Whole, NewSession, Empty

\* Beginning a transaction.
LEMMA BegunFacts ==
    ASSUME TypeInv, dst' = Begun(dst)
    PROVE  dst'.now = dst.now /\ dst'.kept = dst.kept /\ ~dst'.broken /\ dst'.tx
<1>1. dst \in Session /\ dst.now \in Contents
      BY ContentsOf DEF dst
<1> QED  BY <1>1, SessionFields

\* The databases stay, the step does not enter the end with a broken transaction.
LEMMA WholeKept ==
    ASSUME Whole, dst' = dst, cmd' = cmd, ret' = ret \/ pc # "end", pc' = pc \/ pc # "end"
    PROVE  Whole'
<1>1. dst'.kept.torn = {}
      BY DEF Whole
<1>2. CASE pc = "end"
      BY <1>1, <1>2 DEF Whole
<1>3. CASE pc # "end"
      BY <1>1, <1>3 DEF Whole
<1> QED  BY <1>2, <1>3

LEMMA WholeEnded ==
    ASSUME Whole, Ended, dst'.kept = dst.kept \/ pc # "end" \/ ret >= 0
    PROVE  Whole'
<1>1. dst'.kept.torn = {} /\ dst'.now.torn = {} /\ ~dst'.broken
      BY DEF Whole, Ended
<1> QED  BY <1>1 DEF Whole

LEMMA WholeInserted ==
    ASSUME TypeInv, Whole, pc # "end", NEW m \in Msgs, Inserted(m)
    PROVE  Whole'
<1>1. dst.now \in Contents
      BY ContentsOf DEF dst
<1>2. With(dst.now, m).torn = {}
      BY <1>1, WithFields DEF Whole
<1>3. dst'.now.torn = {} /\ dst'.kept.torn = {} /\ ~dst'.broken
      BY <1>2 DEF Inserted, Whole
<1> QED  BY <1>3 DEF Whole

LEMMA WholeHalfInserted ==
    ASSUME Whole, NEW m, HalfInserted(m), pc' = "end", ret' = -1, cmd' \in Inserting
    PROVE  Whole'
BY DEF Whole, HalfInserted

LEMMA WholeStep ==
    ASSUME TypeInv, Whole, [Next]_vars
    PROVE  Whole'
<1> DEFINE m == idents[ident_idx]
<1>1. CASE UNCHANGED vars
      BY <1>1, WholeKept, Zenon DEF vars, cmd, dst
<1>2. CASE Start
  <2>1. /\ pc = "start" /\ cmd' = cmd
        /\ dst' = dst \/ dst' = Begun(dst)
        BY <1>2, StartFacts, SameParts DEF OnlySrc, OnlyDst, dst
  <2>2. CASE dst' = dst
        BY <2>1, <2>2, WholeKept
  <2>3. CASE dst' = Begun(dst)
        BY <2>1, <2>3, BegunFacts DEF Whole
  <2> QED  BY <2>1, <2>2, <2>3
<1>3. CASE Fetch
  <2>1. pc = "fetch" /\ cmd' = cmd /\ dst' = dst
        BY <1>3, FetchFacts, SameParts DEF dst
  <2> QED  BY <2>1, WholeKept
<1>4. CASE Flush
  <2>1. pc = "flush" /\ cmd' = cmd /\ (dst' = dst \/ Renewed(dst, dst'))
        BY <1>4, FlushActionFacts, SameParts, Zenon DEF Flushed, NotFlushed, dst
  <2> QED  BY <2>1, WholeKept, WholeEnded, EndedFacts
<1>5. CASE CopyMessage
  <2>1. /\ pc = "item" /\ cmd' = cmd /\ cmd \in Inserting /\ m \in Msgs
        /\ \/ dst' = dst
           \/ dst' = Wrote(dst, With(dst.now, m))
           \/ dst' = Failed(dst, Torn(dst.now, {m})) /\ ret' = -1 /\ pc' = "end"
        BY <1>5, CopyMessageFacts, SameParts DEF OnlyDst, dst, Inserting
  <2> HIDE DEF m
  <2> QED  BY <2>1, WholeKept, WholeInserted, WholeHalfInserted, InsertedFacts
<1>6. CASE TrackDeletion
  <2>1. pc = "track" /\ cmd' = cmd /\ dst' = dst
        BY <1>6, TrackDeletionFacts, SameParts DEF Deleted, OnlySrc, dst
  <2> QED  BY <2>1, WholeKept
<1>7. CASE EndOfBatch
  <2>1. pc = "item" /\ cmd' = cmd /\ (dst' = dst \/ Renewed(dst, dst'))
        BY <1>7, EndOfBatchFacts, SameParts, Zenon DEF Flushed, NotFlushed, dst
  <2> QED  BY <2>1, WholeKept, WholeEnded, EndedFacts
<1>8. CASE DeleteRest
  <2>1. pc = "rest" /\ cmd' = cmd /\ dst' = dst
        BY <1>8, DeleteRestFacts, SameParts DEF Deleted, OnlySrc, dst
  <2> QED  BY <2>1, WholeKept
<1>9. CASE Erase
  <2>1. pc = "erase" /\ cmd' = cmd /\ dst' = dst
        BY <1>9, EraseFacts, SameParts DEF OnlySrc, dst
  <2> QED  BY <2>1, WholeKept
<1>10. CASE Emit
  <2>1. pc = "item" /\ cmd' = cmd /\ dst' = dst
        BY <1>10, EmitFacts, SameParts DEF dst
  <2> QED  BY <2>1, WholeKept
<1>18. CASE IdentFails
  <2>1. pc = "item" /\ cmd' = cmd /\ dst' = dst
        BY <1>18, IdentFailsFacts, SameParts DEF dst
  <2> QED  BY <2>1, WholeKept
<1>11. CASE OpenFile
  <2>1. pc = "open" /\ cmd' = cmd /\ (dst' = dst \/ dst' = RolledBack(dst))
        BY <1>11, OpenFileFacts, SameParts DEF OnlyDst, dst
  <2> QED  BY <2>1, WholeKept, WholeEnded, EndedFacts
<1>12. CASE NoMoreFiles \/ EndOfFile \/ SkipMessage
  <2>1. pc \in {"open", "read"} /\ cmd' = cmd /\ dst' = dst
        BY <1>12, ReadFacts, SameParts DEF dst
  <2> QED  BY <2>1, WholeKept
<1>13. CASE LoadMessage
  <2>1. /\ pc = "read" /\ cmd' = cmd /\ cmd \in Inserting /\ m \in Msgs
        /\ \/ dst' = dst
           \/ dst' = Wrote(dst, With(dst.now, m))
           \/ dst' = Failed(dst, Torn(dst.now, {m})) /\ ret' = -1 /\ pc' = "end"
        BY <1>13, LoadMessageFacts, SameParts DEF OnlyDst, dst, Inserting
  <2> HIDE DEF m
  <2> QED  BY <2>1, WholeKept, WholeInserted, WholeHalfInserted, InsertedFacts
<1>14. CASE Finish
  <2>1. PICK s : /\ \/ s = Committed(db[Target]) /\ ret >= 0
                    \/ s = RolledBack(db[Target])
                 /\ cmd = "delete" => OnlySrc(s)
                 /\ cmd # "delete" => OnlyDst(s)
        BY <1>14, FinishFacts
  <2>2. pc' = "done" /\ cmd' = cmd
        BY <1>14, FinishFacts, SameParts
  <2>3. CASE cmd = "delete"
    <3>1. dst' = dst /\ ~(dst.now.torn # {} \/ dst.broken) /\ dst'.kept.torn = {}
          BY <2>1, <2>3 DEF OnlySrc, Whole, Inserting
    <3> QED  BY <3>1 DEF Whole
  <2>4. CASE cmd # "delete"
    <3>1. \/ dst' = Committed(dst) /\ ret >= 0
          \/ dst' = RolledBack(dst)
          BY <2>1, <2>4 DEF OnlyDst, Target, dst
    <3> QED  BY <3>1, EndedFacts, WholeEnded
  <2> QED  BY <2>3, <2>4
<1>15. CASE Resume
  <2>1. pc = "done" /\ cmd' = cmd /\ dst' = dst
        BY <1>15, ResumeFacts DEF dst
  <2> QED  BY <2>1, WholeKept
<1>16. CASE Signal
  <2>1. pc' = pc /\ ret' = ret /\ cmd' = cmd /\ dst' = dst
        BY <1>16, SignalFacts, SameParts DEF dst
  <2> QED  BY <2>1, WholeKept
<1>17. CASE Arrive
  <2>1. pc' = pc /\ ret' = ret /\ cmd' = cmd /\ dst' = dst
        BY <1>17, ArriveFacts DEF OnlySrc, dst
  <2> QED  BY <2>1, WholeKept
<1> QED  BY <1>1, <1>2, <1>3, <1>4, <1>5, <1>6, <1>7, <1>8, <1>9, <1>10, <1>11, <1>12, <1>13,
            <1>14, <1>15, <1>16, <1>17, <1>18, Zenon DEF Next, Step

\* No commit of a failed insertion's rows: copy_iterate() and cmd_load() leave
\* with ret at -1, and the transaction is aborted, or lost with the process.
THEOREM CommitsAreWhole == Spec => []InsertedWhole
<1>1. Init => TypeInv /\ Whole
      BY InitType, InitWhole
<1>2. TypeInv /\ Whole /\ [Next]_vars => TypeInv' /\ Whole'
      BY TypeStep, WholeStep
<1>3. Whole => InsertedWhole
      BY DEF Whole, InsertedWhole, dst
<1> QED  BY <1>1, <1>2, <1>3, PTL DEF Spec

----------------------------------------------------------------------------
(***************************************************************************)
(* The table of messages to delete.  A batch is no longer than a            *)
(* transaction, and the table holds no more messages than the loop has gone *)
(* past in the batch: it is empty when the next batch is fetched.           *)
(***************************************************************************)
Listed ==
    /\ pc \in {"start", "fetch"} => delete_tbl = <<>>
    /\ Len(delete_tbl) < ident_idx
    /\ cmd # "load" => Len(idents) <= ept

LEMMA Numbers ==
    ASSUME TypeInv
    PROVE  /\ Len(delete_tbl) \in Nat /\ Len(idents) \in Nat /\ ept \in Nat
           /\ ident_idx \in Nat /\ 1 <= ident_idx /\ ident_idx <= Len(idents) + 1
           /\ event_no \in Nat /\ cur_count \in Nat /\ limit_copy \in Int /\ opt.limit \in Int
           /\ Len(output) \in Nat
<1>1. ept \in Nat /\ opt.limit \in Int
      BY DEF TypeInv, TypeOK, CommandLine, ept
<1>2. Len(delete_tbl) \in Nat /\ Len(idents) \in Nat /\ Len(output) \in Nat
      BY DEF TypeInv, TypeOK
<1>3. /\ ident_idx \in Nat /\ 1 <= ident_idx /\ ident_idx <= Len(idents) + 1
      /\ event_no \in Nat /\ cur_count \in Nat /\ limit_copy \in Int
      BY <1>2 DEF TypeInv, TypeOK
<1> QED  BY <1>1, <1>2, <1>3

LEMMA InitListed ==
    ASSUME Init
    PROVE  Listed
<1>1. ept \in Nat
      BY InitType, Numbers
<1> QED  BY <1>1 DEF Init, Listed

\* A batch is as long as a transaction at most.
LEMMA BatchLength ==
    ASSUME TypeInv, Batch # <<>>
    PROVE  /\ Len(Batch) \in Nat /\ Len(Batch) <= ept
           /\ limit_copy >= 0 => Len(Batch) <= limit_copy
<1>1. Len(Batch) \in Nat /\ Len(Batch) <= LocalLimit
      BY BatchType
<1>2. ept \in Nat /\ limit_copy \in Int
      BY Numbers
<1>3. /\ LocalLimit <= ept /\ LocalLimit \in Int
      /\ limit_copy >= 0 => LocalLimit <= limit_copy
      BY <1>2, MinOfTwo DEF LocalLimit
<1> QED  BY <1>1, <1>2, <1>3

\* The batch, the table and the command stay.
LEMMA ListedKept ==
    ASSUME TypeInv, Listed, cmd' = cmd, ept' = ept, idents' = idents,
           ident_idx' = ident_idx \/ ident_idx' = ident_idx + 1,
           delete_tbl' = delete_tbl \/ delete_tbl' = <<>>,
           pc' \in {"start", "fetch"} => delete_tbl' = <<>>
    PROVE  Listed'
<1>1. Len(delete_tbl') < ident_idx'
      BY Numbers DEF Listed
<1> QED  BY <1>1 DEF Listed

LEMMA NothingListed ==
    ASSUME TypeInv, TypeInv', cmd # "move", cmd' = cmd, delete_tbl' = delete_tbl,
           cmd # "load" => Len(idents') <= ept'
    PROVE  Listed'
<1>1. delete_tbl' = <<>>
      BY DEF TypeInv, Phase
<1>2. 0 < ident_idx'
  <2>1. idents' \in Seq(Msgs) /\ ident_idx' \in 1..(Len(idents') + 1)
        BY DEF TypeInv, TypeOK
  <2>2. ident_idx' \in Int /\ 1 <= ident_idx'
        BY <2>1
  <2> QED  BY <2>2
<1>3. Len(delete_tbl') < ident_idx'
  <2>1. Len(delete_tbl') = 0
        BY <1>1
  <2> QED  BY <2>1, <1>2
<1> QED  BY <1>1, <1>3 DEF Listed

LEMMA ListedStep ==
    ASSUME TypeInv, Listed, [Next]_vars
    PROVE  Listed'
<1> USE TypeStep
<1>1. CASE UNCHANGED vars
  <2>1. UNCHANGED <<cmd, ept, idents, ident_idx, delete_tbl, pc>>
        BY <1>1, Zenon DEF vars, batchVars, cmd, ept
  <2> QED  BY <2>1, ListedKept DEF Listed
<1>2. CASE Start
      BY <1>2, StartFacts, SameParts, ListedKept DEF Listed
<1>3. CASE Fetch
  <2>1. /\ pc = "fetch" /\ cmd' = cmd /\ ept' = ept /\ delete_tbl' = delete_tbl
        /\ delete_tbl = <<>>
        /\ \/ pc' = "end" /\ UNCHANGED <<idents, ident_idx>>
           \/ Batch # <<>> /\ idents' = Batch /\ ident_idx' = 1
        BY <1>3, FetchFacts, SameParts DEF Listed
  <2>2. CASE pc' = "end" /\ UNCHANGED <<idents, ident_idx>>
        BY <2>1, <2>2, ListedKept
  <2>3. CASE Batch # <<>> /\ idents' = Batch /\ ident_idx' = 1
        BY <2>1, <2>3, BatchLength DEF Listed
  <2> QED  BY <2>1, <2>2, <2>3
<1>4. CASE Flush
  <2>1. pc' = "fetch" => delete_tbl = <<>>
        BY <1>4, FlushActionFacts DEF TypeInv, Phase
  <2>2. pc' # "start"
        BY <1>4, FlushActionFacts
  <2> QED  BY <1>4, <2>1, <2>2, FlushActionFacts, SameParts, ListedKept
<1>5. CASE CopyMessage
  <2>1. /\ pc = "item" /\ cmd' = cmd /\ ept' = ept /\ idents' = idents
        /\ ident_idx' = ident_idx + 1 /\ idents[ident_idx] \in Msgs
        /\ delete_tbl' = delete_tbl \/ delete_tbl' = Append(delete_tbl, idents[ident_idx])
        /\ pc' \in {"track", "flush", "end"}
        BY <1>5, CopyMessageFacts, SameParts
  <2>2. delete_tbl \in Seq(Msgs)
        BY DEF TypeInv, TypeOK
  <2>3. Len(delete_tbl') <= Len(delete_tbl) + 1
        BY <2>1, <2>2
  <2>4. Len(delete_tbl') < ident_idx'
    <3>1. Len(delete_tbl') \in Nat
          BY <2>1, <2>2
    <3> QED  BY <2>1, <2>3, <3>1, Numbers DEF Listed
  <2> QED  BY <2>1, <2>4 DEF Listed
<1>6. CASE TrackDeletion
  <2>1. pc' \notin {"start", "fetch"}
        BY <1>6, TrackDeletionFacts
  <2> QED  BY <1>6, <2>1, TrackDeletionFacts, SameParts, ListedKept
<1>7. CASE EndOfBatch
  <2>1. pc' \in {"start", "fetch"} => delete_tbl = <<>>
        BY <1>7, EndOfBatchFacts
  <2> QED  BY <1>7, <2>1, EndOfBatchFacts, SameParts, ListedKept
<1>8. CASE DeleteRest
      BY <1>8, DeleteRestFacts, SameParts, ListedKept
<1>9. CASE Erase
      BY <1>9, EraseFacts, SameParts, ListedKept
<1>10. CASE Emit
  <2>1. delete_tbl = <<>>
        BY <1>10, EmitFacts DEF TypeInv, Phase, Readers
  <2> QED  BY <1>10, <2>1, EmitFacts, SameParts, ListedKept
<1>18. CASE IdentFails
  <2>1. /\ cmd' = cmd /\ ept' = ept /\ ident_idx' = ident_idx /\ delete_tbl' = delete_tbl
        /\ pc' \in {"item", "fetch", "end"}
        BY <1>18, IdentFailsFacts, SameParts
  <2>2. pc' = "fetch" => delete_tbl = <<>>
        BY <1>18, IdentFailsFacts DEF TypeInv, Phase, Readers
  <2>3. Len(idents') <= Len(idents)
        BY <1>18, IdentFailsFacts, Numbers DEF Stopped
  <2>4. Len(idents') \in Nat
        BY <1>18, IdentFailsFacts, Numbers DEF Stopped
  <2>5. cmd # "load" => Len(idents') <= ept
        BY <2>3, <2>4, Numbers DEF Listed
  <2> QED  BY <2>1, <2>2, <2>5 DEF Listed
<1>11. CASE OpenFile
      BY <1>11, OpenFileFacts, SameParts, NothingListed
<1>12. CASE NoMoreFiles \/ EndOfFile \/ SkipMessage
      BY <1>12, ReadFacts, SameParts, NothingListed, Zenon DEF Next, Step
<1>13. CASE LoadMessage
      BY <1>13, LoadMessageFacts, SameParts, NothingListed
<1>14. CASE Finish
      BY <1>14, FinishFacts, SameParts, ListedKept
<1>15. CASE Resume
  <2>1. /\ idents' = <<>> /\ delete_tbl' = <<>> /\ ident_idx' = 1 /\ ept' = ept
        BY <1>15, ResumeFacts
  <2> QED  BY <2>1, Numbers DEF Listed
<1>16. CASE Signal
  <2>1. UNCHANGED <<cmd, ept, idents, ident_idx, delete_tbl, pc>>
        BY <1>16, SignalFacts, SameParts
  <2> QED  BY <2>1, ListedKept DEF Listed
<1>17. CASE Arrive
  <2>1. UNCHANGED <<cmd, ept, idents, ident_idx, delete_tbl, pc>>
        BY <1>17, ArriveFacts
  <2> QED  BY <2>1, ListedKept DEF Listed
<1> QED  BY <1>1, <1>2, <1>3, <1>4, <1>5, <1>6, <1>7, <1>8, <1>9, <1>10, <1>11, <1>12, <1>13,
            <1>14, <1>15, <1>16, <1>17, <1>18, Zenon DEF Next, Step

\* delete_tbl never overflows: at most one message is listed for each message
\* of the batch, whatever fails, and a batch is fetched with the table empty.
THEOREM TableFits == Spec => []DeleteTableFits
<1>1. Init => TypeInv /\ Listed
      BY InitType, InitListed
<1>2. TypeInv /\ Listed /\ [Next]_vars => TypeInv' /\ Listed'
      BY TypeStep, ListedStep
<1>3. TypeInv /\ Listed => DeleteTableFits
  <2> SUFFICES ASSUME TypeInv, Listed, ept <= DeleteTblSize
               PROVE  Len(delete_tbl) <= DeleteTblSize
      BY DEF DeleteTableFits
  <2>1. CASE cmd = "load"
    <3>1. delete_tbl = <<>>
          BY <2>1 DEF TypeInv, Phase
    <3> QED  BY <3>1, EnvironmentAssumption
  <2>2. CASE cmd # "load"
        BY <2>2, Numbers, EnvironmentAssumption DEF Listed
  <2> QED  BY <2>1, <2>2
<1> QED  BY <1>1, <1>2, <1>3, PTL DEF Spec

----------------------------------------------------------------------------
(***************************************************************************)
(* What one COMMIT makes durable.  event_no counts the messages of the      *)
(* transaction; the loop of copy_iterate() may go past a message without    *)
(* counting it, when a deletion fails, but never starts a batch with        *)
(* anything uncommitted.                                                    *)
(***************************************************************************)
Uncommitted == Len(dst.now.msgs) - Len(dst.kept.msgs)
Level == dst.now.msgs = dst.kept.msgs
Growth == Len(dst'.kept.msgs) - Len(dst.kept.msgs)

CopyBound ==
    /\ Uncommitted < ident_idx
    /\ pc \in {"start", "fetch", "rest"} => event_no = 0
    /\ pc \in {"start", "fetch", "rest", "done"} => Level
    /\ pc = "item" =>
           /\ event_no < ident_idx
           /\ event_no = 0 => Level /\ (ident_idx = 1 \/ ident_idx > Len(idents))
    /\ pc \in {"track", "flush"} => event_no + 1 < ident_idx
    /\ pc = "track" /\ event_no = 0 => ident_idx = 2
LoadBound ==
    /\ event_no = 0 \/ event_no < ept
    /\ ept = 0 => ~dst.tx
    /\ Uncommitted <= event_no + 1
    /\ pc \notin {"flush", "end"} => Uncommitted <= event_no
    /\ pc \in {"start", "done"} => Level
    /\ pc = "start" => event_no = 0
Bounded ==
    /\ cmd \in {"copy", "move"} => CopyBound
    /\ cmd = "load" => LoadBound
    /\ cmd \notin Inserting => dst.now = dst.kept

LEMMA DstLengths ==
    ASSUME TypeInv
    PROVE  /\ dst.now.msgs \in Seq(Msgs) /\ dst.kept.msgs \in Seq(Msgs)
           /\ Len(dst.now.msgs) \in Nat /\ Len(dst.kept.msgs) \in Nat
           /\ dst.now \in Contents /\ dst.kept \in Contents /\ dst.tx \in BOOLEAN
           /\ dst.broken \in BOOLEAN /\ Uncommitted \in Int
           /\ Level => Uncommitted = 0
           /\ ~dst.tx => dst.now = dst.kept
<1>1. dst \in Session /\ dst.now \in Contents /\ dst.kept \in Contents
      BY ContentsOf DEF dst
<1>2. SessionOK(dst)
      BY TypeParts DEF DbOK, dst
<1>3. dst.now.msgs \in Seq(Msgs) /\ dst.kept.msgs \in Seq(Msgs)
      BY <1>1 DEF Contents
<1>4. Len(dst.now.msgs) \in Nat /\ Len(dst.kept.msgs) \in Nat
      BY <1>3
<1>5. Uncommitted \in Int /\ (Level => Uncommitted = 0)
      BY <1>4 DEF Uncommitted, Level
<1> QED  BY <1>1, <1>2, <1>3, <1>4, <1>5 DEF SessionOK, Session

LEMMA UncommittedFacts ==
    ASSUME TypeInv
    PROVE  /\ \A m \in Msgs : Inserted(m) =>
                  /\ dst.tx => Uncommitted' = Uncommitted + 1 /\ Growth = 0
                  /\ ~dst.tx => Uncommitted = 0 /\ Uncommitted' = 0 /\ Growth = 1
           /\ \A m : HalfInserted(m) => Uncommitted' = Uncommitted /\ Growth = 0
           /\ Ended => /\ Uncommitted' = 0 /\ Level'
                       /\ Growth = 0 \/ Growth = Uncommitted
           /\ dst' = dst => Uncommitted' = Uncommitted /\ Growth = 0
<1>1. /\ dst.now \in Contents /\ Len(dst.now.msgs) \in Nat /\ Len(dst.kept.msgs) \in Nat
      /\ ~dst.tx => dst.now = dst.kept
      BY DstLengths
<1>2. ASSUME NEW m \in Msgs, Inserted(m)
      PROVE  /\ dst.tx => Uncommitted' = Uncommitted + 1 /\ Growth = 0
             /\ ~dst.tx => Uncommitted = 0 /\ Uncommitted' = 0 /\ Growth = 1
  <2>1. Len(With(dst.now, m).msgs) = Len(dst.now.msgs) + 1
        BY <1>1, WithFields
  <2>2. Len(dst'.now.msgs) = Len(dst.now.msgs) + 1
        BY <1>2, <2>1 DEF Inserted
  <2>3. CASE dst.tx
    <3>1. Len(dst'.kept.msgs) = Len(dst.kept.msgs)
          BY <1>2, <2>3 DEF Inserted
    <3> QED  BY <1>1, <2>2, <2>3, <3>1 DEF Uncommitted, Growth
  <2>4. CASE ~dst.tx
    <3>1. Len(dst'.kept.msgs) = Len(dst.now.msgs) + 1
          BY <1>2, <2>2, <2>4 DEF Inserted
    <3> QED  BY <1>1, <2>2, <2>4, <3>1 DEF Uncommitted, Growth
  <2> QED  BY <2>3, <2>4
<1>3. ASSUME NEW m, HalfInserted(m) PROVE Uncommitted' = Uncommitted /\ Growth = 0
      BY <1>1, <1>3 DEF HalfInserted, Uncommitted, Growth
<1>4. ASSUME Ended
      PROVE  Uncommitted' = 0 /\ Level' /\ (Growth = 0 \/ Growth = Uncommitted)
  <2>1. dst'.now = dst'.kept /\ (dst'.kept = dst.kept \/ dst'.kept = dst.now)
        BY <1>4 DEF Ended
  <2>2. CASE dst'.kept = dst.kept
        BY <1>1, <2>1, <2>2 DEF Uncommitted, Growth, Level
  <2>3. CASE dst'.kept = dst.now
        BY <1>1, <2>1, <2>3 DEF Uncommitted, Growth, Level
  <2> QED  BY <2>1, <2>2, <2>3
<1>5. dst' = dst => Uncommitted' = Uncommitted /\ Growth = 0
      BY <1>1 DEF Uncommitted, Growth
<1> QED  BY <1>2, <1>3, <1>4, <1>5

LEMMA MaxOfTwo ==
    ASSUME NEW a \in Int, NEW b \in Int
    PROVE  Max({a, b}) = IF a >= b THEN a ELSE b
<1> DEFINE m == IF a >= b THEN a ELSE b
<1>1. m \in {a, b} /\ \A y \in {a, b} : m >= y
      OBVIOUS
<1>2. \A x \in {a, b} : (\A y \in {a, b} : x >= y) => x = m
      OBVIOUS
<1> HIDE DEF m
<1>3. Max({a, b}) = m
      BY <1>1, <1>2 DEF Max
<1> QED  BY <1>3 DEF m

LEMMA InitBounded ==
    ASSUME Init
    PROVE  Bounded
<1>1. dst = NewSession(Empty) /\ ident_idx = 1 /\ event_no = 0 /\ pc = "start"
      BY DEF Init, dst
<1>2. dst.now = dst.kept /\ ~dst.tx
      BY <1>1 DEF NewSession
<1>3. Level /\ Uncommitted = 0
      BY <1>2, InitType, DstLengths DEF Level
<1> QED  BY <1>1, <1>2, <1>3 DEF Bounded, CopyBound, LoadBound

\* A COMMIT makes durable what the transaction holds, one message more than
\* those counted when a command ends in the middle of one.
BoundedInv == TypeInv /\ Listed /\ Bounded
Small(n) == n <= ept \/ n <= 1

LEMMA UncommittedSmall ==
    ASSUME BoundedInv
    PROVE  Small(Uncommitted) /\ Small(0)
<1>1. cmd \in Command
      BY DEF BoundedInv, TypeInv, TypeOK, CommandLine, cmd
<1>2. CASE cmd \in {"copy", "move"}
      BY <1>2, Numbers, DstLengths DEF BoundedInv, Bounded, CopyBound, Listed, Small
<1>3. CASE cmd = "load"
      BY <1>3, Numbers, DstLengths DEF BoundedInv, Bounded, LoadBound, Small
<1>4. CASE cmd \notin Inserting
  <2>1. Uncommitted = 0
        BY <1>4, DstLengths DEF BoundedInv, Bounded, Level
  <2> QED  BY <2>1, Numbers DEF Small
<1> QED  BY <1>1, <1>2, <1>3, <1>4 DEF Inserting

\* Commands that do not insert leave the destination alone; a load and a copy
\* go through it action by action.
LEMMA BoundedIdle ==
    ASSUME BoundedInv, cmd' = cmd, cmd \notin Inserting, dst' = dst \/ Ended
    PROVE  Bounded' /\ Small(Growth)
<1>1. dst'.now = dst'.kept
      BY DEF BoundedInv, Bounded, Ended
<1>2. Growth = 0 \/ Growth = Uncommitted
      BY UncommittedFacts DEF BoundedInv
<1>3. Bounded'
  <2>1. cmd' \notin Inserting
        OBVIOUS
  <2> QED  BY <1>1, <2>1 DEF Bounded, Inserting
<1> QED  BY <1>2, <1>3, UncommittedSmall

LEMMA BoundedCopy ==
    ASSUME BoundedInv, cmd' = cmd, cmd \in {"copy", "move"}, CopyBound',
           Growth = 0 \/ Growth = 1 \/ Growth = Uncommitted
    PROVE  Bounded' /\ Small(Growth)
<1>1. Bounded'
      BY DEF Bounded, Inserting
<1> QED  BY <1>1, UncommittedSmall DEF Small

LEMMA BoundedLoad ==
    ASSUME BoundedInv, cmd' = cmd, cmd = "load", LoadBound',
           Growth = 0 \/ Growth = 1 \/ Growth = Uncommitted
    PROVE  Bounded' /\ Small(Growth)
<1>1. Bounded'
      BY DEF Bounded, Inserting
<1> QED  BY <1>1, UncommittedSmall DEF Small

\* A step that changes neither the destination nor what the bounds count.
LEMMA BoundedKept ==
    ASSUME BoundedInv, cmd' = cmd, ept' = ept, dst' = dst,
           UNCHANGED <<pc, event_no, idents, ident_idx>>
    PROVE  Bounded' /\ Small(Growth)
<1>1. Uncommitted' = Uncommitted /\ Growth = 0 /\ Level' = Level
      BY UncommittedFacts DEF BoundedInv, Level
<1>2. CopyBound => CopyBound'
      BY <1>1 DEF CopyBound
<1>3. LoadBound => LoadBound'
      BY <1>1 DEF LoadBound
<1>4. Bounded'
      BY <1>2, <1>3 DEF BoundedInv, Bounded
<1> QED  BY <1>1, <1>4, UncommittedSmall

LEMMA BoundedCopyMessage ==
    ASSUME BoundedInv, CopyMessage
    PROVE  Bounded' /\ Small(Growth)
<1> DEFINE m == idents[ident_idx]
<1>1. /\ pc = "item" /\ cmd \in {"copy", "move"} /\ cmd' = cmd /\ ident_idx <= Len(idents)
      /\ m \in Msgs /\ ident_idx' = ident_idx + 1 /\ event_no' = event_no /\ idents' = idents
      /\ \/ dst' = Wrote(dst, With(dst.now, m)) /\ pc' \in {"track", "flush"}
         \/ dst' = dst /\ pc' = "end"
         \/ dst' = Failed(dst, Torn(dst.now, {m})) /\ pc' = "end"
      BY CopyMessageFacts, SameParts DEF BoundedInv, OnlyDst, dst
<1> HIDE DEF m
<1>2. \/ Inserted(m) /\ pc' \in {"track", "flush"}
      \/ dst' = dst /\ pc' = "end"
      \/ HalfInserted(m) /\ pc' = "end"
      BY <1>1, InsertedFacts DEF BoundedInv
<1>3. CopyBound
      BY <1>1 DEF BoundedInv, Bounded
<1>4. /\ ident_idx \in Nat /\ Len(idents) \in Nat /\ event_no \in Nat /\ Uncommitted \in Int
      BY Numbers, DstLengths DEF BoundedInv
<1>5. /\ Uncommitted' < ident_idx + 1
      /\ Growth = 0 \/ Growth = 1
  <2>1. \/ Uncommitted' = Uncommitted + 1 /\ Growth = 0
        \/ Uncommitted' = 0 /\ Growth = 1
        \/ Uncommitted' = Uncommitted /\ Growth = 0
        BY <1>1, <1>2, UncommittedFacts, DstLengths DEF BoundedInv
  <2>2. Uncommitted < ident_idx
        BY <1>3 DEF CopyBound
  <2> QED  BY <1>4, <2>1, <2>2
<1>6. event_no < ident_idx /\ (event_no = 0 => ident_idx = 1)
      BY <1>1, <1>3, <1>4 DEF CopyBound
<1>7. CopyBound'
  <2>1. pc' = "track" \/ pc' = "flush" \/ pc' = "end"
        BY <1>2
  <2>2. Uncommitted' < ident_idx'
        BY <1>1, <1>5
  <2>3. event_no' + 1 < ident_idx' /\ (event_no' = 0 => ident_idx' = 2)
        BY <1>1, <1>4, <1>6
  <2> QED  BY <2>1, <2>2, <2>3 DEF CopyBound
<1> QED  BY <1>1, <1>5, <1>7, BoundedCopy

LEMMA BoundedTrack ==
    ASSUME BoundedInv, TrackDeletion
    PROVE  Bounded' /\ Small(Growth)
<1>1. /\ pc = "track" /\ cmd = "move" /\ cmd' = cmd /\ dst' = dst
      /\ \/ pc' = "flush"
         \/ /\ pc' = "item" /\ ((ept > 0 /\ event_no >= ept) \/ Len(delete_tbl) >= DeleteTblSize)
      /\ UNCHANGED <<event_no, idents, ident_idx>>
      BY TrackDeletionFacts, SameParts DEF BoundedInv, TypeInv, Phase, Deleted, OnlySrc, dst
<1>2. CopyBound /\ Len(delete_tbl) < ident_idx
      BY <1>1 DEF BoundedInv, Bounded, Listed
<1>3. Uncommitted' = Uncommitted /\ Growth = 0
      BY <1>1, UncommittedFacts DEF BoundedInv
<1>4. /\ event_no + 1 < ident_idx /\ event_no \in Nat /\ ident_idx \in Nat
      /\ event_no = 0 => ident_idx = 2
      BY <1>1, <1>2, Numbers DEF BoundedInv, CopyBound
<1>5. pc' = "item" => event_no # 0
  <2> SUFFICES ASSUME pc' = "item", event_no = 0 PROVE FALSE
      OBVIOUS
  <2>1. Len(delete_tbl) >= DeleteTblSize
        BY <1>1, Numbers DEF BoundedInv
  <2>2. Len(delete_tbl) < 2
        BY <1>2, <1>4
  <2> QED  BY <2>1, <2>2, EnvironmentAssumption, Numbers DEF BoundedInv
<1>6. CopyBound'
  <2>1. pc' = "flush" \/ pc' = "item"
        BY <1>1
  <2>2. Uncommitted' < ident_idx'
        BY <1>1, <1>2, <1>3 DEF CopyBound
  <2>3. event_no' + 1 < ident_idx' /\ event_no' < ident_idx'
        BY <1>1, <1>4
  <2>4. pc' = "item" => event_no' # 0
        BY <1>1, <1>5
  <2> QED  BY <2>1, <2>2, <2>3, <2>4 DEF CopyBound
<1> QED  BY <1>1, <1>3, <1>6, BoundedCopy

LEMMA BoundedFlush ==
    ASSUME BoundedInv, Flush
    PROVE  Bounded' /\ Small(Growth)
<1>1. /\ pc = "flush" /\ cmd' = cmd /\ ept' = ept /\ UNCHANGED <<idents, ident_idx>>
      /\ Flushed(Increment) \/ NotFlushed(Increment)
      /\ cmd = "load" => pc' = "read"
      /\ cmd \notin {"delete", "load"} => pc' = "item"
      BY FlushActionFacts, SameParts DEF BoundedInv
<1>2. \/ /\ FlushIsDue(Increment) /\ event_no' = 0
         /\ cmd # "delete" => Ended
         /\ cmd = "delete" => dst' = dst
      \/ /\ ~FlushIsDue(Increment) /\ dst' = dst
         /\ event_no' = IF ept > 0 THEN event_no + Increment ELSE event_no
      BY <1>1, EndedFacts DEF BoundedInv, Flushed, NotFlushed, dst
<1>3. CASE cmd \notin Inserting
      BY <1>1, <1>2, <1>3, BoundedIdle
<1>4. /\ ident_idx \in Nat /\ Len(idents) \in Nat /\ event_no \in Nat /\ Uncommitted \in Int
      /\ ept \in Nat
      BY Numbers, DstLengths DEF BoundedInv
<1>5. ASSUME cmd \in Inserting
      PROVE  \/ /\ ept > 0 /\ event_no + 1 >= ept /\ event_no' = 0 /\ Ended
             \/ /\ ept > 0 /\ event_no + 1 < ept /\ event_no' = event_no + 1 /\ dst' = dst
             \/ ept = 0 /\ event_no' = event_no /\ dst' = dst
  <2>1. Increment = 1 /\ cmd # "delete"
        BY <1>5 DEF Increment, Inserting
  <2> QED  BY <1>2, <1>4, <2>1 DEF FlushIsDue
<1>6. /\ Ended => Uncommitted' = 0 /\ Level' /\ (Growth = 0 \/ Growth = Uncommitted)
      /\ dst' = dst => Uncommitted' = Uncommitted /\ Growth = 0 /\ Level' = Level
      BY UncommittedFacts DEF BoundedInv, Level
<1>7. CASE cmd \in {"copy", "move"}
  <2>1. CopyBound /\ pc' = "item"
        BY <1>1, <1>7 DEF BoundedInv, Bounded
  <2>2. event_no + 1 < ident_idx /\ Uncommitted < ident_idx /\ Len(idents) <= ept
        BY <1>1, <1>7, <2>1 DEF CopyBound, BoundedInv, Listed
  <2>3. ept > 0
    <3>1. ident_idx <= Len(idents) + 1
          BY Numbers DEF BoundedInv
    <3> QED  BY <1>4, <2>2, <3>1
  <2>4. CASE event_no + 1 >= ept /\ event_no' = 0 /\ Ended
    <3>1. ident_idx' > Len(idents') /\ 0 < ident_idx'
          BY <1>1, <1>4, <2>2, <2>4
    <3>2. CopyBound'
          BY <1>6, <2>1, <2>4, <3>1 DEF CopyBound
    <3> QED  BY <1>1, <1>6, <1>7, <2>4, <3>2, BoundedCopy
  <2>5. CASE event_no' = event_no + 1 /\ dst' = dst
    <3>1. event_no' < ident_idx' /\ event_no' # 0 /\ Uncommitted' < ident_idx'
          BY <1>1, <1>4, <1>6, <2>2, <2>5
    <3>2. CopyBound'
          BY <2>1, <3>1 DEF CopyBound
    <3> QED  BY <1>1, <1>6, <1>7, <2>5, <3>2, BoundedCopy
  <2>6. cmd \in Inserting
        BY <1>7 DEF Inserting
  <2>7. \/ event_no + 1 >= ept /\ event_no' = 0 /\ Ended
        \/ event_no' = event_no + 1 /\ dst' = dst
        BY <1>4, <1>5, <2>3, <2>6
  <2> QED  BY <2>4, <2>5, <2>7
<1>8. CASE cmd = "load"
  <2>1. LoadBound /\ pc' = "read"
        BY <1>1, <1>8 DEF BoundedInv, Bounded
  <2>2. CASE event_no' = 0 /\ Ended /\ ept > 0
    <3>1. Uncommitted' <= event_no' /\ Uncommitted' <= event_no' + 1
          BY <1>6, <2>2
    <3>2. ept' # 0
          BY <1>1, <1>4, <2>2
    <3>3. LoadBound'
          BY <2>1, <2>2, <3>1, <3>2 DEF LoadBound
    <3> QED  BY <1>1, <1>6, <1>8, <2>2, <3>3, BoundedLoad
  <2>3. CASE event_no + 1 < ept /\ event_no' = event_no + 1 /\ dst' = dst
    <3>1. Uncommitted' <= event_no' /\ Uncommitted' <= event_no' + 1
          BY <1>4, <1>6, <2>1, <2>3 DEF LoadBound
    <3>2. event_no' < ept' /\ ept' # 0
          BY <1>1, <1>4, <2>3
    <3>3. LoadBound'
          BY <2>1, <3>1, <3>2 DEF LoadBound
    <3> QED  BY <1>1, <1>6, <1>8, <2>3, <3>3, BoundedLoad
  <2>4. CASE ept = 0 /\ event_no' = event_no /\ dst' = dst
    <3>1. event_no = 0 /\ Uncommitted = 0 /\ ~dst.tx
      <4>1. event_no = 0 /\ ~dst.tx
            BY <1>4, <2>1, <2>4 DEF LoadBound
      <4> QED  BY <4>1, DstLengths DEF BoundedInv, Level
    <3>2. /\ event_no' = 0 /\ Uncommitted' <= event_no' /\ Uncommitted' <= event_no' + 1
          /\ ~dst'.tx
          BY <1>6, <2>4, <3>1
    <3>3. LoadBound'
          BY <2>1, <3>2 DEF LoadBound
    <3> QED  BY <1>1, <1>6, <1>8, <2>4, <3>3, BoundedLoad
  <2>5. cmd \in Inserting
        BY <1>8 DEF Inserting
  <2> QED  BY <1>5, <2>2, <2>3, <2>4, <2>5
<1> QED  BY <1>3, <1>7, <1>8 DEF Inserting

LEMMA BoundedEndOfBatch ==
    ASSUME BoundedInv, EndOfBatch
    PROVE  Bounded' /\ Small(Growth)
<1>1. /\ pc = "item" /\ cmd \in {"copy", "move"} /\ cmd' = cmd
      /\ UNCHANGED <<idents, ident_idx>>
      /\ Flushed(0) \/ NotFlushed(0)
      /\ pc' \in {"rest", "fetch", "end"}
      BY EndOfBatchFacts, SameParts DEF BoundedInv
<1>2. /\ ident_idx \in Nat /\ event_no \in Nat /\ Uncommitted \in Int /\ ept \in Nat
      /\ 1 <= ident_idx
      BY Numbers, DstLengths DEF BoundedInv
<1>3. \/ event_no' = 0 /\ Ended
      \/ ~FlushIsDue(0) /\ dst' = dst /\ event_no' = IF ept > 0 THEN event_no + 0 ELSE event_no
      BY <1>1, EndedFacts DEF BoundedInv, Flushed, NotFlushed, dst
<1>4. CopyBound
      BY <1>1 DEF BoundedInv, Bounded
<1>5. event_no > 0 => ept > 0
  <2>1. event_no < ident_idx /\ Len(idents) <= ept /\ ident_idx <= Len(idents) + 1
        BY <1>1, <1>4, Numbers DEF CopyBound, BoundedInv, Listed
  <2> QED  BY <1>2, <2>1, Numbers DEF BoundedInv
<1>6. event_no' = 0 /\ (Ended \/ (dst' = dst /\ Level))
  <2>1. CASE event_no > 0
    <3>1. FlushIsDue(0)
          BY <1>5, <2>1 DEF FlushIsDue
    <3> QED  BY <1>3, <3>1
  <2>2. CASE event_no = 0
    <3>1. Level
          BY <1>1, <1>4, <2>2 DEF CopyBound
    <3> QED  BY <1>2, <1>3, <2>2, <3>1
  <2> QED  BY <1>2, <2>1, <2>2
<1>7. Uncommitted' = 0 /\ Level' /\ (Growth = 0 \/ Growth = Uncommitted)
      BY <1>6, UncommittedFacts, DstLengths DEF BoundedInv, Level
<1>8. CopyBound'
  <2>1. Uncommitted' < ident_idx'
        BY <1>1, <1>2, <1>7
  <2>2. pc' \notin {"item", "track", "flush"}
        BY <1>1
  <2> QED  BY <1>6, <1>7, <2>1, <2>2 DEF CopyBound
<1> QED  BY <1>1, <1>7, <1>8, BoundedCopy

LEMMA BoundedLoadMessage ==
    ASSUME BoundedInv, LoadMessage
    PROVE  Bounded' /\ Small(Growth)
<1> DEFINE m == idents[ident_idx]
<1>1. /\ pc = "read" /\ cmd = "load" /\ cmd' = cmd /\ ept' = ept
      /\ m \in Msgs /\ event_no' = event_no /\ pc' \in {"flush", "end"}
      /\ \/ dst' = Wrote(dst, With(dst.now, m))
         \/ dst' = dst
         \/ dst' = Failed(dst, Torn(dst.now, {m}))
      BY LoadMessageFacts, SameParts DEF BoundedInv, OnlyDst, dst
<1> HIDE DEF m
<1>2. Inserted(m) \/ dst' = dst \/ HalfInserted(m)
      BY <1>1, InsertedFacts DEF BoundedInv
<1>3. LoadBound
      BY <1>1 DEF BoundedInv, Bounded
<1>4. event_no \in Nat /\ Uncommitted \in Int
      BY Numbers, DstLengths DEF BoundedInv
<1>5. \/ Uncommitted' = Uncommitted + 1 /\ Growth = 0
      \/ Uncommitted' = 0 /\ Growth = 1
      \/ Uncommitted' = Uncommitted /\ Growth = 0
      BY <1>1, <1>2, UncommittedFacts, DstLengths DEF BoundedInv
<1>6. dst'.tx = dst.tx
      BY <1>2 DEF Inserted, HalfInserted
<1>7. Uncommitted' <= event_no' + 1
  <2>1. Uncommitted <= event_no
        BY <1>1, <1>3 DEF LoadBound
  <2> QED  BY <1>1, <1>4, <1>5, <2>1
<1>8. LoadBound'
  <2>1. pc' = "flush" \/ pc' = "end"
        BY <1>1
  <2>2. event_no' = 0 \/ event_no' < ept'
        BY <1>1, <1>3 DEF LoadBound
  <2>3. ept' = 0 => ~dst'.tx
        BY <1>1, <1>3, <1>6 DEF LoadBound
  <2> QED  BY <1>7, <2>1, <2>2, <2>3 DEF LoadBound
<1> QED  BY <1>1, <1>5, <1>8, BoundedLoad

LEMMA BoundedStart ==
    ASSUME BoundedInv, Start
    PROVE  Bounded' /\ Small(Growth)
<1>1. /\ pc = "start" /\ cmd' = cmd /\ ept' = ept /\ pc' \in {"open", "fetch"}
      /\ UNCHANGED <<event_no, idents, ident_idx>>
      /\ dst' = dst \/ (cmd \in Inserting /\ ept > 1 /\ dst' = Begun(dst))
      BY StartFacts, SameParts DEF BoundedInv, OnlySrc, OnlyDst, dst
<1>2. dst'.now = dst.now /\ dst'.kept = dst.kept /\ (dst'.tx = dst.tx \/ ept # 0)
      BY <1>1, BegunFacts DEF BoundedInv
<1>3. Uncommitted' = Uncommitted /\ Level' = Level /\ Growth = 0
      BY <1>2, DstLengths DEF Uncommitted, Level, Growth, BoundedInv
<1>4. ASSUME cmd \in {"copy", "move"} PROVE CopyBound'
  <2>1. CopyBound
        BY <1>4 DEF BoundedInv, Bounded
  <2> QED  BY <1>1, <1>3, <2>1 DEF CopyBound
<1>5. ASSUME cmd = "load" PROVE LoadBound'
  <2>1. LoadBound /\ Uncommitted = 0 /\ event_no = 0
        BY <1>1, <1>5, DstLengths DEF BoundedInv, Bounded, LoadBound
  <2> QED  BY <1>1, <1>2, <1>3, <2>1 DEF LoadBound
<1>6. ASSUME cmd \notin Inserting PROVE dst' = dst
      BY <1>1, <1>6
<1> QED  BY <1>1, <1>3, <1>4, <1>5, <1>6, BoundedCopy, BoundedLoad, BoundedIdle DEF Inserting

LEMMA BoundedFetch ==
    ASSUME BoundedInv, Fetch
    PROVE  Bounded' /\ Small(Growth)
<1>1. /\ pc = "fetch" /\ cmd' = cmd /\ dst' = dst /\ event_no' = event_no
      /\ \/ pc' = "end" /\ ident_idx' = ident_idx
         \/ ident_idx' = 1 /\ (pc' = IF cmd = "delete" THEN "erase" ELSE "item")
      BY FetchFacts, SameParts DEF BoundedInv, dst
<1>2. Uncommitted' = Uncommitted /\ Level' = Level /\ Growth = 0
      BY <1>1, UncommittedFacts DEF BoundedInv, Level
<1>3. ASSUME cmd \in {"copy", "move"} PROVE CopyBound'
  <2>1. CopyBound /\ Uncommitted = 0 /\ Level /\ event_no = 0
        BY <1>1, <1>3, DstLengths DEF BoundedInv, Bounded, CopyBound
  <2>2. Uncommitted' < ident_idx'
        BY <1>1, <1>2, <2>1, Numbers DEF BoundedInv
  <2>3. pc' = "end" \/ (pc' = "item" /\ ident_idx' = 1)
        BY <1>1, <1>3
  <2> QED  BY <1>1, <1>2, <2>1, <2>2, <2>3 DEF CopyBound
<1>4. cmd # "load"
      BY <1>1 DEF BoundedInv, TypeInv, Phase
<1> QED  BY <1>1, <1>2, <1>3, <1>4, BoundedCopy, BoundedIdle DEF Inserting

LEMMA BoundedDeleteRest ==
    ASSUME BoundedInv, DeleteRest
    PROVE  Bounded' /\ Small(Growth)
<1>1. /\ pc = "rest" /\ cmd = "move" /\ cmd' = cmd /\ dst' = dst /\ pc' \in {"fetch", "end"}
      /\ UNCHANGED <<event_no, idents, ident_idx>>
      BY DeleteRestFacts, SameParts DEF BoundedInv, TypeInv, Phase, Deleted, OnlySrc, dst
<1>2. Uncommitted' = Uncommitted /\ Level' = Level /\ Growth = 0
      BY <1>1, UncommittedFacts DEF BoundedInv, Level
<1>3. CopyBound
      BY <1>1 DEF BoundedInv, Bounded
<1>4. CopyBound'
      BY <1>1, <1>2, <1>3 DEF CopyBound
<1> QED  BY <1>1, <1>2, <1>4, BoundedCopy

LEMMA BoundedRead ==
    ASSUME BoundedInv, OpenFile \/ NoMoreFiles \/ EndOfFile \/ SkipMessage
    PROVE  Bounded' /\ Small(Growth)
<1>1. /\ cmd = "load" /\ cmd' = cmd /\ ept' = ept /\ event_no' = event_no
      /\ pc \in {"open", "read"} /\ pc' \in {"end", "open", "read", "done"}
      /\ \/ dst' = dst /\ pc' # "done"
         \/ dst' = RolledBack(dst)
      BY OpenFileFacts, ReadFacts, SameParts DEF BoundedInv, OnlyDst, dst
<1>2. LoadBound
      BY <1>1 DEF BoundedInv, Bounded
<1>3. event_no \in Nat /\ Uncommitted \in Int /\ Uncommitted <= event_no
      BY <1>1, <1>2, Numbers, DstLengths DEF BoundedInv, LoadBound
<1>4. \/ dst' = dst /\ pc' # "done" /\ Uncommitted' = Uncommitted
      \/ ~dst'.tx /\ Level' /\ Uncommitted' = 0
      BY <1>1, EndedFacts, UncommittedFacts DEF BoundedInv
<1>5. Growth = 0 \/ Growth = Uncommitted
      BY <1>1, EndedFacts, UncommittedFacts DEF BoundedInv
<1>6. LoadBound'
  <2>1. Uncommitted' <= event_no' /\ Uncommitted' <= event_no' + 1
        BY <1>1, <1>3, <1>4
  <2>2. ept' = 0 => ~dst'.tx
        BY <1>1, <1>2, <1>4 DEF LoadBound
  <2>3. event_no' = 0 \/ event_no' < ept'
        BY <1>1, <1>2 DEF LoadBound
  <2>4. pc' # "start" /\ (pc' = "done" => Level')
        BY <1>1, <1>4
  <2> QED  BY <2>1, <2>2, <2>3, <2>4 DEF LoadBound
<1> QED  BY <1>1, <1>5, <1>6, BoundedLoad

LEMMA BoundedFinish ==
    ASSUME BoundedInv, Finish
    PROVE  Bounded' /\ Small(Growth)
<1>1. /\ pc = "end" /\ pc' = "done" /\ cmd' = cmd /\ ept' = ept
      /\ UNCHANGED <<event_no, idents, ident_idx>>
      BY FinishFacts, SameParts DEF BoundedInv
<1>2. \/ cmd = "delete" /\ dst' = dst
      \/ cmd # "delete" /\ Ended /\ ~dst'.tx
  <2>1. PICK s : /\ s = Committed(db[Target]) \/ s = RolledBack(db[Target])
                 /\ cmd = "delete" => OnlySrc(s)
                 /\ cmd # "delete" => OnlyDst(s)
        BY FinishFacts DEF BoundedInv
  <2>2. CASE cmd = "delete"
        BY <2>1, <2>2 DEF OnlySrc
  <2>3. CASE cmd # "delete"
    <3>1. dst' = Committed(dst) \/ dst' = RolledBack(dst)
          BY <2>1, <2>3 DEF OnlyDst, Target, dst
    <3> QED  BY <2>3, <3>1, EndedFacts DEF BoundedInv
  <2> QED  BY <2>2, <2>3
<1>3. event_no \in Nat /\ ident_idx \in Nat /\ 0 < ident_idx
      BY Numbers DEF BoundedInv
<1>4. CASE cmd \notin Inserting
      BY <1>1, <1>2, <1>4, BoundedIdle
<1>5. CASE cmd \in Inserting
  <2>1. Ended /\ ~dst'.tx
        BY <1>2, <1>5 DEF Inserting
  <2>2. Uncommitted' = 0 /\ Level' /\ (Growth = 0 \/ Growth = Uncommitted)
        BY <2>1, UncommittedFacts DEF BoundedInv
  <2>3. Uncommitted' < ident_idx' /\ Uncommitted' <= event_no' /\ Uncommitted' <= event_no' + 1
        BY <1>1, <1>3, <2>2
  <2>4. CASE cmd = "load"
    <3>1. LoadBound
          BY <2>4 DEF BoundedInv, Bounded
    <3>2. LoadBound'
          BY <1>1, <2>1, <2>2, <2>3, <3>1 DEF LoadBound
    <3> QED  BY <1>1, <2>2, <2>4, <3>2, BoundedLoad
  <2>5. CASE cmd # "load"
    <3>1. CopyBound'
          BY <1>1, <2>2, <2>3 DEF CopyBound
    <3> QED  BY <1>1, <1>5, <2>2, <2>5, <3>1, BoundedCopy DEF Inserting
  <2> QED  BY <2>4, <2>5
<1> QED  BY <1>4, <1>5

LEMMA BoundedResume ==
    ASSUME BoundedInv, Resume
    PROVE  Bounded' /\ Small(Growth)
<1>1. /\ pc = "done" /\ pc' = "start" /\ cmd' = cmd /\ ept' = ept /\ dst' = dst
      /\ event_no' = 0 /\ ident_idx' = 1
      BY ResumeFacts DEF BoundedInv, dst
<1>2. Uncommitted' = Uncommitted /\ Level' = Level /\ Growth = 0
      BY <1>1, UncommittedFacts DEF BoundedInv, Level
<1>3. CASE cmd \notin Inserting
      BY <1>1, <1>3, BoundedIdle
<1>4. CASE cmd \in Inserting
  <2>1. Level /\ Uncommitted = 0 /\ (ept = 0 /\ cmd = "load" => ~dst.tx)
        BY <1>1, <1>4, DstLengths DEF BoundedInv, Bounded, CopyBound, LoadBound, Inserting
  <2>2. Uncommitted' < ident_idx' /\ Uncommitted' <= event_no' /\ Uncommitted' <= event_no' + 1
        BY <1>1, <1>2, <2>1
  <2>3. CASE cmd = "load"
    <3>1. LoadBound'
          BY <1>1, <1>2, <2>1, <2>2, <2>3 DEF LoadBound
    <3> QED  BY <1>1, <1>2, <2>3, <3>1, BoundedLoad
  <2>4. CASE cmd # "load"
    <3>1. CopyBound'
          BY <1>1, <1>2, <2>1, <2>2 DEF CopyBound
    <3> QED  BY <1>1, <1>2, <1>4, <2>4, <3>1, BoundedCopy DEF Inserting
  <2> QED  BY <2>3, <2>4
<1> QED  BY <1>3, <1>4

LEMMA BoundedIdentFails ==
    ASSUME BoundedInv, IdentFails
    PROVE  Bounded' /\ Small(Growth)
<1>1. /\ cmd' = cmd /\ ept' = ept /\ dst' = dst /\ event_no' = event_no /\ pc = "item"
      /\ ident_idx' = ident_idx
      BY IdentFailsFacts, SameParts DEF BoundedInv, dst
<1>2. CASE cmd \notin Inserting
      BY <1>1, <1>2, BoundedIdle
<1>3. CASE cmd \in Inserting
  <2>1. /\ cmd \in {"copy", "move"} /\ pc' = "item" /\ Stopped(ident_idx - 1)
        BY <1>3, IdentFailsFacts DEF BoundedInv, Inserting, Readers
  <2>2. Uncommitted' = Uncommitted /\ Level' = Level /\ Growth = 0
        BY <1>1, UncommittedFacts DEF BoundedInv, Level
  <2>3. ident_idx > Len(idents')
        BY <2>1, Numbers DEF BoundedInv, Stopped
  <2>4. CopyBound
        BY <2>1 DEF BoundedInv, Bounded
  <2>5. CopyBound'
        BY <1>1, <2>1, <2>2, <2>3, <2>4 DEF CopyBound
  <2> QED  BY <1>1, <2>1, <2>2, <2>5, BoundedCopy
<1> QED  BY <1>2, <1>3

LEMMA BoundedStep ==
    ASSUME BoundedInv, [Next]_vars
    PROVE  Bounded' /\ Small(Growth)
<1>1. CASE UNCHANGED vars
  <2>1. UNCHANGED <<cmd, ept, dst, pc, event_no, idents, ident_idx>>
        BY <1>1, Zenon DEF vars, countVars, batchVars, cmd, ept, dst
  <2> QED  BY <2>1, BoundedKept
<1>2. CASE Erase
  <2>1. cmd' = cmd /\ cmd \notin Inserting /\ dst' = dst
        BY <1>2, EraseFacts, SameParts
           DEF BoundedInv, TypeInv, Phase, OnlySrc, dst, Inserting
  <2> QED  BY <2>1, BoundedIdle
<1>3. CASE Emit
  <2>1. cmd' = cmd /\ cmd \notin Inserting /\ dst' = dst
        BY <1>3, EmitFacts, SameParts DEF BoundedInv, dst, Inserting, Readers
  <2> QED  BY <2>1, BoundedIdle
<1>4. CASE Signal
  <2>1. UNCHANGED <<cmd, ept, dst, pc, event_no, idents, ident_idx>>
        BY <1>4, SignalFacts, SameParts DEF BoundedInv, dst
  <2> QED  BY <2>1, BoundedKept
<1>5. CASE Arrive
  <2>1. UNCHANGED <<cmd, ept, dst, pc, event_no, idents, ident_idx>>
        BY <1>5, ArriveFacts DEF BoundedInv, OnlySrc, dst
  <2> QED  BY <2>1, BoundedKept
<1> QED  BY <1>1, <1>2, <1>3, <1>4, <1>5, BoundedStart, BoundedFetch, BoundedFlush,
            BoundedCopyMessage, BoundedTrack, BoundedIdentFails, BoundedEndOfBatch, BoundedDeleteRest,
            BoundedRead, BoundedLoadMessage, BoundedFinish, BoundedResume, Zenon
            DEF Next, Step

\* No COMMIT of a command makes more than --events-per-transaction messages
\* durable at once (flush_transaction_if_needed(), and the batches that
\* fetch_message_idents_limited() cuts to that size).
THEOREM CommitsAreBounded == Spec => TransactionBounded
<1>1. Init => BoundedInv
      BY InitType, InitListed, InitBounded DEF BoundedInv
<1>2. BoundedInv /\ [Next]_vars => BoundedInv'
      BY TypeStep, ListedStep, BoundedStep DEF BoundedInv
<1>3. BoundedInv /\ [Next]_vars =>
          [Len(db'["dst"].kept.msgs) - Len(db["dst"].kept.msgs) <= Max({ept, 1})]_vars
  <2> SUFFICES ASSUME BoundedInv, [Next]_vars
               PROVE  Growth <= Max({ept, 1})
      BY DEF Growth, dst
  <2>1. Small(Growth) /\ ept \in Nat /\ Growth \in Int
    <3>1. Small(Growth) /\ ept \in Nat
          BY BoundedStep, Numbers DEF BoundedInv
    <3>2. Len(dst.kept.msgs) \in Nat
          BY DstLengths DEF BoundedInv
    <3>3. Len(dst'.kept.msgs) \in Nat
      <4>1. TypeInv'
            BY TypeStep DEF BoundedInv
      <4>2. dst'.kept.msgs \in Seq(Msgs)
            BY <4>1 DEF TypeInv, TypeOK, Session, Contents, dst
      <4> QED  BY <4>2
    <3>4. \A a, b \in Nat : a - b \in Int
          OBVIOUS
    <3>5. Growth \in Int
          BY <3>2, <3>3, <3>4, Zenon DEF Growth
    <3> QED  BY <3>1, <3>5
  <2> QED  BY <2>1, MaxOfTwo DEF Small
<1> QED  BY <1>1, <1>2, <1>3, PTL DEF Spec, TransactionBounded

----------------------------------------------------------------------------
(***************************************************************************)
(* A move.  What delete_tbl lists is in the destination, and committed by   *)
(* the time the loop is over; no deletion happens inside the loop, as the   *)
(* table is larger than a batch.                                            *)
(***************************************************************************)
MoveKeeps ==
    cmd = "move" /\ ept < DeleteTblSize /\ "commit" \notin ignored =>
        /\ ~src.tx
        /\ ToSet(dst.kept.msgs) \subseteq ToSet(dst.now.msgs)
        /\ pc \in {"item", "track", "flush", "rest"} =>
               ToSet(delete_tbl) \subseteq ToSet(dst.now.msgs)
        /\ 1..arrived \subseteq ToSet(src.kept.msgs) \cup ToSet(dst.kept.msgs)
MoveInv == BoundedInv /\ Whole /\ MoveKeeps
\* The hypothesis of MoveKeeps, and what it gives a step of the move.
Moving == cmd = "move" /\ ept < DeleteTblSize /\ "commit" \notin ignored
MovingNow ==
    /\ Moving /\ ~src.tx /\ src.now = src.kept
    /\ ToSet(dst.kept.msgs) \subseteq ToSet(dst.now.msgs)
    /\ pc \in {"item", "track", "flush", "rest"} =>
           ToSet(delete_tbl) \subseteq ToSet(dst.now.msgs)
    /\ 1..arrived \subseteq ToSet(src.kept.msgs) \cup ToSet(dst.kept.msgs)

LEMMA EmptySet == ToSet(<<>>) = {}
BY DEF ToSet

LEMMA SrcFields ==
    ASSUME TypeInv
    PROVE  /\ src \in Session /\ src.now \in Contents /\ src.kept \in Contents
           /\ src.now.msgs \in Seq(Msgs) /\ src.kept.msgs \in Seq(Msgs)
           /\ src.tx \in BOOLEAN
           /\ ~src.tx => src.now = src.kept
<1>1. src \in Session /\ src.now \in Contents /\ src.kept \in Contents
      BY ContentsOf DEF src
<1>2. SessionOK(src)
      BY TypeParts DEF DbOK, src
<1> QED  BY <1>1, <1>2 DEF SessionOK, Session, Contents

LEMMA InitMove ==
    ASSUME Init
    PROVE  MoveKeeps
<1>1. src = NewSession([Empty EXCEPT !.msgs = [i \in 1..NumMsgs |-> i]])
      BY DEF Init, src
<1>2. src.kept.msgs = [i \in 1..NumMsgs |-> i] /\ ~src.tx
      BY <1>1 DEF NewSession, Empty
<1>3. dst = NewSession(Empty) /\ pc = "start" /\ arrived = NumMsgs
      BY DEF Init, dst
<1>4. dst.now = dst.kept
      BY <1>3 DEF NewSession
<1>5. 1..NumMsgs \subseteq ToSet([i \in 1..NumMsgs |-> i])
  <2>1. Len([i \in 1..NumMsgs |-> i]) = NumMsgs
        BY MessagesAssumption
  <2> QED  BY <2>1 DEF ToSet
<1> QED  BY <1>2, <1>3, <1>4, <1>5 DEF MoveKeeps

LEMMA MovingFacts ==
    ASSUME MoveInv, Moving
    PROVE  MovingNow
BY SrcFields DEF MoveInv, BoundedInv, MoveKeeps, Moving, MovingNow

\* Deleting messages from a source with no transaction around it.
LEMMA SrcDeleted ==
    ASSUME TypeInv, NEW ms \in SUBSET Msgs, src' = Wrote(src, Without(src.now, ms))
    PROVE  /\ src'.tx = src.tx
           /\ src'.now.msgs \in Seq(Msgs)
           /\ src'.now.msgs = Picked(src.now.msgs, Msgs \ ms)
           /\ ToSet(src'.now.msgs) = ToSet(src.now.msgs) \ ms
           /\ src'.kept = IF src.tx THEN src.kept ELSE src'.now
<1>1. src.now \in Contents /\ src.now.msgs \in Seq(Msgs)
      BY SrcFields
<1>2. Without(src.now, ms) \in Contents
      BY <1>1, ContentsWritten
<1>3. /\ src'.tx = src.tx /\ src'.now = Without(src.now, ms)
      /\ src'.kept = IF src.tx THEN src.kept ELSE src'.now
      BY <1>2, SrcFields, SessionFields
<1>4. src'.now.msgs = Picked(src.now.msgs, Msgs \ ms)
      BY <1>3 DEF Without
<1>5. /\ Picked(src.now.msgs, Msgs \ ms) \in Seq(Msgs)
      /\ ToSet(Picked(src.now.msgs, Msgs \ ms)) = ToSet(src.now.msgs) \cap (Msgs \ ms)
      BY <1>1, PickedMembers
<1>6. ToSet(src.now.msgs) \subseteq Msgs
      BY <1>1 DEF ToSet
<1> QED  BY <1>3, <1>4, <1>5, <1>6

\* Nothing changed but the phase and the counters.
LEMMA MoveKept ==
    ASSUME MoveInv, cmd' = cmd, ept' = ept, ignored \subseteq ignored', arrived' = arrived,
           src' = src, dst'.now = dst.now,
           dst'.kept = dst.kept \/ dst'.kept = dst.now,
           \/ delete_tbl' = <<>>
           \/ /\ delete_tbl' = delete_tbl
              /\ \/ pc' \notin {"item", "track", "flush", "rest"}
                 \/ pc \in {"item", "track", "flush", "rest"}
    PROVE  MoveKeeps'
<1> SUFFICES ASSUME Moving' PROVE MoveKeeps'
    BY DEF Moving, MoveKeeps
<1>1. MovingNow
      BY MovingFacts DEF Moving
<1>2. ~src'.tx /\ ToSet(dst'.kept.msgs) \subseteq ToSet(dst'.now.msgs)
      BY <1>1 DEF MovingNow
<1>3. 1..arrived' \subseteq ToSet(src'.kept.msgs) \cup ToSet(dst'.kept.msgs)
      BY <1>1 DEF MovingNow
<1>4. pc' \in {"item", "track", "flush", "rest"} =>
          ToSet(delete_tbl') \subseteq ToSet(dst'.now.msgs)
      BY <1>1, EmptySet DEF MovingNow
<1> QED  BY <1>2, <1>3, <1>4 DEF MoveKeeps

\* A flush of a transaction that is whole, none of whose COMMITs failed.
LEMMA RenewedWhole ==
    ASSUME TypeInv, ~dst.broken, Renewed(dst, dst'), "commit" \notin ignored'
    PROVE  dst'.now = dst.now /\ dst'.kept = dst.now
<1>1. dst \in Session /\ dst.now \in Contents
      BY ContentsOf DEF dst
<1>2. SessionOK(dst)
      BY TypeParts DEF DbOK, dst
<1>3. Committed(dst) \in Session
      BY <1>1, <1>2, SessionCalls DEF SessionOK
<1>4. Committed(dst).now = dst.now /\ Committed(dst).kept = dst.now
      BY <1>1, SessionFields
<1>5. Begun(Committed(dst)).now = dst.now /\ Begun(Committed(dst)).kept = dst.now
      BY <1>1, <1>3, <1>4, SessionFields
<1> QED  BY <1>4, <1>5, Zenon DEF Renewed

LEMMA MoveCopyMessage ==
    ASSUME MoveInv, CopyMessage
    PROVE  MoveKeeps'
<1> DEFINE m == idents[ident_idx]
<1> SUFFICES ASSUME Moving' PROVE MoveKeeps'
    BY DEF Moving, MoveKeeps
<1>1. /\ pc = "item" /\ cmd' = cmd /\ ept' = ept /\ m \in Msgs /\ src' = src
      /\ ignored' = ignored /\ arrived' = arrived
      /\ \/ dst' = Wrote(dst, With(dst.now, m))
         \/ (dst' = dst \/ dst' = Failed(dst, Torn(dst.now, {m}))) /\ pc' = "end"
      /\ delete_tbl' = delete_tbl \/ delete_tbl' = Append(delete_tbl, m)
      BY CopyMessageFacts, SameParts DEF MoveInv, BoundedInv, OnlyDst, SameCommand, dst, src
<1> HIDE DEF m
<1>2. MovingNow
      BY <1>1, MovingFacts DEF Moving
<1>3. /\ Inserted(m) \/ ((dst' = dst \/ HalfInserted(m)) /\ pc' = "end")
      BY <1>1, InsertedFacts DEF MoveInv, BoundedInv
<1>4. /\ dst.now \in Contents /\ dst.now.msgs \in Seq(Msgs)
      /\ ~dst.tx => dst.now = dst.kept
      BY DstLengths DEF MoveInv, BoundedInv
<1>5. 1..arrived \subseteq ToSet(src.kept.msgs) \cup ToSet(dst.kept.msgs)
      BY <1>2 DEF MovingNow
<1>6. CASE Inserted(m)
  <2>1. dst'.now.msgs = Append(dst.now.msgs, m)
        BY <1>1, <1>4, <1>6, WithFields DEF Inserted
  <2>2. ToSet(dst'.now.msgs) = ToSet(dst.now.msgs) \cup {m}
        BY <1>1, <1>4, <2>1, ToSetAppend
  <2>3. ToSet(delete_tbl') \subseteq ToSet(delete_tbl) \cup {m}
        BY <1>1, ToSetAppend DEF MoveInv, BoundedInv, TypeInv, TypeOK
  <2>4. ToSet(delete_tbl') \subseteq ToSet(dst'.now.msgs)
        BY <1>1, <1>2, <2>2, <2>3 DEF MovingNow
  <2>5. dst'.kept = dst.kept \/ (dst'.kept = dst'.now /\ dst.kept = dst.now)
        BY <1>4, <1>6 DEF Inserted
  <2>6. ToSet(dst.kept.msgs) \subseteq ToSet(dst'.kept.msgs)
        BY <2>2, <2>5
  <2>7. ToSet(dst'.kept.msgs) \subseteq ToSet(dst'.now.msgs)
        BY <1>2, <2>2, <2>5 DEF MovingNow
  <2>8. 1..arrived' \subseteq ToSet(src'.kept.msgs) \cup ToSet(dst'.kept.msgs)
        BY <1>1, <1>5, <2>6
  <2> QED  BY <1>1, <1>2, <2>4, <2>7, <2>8 DEF MoveKeeps, MovingNow
<1>7. CASE (dst' = dst \/ HalfInserted(m)) /\ pc' = "end"
  <2>1. dst'.kept = dst.kept /\ dst'.now.msgs = dst.now.msgs
        BY <1>7 DEF HalfInserted
  <2> QED  BY <1>1, <1>2, <1>5, <1>7, <2>1 DEF MoveKeeps, MovingNow
<1> QED  BY <1>3, <1>6, <1>7

LEMMA MoveTrack ==
    ASSUME MoveInv, TrackDeletion
    PROVE  MoveKeeps'
<1> SUFFICES ASSUME Moving' PROVE MoveKeeps'
    BY DEF Moving, MoveKeeps
<1>1. /\ pc = "track" /\ cmd' = cmd /\ ept' = ept /\ cmd = "move"
      /\ ignored' = ignored /\ arrived' = arrived
      /\ \/ db' = db /\ delete_tbl' = delete_tbl
         \/ (ept > 0 /\ event_no >= ept) \/ Len(delete_tbl) >= DeleteTblSize
      BY TrackDeletionFacts, SameParts DEF MoveInv, BoundedInv, SameCommand, TypeInv, Phase
<1>2. ept < DeleteTblSize
      BY <1>1 DEF Moving
<1>3. event_no < ept /\ Len(delete_tbl) < DeleteTblSize
  <2>1. event_no + 1 < ident_idx /\ Len(delete_tbl) < ident_idx /\ Len(idents) <= ept
        BY <1>1 DEF MoveInv, BoundedInv, Bounded, CopyBound, Listed
  <2> QED  BY <1>2, <2>1, Numbers, EnvironmentAssumption DEF MoveInv, BoundedInv
<1>4. db' = db /\ delete_tbl' = delete_tbl
      BY <1>1, <1>2, <1>3, Numbers, EnvironmentAssumption DEF MoveInv, BoundedInv
<1> QED  BY <1>1, <1>4, MoveKept DEF src, dst

LEMMA MoveDeleteRest ==
    ASSUME MoveInv, DeleteRest
    PROVE  MoveKeeps'
<1> SUFFICES ASSUME Moving' PROVE MoveKeeps'
    BY DEF Moving, MoveKeeps
<1>1. /\ pc = "rest" /\ cmd' = cmd /\ ept' = ept /\ cmd = "move" /\ delete_tbl' = <<>>
      /\ ignored' = ignored /\ arrived' = arrived
      /\ Deleted \/ db' = db
      BY DeleteRestFacts, SameParts DEF MoveInv, BoundedInv, SameCommand, TypeInv, Phase
<1>2. CASE db' = db
      BY <1>1, <1>2, MoveKept DEF src, dst
<1>3. CASE Deleted
  <2>1. MovingNow
        BY <1>1, MovingFacts DEF Moving
  <2>2. src' = Wrote(src, Without(src.now, ToSet(delete_tbl))) /\ dst' = dst
        BY <1>3 DEF Deleted, OnlySrc
  <2>3. ToSet(delete_tbl) \in SUBSET Msgs
        BY DEF MoveInv, BoundedInv, TypeInv, TypeOK, ToSet
  <2>4. /\ src'.tx = src.tx
        /\ ToSet(src'.now.msgs) = ToSet(src.now.msgs) \ ToSet(delete_tbl)
        /\ src'.kept = src'.now
        BY <2>1, <2>2, <2>3, SrcDeleted DEF MoveInv, BoundedInv, MovingNow
  <2>5. ToSet(delete_tbl) \subseteq ToSet(dst.kept.msgs)
    <3>1. dst.now.msgs = dst.kept.msgs
          BY <1>1 DEF MoveInv, BoundedInv, Bounded, CopyBound, Level
    <3> QED  BY <1>1, <2>1, <3>1 DEF MovingNow
  <2>6. 1..arrived' \subseteq ToSet(src'.kept.msgs) \cup ToSet(dst'.kept.msgs)
        BY <1>1, <2>1, <2>2, <2>4, <2>5 DEF MovingNow
  <2> QED  BY <1>1, <2>1, <2>2, <2>4, <2>6, EmptySet DEF MoveKeeps, MovingNow
<1> QED  BY <1>1, <1>2, <1>3

LEMMA MoveFlush ==
    ASSUME MoveInv, Flush \/ EndOfBatch
    PROVE  MoveKeeps'
<1> SUFFICES ASSUME Moving' PROVE MoveKeeps'
    BY DEF Moving, MoveKeeps
<1>1. /\ pc \in {"flush", "item"} /\ cmd' = cmd /\ ept' = ept /\ cmd = "move"
      /\ delete_tbl' = delete_tbl /\ ignored \subseteq ignored' /\ arrived' = arrived
      /\ \E i \in Nat : Flushed(i) \/ NotFlushed(i)
      BY FlushActionFacts, EndOfBatchFacts, SameParts
         DEF MoveInv, BoundedInv, SameCommand, Moving
<1>2. ~dst.broken
      BY <1>1 DEF MoveInv, Whole
<1>3. src' = src /\ (dst' = dst \/ Renewed(dst, dst'))
      BY <1>1, Zenon DEF Flushed, NotFlushed, src, dst
<1>4. dst'.now = dst.now /\ (dst'.kept = dst.kept \/ dst'.kept = dst.now)
      BY <1>2, <1>3, RenewedWhole DEF MoveInv, BoundedInv, Moving
<1> QED  BY <1>1, <1>3, <1>4, MoveKept

\* The end of a transaction, or of the process.
LEMMA MoveFinish ==
    ASSUME MoveInv, Finish
    PROVE  MoveKeeps'
<1> SUFFICES ASSUME Moving' PROVE MoveKeeps'
    BY DEF Moving, MoveKeeps
<1>1. /\ pc' = "done" /\ cmd' = cmd /\ ept' = ept /\ ignored \subseteq ignored'
      /\ arrived' = arrived
      BY FinishFacts, SameParts DEF MoveInv, BoundedInv, SameCommand
<1>2. MovingNow /\ cmd = "move"
      BY <1>1, MovingFacts DEF Moving
<1>3. PICK s : /\ s = Committed(db[Target]) \/ s = RolledBack(db[Target])
               /\ cmd # "delete" => OnlyDst(s)
      BY FinishFacts DEF MoveInv, BoundedInv
<1>4. src' = src /\ (dst' = Committed(dst) \/ dst' = RolledBack(dst))
      BY <1>2, <1>3 DEF OnlyDst, Target, dst
<1>5. dst'.now = dst'.kept /\ (dst'.kept = dst.kept \/ dst'.kept = dst.now)
      BY <1>4, EndedFacts DEF Ended, MoveInv, BoundedInv
<1>6. ToSet(dst.kept.msgs) \subseteq ToSet(dst'.kept.msgs)
      BY <1>2, <1>5 DEF MovingNow
<1> QED  BY <1>1, <1>2, <1>4, <1>5, <1>6 DEF MoveKeeps, MovingNow

LEMMA MoveArrive ==
    ASSUME MoveInv, Arrive
    PROVE  MoveKeeps'
<1> SUFFICES ASSUME Moving' PROVE MoveKeeps'
    BY DEF Moving, MoveKeeps
<1>1. /\ arrived' = arrived + 1 /\ arrived + 1 \in Msgs /\ dst' = dst
      /\ src'.kept = With(src.kept, arrived + 1) /\ src'.tx = src.tx
      /\ UNCHANGED <<cmd, ept, pc, delete_tbl, ignored>>
      BY ArriveFacts DEF MoveInv, BoundedInv, OnlySrc
<1>2. MovingNow
      BY <1>1, MovingFacts DEF Moving
<1>3. ToSet(src'.kept.msgs) = ToSet(src.kept.msgs) \cup {arrived + 1}
  <2>1. src.kept \in Contents /\ src.kept.msgs \in Seq(Msgs)
        BY SrcFields DEF MoveInv, BoundedInv
  <2>2. src'.kept.msgs = Append(src.kept.msgs, arrived + 1)
        BY <1>1, <2>1, WithFields
  <2> QED  BY <1>1, <2>1, <2>2, ToSetAppend
<1>4. 1..(arrived + 1) \subseteq ToSet(src'.kept.msgs) \cup ToSet(dst.kept.msgs)
  <2>1. 1..(arrived + 1) \subseteq (1..arrived) \cup {arrived + 1}
        BY MessagesAssumption DEF MoveInv, BoundedInv, TypeInv, TypeOK
  <2> QED  BY <1>2, <1>3, <2>1 DEF MovingNow
<1> QED  BY <1>1, <1>2, <1>4 DEF MoveKeeps, MovingNow

LEMMA MoveStep ==
    ASSUME MoveInv, [Next]_vars
    PROVE  MoveKeeps'
<1>1. CASE UNCHANGED vars
  <2>1. UNCHANGED <<cmd, ept, ignored, arrived, src, dst, delete_tbl, pc>>
        BY <1>1, Zenon DEF vars, batchVars, envVars, faultVars, cmd, ept, src, dst
  <2> QED  BY <2>1, MoveKept
<1>2. CASE Start
  <2>1. /\ cmd' = cmd /\ ept' = ept /\ ignored \subseteq ignored' /\ arrived' = arrived
        /\ delete_tbl' = delete_tbl /\ pc' \notin {"item", "track", "flush", "rest"}
        /\ cmd = "move" => src' = src /\ (dst' = dst \/ dst' = Begun(dst))
        BY <1>2, StartFacts, SameParts
           DEF MoveInv, BoundedInv, SameCommand, OnlyDst, src, dst
  <2>2. CASE cmd = "move"
    <3>1. dst'.now = dst.now /\ dst'.kept = dst.kept
          BY <2>1, <2>2, BegunFacts DEF MoveInv, BoundedInv
    <3> QED  BY <2>1, <2>2, <3>1, MoveKept
  <2>3. CASE cmd # "move"
        BY <2>1, <2>3 DEF MoveKeeps
  <2> QED  BY <2>2, <2>3
<1>3. CASE Fetch
  <2>1. /\ cmd' = cmd /\ ept' = ept /\ ignored' = ignored /\ arrived' = arrived
        /\ delete_tbl' = delete_tbl /\ delete_tbl = <<>> /\ src' = src /\ dst' = dst
        BY <1>3, FetchFacts, SameParts DEF MoveInv, BoundedInv, Listed, SameCommand, src, dst
  <2> QED  BY <2>1, MoveKept
<1>4. CASE Erase \/ Emit \/ OpenFile \/ NoMoreFiles \/ EndOfFile \/ SkipMessage \/ LoadMessage
  <2>1. cmd' = cmd /\ cmd # "move"
        BY <1>4, EraseFacts, EmitFacts, OpenFileFacts, ReadFacts, LoadMessageFacts, SameParts
           DEF MoveInv, BoundedInv, TypeInv, Phase, Readers
  <2> QED  BY <2>1 DEF MoveKeeps
<1>5. CASE Resume
  <2>1. /\ UNCHANGED <<cmd, ept, ignored, arrived, src, dst>> /\ delete_tbl' = <<>>
        BY <1>5, ResumeFacts DEF MoveInv, BoundedInv, src, dst
  <2> QED  BY <2>1, MoveKept
<1>6. CASE Signal
  <2>1. UNCHANGED <<cmd, ept, ignored, arrived, src, dst, delete_tbl, pc>>
        BY <1>6, SignalFacts, SameParts DEF MoveInv, BoundedInv, src, dst
  <2> QED  BY <2>1, MoveKept
<1>7. CASE IdentFails
  <2>1. UNCHANGED <<cmd, ept, ignored, arrived, src, dst, delete_tbl>> /\ pc = "item"
        BY <1>7, IdentFailsFacts, SameParts DEF MoveInv, BoundedInv, SameCommand, src, dst
  <2> QED  BY <2>1, MoveKept
<1> QED  BY <1>1, <1>2, <1>3, <1>4, <1>5, <1>6, <1>7, MoveCopyMessage, MoveTrack, MoveDeleteRest,
            MoveFlush, MoveFinish, MoveArrive, Zenon DEF Next, Step

\* A move deletes from the source, after the loop of copy_iterate(), what the
\* destination has committed, unless a COMMIT failed unnoticed or the table
\* fills up inside a batch.
THEOREM MovesLoseNothing == Spec => []NothingLost
<1>1. Init => MoveInv
      BY InitType, InitListed, InitBounded, InitWhole, InitMove DEF MoveInv, BoundedInv
<1>2. MoveInv /\ [Next]_vars => MoveInv'
      BY TypeStep, ListedStep, BoundedStep, WholeStep, MoveStep DEF MoveInv, BoundedInv
<1>3. MoveInv => NothingLost
      BY DEF MoveInv, MoveKeeps, NothingLost, src, dst
<1> QED  BY <1>1, <1>2, <1>3, PTL DEF Spec

----------------------------------------------------------------------------
(***************************************************************************)
(* --count.  Room is what the option lets the command still process outside *)
(* of the batch in hand: limit less what the batches have taken out of      *)
(* limit_copy, less what the loop has not gone through yet.  What has left  *)
(* the source, or is listed or about to be deleted, and what has been       *)
(* written, fit in the rest.                                                *)
(***************************************************************************)
Pending == IF pc \in {"item", "track", "flush"} /\ cmd # "delete"
           THEN Len(idents) + 1 - ident_idx ELSE 0
Room == opt.limit - limit_copy - Pending
Doomed == ToSet(delete_tbl) \cup IF pc = "erase" THEN ToSet(idents) ELSE {}
Gone(c) == ((1..arrived) \ ToSet(c.msgs)) \cup Doomed
Counting == cmd # "load" /\ opt.limit >= 0
CountedNow ==
    /\ 0 <= limit_copy /\ limit_copy <= opt.limit
    /\ Len(output) + Len(dst.now.msgs) <= Room
    /\ Len(output) + Len(dst.kept.msgs) <= Room
    /\ Cardinality(Gone(src.now)) <= Room
    /\ Cardinality(Gone(src.kept)) <= Room
Counted == Counting => CountedNow

LEMMA ToSetBound ==
    ASSUME NEW R, NEW s \in Seq(R)
    PROVE  /\ IsFiniteSet(ToSet(s)) /\ Cardinality(ToSet(s)) \in Nat
           /\ Cardinality(ToSet(s)) <= Len(s)
<1>1. Len(s) \in Nat /\ IsFiniteSet(1..Len(s))
      BY FS_Interval
<1>2. s \in Surjection(1..Len(s), ToSet(s))
      BY DEF Surjection, ToSet
<1>3. IsFiniteSet(ToSet(s))
      BY <1>1, <1>2, FS_Surjection
<1>4. Cardinality(ToSet(s)) <= Len(s)
      BY <1>1, <1>2, FS_SurjCardinalityBound DEF ExistsSurjection
<1> QED  BY <1>3, <1>4, FS_CardinalityType

LEMMA CountTypes ==
    ASSUME TypeInv
    PROVE  /\ Pending \in Nat /\ Room \in Int /\ limit_copy \in Int /\ opt.limit \in Int
           /\ Len(output) \in Nat /\ Len(dst.now.msgs) \in Nat /\ Len(dst.kept.msgs) \in Nat
           /\ \A c \in Contents : IsFiniteSet(Gone(c)) /\ Cardinality(Gone(c)) \in Nat
           /\ src.now \in Contents /\ src.kept \in Contents
           /\ IsFiniteSet(Doomed)
<1>1. Pending \in Nat /\ Room \in Int
      BY Numbers, SMTT(20) DEF Pending, Room
<1>2. IsFiniteSet(Doomed)
  <2>1. IsFiniteSet(ToSet(delete_tbl)) /\ IsFiniteSet(ToSet(idents))
        BY ToSetBound DEF TypeInv, TypeOK
  <2> QED  BY <2>1, FS_Union, FS_EmptySet DEF Doomed
<1>3. ASSUME NEW c \in Contents PROVE IsFiniteSet(Gone(c)) /\ Cardinality(Gone(c)) \in Nat
  <2>1. IsFiniteSet((1..arrived) \ ToSet(c.msgs))
    <3>1. IsFiniteSet(1..arrived)
          BY FS_Interval, MessagesAssumption DEF TypeInv, TypeOK
    <3> QED  BY <3>1, FS_Subset
  <2>2. IsFiniteSet(Gone(c))
        BY <1>2, <2>1, FS_Union DEF Gone
  <2> QED  BY <2>2, FS_CardinalityType
<1> QED  BY <1>1, <1>2, <1>3, Numbers, DstLengths, SrcFields

\* A step that loses no message and writes none.
LEMMA CountedKept ==
    ASSUME TypeInv, Counted, cmd' = cmd, opt'.limit = opt.limit, limit_copy' = limit_copy,
           output' = output, Pending' = Pending \/ Pending' = 0,
           dst'.now.msgs = dst.now.msgs \/ dst'.now.msgs = dst.kept.msgs,
           dst'.kept.msgs = dst.now.msgs \/ dst'.kept.msgs = dst.kept.msgs,
           Gone(src.now)' \subseteq Gone(src.now) \/ Gone(src.now)' \subseteq Gone(src.kept),
           Gone(src.kept)' \subseteq Gone(src.now) \/ Gone(src.kept)' \subseteq Gone(src.kept)
    PROVE  Counted'
<1> SUFFICES ASSUME Counting' PROVE CountedNow'
    BY DEF Counted
<1>1. CountedNow
      BY DEF Counted, Counting
<1>2. Room' = Room \/ Room' = opt.limit - limit_copy
  <2>1. Room' = opt.limit - limit_copy - Pending'
        BY DEF Room
  <2>2. opt.limit - limit_copy - 0 = opt.limit - limit_copy
        BY CountTypes
  <2> QED  BY <2>1, <2>2 DEF Room
<1>3. PICK r \in Int : Room' = r /\ Room <= r
  <2>1. Room <= opt.limit - limit_copy /\ opt.limit - limit_copy \in Int /\ Room <= Room
        BY CountTypes DEF Room
  <2> QED  BY <1>2, <2>1, CountTypes
<1>4. /\ Len(output') + Len(dst'.now.msgs) <= Room'
      /\ Len(output') + Len(dst'.kept.msgs) <= Room'
  <2>1. /\ Len(output) + Len(dst.now.msgs) <= r /\ Len(output) + Len(dst.kept.msgs) <= r
        BY <1>1, <1>3, CountTypes DEF CountedNow
  <2> QED  BY <1>3, <2>1
<1>5. \A T : T \subseteq Gone(src.now) \/ T \subseteq Gone(src.kept) => Cardinality(T) <= r
  <2> SUFFICES ASSUME NEW c \in Contents, Cardinality(Gone(c)) <= Room,
                      NEW T \in SUBSET Gone(c)
               PROVE  Cardinality(T) <= r
      BY <1>1, CountTypes DEF CountedNow
  <2>1. IsFiniteSet(Gone(c)) /\ Cardinality(Gone(c)) \in Nat
        BY CountTypes
  <2>2. IsFiniteSet(T) /\ Cardinality(T) <= Cardinality(Gone(c))
        BY <2>1, FS_Subset
  <2> QED  BY <1>3, <2>1, <2>2, FS_CardinalityType, CountTypes
<1>6. Cardinality(Gone(src.now)') <= Room' /\ Cardinality(Gone(src.kept)') <= Room'
      BY <1>3, <1>5
<1>7. 0 <= limit_copy' /\ limit_copy' <= opt'.limit
      BY <1>1 DEF CountedNow
<1> QED  BY <1>4, <1>6, <1>7 DEF CountedNow

\* What a session sees and keeps after its transaction ends or begins: one of
\* the two contents it had.
LEMMA EitherContents ==
    ASSUME NEW s, SessionOK(s), NEW t,
           \/ Renewed(s, t) \/ t = Committed(s) \/ t = RolledBack(s)
           \/ t = Begun(s) \/ t = s
    PROVE  /\ t.now = s.now \/ t.now = s.kept
           /\ t.kept = s.now \/ t.kept = s.kept
<1>1. s \in Session /\ s.now \in Contents
      BY DEF SessionOK, Session
<1>2. Committed(s) \in Session /\ RolledBack(s) \in Session
      BY <1>1, SessionCalls DEF SessionOK
<1>3. /\ Committed(s).now = s.now \/ Committed(s).now = s.kept
      /\ Committed(s).kept = Committed(s).now
      /\ RolledBack(s).now = s.kept /\ RolledBack(s).kept = s.kept
      /\ Begun(s).now = s.now /\ Begun(s).kept = s.kept
      /\ Begun(Committed(s)).now = Committed(s).now
      /\ Begun(Committed(s)).kept = Committed(s).kept
      /\ Begun(RolledBack(s)).now = RolledBack(s).now
      /\ Begun(RolledBack(s)).kept = RolledBack(s).kept
      BY <1>1, <1>2, SessionFields
<1> QED  BY <1>3, Zenon DEF Renewed

LEMMA EitherSrc ==
    ASSUME TypeInv,
           \/ Renewed(src, src') \/ src' = Committed(src) \/ src' = RolledBack(src)
           \/ src' = Begun(src) \/ src' = src
    PROVE  /\ src'.now = src.now \/ src'.now = src.kept
           /\ src'.kept = src.now \/ src'.kept = src.kept
<1>1. SessionOK(src)
      BY TypeParts DEF DbOK, src
<1> QED  BY <1>1, EitherContents

LEMMA EitherDst ==
    ASSUME TypeInv,
           \/ Renewed(dst, dst') \/ dst' = Committed(dst) \/ dst' = RolledBack(dst)
           \/ dst' = Begun(dst) \/ dst' = dst
    PROVE  /\ dst'.now = dst.now \/ dst'.now = dst.kept
           /\ dst'.kept = dst.now \/ dst'.kept = dst.kept
<1>1. SessionOK(dst)
      BY TypeParts DEF DbOK, dst
<1> QED  BY <1>1, EitherContents

\* A step that changes neither database, or only ends or begins transactions.
LEMMA CountedSame ==
    ASSUME TypeInv, Counted, SameCommand, limit_copy' = limit_copy, output' = output,
           Pending' = Pending \/ Pending' = 0, Doomed' \subseteq Doomed,
           src'.now = src.now \/ src'.now = src.kept,
           src'.kept = src.now \/ src'.kept = src.kept,
           dst'.now = dst.now \/ dst'.now = dst.kept,
           dst'.kept = dst.now \/ dst'.kept = dst.kept
    PROVE  Counted'
<1>1. cmd' = cmd /\ opt'.limit = opt.limit /\ arrived' = arrived
      BY SameParts DEF SameCommand
<1>2. /\ Gone(src.now)' \subseteq Gone(src.now) \/ Gone(src.now)' \subseteq Gone(src.kept)
      /\ Gone(src.kept)' \subseteq Gone(src.now) \/ Gone(src.kept)' \subseteq Gone(src.kept)
      BY <1>1 DEF Gone
<1> QED  BY <1>1, <1>2, CountedKept

\* A deletion of what is listed.
LEMMA CountedDeleted ==
    ASSUME TypeInv, Counted, SameCommand, limit_copy' = limit_copy, output' = output,
           Pending' = Pending \/ Pending' = 0, Doomed' = {},
           NEW ms \in SUBSET Msgs, ms \subseteq Doomed,
           src' = Wrote(src, Without(src.now, ms)), dst' = dst
    PROVE  Counted'
<1>1. cmd' = cmd /\ opt'.limit = opt.limit /\ arrived' = arrived
      BY SameParts DEF SameCommand
<1>2. /\ ToSet(src'.now.msgs) = ToSet(src.now.msgs) \ ms
      /\ src'.kept = src.kept \/ src'.kept = src'.now
      BY SrcDeleted
<1>3. Gone(src.now)' \subseteq Gone(src.now)
      BY <1>1, <1>2 DEF Gone
<1>4. Gone(src.kept)' \subseteq Gone(src.now) \/ Gone(src.kept)' \subseteq Gone(src.kept)
      BY <1>1, <1>2, <1>3 DEF Gone
<1> QED  BY <1>1, <1>3, <1>4, CountedKept

LEMMA CountedFetch ==
    ASSUME TypeInv, Listed, Counted, Fetch
    PROVE  Counted'
<1>1. /\ pc = "fetch" /\ SameCommand /\ cmd' = cmd /\ src' = src /\ dst' = dst
      /\ output' = output /\ delete_tbl' = delete_tbl
      /\ \/ pc' = "end" /\ UNCHANGED <<idents, ident_idx, limit_copy>>
         \/ /\ Batch # <<>> /\ idents' = Batch /\ ident_idx' = 1
            /\ limit_copy' = (IF limit_copy > 0 THEN limit_copy - Len(Batch) ELSE limit_copy)
            /\ pc' = (IF cmd = "delete" THEN "erase" ELSE "item")
      BY FetchFacts, SameParts DEF src, dst
<1>2. opt' = opt /\ arrived' = arrived
      BY <1>1 DEF SameCommand
<1>3. CASE pc' = "end" /\ UNCHANGED <<idents, ident_idx, limit_copy>>
  <2>1. Pending' = 0 /\ Doomed' \subseteq Doomed
        BY <1>1, <1>3 DEF Pending, Doomed
  <2> QED  BY <1>1, <1>3, <2>1, CountedSame
<1>4. CASE /\ Batch # <<>> /\ idents' = Batch /\ ident_idx' = 1
           /\ limit_copy' = (IF limit_copy > 0 THEN limit_copy - Len(Batch) ELSE limit_copy)
           /\ pc' = (IF cmd = "delete" THEN "erase" ELSE "item")
  <2> SUFFICES ASSUME Counting' PROVE CountedNow'
      BY DEF Counted
  <2>1. CountedNow
        BY <1>1, <1>2 DEF Counted, Counting
  <2> DEFINE n == Len(Batch)
  <2>2. n \in Nat /\ n >= 1 /\ n <= limit_copy /\ Batch \in Seq(Msgs)
    <3>1. Batch \in Seq(Msgs) /\ Len(Batch) \in Nat /\ Len(Batch) <= limit_copy
          BY <1>4, <2>1, BatchType, BatchLength DEF CountedNow
    <3>2. Len(Batch) # 0
          BY <1>4, <3>1
    <3> QED  BY <3>1, <3>2
  <2>3. limit_copy' = limit_copy - n /\ limit_copy \in Int /\ opt.limit \in Int
        BY <1>4, <2>2, CountTypes
  <2>4. Pending = 0 /\ Room = opt.limit - limit_copy
        BY <1>1, CountTypes DEF Pending, Room
  <2>5. Pending' = IF cmd = "delete" THEN 0 ELSE n
    <3>1. n + 1 - 1 = n
          BY <2>2
    <3> QED  BY <1>1, <1>4, <3>1 DEF Pending
  <2> HIDE DEF n
  <2>6. Room' = IF cmd = "delete" THEN Room + n ELSE Room
    <3>1. Room' = opt.limit - (limit_copy - n) - Pending'
          BY <1>2, <2>3 DEF Room
    <3>2. /\ opt.limit - (limit_copy - n) - 0 = opt.limit - limit_copy + n
          /\ opt.limit - (limit_copy - n) - n = opt.limit - limit_copy
          BY <2>2, <2>3
    <3> QED  BY <2>4, <2>5, <3>1, <3>2
  <2>7. /\ Len(output') + Len(dst'.now.msgs) <= Room'
        /\ Len(output') + Len(dst'.kept.msgs) <= Room'
    <3>1. /\ Len(output) + Len(dst.now.msgs) <= Room
          /\ Len(output) + Len(dst.kept.msgs) <= Room
          BY <2>1, Zenon DEF CountedNow
    <3>2. /\ Len(output) \in Nat /\ Len(dst.now.msgs) \in Nat /\ Len(dst.kept.msgs) \in Nat
          /\ Room \in Int
          BY CountTypes
    <3>3. Room' = Room + n \/ Room' = Room
          BY <2>6
    <3> QED  BY <1>1, <2>2, <3>1, <3>2, <3>3
  <2>8. 0 <= limit_copy' /\ limit_copy' <= opt'.limit
        BY <1>2, <2>1, <2>2, <2>3 DEF CountedNow
  <2>9. ASSUME NEW c \in Contents, Cardinality(Gone(c)) <= Room,
               NEW T, T \subseteq Gone(c) \cup IF cmd = "delete" THEN ToSet(Batch) ELSE {}
        PROVE  Cardinality(T) <= Room'
    <3>1. IsFiniteSet(Gone(c)) /\ Cardinality(Gone(c)) \in Nat /\ Room \in Int
          BY CountTypes
    <3>2. CASE cmd = "delete"
      <4>1. /\ IsFiniteSet(ToSet(Batch)) /\ Cardinality(ToSet(Batch)) \in Nat
            /\ Cardinality(ToSet(Batch)) <= n
            BY <2>2, ToSetBound DEF n
      <4>2. /\ IsFiniteSet(Gone(c) \cup ToSet(Batch))
            /\ Cardinality(Gone(c) \cup ToSet(Batch))
                   = Cardinality(Gone(c)) + Cardinality(ToSet(Batch))
                     - Cardinality(Gone(c) \cap ToSet(Batch))
            BY <3>1, <4>1, FS_Union
      <4>3. Cardinality(Gone(c) \cap ToSet(Batch)) \in Nat
            BY <3>1, FS_Subset, FS_CardinalityType
      <4>4. Cardinality(T) <= Cardinality(Gone(c) \cup ToSet(Batch)) /\ Cardinality(T) \in Nat
            BY <2>9, <3>2, <4>2, FS_Subset, FS_CardinalityType
      <4>5. Cardinality(T) <= Room + n
            BY <2>2, <2>9, <3>1, <4>1, <4>2, <4>3, <4>4
      <4> QED  BY <2>6, <3>2, <4>5
    <3>3. CASE cmd # "delete"
      <4>1. Cardinality(T) <= Cardinality(Gone(c)) /\ Cardinality(T) \in Nat
            BY <2>9, <3>1, <3>3, FS_Subset, FS_CardinalityType
      <4>2. Cardinality(T) <= Room
            BY <2>9, <3>1, <4>1
      <4> QED  BY <2>6, <3>3, <4>2
    <3> QED  BY <3>2, <3>3
  <2>10. Doomed' = Doomed \cup IF cmd = "delete" THEN ToSet(Batch) ELSE {}
        BY <1>1, <1>4 DEF Doomed
  <2>11. /\ Gone(src.now)' = Gone(src.now) \cup IF cmd = "delete" THEN ToSet(Batch) ELSE {}
         /\ Gone(src.kept)' = Gone(src.kept) \cup IF cmd = "delete" THEN ToSet(Batch) ELSE {}
        BY <1>1, <1>2, <2>10 DEF Gone
  <2>12. Cardinality(Gone(src.now)') <= Room' /\ Cardinality(Gone(src.kept)') <= Room'
        BY <2>1, <2>9, <2>11, CountTypes DEF CountedNow
  <2> QED  BY <2>7, <2>8, <2>12 DEF CountedNow
<1> QED  BY <1>1, <1>3, <1>4

LEMMA OneMoreGone ==
    ASSUME TypeInv, NEW c \in Contents, Cardinality(Gone(c)) <= Room, NEW m,
           NEW T, T \subseteq Gone(c) \cup {m}
    PROVE  Cardinality(T) <= Room + 1
<1>1. IsFiniteSet(Gone(c)) /\ Cardinality(Gone(c)) \in Nat /\ Room \in Int
      BY CountTypes
<1>2. /\ IsFiniteSet(Gone(c) \cup {m})
      /\ Cardinality(Gone(c) \cup {m}) = Cardinality(Gone(c))
             \/ Cardinality(Gone(c) \cup {m}) = Cardinality(Gone(c)) + 1
      BY <1>1, FS_AddElement
<1>3. Cardinality(T) <= Cardinality(Gone(c) \cup {m}) /\ Cardinality(T) \in Nat
      BY <1>2, FS_Subset, FS_CardinalityType
<1> QED  BY <1>1, <1>2, <1>3

\* The item of the batch a loop goes past gives the room of one message.
LEMMA OneMoreRoom ==
    ASSUME TypeInv, pc = "item", pc' \in {"item", "track", "flush"}, cmd # "delete",
           ident_idx <= Len(idents), SameCommand, cmd' = cmd,
           limit_copy' = limit_copy, idents' = idents, ident_idx' = ident_idx + 1
    PROVE  Room' = Room + 1
<1>1. Pending = Len(idents) + 1 - ident_idx
      BY DEF Pending
<1>2. Pending' = Len(idents) + 1 - (ident_idx + 1)
      BY DEF Pending
<1>3. opt' = opt
      BY DEF SameCommand
<1>4. Room' = opt.limit - limit_copy - (Len(idents) + 1 - (ident_idx + 1))
      BY <1>2, <1>3 DEF Room
<1>5. Room = opt.limit - limit_copy - (Len(idents) + 1 - ident_idx)
      BY <1>1 DEF Room
<1>6. opt.limit \in Int /\ limit_copy \in Int /\ Len(idents) \in Int /\ ident_idx \in Int
      BY Numbers
<1> QED  BY <1>4, <1>5, <1>6

LEMMA CountedCopyMessage ==
    ASSUME TypeInv, Counted, CopyMessage
    PROVE  Counted'
<1> DEFINE m == idents[ident_idx]
<1>1. /\ pc = "item" /\ cmd \in {"copy", "move"} /\ ident_idx <= Len(idents) /\ m \in Msgs
      /\ SameCommand /\ cmd' = cmd /\ src' = src
      /\ limit_copy' = limit_copy /\ output' = output
      /\ idents' = idents /\ ident_idx' = ident_idx + 1
      /\ delete_tbl' = delete_tbl \/ delete_tbl' = Append(delete_tbl, m)
      /\ \/ dst' = Wrote(dst, With(dst.now, m)) /\ pc' \in {"track", "flush"}
         \/ /\ dst' = dst \/ dst' = Failed(dst, Torn(dst.now, {m}))
            /\ pc' = "end" /\ delete_tbl' = delete_tbl
      BY CopyMessageFacts, SameParts DEF OnlyDst, dst, src
<1> HIDE DEF m
<1>2. \/ Inserted(m) /\ pc' \in {"track", "flush"}
      \/ (dst' = dst \/ HalfInserted(m)) /\ pc' = "end" /\ delete_tbl' = delete_tbl
      BY <1>1, InsertedFacts
<1>3. opt' = opt /\ arrived' = arrived
      BY <1>1 DEF SameCommand
<1>4. CASE (dst' = dst \/ HalfInserted(m)) /\ pc' = "end" /\ delete_tbl' = delete_tbl
  <2>1. Pending' = 0 /\ Doomed' \subseteq Doomed
        BY <1>4 DEF Pending, Doomed
  <2>2. /\ Gone(src.now)' \subseteq Gone(src.now)
        /\ Gone(src.kept)' \subseteq Gone(src.kept)
        BY <1>1, <1>3, <2>1 DEF Gone
  <2>3. dst'.now.msgs = dst.now.msgs /\ dst'.kept.msgs = dst.kept.msgs
        BY <1>4 DEF HalfInserted
  <2> QED  BY <1>1, <1>3, <2>1, <2>2, <2>3, CountedKept
<1>5. CASE Inserted(m) /\ pc' \in {"track", "flush"}
  <2> SUFFICES ASSUME Counting' PROVE CountedNow'
      BY DEF Counted
  <2>1. CountedNow
        BY <1>1, <1>3 DEF Counted, Counting
  <2>2. Room' = Room + 1
        BY <1>1, <1>5, OneMoreRoom
  <2>3. /\ Len(dst'.now.msgs) = Len(dst.now.msgs) + 1
        /\ dst'.kept.msgs = dst.kept.msgs \/ dst'.kept.msgs = dst'.now.msgs
    <3>1. dst.now \in Contents
          BY DstLengths
    <3>2. Len(With(dst.now, m).msgs) = Len(dst.now.msgs) + 1
          BY <1>1, <3>1, WithFields
    <3> QED  BY <1>5, <3>2 DEF Inserted
  <2>4. /\ Len(output') + Len(dst'.now.msgs) <= Room'
        /\ Len(output') + Len(dst'.kept.msgs) <= Room'
    <3>1. /\ Len(output) + (Len(dst.now.msgs) + 1) <= Room + 1
          /\ Len(output) + Len(dst.kept.msgs) <= Room + 1
      <4>1. Len(output) + Len(dst.now.msgs) <= Room /\ Len(output) + Len(dst.kept.msgs) <= Room
            BY <2>1 DEF CountedNow
      <4>2. /\ Len(output) \in Int /\ Len(dst.now.msgs) \in Int /\ Len(dst.kept.msgs) \in Int
            /\ Room \in Int
            BY CountTypes
      <4>3. \A a, b, c, r \in Int : a + b <= r /\ a + c <= r
               => a + (b + 1) <= r + 1 /\ a + c <= r + 1
            OBVIOUS
      <4>4. Len(dst.kept.msgs) \in Int
            BY CountTypes
      <4> QED  BY <4>1, <4>2, <4>3, <4>4, Zenon
    <3>2. output' = output
          BY <1>1
    <3> QED  BY <2>2, <2>3, <3>1, <3>2
  <2>5. ToSet(delete_tbl') \subseteq ToSet(delete_tbl) \cup {m}
        BY <1>1, ToSetAppend DEF TypeInv, TypeOK
  <2>6. Doomed' \subseteq Doomed \cup {m}
        BY <1>5, <2>5 DEF Doomed
  <2>7. /\ Gone(src.now)' \subseteq Gone(src.now) \cup {m}
        /\ Gone(src.kept)' \subseteq Gone(src.kept) \cup {m}
        BY <1>1, <1>3, <2>6 DEF Gone
  <2>8. Cardinality(Gone(src.now)') <= Room + 1 /\ Cardinality(Gone(src.kept)') <= Room + 1
        BY <2>1, <2>7, OneMoreGone, CountTypes DEF CountedNow
  <2>9. 0 <= limit_copy' /\ limit_copy' <= opt'.limit
        BY <1>1, <1>3, <2>1 DEF CountedNow
  <2> QED  BY <2>2, <2>4, <2>8, <2>9 DEF CountedNow
<1> QED  BY <1>2, <1>4, <1>5

LEMMA CountedEmit ==
    ASSUME TypeInv, Counted, Emit
    PROVE  Counted'
<1>1. /\ pc = "item" /\ cmd # "delete" /\ pc' \in {"item", "fetch", "end"}
      /\ SameCommand /\ cmd' = cmd /\ src' = src /\ dst' = dst
      /\ limit_copy' = limit_copy /\ idents' = idents /\ delete_tbl' = delete_tbl
      /\ pc' = "item" => ident_idx <= Len(idents) /\ ident_idx' = ident_idx + 1
      /\ output' = output \/ (pc' = "item" /\ output' = Append(output, idents[ident_idx]))
      BY EmitFacts, SameParts DEF dst, src, Readers
<1>2. opt' = opt /\ arrived' = arrived
      BY <1>1 DEF SameCommand
<1>3. Doomed' = Doomed
      BY <1>1 DEF Doomed
<1>4. CASE pc' # "item"
  <2>1. Pending' = 0
        BY <1>1, <1>4 DEF Pending
  <2> QED  BY <1>1, <1>3, <1>4, <2>1, CountedSame
<1>5. CASE pc' = "item"
  <2> SUFFICES ASSUME Counting' PROVE CountedNow'
      BY DEF Counted
  <2>1. CountedNow
        BY <1>1, <1>2 DEF Counted, Counting
  <2>2. Room' = Room + 1
        BY <1>1, <1>5, OneMoreRoom
  <2>3. Len(output') = Len(output) \/ Len(output') = Len(output) + 1
    <3>1. output \in Seq(Msgs) /\ idents[ident_idx] \in Msgs
          BY <1>1, <1>5, CurrentIdent DEF TypeInv, TypeOK
    <3> QED  BY <1>1, <3>1
  <2>4. /\ Len(output') + Len(dst'.now.msgs) <= Room'
        /\ Len(output') + Len(dst'.kept.msgs) <= Room'
    <3>1. /\ (Len(output) + 1) + Len(dst.now.msgs) <= Room + 1
          /\ (Len(output) + 1) + Len(dst.kept.msgs) <= Room + 1
          /\ Len(output) + Len(dst.now.msgs) <= Room + 1
          /\ Len(output) + Len(dst.kept.msgs) <= Room + 1
      <4>1. Len(output) + Len(dst.now.msgs) <= Room /\ Len(output) + Len(dst.kept.msgs) <= Room
            BY <2>1 DEF CountedNow
      <4>2. /\ Len(output) \in Int /\ Len(dst.now.msgs) \in Int /\ Len(dst.kept.msgs) \in Int
            /\ Room \in Int
            BY CountTypes
      <4>3. \A a, b, r \in Int : a + b <= r => (a + 1) + b <= r + 1 /\ a + b <= r + 1
            OBVIOUS
      <4> QED  BY <4>1, <4>2, <4>3, Zenon
    <3> QED  BY <1>1, <2>2, <2>3, <3>1
  <2>5. Gone(src.now)' = Gone(src.now) /\ Gone(src.kept)' = Gone(src.kept)
        BY <1>1, <1>2, <1>3 DEF Gone
  <2>6. Cardinality(Gone(src.now)') <= Room' /\ Cardinality(Gone(src.kept)') <= Room'
    <3>1. Cardinality(Gone(src.now)) <= Room + 1 /\ Cardinality(Gone(src.kept)) <= Room + 1
          BY <2>1, CountTypes DEF CountedNow
    <3> QED  BY <2>2, <2>5, <3>1
  <2>7. 0 <= limit_copy' /\ limit_copy' <= opt'.limit
        BY <1>1, <1>2, <2>1 DEF CountedNow
  <2> QED  BY <2>4, <2>6, <2>7 DEF CountedNow
<1> QED  BY <1>4, <1>5

\* Deleting a batch, or failing halfway.
\* A deletion that stopped midway leaves the row that lists each message of the
\* batch, or takes it.
LEMMA HalfDeletedMsgs ==
    ASSUME TypeInv, NEW ms \in SUBSET Msgs, NEW c \in HalfDeleted(src.now, ms)
    PROVE  /\ c \in Contents
           /\ c.msgs = src.now.msgs \/ c.msgs = Picked(src.now.msgs, Msgs \ ms)
<1>1. src.now \in Contents
      BY SrcFields
<1>2. c \in Contents /\ Without(src.now, ms) \in Contents
      BY <1>1, ContentsWritten
<1>3. \A d \in Contents : Torn(d, ms).msgs = d.msgs
      BY TornFields
<1>4. Without(src.now, ms).msgs = Picked(src.now.msgs, Msgs \ ms)
      BY DEF Without
<1> QED  BY <1>1, <1>2, <1>3, <1>4 DEF HalfDeleted

LEMMA CountedErase ==
    ASSUME TypeInv, Counted, Erase
    PROVE  Counted'
<1>1. /\ pc = "erase" /\ pc' = "flush" /\ cmd = "delete" /\ SameCommand
      /\ dst' = dst /\ limit_copy' = limit_copy /\ output' = output
      /\ delete_tbl' = delete_tbl /\ delete_tbl = <<>>
      /\ \/ src' = Wrote(src, Without(src.now, ToSet(idents)))
         \/ \E c \in HalfDeleted(src.now, ToSet(idents)) : src' = Failed(src, c)
      BY EraseFacts DEF OnlySrc, TypeInv, Phase, dst
<1>2. ToSet(idents) \in SUBSET Msgs /\ ToSet(idents) \subseteq Doomed
      BY <1>1 DEF TypeInv, TypeOK, ToSet, Doomed
<1>3. Pending' = 0 /\ Doomed' = {}
      BY <1>1, SameParts, EmptySet DEF Pending, Doomed
<1>4. CASE src' = Wrote(src, Without(src.now, ToSet(idents)))
      BY <1>1, <1>2, <1>3, <1>4, CountedDeleted
<1>5. CASE \E c \in HalfDeleted(src.now, ToSet(idents)) : src' = Failed(src, c)
  <2>1. PICK c \in HalfDeleted(src.now, ToSet(idents)) : src' = Failed(src, c)
        BY <1>5
  <2>2. src.now \in Contents /\ src \in Session
        BY SrcFields
  <2>3. /\ c \in Contents
        /\ c.msgs = src.now.msgs \/ c.msgs = Picked(src.now.msgs, Msgs \ ToSet(idents))
        BY <1>2, HalfDeletedMsgs
  <2>5. ToSet(src.now.msgs) \ ToSet(idents) \subseteq ToSet(c.msgs)
    <3>1. /\ src.now.msgs \in Seq(Msgs) /\ ToSet(src.now.msgs) \subseteq Msgs
          BY SrcFields DEF ToSet
    <3>2. ToSet(Picked(src.now.msgs, Msgs \ ToSet(idents)))
              = ToSet(src.now.msgs) \cap (Msgs \ ToSet(idents))
          BY <3>1, PickedMembers
    <3> QED  BY <2>3, <3>1, <3>2
  <2>6. /\ src'.kept = src.kept
        /\ src'.now = c \/ src'.now = src.now
        BY <2>1, <2>2, <2>3, FailedFields
  <2>7. cmd' = cmd /\ opt'.limit = opt.limit /\ arrived' = arrived
        BY <1>1, SameParts DEF SameCommand
  <2>8. Gone(src.now)' \subseteq Gone(src.now) /\ Gone(src.kept)' \subseteq Gone(src.kept)
        BY <1>2, <1>3, <2>5, <2>6, <2>7 DEF Gone
  <2> QED  BY <1>1, <1>3, <2>7, <2>8, CountedKept
<1> QED  BY <1>1, <1>4, <1>5

LEMMA CountedArrive ==
    ASSUME TypeInv, Counted, Arrive
    PROVE  Counted'
<1>1. /\ arrived' = arrived + 1 /\ arrived + 1 \in Msgs /\ dst' = dst
      /\ src'.now = With(src.now, arrived + 1) /\ src'.kept = With(src.kept, arrived + 1)
      /\ UNCHANGED <<opt, cmd, pc, limit_copy, output, idents, ident_idx, delete_tbl>>
      BY ArriveFacts DEF OnlySrc
<1>2. Pending' = Pending /\ Doomed' = Doomed
      BY <1>1 DEF Pending, Doomed
<1>3. ASSUME NEW c \in Contents
      PROVE  ToSet(With(c, arrived + 1).msgs) = ToSet(c.msgs) \cup {arrived + 1}
      BY <1>1, WithFields, ToSetAppend DEF Contents
<1>4. /\ ToSet(src'.now.msgs) = ToSet(src.now.msgs) \cup {arrived + 1}
      /\ ToSet(src'.kept.msgs) = ToSet(src.kept.msgs) \cup {arrived + 1}
      BY <1>1, <1>3, SrcFields
<1>5. 1..(arrived + 1) \subseteq (1..arrived) \cup {arrived + 1}
      BY MessagesAssumption DEF TypeInv, TypeOK
<1>6. Gone(src.now)' \subseteq Gone(src.now) /\ Gone(src.kept)' \subseteq Gone(src.kept)
      BY <1>1, <1>2, <1>4, <1>5 DEF Gone
<1> QED  BY <1>1, <1>2, <1>6, CountedKept

LEMMA InitCounted ==
    ASSUME Init
    PROVE  Counted
<1> SUFFICES ASSUME Counting PROVE CountedNow
    BY DEF Counted
<1>1. TypeInv
      BY InitType
<1>2. /\ dst = NewSession(Empty) /\ pc = "start" /\ limit_copy = opt.limit /\ output = <<>>
      /\ delete_tbl = <<>> /\ arrived = NumMsgs
      /\ src = NewSession([Empty EXCEPT !.msgs = [i \in 1..NumMsgs |-> i]])
      BY DEF Init, dst, src
<1>3. Pending = 0 /\ Room = 0
  <2>1. Pending = 0
        BY <1>2 DEF Pending
  <2> QED  BY <1>1, <1>2, <2>1, CountTypes DEF Room
<1>4. Doomed = {}
      BY <1>2, EmptySet DEF Doomed
<1>5. dst.now.msgs = <<>> /\ dst.kept.msgs = <<>>
      BY <1>2 DEF NewSession, Empty
<1>6. /\ src.now.msgs = [i \in 1..NumMsgs |-> i]
      /\ src.kept.msgs = [i \in 1..NumMsgs |-> i]
      BY <1>2 DEF NewSession, Empty
<1>7. 1..NumMsgs \subseteq ToSet([i \in 1..NumMsgs |-> i])
  <2>1. Len([i \in 1..NumMsgs |-> i]) = NumMsgs
        BY MessagesAssumption
  <2> QED  BY <2>1 DEF ToSet
<1>8. Gone(src.now) = {} /\ Gone(src.kept) = {}
      BY <1>2, <1>4, <1>6, <1>7 DEF Gone
<1>9. Cardinality({}) = 0
      BY FS_EmptySet
<1>10. 0 <= limit_copy /\ limit_copy <= opt.limit
      BY <1>1, <1>2, CountTypes DEF Counting
<1>11. Len(output) = 0 /\ Len(dst.now.msgs) = 0 /\ Len(dst.kept.msgs) = 0
      BY <1>2, <1>5
<1>12. Cardinality(Gone(src.now)) = 0 /\ Cardinality(Gone(src.kept)) = 0
      BY <1>8, <1>9
<1> QED  BY <1>3, <1>10, <1>11, <1>12 DEF CountedNow

LEMMA CountedStep ==
    ASSUME TypeInv, Listed, Counted, [Next]_vars
    PROVE  Counted'
<1>1. CASE UNCHANGED vars
  <2>1. /\ UNCHANGED <<opt, origin, cmd, arrived, limit_copy, output, src, dst, pc, idents, ident_idx,
                       delete_tbl>>
        BY <1>1, Zenon DEF vars, countVars, batchVars, outVars, envVars, cmd, src, dst
  <2>2. Pending' = Pending /\ Doomed' = Doomed
        BY <2>1 DEF Pending, Doomed
  <2>3. SameCommand
        BY <2>1 DEF SameCommand
  <2> QED  BY <2>1, <2>2, <2>3, CountedSame
<1>2. CASE Start
  <2>1. /\ SameCommand /\ limit_copy' = limit_copy /\ output' = output
        /\ pc' \in {"open", "fetch"} /\ delete_tbl' = delete_tbl
        /\ src' = src \/ src' = Begun(src)
        /\ dst' = dst \/ dst' = Begun(dst)
        BY <1>2, StartFacts DEF OnlySrc, OnlyDst, src, dst
  <2>2. Pending' = 0 /\ Doomed' \subseteq Doomed
        BY <2>1 DEF Pending, Doomed
  <2> QED  BY <2>1, <2>2, EitherSrc, EitherDst, CountedSame
<1>3. CASE Flush
  <2>1. /\ SameCommand /\ cmd' = cmd /\ limit_copy' = limit_copy /\ output' = output
        /\ pc = "flush" /\ pc' \in {"fetch", "end", "read", "item"}
        /\ UNCHANGED <<idents, ident_idx, delete_tbl>>
        /\ cmd = "delete" => pc' \in {"fetch", "end"}
        /\ src' = src \/ Renewed(src, src')
        /\ dst' = dst \/ Renewed(dst, dst')
        BY <1>3, FlushActionFacts, SameParts DEF Flushed, NotFlushed, src, dst
  <2>2. Pending' = Pending \/ Pending' = 0
        BY <2>1 DEF Pending
  <2>3. Doomed' \subseteq Doomed
        BY <2>1 DEF Doomed
  <2> QED  BY <2>1, <2>2, <2>3, EitherSrc, EitherDst, CountedSame
<1>4. CASE TrackDeletion
  <2>1. /\ SameCommand /\ cmd' = cmd /\ limit_copy' = limit_copy /\ output' = output
        /\ pc = "track" /\ pc' \in {"flush", "item"}
        /\ UNCHANGED <<idents, ident_idx>>
        /\ \/ src' = src /\ dst' = dst /\ delete_tbl' = delete_tbl
           \/ /\ src' = Wrote(src, Without(src.now, ToSet(delete_tbl))) /\ dst' = dst
              /\ delete_tbl' = <<>>
        BY <1>4, TrackDeletionFacts, SameParts DEF Deleted, OnlySrc, src, dst
  <2>2. Pending' = Pending
        BY <2>1 DEF Pending
  <2>3. CASE src' = src /\ dst' = dst /\ delete_tbl' = delete_tbl
    <3>1. Doomed' \subseteq Doomed
          BY <2>1, <2>3 DEF Doomed
    <3> QED  BY <2>1, <2>2, <2>3, <3>1, CountedSame
  <2>4. CASE /\ src' = Wrote(src, Without(src.now, ToSet(delete_tbl))) /\ dst' = dst
             /\ delete_tbl' = <<>>
    <3>1. Doomed' = {} /\ ToSet(delete_tbl) \subseteq Doomed
          BY <2>1, <2>4, EmptySet DEF Doomed
    <3>2. ToSet(delete_tbl) \in SUBSET Msgs
          BY DEF TypeInv, TypeOK, ToSet
    <3> QED  BY <2>1, <2>2, <2>4, <3>1, <3>2, CountedDeleted
  <2> QED  BY <2>1, <2>3, <2>4
<1>5. CASE EndOfBatch
  <2>1. /\ SameCommand /\ limit_copy' = limit_copy /\ output' = output
        /\ pc' \in {"rest", "fetch", "end"} /\ delete_tbl' = delete_tbl
        /\ src' = src \/ Renewed(src, src')
        /\ dst' = dst \/ Renewed(dst, dst')
        BY <1>5, EndOfBatchFacts DEF Flushed, NotFlushed, src, dst
  <2>2. Pending' = 0 /\ Doomed' \subseteq Doomed
        BY <2>1 DEF Pending, Doomed
  <2> QED  BY <2>1, <2>2, EitherSrc, EitherDst, CountedSame
<1>6. CASE DeleteRest
  <2>1. /\ SameCommand /\ limit_copy' = limit_copy /\ output' = output
        /\ pc' \in {"fetch", "end"} /\ delete_tbl' = <<>>
        /\ \/ src' = src /\ dst' = dst
           \/ src' = Wrote(src, Without(src.now, ToSet(delete_tbl))) /\ dst' = dst
        BY <1>6, DeleteRestFacts DEF Deleted, OnlySrc, src, dst
  <2>2. Pending' = 0 /\ Doomed' = {} /\ ToSet(delete_tbl) \subseteq Doomed
        BY <2>1, EmptySet DEF Pending, Doomed
  <2>3. ToSet(delete_tbl) \in SUBSET Msgs
        BY DEF TypeInv, TypeOK, ToSet
  <2> QED  BY <2>1, <2>2, <2>3, CountedSame, CountedDeleted
<1>7. CASE OpenFile \/ NoMoreFiles \/ EndOfFile \/ SkipMessage \/ LoadMessage
  <2>1. cmd' = cmd /\ cmd = "load"
        BY <1>7, OpenFileFacts, ReadFacts, LoadMessageFacts, SameParts
  <2> QED  BY <2>1 DEF Counted, Counting
<1>8. CASE Finish
  <2>1. /\ SameCommand /\ limit_copy' = limit_copy /\ output' = output
        /\ pc' = "done" /\ delete_tbl' = delete_tbl
        BY <1>8, FinishFacts
  <2>2. PICK s : /\ s = Committed(db[Target]) \/ s = RolledBack(db[Target])
                 /\ cmd = "delete" => OnlySrc(s)
                 /\ cmd # "delete" => OnlyDst(s)
        BY <1>8, FinishFacts
  <2>3. /\ src' = src \/ src' = Committed(src) \/ src' = RolledBack(src)
        /\ dst' = dst \/ dst' = Committed(dst) \/ dst' = RolledBack(dst)
        BY <2>2, Zenon DEF OnlySrc, OnlyDst, Target, src, dst
  <2>4. Pending' = 0 /\ Doomed' \subseteq Doomed
        BY <2>1 DEF Pending, Doomed
  <2> QED  BY <2>1, <2>3, <2>4, EitherSrc, EitherDst, CountedSame
<1>9. CASE Resume
  <2>1. opt'.limit = opt.limit /\ opt.limit < 0 /\ opt.limit \in Int
        BY <1>9, ResumeFacts, CountTypes
  <2> QED  BY <2>1 DEF Counted, Counting
<1>10. CASE Signal
  <2>1. /\ UNCHANGED <<opt, origin, cmd, arrived, limit_copy, output, src, dst, pc, idents, ident_idx,
                       delete_tbl>>
        BY <1>10, SignalFacts, SameParts DEF src, dst
  <2>2. Pending' = Pending /\ Doomed' = Doomed
        BY <2>1 DEF Pending, Doomed
  <2>3. SameCommand
        BY <2>1 DEF SameCommand
  <2> QED  BY <2>1, <2>2, <2>3, CountedSame
<1>11. CASE IdentFails
  <2>1. /\ SameCommand /\ limit_copy' = limit_copy /\ output' = output /\ pc = "item"
        /\ pc' \in {"item", "fetch", "end"} /\ delete_tbl' = delete_tbl /\ ident_idx' = ident_idx
        /\ src' = src /\ dst' = dst
        BY <1>11, IdentFailsFacts DEF src, dst
  <2>2. pc' = "item" => Len(idents') + 1 - ident_idx = 0
        BY <1>11, IdentFailsFacts, Numbers DEF Stopped
  <2>3. Pending' = 0 /\ Doomed' \subseteq Doomed
        BY <2>1, <2>2 DEF Pending, Doomed
  <2> QED  BY <2>1, <2>3, CountedSame
<1> QED  BY <1>1, <1>2, <1>3, <1>4, <1>5, <1>6, <1>7, <1>8, <1>9, <1>10, <1>11, CountedFetch,
            CountedCopyMessage, CountedEmit, CountedErase, CountedArrive, Zenon DEF Next, Step

\* The messages missing from the source are no more than the batches took.
LEMMA MissingBound ==
    ASSUME TypeInv, CountedNow
    PROVE  /\ Len(src.now.msgs) \in Nat /\ arrived \in Nat
           /\ arrived <= Len(src.now.msgs) + Room
<1>1. src.now.msgs \in Seq(Msgs) /\ Len(src.now.msgs) \in Nat
      BY SrcFields
<1> DEFINE here == ToSet(src.now.msgs)
           gone == Gone(src.now)
<1>2. /\ IsFiniteSet(here) /\ Cardinality(here) \in Nat
      /\ Cardinality(here) <= Len(src.now.msgs)
      BY <1>1, ToSetBound
<1>3. IsFiniteSet(gone) /\ Cardinality(gone) \in Nat /\ Cardinality(gone) <= Room
      BY CountTypes DEF CountedNow
<1>4. arrived \in Nat /\ Cardinality(1..arrived) = arrived /\ IsFiniteSet(1..arrived)
  <2>1. arrived \in Nat
        BY MessagesAssumption DEF TypeInv, TypeOK
  <2> QED  BY <2>1, FS_Interval
<1>5. 1..arrived \subseteq here \cup gone
      BY DEF Gone
<1> HIDE DEF here, gone
<1>6. /\ IsFiniteSet(here \cup gone) /\ Cardinality(here \cup gone) \in Nat
      /\ Cardinality(here \cup gone) <= Cardinality(here) + Cardinality(gone)
  <2>1. Cardinality(here \cap gone) \in Nat
        BY <1>2, FS_Subset, FS_CardinalityType
  <2>2. /\ IsFiniteSet(here \cup gone)
        /\ Cardinality(here \cup gone)
               = Cardinality(here) + Cardinality(gone) - Cardinality(here \cap gone)
        BY <1>2, <1>3, FS_Union
  <2> QED  BY <1>2, <1>3, <2>1, <2>2, FS_CardinalityType
<1>7. arrived <= Cardinality(here \cup gone)
      BY <1>4, <1>5, <1>6, FS_Subset
<1> QED  BY <1>1, <1>2, <1>3, <1>4, <1>6, <1>7, CountTypes, SMTT(20)

\* --count bounds what all the batches of a command copy, move, delete, save
\* or print together: each batch takes its length out of limit_copy, and what
\* a failure rolls back is never processed again by the same run.
THEOREM CountIsRespected == Spec => []CountRespected
<1>1. Init => TypeInv /\ Listed /\ Counted
      BY InitType, InitListed, InitCounted
<1>2. TypeInv /\ Listed /\ Counted /\ [Next]_vars => TypeInv' /\ Listed' /\ Counted'
      BY TypeStep, ListedStep, CountedStep
<1>3. TypeInv /\ Counted => CountRespected
  <2> SUFFICES ASSUME TypeInv, Counted, opt.limit >= 0, cmd # "load"
               PROVE  /\ Len(dst.now.msgs) <= opt.limit /\ Len(output) <= opt.limit
                      /\ Len(src.now.msgs) >= arrived - opt.limit
      BY DEF CountRespected, src, dst
  <2>1. CountedNow /\ Room <= opt.limit
    <3>1. CountedNow
          BY DEF Counted, Counting
    <3> QED  BY <3>1, CountTypes DEF CountedNow, Room
  <2>2. Len(dst.now.msgs) <= opt.limit /\ Len(output) <= opt.limit
        BY <2>1, CountTypes, SMTT(20) DEF CountedNow
  <2>3. Len(src.now.msgs) \in Nat /\ arrived \in Nat /\ arrived <= Len(src.now.msgs) + Room
        BY <2>1, MissingBound
  <2> QED  BY <2>1, <2>2, <2>3, CountTypes
<1> QED  BY <1>1, <1>2, <1>3, PTL DEF Spec

----------------------------------------------------------------------------
(***************************************************************************)
(* What a move or a deletion takes.  The source holds its messages in ident *)
(* order, so the message at place p of those selected has p messages of     *)
(* --criteria up to it at least: none before --offset is ever fetched.  It  *)
(* has no more than p and those missing from the source, which are no more  *)
(* than limit_copy has given away: none after --count is fetched either.    *)
(***************************************************************************)
\* The messages the command is asked for, by their rank among all those
\* --criteria selects.
Asked ==
    {m \in Msgs \cap Matching :
        /\ origin < Rank(m, Matching)
        /\ opt.limit >= 0 => Rank(m, Matching) <= origin + opt.limit}

\* The contents c of the source are in order and only lack what is asked for.
Remains(c) ==
    /\ Ordered(c.msgs) /\ ToSet(c.msgs) \subseteq 1..arrived
    /\ 1..arrived \subseteq ToSet(c.msgs) \cup Asked

KeepingNow ==
    /\ origin <= opt.offset /\ (opt.limit >= 0 => opt.offset = origin)
    /\ Remains(src.now) /\ Remains(src.kept)
    /\ ToSet(idents) \subseteq Asked /\ ToSet(delete_tbl) \subseteq Asked
Keeping == cmd \in {"move", "delete"} => KeepingNow

LEMMA InitKeeping ==
    ASSUME Init
    PROVE  Keeping
<1>1. /\ origin = opt.offset /\ arrived = NumMsgs /\ idents = <<>> /\ delete_tbl = <<>>
      /\ src = NewSession([Empty EXCEPT !.msgs = [i \in 1..NumMsgs |-> i]])
      BY DEF Init, src
<1>2. /\ src.now.msgs = [i \in 1..NumMsgs |-> i]
      /\ src.kept.msgs = [i \in 1..NumMsgs |-> i]
      BY <1>1 DEF NewSession, Empty
<1>3. /\ Ordered([i \in 1..NumMsgs |-> i])
      /\ ToSet([i \in 1..NumMsgs |-> i]) = 1..NumMsgs
  <2>1. Len([i \in 1..NumMsgs |-> i]) = NumMsgs
        BY MessagesAssumption
  <2> QED  BY <2>1 DEF Ordered, ToSet
<1>4. origin <= opt.offset
  <2>1. TypeInv
        BY InitType
  <2> QED  BY <1>1, <2>1 DEF TypeInv, TypeOK
<1> QED  BY <1>1, <1>2, <1>3, <1>4, EmptySet DEF Keeping, KeepingNow, Remains

\* The batch fetched is part of what is asked for.
LEMMA BatchAsked ==
    ASSUME TypeInv, Counted, Keeping, pc = "fetch", cmd \in {"move", "delete"}
    PROVE  ToSet(Batch) \subseteq Asked
<1> SUFFICES ASSUME NEW m \in ToSet(Batch) PROVE m \in Asked
    OBVIOUS
<1> DEFINE ms == src.now.msgs
           q == Picked(ms, Matching)
<1>1. PICK p \in 1..Len(q) : /\ m = q[p] /\ FetchOffset < p /\ p <= FetchOffset + LocalLimit
      BY BatchType DEF Selected, src
<1>2. KeepingNow /\ Remains(src.now)
      BY DEF Keeping, KeepingNow
<1>3. ms \in Seq(Msgs) /\ q \in Seq(Msgs) /\ Len(q) \in Nat /\ p \in Int /\ Len(ms) \in Nat
      BY SrcFields, PickedMembers
<1>4. arrived \in 0..MaxMsgs /\ Ordered(ms) /\ ToSet(ms) \subseteq 1..arrived
  <2>1. arrived \in 0..MaxMsgs
        BY MessagesAssumption DEF TypeInv, TypeOK
  <2> QED  BY <1>2, <2>1 DEF Remains
<1> HIDE DEF ms
<1>5. /\ q[p] \in Msgs \cap Matching /\ p <= Rank(q[p], Matching)
      /\ Rank(q[p], Matching) + Len(ms) <= p + arrived
      BY <1>3, <1>4, PickedRanks
<1> HIDE DEF q
<1>6. m \in Msgs \cap Matching /\ Rank(m, Matching) \in Nat
  <2>1. m \in Msgs \cap Matching
        BY <1>1, <1>5
  <2>2. m \in 0..MaxMsgs
    <3>1. m \in 1..MaxMsgs /\ MaxMsgs \in Nat
          BY <2>1, MessagesAssumption DEF Msgs
    <3> QED  BY <3>1
  <2> QED  BY <2>1, <2>2, RankStep
<1>7. FetchOffset = opt.offset /\ opt.offset \in Nat /\ origin \in Nat
  <2>1. opt.offset \in Nat /\ origin \in Nat
        BY DEF TypeInv, TypeOK, CommandLine
  <2>2. FetchOffset = opt.offset + 0
        BY DEF FetchOffset
  <2> QED  BY <2>1, <2>2
<1>8. origin < Rank(m, Matching)
      BY <1>1, <1>2, <1>3, <1>5, <1>6, <1>7 DEF KeepingNow
<1>9. ASSUME opt.limit >= 0 PROVE Rank(m, Matching) <= origin + opt.limit
  <2>1. CountedNow
        BY <1>9 DEF Counted, Counting
  <2>2. arrived \in Nat /\ arrived <= Len(ms) + Room
        BY <2>1, MissingBound DEF ms
  <2>3. Room = opt.limit - limit_copy /\ opt.limit \in Int /\ limit_copy \in Int
    <3>1. Pending = 0
          BY DEF Pending
    <3> QED  BY <3>1, CountTypes DEF Room
  <2>4. LocalLimit <= limit_copy /\ LocalLimit \in Int
    <3>1. ept \in Nat /\ limit_copy \in Int /\ limit_copy >= 0
          BY <2>1, Numbers DEF CountedNow
    <3> QED  BY <3>1, MinOfTwo DEF LocalLimit
  <2>5. opt.offset = origin
        BY <1>2, <1>9 DEF KeepingNow
  <2> QED  BY <1>1, <1>3, <1>5, <1>6, <1>7, <2>2, <2>3, <2>4, <2>5, SMTT(20)
<1> QED  BY <1>6, <1>8, <1>9 DEF Asked

\* A step that takes nothing from the source.
LEMMA KeepingKept ==
    ASSUME TypeInv, Keeping, SameCommand,
           ToSet(idents') \subseteq ToSet(idents), ToSet(delete_tbl') \subseteq ToSet(delete_tbl),
           src'.now = src.now \/ src'.now = src.kept,
           src'.kept = src.now \/ src'.kept = src.kept
    PROVE  Keeping'
<1> SUFFICES ASSUME (cmd \in {"move", "delete"})' PROVE KeepingNow'
    BY DEF Keeping
<1>1. KeepingNow
      BY SameParts DEF Keeping
<1>2. Asked' = Asked
      BY DEF Asked, SameCommand
<1>3. \A c : Remains(c)' <=> Remains(c)
  <2>1. arrived' = arrived
        BY DEF SameCommand
  <2> QED  BY <1>2, <2>1 DEF Remains
<1> QED  BY <1>1, <1>2 DEF KeepingNow, SameCommand, Remains

\* A step that lists messages of the batch, or fetches one.
LEMMA KeepingListed ==
    ASSUME TypeInv, Keeping, SameCommand, src' = src,
           cmd \in {"move", "delete"} =>
               ToSet(idents') \subseteq Asked /\ ToSet(delete_tbl') \subseteq Asked
    PROVE  Keeping'
<1> SUFFICES ASSUME (cmd \in {"move", "delete"})' PROVE KeepingNow'
    BY DEF Keeping
<1>1. KeepingNow /\ cmd \in {"move", "delete"}
      BY SameParts DEF Keeping
<1>2. Asked' = Asked
      BY DEF Asked, SameCommand
<1> QED  BY <1>1, <1>2 DEF KeepingNow, SameCommand, Remains

\* A deletion of messages asked for, carried out or not.
LEMMA KeepingDeleted ==
    ASSUME TypeInv, Keeping, SameCommand, idents' = idents,
           ToSet(delete_tbl') \subseteq ToSet(delete_tbl),
           NEW ms \in SUBSET Msgs, cmd \in {"move", "delete"} => ms \subseteq Asked,
           \/ src'.now.msgs = src.now.msgs
           \/ src'.now.msgs = Picked(src.now.msgs, Msgs \ ms),
           src'.kept = src.kept \/ src'.kept = src'.now
    PROVE  Keeping'
<1> SUFFICES ASSUME (cmd \in {"move", "delete"})' PROVE KeepingNow'
    BY DEF Keeping
<1>1. KeepingNow /\ cmd \in {"move", "delete"}
      BY SameParts DEF Keeping
<1>2. Asked' = Asked /\ arrived' = arrived
      BY DEF Asked, SameCommand
<1> DEFINE s == src.now.msgs
<1>3. s \in Seq(Msgs) /\ ToSet(s) \subseteq Msgs
      BY SrcFields DEF ToSet
<1>4. /\ Ordered(s) /\ ToSet(s) \subseteq 1..arrived
      /\ 1..arrived \subseteq ToSet(s) \cup Asked
      BY <1>1 DEF KeepingNow, Remains
<1>5. /\ Ordered(Picked(s, Msgs \ ms))
      /\ ToSet(Picked(s, Msgs \ ms)) = ToSet(s) \cap (Msgs \ ms)
      BY <1>3, <1>4, PickedPlaces, PickedMembers
<1> HIDE DEF s
<1>6. /\ ToSet(Picked(s, Msgs \ ms)) \subseteq 1..arrived
      /\ 1..arrived \subseteq ToSet(Picked(s, Msgs \ ms)) \cup Asked
      BY <1>1, <1>3, <1>4, <1>5
<1>7. src'.now.msgs = s \/ src'.now.msgs = Picked(s, Msgs \ ms)
      BY DEF s
<1>8. Remains(src.now)'
      BY <1>2, <1>4, <1>5, <1>6, <1>7 DEF Remains
<1>9. Remains(src.kept)'
  <2>1. CASE src'.kept = src'.now
        BY <1>8, <2>1 DEF Remains
  <2>2. CASE src'.kept = src.kept
        BY <1>1, <1>2, <2>2 DEF Remains, KeepingNow
  <2> QED  BY <2>1, <2>2
<1> QED  BY <1>1, <1>2, <1>8, <1>9 DEF KeepingNow, SameCommand

LEMMA KeepingErase ==
    ASSUME TypeInv, Keeping, Erase
    PROVE  Keeping'
<1>1. /\ SameCommand /\ idents' = idents /\ delete_tbl' = delete_tbl
      /\ \/ src' = Wrote(src, Without(src.now, ToSet(idents)))
         \/ \E c \in HalfDeleted(src.now, ToSet(idents)) : src' = Failed(src, c)
      BY EraseFacts DEF OnlySrc
<1>2. ToSet(idents) \in SUBSET Msgs /\ (cmd \in {"move", "delete"} => ToSet(idents) \subseteq Asked)
      BY DEF TypeInv, TypeOK, ToSet, Keeping, KeepingNow
<1>3. CASE src' = Wrote(src, Without(src.now, ToSet(idents)))
  <2>1. /\ src'.now.msgs = Picked(src.now.msgs, Msgs \ ToSet(idents))
        /\ src'.kept = src.kept \/ src'.kept = src'.now
        BY <1>2, <1>3, SrcDeleted
  <2> QED  BY <1>1, <1>2, <2>1, KeepingDeleted
<1>4. CASE \E c \in HalfDeleted(src.now, ToSet(idents)) : src' = Failed(src, c)
  <2>1. PICK c \in HalfDeleted(src.now, ToSet(idents)) : src' = Failed(src, c)
        BY <1>4
  <2>2. /\ c \in Contents
        /\ c.msgs = src.now.msgs \/ c.msgs = Picked(src.now.msgs, Msgs \ ToSet(idents))
        BY <1>2, HalfDeletedMsgs
  <2>3. /\ src'.kept = src.kept
        /\ src'.now = c \/ src'.now = src.now
        BY <2>1, <2>2, SrcFields, FailedFields
  <2> QED  BY <1>1, <1>2, <2>2, <2>3, KeepingDeleted
<1> QED  BY <1>1, <1>3, <1>4

LEMMA KeepingArrive ==
    ASSUME TypeInv, Keeping, Arrive
    PROVE  Keeping'
<1>1. /\ arrived' = arrived + 1 /\ arrived + 1 \in Msgs
      /\ src'.now = With(src.now, arrived + 1) /\ src'.kept = With(src.kept, arrived + 1)
      /\ UNCHANGED <<opt, origin, cmd, idents, delete_tbl>>
      BY ArriveFacts
<1> SUFFICES ASSUME (cmd \in {"move", "delete"})' PROVE KeepingNow'
    BY DEF Keeping
<1>2. KeepingNow
      BY <1>1 DEF Keeping
<1>3. Asked' = Asked
      BY <1>1 DEF Asked
<1>4. arrived \in Int
      BY MessagesAssumption DEF TypeInv, TypeOK
<1>5. 1..(arrived + 1) = (1..arrived) \cup {arrived + 1}
      BY MessagesAssumption DEF TypeInv, TypeOK
<1>6. ASSUME NEW c \in Contents, Remains(c)
      PROVE  LET ms == With(c, arrived + 1).msgs
             IN  /\ Ordered(ms) /\ ToSet(ms) \subseteq 1..(arrived + 1)
                 /\ 1..(arrived + 1) \subseteq ToSet(ms) \cup Asked
  <2>1. With(c, arrived + 1).msgs = Append(c.msgs, arrived + 1) /\ c.msgs \in Seq(Msgs)
        BY <1>1, WithFields DEF Contents
  <2>2. ToSet(Append(c.msgs, arrived + 1)) = ToSet(c.msgs) \cup {arrived + 1}
        BY <1>1, <2>1, ToSetAppend
  <2>3. \A y \in ToSet(c.msgs) : y < arrived + 1
        BY <1>4, <1>6 DEF Remains
  <2>4. Ordered(c.msgs)
        BY <1>6 DEF Remains
  <2>5. Ordered(Append(c.msgs, arrived + 1))
        BY <1>1, <2>1, <2>3, <2>4, OrderedAppend
  <2> QED  BY <1>5, <1>6, <2>1, <2>2, <2>5 DEF Remains
<1>7. Remains(src.now)' /\ Remains(src.kept)'
      BY <1>1, <1>2, <1>3, <1>6, SrcFields DEF KeepingNow, Remains
<1> QED  BY <1>1, <1>2, <1>3, <1>7 DEF KeepingNow

LEMMA KeepingStep ==
    ASSUME TypeInv, Counted, Keeping, [Next]_vars
    PROVE  Keeping'
<1>0. /\ ToSet(<<>>) = {} /\ idents \in Seq(Msgs) /\ delete_tbl \in Seq(Msgs)
      /\ ToSet(delete_tbl) \in SUBSET Msgs
      /\ cmd \in {"move", "delete"} => ToSet(idents) \subseteq Asked /\ ToSet(delete_tbl) \subseteq Asked
      BY EmptySet DEF TypeInv, TypeOK, ToSet, Keeping, KeepingNow
<1>1. CASE UNCHANGED vars
  <2>1. SameCommand /\ UNCHANGED <<src, idents, delete_tbl>>
        BY <1>1, Zenon DEF vars, batchVars, envVars, src, SameCommand
  <2> QED  BY <2>1, KeepingKept
<1>2. CASE Start
  <2>1. /\ SameCommand /\ UNCHANGED <<idents, delete_tbl>>
        /\ src' = src \/ src' = Begun(src)
        BY <1>2, StartFacts DEF OnlySrc, OnlyDst, src
  <2> QED  BY <2>1, EitherSrc, KeepingKept
<1>3. CASE Fetch
  <2>1. /\ pc = "fetch" /\ SameCommand /\ src' = src /\ delete_tbl' = delete_tbl
        /\ idents' = idents \/ idents' = Batch
        BY <1>3, FetchFacts DEF src
  <2> QED  BY <1>0, <2>1, BatchAsked, KeepingListed
<1>4. CASE Flush
  <2>1. /\ SameCommand /\ UNCHANGED <<idents, delete_tbl>>
        /\ src' = src \/ Renewed(src, src')
        BY <1>4, FlushActionFacts DEF Flushed, NotFlushed, src
  <2> QED  BY <2>1, EitherSrc, KeepingKept
<1>5. CASE CopyMessage
  <2>1. /\ SameCommand /\ src' = src /\ idents' = idents /\ ident_idx <= Len(idents)
        /\ delete_tbl' = delete_tbl \/ delete_tbl' = Append(delete_tbl, idents[ident_idx])
        BY <1>5, CopyMessageFacts DEF OnlyDst, src
  <2>2. ident_idx \in 1..Len(idents)
        BY <2>1, Numbers
  <2>3. idents[ident_idx] \in ToSet(idents)
        BY <1>0, <2>2 DEF ToSet
  <2>4. ToSet(delete_tbl') \subseteq ToSet(delete_tbl) \cup ToSet(idents)
    <3>1. ToSet(Append(delete_tbl, idents[ident_idx]))
              = ToSet(delete_tbl) \cup {idents[ident_idx]}
          BY <1>0, ToSetAppend, Zenon
    <3> QED  BY <2>1, <2>3, <3>1
  <2> QED  BY <1>0, <2>1, <2>4, KeepingListed
<1>6. CASE TrackDeletion \/ DeleteRest
  <2>1. /\ SameCommand /\ idents' = idents
        /\ delete_tbl' = delete_tbl \/ delete_tbl' = <<>>
        /\ src' = src \/ src' = Wrote(src, Without(src.now, ToSet(delete_tbl)))
        BY <1>6, TrackDeletionFacts, DeleteRestFacts DEF Deleted, OnlySrc, src
  <2>2. CASE src' = src
        BY <1>0, <2>1, <2>2, KeepingKept
  <2>3. CASE src' = Wrote(src, Without(src.now, ToSet(delete_tbl)))
    <3>1. /\ src'.now.msgs = Picked(src.now.msgs, Msgs \ ToSet(delete_tbl))
          /\ src'.kept = src.kept \/ src'.kept = src'.now
          BY <1>0, <2>3, SrcDeleted
    <3>2. ToSet(delete_tbl') \subseteq ToSet(delete_tbl)
          BY <1>0, <2>1
    <3> QED  BY <1>0, <2>1, <3>1, <3>2, KeepingDeleted
  <2> QED  BY <2>1, <2>2, <2>3
<1>7. CASE EndOfBatch
  <2>1. /\ SameCommand /\ UNCHANGED <<idents, delete_tbl>>
        /\ src' = src \/ Renewed(src, src')
        BY <1>7, EndOfBatchFacts DEF Flushed, NotFlushed, src
  <2> QED  BY <2>1, EitherSrc, KeepingKept
<1>8. CASE Emit
  <2>1. SameCommand /\ UNCHANGED <<idents, delete_tbl>> /\ src' = src
        BY <1>8, EmitFacts DEF src
  <2> QED  BY <2>1, KeepingKept
<1>9. CASE OpenFile \/ NoMoreFiles \/ EndOfFile \/ SkipMessage \/ LoadMessage
  <2>1. cmd' = cmd /\ cmd = "load"
        BY <1>9, OpenFileFacts, ReadFacts, LoadMessageFacts, SameParts
  <2> QED  BY <2>1 DEF Keeping
<1>10. CASE Finish
  <2>1. SameCommand /\ UNCHANGED <<idents, delete_tbl>>
        BY <1>10, FinishFacts
  <2>2. PICK s : /\ s = Committed(db[Target]) \/ s = RolledBack(db[Target])
                 /\ cmd = "delete" => OnlySrc(s)
                 /\ cmd # "delete" => OnlyDst(s)
        BY <1>10, FinishFacts
  <2>3. src' = src \/ src' = Committed(src) \/ src' = RolledBack(src)
        BY <2>2, Zenon DEF OnlySrc, OnlyDst, Target, src, dst
  <2> QED  BY <2>1, <2>3, EitherSrc, KeepingKept
<1>11. CASE Resume
  <2> SUFFICES ASSUME (cmd \in {"move", "delete"})' PROVE KeepingNow'
      BY DEF Keeping
  <2>1. /\ cmd' = cmd /\ opt'.limit = opt.limit /\ opt.limit < 0 /\ opt.limit \in Int
        /\ opt'.offset = opt.offset + cur_count /\ cur_count \in Nat
        /\ idents' = <<>> /\ delete_tbl' = <<>> /\ UNCHANGED <<origin, arrived>>
        BY <1>11, ResumeFacts, CountTypes, Numbers
  <2>2. src' = src
        BY <1>11, ResumeFacts DEF src
  <2>3. KeepingNow
        BY <2>1 DEF Keeping
  <2>4. Asked' = Asked
        BY <2>1 DEF Asked
  <2>5. origin' <= opt'.offset /\ ~(opt'.limit >= 0)
    <3>1. origin <= opt.offset + cur_count
      <4>1. origin \in Nat /\ opt.offset \in Nat
            BY DEF TypeInv, TypeOK, CommandLine
      <4> QED  BY <2>1, <2>3, <4>1 DEF KeepingNow
    <3> QED  BY <2>1, <3>1
  <2> QED  BY <1>0, <2>1, <2>2, <2>3, <2>4, <2>5 DEF KeepingNow, Remains
<1>12. CASE Signal
  <2>1. SameCommand /\ UNCHANGED <<src, idents, delete_tbl>>
        BY <1>12, SignalFacts DEF src
  <2> QED  BY <2>1, KeepingKept
<1>13. CASE IdentFails
  <2>1. SameCommand /\ delete_tbl' = delete_tbl /\ src' = src
        BY <1>13, IdentFailsFacts DEF src
  <2>2. ToSet(idents') \subseteq ToSet(idents)
    <3>1. CASE idents' = idents
          BY <3>1
    <3>2. CASE Stopped(ident_idx - 1)
          BY <3>2, Numbers DEF Stopped, ToSet
    <3> QED  BY <1>13, <3>1, <3>2, IdentFailsFacts
  <2> QED  BY <2>1, <2>2, KeepingKept
<1> QED  BY <1>1, <1>2, <1>3, <1>4, <1>5, <1>6, <1>7, <1>8, <1>9, <1>10, <1>11, <1>12, <1>13,
            KeepingErase, KeepingArrive, Zenon DEF Next, Step

\* What is asked for by rank is what is asked for by place.
LEMMA AskedIsWanted ==
    ASSUME TypeInv, cmd \in {"move", "delete"}, NEW m \in 1..arrived, m \in Asked
    PROVE  m \in ToSet(IF opt.limit < 0 THEN Wanted ELSE Prefix(Wanted, opt.limit))
<1> DEFINE q == Picked(FirstMsgs(arrived), Matching)
           r == Rank(m, Matching)
<1>1. arrived \in 0..MaxMsgs /\ origin \in Nat /\ opt.limit \in Int
      BY MessagesAssumption DEF TypeInv, TypeOK, CommandLine
<1>2. r \in 1..Len(q) /\ q[r] = m
      BY <1>1, RankIsPlace DEF Asked
<1>3. q \in Seq(Msgs) /\ Len(q) \in Nat
      BY <1>1, FirstMsgsSeq, PickedMembers
<1>4. origin < r /\ (opt.limit >= 0 => r <= origin + opt.limit)
      BY DEF Asked
<1>5. Wanted = SubSeq(q, origin + 1, Len(q))
      BY Zenon DEF Wanted, Remainder, Selected, FirstMsgs
<1> HIDE DEF q, r
<1> DEFINE w == SubSeq(q, origin + 1, Len(q))
           k == r - origin
<1>6. \A i \in (origin + 1)..Len(q) : q[i] \in Msgs
      BY <1>1, <1>3
<1>7. w \in Seq(Msgs) /\ Len(w) = Len(q) - origin /\ k \in 1..Len(w) /\ w[k] = m
  <2>1. /\ w \in Seq(Msgs) /\ Len(w) = Len(q) - origin
        /\ \A i \in 1..(Len(q) - origin) : w[i] = q[origin + i]
        BY <1>1, <1>2, <1>3, <1>4, <1>6, SubSeqProperties
  <2>2. k \in 1..(Len(q) - origin) /\ origin + k = r
        BY <1>1, <1>2, <1>3, <1>4
  <2> QED  BY <1>2, <2>1, <2>2
<1> HIDE DEF w, k
<1>8. CASE opt.limit < 0
      BY <1>5, <1>7, <1>8 DEF ToSet, w
<1>9. CASE opt.limit >= 0
  <2> DEFINE n == Min({opt.limit, Len(w)})
             u == SubSeq(w, 1, n)
  <2>1. Len(w) \in Nat /\ k \in Int /\ k <= Len(w) /\ k >= 1
        BY <1>7
  <2>2. k <= opt.limit
        BY <1>1, <1>2, <1>3, <1>4, <1>9 DEF k
  <2>3. n \in Int /\ k <= n /\ n <= Len(w)
        BY <1>1, <2>1, <2>2, MinOfTwo
  <2> HIDE DEF n
  <2>4. \A i \in 1..n : w[i] \in Msgs
        BY <1>7, <2>1, <2>3
  <2>5. u \in Seq(Msgs) /\ Len(u) = n /\ u[k] = m /\ k \in 1..n
    <3>1. /\ u \in Seq(Msgs) /\ Len(u) = IF 1 <= n THEN n - 1 + 1 ELSE 0
          /\ \A i \in 1..(n - 1 + 1) : u[i] = w[1 + i - 1]
          BY <1>7, <2>1, <2>3, <2>4, SubSeqProperties
    <3>2. n - 1 + 1 = n /\ k \in 1..n /\ 1 + k - 1 = k /\ 1 <= n
          BY <2>1, <2>3
    <3> QED  BY <1>7, <3>1, <3>2
  <2>6. Prefix(Wanted, opt.limit) = u
        BY <1>5, Zenon DEF Prefix, n, w
  <2>7. k \in DOMAIN u
        BY <2>5
  <2> HIDE DEF u
  <2>8. m \in ToSet(u)
        BY <2>5, <2>7 DEF ToSet
  <2> QED  BY <1>1, <1>9, <2>6, <2>8
<1> QED  BY <1>1, <1>8, <1>9

\* A move or a deletion leaves in the source everything it was not asked to
\* take, whatever fails, arrives meanwhile or is resumed.
THEOREM TheRestIsKept == Spec => []KeepsTheRest
<1>1. Init => TypeInv /\ Listed /\ Counted /\ Keeping
      BY InitType, InitListed, InitCounted, InitKeeping
<1>2. TypeInv /\ Listed /\ Counted /\ Keeping /\ [Next]_vars =>
          TypeInv' /\ Listed' /\ Counted' /\ Keeping'
      BY TypeStep, ListedStep, CountedStep, KeepingStep
<1>3. TypeInv /\ Keeping => KeepsTheRest
  <2> DEFINE asked == IF opt.limit < 0 THEN Wanted ELSE Prefix(Wanted, opt.limit)
  <2> SUFFICES ASSUME TypeInv, Keeping, cmd \in {"move", "delete"}
               PROVE  (1..arrived) \ ToSet(asked) \subseteq ToSet(src.kept.msgs)
      BY Zenon DEF KeepsTheRest, src
  <2>1. 1..arrived \subseteq ToSet(src.kept.msgs) \cup Asked
        BY DEF Keeping, KeepingNow, Remains
  <2>2. \A m \in 1..arrived : m \in Asked => m \in ToSet(asked)
        BY AskedIsWanted
  <2> QED  BY <2>1, <2>2
<1> QED  BY <1>1, <1>2, <1>3, PTL DEF Spec

----------------------------------------------------------------------------
(***************************************************************************)
(* The order of what is inserted.  The messages a copy or a move has        *)
(* inserted are those of --criteria after --offset, each at the place its   *)
(* rank gives it, and the batch in hand goes on from there.                 *)
(***************************************************************************)
\* Message m has rank r among the messages of --criteria, the first n of them
\* being in the source or already taken from it.
InPlace(m, r, n) == m \in Matching /\ m \in 1..n /\ Rank(m, Matching) = r
InPlaces(ms, from, base, n) == \A k \in from..Len(ms) : InPlace(ms[k], base + k, n)

LEMMA PlacesGrow ==
    ASSUME NEW ms, NEW from, NEW base, NEW n \in Nat, NEW l \in Nat, n <= l,
           InPlaces(ms, from, base, n)
    PROVE  InPlaces(ms, from, base, l)
<1>1. 1..n \subseteq 1..l
      OBVIOUS
<1> QED  BY <1>1 DEF InPlaces, InPlace

LEMMA PlacesAppend ==
    ASSUME NEW ms \in Seq(Msgs), NEW base, NEW n, NEW x \in Msgs, InPlaces(ms, 1, base, n),
           InPlace(x, base + (Len(ms) + 1), n)
    PROVE  InPlaces(Append(ms, x), 1, base, n)
<1>1. Len(ms) \in Nat /\ Len(Append(ms, x)) = Len(ms) + 1 /\ Append(ms, x)[Len(ms) + 1] = x
      /\ \A k \in 1..Len(ms) : Append(ms, x)[k] = ms[k]
      OBVIOUS
<1> SUFFICES ASSUME NEW k \in 1..(Len(ms) + 1) PROVE InPlace(Append(ms, x)[k], base + k, n)
    BY <1>1 DEF InPlaces
<1>2. CASE k \in 1..Len(ms)
  <2>1. InPlace(ms[k], base + k, n)
        BY <1>2 DEF InPlaces
  <2> QED  BY <1>1, <1>2, <2>1
<1>3. CASE k = Len(ms) + 1
      BY <1>1, <1>3
<1> QED  BY <1>1, <1>2, <1>3

\* Two messages of the same rank are one.
LEMMA RankOne ==
    ASSUME NEW S, NEW a \in 1..MaxMsgs \cap S, NEW b \in 1..MaxMsgs \cap S,
           Rank(a, S) = Rank(b, S)
    PROVE  a = b
<1>1. MaxMsgs \in Nat
      BY MessagesAssumption
<1>2. a \in 0..MaxMsgs /\ b \in 0..MaxMsgs /\ a \in S /\ b \in S
      BY <1>1
<1>3. Rank(a, S) \in Nat /\ Rank(b, S) \in Nat
      BY <1>2, RankStep
<1>4. CASE a < b
      BY <1>2, <1>3, <1>4, RankGrows
<1>5. CASE b < a
      BY <1>2, <1>3, <1>5, RankGrows
<1> QED  BY <1>2, <1>4, <1>5

\* Of a source that lacks exactly the messages inserted, which follow the first
\* a ones selected, those selected after the first a go on from there.
LEMMA RestRanks ==
    ASSUME NEW n \in 0..MaxMsgs, NEW a \in Nat, NEW now \in Seq(Msgs), InPlaces(now, 1, a, n),
           NEW ms \in Seq(Msgs), Ordered(ms), ToSet(ms) = (1..n) \ ToSet(now),
           NEW p \in 1..Len(Picked(ms, Matching)), p > a
    PROVE  InPlace(Picked(ms, Matching)[p], p + Len(now), n)
<1> DEFINE all == Picked(ms, Matching)
           first == Picked(FirstMsgs(n), Matching)
           N == Len(all)
           L == Len(now)
           f == [k \in 1..N |-> Rank(all[k], Matching)]
<1>1. /\ all \in Seq(Msgs) /\ N \in Nat /\ L \in Nat /\ n \in Nat /\ MaxMsgs \in Nat /\ n <= MaxMsgs
      /\ ToSet(all) = ToSet(ms) \cap Matching
      BY PickedMembers, MessagesAssumption
<1>2. Ordered(all)
      BY PickedPlaces
<1>3. \A k \in 1..N : /\ all[k] \in Matching /\ all[k] \in 1..n /\ all[k] \notin ToSet(now)
                      /\ all[k] \in 0..MaxMsgs
  <2> SUFFICES ASSUME NEW k \in 1..N
               PROVE  /\ all[k] \in Matching /\ all[k] \in 1..n /\ all[k] \notin ToSet(now)
                      /\ all[k] \in 0..MaxMsgs
      OBVIOUS
  <2>1. all[k] \in ToSet(all)
        BY <1>1 DEF ToSet
  <2>2. all[k] \in Matching /\ all[k] \in 1..n /\ all[k] \notin ToSet(now)
        BY <1>1, <2>1
  <2> HIDE DEF all
  <2> QED  BY <1>1, <2>2
<1> HIDE DEF all, N, L, first
<1>4. \A k \in 1..N : f[k] \in Nat /\ f[k] \in 1..Len(first) /\ first[f[k]] = all[k]
  <2> SUFFICES ASSUME NEW k \in 1..N
               PROVE  f[k] \in Nat /\ f[k] \in 1..Len(first) /\ first[f[k]] = all[k]
      OBVIOUS
  <2>1. all[k] \in 1..n /\ all[k] \in Matching /\ all[k] \in 0..MaxMsgs
        BY <1>3
  <2>2. /\ Rank(all[k], Matching) \in 1..Len(first) /\ first[Rank(all[k], Matching)] = all[k]
        BY <2>1, RankIsPlace DEF first
  <2>3. Rank(all[k], Matching) \in Nat
        BY <2>1, RankStep
  <2> QED  BY <2>2, <2>3
<1>5. \A k, l \in 1..N : k < l => f[k] < f[l]
  <2> SUFFICES ASSUME NEW k \in 1..N, NEW l \in 1..N, k < l PROVE f[k] < f[l]
      OBVIOUS
  <2>1. all[k] < all[l]
        BY <1>2, <1>3 DEF Ordered, N
  <2>2. all[k] \in 0..MaxMsgs /\ all[l] \in 0..MaxMsgs /\ all[l] \in Matching
        BY <1>3
  <2>3. Rank(all[k], Matching) < Rank(all[l], Matching)
        BY <2>1, <2>2, RankGrows
  <2> QED  BY <2>3
<1>6. \A k \in 1..L : /\ now[k] \in Matching /\ now[k] \in 1..n /\ Rank(now[k], Matching) = a + k
                      /\ now[k] \in ToSet(now)
      BY DEF InPlaces, InPlace, L, ToSet
<1>7. \A k \in 1..N : f[k] <= a \/ f[k] > a + L
  <2> SUFFICES ASSUME NEW k \in 1..N, ~(f[k] <= a \/ f[k] > a + L) PROVE FALSE
      OBVIOUS
  <2> DEFINE j == f[k] - a
  <2>1. j \in 1..L /\ a + j = f[k]
        BY <1>1, <1>4
  <2> HIDE DEF j
  <2>2. /\ now[j] \in Matching /\ now[j] \in 1..n /\ Rank(now[j], Matching) = f[k]
        /\ now[j] \in ToSet(now)
        BY <1>6, <2>1
  <2>3. all[k] \in 1..MaxMsgs \cap Matching /\ now[j] \in 1..MaxMsgs \cap Matching
        BY <1>1, <1>3, <2>2
  <2>4. Rank(all[k], Matching) = Rank(now[j], Matching)
        BY <2>2
  <2>5. all[k] = now[j]
        BY <2>3, <2>4, RankOne
  <2> QED  BY <1>3, <2>2, <2>5
<1>8. \A k \in 1..N : \A t \in 1..f[k] : (t <= a \/ t > a + L) => \E q \in 1..N : f[q] = t
  <2> SUFFICES ASSUME NEW k \in 1..N, NEW t \in 1..f[k], t <= a \/ t > a + L
               PROVE  \E q \in 1..N : f[q] = t
      OBVIOUS
  <2>1. t \in 1..Len(first) /\ t \in Nat
    <3>1. f[k] \in 1..Len(first) /\ f[k] \in Nat
          BY <1>4
    <3>2. Len(first) \in Nat
          BY FirstMsgsSeq, PickedMembers DEF first
    <3> QED  BY <3>1, <3>2
  <2>2. first[t] \in Matching \cap (1..n) /\ Rank(first[t], Matching) = t
        BY <2>1, FirstRanks DEF first
  <2>3. first[t] \notin ToSet(now)
    <3> SUFFICES ASSUME first[t] \in ToSet(now) PROVE FALSE
        OBVIOUS
    <3>1. PICK j \in 1..L : first[t] = now[j]
          BY DEF ToSet, L
    <3>2. t = a + j
          BY <1>6, <2>2, <3>1
    <3> QED  BY <1>1, <2>1, <3>2
  <2>4. first[t] \in ToSet(all)
        BY <1>1, <2>2, <2>3
  <2>5. PICK q \in 1..N : first[t] = all[q]
    <3>1. all \in Seq(Msgs)
          BY <1>1
    <3>2. DOMAIN all = 1..N
          BY <3>1 DEF N
    <3>3. \E q \in DOMAIN all : first[t] = all[q]
          BY <2>4, Zenon DEF ToSet
    <3> QED  BY <3>2, <3>3, Zenon
  <2> QED  BY <2>2, <2>5
<1>9. \A k \in 1..N : f[k] = IF k <= a THEN k ELSE k + L
  <2>1. \A k \in 1..N : f[k] \in Nat /\ f[k] >= 1
    <3>1. \A k \in 1..N : f[k] \in Nat /\ f[k] \in 1..Len(first)
          BY <1>4
    <3> HIDE DEF f
    <3> QED  BY <3>1
  <2> HIDE DEF f
  <2>2. Gapped(N, f, a, L)
        BY <1>5, <1>7, <1>8, <2>1 DEF Gapped
  <2>3. N \in Nat /\ L \in Nat
        BY <1>1
  <2> QED  BY <2>2, <2>3, GapPlaces
<1>10. p \in 1..N
       BY DEF N, all
<1>11. Rank(all[p], Matching) = p + L
  <2>1. f[p] = p + L
        BY <1>1, <1>9, <1>10
  <2> QED  BY <1>10, <2>1
<1> QED  BY <1>3, <1>10, <1>11 DEF InPlace, all, L

----------------------------------------------------------------------------
\* A step of the session when no BEGIN and no COMMIT has failed.
LEMMA IgnoredGrows ==
    ASSUME TypeInv, [Next]_vars
    PROVE  ignored \subseteq ignored'
<1>1. CASE UNCHANGED vars
      BY <1>1, Zenon DEF vars, faultVars
<1>2. CASE Next
      BY <1>2, StartFacts, FetchFacts, FlushActionFacts, CopyMessageFacts, TrackDeletionFacts,
         IdentFailsFacts, EndOfBatchFacts, DeleteRestFacts, EraseFacts, EmitFacts, OpenFileFacts,
         ReadFacts, LoadMessageFacts, FinishFacts, ResumeFacts, SignalFacts, ArriveFacts, Zenon
         DEF Next, Step
<1> QED  BY <1>1, <1>2

LEMMA QuietStart ==
    ASSUME TypeInv, Start, cmd \in Inserting, ignored' = {}
    PROVE  /\ src' = src /\ dst'.now = dst.now /\ dst'.kept = dst.kept
           /\ IF ept > 1 THEN dst'.tx ELSE dst' = dst
<1>1. cmd \notin Readers /\ cmd # "delete"
      BY DEF Inserting, Readers
<1>2. CASE ept > 1
  <2>1. NoFault /\ db' = [db EXCEPT ![Target] = Begun(db[Target])]
    <3>1. \/ NoFault /\ db' = [db EXCEPT ![Target] = Begun(db[Target])]
          \/ IgnoredFault("begin")
          BY <1>1, <1>2, Zenon DEF Start
    <3>2. ~IgnoredFault("begin")
          BY DEF IgnoredFault
    <3> QED  BY <3>1, <3>2
  <2>2. OnlyDst(Begun(dst))
        BY <1>1, <2>1, TargetChanged DEF Target, dst
  <2> QED  BY <1>2, <2>2, BegunFacts DEF OnlyDst
<1>3. CASE ~(ept > 1)
  <2>1. db' = db
        BY <1>3, Zenon DEF Start
  <2> QED  BY <1>3, <2>1 DEF src, dst
<1> QED  BY <1>2, <1>3

\* A flush that is due commits the transaction and begins another.
Durable == dst'.tx /\ dst'.now = dst.now /\ dst'.kept = dst.now
LEMMA QuietFlush ==
    ASSUME TypeInv, Whole, pc # "end", cmd # "delete", NEW i \in Nat, FlushIfNeeded(i),
           ignored' = {}
    PROVE  /\ src' = src
           /\ \/ /\ FlushIsDue(i) /\ Durable
                 /\ cur_count' = cur_count + event_no + i /\ event_no' = 0
              \/ NotFlushed(i) /\ dst' = dst
<1>1. event_no \in Nat /\ cur_count \in Nat
      BY Numbers
<1>2. CASE FlushIsDue(i)
  <2>1. EndThenStart /\ cur_count' = cur_count + event_no + i /\ event_no' = 0
        BY <1>1, <1>2 DEF FlushIfNeeded, FlushIsDue
  <2>2. ~IgnoredFault("commit") /\ ~IgnoredFault("begin")
        BY DEF IgnoredFault
  <2>3. db' = [db EXCEPT ![Target] = Begun(Committed(db[Target]))]
        BY <2>1, <2>2, Zenon DEF EndThenStart
  <2>4. dst' = Begun(Committed(dst)) /\ src' = src
        BY <2>3, TargetChanged DEF OnlyDst, Target, dst
  <2>5. dst \in Session /\ dst.now \in Contents /\ ~dst.broken
        BY ContentsOf DEF dst, Whole
  <2>6. Committed(dst) \in Session
    <3>1. SessionOK(dst)
          BY TypeParts DEF DbOK, dst
    <3> QED  BY <2>5, <3>1, SessionCalls DEF SessionOK
  <2>7. Committed(dst).now = dst.now /\ Committed(dst).kept = dst.now
        BY <2>5, SessionFields
  <2>8. /\ Begun(Committed(dst)).now = dst.now /\ Begun(Committed(dst)).kept = dst.now
        /\ Begun(Committed(dst)).tx
        BY <2>5, <2>6, <2>7, SessionFields
  <2> QED  BY <1>2, <2>1, <2>4, <2>8 DEF Durable
<1>3. CASE ~FlushIsDue(i)
  <2>1. NotFlushed(i)
        BY <1>3, FlushFacts DEF Flushed
  <2> QED  BY <2>1 DEF NotFlushed, src, dst
<1> QED  BY <1>2, <1>3

LEMMA QuietFinish ==
    ASSUME TypeInv, Whole, Finish, cmd \in Inserting, ignored' = {}
    PROVE  /\ src' = src /\ ~dst'.tx /\ dst'.now = dst'.kept
           /\ \/ /\ ept > 1 /\ dst'.kept = dst.now /\ cur_count' = cur_count + event_no
              \/ dst'.kept = dst.kept /\ cur_count' = cur_count
<1>1. cmd \notin Readers /\ cmd # "delete"
      BY DEF Inserting, Readers
<1>2. \/ ept > 1 /\ ret >= 0 /\ NoFault /\ db' = [db EXCEPT ![Target] = Committed(db[Target])]
         /\ cur_count' = cur_count + event_no
      \/ IgnoredFault("commit")
      \/ db' = [db EXCEPT ![Target] = RolledBack(db[Target])] /\ cur_count' = cur_count
      BY Zenon DEF Finish
<1>3. ~IgnoredFault("commit")
      BY DEF IgnoredFault
<1>4. \/ ept > 1 /\ ret >= 0 /\ OnlyDst(Committed(dst)) /\ cur_count' = cur_count + event_no
      \/ OnlyDst(RolledBack(dst)) /\ cur_count' = cur_count
      BY <1>1, <1>2, <1>3, TargetChanged, Zenon DEF Target, dst
<1>5. dst \in Session /\ dst.now \in Contents
      BY ContentsOf DEF dst
<1>6. ret >= 0 => ~dst.broken
      BY DEF Whole
<1>7. /\ RolledBack(dst).now = dst.kept /\ RolledBack(dst).kept = dst.kept /\ ~RolledBack(dst).tx
      /\ ~Committed(dst).tx /\ Committed(dst).kept = Committed(dst).now
      /\ ~dst.broken => Committed(dst).now = dst.now
      BY <1>5, SessionFields
<1>8. OnlyDst(Committed(dst)) /\ ret >= 0 =>
          src' = src /\ ~dst'.tx /\ dst'.now = dst'.kept /\ dst'.kept = dst.now
      BY <1>6, <1>7, Zenon DEF OnlyDst
<1>9. OnlyDst(RolledBack(dst)) =>
          src' = src /\ ~dst'.tx /\ dst'.now = dst'.kept /\ dst'.kept = dst.kept
      BY <1>7, Zenon DEF OnlyDst
<1> QED  BY <1>4, <1>8, <1>9

\* The messages of a batch, place by place.
LEMMA BatchPlaces ==
    ASSUME TypeInv, NEW i \in 1..Len(Batch)
    PROVE  /\ FetchOffset + i \in 1..Len(Selected(src.now.msgs))
           /\ Batch[i] = Selected(src.now.msgs)[FetchOffset + i]
<1> DEFINE all == Selected(src.now.msgs)
           n == Min({Len(all), FetchOffset + LocalLimit})
<1>1. all \in Seq(Msgs) /\ Len(all) \in Nat
      BY SrcFields, PickedMembers DEF Selected
<1>2. FetchOffset \in Nat /\ LocalLimit \in Int
      BY BatchType
<1>3. n \in Int /\ n <= Len(all)
      BY <1>1, <1>2, MinOfTwo
<1>4. Batch = SubSeq(all, FetchOffset + 1, n)
      BY DEF Batch, src
<1> HIDE DEF all, n
<1>5. \A k \in (FetchOffset + 1)..n : all[k] \in Msgs
      BY <1>1, <1>2, <1>3
<1>6. /\ Len(SubSeq(all, FetchOffset + 1, n)) = IF FetchOffset + 1 <= n THEN n - FetchOffset ELSE 0
      /\ \A k \in 1..(n - FetchOffset) :
             SubSeq(all, FetchOffset + 1, n)[k] = all[FetchOffset + k]
      BY <1>1, <1>2, <1>3, <1>5, SubSeqProperties
<1>7. i \in 1..(n - FetchOffset) /\ i \in Nat
      BY <1>2, <1>3, <1>4, <1>6
<1>8. FetchOffset + i \in 1..Len(all)
      BY <1>1, <1>2, <1>3, <1>7
<1> QED  BY <1>4, <1>6, <1>7, <1>8 DEF all

\* What a copy counts: the message in hand is not counted until it is flushed.
Due == IF pc = "flush" THEN 1 ELSE 0
Reached == opt.offset + cur_count
Passed == Reached + event_no + Due
KeptTo == Reached + IF dst.tx THEN 0 ELSE Due

\* The batch in hand goes on from what is inserted.
Ahead == InPlaces(idents, ident_idx, origin + Len(dst.now.msgs) - (ident_idx - 1), arrived)
CopyPlaces ==
    /\ InPlaces(dst.now.msgs, 1, origin, arrived) /\ InPlaces(dst.kept.msgs, 1, origin, arrived)
    /\ pc \in {"item", "track", "flush"} => Ahead

\* Every transaction has been begun, but those of one message.
Alone == ~dst.tx /\ pc \notin {"start", "done"} => ept <= 1
CopyCounts ==
    /\ src.now.msgs = FirstMsgs(arrived)
    /\ KeptTo = origin + Len(dst.kept.msgs)
    /\ pc # "done" => Passed = origin + Len(dst.now.msgs)
    /\ Alone

\* The source of a move lacks what is inserted and not listed any more.
MoveRests ==
    /\ opt.offset = origin
    /\ pc \notin {"end", "done"} =>
           /\ ToSet(delete_tbl) \subseteq ToSet(dst.now.msgs)
           /\ ToSet(src.now.msgs) = (1..arrived) \ (ToSet(dst.now.msgs) \ ToSet(delete_tbl))

CopyOrder ==
    /\ CopyPlaces
    /\ cmd = "copy" => CopyCounts
    /\ cmd = "move" => MoveRests

OrderBase == BoundedInv /\ Whole /\ Keeping
CopyingNow == OrderBase /\ cmd \in {"copy", "move"} /\ CopyOrder

LEMMA OrderTypes ==
    ASSUME TypeInv
    PROVE  /\ opt.offset \in Nat /\ origin \in Nat /\ arrived \in 0..MaxMsgs /\ arrived \in Nat
           /\ cur_count \in Nat /\ event_no \in Nat /\ Due \in 0..1 /\ ept \in Nat
           /\ ident_idx \in Nat /\ ident_idx >= 1 /\ Len(idents) \in Nat /\ idents \in Seq(Msgs)
           /\ dst.now.msgs \in Seq(Msgs) /\ dst.kept.msgs \in Seq(Msgs)
           /\ Len(dst.now.msgs) \in Nat /\ Len(dst.kept.msgs) \in Nat
           /\ delete_tbl \in Seq(Msgs) /\ offset_copy \in Nat
           /\ Reached \in Nat /\ Passed \in Nat /\ KeptTo \in Nat
<1>1. /\ opt.offset \in Nat /\ origin \in Nat /\ delete_tbl \in Seq(Msgs) /\ offset_copy \in Nat
      /\ idents \in Seq(Msgs)
      BY DEF TypeInv, TypeOK, CommandLine
<1>2. arrived \in 0..MaxMsgs /\ arrived \in Nat
      BY MessagesAssumption DEF TypeInv, TypeOK
<1>3. Due \in 0..1
      BY DEF Due
<1>4. cur_count \in Nat /\ event_no \in Nat
      BY Numbers
<1>5. Reached \in Nat
      BY <1>1, <1>4 DEF Reached
<1>6. Passed \in Nat /\ KeptTo \in Nat
      BY <1>3, <1>4, <1>5 DEF Passed, KeptTo
<1> QED  BY <1>1, <1>2, <1>3, <1>4, <1>5, <1>6, Numbers, DstLengths

\* The places of what is inserted and of the batch, at a step that inserts
\* nothing.
LEMMA PlacesKept ==
    ASSUME TypeInv, CopyPlaces, UNCHANGED <<origin, arrived>>,
           dst'.now.msgs = dst.now.msgs \/ dst'.now.msgs = dst.kept.msgs,
           dst'.kept.msgs = dst.now.msgs \/ dst'.kept.msgs = dst.kept.msgs,
           pc' \in {"item", "track", "flush"} =>
               \/ Ahead'
               \/ /\ pc \in {"item", "track", "flush"} /\ dst'.now.msgs = dst.now.msgs
                  /\ UNCHANGED <<idents, ident_idx>>
    PROVE  CopyPlaces'
<1>1. /\ InPlaces(dst'.now.msgs, 1, origin', arrived')
      /\ InPlaces(dst'.kept.msgs, 1, origin', arrived')
      BY DEF CopyPlaces
<1>2. pc' \in {"item", "track", "flush"} => Ahead'
      BY DEF CopyPlaces, Ahead
<1> QED  BY <1>1, <1>2 DEF CopyPlaces

\* The counts at a step that counts nothing.
LEMMA NumbersKept ==
    ASSUME TypeInv, pc # "flush", pc' # "flush", Reached' = Reached, event_no' = event_no
    PROVE  Passed' = Passed /\ KeptTo' = KeptTo
<1>1. Due = 0 /\ Due' = 0
      BY DEF Due
<1>2. KeptTo = Reached /\ KeptTo' = Reached'
      BY <1>1, OrderTypes DEF KeptTo
<1>3. Passed = Reached + event_no + 0 /\ Passed' = Reached' + event_no' + 0
      BY <1>1, OrderTypes DEF Passed
<1> QED  BY <1>2, <1>3

LEMMA CountsKept ==
    ASSUME TypeInv, CopyCounts, UNCHANGED <<origin, arrived>>, src'.now = src.now, ept' = ept,
           dst'.now.msgs = dst.now.msgs, dst'.kept.msgs = dst.kept.msgs,
           pc \notin {"flush", "done"}, pc' \notin {"flush", "done"},
           Reached' = Reached, event_no' = event_no,
           dst'.tx = dst.tx \/ dst'.tx, pc # "start" \/ (dst'.tx \/ ept <= 1)
    PROVE  CopyCounts'
<1>1. Passed' = Passed /\ KeptTo' = KeptTo
      BY NumbersKept
<1>2. Alone'
      BY DEF CopyCounts, Alone
<1> QED  BY <1>1, <1>2 DEF CopyCounts

\* The source of a move, at a step that inserts nothing and deletes nothing.
LEMMA RestsKept ==
    ASSUME MoveRests, UNCHANGED <<origin, arrived, delete_tbl>>, opt'.offset = opt.offset,
           src'.now = src.now, dst'.now.msgs = dst.now.msgs,
           pc' \in {"end", "done"} \/ pc \notin {"end", "done"}
    PROVE  MoveRests'
BY DEF MoveRests

LEMMA CopyOrderStart ==
    ASSUME CopyingNow, Start, ignored' = {}
    PROVE  CopyOrder'
<1>0. TypeInv /\ CopyPlaces /\ cmd \in Inserting
      BY DEF CopyingNow, OrderBase, BoundedInv, CopyOrder, Inserting
<1>1. /\ pc = "start" /\ pc' = "fetch" /\ cmd' = cmd /\ ept' = ept
      /\ opt' = opt /\ UNCHANGED <<origin, arrived, cur_count, event_no, delete_tbl>>
      BY <1>0, StartFacts, SameParts DEF CopyingNow, SameCommand
<1>2. /\ src' = src /\ dst'.now = dst.now /\ dst'.kept = dst.kept
      /\ dst'.tx = dst.tx \/ dst'.tx
      /\ dst'.tx \/ ept <= 1
  <2>1. ept \in Nat
        BY <1>0, Numbers
  <2> QED  BY <1>0, <2>1, QuietStart
<1>3. CopyPlaces'
      BY <1>0, <1>1, <1>2, PlacesKept
<1>4. Reached' = Reached
      BY <1>1 DEF Reached
<1>5. ASSUME cmd = "copy" PROVE CopyCounts'
  <2>1. CopyCounts
        BY <1>5 DEF CopyingNow, CopyOrder
  <2> QED  BY <1>0, <1>1, <1>2, <1>4, <2>1, CountsKept
<1>6. ASSUME cmd = "move" PROVE MoveRests'
      BY <1>1, <1>2, <1>6, RestsKept DEF CopyingNow, CopyOrder
<1> QED  BY <1>1, <1>3, <1>5, <1>6 DEF CopyOrder

\* The batch fetched goes on from what is inserted: a copy fetches after what
\* it has gone through, a move from the same place of a source that lacks it.
LEMMA BatchAhead ==
    ASSUME CopyingNow, pc = "fetch"
    PROVE  InPlaces(Batch, 1, origin + Len(dst.now.msgs), arrived)
<1> DEFINE all == Picked(src.now.msgs, Matching)
           L == Len(dst.now.msgs)
<1>0. /\ TypeInv /\ CopyPlaces /\ Listed /\ Keeping /\ Bounded
      BY DEF CopyingNow, OrderBase, BoundedInv, CopyOrder
<1> SUFFICES ASSUME NEW i \in 1..Len(Batch)
             PROVE  InPlace(Batch[i], origin + L + i, arrived)
    BY DEF InPlaces
<1>1. FetchOffset + i \in 1..Len(all) /\ Batch[i] = all[FetchOffset + i]
      BY <1>0, BatchPlaces DEF Selected
<1>2. /\ origin \in Nat /\ L \in Nat /\ i \in Nat /\ FetchOffset \in Nat /\ arrived \in 0..MaxMsgs
      /\ i >= 1
  <2>1. Len(Batch) \in Nat
        BY <1>0, BatchType
  <2> QED  BY <1>0, <2>1, OrderTypes, BatchType
<1>3. cmd = "copy" \/ cmd = "move"
      BY DEF CopyingNow
<1>4. CASE cmd = "copy"
  <2>1. CopyCounts /\ CopyBound
        BY <1>0, <1>4 DEF CopyingNow, CopyOrder, Bounded
  <2>2. all = Picked(FirstMsgs(arrived), Matching)
        BY <2>1 DEF CopyCounts
  <2>3. FetchOffset = origin + L
    <3>1. Due = 0 /\ event_no = 0
          BY <2>1 DEF Due, CopyBound
    <3>2. Passed = Reached + 0 + 0
          BY <3>1 DEF Passed
    <3>3. FetchOffset = Reached
          BY <1>4 DEF FetchOffset, Reached
    <3>4. Passed = origin + L
          BY <2>1 DEF CopyCounts
    <3> QED  BY <1>0, <3>2, <3>3, <3>4, OrderTypes
  <2> HIDE DEF all, L
  <2>4. FetchOffset + i \in 1..Len(Picked(FirstMsgs(arrived), Matching))
        BY <1>1, <2>2
  <2>5. /\ Picked(FirstMsgs(arrived), Matching)[FetchOffset + i] \in Matching \cap (1..arrived)
        /\ Rank(Picked(FirstMsgs(arrived), Matching)[FetchOffset + i], Matching) = FetchOffset + i
        BY <1>2, <2>4, FirstRanks
  <2> QED  BY <1>1, <2>2, <2>3, <2>5 DEF InPlace
<1>5. CASE cmd = "move"
  <2>1. MoveRests /\ KeepingNow
        BY <1>0, <1>5 DEF CopyingNow, CopyOrder, Keeping
  <2>2. Ordered(src.now.msgs) /\ src.now.msgs \in Seq(Msgs) /\ dst.now.msgs \in Seq(Msgs)
        BY <1>0, <2>1, SrcFields, DstLengths DEF KeepingNow, Remains
  <2>3. ToSet(src.now.msgs) = (1..arrived) \ ToSet(dst.now.msgs)
    <3>1. ToSet(delete_tbl) = {}
          BY <1>0, EmptySet DEF Listed
    <3> QED  BY <2>1, <3>1 DEF MoveRests
  <2>4. FetchOffset = origin
    <3>1. FetchOffset = opt.offset + 0
          BY <1>5 DEF FetchOffset
    <3> QED  BY <1>2, <2>1, <3>1 DEF MoveRests
  <2>5. InPlaces(dst.now.msgs, 1, origin, arrived)
        BY <1>0 DEF CopyPlaces
  <2> DEFINE p == FetchOffset + i
  <2>6. p \in 1..Len(Picked(src.now.msgs, Matching)) /\ p > origin /\ p + L = origin + L + i
    <3>1. p \in 1..Len(all)
          BY <1>1
    <3> HIDE DEF L, all
    <3>2. p > origin /\ p + L = origin + L + i
          BY <1>2, <2>4
    <3> QED  BY <3>1, <3>2 DEF all
  <2>7. arrived \in 0..MaxMsgs /\ origin \in Nat
        BY <1>2
  <2> HIDE DEF p
  <2>8. InPlace(Picked(src.now.msgs, Matching)[p], p + Len(dst.now.msgs), arrived)
        BY ONLY <2>2, <2>3, <2>5, <2>6, <2>7, RestRanks
  <2> QED  BY <1>1, <2>6, <2>8 DEF p
<1> QED  BY <1>3, <1>4, <1>5

LEMMA CopyOrderFetch ==
    ASSUME CopyingNow, Fetch, ignored' = {}
    PROVE  CopyOrder'
<1>0. TypeInv /\ CopyPlaces
      BY DEF CopyingNow, OrderBase, BoundedInv, CopyOrder
<1>1. /\ pc = "fetch" /\ cmd' = cmd /\ ept' = ept /\ src' = src /\ dst' = dst
      /\ opt' = opt /\ UNCHANGED <<origin, arrived, cur_count, event_no, delete_tbl>>
      /\ pc' = "end" \/ (pc' = "item" /\ idents' = Batch /\ ident_idx' = 1)
      BY <1>0, FetchFacts, SameParts DEF CopyingNow, SameCommand, src, dst
<1>2. CopyPlaces'
  <2>1. pc' = "item" => Ahead'
    <3> SUFFICES ASSUME pc' = "item" PROVE Ahead'
        OBVIOUS
    <3>1. InPlaces(Batch, 1, origin + Len(dst.now.msgs), arrived)
          BY <1>1, BatchAhead
    <3>2. origin + Len(dst.now.msgs) - (1 - 1) = origin + Len(dst.now.msgs)
          BY <1>0, OrderTypes
    <3>3. idents' = Batch /\ ident_idx' = 1
          BY <1>1
    <3> QED  BY <1>1, <3>1, <3>2, <3>3, Zenon DEF Ahead
  <2> QED  BY <1>0, <1>1, <2>1, PlacesKept
<1>3. ASSUME cmd = "copy" PROVE CopyCounts'
  <2>1. CopyCounts /\ Reached' = Reached
        BY <1>1, <1>3 DEF CopyingNow, CopyOrder, Reached
  <2> QED  BY <1>0, <1>1, <2>1, CountsKept
<1>4. ASSUME cmd = "move" PROVE MoveRests'
      BY <1>1, <1>4, RestsKept DEF CopyingNow, CopyOrder
<1> QED  BY <1>1, <1>2, <1>3, <1>4 DEF CopyOrder

\* The message in hand.
LEMMA ItemInPlace ==
    ASSUME TypeInv, CopyPlaces, pc = "item", ident_idx <= Len(idents)
    PROVE  InPlace(idents[ident_idx], origin + (Len(dst.now.msgs) + 1), arrived)
<1> DEFINE k == ident_idx
           L == Len(dst.now.msgs)
           base == origin + L - (k - 1)
<1>0. k \in Nat /\ k <= Len(idents) /\ L \in Nat /\ origin \in Nat /\ Len(idents) \in Nat
      BY OrderTypes
<1> HIDE DEF k, L
<1>1. k \in k..Len(idents) /\ base + k = origin + (L + 1)
      BY <1>0
<1>2. InPlaces(idents, k, base, arrived)
      BY DEF CopyPlaces, Ahead, k, L
<1> HIDE DEF base
<1>3. InPlace(idents[k], base + k, arrived)
      BY <1>1, <1>2 DEF InPlaces
<1>4. InPlace(idents[k], origin + (L + 1), arrived)
      BY <1>1, <1>3, Zenon
<1> QED  BY <1>4 DEF k, L

LEMMA CopyInserted ==
    ASSUME CopyingNow, pc = "item", ident_idx <= Len(idents), NEW m, m = idents[ident_idx],
           m \in Msgs, Inserted(m), src' = src, SameCommand,
           UNCHANGED <<cur_count, event_no, idents>>, ident_idx' = ident_idx + 1,
           \/ cmd = "copy" /\ pc' = "flush"
           \/ cmd = "move" /\ pc' = "track" /\ delete_tbl' = Append(delete_tbl, m)
    PROVE  CopyOrder'
<1> DEFINE L == Len(dst.now.msgs)
<1>0. TypeInv /\ CopyPlaces
      BY DEF CopyingNow, OrderBase, BoundedInv, CopyOrder
<1>1. InPlace(m, origin + (L + 1), arrived)
      BY <1>0, ItemInPlace
<1>2. /\ cmd' = cmd /\ ept' = ept /\ opt' = opt /\ UNCHANGED <<origin, arrived>>
      BY SameParts DEF SameCommand
<1>3. /\ dst'.now.msgs = Append(dst.now.msgs, m) /\ dst'.tx = dst.tx
      /\ IF dst.tx THEN dst'.kept = dst.kept ELSE dst'.kept.msgs = Append(dst.now.msgs, m)
  <2>1. With(dst.now, m).msgs = Append(dst.now.msgs, m)
        BY <1>0, DstLengths, WithFields
  <2> QED  BY <2>1 DEF Inserted
<1>4. /\ dst.now.msgs \in Seq(Msgs) /\ L \in Nat /\ Len(dst.kept.msgs) \in Nat
      /\ ~dst.tx => dst.now = dst.kept
      /\ Len(Append(dst.now.msgs, m)) = L + 1
      BY <1>0, DstLengths
<1>5. /\ InPlaces(dst'.now.msgs, 1, origin, arrived)
      /\ InPlaces(dst'.kept.msgs, 1, origin, arrived)
  <2>1. InPlaces(dst.now.msgs, 1, origin, arrived) /\ InPlaces(dst.kept.msgs, 1, origin, arrived)
        BY <1>0 DEF CopyPlaces
  <2>2. InPlaces(Append(dst.now.msgs, m), 1, origin, arrived)
        BY <1>1, <1>4, <2>1, PlacesAppend
  <2> QED  BY <1>3, <2>1, <2>2
<1>6. Ahead'
  <2>1. InPlaces(idents, ident_idx, origin + L - (ident_idx - 1), arrived)
        BY <1>0 DEF CopyPlaces, Ahead
  <2>2. origin + (L + 1) - (ident_idx + 1 - 1) = origin + L - (ident_idx - 1)
    <3>1. origin \in Nat /\ ident_idx \in Nat
          BY <1>0, OrderTypes
    <3>2. \A o, l, i \in Nat : o + (l + 1) - (i + 1 - 1) = o + l - (i - 1)
          OBVIOUS
    <3> QED  BY <1>4, <3>1, <3>2, Zenon
  <2>3. InPlaces(idents, ident_idx + 1, origin + L - (ident_idx - 1), arrived)
    <3>1. \A k \in (ident_idx + 1)..Len(idents) : k \in ident_idx..Len(idents)
          BY <1>0, OrderTypes
    <3> QED  BY <2>1, <3>1 DEF InPlaces
  <2>4. Len(dst'.now.msgs) = L + 1
        BY <1>3, <1>4
  <2>5. origin' + Len(dst'.now.msgs) - (ident_idx' - 1) = origin + L - (ident_idx - 1)
    <3>1. origin' = origin /\ ident_idx' = ident_idx + 1
          BY <1>2
    <3> HIDE DEF L
    <3>2. \A o, l, k : o = origin /\ l = L + 1 /\ k = ident_idx + 1 =>
                          o + l - (k - 1) = origin + L - (ident_idx - 1)
      <4>1. origin \in Nat /\ ident_idx \in Nat /\ L \in Nat
            BY <1>0, <1>4, OrderTypes
      <4> QED  BY <4>1
    <3>3. Len(dst'.now.msgs) = L + 1
          BY <2>4
    <3> QED  BY <3>1, <3>2, <3>3, Zenon
  <2>6. idents' = idents /\ ident_idx' = ident_idx + 1 /\ arrived' = arrived
        BY <1>2
  <2> QED  BY <2>3, <2>5, <2>6, Zenon DEF Ahead
<1>7. CopyPlaces'
      BY <1>2, <1>5, <1>6 DEF CopyPlaces
<1>8. ASSUME cmd = "copy" PROVE CopyCounts'
  <2>1. CopyCounts /\ pc' = "flush"
        BY <1>8 DEF CopyingNow, CopyOrder
  <2>2. Due = 0 /\ Due' = 1 /\ Reached' = Reached
        BY <1>2, <2>1 DEF Due, Reached
  <2>3. Reached \in Nat /\ event_no \in Nat /\ origin \in Nat
        BY <1>0, OrderTypes
  <2>4. /\ Passed = Reached + event_no + 0 /\ KeptTo = Reached
        /\ Passed' = Reached + event_no + 1 /\ KeptTo' = Reached + IF dst.tx THEN 0 ELSE 1
        BY <1>3, <2>2, <2>3 DEF Passed, KeptTo
  <2>5. Passed = origin + L /\ KeptTo = origin + Len(dst.kept.msgs)
        BY <2>1 DEF CopyCounts
  <2>6. Passed' = origin' + Len(dst'.now.msgs)
    <3>1. Len(dst'.now.msgs) = L + 1
          BY <1>3, <1>4
    <3> HIDE DEF L
    <3>2. Reached + event_no + 1 = origin + (L + 1)
      <4>1. Reached + event_no + 0 = origin + L
            BY <2>4, <2>5, Zenon DEF L
      <4> QED  BY <1>4, <2>3, <4>1
    <3> QED  BY <1>2, <2>4, <3>1, <3>2, Zenon
  <2>7. KeptTo' = origin' + Len(dst'.kept.msgs)
    <3>1. CASE dst.tx
      <4>1. KeptTo' = Reached
            BY <2>3, <2>4, <3>1
      <4> QED  BY <1>2, <1>3, <2>4, <2>5, <3>1, <4>1
    <3>2. CASE ~dst.tx
      <4>1. Len(dst'.kept.msgs) = L + 1 /\ Len(dst.kept.msgs) = L
            BY <1>3, <1>4, <3>2
      <4> QED  BY <1>2, <1>4, <2>3, <2>4, <2>5, <3>2, <4>1
    <3> QED  BY <3>1, <3>2
  <2>8. Alone' /\ src'.now.msgs = FirstMsgs(arrived')
        BY <1>2, <1>3, <2>1 DEF CopyCounts, Alone
  <2> QED  BY <2>6, <2>7, <2>8 DEF CopyCounts
<1>9. ASSUME cmd = "move" PROVE MoveRests'
  <2>1. MoveRests /\ delete_tbl' = Append(delete_tbl, m) /\ delete_tbl \in Seq(Msgs)
        BY <1>0, <1>9, OrderTypes DEF CopyingNow, CopyOrder
  <2>2. /\ ToSet(Append(delete_tbl, m)) = ToSet(delete_tbl) \cup {m}
        /\ ToSet(Append(dst.now.msgs, m)) = ToSet(dst.now.msgs) \cup {m}
        BY <1>4, <2>1, ToSetAppend
  <2>3. m \notin ToSet(dst.now.msgs)
    <3> SUFFICES ASSUME m \in ToSet(dst.now.msgs) PROVE FALSE
        OBVIOUS
    <3>1. PICK k \in 1..L : dst.now.msgs[k] = m
          BY DEF ToSet
    <3>2. Rank(m, Matching) = origin + k
          BY <1>0, <3>1 DEF CopyPlaces, InPlaces, InPlace
    <3>3. Rank(m, Matching) = origin + (L + 1)
          BY <1>1 DEF InPlace
    <3>4. origin \in Nat
          BY <1>0, OrderTypes
    <3> HIDE DEF L
    <3> QED  BY <1>4, <3>1, <3>2, <3>3, <3>4
  <2>4. /\ ToSet(delete_tbl) \subseteq ToSet(dst.now.msgs)
        /\ ToSet(src.now.msgs) = (1..arrived) \ (ToSet(dst.now.msgs) \ ToSet(delete_tbl))
        /\ opt.offset = origin
        BY <2>1 DEF MoveRests
  <2>5. /\ ToSet(delete_tbl') \subseteq ToSet(dst'.now.msgs)
        /\ ToSet(dst'.now.msgs) \ ToSet(delete_tbl') = ToSet(dst.now.msgs) \ ToSet(delete_tbl)
        BY <1>3, <2>1, <2>2, <2>3, <2>4
  <2> QED  BY <1>2, <2>4, <2>5 DEF MoveRests
<1> QED  BY <1>2, <1>7, <1>8, <1>9 DEF CopyOrder

LEMMA CopyOrderMessage ==
    ASSUME CopyingNow, CopyMessage
    PROVE  CopyOrder'
<1> DEFINE m == idents[ident_idx]
<1>0. TypeInv /\ CopyPlaces
      BY DEF CopyingNow, OrderBase, BoundedInv, CopyOrder
<1>1. /\ pc = "item" /\ ident_idx <= Len(idents) /\ m \in Msgs /\ ident_idx' = ident_idx + 1
      /\ SameCommand /\ src' = src /\ UNCHANGED <<cur_count, event_no, idents>>
      /\ \/ /\ dst' = Wrote(dst, With(dst.now, m))
            /\ \/ cmd = "copy" /\ pc' = "flush"
               \/ cmd = "move" /\ pc' = "track" /\ delete_tbl' = Append(delete_tbl, m)
         \/ /\ dst' = dst \/ dst' = Failed(dst, Torn(dst.now, {m}))
            /\ pc' = "end" /\ delete_tbl' = delete_tbl
      BY <1>0, CopyMessageFacts DEF OnlyDst, src, dst
<1> HIDE DEF m
<1>2. CASE /\ dst' = Wrote(dst, With(dst.now, m))
           /\ \/ cmd = "copy" /\ pc' = "flush"
              \/ cmd = "move" /\ pc' = "track" /\ delete_tbl' = Append(delete_tbl, m)
  <2>1. Inserted(m)
        BY <1>0, <1>1, <1>2, InsertedFacts
  <2> QED  BY <1>1, <1>2, <2>1, CopyInserted DEF m
<1>3. CASE /\ dst' = dst \/ dst' = Failed(dst, Torn(dst.now, {m}))
           /\ pc' = "end" /\ delete_tbl' = delete_tbl
  <2>1. dst'.now.msgs = dst.now.msgs /\ dst'.kept = dst.kept /\ dst'.tx = dst.tx
    <3>1. dst' = dst \/ HalfInserted(m)
          BY <1>0, <1>1, <1>3, InsertedFacts
    <3> QED  BY <3>1 DEF HalfInserted
  <2>2. cmd' = cmd /\ ept' = ept /\ opt' = opt /\ UNCHANGED <<origin, arrived>>
        BY <1>1, SameParts DEF SameCommand
  <2>3. CopyPlaces'
        BY <1>0, <1>3, <2>1, <2>2, PlacesKept
  <2>4. ASSUME cmd = "copy" PROVE CopyCounts'
    <3>1. CopyCounts /\ Reached' = Reached
          BY <1>1, <2>2, <2>4 DEF CopyingNow, CopyOrder, Reached
    <3> QED  BY <1>0, <1>1, <1>3, <2>1, <2>2, <3>1, CountsKept
  <2>5. ASSUME cmd = "move" PROVE MoveRests'
        BY <1>1, <1>3, <2>1, <2>2, <2>5, RestsKept DEF CopyingNow, CopyOrder
  <2> QED  BY <2>2, <2>3, <2>4, <2>5 DEF CopyOrder
<1> QED  BY <1>1, <1>2, <1>3

\* A deletion of what is listed, carried out or not.
LEMMA CopyOrderDeletion ==
    ASSUME CopyingNow, TrackDeletion \/ DeleteRest
    PROVE  CopyOrder'
<1>0. TypeInv /\ CopyPlaces
      BY DEF CopyingNow, OrderBase, BoundedInv, CopyOrder
<1>1. /\ cmd = "move" /\ cmd' = cmd /\ opt' = opt /\ UNCHANGED <<origin, arrived>> /\ dst' = dst
      /\ pc \notin {"end", "done"}
      /\ pc' \in {"item", "track", "flush"} =>
             pc \in {"item", "track", "flush"} /\ UNCHANGED <<idents, ident_idx>>
      /\ \/ src' = src /\ (delete_tbl' = delete_tbl \/ pc' = "end")
         \/ /\ src' = Wrote(src, Without(src.now, ToSet(delete_tbl)))
            /\ delete_tbl' = <<>>
      BY <1>0, TrackDeletionFacts, DeleteRestFacts, SameParts
         DEF SameCommand, Deleted, OnlySrc, src, dst, TypeInv, Phase
<1>2. CopyPlaces'
      BY <1>0, <1>1, PlacesKept
<1>3. MoveRests
      BY <1>1 DEF CopyingNow, CopyOrder
<1>4. MoveRests'
  <2>1. CASE src' = src /\ delete_tbl' = delete_tbl
        BY <1>1, <1>3, <2>1, RestsKept
  <2>2. CASE pc' = "end"
        BY <1>1, <1>3, <2>2 DEF MoveRests
  <2>3. CASE src' = Wrote(src, Without(src.now, ToSet(delete_tbl))) /\ delete_tbl' = <<>>
    <3>1. ToSet(delete_tbl) \in SUBSET Msgs
          BY <1>0 DEF TypeInv, TypeOK, ToSet
    <3>2. ToSet(src'.now.msgs) = ToSet(src.now.msgs) \ ToSet(delete_tbl)
          BY <1>0, <2>3, <3>1, SrcDeleted
    <3>3. /\ ToSet(delete_tbl) \subseteq ToSet(dst.now.msgs)
          /\ ToSet(src.now.msgs) = (1..arrived) \ (ToSet(dst.now.msgs) \ ToSet(delete_tbl))
          /\ opt.offset = origin
          BY <1>1, <1>3 DEF MoveRests
    <3>4. ToSet(src'.now.msgs) = (1..arrived) \ ToSet(dst.now.msgs)
          BY <3>2, <3>3
    <3>5. ToSet(delete_tbl') = {}
          BY <2>3, EmptySet
    <3> QED  BY <1>1, <3>3, <3>4, <3>5 DEF MoveRests
  <2> QED  BY <1>1, <2>1, <2>2, <2>3
<1> QED  BY <1>1, <1>2, <1>4 DEF CopyOrder

\* The counts after a flush: everything gone past is committed, or the counts
\* stay and the transaction goes on.
LEMMA NumbersFlushed ==
    ASSUME TypeInv, Alone, ept' = ept, opt' = opt, pc \notin {"start", "done"}, pc' # "flush",
           ept > 0 \/ Due = 0,
           \/ Durable /\ cur_count' = cur_count + event_no + Due /\ event_no' = 0
           \/ NotFlushed(Due) /\ dst' = dst /\ (Due = 1 => event_no + 1 < ept)
    PROVE  /\ Passed' = Passed /\ Alone'
           /\ \/ Durable /\ KeptTo' = Passed
              \/ dst' = dst /\ KeptTo' = KeptTo
<1>1. Due' = 0 /\ Due \in 0..1 /\ event_no \in Nat /\ cur_count \in Nat /\ opt.offset \in Nat
      /\ ept \in Nat
      BY OrderTypes DEF Due
<1>2. Passed = opt.offset + (cur_count + event_no + Due)
      BY <1>1 DEF Passed, Reached
<1>3. CASE Durable /\ cur_count' = cur_count + event_no + Due /\ event_no' = 0
  <2>1. dst'.tx
        BY <1>3 DEF Durable
  <2>2. Reached' = opt.offset + (cur_count + event_no + Due)
        BY <1>3 DEF Reached
  <2>3. Reached' \in Nat /\ Reached' = Passed
        BY <1>1, <1>2, <2>2
  <2>4. KeptTo' = Reached' + 0 /\ Passed' = Reached' + 0 + 0
        BY <1>1, <1>3, <2>1 DEF KeptTo, Passed
  <2>5. Alone'
        BY <2>1 DEF Alone
  <2> QED  BY <1>3, <2>3, <2>4, <2>5
<1>4. CASE NotFlushed(Due) /\ dst' = dst /\ (Due = 1 => event_no + 1 < ept)
  <2>1. cur_count' = cur_count /\ event_no' = event_no + Due
    <3>1. event_no + 0 = event_no
          BY <1>1
    <3> QED  BY <1>4, <3>1 DEF NotFlushed
  <2>2. Reached' = opt.offset + cur_count /\ Reached = opt.offset + cur_count
        BY <2>1 DEF Reached
  <2>3. Due = 1 => dst.tx
    <3> SUFFICES ASSUME Due = 1, ~dst.tx PROVE FALSE
        OBVIOUS
    <3>1. event_no + 1 < ept /\ ept <= 1
          BY <1>4 DEF Alone
    <3> QED  BY <1>1, <3>1
  <2>4. KeptTo = opt.offset + cur_count
    <3>1. CASE Due = 1
          BY <1>1, <2>2, <2>3, <3>1 DEF KeptTo
    <3>2. CASE Due = 0
          BY <1>1, <2>2, <3>2 DEF KeptTo
    <3> QED  BY <1>1, <3>1, <3>2
  <2>5. KeptTo' = (opt.offset + cur_count) + 0
        BY <1>1, <2>2 DEF KeptTo
  <2>6. Passed' = (opt.offset + cur_count) + (event_no + Due) + 0
        BY <1>1, <2>1, <2>2 DEF Passed
  <2>7. KeptTo' = KeptTo /\ Passed' = Passed
        BY <1>1, <1>2, <2>4, <2>5, <2>6
  <2>8. Alone'
        BY <1>4 DEF Alone
  <2> QED  BY <1>4, <2>7, <2>8
<1> QED  BY <1>3, <1>4

LEMMA CountsFlushed ==
    ASSUME TypeInv, CopyCounts, UNCHANGED <<origin, arrived>>, src' = src, ept' = ept, opt' = opt,
           pc \notin {"start", "done"}, pc' \notin {"flush", "done"}, ept > 0 \/ Due = 0,
           \/ Durable /\ cur_count' = cur_count + event_no + Due /\ event_no' = 0
           \/ NotFlushed(Due) /\ dst' = dst /\ (Due = 1 => event_no + 1 < ept)
    PROVE  CopyCounts'
<1>1. Alone
      BY DEF CopyCounts
<1>2. /\ Passed' = Passed /\ Alone'
      /\ \/ Durable /\ KeptTo' = Passed
         \/ dst' = dst /\ KeptTo' = KeptTo
      BY <1>1, NumbersFlushed
<1>3. \/ dst'.now = dst.now /\ dst'.kept = dst.now /\ KeptTo' = Passed
      \/ dst'.now = dst.now /\ dst'.kept = dst.kept /\ KeptTo' = KeptTo
      BY <1>2 DEF Durable
<1> QED  BY <1>2, <1>3 DEF CopyCounts

LEMMA CopyOrderFlush ==
    ASSUME CopyingNow, Flush \/ EndOfBatch, ignored' = {}
    PROVE  CopyOrder'
<1>0. /\ TypeInv /\ CopyPlaces /\ Whole /\ Listed /\ CopyBound /\ cmd \in {"copy", "move"}
      BY DEF CopyingNow, OrderBase, BoundedInv, CopyOrder, Bounded
<1>1. /\ cmd' = cmd /\ ept' = ept /\ opt' = opt /\ UNCHANGED <<origin, arrived>>
      /\ UNCHANGED <<idents, ident_idx, delete_tbl>>
      /\ \/ pc = "flush" /\ pc' = "item" /\ Due = 1 /\ FlushIfNeeded(1)
         \/ pc = "item" /\ pc' \in {"rest", "fetch", "end"} /\ Due = 0 /\ FlushIfNeeded(0)
  <2>1. CASE Flush
    <3>1. FlushIfNeeded(1)
          BY <1>0, <2>1 DEF Flush
    <3> QED  BY <1>0, <2>1, <3>1, FlushActionFacts, SameParts DEF SameCommand, Due
  <2>2. CASE EndOfBatch
    <3>1. FlushIfNeeded(0)
          BY <2>2 DEF EndOfBatch
    <3> QED  BY <1>0, <2>2, <3>1, EndOfBatchFacts, SameParts DEF SameCommand, Due
  <2> QED  BY <2>1, <2>2
<1>2. FlushIfNeeded(Due) /\ Due \in Nat /\ pc \notin {"start", "end", "done"} /\ cmd # "delete"
      BY <1>0, <1>1
<1>3. /\ src' = src
      /\ \/ /\ FlushIsDue(Due) /\ Durable
            /\ cur_count' = cur_count + event_no + Due /\ event_no' = 0
         \/ NotFlushed(Due) /\ dst' = dst
      BY <1>0, <1>2, QuietFlush
<1>4. dst'.now = dst.now /\ (dst'.kept = dst.now \/ dst'.kept = dst.kept)
      BY <1>3 DEF Durable
<1>5. CopyPlaces'
      BY <1>0, <1>1, <1>4, PlacesKept
<1>6. ASSUME cmd = "copy" PROVE CopyCounts'
  <2>1. CopyCounts
        BY <1>6 DEF CopyingNow, CopyOrder
  <2>2. /\ ept \in Nat /\ event_no \in Nat /\ ident_idx \in Nat /\ Len(idents) \in Nat
        /\ ident_idx <= Len(idents) + 1
        BY <1>0, Numbers
  <2>3. ept > 0 \/ Due = 0
    <3>1. CASE pc = "flush"
      <4>1. event_no + 1 < ident_idx /\ Len(idents) <= ept
            BY <1>0, <1>6, <3>1 DEF CopyBound, Listed
      <4> QED  BY <2>2, <4>1
    <3>2. CASE pc # "flush"
          BY <1>1, <3>2
    <3> QED  BY <3>1, <3>2
  <2>4. NotFlushed(Due) /\ Due = 1 => event_no + 1 < ept
    <3> SUFFICES ASSUME NotFlushed(Due), Due = 1 PROVE event_no + 1 < ept
        OBVIOUS
    <3>1. ~FlushIsDue(1) /\ ept > 0
          BY <2>3 DEF NotFlushed
    <3> QED  BY <2>2, <3>1 DEF FlushIsDue
  <2>5. pc' \notin {"flush", "done"}
        BY <1>1
  <2>6. \/ Durable /\ cur_count' = cur_count + event_no + Due /\ event_no' = 0
        \/ NotFlushed(Due) /\ dst' = dst /\ (Due = 1 => event_no + 1 < ept)
        BY <1>3, <2>4
  <2>7. /\ TypeInv /\ pc \notin {"start", "done"} /\ UNCHANGED <<origin, arrived>>
        /\ src' = src /\ ept' = ept /\ opt' = opt
        BY <1>0, <1>1, <1>2, <1>3
  <2> QED  BY ONLY <2>1, <2>3, <2>5, <2>6, <2>7, CountsFlushed
<1>7. ASSUME cmd = "move" PROVE MoveRests'
  <2>1. pc \notin {"end", "done"}
        BY <1>2
  <2> QED  BY <1>1, <1>3, <1>4, <1>7, <2>1, RestsKept DEF CopyingNow, CopyOrder
<1> QED  BY <1>1, <1>5, <1>6, <1>7 DEF CopyOrder

LEMMA CopyOrderFinish ==
    ASSUME CopyingNow, Finish, ignored' = {}
    PROVE  CopyOrder'
<1>0. TypeInv /\ CopyPlaces /\ Whole /\ cmd \in Inserting
      BY DEF CopyingNow, OrderBase, BoundedInv, CopyOrder, Inserting
<1>1. /\ pc = "end" /\ pc' = "done" /\ cmd' = cmd /\ opt' = opt /\ UNCHANGED <<origin, arrived>>
      /\ delete_tbl' = delete_tbl
      BY <1>0, FinishFacts, SameParts DEF SameCommand
<1>2. /\ src' = src /\ ~dst'.tx /\ dst'.now = dst'.kept
      /\ \/ dst'.kept = dst.now /\ cur_count' = cur_count + event_no
         \/ dst'.kept = dst.kept /\ cur_count' = cur_count
      BY <1>0, QuietFinish
<1>3. CopyPlaces'
      BY <1>0, <1>1, <1>2, PlacesKept
<1>4. ASSUME cmd = "copy" PROVE CopyCounts'
  <2>1. CopyCounts /\ Due = 0 /\ Due' = 0
        BY <1>1, <1>4 DEF CopyingNow, CopyOrder, Due
  <2>2. /\ opt.offset \in Nat /\ cur_count \in Nat /\ event_no \in Nat
        BY <1>0, OrderTypes
  <2>3. /\ opt.offset + cur_count = origin + Len(dst.kept.msgs)
        /\ opt.offset + (cur_count + event_no) = origin + Len(dst.now.msgs)
    <3>1. KeptTo = opt.offset + cur_count /\ Passed = opt.offset + (cur_count + event_no)
          BY <2>1, <2>2 DEF KeptTo, Passed, Reached
    <3> QED  BY <1>1, <2>1, <3>1, Zenon DEF CopyCounts
  <2>4. Reached' = origin + Len(dst'.kept.msgs) /\ Reached' \in Nat
    <3>1. Reached' = opt.offset + cur_count'
          BY <1>1 DEF Reached
    <3>2. CASE dst'.kept = dst.now /\ cur_count' = cur_count + event_no
          BY <2>2, <2>3, <3>1, <3>2
    <3>3. CASE dst'.kept = dst.kept /\ cur_count' = cur_count
          BY <2>2, <2>3, <3>1, <3>3
    <3> QED  BY <1>2, <3>2, <3>3
  <2>5. KeptTo' = Reached'
    <3>1. KeptTo' = Reached' + 0
          BY <2>1 DEF KeptTo
    <3> QED  BY <2>4, <3>1
  <2>6. src'.now.msgs = FirstMsgs(arrived') /\ Alone'
        BY <1>1, <1>2, <2>1 DEF CopyCounts, Alone
  <2> QED  BY <1>1, <2>4, <2>5, <2>6 DEF CopyCounts
<1>5. ASSUME cmd = "move" PROVE MoveRests'
      BY <1>1, <1>5 DEF CopyingNow, CopyOrder, MoveRests
<1> QED  BY <1>1, <1>3, <1>4, <1>5 DEF CopyOrder

LEMMA CopyOrderResume ==
    ASSUME CopyingNow, Resume, "move" \notin Resumable
    PROVE  CopyOrder'
<1>0. TypeInv /\ CopyPlaces /\ CopyBound
      BY DEF CopyingNow, OrderBase, BoundedInv, CopyOrder, Bounded
<1>1. /\ pc = "done" /\ pc' = "start" /\ cmd' = cmd /\ opt'.offset = opt.offset + cur_count
      /\ cur_count' = 0 /\ event_no' = 0 /\ UNCHANGED <<origin, arrived>>
      /\ src' = src /\ dst' = dst /\ cmd = "copy"
      BY <1>0, ResumeFacts DEF CopyingNow, src, dst
<1>2. CopyPlaces'
      BY <1>0, <1>1, PlacesKept
<1>3. CopyCounts'
  <2>1. CopyCounts /\ Level /\ Due = 0 /\ Due' = 0
        BY <1>0, <1>1 DEF CopyingNow, CopyOrder, CopyBound, Due
  <2>2. /\ opt.offset \in Nat /\ cur_count \in Nat
        BY <1>0, OrderTypes
  <2>3. opt.offset + cur_count = origin + Len(dst.kept.msgs)
    <3>1. KeptTo = opt.offset + cur_count
          BY <2>1, <2>2 DEF KeptTo, Reached
    <3> QED  BY <2>1, <3>1 DEF CopyCounts
  <2>4. Reached' = opt.offset + cur_count
    <3>1. Reached' = (opt.offset + cur_count) + 0
          BY <1>1 DEF Reached
    <3> QED  BY <2>2, <3>1
  <2>5. KeptTo' = opt.offset + cur_count /\ Passed' = opt.offset + cur_count
    <3>1. KeptTo' = (opt.offset + cur_count) + 0
          BY <2>1, <2>4 DEF KeptTo
    <3>2. Passed' = (opt.offset + cur_count) + 0 + 0
          BY <1>1, <2>1, <2>4 DEF Passed
    <3> QED  BY <2>2, <3>1, <3>2
  <2>6. Len(dst.now.msgs) = Len(dst.kept.msgs)
        BY <2>1 DEF Level
  <2>7. Alone' /\ src'.now.msgs = FirstMsgs(arrived')
        BY <1>1, <2>1 DEF Alone, CopyCounts
  <2> QED  BY <1>1, <2>3, <2>5, <2>6, <2>7 DEF CopyCounts
<1> QED  BY <1>1, <1>2, <1>3 DEF CopyOrder

LEMMA CopyOrderArrive ==
    ASSUME CopyingNow, Arrive
    PROVE  CopyOrder'
<1>0. TypeInv /\ CopyPlaces
      BY DEF CopyingNow, OrderBase, BoundedInv, CopyOrder
<1>1. /\ arrived' = arrived + 1 /\ arrived + 1 \in Msgs /\ dst' = dst
      /\ src'.now = With(src.now, arrived + 1)
      /\ cmd' = cmd /\ ept' = ept /\ opt' = opt
      /\ UNCHANGED <<origin, pc, cur_count, event_no, idents, ident_idx, delete_tbl>>
      BY <1>0, ArriveFacts DEF OnlySrc
<1>2. arrived \in Nat /\ arrived + 1 \in Nat /\ arrived <= arrived + 1 /\ arrived \in 0..MaxMsgs
      /\ arrived < MaxMsgs
  <2>1. arrived \in Nat /\ arrived + 1 <= MaxMsgs /\ arrived \in 0..MaxMsgs /\ MaxMsgs \in Nat
        BY <1>0, <1>1, OrderTypes, MessagesAssumption DEF Msgs
  <2> QED  BY <2>1
<1>3. CopyPlaces'
  <2>1. \A ms, from, base :
            InPlaces(ms, from, base, arrived) => InPlaces(ms, from, base, arrived + 1)
        BY <1>2, PlacesGrow
  <2>2. /\ InPlaces(dst.now.msgs, 1, origin, arrived + 1)
        /\ InPlaces(dst.kept.msgs, 1, origin, arrived + 1)
        /\ pc \in {"item", "track", "flush"} =>
               InPlaces(idents, ident_idx, origin + Len(dst.now.msgs) - (ident_idx - 1),
                        arrived + 1)
        BY <1>0, <2>1 DEF CopyPlaces, Ahead
  <2> QED  BY <1>1, <2>2 DEF CopyPlaces, Ahead
<1>4. src'.now.msgs = Append(src.now.msgs, arrived + 1) /\ src.now.msgs \in Seq(Msgs)
      BY <1>0, <1>1, SrcFields, WithFields
<1>5. ASSUME cmd = "copy" PROVE CopyCounts'
  <2>1. CopyCounts
        BY <1>5 DEF CopyingNow, CopyOrder
  <2>2. src'.now.msgs = FirstMsgs(arrived + 1)
        BY <1>2, <1>4, <2>1, FirstMsgsSeq DEF CopyCounts
  <2>3. UNCHANGED <<Due, Reached>>
        BY <1>1 DEF Due, Reached
  <2>4. UNCHANGED <<KeptTo, Passed, Alone>>
        BY <1>1, <2>3 DEF KeptTo, Passed, Alone
  <2> QED  BY <1>1, <2>1, <2>2, <2>4 DEF CopyCounts
<1>6. ASSUME cmd = "move" PROVE MoveRests'
  <2> SUFFICES ASSUME pc \notin {"end", "done"}
               PROVE  ToSet(src'.now.msgs)
                          = (1..(arrived + 1)) \ (ToSet(dst.now.msgs) \ ToSet(delete_tbl))
      BY <1>1, <1>6 DEF CopyingNow, CopyOrder, MoveRests
  <2>1. MoveRests
        BY <1>6 DEF CopyingNow, CopyOrder
  <2>2. ToSet(src'.now.msgs) = ToSet(src.now.msgs) \cup {arrived + 1}
        BY <1>1, <1>4, ToSetAppend
  <2>3. arrived + 1 \notin ToSet(dst.now.msgs)
    <3> SUFFICES ASSUME arrived + 1 \in ToSet(dst.now.msgs) PROVE FALSE
        OBVIOUS
    <3>1. PICK k \in 1..Len(dst.now.msgs) : dst.now.msgs[k] = arrived + 1
          BY <1>0, DstLengths DEF ToSet
    <3>2. dst.now.msgs[k] \in 1..arrived
          BY <1>0 DEF CopyPlaces, InPlaces, InPlace
    <3> QED  BY <1>2, <3>1, <3>2
  <2>4. 1..(arrived + 1) = (1..arrived) \cup {arrived + 1}
        BY <1>2
  <2>5. ToSet(src.now.msgs) = (1..arrived) \ (ToSet(dst.now.msgs) \ ToSet(delete_tbl))
        BY <2>1 DEF MoveRests
  <2> QED  BY <2>2, <2>3, <2>4, <2>5
<1> QED  BY <1>1, <1>3, <1>5, <1>6 DEF CopyOrder

\* Every step of a copy or a move.
LEMMA CopyOrderKept ==
    ASSUME CopyingNow, SameCommand,
           UNCHANGED <<src, dst, pc, cur_count, event_no, idents, ident_idx, delete_tbl>>
    PROVE  CopyOrder'
<1>0. /\ src' = src /\ dst' = dst /\ pc' = pc /\ cur_count' = cur_count /\ event_no' = event_no
      /\ idents' = idents /\ ident_idx' = ident_idx /\ delete_tbl' = delete_tbl
      /\ opt' = opt /\ origin' = origin /\ arrived' = arrived /\ cmd' = cmd /\ ept' = ept
      BY SameParts, Zenon DEF SameCommand
<1>1. Reached' = Reached /\ Due' = Due /\ Ahead' = Ahead /\ Alone' = Alone /\ MoveRests' = MoveRests
      BY <1>0, Zenon DEF Reached, Due, Ahead, Alone, MoveRests
<1>2. Passed' = Passed /\ KeptTo' = KeptTo
      BY <1>0, <1>1, Zenon DEF Passed, KeptTo
<1>3. CopyPlaces' = CopyPlaces /\ CopyCounts' = CopyCounts
      BY <1>0, <1>1, <1>2, Zenon DEF CopyPlaces, CopyCounts
<1> QED  BY <1>0, <1>1, <1>3, Zenon DEF CopyingNow, CopyOrder

LEMMA CopyOrderIdentFails ==
    ASSUME CopyingNow, IdentFails
    PROVE  CopyOrder'
<1>0. TypeInv /\ cmd \in {"copy", "move"}
      BY DEF CopyingNow, OrderBase, BoundedInv
<1>1. /\ SameCommand /\ pc = "item" /\ pc' = "item" /\ Stopped(ident_idx - 1)
      /\ UNCHANGED <<src, dst, cur_count, event_no, ident_idx, delete_tbl>>
      BY <1>0, IdentFailsFacts DEF Readers, src, dst
<1>2. /\ src' = src /\ dst' = dst /\ pc' = pc /\ cur_count' = cur_count /\ event_no' = event_no
      /\ ident_idx' = ident_idx /\ delete_tbl' = delete_tbl
      /\ opt' = opt /\ origin' = origin /\ arrived' = arrived /\ cmd' = cmd /\ ept' = ept
      BY <1>1, SameParts, Zenon DEF SameCommand
<1>3. Ahead'
  <2>1. Len(idents') < ident_idx /\ Len(idents') \in Nat /\ ident_idx \in Nat
        BY <1>0, <1>1, Numbers DEF Stopped
  <2> QED  BY <1>2, <2>1 DEF Ahead, InPlaces
<1>4. Reached' = Reached /\ Due' = Due /\ Alone' = Alone /\ MoveRests' = MoveRests
      BY <1>2, Zenon DEF Reached, Due, Alone, MoveRests
<1>5. Passed' = Passed /\ KeptTo' = KeptTo
      BY <1>2, <1>4, Zenon DEF Passed, KeptTo
<1>6. CopyPlaces /\ (CopyPlaces => CopyPlaces') /\ CopyCounts' = CopyCounts
      BY <1>2, <1>3, <1>4, <1>5, Zenon DEF CopyingNow, CopyOrder, CopyPlaces, CopyCounts
<1> QED  BY <1>2, <1>4, <1>6, Zenon DEF CopyingNow, CopyOrder

LEMMA CopyOrderStep ==
    ASSUME CopyingNow, [Next]_vars, ignored' = {}, "move" \notin Resumable
    PROVE  CopyOrder'
<1>0. TypeInv /\ cmd \in {"copy", "move"}
      BY DEF CopyingNow, OrderBase, BoundedInv
<1>1. CASE UNCHANGED vars
  <2>1. /\ SameCommand
        /\ UNCHANGED <<src, dst, pc, cur_count, event_no, idents, ident_idx, delete_tbl>>
        BY <1>1, Zenon
           DEF vars, countVars, batchVars, envVars, src, dst, SameCommand
  <2> QED  BY <2>1, CopyOrderKept
<1>2. CASE Signal
  <2>1. /\ SameCommand
        /\ UNCHANGED <<src, dst, pc, cur_count, event_no, idents, ident_idx, delete_tbl>>
        BY <1>0, <1>2, SignalFacts DEF src, dst
  <2> QED  BY <2>1, CopyOrderKept
<1>3. CASE Erase \/ Emit \/ OpenFile \/ NoMoreFiles \/ EndOfFile \/ SkipMessage \/ LoadMessage
  <2>1. cmd = "delete" \/ cmd \in Readers \/ cmd = "load"
        BY <1>0, <1>3, EraseFacts, EmitFacts, OpenFileFacts, ReadFacts, LoadMessageFacts
           DEF TypeInv, Phase
  <2> QED  BY <1>0, <2>1 DEF Readers
<1>4. CASE Step
      BY <1>3, <1>4, CopyOrderStart, CopyOrderFetch, CopyOrderFlush, CopyOrderMessage,
         CopyOrderIdentFails, CopyOrderDeletion, CopyOrderFinish, Zenon DEF Step
<1> QED  BY <1>1, <1>2, <1>4, CopyOrderResume, CopyOrderArrive, Zenon DEF Next

----------------------------------------------------------------------------
(***************************************************************************)
(* The order of what is loaded.  What a load has gone past is the beginning *)
(* of what the files hold after --offset, and what it has inserted is what  *)
(* --criteria selects of that beginning.                                    *)
(***************************************************************************)
Loaded(n) == Selected(SubSeq(InFiles, 1, n))
LoadedTo(ms, n) == n - origin \in 0..Len(InFiles) /\ ms = Loaded(n - origin)
LoadPlaces ==
    /\ LoadedTo(dst.kept.msgs, KeptTo)
    /\ pc # "done" => LoadedTo(dst.now.msgs, Passed)
    /\ Alone

\* Where the messages of each file start among those of all the files.
Parts == [i \in 1..Len(files) |-> Remainder(files[i])]
Starts == CHOOSE at : Joins(Parts, InFiles, at)

\* Neither a signal nor --count stops the load.
Running == ~stop_processing /\ ~LimitReached
Cursor == ident_idx - 1 + offset_copy
InFile ==
    /\ idents = files[fileno]
    /\ offset_copy > 0 => Cursor = opt.offset
    /\ pc = "flush" => offset_copy = 0
    /\ Cursor >= opt.offset
    /\ Running => Passed = Starts[fileno - 1] + Cursor
LoadCursor ==
    /\ opt.offset >= origin /\ (Len(files) # 1 => opt.offset = origin)
    /\ pc = "start" => fileno = 1 /\ cur_count = 0 /\ event_no = 0
    /\ pc = "open" /\ fileno <= Len(files) /\ Running => Passed = Starts[fileno - 1] + opt.offset
    /\ pc \in {"read", "flush"} => InFile
LoadOrder == LoadPlaces /\ LoadCursor
LoadingNow == OrderBase /\ cmd = "load" /\ ept > 0 /\ LoadOrder

\* What is left of a file after the first n messages.
LEMMA RemainderPlaces ==
    ASSUME TypeInv, NEW s \in Seq(Msgs)
    PROVE  /\ Remainder(s) \in Seq(Msgs)
           /\ Len(Remainder(s)) = IF origin < Len(s) THEN Len(s) - origin ELSE 0
           /\ \A i \in 1..(Len(s) - origin) : Remainder(s)[i] = s[origin + i]
<1>1. origin \in Nat /\ Len(s) \in Nat /\ \A i \in 1..Len(s) : s[i] \in Msgs
      BY OrderTypes
<1>2. \A i \in (origin + 1)..Len(s) : s[i] \in Msgs
      BY <1>1
<1> DEFINE u == SubSeq(s, origin + 1, Len(s))
<1>3. /\ u \in Seq(Msgs)
      /\ Len(u) = IF origin + 1 <= Len(s) THEN Len(s) - (origin + 1) + 1 ELSE 0
      /\ \A i \in 1..(Len(s) - (origin + 1) + 1) : u[i] = s[origin + 1 + i - 1]
      BY <1>1, <1>2, SubSeqProperties
<1> HIDE DEF u
<1>4. /\ u \in Seq(Msgs) /\ Len(u) = IF origin < Len(s) THEN Len(s) - origin ELSE 0
      /\ \A i \in 1..(Len(s) - origin) : u[i] = s[origin + i]
  <2>1. Len(s) - (origin + 1) + 1 = Len(s) - origin /\ (origin + 1 <= Len(s) <=> origin < Len(s))
        BY <1>1
  <2>2. \A i \in 1..(Len(s) - origin) : origin + 1 + i - 1 = origin + i
        BY <1>1
  <2> QED  BY <1>3, <2>1, <2>2
<1> QED  BY <1>4 DEF Remainder, u

\* All the files hold, and where the messages of each file start in it.
LEMMA PartsJoined ==
    ASSUME TypeInv
    PROVE  /\ Joins(Parts, InFiles, Starts) /\ InFiles \in Seq(Msgs) /\ Len(Parts) = Len(files)
           /\ Len(files) \in Nat /\ \A k \in 1..Len(files) : files[k] \in Seq(Msgs)
           /\ \A k \in 1..Len(files) : Parts[k] = Remainder(files[k])
<1>0. Len(files) \in Nat /\ \A k \in 1..Len(files) : files[k] \in Seq(Msgs)
      BY TypeParts, FilesType
<1>1. \A k \in 1..Len(files) : Remainder(files[k]) \in Seq(Msgs)
      BY <1>0, RemainderPlaces
<1>2. /\ Parts \in Seq(Seq(Msgs)) /\ Len(Parts) = Len(files)
      /\ \A k \in 1..Len(files) : Parts[k] = Remainder(files[k])
      BY <1>0, <1>1 DEF Parts
<1>3. InFiles = FlattenSeq(Parts)
      BY Zenon DEF InFiles, Parts
<1>4. InFiles \in Seq(Msgs) /\ \E at : Joins(Parts, InFiles, at)
      BY <1>2, <1>3, FlattenJoins
<1>5. Joins(Parts, InFiles, Starts)
      BY <1>4, Zenon DEF Starts
<1> QED  BY <1>0, <1>2, <1>4, <1>5

LEMMA FileParts ==
    ASSUME TypeInv
    PROVE  /\ InFiles \in Seq(Msgs) /\ Len(InFiles) \in Nat /\ Len(files) \in Nat /\ Starts[0] = 0
           /\ \A k \in 1..Len(files) :
                  /\ files[k] \in Seq(Msgs) /\ Len(files[k]) \in Nat
                  /\ Starts[k - 1] \in Nat /\ Starts[k - 1] <= Len(InFiles)
                  /\ Starts[k] \in Nat /\ Starts[k] <= Len(InFiles)
                  /\ origin < Len(files[k]) => Starts[k] = Starts[k - 1] + (Len(files[k]) - origin)
                  /\ origin >= Len(files[k]) => Starts[k] = Starts[k - 1]
                  /\ \A i \in 1..(Len(files[k]) - origin) :
                         InFiles[Starts[k - 1] + i] = files[k][origin + i]
<1>0. Len(files) \in Nat /\ \A k \in 1..Len(files) : files[k] \in Seq(Msgs)
      BY PartsJoined
<1>1. /\ Joins(Parts, InFiles, Starts) /\ Len(Parts) = Len(files)
      /\ \A k \in 1..Len(files) : Parts[k] = Remainder(files[k])
      BY PartsJoined
<1>2. InFiles \in Seq(Msgs) /\ Len(InFiles) \in Nat
      BY PartsJoined
<1>3. /\ Starts[0] = 0
      /\ \A i \in 0..Len(files) : Starts[i] \in Nat /\ Starts[i] <= Len(InFiles)
      /\ \A i \in 1..Len(files) :
             /\ Starts[i] = Starts[i - 1] + Len(Remainder(files[i]))
             /\ \A j \in 1..Len(Remainder(files[i])) :
                    InFiles[Starts[i - 1] + j] = Remainder(files[i])[j]
  <2> HIDE DEF Starts, Parts, InFiles, files
  <2>1. /\ Starts[0] = 0
        /\ \A i \in 0..Len(files) : Starts[i] \in 0..Len(InFiles)
        /\ \A i \in 1..Len(files) :
               /\ Starts[i] = Starts[i - 1] + Len(Parts[i])
               /\ \A j \in 1..Len(Parts[i]) : InFiles[Starts[i - 1] + j] = Parts[i][j]
        BY <1>1, Zenon DEF Joins
  <2>2. \A n \in 0..Len(InFiles) : n \in Nat /\ n <= Len(InFiles)
        BY <1>2
  <2> QED  BY <1>1, <2>1, <2>2, Zenon
<1> SUFFICES ASSUME NEW k \in 1..Len(files)
             PROVE  /\ files[k] \in Seq(Msgs) /\ Len(files[k]) \in Nat
                    /\ Starts[k - 1] \in Nat /\ Starts[k - 1] <= Len(InFiles)
                    /\ Starts[k] \in Nat /\ Starts[k] <= Len(InFiles)
                    /\ origin < Len(files[k]) =>
                           Starts[k] = Starts[k - 1] + (Len(files[k]) - origin)
                    /\ origin >= Len(files[k]) => Starts[k] = Starts[k - 1]
                    /\ \A i \in 1..(Len(files[k]) - origin) :
                           InFiles[Starts[k - 1] + i] = files[k][origin + i]
    BY <1>0, <1>2, <1>3
<1>4. k \in 0..Len(files) /\ k - 1 \in 0..Len(files)
      BY <1>0
<1>5. /\ Starts[k - 1] \in Nat /\ Starts[k - 1] <= Len(InFiles)
      /\ Starts[k] \in Nat /\ Starts[k] <= Len(InFiles)
      BY <1>3, <1>4, Zenon
<1>6. /\ Len(Remainder(files[k])) = IF origin < Len(files[k]) THEN Len(files[k]) - origin ELSE 0
      /\ \A i \in 1..(Len(files[k]) - origin) : Remainder(files[k])[i] = files[k][origin + i]
      BY <1>0, RemainderPlaces
<1>7. /\ Starts[k] = Starts[k - 1] + Len(Remainder(files[k]))
      /\ \A j \in 1..Len(Remainder(files[k])) :
             InFiles[Starts[k - 1] + j] = Remainder(files[k])[j]
      BY <1>3
<1>8. files[k] \in Seq(Msgs) /\ Len(files[k]) \in Nat /\ origin \in Nat
  <2>1. origin \in Nat
        BY OrderTypes, Zenon
  <2>2. files[k] \in Seq(Msgs)
        BY <1>0
  <2> QED  BY <2>1, <2>2
<1>9. /\ origin < Len(files[k]) => Starts[k] = Starts[k - 1] + (Len(files[k]) - origin)
      /\ origin >= Len(files[k]) => Starts[k] = Starts[k - 1]
  <2>1. CASE origin < Len(files[k])
    <3>1. Len(Remainder(files[k])) = Len(files[k]) - origin
          BY <1>6, <2>1
    <3>2. Starts[k] = Starts[k - 1] + (Len(files[k]) - origin)
          BY <1>7, <3>1
    <3> QED  BY <1>8, <2>1, <3>2
  <2>2. CASE origin >= Len(files[k])
    <3>1. Len(Remainder(files[k])) = 0
          BY <1>6, <1>8, <2>2
    <3>2. Starts[k] = Starts[k - 1] + 0
          BY <1>7, <3>1
    <3> QED  BY <1>5, <1>8, <2>2, <3>2
  <2> QED  BY <1>8, <2>1, <2>2
<1>10. ASSUME NEW i \in 1..(Len(files[k]) - origin)
       PROVE  InFiles[Starts[k - 1] + i] = files[k][origin + i]
  <2>1. i \in 1..Len(Remainder(files[k]))
        BY <1>6, <1>8
  <2> QED  BY <1>6, <1>7, <2>1, Zenon
<1> QED  BY <1>5, <1>8, <1>9, <1>10

LEMMA LastStart ==
    ASSUME TypeInv
    PROVE  Starts[Len(files)] = Len(InFiles)
<1> HIDE DEF Starts, Parts, InFiles, files
<1> QED  BY PartsJoined, Zenon DEF Joins

\* The files and what they hold stay the same.
LEMMA FilesKept ==
    ASSUME files' = files, origin' = origin
    PROVE  InFiles' = InFiles /\ Starts' = Starts
<1>1. Parts' = Parts
      BY DEF Parts, Remainder
<1>2. InFiles' = InFiles
      BY <1>1, Zenon DEF InFiles, Parts
<1>3. Starts' = Starts
      BY <1>1, <1>2, Zenon DEF Starts
<1> QED  BY <1>1, <1>2, <1>3

\* The end of a file is where the next one starts.
LEMMA NextFile ==
    ASSUME TypeInv, LoadCursor, pc = "read", Running, ident_idx > Len(idents), Len(files) # 1
    PROVE  Passed = Starts[fileno] + opt.offset
<1>1. fileno \in 1..Len(files)
  <2>1. fileno \in 1..(Len(files) + 1) /\ fileno <= Len(files)
        BY DEF TypeInv, TypeOK, Phase
  <2> QED  BY <2>1, FileParts
<1>2. /\ idents = files[fileno] /\ (offset_copy > 0 => Cursor = opt.offset) /\ Cursor >= opt.offset
      /\ Passed = Starts[fileno - 1] + Cursor /\ opt.offset = origin
      BY DEF LoadCursor, InFile
<1> DEFINE n == Len(idents)
<1>3. /\ n \in Nat /\ origin \in Nat /\ offset_copy \in Nat /\ ident_idx = n + 1
  <2>1. origin \in Nat /\ offset_copy \in Nat
        BY OrderTypes
  <2>2. n \in Nat /\ ident_idx \in Nat /\ ident_idx <= n + 1 /\ ident_idx > n
        BY Numbers
  <2> HIDE DEF n
  <2> QED  BY <2>1, <2>2
<1>4. Cursor = n + offset_copy
      BY <1>3 DEF Cursor
<1>5. /\ Starts[fileno - 1] \in Nat
      /\ origin < n => Starts[fileno] = Starts[fileno - 1] + (n - origin)
      /\ origin >= n => Starts[fileno] = Starts[fileno - 1]
      BY <1>1, <1>2, FileParts
<1> HIDE DEF n
<1> QED  BY <1>2, <1>3, <1>4, <1>5

\* The message in hand is the next one of all that the files hold.
LEMMA NextToLoad ==
    ASSUME TypeInv, LoadCursor, pc = "read", Running, ident_idx <= Len(idents), offset_copy = 0
    PROVE  /\ Passed - origin \in 0..Len(InFiles) /\ Passed - origin < Len(InFiles)
           /\ InFiles[(Passed - origin) + 1] = idents[ident_idx]
<1>1. fileno \in 1..Len(files)
  <2>1. fileno \in 1..(Len(files) + 1) /\ fileno <= Len(files)
        BY DEF TypeInv, TypeOK, Phase
  <2> QED  BY <2>1, FileParts
<1>2. /\ idents = files[fileno] /\ Cursor >= opt.offset /\ opt.offset >= origin
      /\ Passed = Starts[fileno - 1] + Cursor
      BY DEF LoadCursor, InFile
<1> DEFINE n == Len(idents)
           j == ident_idx - origin
           first == Starts[fileno - 1]
<1>3. /\ n \in Nat /\ origin \in Nat /\ opt.offset \in Nat /\ ident_idx \in Nat
      BY OrderTypes
<1>4. Cursor = ident_idx - 1
      BY <1>3 DEF Cursor
<1>5. j \in 1..(n - origin) /\ origin + j = ident_idx /\ origin < n
      BY <1>2, <1>3, <1>4
<1>6. /\ first \in Nat /\ Len(InFiles) \in Nat /\ first + (n - origin) <= Len(InFiles)
      /\ InFiles[first + j] = idents[origin + j]
  <2>1. /\ first \in Nat /\ Len(InFiles) \in Nat /\ Starts[fileno] <= Len(InFiles)
        /\ Starts[fileno] = first + (n - origin)
        BY <1>1, <1>2, <1>5, FileParts
  <2>2. InFiles[first + j] = idents[origin + j]
        BY <1>1, <1>2, <1>5, FileParts
  <2> QED  BY <2>1, <2>2
<1>7. Passed = first + (ident_idx - 1)
      BY <1>2, <1>4
<1> HIDE DEF n, first
<1>8. /\ Passed - origin \in 0..Len(InFiles) /\ Passed - origin < Len(InFiles)
      /\ (Passed - origin) + 1 = first + j
      BY <1>3, <1>5, <1>6, <1>7
<1> QED  BY <1>5, <1>6, <1>8

\* Where the load is in the files, at each step.
LEMMA LoadCursorKept ==
    ASSUME TypeInv, LoadCursor, SameCommand, cur_count' = cur_count, event_no' = event_no,
           ~stop_processing' => ~stop_processing,
           UNCHANGED <<pc, idents, ident_idx, offset_copy, fileno>>
    PROVE  LoadCursor' /\ Passed' = Passed
<1>1. opt' = opt /\ files' = files /\ origin' = origin
      BY SameParts DEF SameCommand
<1>2. Passed' = Passed
  <2>1. Due' = Due
        BY DEF Due
  <2>2. Reached' = Reached
        BY <1>1, Zenon DEF Reached
  <2> QED  BY <2>1, <2>2, Zenon DEF Passed
<1>3. Starts' = Starts /\ Cursor' = Cursor
      BY <1>1, FilesKept DEF Cursor
<1>4. LimitReached' = LimitReached
      BY <1>1, Zenon DEF LimitReached
<1>5. Running' => Running
      BY <1>4 DEF Running
<1>6. pc' \in {"read", "flush"} => InFile'
      BY <1>1, <1>2, <1>3, <1>5 DEF LoadCursor, InFile
<1>7. pc' = "open" /\ fileno' <= Len(files') /\ Running' =>
          Passed' = Starts'[fileno' - 1] + opt'.offset
      BY <1>1, <1>2, <1>3, <1>5 DEF LoadCursor
<1> QED  BY <1>1, <1>2, <1>6, <1>7 DEF LoadCursor

LEMMA LoadCursorStart ==
    ASSUME TypeInv, LoadCursor, cmd = "load", Start
    PROVE  LoadCursor' /\ Passed = opt.offset /\ Passed' = Passed
<1>1. /\ pc = "start" /\ pc' = "open" /\ files' = files /\ fileno' = fileno
      /\ opt' = opt /\ origin' = origin /\ cur_count' = cur_count /\ event_no' = event_no
      BY StartFacts, SameParts DEF SameCommand
<1>2. Passed' = Passed
  <2>1. Reached' = Reached
        BY <1>1 DEF Reached
  <2> QED  BY <1>1, <2>1, NumbersKept
<1>3. Passed = Starts[1 - 1] + opt.offset /\ fileno = 1 /\ Passed = opt.offset
  <2>1. cur_count = 0 /\ event_no = 0 /\ Due = 0 /\ fileno = 1 /\ opt.offset \in Nat
        BY <1>1, OrderTypes DEF LoadCursor, Due
  <2>2. Passed = opt.offset
        BY <2>1 DEF Passed, Reached
  <2>3. Starts[0] = 0
        BY FileParts
  <2> QED  BY <2>1, <2>2, <2>3
<1>4. Starts' = Starts
      BY <1>1, FilesKept
<1>5. LoadCursor'
      BY <1>1, <1>2, <1>3, <1>4 DEF LoadCursor
<1> QED  BY <1>2, <1>3, <1>5

LEMMA LoadCursorOpen ==
    ASSUME TypeInv, LoadCursor, OpenFile
    PROVE  LoadCursor'
<1>1. /\ pc = "open" /\ fileno <= Len(files) /\ SameCommand
      /\ cur_count' = cur_count /\ event_no' = event_no /\ fileno' = fileno
      /\ stop_processing' = stop_processing
      BY Zenon DEF OpenFile, SameCommand, outVars, envVars
<1>2. \/ /\ idents' = files[fileno] /\ ident_idx' = 1 /\ offset_copy' = opt.offset
         /\ pc' = "read"
      \/ pc' = "done"
      BY Zenon DEF OpenFile
<1>3. opt' = opt /\ origin' = origin /\ files' = files
      BY <1>1, SameParts DEF SameCommand
<1>4. CASE /\ idents' = files[fileno] /\ ident_idx' = 1 /\ offset_copy' = opt.offset
           /\ pc' = "read"
  <2>1. opt.offset \in Nat /\ Starts' = Starts
        BY <1>3, OrderTypes, FilesKept
  <2>2. Cursor' = opt.offset
    <3>1. Cursor' = 1 - 1 + opt.offset
          BY <1>4 DEF Cursor
    <3> QED  BY <2>1, <3>1
  <2>3. Passed' = Passed
    <3>1. Reached' = Reached
          BY <1>1, <1>3 DEF Reached
    <3> QED  BY <1>1, <1>4, <3>1, NumbersKept
  <2>4. Running' = Running
        BY <1>1, <1>3 DEF Running, LimitReached
  <2>5. Running => Passed = Starts[fileno - 1] + opt.offset
        BY <1>1 DEF LoadCursor
  <2>6. InFile'
    <3>1. opt'.offset = opt.offset /\ opt.offset >= opt.offset
          BY <1>3, <2>1
    <3>2. Running' => Passed' = Starts'[fileno' - 1] + Cursor'
          BY <1>1, <2>1, <2>2, <2>3, <2>4, <2>5
    <3> QED  BY <1>1, <1>3, <1>4, <2>2, <3>1, <3>2 DEF InFile
  <2> QED  BY <1>3, <1>4, <2>6 DEF LoadCursor
<1>5. CASE pc' = "done"
      BY <1>3, <1>5 DEF LoadCursor
<1> QED  BY <1>2, <1>4, <1>5

LEMMA LoadCursorRead ==
    ASSUME TypeInv, LoadCursor, NoMoreFiles \/ EndOfFile \/ SkipMessage
    PROVE  LoadCursor' /\ Passed' = Passed
<1>1. /\ SameCommand /\ cur_count' = cur_count /\ event_no' = event_no
      /\ stop_processing' = stop_processing
      BY ReadFacts
<1>2. /\ opt' = opt /\ origin' = origin /\ files' = files
      /\ Starts' = Starts /\ LimitReached' = LimitReached /\ Running' = Running
      BY <1>1, SameParts, FilesKept DEF SameCommand, LimitReached, Running
<1>3. \/ pc = "open" /\ pc' = "end"
      \/ /\ pc = "read" /\ pc' = "open" /\ fileno' = fileno + 1
         /\ Running => ident_idx > Len(idents)
      \/ /\ pc = "read" /\ pc' = "read" /\ idents' = idents /\ fileno' = fileno
         /\ offset_copy > 0 /\ offset_copy' = offset_copy - 1 /\ ident_idx' = ident_idx + 1
      BY DEF NoMoreFiles, EndOfFile, SkipMessage, batchVars, Running
<1>4. Reached' = Reached
      BY <1>1, <1>2 DEF Reached
<1>5. Passed' = Passed
      BY <1>1, <1>3, <1>4, NumbersKept
<1>6. CASE pc = "open" /\ pc' = "end"
      BY <1>2, <1>5, <1>6 DEF LoadCursor
<1>7. CASE /\ pc = "read" /\ pc' = "open" /\ fileno' = fileno + 1
           /\ Running => ident_idx > Len(idents)
  <2>1. fileno \in Nat /\ fileno >= 1 /\ Len(files) \in Nat
        BY FileParts DEF TypeInv, TypeOK
  <2>2. ASSUME Running', fileno' <= Len(files) PROVE Passed' = Starts'[fileno' - 1] + opt'.offset
    <3>1. Len(files) # 1 /\ fileno' - 1 = fileno
      <4>1. \A n \in Nat : \A f : f = n + 1 => f - 1 = n
            OBVIOUS
      <4>2. \A n, l \in Nat : n >= 1 /\ n + 1 <= l => ~(l = 1)
            OBVIOUS
      <4>3. fileno' = fileno + 1
            BY <1>7, Zenon
      <4>4. fileno + 1 <= Len(files)
            BY <2>2, <4>3, Zenon
      <4>5. Len(files) # 1
            BY <2>1, <4>2, <4>4, Zenon
      <4>6. fileno' - 1 = fileno
            BY <2>1, <4>1, <4>3, Zenon
      <4> QED  BY <4>5, <4>6, Zenon
    <3>2. Passed = Starts[fileno] + opt.offset
          BY <1>2, <1>7, <2>2, <3>1, NextFile
    <3> QED  BY <1>2, <1>5, <3>1, <3>2
  <2> QED  BY <1>2, <1>5, <1>7, <2>2 DEF LoadCursor
<1>8. CASE /\ pc = "read" /\ pc' = "read" /\ idents' = idents /\ fileno' = fileno
           /\ offset_copy > 0 /\ offset_copy' = offset_copy - 1 /\ ident_idx' = ident_idx + 1
  <2>1. Cursor' = Cursor
    <3>1. ident_idx \in Nat /\ offset_copy \in Nat
          BY OrderTypes
    <3>2. \A i, o : i = ident_idx + 1 /\ o = offset_copy - 1 =>
                       i - 1 + o = ident_idx - 1 + offset_copy
          BY <3>1
    <3> QED  BY <1>8, <3>2, Zenon DEF Cursor
  <2>2. InFile'
        BY <1>2, <1>5, <1>8, <2>1 DEF LoadCursor, InFile
  <2> QED  BY <1>2, <1>5, <1>8, <2>2 DEF LoadCursor
<1> QED  BY <1>3, <1>6, <1>7, <1>8

LEMMA LoadCursorMessage ==
    ASSUME TypeInv, LoadCursor, LoadMessage
    PROVE  /\ LoadCursor' /\ Reached' = Reached /\ Passed' = Passed + Due'
           /\ pc = "read" /\ Running /\ ident_idx <= Len(idents) /\ offset_copy = 0
<1>0. /\ event_no \in Nat /\ Reached \in Nat /\ ident_idx \in Nat /\ opt.offset \in Nat
      /\ offset_copy \in Nat
      BY OrderTypes
<1>1. /\ pc = "read" /\ Running /\ ident_idx <= Len(idents) /\ offset_copy = 0
      /\ ident_idx' = ident_idx + 1 /\ SameCommand /\ pc' \in {"flush", "end"}
      /\ UNCHANGED <<cur_count, event_no, offset_copy, idents, fileno, stop_processing>>
      BY DEF LoadMessage, Running, SameCommand, countVars, outVars, envVars
<1>2. /\ opt' = opt /\ origin' = origin /\ files' = files /\ Starts' = Starts
      /\ LimitReached' = LimitReached /\ Running' = Running
      BY <1>1, SameParts, FilesKept DEF SameCommand, LimitReached, Running
<1>3. Reached' = Reached
      BY <1>1, <1>2, Zenon DEF Reached
<1>4. Passed' = Passed + Due'
  <2>1. Due = 0 /\ Due' \in 0..1
        BY <1>1 DEF Due
  <2>2. Passed = Reached + event_no + 0 /\ Passed' = Reached + event_no + Due'
        BY <1>1, <1>3, <2>1, Zenon DEF Passed
  <2> QED  BY <1>0, <2>1, <2>2
<1>5. CASE pc' = "end"
      BY <1>1, <1>2, <1>3, <1>4, <1>5 DEF LoadCursor
<1>6. CASE pc' = "flush"
  <2>1. /\ idents = files[fileno] /\ Cursor >= opt.offset
        /\ Passed = Starts[fileno - 1] + Cursor
        BY <1>1 DEF LoadCursor, InFile
  <2>2. Starts[fileno - 1] \in Nat
    <3>1. fileno \in 1..(Len(files) + 1) /\ fileno <= Len(files)
          BY <1>1 DEF TypeInv, TypeOK, Phase
    <3>2. fileno \in 1..Len(files)
          BY <3>1, FileParts
    <3> QED  BY <3>2, FileParts
  <2>3. Cursor' = Cursor + 1 /\ Cursor \in Int
    <3>1. \A i, o, c : i = ident_idx + 1 /\ o = offset_copy /\ c = ident_idx - 1 + offset_copy =>
                         i - 1 + o = c + 1
          BY <1>0
    <3> QED  BY <1>0, <1>1, <3>1 DEF Cursor
  <2>4. Cursor + 1 >= opt.offset /\ Passed + 1 = Starts[fileno - 1] + (Cursor + 1)
    <3> HIDE DEF Cursor
    <3> QED  BY <1>0, <2>1, <2>2, <2>3
  <2>5. Cursor' >= opt'.offset /\ Passed' = Starts'[fileno' - 1] + Cursor'
    <3>1. Due' = 1
          BY <1>6 DEF Due
    <3> QED  BY <1>1, <1>2, <1>4, <2>3, <2>4, <3>1
  <2>6. InFile'
        BY <1>1, <1>2, <2>1, <2>5 DEF InFile
  <2> QED  BY <1>1, <1>2, <1>3, <1>4, <1>6, <2>6 DEF LoadCursor
<1> QED  BY <1>1, <1>5, <1>6

\* A flush moves a message from what is in hand to what is counted.
LEMMA PassedFlushed ==
    ASSUME TypeInv, opt' = opt, ept > 0, Due' = 0, Flushed(Due) \/ NotFlushed(Due)
    PROVE  /\ Passed' = Passed /\ cur_count' \in Nat /\ cur_count' >= cur_count
           /\ Flushed(Due) => Reached' = Passed
           /\ NotFlushed(Due) => Reached' = Reached
<1>0. /\ event_no \in Nat /\ opt.offset \in Nat /\ cur_count \in Nat /\ Due \in 0..1
      BY OrderTypes
<1>1. Passed = opt.offset + cur_count + event_no + Due
      BY DEF Passed, Reached
<1>2. CASE Flushed(Due)
  <2>1. cur_count' = cur_count + event_no + Due /\ event_no' = 0
        BY <1>2 DEF Flushed
  <2>2. Reached' = opt.offset + (cur_count + event_no + Due)
        BY <2>1 DEF Reached
  <2>3. Passed' = opt.offset + (cur_count + event_no + Due) + 0 + 0
        BY <2>1, <2>2 DEF Passed
  <2>4. Reached' = Passed /\ Passed' = Passed
        BY <1>0, <1>1, <2>2, <2>3
  <2> QED  BY <1>0, <1>2, <2>1, <2>4 DEF NotFlushed, Flushed
<1>3. CASE NotFlushed(Due)
  <2>1. cur_count' = cur_count /\ event_no' = event_no + Due
        BY <1>3 DEF NotFlushed
  <2>2. Reached' = Reached
        BY <2>1 DEF Reached
  <2>3. Passed' = opt.offset + cur_count + (event_no + Due) + 0
        BY <2>1 DEF Passed, Reached
  <2>4. Passed' = Passed
        BY <1>0, <1>1, <2>3
  <2> QED  BY <1>0, <1>3, <2>1, <2>2, <2>4 DEF NotFlushed, Flushed
<1> QED  BY <1>2, <1>3

LEMMA LoadCursorFlush ==
    ASSUME TypeInv, LoadCursor, cmd = "load", ept > 0, Flush
    PROVE  LoadCursor' /\ Passed' = Passed
<1>0. cur_count \in Nat /\ opt.limit \in Int
      BY Numbers
<1>1. /\ pc = "flush" /\ pc' = "read" /\ SameCommand /\ (Flushed(Due) \/ NotFlushed(Due))
      /\ Due' = 0 /\ UNCHANGED <<offset_copy, idents, ident_idx, fileno, stop_processing>>
  <2>1. pc = "flush"
        BY FlushActionFacts
  <2>2. Increment = Due
        BY <2>1 DEF Increment, Due
  <2> QED  BY <2>2, FlushActionFacts DEF Due
<1>2. /\ opt' = opt /\ origin' = origin /\ ept' = ept /\ files' = files /\ Starts' = Starts
      BY <1>1, SameParts, FilesKept DEF SameCommand
<1>3. Passed' = Passed /\ cur_count' \in Nat /\ cur_count' >= cur_count
      BY <1>1, <1>2, PassedFlushed
<1>4. Running' => Running
  <2>1. LimitReached => LimitReached'
        BY <1>0, <1>2, <1>3 DEF LimitReached
  <2> QED  BY <1>1, <2>1 DEF Running
<1>5. InFile'
  <2>1. Cursor' = Cursor
        BY <1>1, Zenon DEF Cursor
  <2> QED  BY <1>1, <1>2, <1>3, <1>4, <2>1 DEF LoadCursor, InFile
<1>6. LoadCursor'
      BY <1>1, <1>2, <1>5 DEF LoadCursor
<1> QED  BY <1>3, <1>6

LEMMA LoadCursorResume ==
    ASSUME TypeInv, LoadCursor, cmd = "load", Resume
    PROVE  LoadCursor'
<1>1. /\ pc' = "start" /\ opt'.offset = opt.offset + cur_count /\ files' = files
      /\ cur_count' = 0 /\ event_no' = 0 /\ origin' = origin
      BY ResumeFacts
<1>2. fileno' = 1 /\ Len(files) = 1
      BY Zenon DEF Resume
<1>3. opt'.offset >= origin
  <2>1. opt.offset \in Nat /\ cur_count \in Nat /\ origin \in Nat /\ opt.offset >= origin
        BY OrderTypes DEF LoadCursor
  <2> QED  BY <1>1, <2>1
<1> QED  BY <1>1, <1>2, <1>3 DEF LoadCursor

\* Every step keeps the place of the load in the files.
LEMMA LoadCursorStep ==
    ASSUME TypeInv, LoadCursor, cmd = "load", ept > 0, [Next]_vars
    PROVE  LoadCursor'
<1>1. CASE UNCHANGED vars
  <2>1. /\ SameCommand /\ UNCHANGED <<cur_count, event_no, pc, idents, ident_idx, offset_copy,
                                      fileno, stop_processing>>
        BY <1>1, Zenon DEF vars, countVars, batchVars, envVars, SameCommand
  <2> QED  BY <2>1, LoadCursorKept
<1>2. CASE Signal
  <2>1. /\ SameCommand /\ UNCHANGED <<cur_count, event_no, pc, idents, ident_idx, offset_copy,
                                      fileno>>
        BY <1>2, SignalFacts
  <2>2. ~stop_processing
        BY <1>2 DEF Signal
  <2> QED  BY <2>1, <2>2, LoadCursorKept
<1>3. CASE \/ Fetch \/ CopyMessage \/ TrackDeletion \/ IdentFails \/ EndOfBatch \/ DeleteRest
           \/ Erase \/ Emit \/ Arrive
  <2>1. cmd # "load"
        BY <1>3, FetchFacts, CopyMessageFacts, TrackDeletionFacts, IdentFailsFacts,
           EndOfBatchFacts, DeleteRestFacts, EraseFacts, EmitFacts, ArriveFacts DEF TypeInv, Phase, Readers
  <2> QED  BY <2>1
<1>4. CASE Finish
  <2>1. pc' = "done" /\ opt' = opt /\ origin' = origin /\ files' = files
        BY <1>4, FinishFacts, SameParts DEF SameCommand
  <2> QED  BY <2>1 DEF LoadCursor
<1>5. CASE Step
      BY <1>3, <1>4, <1>5, LoadCursorStart, LoadCursorFlush, LoadCursorOpen, LoadCursorRead,
         LoadCursorMessage, Zenon DEF Step
<1> QED  BY <1>1, <1>2, <1>3, <1>5, LoadCursorResume, Zenon DEF Next

\* What is inserted and committed after a step that inserts nothing.
LEMMA LoadPlacesKept ==
    ASSUME LoadPlaces, files' = files, origin' = origin, Alone',
           \/ dst'.kept.msgs = dst.kept.msgs /\ KeptTo' = KeptTo
           \/ pc # "done" /\ dst'.kept.msgs = dst.now.msgs /\ KeptTo' = Passed,
           \/ pc' = "done"
           \/ pc # "done" /\ dst'.now.msgs = dst.now.msgs /\ Passed' = Passed
           \/ dst'.now.msgs = dst'.kept.msgs /\ Passed' = KeptTo'
    PROVE  LoadPlaces'
<1>1. InFiles' = InFiles
      BY FilesKept
<1>2. LoadedTo(dst.kept.msgs, KeptTo) /\ (pc # "done" => LoadedTo(dst.now.msgs, Passed))
      BY DEF LoadPlaces
<1>3. LoadedTo(dst'.kept.msgs, KeptTo')
      BY <1>2, Zenon
<1>4. pc' # "done" => LoadedTo(dst'.now.msgs, Passed')
      BY <1>2, <1>3, Zenon
<1>5. LoadedTo(dst.kept.msgs, KeptTo)' /\ (pc' # "done" => LoadedTo(dst.now.msgs, Passed)')
      BY <1>1, <1>3, <1>4, Zenon DEF LoadedTo, Loaded
<1> QED  BY <1>5 DEF LoadPlaces

\* A step that only moves the cursor, or that only stops the command.
LEMMA LoadPlacesSame ==
    ASSUME TypeInv, LoadPlaces, SameCommand, dst'.tx = dst.tx, dst'.now.msgs = dst.now.msgs,
           dst'.kept.msgs = dst.kept.msgs, cur_count' = cur_count, event_no' = event_no,
           \/ pc' = pc
           \/ pc \notin {"start", "done", "flush"} /\ pc' \in {"open", "read", "end"}
    PROVE  LoadPlaces'
<1>1. opt' = opt /\ files' = files /\ origin' = origin /\ ept' = ept
      BY SameParts DEF SameCommand
<1>2. Reached' = Reached
      BY <1>1, Zenon DEF Reached
<1>3. Passed' = Passed /\ KeptTo' = KeptTo
  <2>1. Due' = Due
        BY DEF Due
  <2> QED  BY <1>2, <2>1, Zenon DEF Passed, KeptTo
<1>4. Alone'
      BY <1>1 DEF LoadPlaces, Alone
<1> QED  BY <1>1, <1>3, <1>4, LoadPlacesKept

LEMMA LoadPlacesStart ==
    ASSUME LoadingNow, Start, ignored' = {}
    PROVE  LoadPlaces'
<1>0. TypeInv /\ cmd \in Inserting /\ cmd = "load" /\ LoadPlaces /\ ept \in Nat
      BY Numbers DEF LoadingNow, OrderBase, BoundedInv, Inserting, LoadOrder
<1>1. /\ pc = "start" /\ pc' = "open" /\ ept' = ept /\ files' = files
      /\ opt' = opt /\ origin' = origin /\ cur_count' = cur_count /\ event_no' = event_no
      BY <1>0, StartFacts, SameParts DEF SameCommand
<1>2. /\ dst'.now = dst.now /\ dst'.kept = dst.kept /\ (dst'.tx \/ ept <= 1)
      BY <1>0, QuietStart
<1>3. Reached' = Reached
      BY <1>1 DEF Reached
<1>4. Passed' = Passed /\ KeptTo' = KeptTo
      BY <1>0, <1>1, <1>3, NumbersKept
<1>5. Alone'
      BY <1>1, <1>2 DEF Alone
<1> QED  BY <1>0, <1>1, <1>2, <1>4, <1>5, LoadPlacesKept

LEMMA LoadPlacesOpen ==
    ASSUME LoadingNow, OpenFile
    PROVE  LoadPlaces'
<1>0. TypeInv /\ LoadPlaces
      BY DEF LoadingNow, OrderBase, BoundedInv, LoadOrder
<1>1. /\ pc = "open" /\ SameCommand /\ cur_count' = cur_count /\ event_no' = event_no
      /\ \/ pc' = "read" /\ db' = db
         \/ pc' = "done" /\ OnlyDst(RolledBack(dst))
      BY <1>0, OpenFileFacts
<1>2. opt' = opt /\ origin' = origin /\ files' = files
      BY <1>1, SameParts DEF SameCommand
<1>3. CASE pc' = "read" /\ db' = db
  <2>1. dst' = dst
        BY <1>3 DEF dst
  <2> QED  BY <1>0, <1>1, <1>3, <2>1, LoadPlacesSame
<1>4. CASE pc' = "done" /\ OnlyDst(RolledBack(dst))
  <2>1. dst'.kept = dst.kept
        BY <1>4 DEF OnlyDst, RolledBack, NewSession
  <2>2. KeptTo' = KeptTo
    <3>1. Reached' = Reached
          BY <1>1, <1>2 DEF Reached
    <3> QED  BY <1>0, <1>1, <1>4, <3>1, NumbersKept
  <2> QED  BY <1>0, <1>2, <1>4, <2>1, <2>2, LoadPlacesKept DEF Alone
<1> QED  BY <1>1, <1>3, <1>4

LEMMA LoadPlacesRead ==
    ASSUME LoadingNow, NoMoreFiles \/ EndOfFile \/ SkipMessage
    PROVE  LoadPlaces'
<1>0. TypeInv /\ LoadPlaces
      BY DEF LoadingNow, OrderBase, BoundedInv, LoadOrder
<1>1. /\ SameCommand /\ db' = db /\ cur_count' = cur_count /\ event_no' = event_no
      /\ pc \in {"open", "read"} /\ pc' \in {"end", "open", "read"}
      BY <1>0, ReadFacts
<1>2. dst' = dst
      BY <1>1 DEF dst
<1> QED  BY <1>0, <1>1, <1>2, LoadPlacesSame

\* The next message, inserted if --criteria selects it.
LEMMA LoadOne ==
    ASSUME TypeInv, LoadedTo(dst.now.msgs, Passed), NEW m, NEW ms,
           Passed - origin < Len(InFiles), InFiles[(Passed - origin) + 1] = m,
           ms = IF m \in Matching THEN Append(dst.now.msgs, m) ELSE dst.now.msgs
    PROVE  LoadedTo(ms, Passed + 1)
<1> DEFINE n == Passed - origin
<1>1. /\ n \in 0..Len(InFiles) /\ InFiles \in Seq(Msgs) /\ Len(InFiles) \in Nat /\ Passed \in Nat
      /\ origin \in Nat /\ dst.now.msgs = Loaded(n)
      BY FileParts, OrderTypes DEF LoadedTo
<1>2. Loaded(n + 1) = IF InFiles[n + 1] \in Matching THEN Append(Loaded(n), InFiles[n + 1])
                                                     ELSE Loaded(n)
      BY <1>1, PickedBeginning DEF Loaded, Selected
<1>3. (Passed + 1) - origin = n + 1 /\ n + 1 \in 0..Len(InFiles)
      BY <1>1
<1>4. ms = Loaded(n + 1)
      BY <1>1, <1>2
<1> QED  BY <1>3, <1>4 DEF LoadedTo

\* A message read is inserted, skipped as --criteria does not select it, or
\* stops the load.
LEMMA LoadMessageOutcomes ==
    ASSUME TypeInv, LoadMessage
    PROVE  LET m == idents[ident_idx] IN
           \/ pc' = "flush" /\ m \in Matching /\ dst' = Wrote(dst, With(dst.now, m))
           \/ pc' = "flush" /\ m \notin Matching /\ dst' = dst
           \/ pc' = "end" /\ dst' = dst
           \/ pc' = "end" /\ dst' = Failed(dst, Torn(dst.now, {m}))
<1> DEFINE m == idents[ident_idx]
<1>1. \/ /\ pc' = "flush" /\ m \in Matching
         /\ db' = [db EXCEPT !["dst"] = Wrote(dst, With(dst.now, m))]
      \/ pc' = "flush" /\ m \notin Matching /\ db' = db
      \/ pc' = "end" /\ db' = db
      \/ pc' = "end" /\ db' = [db EXCEPT !["dst"] = Failed(dst, Torn(dst.now, {m}))]
      BY Zenon DEF LoadMessage, dst
<1>2. \A s : db' = [db EXCEPT !["dst"] = s] => dst' = s
      BY DstChanged DEF OnlyDst, dst
<1>3. db' = db => dst' = dst
      BY DEF dst
<1> HIDE DEF m
<1>4. \/ pc' = "flush" /\ m \in Matching /\ dst' = Wrote(dst, With(dst.now, m))
      \/ pc' = "flush" /\ m \notin Matching /\ dst' = dst
      \/ pc' = "end" /\ dst' = dst
      \/ pc' = "end" /\ dst' = Failed(dst, Torn(dst.now, {m}))
      BY <1>1, <1>2, <1>3, Zenon
<1> QED  BY <1>4 DEF m

LEMMA LoadPlacesMessage ==
    ASSUME LoadingNow, LoadMessage
    PROVE  LoadPlaces'
<1> DEFINE m == idents[ident_idx]
<1>0. /\ TypeInv /\ LoadCursor /\ LoadPlaces /\ LoadBound /\ ept \in Nat /\ event_no \in Nat
      /\ Reached \in Nat
      BY OrderTypes DEF LoadingNow, OrderBase, BoundedInv, LoadOrder, Bounded
<1>1. /\ Reached' = Reached /\ Passed' = Passed + Due'
      /\ pc = "read" /\ Running /\ ident_idx <= Len(idents) /\ offset_copy = 0
      BY <1>0, LoadCursorMessage
<1>2. /\ SameCommand /\ m \in Msgs /\ cur_count' = cur_count /\ event_no' = event_no
      BY <1>0, LoadMessageFacts
<1>3. \/ pc' = "flush" /\ m \in Matching /\ dst' = Wrote(dst, With(dst.now, m))
      \/ pc' = "flush" /\ m \notin Matching /\ dst' = dst
      \/ pc' = "end" /\ dst' = dst
      \/ pc' = "end" /\ dst' = Failed(dst, Torn(dst.now, {m}))
      BY <1>0, LoadMessageOutcomes
<1>4. /\ opt' = opt /\ origin' = origin /\ ept' = ept /\ files' = files /\ InFiles' = InFiles
      BY <1>2, SameParts, FilesKept DEF SameCommand
<1>5. /\ Passed - origin < Len(InFiles) /\ InFiles[(Passed - origin) + 1] = m
      BY <1>0, <1>1, NextToLoad
<1> HIDE DEF m
<1>6. CASE /\ pc' = "end"
           /\ dst' = dst \/ dst' = Failed(dst, Torn(dst.now, {m}))
  <2>1. dst'.now.msgs = dst.now.msgs /\ dst'.kept = dst.kept /\ dst'.tx = dst.tx
    <3>1. dst' = dst \/ HalfInserted(m)
          BY <1>0, <1>2, <1>6, InsertedFacts
    <3> QED  BY <3>1 DEF HalfInserted
  <2> QED  BY <1>0, <1>1, <1>2, <1>6, <2>1, LoadPlacesSame
<1>7. CASE /\ pc' = "flush"
           /\ \/ m \in Matching /\ dst' = Wrote(dst, With(dst.now, m))
              \/ m \notin Matching /\ dst' = dst
  <2> DEFINE ms == IF m \in Matching THEN Append(dst.now.msgs, m) ELSE dst.now.msgs
  <2>1. /\ dst'.now.msgs = ms /\ dst'.tx = dst.tx
        /\ dst'.kept.msgs = IF dst.tx THEN dst.kept.msgs ELSE ms
    <3>1. CASE m \in Matching /\ dst' = Wrote(dst, With(dst.now, m))
      <4>1. Inserted(m)
            BY <1>0, <1>2, <3>1, InsertedFacts
      <4>2. With(dst.now, m).msgs = Append(dst.now.msgs, m)
            BY <1>0, <1>2, DstLengths, WithFields
      <4> QED  BY <3>1, <4>1, <4>2 DEF Inserted
    <3>2. CASE m \notin Matching /\ dst' = dst
      <4>1. ~dst.tx => dst.kept.msgs = dst.now.msgs
            BY <1>0, DstLengths
      <4> QED  BY <3>2, <4>1
    <3> QED  BY <1>7, <3>1, <3>2
  <2>2. LoadedTo(ms, Passed + 1)
        BY <1>0, <1>1, <1>5, LoadOne DEF LoadPlaces
  <2> HIDE DEF ms
  <2>3. Due = 0 /\ Due' = 1 /\ Passed' = Passed + 1
        BY <1>1, <1>7 DEF Due
  <2>4. Passed = Reached + event_no + 0
        BY <2>3 DEF Passed
  <2>5. KeptTo = Reached
    <3>1. KeptTo = Reached + 0
          BY <2>3 DEF KeptTo
    <3> QED  BY <1>0, <3>1
  <2>6. LoadedTo(dst'.kept.msgs, KeptTo')
    <3>1. CASE dst.tx
      <4>1. KeptTo' = Reached + 0
            BY <1>1, <2>1, <3>1 DEF KeptTo
      <4>2. KeptTo' = KeptTo
            BY <1>0, <2>5, <4>1
      <4> QED  BY <1>0, <2>1, <3>1, <4>2, Zenon DEF LoadPlaces
    <3>2. CASE ~dst.tx
      <4>1. KeptTo' = Reached + 1
            BY <1>1, <2>1, <2>3, <3>2 DEF KeptTo
      <4>2. ept <= 1 /\ event_no = 0
        <5>1. ept <= 1 /\ (event_no = 0 \/ event_no < ept)
              BY <1>0, <1>1, <3>2 DEF LoadPlaces, Alone, LoadBound
        <5> QED  BY <1>0, <5>1
      <4>3. KeptTo' = Passed + 1
            BY <1>0, <2>4, <4>1, <4>2
      <4> QED  BY <2>1, <2>2, <3>2, <4>3
    <3> QED  BY <3>1, <3>2
  <2>7. LoadedTo(dst'.now.msgs, Passed')
        BY <2>1, <2>2, <2>3
  <2>8. LoadedTo(dst.kept.msgs, KeptTo)' /\ LoadedTo(dst.now.msgs, Passed)'
        BY <1>4, <2>6, <2>7, Zenon DEF LoadedTo, Loaded
  <2>9. Alone'
        BY <1>0, <1>1, <1>4, <2>1 DEF LoadPlaces, Alone
  <2> QED  BY <2>8, <2>9 DEF LoadPlaces
<1> QED  BY <1>3, <1>6, <1>7

LEMMA LoadPlacesFlush ==
    ASSUME LoadingNow, Flush, ignored' = {}
    PROVE  LoadPlaces'
<1>0. TypeInv /\ Whole /\ LoadPlaces /\ cmd = "load" /\ ept > 0 /\ ept \in Nat /\ event_no \in Nat
      BY Numbers DEF LoadingNow, OrderBase, BoundedInv, LoadOrder
<1>1. /\ pc = "flush" /\ pc' = "read" /\ SameCommand /\ FlushIfNeeded(1)
  <2>1. FlushIfNeeded(1)
        BY <1>0 DEF Flush
  <2> QED  BY <1>0, <2>1, FlushActionFacts
<1>2. opt' = opt /\ origin' = origin /\ ept' = ept /\ files' = files
      BY <1>1, SameParts DEF SameCommand
<1>3. /\ pc \notin {"start", "end", "done"} /\ pc' # "flush" /\ cmd # "delete" /\ Due = 1
      BY <1>0, <1>1 DEF Due
<1>4. \/ FlushIsDue(1) /\ Durable /\ cur_count' = cur_count + event_no + 1 /\ event_no' = 0
      \/ NotFlushed(1) /\ dst' = dst
      BY <1>0, <1>1, <1>3, QuietFlush
<1>5. NotFlushed(1) => event_no + 1 < ept /\ cur_count' = cur_count
      BY <1>0 DEF NotFlushed, FlushIsDue
<1>6. /\ Passed' = Passed /\ Alone'
      /\ \/ Durable /\ KeptTo' = Passed
         \/ dst' = dst /\ KeptTo' = KeptTo
  <2>1. \/ Durable /\ cur_count' = cur_count + event_no + Due /\ event_no' = 0
        \/ NotFlushed(Due) /\ dst' = dst /\ (Due = 1 => event_no + 1 < ept)
        BY <1>3, <1>4, <1>5
  <2>2. /\ TypeInv /\ Alone /\ ept' = ept /\ opt' = opt /\ pc \notin {"start", "done"}
        /\ pc' # "flush" /\ (ept > 0 \/ Due = 0)
        BY <1>0, <1>2, <1>3 DEF LoadPlaces
  <2> QED  BY ONLY <2>1, <2>2, NumbersFlushed
<1>7. /\ dst'.now.msgs = dst.now.msgs
      /\ \/ dst'.kept.msgs = dst.kept.msgs /\ KeptTo' = KeptTo
         \/ dst'.kept.msgs = dst.now.msgs /\ KeptTo' = Passed
      BY <1>6 DEF Durable
<1> QED  BY <1>0, <1>2, <1>3, <1>6, <1>7, LoadPlacesKept

LEMMA LoadPlacesFinish ==
    ASSUME LoadingNow, Finish, ignored' = {}
    PROVE  LoadPlaces'
<1>0. TypeInv /\ Whole /\ LoadPlaces /\ cmd \in Inserting
      BY DEF LoadingNow, OrderBase, BoundedInv, LoadOrder, Inserting
<1>1. /\ pc = "end" /\ pc' = "done" /\ SameCommand
      BY <1>0, FinishFacts
<1>2. opt' = opt /\ origin' = origin /\ files' = files
      BY <1>1, SameParts DEF SameCommand
<1>3. \/ dst'.kept = dst.now /\ cur_count' = cur_count + event_no
      \/ dst'.kept = dst.kept /\ cur_count' = cur_count
      BY <1>0, QuietFinish
<1>4. /\ Due = 0 /\ Due' = 0 /\ opt.offset \in Nat /\ cur_count \in Nat /\ event_no \in Nat
      BY <1>0, <1>1, OrderTypes DEF Due
<1>5. KeptTo = opt.offset + cur_count /\ Passed = opt.offset + (cur_count + event_no)
      BY <1>4 DEF KeptTo, Passed, Reached
<1>6. KeptTo' = opt.offset + cur_count'
  <2>1. KeptTo' = opt.offset + cur_count' + 0
        BY <1>2, <1>4 DEF KeptTo, Reached
  <2>2. \A c \in Nat : opt.offset + c + 0 = opt.offset + c
        BY <1>4
  <2>3. cur_count' \in Nat
        BY <1>3, <1>4
  <2> QED  BY <2>1, <2>2, <2>3, Zenon
<1>7. \/ pc # "done" /\ dst'.kept.msgs = dst.now.msgs /\ KeptTo' = Passed
      \/ dst'.kept.msgs = dst.kept.msgs /\ KeptTo' = KeptTo
      BY <1>1, <1>3, <1>5, <1>6
<1> QED  BY <1>0, <1>1, <1>2, <1>7, LoadPlacesKept DEF Alone

LEMMA LoadPlacesResume ==
    ASSUME LoadingNow, Resume
    PROVE  LoadPlaces'
<1>0. TypeInv /\ LoadPlaces /\ LoadBound
      BY DEF LoadingNow, OrderBase, BoundedInv, LoadOrder, Bounded
<1>1. /\ pc = "done" /\ pc' = "start" /\ opt'.offset = opt.offset + cur_count /\ files' = files
      /\ cur_count' = 0 /\ event_no' = 0 /\ origin' = origin /\ dst' = dst
      BY <1>0, ResumeFacts DEF dst
<1>2. Due = 0 /\ Due' = 0 /\ opt.offset \in Nat /\ cur_count \in Nat /\ Level
      BY <1>0, <1>1, OrderTypes DEF Due, LoadBound
<1>3. KeptTo = opt.offset + cur_count
      BY <1>2 DEF KeptTo, Reached
<1>4. KeptTo' = opt.offset + cur_count /\ Passed' = opt.offset + cur_count
  <2>1. KeptTo' = opt.offset + cur_count + 0 + 0 /\ Passed' = opt.offset + cur_count + 0 + 0 + 0
        BY <1>1, <1>2 DEF KeptTo, Passed, Reached
  <2> QED  BY <1>2, <2>1
<1>5. dst'.kept.msgs = dst.kept.msgs /\ dst'.now.msgs = dst'.kept.msgs
      BY <1>1, <1>2 DEF Level
<1> QED  BY <1>0, <1>1, <1>3, <1>4, <1>5, LoadPlacesKept DEF Alone

\* Every step of a load.
LEMMA LoadOrderStep ==
    ASSUME LoadingNow, [Next]_vars, ignored' = {}
    PROVE  LoadOrder'
<1>0. TypeInv /\ cmd = "load" /\ LoadPlaces /\ LoadCursor /\ ept > 0
      BY DEF LoadingNow, OrderBase, BoundedInv, LoadOrder
<1>1. CASE UNCHANGED vars \/ Signal
  <2>1. SameCommand /\ UNCHANGED <<dst, cur_count, event_no, pc>>
    <3>1. CASE UNCHANGED vars
          BY <3>1, Zenon DEF vars, countVars, envVars, dst, SameCommand
    <3>2. CASE Signal
          BY <1>0, <3>2, SignalFacts DEF dst
    <3> QED  BY <1>1, <3>1, <3>2
  <2>2. LoadPlaces'
        BY <1>0, <2>1, LoadPlacesSame
  <2> QED  BY <1>0, <2>2, LoadCursorStep DEF LoadOrder
<1>2. ASSUME \/ Fetch \/ CopyMessage \/ TrackDeletion \/ IdentFails \/ EndOfBatch
             \/ DeleteRest \/ Erase \/ Emit \/ Arrive
      PROVE  FALSE
  <2>1. cmd # "load"
        BY <1>0, <1>2, FetchFacts, CopyMessageFacts, TrackDeletionFacts, IdentFailsFacts,
           EndOfBatchFacts, DeleteRestFacts, EraseFacts, EmitFacts, ArriveFacts DEF TypeInv, Phase, Readers
  <2> QED  BY <1>0, <2>1
<1>3. ASSUME Step \/ Resume PROVE LoadPlaces'
      BY <1>2, <1>3, LoadPlacesStart, LoadPlacesFlush, LoadPlacesOpen, LoadPlacesRead,
         LoadPlacesMessage, LoadPlacesFinish, LoadPlacesResume, Zenon DEF Step
<1>4. CASE Step \/ Resume
      BY <1>0, <1>3, <1>4, LoadCursorStep DEF LoadOrder
<1> QED  BY <1>1, <1>2, <1>4, Zenon DEF Next

----------------------------------------------------------------------------
(***************************************************************************)
(* The commands that insert, in order.                                      *)
(***************************************************************************)
InOrder ==
    ignored = {} =>
        /\ cmd \in {"copy", "move"} => CopyOrder
        /\ cmd = "load" => LoadOrder
OrderInv ==
    /\ OrderBase /\ Counted /\ InOrder
    /\ cmd = "load" => ept > 0

LEMMA InitOrder ==
    ASSUME Init
    PROVE  InOrder
<1>0. TypeInv
      BY InitType
<1>1. /\ dst = NewSession(Empty) /\ pc = "start" /\ cur_count = 0 /\ event_no = 0 /\ fileno = 1
      /\ opt.offset = origin /\ arrived = NumMsgs /\ delete_tbl = <<>>
      /\ src = NewSession([Empty EXCEPT !.msgs = [i \in 1..NumMsgs |-> i]])
      BY DEF Init, dst, src
<1>2. dst.now.msgs = <<>> /\ dst.kept.msgs = <<>> /\ src.now.msgs = FirstMsgs(arrived)
      BY <1>1 DEF NewSession, Empty, FirstMsgs
<1>3. Due = 0 /\ Reached = origin /\ Passed = origin /\ KeptTo = origin /\ origin \in Nat
  <2>1. Due = 0 /\ origin \in Nat
        BY <1>0, <1>1, OrderTypes DEF Due
  <2>2. Reached = origin
        BY <1>1, <2>1 DEF Reached
  <2> QED  BY <1>1, <2>1, <2>2 DEF Passed, KeptTo
<1>4. Len(<<>>) = 0 /\ 1..0 = {}
      OBVIOUS
<1>5. Alone
      BY <1>1 DEF Alone
<1>6. CopyPlaces
      BY <1>1, <1>2, <1>4 DEF CopyPlaces, InPlaces
<1>7. CopyCounts
  <2>1. origin = origin + Len(dst.kept.msgs) /\ origin = origin + Len(dst.now.msgs)
        BY <1>2, <1>3, <1>4
  <2> QED  BY <1>2, <1>3, <1>5, <2>1 DEF CopyCounts
<1>8. MoveRests
  <2>1. ToSet(FirstMsgs(arrived)) = 1..arrived
    <3>1. Len(FirstMsgs(arrived)) = arrived
          BY <1>0, OrderTypes, FirstMsgsSeq
    <3> QED  BY <1>0, <3>1, OrderTypes DEF FirstMsgs, ToSet
  <2> QED  BY <1>1, <1>2, <2>1, EmptySet DEF MoveRests
<1>9. LoadPlaces
  <2>1. origin - origin = 0 /\ 0 \in 0..Len(InFiles) /\ InFiles \in Seq(Msgs)
        BY <1>0, <1>3, FileParts
  <2>2. Loaded(0) = <<>>
    <3>1. SubSeq(InFiles, 1, 0) \in Seq(Msgs) /\ Len(SubSeq(InFiles, 1, 0)) = 0
          BY <2>1, FirstOnes
    <3>2. SubSeq(InFiles, 1, 0) = <<>>
          BY <3>1
    <3>3. Picked(<<>>, Matching) \in Seq(Msgs) /\ ToSet(Picked(<<>>, Matching)) = {}
          BY <3>1, <3>2, EmptySet, PickedMembers
    <3>4. Picked(<<>>, Matching) = <<>>
      <4> DEFINE p == Picked(<<>>, Matching)
      <4>1. Len(p) = 0
        <5>1. Len(p) \in Nat /\ \A k \in 1..Len(p) : p[k] \in ToSet(p)
              BY <3>3 DEF ToSet
        <5>2. 1 \notin 1..Len(p)
              BY <3>3, <5>1
        <5> HIDE DEF p
        <5> QED  BY <5>1, <5>2
      <4>2. p \in Seq(Msgs)
            BY <3>3
      <4> HIDE DEF p
      <4>3. p = <<>>
            BY <4>1, <4>2
      <4> QED  BY <4>3 DEF p
    <3> QED  BY <3>2, <3>4 DEF Loaded, Selected
  <2> QED  BY <1>2, <1>3, <1>5, <2>1, <2>2 DEF LoadPlaces, LoadedTo
<1>10. LoadCursor
       BY <1>1, <1>3 DEF LoadCursor
<1> QED  BY <1>6, <1>7, <1>8, <1>9, <1>10 DEF InOrder, CopyOrder, LoadOrder

LEMMA OrderStep ==
    ASSUME OrderInv, [Next]_vars, "move" \notin Resumable
    PROVE  OrderInv'
<1>0. TypeInv /\ Listed /\ Bounded /\ Whole /\ Keeping /\ Counted /\ (cmd = "load" => ept > 0)
      BY DEF OrderInv, OrderBase, BoundedInv
<1>1. TypeInv' /\ Listed' /\ Bounded' /\ Whole' /\ Keeping' /\ Counted'
      BY <1>0, TypeStep, ListedStep, BoundedStep, WholeStep, KeepingStep, CountedStep
         DEF BoundedInv
<1>2. cmd' = cmd /\ ept' = ept
  <2>1. CASE UNCHANGED vars
    <3>1. opt' = opt
          BY <2>1, Zenon DEF vars
    <3> QED  BY <3>1 DEF cmd, ept
  <2>2. CASE Step
    <3>1. SameCommand
          BY <1>0, <2>2, StartFacts, FetchFacts, FlushActionFacts, CopyMessageFacts,
             TrackDeletionFacts, IdentFailsFacts, EndOfBatchFacts, DeleteRestFacts, EraseFacts,
             EmitFacts, OpenFileFacts, ReadFacts, LoadMessageFacts, FinishFacts, Zenon DEF Step
    <3> QED  BY <3>1, SameParts
  <2>3. CASE Resume
        BY <1>0, <2>3, ResumeFacts
  <2>4. CASE Signal
        BY <1>0, <2>4, SignalFacts, SameParts
  <2>5. CASE Arrive
    <3>1. opt' = opt
          BY <1>0, <2>5, ArriveFacts
    <3> QED  BY <3>1 DEF cmd, ept
  <2> QED  BY <2>1, <2>2, <2>3, <2>4, <2>5, Zenon DEF Next
<1>3. ASSUME ignored' = {} PROVE InOrder'
  <2>1. ignored = {}
        BY <1>0, <1>3, IgnoredGrows
  <2>2. ASSUME cmd \in {"copy", "move"} PROVE CopyOrder'
    <3>1. CopyingNow
          BY <2>1, <2>2 DEF OrderInv, InOrder, CopyingNow
    <3> QED  BY <1>3, <3>1, CopyOrderStep
  <2>3. ASSUME cmd = "load" PROVE LoadOrder'
    <3>1. LoadingNow
          BY <1>0, <2>1, <2>3 DEF OrderInv, InOrder, LoadingNow
    <3> QED  BY <1>3, <3>1, LoadOrderStep
  <2> QED  BY <1>2, <2>2, <2>3 DEF InOrder
<1>4. InOrder'
      BY <1>3 DEF InOrder
<1> QED  BY <1>0, <1>1, <1>2, <1>4 DEF OrderInv, OrderBase, BoundedInv

\* Messages each at the place its rank gives it are the first ones asked for.
LEMMA PlacedFirst ==
    ASSUME TypeInv, cmd # "load", NEW ms \in Seq(Msgs), InPlaces(ms, 1, origin, arrived)
    PROVE  IsPrefix(ms, Wanted)
<1> DEFINE q == Picked(FirstMsgs(arrived), Matching)
           w == SubSeq(q, origin + 1, Len(q))
<1>1. arrived \in 0..MaxMsgs /\ origin \in Nat /\ Len(ms) \in Nat /\ MaxMsgs \in Nat
      BY OrderTypes, MessagesAssumption
<1>2. q \in Seq(Msgs) /\ Len(q) \in Nat
      BY <1>1, FirstMsgsSeq, PickedMembers
<1>3. Wanted = w
      BY Zenon DEF Wanted, Remainder, Selected, FirstMsgs
<1>4. \A k \in 1..Len(ms) : origin + k \in 1..Len(q) /\ q[origin + k] = ms[k]
  <2> SUFFICES ASSUME NEW k \in 1..Len(ms)
               PROVE  origin + k \in 1..Len(q) /\ q[origin + k] = ms[k]
      OBVIOUS
  <2>1. ms[k] \in Matching /\ ms[k] \in 1..arrived /\ Rank(ms[k], Matching) = origin + k
        BY DEF InPlaces, InPlace
  <2> QED  BY <1>1, <2>1, RankIsPlace
<1> HIDE DEF q
<1>5. \A i \in (origin + 1)..Len(q) : q[i] \in Msgs
      BY <1>1, <1>2
<1>6. /\ w \in Seq(Msgs) /\ Len(w) = IF origin + 1 <= Len(q) THEN Len(q) - (origin + 1) + 1 ELSE 0
      /\ \A i \in 1..(Len(q) - (origin + 1) + 1) : w[i] = q[origin + 1 + i - 1]
      BY <1>1, <1>2, <1>5, SubSeqProperties
<1> HIDE DEF w
<1>7. /\ w \in Seq(Msgs) /\ Len(w) = IF origin < Len(q) THEN Len(q) - origin ELSE 0
      /\ \A i \in 1..(Len(q) - origin) : w[i] = q[origin + i]
      BY <1>1, <1>2, <1>6
<1>8. Len(ms) <= Len(w)
  <2>1. CASE Len(ms) = 0
        BY <1>1, <1>2, <1>7, <2>1
  <2>2. CASE Len(ms) # 0
    <3>1. Len(ms) \in 1..Len(ms)
          BY <1>1, <2>2
    <3>2. origin + Len(ms) \in 1..Len(q)
          BY <1>4, <3>1
    <3> QED  BY <1>1, <1>2, <1>7, <3>1, <3>2
  <2> QED  BY <2>1, <2>2
<1>9. \A k \in 1..Len(ms) : ms[k] = w[k]
  <2> SUFFICES ASSUME NEW k \in 1..Len(ms) PROVE ms[k] = w[k]
      OBVIOUS
  <2>1. k \in 1..(Len(q) - origin)
        BY <1>1, <1>2, <1>4
  <2> QED  BY <1>4, <1>7, <2>1
<1>10. IsPrefix(ms, w)
       BY <1>7, <1>8, <1>9, PrefixByPlaces
<1> QED  BY <1>3, <1>10

\* A copy, a move or a load commits the messages asked for in order, each once
\* and none skipped, over any number of runs resumed from the printed offset,
\* unless a BEGIN or a COMMIT failed unnoticed.  A move is not resumed with
\* the offset printed, which counts what it has taken out of the source; a
\* load counts what it has gone past only with --events-per-transaction.
THEOREM CommitsInOrder ==
    ASSUME "move" \notin Resumable, \A o \in Options : o.cmd = "load" => o.ept > 0
    PROVE  Spec => []CommittedInOrder
<1>1. Init => OrderInv
  <2> SUFFICES ASSUME Init PROVE OrderInv
      OBVIOUS
  <2>1. cmd = "load" => ept > 0
        BY DEF Init, cmd, ept
  <2> QED  BY <2>1, InitType, InitListed, InitBounded, InitWhole, InitCounted, InitKeeping,
              InitOrder DEF OrderInv, OrderBase, BoundedInv
<1>2. OrderInv /\ [Next]_vars => OrderInv'
      BY OrderStep
<1>3. OrderInv => CommittedInOrder
  <2> SUFFICES ASSUME OrderInv, cmd \in Inserting, ignored = {}
               PROVE  IsPrefix(dst.kept.msgs, Wanted)
      BY Zenon DEF CommittedInOrder, dst
  <2>1. TypeInv /\ dst.kept.msgs \in Seq(Msgs)
        BY OrderTypes DEF OrderInv, OrderBase, BoundedInv
  <2>2. CASE cmd \in {"copy", "move"}
    <3>1. InPlaces(dst.kept.msgs, 1, origin, arrived)
          BY <2>2 DEF OrderInv, InOrder, CopyOrder, CopyPlaces
    <3> QED  BY <2>1, <2>2, <3>1, PlacedFirst
  <2>3. CASE cmd = "load"
    <3>1. LoadedTo(dst.kept.msgs, KeptTo)
          BY <2>3 DEF OrderInv, InOrder, LoadOrder, LoadPlaces
    <3>2. KeptTo - origin \in 0..Len(InFiles) /\ InFiles \in Seq(Msgs)
          BY <2>1, <3>1, FileParts DEF LoadedTo
    <3>3. IsPrefix(Loaded(KeptTo - origin), Selected(InFiles))
          BY <3>2, PickedBeginning DEF Loaded, Selected
    <3> QED  BY <2>3, <3>1, <3>3 DEF LoadedTo, Wanted
  <2> QED  BY <2>2, <2>3 DEF Inserting
<1> QED  BY <1>1, <1>2, <1>3, PTL DEF Spec

===============================================================================
