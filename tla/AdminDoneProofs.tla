--------------------------- MODULE AdminDoneProofs ---------------------------
(***************************************************************************)
(* What a command of AdminBatch that reports success has done, for any      *)
(* command lines, any contents of the source and any failures.  Each one    *)
(* goes through the messages it is asked for by rank, and stops without an  *)
(* error only when a batch is empty: when --count is used up, or nothing    *)
(* selected is left.                                                        *)
(***************************************************************************)
EXTENDS AdminBatchProofs

----------------------------------------------------------------------------
\* The messages asked for that were in the source from the start; those of S
\* up to a rank; that there are none past a rank.
Known == {m \in Asked : m <= NumMsgs}
Through(S, n) == \A m \in Known : Rank(m, Matching) <= n => m \in S
Within(n) == \A m \in Known : Rank(m, Matching) <= n

\* The command is over and says it succeeded, and no COMMIT failed unnoticed.
Over == pc \in {"end", "done"} /\ ret >= 0 /\ ~stop_processing
Sure == "commit" \notin ignored

Offsets ==
    /\ ept > 0 /\ origin <= opt.offset
    /\ opt.limit >= 0 => opt.offset = origin
    /\ opt.limit < 0 => limit_copy < 0
\* An error is looked at in the loop that meets it, after the flush that follows
\* a deletion, or, when the next ident cannot be taken, once what the batch has
\* copied is flushed and deleted from the source.
Stuck == cmd \in {"copy", "move"} /\ (pc = "rest" \/ (pc = "item" /\ ident_idx > Len(idents)))
Returned == ret < 0 => pc \in {"end", "done"} \/ (pc = "flush" /\ cmd = "delete") \/ Stuck
DoneBase == OrderBase /\ Counted /\ Offsets /\ Returned

LEMMA KnownFacts ==
    ASSUME TypeInv
    PROVE  /\ \A m \in Known : /\ m \in Msgs \cap Matching /\ m \in 1..NumMsgs
                               /\ m \in 1..arrived /\ m \in 0..MaxMsgs
                               /\ Rank(m, Matching) \in Nat /\ origin < Rank(m, Matching)
                               /\ opt.limit >= 0 => Rank(m, Matching) <= origin + opt.limit
           /\ Known \subseteq Asked
<1> SUFFICES ASSUME NEW m \in Known
             PROVE  /\ m \in Msgs \cap Matching /\ m \in 1..NumMsgs
                    /\ m \in 1..arrived /\ m \in 0..MaxMsgs
                    /\ Rank(m, Matching) \in Nat /\ origin < Rank(m, Matching)
                    /\ opt.limit >= 0 => Rank(m, Matching) <= origin + opt.limit
    BY DEF Known
<1>1. /\ m \in Msgs /\ m \in Matching /\ m <= NumMsgs /\ origin < Rank(m, Matching)
      /\ opt.limit >= 0 => Rank(m, Matching) <= origin + opt.limit
      BY DEF Known, Asked
<1>2. arrived \in NumMsgs..MaxMsgs /\ NumMsgs \in Nat /\ MaxMsgs \in Nat
      BY MessagesAssumption DEF TypeInv, TypeOK
<1>3. m \in 1..NumMsgs /\ m \in 1..arrived /\ m \in 0..MaxMsgs
      BY <1>1, <1>2 DEF Msgs
<1> QED  BY <1>1, <1>3, RankStep

\* What every step keeps of the command.
LEMMA SameRun ==
    ASSUME TypeInv, [Next]_vars
    PROVE  /\ cmd' = cmd /\ ept' = ept /\ files' = files /\ origin' = origin
           /\ opt'.limit = opt.limit /\ Known' = Known
           /\ opt' = opt \/ Resume
<1>1. /\ cmd' = cmd /\ ept' = ept /\ files' = files /\ origin' = origin
      /\ opt'.limit = opt.limit /\ (opt' = opt \/ Resume)
  <2>1. CASE UNCHANGED vars
    <3>1. opt' = opt /\ origin' = origin
          BY <2>1, Zenon DEF vars
    <3> QED  BY <3>1 DEF cmd, ept, files
  <2>2. CASE Step
    <3>1. SameCommand
          BY <2>2, StartFacts, FetchFacts, FlushActionFacts, CopyMessageFacts,
             TrackDeletionFacts, EndOfBatchFacts, DeleteRestFacts, EraseFacts, EmitFacts,
             OpenFileFacts, ReadFacts, LoadMessageFacts, FinishFacts, IdentFailsFacts, Zenon
             DEF Step
    <3> QED  BY <3>1, SameParts DEF SameCommand
  <2>3. CASE Resume
        BY <2>3, ResumeFacts
  <2>4. CASE Signal
        BY <2>4, SignalFacts, SameParts
  <2>5. CASE Arrive
    <3>1. opt' = opt /\ origin' = origin
          BY <2>5, ArriveFacts
    <3> QED  BY <3>1 DEF cmd, ept, files
  <2> QED  BY <2>1, <2>2, <2>3, <2>4, <2>5, Zenon DEF Next
<1>2. Asked' = Asked
      BY <1>1 DEF Asked
<1>3. Known' = Known
      BY <1>2 DEF Known
<1> QED  BY <1>1, <1>3

\* The message of a rank is one: going through it is going one rank further.
LEMMA OneFurther ==
    ASSUME TypeInv, NEW S, NEW T, NEW n \in Int, NEW x \in Msgs \cap Matching,
           Rank(x, Matching) = n + 1, Through(S, n), S \subseteq T, x \in T
    PROVE  Through(T, n + 1)
<1> SUFFICES ASSUME NEW m \in Known, Rank(m, Matching) <= n + 1 PROVE m \in T
    BY DEF Through
<1>1. m \in Msgs /\ m \in Matching /\ Rank(m, Matching) \in Nat
      BY KnownFacts
<1>2. CASE Rank(m, Matching) <= n
      BY <1>2 DEF Through
<1>3. CASE Rank(m, Matching) = n + 1
  <2>1. m = x
        BY <1>1, <1>3, RankOne DEF Msgs
  <2> QED  BY <2>1
<1> QED  BY <1>1, <1>2, <1>3

LEMMA NoFurther ==
    ASSUME TypeInv, NEW S, NEW T, NEW n \in Int, NEW l \in Int, l <= n, Through(S, n), S \subseteq T
    PROVE  Through(T, l)
<1> SUFFICES ASSUME NEW m \in Known, Rank(m, Matching) <= l PROVE m \in T
    BY DEF Through
<1>1. Rank(m, Matching) \in Nat
      BY KnownFacts
<1> QED  BY <1>1 DEF Through

LEMMA EmitMore ==
    ASSUME TypeInv, Emit
    PROVE  /\ SameCommand
           /\ \/ /\ stop_processing \/ ident_idx > Len(idents)
                 /\ ret' = 0 /\ pc' = (IF stop_processing THEN "end" ELSE "fetch")
                 /\ UNCHANGED <<output, missed, cur_count, ident_idx>>
              \/ /\ ident_idx <= Len(idents) /\ idents[ident_idx] \in Msgs
                 /\ ident_idx' = ident_idx + 1
                 /\ \/ /\ output' = Append(output, idents[ident_idx]) /\ cur_count' = cur_count + 1
                       /\ pc' = "item" /\ ret' = ret /\ missed' = missed
                    \/ /\ cmd = "save" /\ missed' = missed \cup {idents[ident_idx]}
                       /\ pc' = "item" /\ UNCHANGED <<ret, output, cur_count>>
                    \/ /\ ret' = -1 /\ pc' = "end" /\ UNCHANGED <<missed, output, cur_count>>
<1>1. SameCommand
      BY EmitFacts
<1>2. CASE stop_processing \/ ident_idx > Len(idents)
  <2>1. LoopOn(0) /\ UNCHANGED <<output, missed, cur_count, ident_idx>>
        BY <1>2, Zenon DEF Emit
  <2> QED  BY <1>1, <1>2, <2>1 DEF LoopOn
<1>3. CASE ~(stop_processing \/ ident_idx > Len(idents))
  <2>1. pc = "item" /\ ident_idx <= Len(idents)
        BY <1>3, Numbers DEF Emit
  <2>2. idents[ident_idx] \in Msgs
        BY <2>1, CurrentIdent
  <2>3. /\ ident_idx' = ident_idx + 1
        /\ \/ /\ output' = Append(output, idents[ident_idx]) /\ cur_count' = cur_count + 1
              /\ UNCHANGED <<pc, ret, missed>>
           \/ /\ cmd = "save" /\ missed' = missed \cup {idents[ident_idx]}
              /\ UNCHANGED <<pc, ret, output, cur_count>>
           \/ /\ ret' = -1 /\ pc' = "end" /\ UNCHANGED <<missed, output, cur_count>>
        BY <1>3, Zenon DEF Emit
  <2> QED  BY <1>1, <2>1, <2>2, <2>3
<1> QED  BY <1>2, <1>3

LEMMA FetchEnds ==
    ASSUME TypeInv, Fetch
    PROVE  /\ pc' = "end" => (ret' = 0 /\ Batch = <<>>) \/ ret' = -1
           /\ pc' # "end" => ret' = ret
BY DEF Fetch

\* A loop that ends without an error was told to stop.
LEMMA LoopNotOver ==
    ASSUME NEW r, LoopOn(r), stop_processing' = stop_processing
    PROVE  ~Over'
BY DEF LoopOn, Over

\* The end of a command that inserts, when no COMMIT fails unnoticed.
LEMMA SureFinish ==
    ASSUME TypeInv, Finish, cmd \in Inserting, Sure'
    PROVE  \/ /\ ept > 1 /\ ret >= 0 /\ dst' = Committed(dst) /\ cur_count' = cur_count + event_no
           \/ ~(ept > 1 /\ ret >= 0) /\ dst' = RolledBack(dst) /\ cur_count' = cur_count
<1> DEFINE last == cmd \notin Readers /\ ept > 1 /\ ret >= 0
<1>1. /\ cur_count' = IF last THEN cur_count + event_no ELSE cur_count
      /\ \/ last /\ db' = [db EXCEPT ![Target] = Committed(db[Target])]
         \/ last /\ IgnoredFault("commit")
         \/ ~last /\ db' = [db EXCEPT ![Target] = RolledBack(db[Target])]
      BY Zenon DEF Finish
<1>2. ~IgnoredFault("commit")
      BY DEF IgnoredFault, Sure
<1>3. Target = "dst" /\ cmd \notin Readers
      BY DEF Target, Readers, Inserting
<1>4. \/ /\ ept > 1 /\ ret >= 0 /\ db' = [db EXCEPT !["dst"] = Committed(dst)]
         /\ cur_count' = cur_count + event_no
      \/ /\ ~(ept > 1 /\ ret >= 0) /\ db' = [db EXCEPT !["dst"] = RolledBack(dst)]
         /\ cur_count' = cur_count
      BY <1>1, <1>2, <1>3 DEF dst
<1> QED  BY <1>4, DstChanged DEF OnlyDst

\* The limit, the offset and the result, at every step.
LEMMA OffsetsStep ==
    ASSUME TypeInv, Counted, Offsets, [Next]_vars
    PROVE  Offsets'
<1>1. /\ ept' = ept /\ origin' = origin /\ opt'.limit = opt.limit
      /\ opt' = opt \/ Resume
      BY SameRun
<1>2. origin <= opt'.offset /\ (opt'.limit >= 0 => opt'.offset = origin)
  <2>1. CASE opt' = opt
        BY <2>1 DEF Offsets
  <2>2. CASE Resume
    <3>1. opt.limit < 0 /\ opt'.offset = opt.offset + cur_count
          BY <2>2, ResumeFacts
    <3>2. opt.limit \in Int /\ opt.offset \in Nat /\ cur_count \in Nat /\ origin \in Nat
          BY OrderTypes, Numbers
    <3>3. origin <= opt'.offset
          BY <3>1, <3>2 DEF Offsets
    <3>4. ~(opt'.limit >= 0)
          BY <1>1, <3>1, <3>2
    <3> QED  BY <3>3, <3>4
  <2> QED  BY <1>1, <2>1, <2>2
<1>3. opt.limit < 0 => limit_copy' < 0
  <2> SUFFICES ASSUME opt.limit < 0 PROVE limit_copy' < 0
      OBVIOUS
  <2>0. limit_copy < 0 /\ limit_copy \in Int
        BY Numbers DEF Offsets
  <2>1. CASE UNCHANGED vars
        BY <2>0, <2>1, Zenon DEF vars, countVars
  <2>2. CASE Fetch
        BY <2>0, <2>2, FetchFacts
  <2>3. CASE Step
        BY <2>0, <2>2, <2>3, StartFacts, FlushActionFacts, CopyMessageFacts,
           TrackDeletionFacts, EndOfBatchFacts, DeleteRestFacts, EraseFacts, EmitFacts,
           OpenFileFacts, ReadFacts, LoadMessageFacts, FinishFacts, IdentFailsFacts, Zenon
           DEF Step
  <2>4. CASE Resume \/ Signal \/ Arrive
        BY <2>0, <2>4, ResumeFacts, SignalFacts, ArriveFacts
  <2> QED  BY <2>1, <2>3, <2>4, Zenon DEF Next
<1> QED  BY <1>1, <1>2, <1>3 DEF Offsets

LEMMA ReturnedStep ==
    ASSUME TypeInv, Returned, [Next]_vars
    PROVE  Returned'
<1>0. /\ cmd' = cmd /\ ret \in {0, -1} /\ ident_idx \in Nat /\ Len(idents) \in Nat
      /\ ret < 0 => \/ pc \in {"end", "done"} \/ (pc = "flush" /\ cmd = "delete")
                    \/ cmd \in {"copy", "move"} /\ pc = "rest"
                    \/ cmd \in {"copy", "move"} /\ pc = "item" /\ ident_idx > Len(idents)
      BY SameRun, Numbers, OrderTypes DEF TypeInv, TypeOK, Returned, Stuck
<1>1. CASE UNCHANGED vars \/ Signal \/ Arrive
  <2>1. pc' = pc /\ ret' = ret /\ idents' = idents /\ ident_idx' = ident_idx
    <3>1. CASE UNCHANGED vars
          BY <3>1, Zenon DEF vars, batchVars
    <3> QED  BY <1>1, <3>1, SignalFacts, ArriveFacts
  <2> QED  BY <1>0, <2>1 DEF Returned, Stuck
<1>2. CASE Start
      BY <1>0, <1>2, StartFacts DEF Returned
<1>3. CASE Fetch
      BY <1>0, <1>3, FetchFacts, FetchEnds DEF Returned
<1>4. CASE Flush
  <2>1. pc = "flush" /\ ret' = ret
        BY <1>4, FlushActionFacts
  <2>2. CASE cmd = "delete"
        BY <1>0, <1>4, <2>1, <2>2, FlushActionFacts DEF Returned
  <2>3. CASE cmd # "delete"
        BY <1>0, <2>1, <2>3 DEF Returned
  <2> QED  BY <2>2, <2>3
<1>5. CASE CopyMessage
  <2>1. /\ pc = "item" /\ ident_idx <= Len(idents)
        /\ ret' = ret \/ pc' = "end"
        BY <1>5, CopyMessageFacts
  <2> QED  BY <1>0, <2>1 DEF Returned
<1>6. CASE TrackDeletion
      BY <1>0, <1>6, TrackDeletionFacts DEF Returned
<1>7. CASE EndOfBatch \/ DeleteRest
  <2>1. CASE EndOfBatch
        BY <1>0, <2>1, EndOfBatchFacts DEF Returned, Stuck
  <2>2. CASE DeleteRest
        BY <1>0, <2>2, DeleteRestFacts DEF Returned
  <2> QED  BY <1>7, <2>1, <2>2
<1>8. CASE Erase
  <2>1. pc' = "flush" /\ cmd = "delete"
        BY <1>8, EraseFacts DEF TypeInv, Phase
  <2> QED  BY <1>0, <2>1 DEF Returned
<1>9. CASE Emit
  <2>1. pc = "item" /\ cmd \in Readers
        BY <1>9, EmitFacts
  <2>2. ret = 0 /\ (ret' = 0 \/ ret' = ret \/ pc' = "end")
        BY <1>0, <1>9, <2>1, EmitMore DEF Readers
  <2> QED  BY <2>2 DEF Returned
<1>10. CASE OpenFile
  <2>1. pc = "open" /\ (pc' = "done" \/ ret' = ret)
        BY <1>10 DEF OpenFile
  <2> QED  BY <1>0, <2>1 DEF Returned
<1>11. CASE NoMoreFiles \/ EndOfFile \/ SkipMessage
  <2>1. pc \in {"open", "read"} /\ (ret' = 0 \/ ret' = ret)
        BY <1>11 DEF NoMoreFiles, EndOfFile, SkipMessage
  <2> QED  BY <1>0, <2>1 DEF Returned
<1>12. CASE LoadMessage
       BY <1>0, <1>12, LoadMessageFacts DEF Returned
<1>13. CASE Finish
       BY <1>13, FinishFacts DEF Returned
<1>14. CASE Resume
       BY <1>14, ResumeFacts DEF Returned
<1>15. CASE IdentFails
  <2>1. \/ /\ cmd \in {"copy", "move"} /\ pc' = "item"
           /\ ident_idx' = ident_idx /\ Len(idents') = ident_idx - 1
        \/ ret' = 0 \/ pc' = "end"
        BY <1>15, IdentFailsFacts DEF Stopped
  <2> QED  BY <1>0, <2>1 DEF Returned, Stuck
<1> QED  BY <1>1, <1>2, <1>3, <1>4, <1>5, <1>6, <1>7, <1>8, <1>9, <1>10, <1>11, <1>12, <1>13,
            <1>14, <1>15, Zenon DEF Next, Step

\* A command that has succeeded had before, or has just met an empty batch or
\* the last file.
LEMMA OverStep ==
    ASSUME TypeInv, [Next]_vars, Over'
    PROVE  \/ /\ Over /\ opt' = opt /\ cur_count' \in Nat /\ cur_count' >= cur_count
              /\ UNCHANGED vars \/ Arrive \/ Finish
           \/ Fetch /\ Batch = <<>>
           \/ NoMoreFiles
<1>0. cur_count \in Nat
      BY Numbers
<1>1. CASE UNCHANGED vars
  <2>1. /\ pc' = pc /\ ret' = ret /\ stop_processing' = stop_processing /\ opt' = opt
        /\ cur_count' = cur_count
        BY <1>1, Zenon DEF vars, countVars, envVars
  <2> QED  BY <1>0, <1>1, <2>1 DEF Over
<1>2. CASE Start
      BY <1>2, StartFacts DEF Over
<1>3. CASE Fetch
      BY <1>3, FetchFacts, FetchEnds DEF Over
<1>4. CASE Flush
  <2>1. CASE cmd = "delete"
    <3>1. LoopOn(ret) /\ stop_processing' = stop_processing
          BY <1>4, <2>1, FlushActionFacts DEF Flush
    <3> QED  BY <3>1, LoopNotOver
  <2>2. CASE cmd # "delete"
        BY <1>4, <2>2, FlushActionFacts DEF Over
  <2> QED  BY <2>1, <2>2
<1>5. CASE CopyMessage \/ TrackDeletion
      BY <1>5, CopyMessageFacts, TrackDeletionFacts DEF Over
<1>6. CASE EndOfBatch
  <2>1. pc' = "rest" \/ LoopOn(ret)
        BY <1>6 DEF EndOfBatch
  <2> QED  BY <1>6, <2>1, EndOfBatchFacts, LoopNotOver DEF Over
<1>7. CASE DeleteRest
  <2>1. ret' = -1 \/ LoopOn(ret)
        BY <1>7 DEF DeleteRest
  <2> QED  BY <1>7, <2>1, DeleteRestFacts, LoopNotOver DEF Over
<1>8. CASE Erase
      BY <1>8, EraseFacts DEF Over
<1>9. CASE Emit
      BY <1>9, EmitMore, EmitFacts DEF Over
<1>10. CASE OpenFile
       BY <1>10, OpenFileFacts DEF Over
<1>11. CASE EndOfFile \/ SkipMessage
  <2>1. pc' = "open" \/ (pc = "read" /\ pc' = pc)
        BY <1>11 DEF EndOfFile, SkipMessage
  <2> QED  BY <2>1 DEF Over
<1>12. CASE LoadMessage
       BY <1>12, LoadMessageFacts DEF Over
<1>13. CASE Finish
  <2>1. pc = "end" /\ ret' = ret /\ stop_processing' = stop_processing /\ opt' = opt
        BY <1>13, FinishFacts DEF SameCommand
  <2>2. cur_count' = cur_count \/ cur_count' = cur_count + event_no
        BY <1>13 DEF Finish
  <2>3. event_no \in Nat
        BY Numbers
  <2> QED  BY <1>0, <1>13, <2>1, <2>2, <2>3 DEF Over
<1>14. CASE Resume
       BY <1>14, ResumeFacts DEF Over
<1>15. CASE Signal
  <2>1. stop_processing' = TRUE
        BY <1>15 DEF Signal
  <2> QED  BY <2>1 DEF Over
<1>16. CASE Arrive
       BY <1>0, <1>16, ArriveFacts DEF Over
<1>17. CASE IdentFails
  <2>1. stop_processing' = stop_processing /\ pc = "item"
        BY <1>17, IdentFailsFacts
  <2>2. CASE pc' = "item"
        BY <2>2 DEF Over
  <2>3. CASE pc' # "item"
    <3> DEFINE r == IF cmd = "save" THEN 0 ELSE -1
    <3>1. LoopOn(r)
          BY <1>17, <2>1, <2>3, Zenon DEF IdentFails
    <3> HIDE DEF r
    <3> QED  BY <2>1, <3>1, LoopNotOver
  <2> QED  BY <2>2, <2>3
<1> QED  BY <1>1, <1>2, <1>3, <1>4, <1>5, <1>6, <1>7, <1>8, <1>9, <1>10, <1>11, <1>12, <1>13,
            <1>14, <1>15, <1>16, <1>17, Zenon DEF Next, Step

\* A batch is empty when --count is used up or the source has no more.
LEMMA EmptyBatch ==
    ASSUME TypeInv, ept > 0, Batch = <<>>
    PROVE  limit_copy = 0 \/ Len(Selected(src.now.msgs)) <= FetchOffset
<1> SUFFICES ASSUME limit_copy # 0, Len(Selected(src.now.msgs)) > FetchOffset PROVE FALSE
    BY BatchType, SrcFields, PickedMembers DEF Selected
<1> DEFINE all == Selected(src.now.msgs)
           o == FetchOffset
           l == LocalLimit
           top == Min({Len(all), o + l})
<1>1. /\ all \in Seq(Msgs) /\ Len(all) \in Nat /\ o \in Nat /\ l \in Int
      BY SrcFields, BatchType, PickedMembers DEF Selected
<1>2. l >= 1
  <2>1. ept \in Nat /\ limit_copy \in Int
        BY Numbers
  <2>2. limit_copy >= 0 => l = IF ept <= limit_copy THEN ept ELSE limit_copy
        BY <2>1, MinOfTwo DEF LocalLimit
  <2> QED  BY <2>1, <2>2 DEF LocalLimit
<1>3. Batch = SubSeq(all, o + 1, top)
      BY DEF Batch, src
<1> HIDE DEF all, o, l
<1>4. top = IF Len(all) <= o + l THEN Len(all) ELSE o + l
      BY <1>1, MinOfTwo
<1>5. Len(all) > o
      BY DEF all, o
<1> HIDE DEF top
<1>6. top \in Int /\ o + 1 <= top /\ top <= Len(all)
      BY <1>1, <1>2, <1>4, <1>5
<1>7. Len(SubSeq(all, o + 1, top)) = top - (o + 1) + 1
  <2>1. \A i \in (o + 1)..top : all[i] \in Msgs
        BY <1>1, <1>6
  <2> QED  BY <1>1, <1>6, <2>1, SubSeqProperties
<1>8. Len(<<>>) = 0
      OBVIOUS
<1> QED  BY <1>1, <1>3, <1>6, <1>7, <1>8

----------------------------------------------------------------------------
(* The commands that leave the source as it is fetch its messages by rank. *)
Sourced == cmd \notin {"move", "delete"} => src.now.msgs = FirstMsgs(arrived)

LEMMA SourcedStep ==
    ASSUME TypeInv, Sourced, [Next]_vars
    PROVE  Sourced'
<1> SUFFICES ASSUME cmd \notin {"move", "delete"} PROVE src'.now.msgs = FirstMsgs(arrived')
    BY SameRun DEF Sourced
<1>0. src.now.msgs = FirstMsgs(arrived)
      BY DEF Sourced
<1>1. CASE UNCHANGED vars
  <2>1. src' = src /\ arrived' = arrived
        BY <1>1, Zenon DEF vars, envVars, src
  <2> QED  BY <1>0, <2>1
<1>2. CASE Step
  <2>1. src' = src /\ arrived' = arrived
    <3>1. CASE Start \/ Fetch \/ IdentFails \/ Emit \/ NoMoreFiles \/ EndOfFile \/ SkipMessage
          BY <3>1, StartFacts, FetchFacts, IdentFailsFacts, EmitFacts, ReadFacts
             DEF SameCommand, OnlyDst, src
    <3>2. CASE Flush \/ EndOfBatch
      <4>1. arrived' = arrived /\ \E i \in Nat : Flushed(i) \/ NotFlushed(i)
            BY <3>2, FlushActionFacts, EndOfBatchFacts DEF SameCommand
      <4> QED  BY <4>1 DEF Flushed, NotFlushed, src
    <3>3. CASE CopyMessage \/ OpenFile \/ LoadMessage
          BY <3>3, CopyMessageFacts, OpenFileFacts, LoadMessageFacts
             DEF SameCommand, OnlyDst, src
    <3>4. CASE TrackDeletion \/ DeleteRest \/ Erase
          BY <3>4, TrackDeletionFacts, DeleteRestFacts, EraseFacts DEF TypeInv, Phase
    <3>5. CASE Finish
          BY <3>5, FinishFacts DEF SameCommand, OnlyDst
    <3> QED  BY <1>2, <3>1, <3>2, <3>3, <3>4, <3>5, Zenon DEF Step
  <2> QED  BY <1>0, <2>1
<1>3. CASE Resume \/ Signal
  <2>1. src' = src /\ arrived' = arrived
        BY <1>3, ResumeFacts, SignalFacts DEF src
  <2> QED  BY <1>0, <2>1
<1>4. CASE Arrive
  <2>1. /\ arrived' = arrived + 1 /\ arrived + 1 \in Msgs /\ src.now.msgs \in Seq(Msgs)
        /\ src'.now = With(src.now, arrived + 1) /\ src.now \in Contents
        BY <1>4, ArriveFacts, SrcFields
  <2>2. arrived \in 0..MaxMsgs /\ arrived < MaxMsgs
    <3>1. arrived \in Nat /\ arrived \in 0..MaxMsgs /\ arrived + 1 \in 1..MaxMsgs
          BY <2>1, OrderTypes DEF Msgs
    <3> QED  BY <3>1, MessagesAssumption
  <2>3. src'.now.msgs = Append(src.now.msgs, arrived + 1)
        BY <2>1, WithFields
  <2> QED  BY <1>0, <2>1, <2>2, <2>3, FirstMsgsSeq
<1> QED  BY <1>1, <1>2, <1>3, <1>4, Zenon DEF Next

LEMMA RankedBatch ==
    ASSUME TypeInv, Sourced, cmd \notin {"move", "delete", "load"}
    PROVE  InPlaces(Batch, 1, Reached, arrived) /\ FetchOffset = Reached
<1>1. FetchOffset = Reached /\ Reached \in Nat /\ arrived \in 0..MaxMsgs /\ Len(Batch) \in Nat
      BY OrderTypes, BatchType DEF FetchOffset, Reached
<1> SUFFICES ASSUME NEW i \in 1..Len(Batch) PROVE InPlace(Batch[i], Reached + i, arrived)
    BY <1>1 DEF InPlaces
<1>2. src.now.msgs = FirstMsgs(arrived)
      BY DEF Sourced
<1>3. /\ Reached + i \in 1..Len(Picked(FirstMsgs(arrived), Matching))
      /\ Batch[i] = Picked(FirstMsgs(arrived), Matching)[Reached + i]
      BY <1>1, <1>2, BatchPlaces DEF Selected
<1>4. /\ Picked(FirstMsgs(arrived), Matching)[Reached + i] \in Matching \cap (1..arrived)
      /\ Rank(Picked(FirstMsgs(arrived), Matching)[Reached + i], Matching) = Reached + i
      BY <1>1, <1>3, FirstRanks
<1> QED  BY <1>3, <1>4 DEF InPlace

LEMMA NothingFurther ==
    ASSUME TypeInv, Sourced, ept > 0, cmd \notin {"move", "delete", "load"}, Batch = <<>>
    PROVE  limit_copy = 0 \/ Within(Reached)
<1> SUFFICES ASSUME limit_copy # 0, NEW m \in Known PROVE Rank(m, Matching) <= Reached
    BY DEF Within
<1>1. /\ m \in Matching /\ m \in 1..arrived /\ Rank(m, Matching) \in Nat
      /\ arrived \in 0..MaxMsgs /\ Reached \in Nat /\ FetchOffset = Reached
      BY KnownFacts, OrderTypes, RankedBatch
<1>2. Len(Picked(FirstMsgs(arrived), Matching)) <= Reached
  <2>1. src.now.msgs = FirstMsgs(arrived)
        BY DEF Sourced
  <2> QED  BY <1>1, <2>1, EmptyBatch DEF Selected
<1>3. Rank(m, Matching) \in 1..Len(Picked(FirstMsgs(arrived), Matching))
      BY <1>1, RankIsPlace
<1>4. Len(Picked(FirstMsgs(arrived), Matching)) \in Nat
      BY <1>1, FirstMsgsSeq, PickedMembers
<1> QED  BY <1>1, <1>2, <1>3, <1>4

\* The place of the message in hand, and those of the messages after it.
LEMMA NextInPlace ==
    ASSUME TypeInv, NEW base \in Int, InPlaces(idents, ident_idx, base, arrived),
           ident_idx <= Len(idents)
    PROVE  /\ InPlace(idents[ident_idx], base + ident_idx, arrived)
           /\ idents[ident_idx] \in Msgs \cap Matching
           /\ InPlaces(idents, ident_idx + 1, base, arrived)
<1>1. ident_idx \in Nat /\ ident_idx >= 1 /\ Len(idents) \in Nat /\ idents[ident_idx] \in Msgs
      BY OrderTypes, CurrentIdent
<1>2. InPlace(idents[ident_idx], base + ident_idx, arrived)
      BY <1>1 DEF InPlaces
<1>3. InPlaces(idents, ident_idx + 1, base, arrived)
      BY <1>1 DEF InPlaces
<1> QED  BY <1>1, <1>2, <1>3 DEF InPlace

\* The room of a batch fetched, for the commands that take it item by item.
LEMMA FetchedRoom ==
    ASSUME TypeInv, Fetch, pc' # "end", cmd \notin {"delete", "load"}, opt.limit >= 0, CountedNow
    PROVE  Room' = Room
<1>0. limit_copy >= 0 /\ Len(Batch) \in Nat /\ limit_copy \in Int /\ opt.limit \in Int
      BY BatchType, Numbers DEF CountedNow
<1>1. /\ pc = "fetch" /\ SameCommand /\ pc' = "item"
      /\ Batch # <<>> /\ idents' = Batch /\ ident_idx' = 1
      /\ limit_copy' = IF limit_copy > 0 THEN limit_copy - Len(Batch) ELSE limit_copy
      BY FetchFacts
<1>2. opt' = opt /\ cmd' = cmd /\ Pending = 0
      BY <1>1, SameParts DEF SameCommand, Pending
<1>3. limit_copy' = limit_copy - Len(Batch)
  <2>1. CASE limit_copy > 0
        BY <1>1, <2>1
  <2>2. CASE limit_copy = 0
    <3>1. Len(Batch) <= 0
          BY <1>1, <2>2, BatchLength
    <3> QED  BY <1>0, <1>1, <2>2, <3>1
  <2> QED  BY <1>0, <2>1, <2>2
<1>4. Pending' = Len(Batch)
  <2>1. Pending' = Len(Batch) + 1 - 1
        BY <1>1, <1>2 DEF Pending
  <2> QED  BY <1>0, <2>1
<1>5. opt.limit - (limit_copy - Len(Batch)) - Len(Batch) = opt.limit - limit_copy - 0
      BY <1>0
<1>6. Room' = opt.limit - (limit_copy - Len(Batch)) - Len(Batch)
      BY <1>2, <1>3, <1>4 DEF Room
<1>7. Room = opt.limit - limit_copy - 0
      BY <1>2 DEF Room
<1> QED  BY <1>5, <1>6, <1>7

(***************************************************************************)
(* A copy.  The destination has every message up to the rank gone through,  *)
(* and has committed them up to the rank counted.                           *)
(***************************************************************************)
InHand == InPlaces(idents, ident_idx, Passed - (ident_idx - 1), arrived)
CopyDone ==
    /\ Through(ToSet(dst.kept.msgs), Reached)
    /\ pc # "done" => Through(ToSet(dst.now.msgs), Passed)
    /\ pc \in {"item", "flush"} => InHand
    /\ opt.limit >= 0 /\ pc \notin {"end", "done"} /\ ret >= 0 => Passed = origin + Room
CopyingDone == DoneBase /\ Sourced /\ cmd = "copy" /\ CopyDone

LEMMA CopyTypes ==
    ASSUME CopyingDone
    PROVE  /\ TypeInv /\ Whole /\ CopyBound /\ CopyDone /\ ept > 0 /\ Sourced /\ cmd = "copy"
           /\ (opt.limit >= 0 => CountedNow) /\ delete_tbl = <<>>
           /\ Passed \in Nat /\ Reached \in Nat /\ Room \in Int /\ ident_idx \in Nat
           /\ opt.offset \in Nat /\ cur_count \in Nat /\ event_no \in Nat /\ arrived \in Nat
           /\ opt.limit \in Int /\ limit_copy \in Int /\ Len(idents) \in Nat
           /\ idents \in Seq(Msgs) /\ origin \in Nat /\ ret \in {0, -1}
           /\ ret < 0 => \/ pc \in {"end", "done", "rest"}
                         \/ pc = "item" /\ ident_idx > Len(idents)
<1>1. TypeInv /\ Bounded /\ Whole /\ Counted /\ cmd = "copy" /\ ept > 0 /\ CopyDone /\ Sourced
      BY DEF CopyingDone, DoneBase, OrderBase, BoundedInv, Offsets
<1>2. CopyBound /\ (opt.limit >= 0 => CountedNow) /\ delete_tbl = <<>>
      BY <1>1 DEF Bounded, Counted, Counting, TypeInv, Phase
<1>3. /\ ret \in {0, -1}
      /\ ret < 0 => \/ pc \in {"end", "done", "rest"}
                    \/ pc = "item" /\ ident_idx > Len(idents)
      BY <1>1 DEF CopyingDone, DoneBase, Returned, Stuck, TypeInv, TypeOK
<1> QED  BY <1>1, <1>2, <1>3, OrderTypes, CountTypes, Numbers

\* A step that leaves the counts and the destination's messages as they are.
LEMMA CopyDoneKept ==
    ASSUME CopyingDone, [Next]_vars, opt' = opt, arrived' = arrived,
           dst'.now.msgs = dst.now.msgs, dst'.kept.msgs = dst.kept.msgs,
           Reached' = Reached, Passed' = Passed, pc # "done",
           pc' \in {"item", "flush"} => InHand',
           opt.limit >= 0 /\ pc' \notin {"end", "done"} /\ ret' >= 0 =>
               Room' = Room /\ pc \notin {"end", "done"} /\ ret >= 0
    PROVE  CopyDone'
<1>1. Known' = Known /\ origin' = origin
      BY CopyTypes, SameRun
<1>2. /\ Through(ToSet(dst.kept.msgs), Reached) /\ Through(ToSet(dst.now.msgs), Passed)
      /\ opt.limit >= 0 /\ pc \notin {"end", "done"} /\ ret >= 0 => Passed = origin + Room
      BY DEF CopyingDone, CopyDone
<1>3. Through(ToSet(dst.kept.msgs), Reached)' /\ Through(ToSet(dst.now.msgs), Passed)'
      BY <1>1, <1>2 DEF Through
<1> QED  BY <1>1, <1>2, <1>3 DEF CopyDone

LEMMA CopyDoneStart ==
    ASSUME CopyingDone, Start
    PROVE  CopyDone'
<1>0. TypeInv /\ cmd = "copy"
      BY CopyTypes
<1>1. /\ pc = "start" /\ pc' = "fetch" /\ SameCommand /\ ident_idx' = ident_idx /\ ret' = ret
      /\ cur_count' = cur_count /\ event_no' = event_no /\ limit_copy' = limit_copy
      BY <1>0, StartFacts
<1>2. dst'.now.msgs = dst.now.msgs /\ dst'.kept.msgs = dst.kept.msgs
      BY <1>0, StartFacts, BegunFacts DEF OnlyDst, dst
<1>3. opt' = opt /\ arrived' = arrived
      BY <1>1 DEF SameCommand
<1>4. Reached' = Reached /\ Due' = 0 /\ Due = 0 /\ Pending = 0 /\ Pending' = 0
      BY <1>1, <1>3 DEF Reached, Due, Pending
<1>5. Passed' = Passed /\ Room' = Room
      BY <1>1, <1>3, <1>4 DEF Passed, Room
<1> QED  BY <1>1, <1>2, <1>3, <1>4, <1>5, CopyDoneKept DEF Next, Step

LEMMA CopyDoneFetch ==
    ASSUME CopyingDone, Fetch
    PROVE  CopyDone'
<1>0. /\ TypeInv /\ cmd = "copy" /\ CopyBound /\ Sourced /\ (opt.limit >= 0 => CountedNow)
      /\ Passed \in Nat /\ Reached \in Nat /\ limit_copy \in Int /\ ret \in {0, -1}
      /\ ret < 0 => pc \in {"end", "done", "rest", "item"}
      BY CopyTypes
<1>1. /\ pc = "fetch" /\ SameCommand /\ cur_count' = cur_count /\ event_no' = event_no
      /\ dst' = dst /\ pc' \in {"item", "end"}
      /\ pc' = "item" => /\ Batch # <<>> /\ idents' = Batch /\ ident_idx' = 1
                         /\ limit_copy' = IF limit_copy > 0 THEN limit_copy - Len(Batch)
                                                             ELSE limit_copy
      BY <1>0, FetchFacts DEF dst
<1>3. opt' = opt /\ arrived' = arrived
      BY <1>1 DEF SameCommand
<1>4. Reached' = Reached /\ Due' = 0 /\ Due = 0 /\ Pending = 0 /\ event_no = 0
      BY <1>0, <1>1, <1>3 DEF Reached, Due, Pending, CopyBound
<1>5. Passed' = Passed /\ Passed = Reached
      BY <1>0, <1>1, <1>3, <1>4 DEF Passed
<1>6. ASSUME pc' = "item" PROVE InHand'
  <2>1. InPlaces(Batch, 1, Reached, arrived)
        BY <1>0, RankedBatch
  <2>2. Reached = Passed' - (1 - 1)
        BY <1>0, <1>5
  <2> QED  BY <1>1, <1>3, <1>6, <2>1, <2>2 DEF InHand
<1>7. ASSUME opt.limit >= 0, pc' = "item" PROVE Room' = Room
      BY <1>0, <1>7, FetchedRoom
<1>8. ret >= 0
      BY <1>0, <1>1
<1> QED  BY <1>1, <1>3, <1>4, <1>5, <1>6, <1>7, <1>8, CopyDoneKept DEF Next, Step

LEMMA CopyDoneMessage ==
    ASSUME CopyingDone, CopyMessage
    PROVE  CopyDone'
<1>0. /\ TypeInv /\ cmd = "copy" /\ CopyDone /\ Passed \in Nat /\ Reached \in Nat
      /\ ident_idx \in Nat /\ event_no \in Nat /\ origin \in Nat /\ Room \in Int
      /\ Known' = Known /\ origin' = origin
      BY CopyTypes, SameRun DEF Next, Step
<1> DEFINE m == idents[ident_idx]
<1>1. /\ pc = "item" /\ ident_idx <= Len(idents) /\ m \in Msgs /\ ident_idx' = ident_idx + 1
      /\ SameCommand /\ cur_count' = cur_count /\ event_no' = event_no
      /\ limit_copy' = limit_copy /\ idents' = idents
      /\ \/ dst' = Wrote(dst, With(dst.now, m)) /\ pc' = "flush"
         \/ db' = db /\ pc' = "end"
         \/ dst' = Failed(dst, Torn(dst.now, {m})) /\ pc' = "end"
      BY <1>0, CopyMessageFacts DEF OnlyDst
<1>2. ret >= 0
      BY <1>1, CopyTypes
<1>3. opt' = opt /\ arrived' = arrived /\ cmd' = cmd
      BY <1>1, SameParts DEF SameCommand
<1>4. Reached' = Reached /\ Due = 0
      BY <1>1, <1>3 DEF Reached, Due
<1>5. CASE pc' = "end"
  <2>1. dst'.now.msgs = dst.now.msgs /\ dst'.kept.msgs = dst.kept.msgs
    <3>1. db' = db \/ HalfInserted(m)
          BY <1>0, <1>1, <1>5, InsertedFacts
    <3> QED  BY <3>1 DEF HalfInserted, dst
  <2>2. Due' = 0
        BY <1>5 DEF Due
  <2>3. Passed' = Passed
        BY <1>1, <1>4, <2>2 DEF Passed
  <2> QED  BY <1>1, <1>3, <1>4, <1>5, <2>1, <2>3, CopyDoneKept DEF Next, Step
<1>6. CASE pc' = "flush"
  <2>1. Inserted(m)
        BY <1>0, <1>1, <1>6, InsertedFacts
  <2>2. Due' = 1
        BY <1>6 DEF Due
  <2>3. Passed' = Passed + 1
    <3>1. Passed = Reached + event_no + 0 /\ Passed' = Reached + event_no + 1
          BY <1>1, <1>4, <2>2 DEF Passed
    <3> QED  BY <1>0, <3>1
  <2>4. dst.now.msgs \in Seq(Msgs) /\ dst'.now.msgs = Append(dst.now.msgs, m)
    <3>1. dst.now \in Contents /\ dst.now.msgs \in Seq(Msgs)
          BY <1>0, DstLengths
    <3> QED  BY <1>1, <2>1, <3>1, WithFields DEF Inserted
  <2>5. ToSet(dst'.now.msgs) = ToSet(dst.now.msgs) \cup {m}
        BY <1>1, <2>4, ToSetAppend
  <2>6. m \in Msgs \cap Matching /\ Rank(m, Matching) = Passed + 1
        /\ InPlaces(idents, ident_idx + 1, Passed - (ident_idx - 1), arrived)
    <3>1. InPlaces(idents, ident_idx, Passed - (ident_idx - 1), arrived)
          BY <1>0, <1>1 DEF CopyDone, InHand
    <3>2. Passed - (ident_idx - 1) \in Int /\ Passed - (ident_idx - 1) + ident_idx = Passed + 1
          BY <1>0
    <3>3. /\ InPlace(m, Passed - (ident_idx - 1) + ident_idx, arrived) /\ m \in Msgs \cap Matching
          /\ InPlaces(idents, ident_idx + 1, Passed - (ident_idx - 1), arrived)
          BY <1>0, <1>1, <3>1, <3>2, NextInPlace
    <3> QED  BY <3>2, <3>3 DEF InPlace
  <2>7. Through(ToSet(dst.now.msgs), Passed) /\ Through(ToSet(dst.kept.msgs), Reached)
        BY <1>0, <1>1 DEF CopyDone
  <2>8. Through(ToSet(dst'.now.msgs), Passed + 1)
        BY <1>0, <2>5, <2>6, <2>7, OneFurther
  <2>9. Through(ToSet(dst'.kept.msgs), Reached)
    <3>1. CASE dst.tx
          BY <2>1, <2>7, <3>1 DEF Inserted
    <3>2. CASE ~dst.tx
      <4>1. dst'.kept = dst'.now /\ dst.now = dst.kept
            BY <1>0, <2>1, <3>2, DstLengths DEF Inserted
      <4>2. ToSet(dst.kept.msgs) \subseteq ToSet(dst'.kept.msgs)
            BY <2>5, <4>1
      <4> QED  BY <1>0, <2>7, <4>2, NoFurther
    <3> QED  BY <3>1, <3>2
  <2>10. Passed' - (ident_idx' - 1) = Passed - (ident_idx - 1)
         BY <1>0, <1>1, <2>3
  <2>11. InHand'
         BY <1>1, <1>3, <2>6, <2>10 DEF InHand
  <2>12. Room' = Room + 1
         BY <1>0, <1>1, <1>3, <1>6, OneMoreRoom
  <2>13. opt.limit >= 0 => Passed' = origin' + Room'
         BY <1>0, <1>1, <1>2, <2>3, <2>12 DEF CopyDone
  <2>14. Through(ToSet(dst.now.msgs), Passed)' /\ Through(ToSet(dst.kept.msgs), Reached)'
         BY <1>0, <1>4, <2>3, <2>8, <2>9 DEF Through
  <2> QED  BY <1>3, <1>6, <2>11, <2>13, <2>14 DEF CopyDone
<1> QED  BY <1>1, <1>5, <1>6

\* An ident that cannot be taken: there is nothing left in hand.
LEMMA CopyDoneIdentFails ==
    ASSUME CopyingDone, IdentFails
    PROVE  CopyDone'
<1>0. TypeInv /\ cmd = "copy" /\ cmd \notin Readers /\ ident_idx \in Nat
      BY CopyTypes DEF Readers
<1>1. /\ pc = "item" /\ pc' = "item" /\ ret' = -1 /\ db' = db /\ SameCommand
      /\ cur_count' = cur_count /\ event_no' = event_no /\ ident_idx' = ident_idx
      /\ Len(idents') = ident_idx - 1
      BY <1>0, IdentFailsFacts DEF Stopped
<1>2. opt' = opt /\ arrived' = arrived /\ dst' = dst
      BY <1>1 DEF SameCommand, dst
<1>3. Reached' = Reached /\ Due' = 0 /\ Due = 0
      BY <1>1, <1>2 DEF Reached, Due
<1>4. Passed' = Passed
      BY <1>1, <1>3 DEF Passed
<1>5. InHand'
      BY <1>0, <1>1 DEF InHand, InPlaces
<1> QED  BY <1>1, <1>2, <1>3, <1>4, <1>5, CopyDoneKept DEF Next, Step

LEMMA CopyDoneFlush ==
    ASSUME CopyingDone, Flush \/ EndOfBatch, Sure'
    PROVE  CopyDone'
<1>0. /\ TypeInv /\ cmd = "copy" /\ CopyDone /\ Whole /\ Passed \in Nat /\ Reached \in Nat
      /\ ident_idx \in Nat /\ event_no \in Nat /\ origin \in Nat /\ Room \in Int /\ ept > 0
      /\ delete_tbl = <<>> /\ opt.offset \in Nat /\ cur_count \in Nat /\ Len(idents) \in Nat
      /\ Known' = Known /\ origin' = origin
  <2>1. Next
        BY DEF Next, Step
  <2> QED  BY <2>1, CopyTypes, SameRun
<1>1. /\ SameCommand /\ ret' = ret /\ limit_copy' = limit_copy /\ idents' = idents /\ ident_idx' = ident_idx
      /\ \/ pc = "flush" /\ pc' = "item" /\ Due = 1 /\ (Flushed(1) \/ NotFlushed(1))
         \/ /\ pc = "item" /\ pc' \in {"fetch", "end"} /\ Due = 0 /\ ident_idx > Len(idents)
            /\ Flushed(0) \/ NotFlushed(0)
  <2>1. CASE Flush
    <3>1. Increment = 1
          BY <1>0 DEF Increment
    <3> QED  BY <1>0, <2>1, <3>1, FlushActionFacts DEF Due
  <2>2. CASE EndOfBatch
        BY <1>0, <2>2, EndOfBatchFacts DEF Due
  <2> QED  BY <2>1, <2>2
<1>2. opt' = opt /\ arrived' = arrived /\ cmd' = cmd
      BY <1>1, SameParts DEF SameCommand
<1>3. (Flushed(Due) \/ NotFlushed(Due)) /\ Due \in {0, 1} /\ Due' = 0
      BY <1>1 DEF Due
<1>4. /\ Passed' = Passed /\ (Flushed(Due) => Reached' = Passed)
      /\ NotFlushed(Due) => Reached' = Reached
      BY <1>0, <1>2, <1>3, PassedFlushed
<1>5. /\ Through(ToSet(dst.now.msgs), Passed) /\ Through(ToSet(dst.kept.msgs), Reached)
      /\ opt.limit >= 0 /\ ret >= 0 => Passed = origin + Room
      BY <1>0, <1>1 DEF CopyDone
<1>6. dst'.now = dst.now /\ Through(ToSet(dst'.kept.msgs), Reached')
  <2>1. CASE Flushed(Due)
    <3>1. dst'.now = dst.now /\ dst'.kept = dst.now
      <4>1. Renewed(dst, dst') /\ ~dst.broken
            BY <1>0, <1>1, <2>1 DEF Flushed, Whole
      <4> QED  BY <1>0, <4>1, RenewedWhole DEF Sure
    <3> QED  BY <1>4, <1>5, <2>1, <3>1
  <2>2. CASE NotFlushed(Due)
    <3>1. dst' = dst
          BY <2>2 DEF NotFlushed, dst
    <3> QED  BY <1>4, <1>5, <2>2, <3>1
  <2> QED  BY <1>3, <2>1, <2>2
<1>7. ASSUME pc' = "item" PROVE InHand'
  <2>1. InHand
        BY <1>0, <1>1, <1>7 DEF CopyDone
  <2> QED  BY <1>1, <1>2, <1>4, <2>1 DEF InHand
<1>8. Room' = Room
  <2>1. Pending' = Pending
    <3>1. CASE pc = "flush"
          BY <1>0, <1>1, <1>2, <3>1 DEF Pending
    <3>2. CASE pc = "item"
      <4>1. ident_idx = Len(idents) + 1
            BY <1>0, <1>1, <3>2, Numbers
      <4>2. Pending = 0 /\ Pending' = 0
            BY <1>0, <1>1, <3>2, <4>1 DEF Pending
      <4> QED  BY <4>2
    <3> QED  BY <1>1, <3>1, <3>2
  <2> QED  BY <1>1, <1>2, <2>1 DEF Room
<1>9. Through(ToSet(dst.now.msgs), Passed)' /\ Through(ToSet(dst.kept.msgs), Reached)'
      BY <1>0, <1>4, <1>5, <1>6 DEF Through
<1> QED  BY <1>0, <1>1, <1>2, <1>4, <1>5, <1>7, <1>8, <1>9 DEF CopyDone

LEMMA CopyDoneFinish ==
    ASSUME CopyingDone, Finish, Sure'
    PROVE  CopyDone'
<1>0. /\ TypeInv /\ cmd = "copy" /\ CopyDone /\ Whole /\ Passed \in Nat /\ Reached \in Nat
      /\ event_no \in Nat /\ opt.offset \in Nat /\ cur_count \in Nat
      /\ Known' = Known
  <2>1. Next
        BY DEF Next, Step
  <2> QED  BY <2>1, CopyTypes, SameRun
<1>1. pc = "end" /\ pc' = "done" /\ opt' = opt
      BY <1>0, FinishFacts DEF SameCommand
<1>2. Through(ToSet(dst.now.msgs), Passed) /\ Through(ToSet(dst.kept.msgs), Reached)
      BY <1>0, <1>1 DEF CopyDone
<1>3. \/ /\ dst' = Committed(dst) /\ ret >= 0 /\ cur_count' = cur_count + event_no
      \/ dst' = RolledBack(dst) /\ cur_count' = cur_count
      BY <1>0, SureFinish DEF Inserting
<1>4. Through(ToSet(dst'.kept.msgs), Reached')
  <2>1. CASE dst' = Committed(dst) /\ ret >= 0 /\ cur_count' = cur_count + event_no
    <3>1. ~dst.broken
          BY <1>0, <2>1 DEF Whole
    <3>2. dst'.kept = dst.now
          BY <2>1, <3>1 DEF Committed, NewSession
    <3>3. Reached' = Passed
      <4>1. Due = 0
            BY <1>1 DEF Due
      <4>2. Passed = opt.offset + cur_count + event_no + 0
            BY <4>1 DEF Passed, Reached
      <4>3. Reached' = opt.offset + (cur_count + event_no)
            BY <1>1, <2>1 DEF Reached
      <4> QED  BY <1>0, <4>2, <4>3
    <3> QED  BY <1>2, <3>2, <3>3
  <2>2. CASE dst' = RolledBack(dst) /\ cur_count' = cur_count
    <3>1. dst'.kept = dst.kept /\ Reached' = Reached
          BY <1>1, <2>2 DEF RolledBack, NewSession, Reached
    <3> QED  BY <1>2, <3>1
  <2> QED  BY <1>3, <2>1, <2>2
<1>5. Through(ToSet(dst.kept.msgs), Reached)'
      BY <1>0, <1>4 DEF Through
<1> QED  BY <1>1, <1>5 DEF CopyDone

LEMMA CopyDoneResume ==
    ASSUME CopyingDone, Resume
    PROVE  CopyDone'
<1>0. /\ TypeInv /\ cmd = "copy" /\ CopyDone /\ CopyBound /\ Reached \in Nat
      /\ opt.offset \in Nat /\ cur_count \in Nat /\ Known' = Known
  <2>1. Next
        BY DEF Next
  <2> QED  BY <2>1, CopyTypes, SameRun
<1>1. /\ pc = "done" /\ pc' = "start" /\ opt'.limit = opt.limit /\ opt.limit < 0
      /\ opt'.offset = opt.offset + cur_count /\ cur_count' = 0 /\ event_no' = 0
      /\ dst' = dst
      BY <1>0, ResumeFacts DEF dst
<1>2. Reached' = Reached
  <2>1. Reached' = (opt.offset + cur_count) + 0
        BY <1>1 DEF Reached
  <2> QED  BY <1>0, <2>1 DEF Reached
<1>3. Passed' = Reached
  <2>1. Passed' = Reached + 0 + 0
        BY <1>1, <1>2 DEF Passed, Due
  <2> QED  BY <1>0, <2>1
<1>4. Through(ToSet(dst.kept.msgs), Reached) /\ dst.now.msgs = dst.kept.msgs
      BY <1>0, <1>1 DEF CopyDone, CopyBound, Level
<1>5. Through(ToSet(dst.now.msgs), Passed)' /\ Through(ToSet(dst.kept.msgs), Reached)'
      BY <1>0, <1>1, <1>2, <1>3, <1>4 DEF Through
<1>6. ~(opt'.limit >= 0)
  <2>1. opt.limit \in Int
        BY CopyTypes
  <2> QED  BY <1>1, <2>1
<1> QED  BY <1>1, <1>5, <1>6 DEF CopyDone

LEMMA CopyDoneArrive ==
    ASSUME CopyingDone, Arrive
    PROVE  CopyDone'
<1>0. /\ TypeInv /\ cmd = "copy" /\ CopyDone /\ Known' = Known /\ arrived \in Nat
  <2>1. Next
        BY DEF Next
  <2> QED  BY <2>1, CopyTypes, SameRun
<1>1. /\ arrived' = arrived + 1 /\ dst' = dst /\ cmd' = cmd
      /\ UNCHANGED <<opt, origin, pc, ret, limit_copy, cur_count, event_no, idents, ident_idx>>
      BY <1>0, ArriveFacts DEF OnlySrc
<1>2. Reached' = Reached /\ Due' = Due /\ Pending' = Pending
      BY <1>1 DEF Reached, Due, Pending
<1>3. Passed' = Passed /\ Room' = Room
      BY <1>1, <1>2 DEF Passed, Room
<1>4. InHand => InHand'
  <2>1. arrived <= arrived + 1 /\ arrived + 1 \in Nat
        BY <1>0
  <2>2. InHand => InPlaces(idents, ident_idx, Passed - (ident_idx - 1), arrived + 1)
        BY <1>0, <2>1, PlacesGrow DEF InHand
  <2> QED  BY <1>1, <1>3, <2>2 DEF InHand
<1>5. Through(ToSet(dst.kept.msgs), Reached) => Through(ToSet(dst.kept.msgs), Reached)'
      BY <1>0, <1>1, <1>2 DEF Through
<1>6. Through(ToSet(dst.now.msgs), Passed) => Through(ToSet(dst.now.msgs), Passed)'
      BY <1>0, <1>1, <1>3 DEF Through
<1> QED  BY <1>0, <1>1, <1>3, <1>4, <1>5, <1>6 DEF CopyDone

LEMMA CopyDoneSame ==
    ASSUME CopyingDone, UNCHANGED vars \/ Signal
    PROVE  CopyDone'
<1>0. TypeInv /\ CopyDone
      BY CopyTypes
<1>1. UNCHANGED <<opt, origin, db, arrived, pc, ret, limit_copy, cur_count, event_no, idents,
                  ident_idx>>
  <2>1. CASE UNCHANGED vars
        BY <2>1, Zenon DEF vars, countVars, batchVars, envVars
  <2>2. CASE Signal
        BY <1>0, <2>2, SignalFacts
  <2> QED  BY <2>1, <2>2
<1>2. /\ opt' = opt /\ origin' = origin /\ dst' = dst /\ pc' = pc /\ ret' = ret /\ limit_copy' = limit_copy
      /\ cur_count' = cur_count /\ event_no' = event_no /\ idents' = idents
      /\ ident_idx' = ident_idx /\ arrived' = arrived
      BY <1>1, Zenon DEF dst
<1>3. Known' = Known /\ Reached' = Reached /\ Due' = Due /\ Pending' = Pending
      BY <1>2 DEF Known, Asked, Reached, Due, Pending, cmd
<1>4. Passed' = Passed /\ Room' = Room
      BY <1>2, <1>3 DEF Passed, Room
<1>5. InHand' = InHand
      BY <1>2, <1>4 DEF InHand
<1>6. Through(ToSet(dst.kept.msgs), Reached) => Through(ToSet(dst.kept.msgs), Reached)'
      BY <1>2, <1>3 DEF Through
<1>7. Through(ToSet(dst.now.msgs), Passed) => Through(ToSet(dst.now.msgs), Passed)'
      BY <1>2, <1>3, <1>4 DEF Through
<1> QED  BY <1>0, <1>2, <1>4, <1>5, <1>6, <1>7 DEF CopyDone

LEMMA CopyDoneStep ==
    ASSUME CopyingDone, [Next]_vars, Sure'
    PROVE  CopyDone'
<1>0. TypeInv /\ cmd = "copy"
      BY CopyTypes
<1>1. CASE TrackDeletion \/ DeleteRest \/ Erase \/ Emit \/ OpenFile \/ NoMoreFiles
           \/ EndOfFile \/ SkipMessage \/ LoadMessage
  <2>1. cmd \in {"move", "delete", "load"} \cup Readers
        BY <1>0, <1>1, TrackDeletionFacts, DeleteRestFacts, EraseFacts, EmitFacts, OpenFileFacts,
           ReadFacts, LoadMessageFacts DEF TypeInv, Phase
  <2> QED  BY <1>0, <2>1 DEF Readers
<1>2. CASE Step
      BY <1>1, <1>2, CopyDoneStart, CopyDoneFetch, CopyDoneFlush, CopyDoneMessage,
         CopyDoneIdentFails, CopyDoneFinish, Zenon DEF Step
<1> QED  BY <1>2, CopyDoneSame, CopyDoneResume, CopyDoneArrive, Zenon DEF Next

\* An empty batch of a copy: nothing is left past the rank gone through.
LEMMA CopyOverStep ==
    ASSUME CopyingDone, Over => Within(Reached), [Next]_vars, Over'
    PROVE  Within(Reached)'
<1>0. /\ TypeInv /\ cmd = "copy" /\ CopyDone /\ CopyBound /\ Sourced /\ ept > 0
      /\ Reached \in Nat /\ Passed \in Nat /\ Known' = Known /\ opt.offset \in Nat
      /\ opt.limit \in Int /\ limit_copy \in Int /\ cur_count \in Nat /\ origin \in Nat
      /\ ret \in {0, -1} /\ (ret < 0 => pc \in {"end", "done", "rest", "item"})
  <2>1. Next \/ UNCHANGED vars
        OBVIOUS
  <2> QED  BY <2>1, CopyTypes, SameRun
<1>1. CASE Over /\ opt' = opt /\ cur_count' \in Nat /\ cur_count' >= cur_count
  <2>1. Within(Reached) /\ Reached' >= Reached /\ Reached' \in Nat
        BY <1>0, <1>1 DEF Reached
  <2>2. \A m \in Known : Rank(m, Matching) \in Nat
        BY <1>0, KnownFacts
  <2>3. \A m \in Known : Rank(m, Matching) <= Reached'
        BY <1>0, <2>1, <2>2 DEF Within
  <2> QED  BY <1>0, <2>3 DEF Within
<1>2. CASE Fetch /\ Batch = <<>>
  <2>1. pc = "fetch" /\ cur_count' = cur_count /\ opt' = opt /\ ret >= 0
        BY <1>0, <1>2, FetchFacts DEF SameCommand
  <2>2. Reached' = Reached
        BY <2>1 DEF Reached
  <2>3. Passed = Reached
    <3>1. Due = 0 /\ event_no = 0
          BY <1>0, <2>1 DEF Due, CopyBound
    <3>2. Passed = Reached + 0 + 0
          BY <3>1 DEF Passed
    <3> QED  BY <1>0, <3>2
  <2>4. Within(Reached)
    <3>1. CASE limit_copy # 0
          BY <1>0, <1>2, <3>1, NothingFurther
    <3>2. CASE limit_copy = 0
      <4>1. opt.limit >= 0
            BY <1>0, <3>2 DEF CopyingDone, DoneBase, Offsets
      <4>2. Passed = origin + Room /\ Pending = 0
            BY <1>0, <2>1, <4>1 DEF CopyDone, Pending
      <4>3. Room = opt.limit - 0 - 0
            BY <3>2, <4>2 DEF Room
      <4>4. Reached = origin + opt.limit
            BY <1>0, <2>3, <4>2, <4>3
      <4>5. \A m \in Known : Rank(m, Matching) <= origin + opt.limit
            BY <1>0, <4>1, KnownFacts
      <4> QED  BY <4>4, <4>5 DEF Within
    <3> QED  BY <3>1, <3>2
  <2> QED  BY <1>0, <2>2, <2>4 DEF Within
<1>3. CASE NoMoreFiles
      BY <1>0, <1>3, ReadFacts
<1> QED  BY <1>0, <1>1, <1>2, <1>3, OverStep

(***************************************************************************)
(* A save or a print.  Up to the rank gone through, every message has been  *)
(* written or missed; a save does not count what it misses and fetches it   *)
(* again, a print stops there.                                              *)
(***************************************************************************)
Seen == ToSet(output) \cup missed
BatchFrom(base) ==
    /\ InPlaces(idents, 1, base, arrived)
    /\ Reached <= base + (ident_idx - 1)
    /\ cmd = "print" => Reached = base + (ident_idx - 1)
    /\ Through(Seen, base + (ident_idx - 1))
Printed ==
    /\ missed = {} /\ InPlaces(output, 1, origin, arrived) /\ Reached = origin + Len(output)
    /\ opt.limit >= 0 /\ pc \notin {"end", "done"} => Reached = origin + Room
ReadDone ==
    /\ Through(Seen, Reached)
    /\ pc = "item" => \E base \in Nat : BatchFrom(base)
    /\ cmd = "print" => Printed
ReadingDone == DoneBase /\ Sourced /\ cmd \in Readers /\ ReadDone

LEMMA ReadTypes ==
    ASSUME ReadingDone
    PROVE  /\ TypeInv /\ Listed /\ ReadDone /\ ept > 0 /\ Sourced
           /\ cmd \notin {"copy", "move", "delete", "load"} /\ cmd \in Readers
           /\ (opt.limit >= 0 => CountedNow)
           /\ Reached \in Nat /\ Room \in Int /\ ident_idx \in Nat /\ ident_idx >= 1
           /\ opt.offset \in Nat /\ cur_count \in Nat /\ arrived \in Nat
           /\ opt.limit \in Int /\ limit_copy \in Int /\ Len(idents) \in Nat
           /\ idents \in Seq(Msgs) /\ origin \in Nat /\ output \in Seq(Msgs) /\ Len(output) \in Nat
           /\ missed \subseteq Msgs
<1>1. TypeInv /\ Listed /\ Counted /\ cmd \in Readers /\ ept > 0 /\ ReadDone /\ Sourced
      BY DEF ReadingDone, DoneBase, OrderBase, BoundedInv, Offsets
<1>2. cmd \notin {"copy", "move", "delete", "load"} /\ (opt.limit >= 0 => CountedNow)
      BY <1>1 DEF Readers, Counted, Counting
<1>3. missed \subseteq Msgs /\ output \in Seq(Msgs)
      BY <1>1 DEF TypeInv, TypeOK
<1> QED  BY <1>1, <1>2, <1>3, OrderTypes, CountTypes, Numbers

\* A step that writes nothing.
LEMMA ReadDoneKept ==
    ASSUME ReadingDone, [Next]_vars, output' = output, missed' = missed,
           arrived' \in Nat, arrived <= arrived', Reached' = Reached,
           pc' = "item" => \E base \in Nat : BatchFrom(base)',
           cmd = "print" /\ opt.limit >= 0 /\ pc' \notin {"end", "done"} =>
               Room' = Room /\ pc \notin {"end", "done"}
    PROVE  ReadDone'
<1>0. /\ TypeInv /\ ReadDone /\ arrived \in Nat
      BY ReadTypes
<1>1. Known' = Known /\ origin' = origin /\ cmd' = cmd /\ opt'.limit = opt.limit
      BY <1>0, SameRun
<1>2. Through(Seen, Reached)'
  <2>1. Through(Seen, Reached) /\ Seen' = Seen
        BY <1>0 DEF ReadDone, Seen
  <2> QED  BY <1>1, <2>1 DEF Through
<1>3. ASSUME cmd = "print" PROVE Printed'
  <2>1. Printed
        BY <1>0, <1>3 DEF ReadDone
  <2>2. InPlaces(output, 1, origin, arrived')
        BY <1>0, <2>1, PlacesGrow DEF Printed
  <2> QED  BY <1>1, <1>3, <2>1, <2>2 DEF Printed
<1> QED  BY <1>1, <1>2, <1>3 DEF ReadDone

LEMMA WritesNothing ==
    ASSUME TypeInv,
           Start \/ Fetch \/ Finish \/ Resume \/ Signal \/ Arrive \/ UNCHANGED vars
    PROVE  output' = output /\ missed' = missed
<1>1. CASE Start
      BY <1>1, Zenon DEF Start, outVars
<1>2. CASE Fetch
      BY <1>2, Zenon DEF Fetch, outVars
<1>3. CASE Finish
      BY <1>3, Zenon DEF Finish, outVars
<1>4. CASE Resume
      BY <1>4, Zenon DEF Resume, outVars
<1>5. CASE Signal \/ Arrive
      BY <1>5, Zenon DEF Signal, Arrive, outVars
<1>6. CASE UNCHANGED vars
      BY <1>6, Zenon DEF vars, outVars
<1> QED  BY <1>1, <1>2, <1>3, <1>4, <1>5, <1>6

LEMMA ReadDoneStart ==
    ASSUME ReadingDone, Start
    PROVE  ReadDone'
<1>0. TypeInv /\ cmd \notin {"load"} /\ arrived \in Nat
      BY ReadTypes
<1>1. /\ pc = "start" /\ pc' = "fetch" /\ SameCommand
      /\ cur_count' = cur_count /\ limit_copy' = limit_copy
      BY <1>0, StartFacts
<1>2. opt' = opt /\ arrived' = arrived /\ Pending = 0 /\ Pending' = 0
      BY <1>1 DEF SameCommand, Pending
<1>3. Reached' = Reached /\ Room' = Room
      BY <1>1, <1>2 DEF Reached, Room
<1>4. [Next]_vars /\ output' = output /\ missed' = missed
      BY <1>0, WritesNothing DEF Next, Step
<1> QED  BY <1>0, <1>1, <1>2, <1>3, <1>4, ReadDoneKept

LEMMA ReadDoneFetch ==
    ASSUME ReadingDone, Fetch
    PROVE  ReadDone'
<1>0. /\ TypeInv /\ ReadDone /\ Sourced /\ cmd \notin {"move", "delete", "load"}
      /\ (opt.limit >= 0 => CountedNow) /\ arrived \in Nat /\ Reached \in Nat
      /\ limit_copy \in Int /\ opt.limit \in Int
      BY ReadTypes
<1>1. /\ pc = "fetch" /\ SameCommand /\ cur_count' = cur_count
      /\ pc' \in {"item", "end"}
      /\ pc' = "item" => /\ Batch # <<>> /\ idents' = Batch /\ ident_idx' = 1
                         /\ limit_copy' = IF limit_copy > 0 THEN limit_copy - Len(Batch)
                                                             ELSE limit_copy
      BY <1>0, FetchFacts
<1>2. opt' = opt /\ arrived' = arrived /\ cmd' = cmd /\ Pending = 0
      BY <1>1, SameParts DEF SameCommand, Pending
<1>3. Reached' = Reached
      BY <1>1, <1>2 DEF Reached
<1>4. [Next]_vars /\ output' = output /\ missed' = missed
      BY <1>0, WritesNothing DEF Next, Step
<1>5. ASSUME pc' = "item" PROVE \E base \in Nat : BatchFrom(base)'
  <2>1. InPlaces(Batch, 1, Reached, arrived)
        BY <1>0, RankedBatch
  <2>2. Reached + (1 - 1) = Reached
        BY <1>0
  <2>3. Through(Seen, Reached) /\ Seen' = Seen /\ Known' = Known
        BY <1>0, <1>4, SameRun DEF ReadDone, Seen
  <2>4. Through(Seen, Reached)'
        BY <1>3, <2>3 DEF Through
  <2>5. idents' = Batch /\ ident_idx' = 1
        BY <1>1, <1>5
  <2>6. BatchFrom(Reached)'
    <3>1. InPlaces(idents', 1, Reached', arrived')
          BY <1>2, <1>3, <2>1, <2>5
    <3>2. Reached' + (ident_idx' - 1) = Reached'
          BY <1>3, <2>2, <2>5
    <3> QED  BY <1>0, <1>3, <2>4, <3>1, <3>2 DEF BatchFrom
  <2>7. \E base \in Nat : /\ InPlaces(idents', 1, base, arrived')
                          /\ Reached' <= base + (ident_idx' - 1)
                          /\ cmd' = "print" => Reached' = base + (ident_idx' - 1)
                          /\ \A m \in Known' : Rank(m, Matching) <= base + (ident_idx' - 1)
                                                   => m \in Seen'
        BY <1>0, <1>3, <2>6 DEF BatchFrom, Through
  <2> QED  BY <2>7 DEF BatchFrom, Through
<1>6. ASSUME opt.limit >= 0, pc' = "item" PROVE Room' = Room
      BY <1>0, <1>6, FetchedRoom
<1> QED  BY <1>0, <1>1, <1>2, <1>3, <1>4, <1>5, <1>6, ReadDoneKept

LEMMA ReadDoneEmit ==
    ASSUME ReadingDone, Emit
    PROVE  ReadDone'
<1>0. /\ TypeInv /\ ReadDone /\ cmd \notin {"move", "delete", "load"} /\ arrived \in Nat
      /\ Reached \in Nat /\ ident_idx \in Nat /\ ident_idx >= 1 /\ origin \in Nat
      /\ Len(idents) \in Nat /\ Room \in Int /\ opt.offset \in Nat /\ cur_count \in Nat
      /\ output \in Seq(Msgs) /\ Len(output) \in Nat /\ missed \subseteq Msgs
      /\ Known' = Known
  <2>1. Next
        BY DEF Next, Step
  <2> QED  BY <2>1, ReadTypes, SameRun
<1> DEFINE m == idents[ident_idx]
<1>1. /\ pc = "item" /\ SameCommand /\ limit_copy' = limit_copy /\ idents' = idents
      BY <1>0, EmitFacts
<1>2. opt' = opt /\ arrived' = arrived /\ cmd' = cmd /\ origin' = origin
      BY <1>1, SameParts DEF SameCommand
<1>3. ASSUME pc' \in {"fetch", "end"}, UNCHANGED <<output, missed, cur_count>>,
             pc' = "fetch" => ident_idx > Len(idents)
      PROVE  ReadDone'
  <2>1. Reached' = Reached
        BY <1>2, <1>3 DEF Reached
  <2>2. pc' = "fetch" => Room' = Room
    <3> SUFFICES ASSUME pc' = "fetch" PROVE Room' = Room
        OBVIOUS
    <3>1. ident_idx = Len(idents) + 1
          BY <1>0, <1>3, Numbers
    <3>2. Pending = 0 /\ Pending' = 0
          BY <1>0, <1>1, <3>1 DEF Pending
    <3> QED  BY <1>1, <1>2, <3>2 DEF Room
  <2> QED  BY <1>0, <1>1, <1>2, <1>3, <2>1, <2>2, ReadDoneKept DEF Next, Step
<1>4. ASSUME pc' = "item", ident_idx <= Len(idents), m \in Msgs, ident_idx' = ident_idx + 1,
             \/ /\ output' = Append(output, m) /\ cur_count' = cur_count + 1 /\ missed' = missed
             \/ /\ cmd = "save" /\ missed' = missed \cup {m} /\ UNCHANGED <<output, cur_count>>
      PROVE  ReadDone'
  <2>1. PICK base \in Nat : BatchFrom(base)
        BY <1>0, <1>1 DEF ReadDone
  <2>2. /\ InPlaces(idents, 1, base, arrived)
        /\ Reached <= base + (ident_idx - 1)
        /\ cmd = "print" => Reached = base + (ident_idx - 1)
        /\ Through(Seen, base + (ident_idx - 1))
        BY <2>1 DEF BatchFrom
  <2>3. InPlace(m, base + ident_idx, arrived) /\ m \in Msgs \cap Matching
    <3>1. InPlaces(idents, ident_idx, base, arrived)
          BY <1>0, <2>2 DEF InPlaces
    <3> QED  BY <1>0, <1>4, <3>1, NextInPlace
  <2>4. Seen \subseteq Seen' /\ m \in Seen'
    <3>1. ToSet(Append(output, m)) = ToSet(output) \cup {m}
          BY <1>0, <1>4, ToSetAppend
    <3> QED  BY <1>4, <3>1 DEF Seen
  <2>5. Through(Seen', base + ident_idx)
    <3>1. base + (ident_idx - 1) \in Int /\ base + (ident_idx - 1) + 1 = base + ident_idx
          BY <1>0
    <3>2. Rank(m, Matching) = base + (ident_idx - 1) + 1
          BY <2>3, <3>1 DEF InPlace
    <3>3. Through(Seen', base + (ident_idx - 1) + 1)
          BY <1>0, <2>2, <2>3, <2>4, <3>1, <3>2, OneFurther
    <3> QED  BY <3>1, <3>3
  <2>6. /\ Reached' \in Nat /\ Reached' <= base + ident_idx
        /\ cmd = "print" => Reached' = base + ident_idx /\ Reached' = Reached + 1
    <3>1. CASE cur_count' = cur_count + 1
      <4>1. Reached' = Reached + 1
        <5>1. Reached' = opt.offset + (cur_count + 1)
              BY <1>2, <3>1 DEF Reached
        <5>2. Reached = opt.offset + cur_count /\ opt.offset \in Nat /\ cur_count \in Nat
              BY <1>0 DEF Reached
        <5> QED  BY <5>1, <5>2
      <4>2. base + (ident_idx - 1) + 1 = base + ident_idx /\ base + (ident_idx - 1) \in Int
            BY <1>0
      <4>3. /\ Reached \in Nat /\ Reached <= base + (ident_idx - 1)
            /\ cmd = "print" => Reached = base + (ident_idx - 1)
            BY <1>0, <2>2
      <4> QED  BY <4>1, <4>2, <4>3
    <3>2. CASE cmd = "save" /\ cur_count' = cur_count
      <4>1. Reached' = Reached
            BY <1>2, <3>2 DEF Reached
      <4> QED  BY <1>0, <2>2, <3>2, <4>1
    <3> QED  BY <1>4, <3>1, <3>2
  <2>7. ident_idx' - 1 = ident_idx
        BY <1>0, <1>4
  <2>8. BatchFrom(base)'
    <3>1. InPlaces(idents', 1, base, arrived')
          BY <1>1, <1>2, <2>2
    <3>2. \A k \in Known' : Rank(k, Matching) <= base + (ident_idx' - 1) => k \in Seen'
          BY <1>0, <2>5, <2>7 DEF Through
    <3> QED  BY <1>2, <2>6, <2>7, <3>1, <3>2 DEF BatchFrom, Through
  <2>9. Through(Seen, Reached)'
    <3>1. Through(Seen', Reached')
          BY <1>0, <2>5, <2>6, NoFurther
    <3> QED  BY <1>0, <3>1 DEF Through
  <2>10. ASSUME cmd = "print" PROVE Printed'
    <3>1. /\ missed = {} /\ InPlaces(output, 1, origin, arrived) /\ Reached = origin + Len(output)
          /\ opt.limit >= 0 => Reached = origin + Room
          BY <1>0, <1>1, <2>10 DEF ReadDone, Printed
    <3>2. output' = Append(output, m) /\ missed' = missed
          BY <1>4, <2>10
    <3>3. base + ident_idx = origin + (Len(output) + 1)
          BY <1>0, <2>2, <2>10, <3>1
    <3>4. InPlaces(output', 1, origin, arrived)
          BY <1>0, <1>4, <2>3, <3>1, <3>2, <3>3, PlacesAppend
    <3>5. Len(output') = Len(output) + 1
          BY <1>0, <1>4, <3>2
    <3>6. Room' = Room + 1
          BY <1>0, <1>1, <1>2, <1>4, OneMoreRoom
    <3>7. Reached' = origin + Len(output')
          BY <1>0, <2>6, <2>10, <3>3, <3>5
    <3>8. opt.limit >= 0 => Reached' = origin + Room'
          BY <1>0, <2>6, <2>10, <3>1, <3>6
    <3> QED  BY <1>2, <3>1, <3>2, <3>4, <3>7, <3>8 DEF Printed
  <2>11. \E b \in Nat : BatchFrom(b)'
         BY <2>8
  <2> QED  BY <1>2, <2>9, <2>10, <2>11, Zenon DEF ReadDone
<1>5. CASE stop_processing \/ ident_idx > Len(idents)
  <2>1. \/ /\ pc' = (IF stop_processing THEN "end" ELSE "fetch")
           /\ UNCHANGED <<output, missed, cur_count>>
        \/ /\ pc' = "end" /\ UNCHANGED <<output, missed, cur_count>>
        \/ ident_idx <= Len(idents) /\ ~(ident_idx > Len(idents)) /\ stop_processing
        BY <1>0, <1>5, EmitMore
  <2> QED  BY <1>0, <1>3, <1>4, <1>5, EmitMore
<1>6. CASE ~(stop_processing \/ ident_idx > Len(idents))
      BY <1>0, <1>3, <1>4, <1>6, EmitMore
<1> QED  BY <1>5, <1>6

LEMMA ReadDoneIdentFails ==
    ASSUME ReadingDone, IdentFails
    PROVE  ReadDone'
<1>0. TypeInv /\ cmd \in Readers /\ cmd \notin {"copy", "move"} /\ arrived \in Nat
      BY ReadTypes
<1>1. /\ SameCommand /\ cur_count' = cur_count /\ output' = output /\ missed' = missed
      /\ pc' \in {"fetch", "end"} /\ (pc' = "fetch" => cmd = "save")
      BY <1>0, IdentFailsFacts
<1>2. opt' = opt /\ arrived' = arrived
      BY <1>1 DEF SameCommand
<1>3. Reached' = Reached
      BY <1>1, <1>2 DEF Reached
<1> QED  BY <1>0, <1>1, <1>2, <1>3, ReadDoneKept DEF Next, Step

LEMMA ReadDoneRest ==
    ASSUME ReadingDone, Finish \/ Resume \/ Signal \/ Arrive \/ UNCHANGED vars
    PROVE  ReadDone'
<1>0. /\ TypeInv /\ ReadDone /\ cmd \in Readers /\ arrived \in Nat
      /\ opt.limit \in Int /\ Reached \in Nat /\ opt.offset \in Nat /\ cur_count \in Nat
      BY ReadTypes
<1>1. [Next]_vars /\ output' = output /\ missed' = missed
      BY <1>0, WritesNothing DEF Next, Step
<1>2. CASE Finish
  <2>1. pc' = "done" /\ opt' = opt /\ arrived' = arrived
        BY <1>0, <1>2, FinishFacts DEF SameCommand
  <2>2. cur_count' = cur_count
        BY <1>0, <1>2 DEF Finish
  <2>3. Reached' = Reached
        BY <2>1, <2>2 DEF Reached
  <2> QED  BY <1>0, <1>1, <2>1, <2>3, ReadDoneKept
<1>3. CASE Resume
  <2>1. /\ pc' = "start" /\ opt.limit < 0 /\ arrived' = arrived
        /\ opt'.offset = opt.offset + cur_count /\ cur_count' = 0
        BY <1>0, <1>3, ResumeFacts
  <2>2. Reached' = Reached
    <3>1. Reached' = (opt.offset + cur_count) + 0
          BY <2>1 DEF Reached
    <3> QED  BY <1>0, <3>1 DEF Reached
  <2> QED  BY <1>0, <1>1, <2>1, <2>2, ReadDoneKept
<1>4. CASE Signal \/ Arrive \/ UNCHANGED vars
  <2>1. /\ UNCHANGED <<opt, pc, limit_copy, cur_count, idents, ident_idx>>
        /\ arrived' \in Nat /\ arrived <= arrived'
    <3>1. CASE UNCHANGED vars
      <4>1. /\ UNCHANGED <<opt, pc, limit_copy, cur_count, idents, ident_idx>>
            /\ arrived' = arrived
            BY <3>1, Zenon DEF vars, countVars, batchVars, envVars
      <4> QED  BY <1>0, <4>1
    <3>2. CASE Signal
      <4>1. /\ UNCHANGED <<opt, pc, limit_copy, cur_count, idents, ident_idx>>
            /\ arrived' = arrived
            BY <1>0, <3>2, SignalFacts
      <4> QED  BY <1>0, <4>1
    <3>3. CASE Arrive
      <4>1. /\ UNCHANGED <<opt, pc, limit_copy, cur_count, idents, ident_idx>>
            /\ arrived' = arrived + 1
            BY <1>0, <3>3, ArriveFacts
      <4> QED  BY <1>0, <4>1
    <3> QED  BY <1>4, <3>1, <3>2, <3>3
  <2>2. /\ opt' = opt /\ pc' = pc /\ limit_copy' = limit_copy /\ cur_count' = cur_count
        /\ idents' = idents /\ ident_idx' = ident_idx /\ cmd' = cmd
        BY <2>1 DEF cmd
  <2>3. Pending' = Pending /\ Reached' = Reached
        BY <2>2 DEF Pending, Reached
  <2>4. Room' = Room
        BY <2>2, <2>3 DEF Room
  <2>5. ASSUME pc' = "item" PROVE \E base \in Nat : BatchFrom(base)'
    <3>1. PICK base \in Nat : BatchFrom(base)
          BY <1>0, <2>2, <2>5 DEF ReadDone
    <3>2. InPlaces(idents, 1, base, arrived')
          BY <1>0, <2>1, <3>1, PlacesGrow DEF BatchFrom
    <3>3. Seen' = Seen /\ Known' = Known
          BY <1>0, <1>1, SameRun DEF Seen
    <3>4. BatchFrom(base)'
          BY <2>2, <2>3, <3>1, <3>2, <3>3 DEF BatchFrom, Through
    <3> QED  BY <3>4
  <2> QED  BY <1>0, <1>1, <2>1, <2>2, <2>3, <2>4, <2>5, ReadDoneKept DEF ReadDone, Printed
<1> QED  BY <1>2, <1>3, <1>4

LEMMA ReadDoneStep ==
    ASSUME ReadingDone, [Next]_vars
    PROVE  ReadDone'
<1>0. TypeInv /\ cmd \in Readers
      BY ReadTypes
<1>1. CASE Flush \/ CopyMessage \/ TrackDeletion \/ EndOfBatch \/ DeleteRest \/ Erase
           \/ OpenFile \/ NoMoreFiles \/ EndOfFile \/ SkipMessage \/ LoadMessage
  <2>1. cmd \in {"move", "delete", "load", "copy"} \/ cmd \notin Readers
        BY <1>0, <1>1, FlushActionFacts, CopyMessageFacts, TrackDeletionFacts, EndOfBatchFacts,
           DeleteRestFacts, EraseFacts, OpenFileFacts, ReadFacts, LoadMessageFacts
           DEF TypeInv, Phase
  <2> QED  BY <1>0, <2>1 DEF Readers
<1>2. CASE Step
      BY <1>1, <1>2, ReadDoneStart, ReadDoneFetch, ReadDoneEmit, ReadDoneIdentFails,
         ReadDoneRest, Zenon DEF Step
<1> QED  BY <1>2, ReadDoneRest, Zenon DEF Next

LEMMA ReadOverStep ==
    ASSUME ReadingDone, opt.limit < 0 \/ cmd = "print", Over => Within(Reached), [Next]_vars, Over'
    PROVE  Within(Reached)'
<1>0. /\ TypeInv /\ cmd \notin {"move", "delete", "load"} /\ ReadDone /\ Sourced /\ ept > 0
      /\ Reached \in Nat /\ Known' = Known /\ opt.offset \in Nat
      /\ opt.limit \in Int /\ limit_copy \in Int /\ cur_count \in Nat /\ origin \in Nat
  <2>1. Next \/ UNCHANGED vars
        OBVIOUS
  <2> QED  BY <2>1, ReadTypes, SameRun
<1>1. CASE Over /\ opt' = opt /\ cur_count' \in Nat /\ cur_count' >= cur_count
  <2>1. Within(Reached) /\ Reached' >= Reached /\ Reached' \in Nat
        BY <1>0, <1>1 DEF Reached
  <2>2. \A m \in Known : Rank(m, Matching) \in Nat
        BY <1>0, KnownFacts
  <2>3. \A m \in Known : Rank(m, Matching) <= Reached'
        BY <1>0, <2>1, <2>2 DEF Within
  <2> QED  BY <1>0, <2>3 DEF Within
<1>2. CASE Fetch /\ Batch = <<>>
  <2>1. pc = "fetch" /\ cur_count' = cur_count /\ opt' = opt
        BY <1>0, <1>2, FetchFacts DEF SameCommand
  <2>2. Reached' = Reached
        BY <2>1 DEF Reached
  <2>4. Within(Reached)
    <3>1. CASE limit_copy # 0
          BY <1>0, <1>2, <3>1, NothingFurther
    <3>2. CASE limit_copy = 0
      <4>1. opt.limit >= 0
            BY <1>0, <3>2 DEF ReadingDone, DoneBase, Offsets
      <4>2. cmd = "print"
            BY <1>0, <4>1
      <4>3. Reached = origin + Room /\ Pending = 0
            BY <1>0, <2>1, <4>1, <4>2 DEF ReadDone, Printed, Pending
      <4>4. Room = opt.limit - 0 - 0
            BY <3>2, <4>3 DEF Room
      <4>5. Reached = origin + opt.limit
            BY <1>0, <4>3, <4>4
      <4>6. \A m \in Known : Rank(m, Matching) <= origin + opt.limit
            BY <1>0, <4>1, KnownFacts
      <4> QED  BY <4>5, <4>6 DEF Within
    <3> QED  BY <3>1, <3>2
  <2> QED  BY <1>0, <2>2, <2>4 DEF Within
<1>3. CASE NoMoreFiles
      BY <1>0, <1>3, ReadFacts
<1> QED  BY <1>0, <1>1, <1>2, <1>3, OverStep

(***************************************************************************)
(* A move or a deletion.  What has been taken out of the source is what     *)
(* --count has let through, and the batch in hand has not been taken yet.   *)
(***************************************************************************)
\* The size of a set of the first messages and of its subsets.
LEMMA PartSize ==
    ASSUME NEW n \in Nat, NEW S \in SUBSET (1..n), NEW T \in SUBSET S
    PROVE  /\ IsFiniteSet(S) /\ Cardinality(S) \in Nat
           /\ IsFiniteSet(T) /\ Cardinality(T) \in Nat /\ Cardinality(T) <= Cardinality(S)
           /\ \A x \in S \ T : Cardinality(T) + 1 <= Cardinality(S)
<1>1. IsFiniteSet(1..n)
      BY FS_Interval
<1>2. IsFiniteSet(S) /\ Cardinality(S) \in Nat
      BY <1>1, FS_Subset, FS_CardinalityType
<1>3. IsFiniteSet(T) /\ Cardinality(T) \in Nat /\ Cardinality(T) <= Cardinality(S)
      BY <1>2, FS_Subset, FS_CardinalityType
<1>4. ASSUME NEW x \in S \ T PROVE Cardinality(T) + 1 <= Cardinality(S)
  <2>1. IsFiniteSet(T \cup {x}) /\ Cardinality(T \cup {x}) = Cardinality(T) + 1
        BY <1>3, <1>4, FS_AddElement
  <2>2. T \cup {x} \in SUBSET S
        BY <1>4
  <2>3. Cardinality(T \cup {x}) <= Cardinality(S)
        BY <1>2, <2>2, FS_Subset
  <2> QED  BY <2>1, <2>3
<1> QED  BY <1>2, <1>3, <1>4

\* An ordered list names as many messages as it is long.
LEMMA OrderedSize ==
    ASSUME NEW s \in Seq(Msgs), Ordered(s)
    PROVE  Cardinality(ToSet(s)) = Len(s)
<1>1. IsFiniteSet(ToSet(s)) /\ Cardinality(ToSet(s)) \in Nat /\ Cardinality(ToSet(s)) <= Len(s)
      BY ToSetBound
<1>2. Len(s) \in Nat /\ \A i \in 1..Len(s) : s[i] \in Msgs /\ s[i] \in Nat
  <2>1. \A m \in Msgs : m \in Nat
        BY MessagesAssumption DEF Msgs
  <2>2. Len(s) \in Nat /\ \A i \in 1..Len(s) : s[i] \in Msgs
        OBVIOUS
  <2> QED  BY <2>1, <2>2, Zenon
<1>3. s \in [1..Len(s) -> ToSet(s)]
      BY DEF ToSet
<1>4. \A i, j \in 1..Len(s) : s[i] = s[j] => i = j
  <2> SUFFICES ASSUME NEW i \in 1..Len(s), NEW j \in 1..Len(s), i # j PROVE s[i] # s[j]
      OBVIOUS
  <2>1. i < j \/ j < i
        BY <1>2
  <2> QED  BY <1>2, <2>1 DEF Ordered
<1>5. s \in Injection(1..Len(s), ToSet(s))
      BY <1>3, <1>4 DEF Injection, IsInjective
<1>6. Cardinality(1..Len(s)) <= Cardinality(ToSet(s))
      BY <1>1, <1>5, FS_Injection
<1>7. Cardinality(1..Len(s)) = Len(s)
      BY <1>2, FS_Interval
<1> QED  BY <1>1, <1>2, <1>6, <1>7

LEMMA BatchOrdered ==
    ASSUME TypeInv, KeepingNow
    PROVE  /\ Ordered(Batch) /\ Batch \in Seq(Msgs) /\ Len(Batch) \in Nat
           /\ ToSet(Batch) \subseteq ToSet(src.now.msgs) /\ ToSet(Batch) \subseteq 1..arrived
<1>1. /\ Batch \in Seq(Msgs) /\ Len(Batch) \in Nat /\ FetchOffset \in Nat
      /\ ToSet(Batch) \subseteq ToSet(src.now.msgs)
      BY BatchType DEF src
<1>2. /\ Ordered(src.now.msgs) /\ src.now.msgs \in Seq(Msgs)
      /\ ToSet(src.now.msgs) \subseteq 1..arrived
      BY SrcFields DEF KeepingNow, Remains
<1>3. Ordered(Selected(src.now.msgs))
      BY <1>2, PickedPlaces DEF Selected
<1>4. Ordered(Batch)
  <2> SUFFICES ASSUME NEW i \in 1..Len(Batch), NEW j \in 1..Len(Batch), i < j
               PROVE  Batch[i] < Batch[j]
      BY DEF Ordered
  <2>1. /\ FetchOffset + i \in 1..Len(Selected(src.now.msgs))
        /\ FetchOffset + j \in 1..Len(Selected(src.now.msgs))
        /\ Batch[i] = Selected(src.now.msgs)[FetchOffset + i]
        /\ Batch[j] = Selected(src.now.msgs)[FetchOffset + j]
        BY BatchPlaces
  <2>2. FetchOffset + i < FetchOffset + j
        BY <1>1
  <2> QED  BY <1>3, <2>1, <2>2 DEF Ordered
<1> QED  BY <1>1, <1>2, <1>4

\* The messages before --offset stay: with one more, the source has more of
\* those --criteria selects than --offset skips.
LEMMA MoreThanSkipped ==
    ASSUME TypeInv, KeepingNow, NEW m \in Known, m \in ToSet(src.now.msgs)
    PROVE  Len(Selected(src.now.msgs)) > origin
<1> DEFINE all == Selected(src.now.msgs)
           q == Picked(FirstMsgs(arrived), Matching)
           f == [i \in 1..(origin + 1) |-> IF i <= origin THEN q[i] ELSE m]
<1>1. /\ m \in Matching /\ m \in 1..arrived /\ Rank(m, Matching) \in Nat
      /\ origin < Rank(m, Matching) /\ arrived \in 0..MaxMsgs /\ origin \in Nat
      BY KnownFacts, OrderTypes
<1>2. /\ all \in Seq(Msgs) /\ ToSet(all) = ToSet(src.now.msgs) \cap Matching
      BY SrcFields, PickedMembers DEF Selected
<1>3. IsFiniteSet(ToSet(all)) /\ Cardinality(ToSet(all)) \in Nat
      /\ Cardinality(ToSet(all)) <= Len(all)
      BY <1>2, ToSetBound
<1>4. Rank(m, Matching) \in 1..Len(q) /\ Len(q) \in Nat
  <2>1. Rank(m, Matching) \in 1..Len(q)
        BY <1>1, RankIsPlace
  <2>2. q \in Seq(Msgs)
        BY <1>1, FirstMsgsSeq, PickedMembers
  <2> QED  BY <2>1, <2>2
<1>5. \A i \in 1..origin : q[i] \in Matching \cap (1..arrived) /\ Rank(q[i], Matching) = i
  <2> SUFFICES ASSUME NEW i \in 1..origin
               PROVE  q[i] \in Matching \cap (1..arrived) /\ Rank(q[i], Matching) = i
      OBVIOUS
  <2>1. i \in 1..Len(q)
        BY <1>1, <1>4
  <2> QED  BY <1>1, <2>1, FirstRanks
<1> HIDE DEF q
<1>6. \A i \in 1..origin : q[i] \in ToSet(src.now.msgs)
  <2> SUFFICES ASSUME NEW i \in 1..origin PROVE q[i] \in ToSet(src.now.msgs)
      OBVIOUS
  <2>1. q[i] \notin Asked
    <3>1. Rank(q[i], Matching) = i /\ i <= origin
          BY <1>1, <1>5
    <3> QED  BY <1>1, <3>1 DEF Asked
  <2> QED  BY <1>5, <2>1 DEF KeepingNow, Remains
<1> HIDE DEF all
<1>7. f \in [1..(origin + 1) -> ToSet(all)]
      BY <1>1, <1>2, <1>5, <1>6
<1>8. \A i \in 1..(origin + 1) :
          IF i <= origin THEN Rank(f[i], Matching) = i ELSE Rank(f[i], Matching) > origin
      BY <1>1, <1>5
<1> HIDE DEF f
<1>9. \A i, j \in 1..(origin + 1) : f[i] = f[j] => i = j
  <2> SUFFICES ASSUME NEW i \in 1..(origin + 1), NEW j \in 1..(origin + 1), f[i] = f[j]
               PROVE  i = j
      OBVIOUS
  <2>1. i <= origin <=> j <= origin
    <3>1. /\ IF i <= origin THEN Rank(f[i], Matching) = i ELSE Rank(f[i], Matching) > origin
          /\ IF j <= origin THEN Rank(f[i], Matching) = j ELSE Rank(f[i], Matching) > origin
          BY <1>8
    <3> QED  BY <1>1, <3>1
  <2>2. CASE i <= origin
        BY <1>8, <2>1, <2>2
  <2>3. CASE ~(i <= origin)
        BY <1>1, <2>1, <2>3
  <2> QED  BY <2>2, <2>3
<1>10. f \in Injection(1..(origin + 1), ToSet(all))
       BY <1>7, <1>9 DEF Injection, IsInjective
<1>11. Cardinality(1..(origin + 1)) <= Cardinality(ToSet(all))
       BY <1>3, <1>10, FS_Injection
<1>12. Cardinality(1..(origin + 1)) = origin + 1
       BY <1>1, FS_Interval
<1>13. Len(all) \in Nat
       BY <1>2
<1>14. Len(all) > origin
       BY <1>1, <1>3, <1>11, <1>12, <1>13
<1> QED  BY <1>14 DEF all

\* With --count, as many messages are asked for as it says: once they are
\* gone, none is left.
LEMMA CountUsedUp ==
    ASSUME TypeInv, opt.limit >= 0, NEW S, S \subseteq Asked, NEW m \in Asked \ S,
           IsFiniteSet(S), Cardinality(S) >= opt.limit
    PROVE  FALSE
<1> DEFINE T == S \cup {m}
           R == (origin + 1)..(origin + opt.limit)
           f == [x \in T |-> Rank(x, Matching)]
<1>1. opt.limit \in Nat /\ origin \in Nat
  <2>1. opt.limit \in Int
        BY Numbers
  <2>2. origin \in Nat
        BY OrderTypes, Zenon
  <2> QED  BY <2>1, <2>2
<1>2. \A x \in T : /\ x \in Msgs /\ x \in Matching /\ x \in 0..MaxMsgs /\ Rank(x, Matching) \in Nat
                   /\ Rank(x, Matching) \in R
  <2>1. \A x \in T : /\ x \in Msgs /\ x \in Matching /\ x \in 0..MaxMsgs
                     /\ origin < Rank(x, Matching) /\ Rank(x, Matching) <= origin + opt.limit
        BY DEF Asked, Msgs
  <2>2. \A x \in T : Rank(x, Matching) \in Nat
        BY <2>1, RankStep
  <2> QED  BY <1>1, <2>1, <2>2
<1>3. \A x, y \in T : Rank(x, Matching) = Rank(y, Matching) => x = y
  <2> SUFFICES ASSUME NEW x \in T, NEW y \in T, Rank(x, Matching) = Rank(y, Matching) PROVE x = y
      OBVIOUS
  <2>1. x \in 1..MaxMsgs \cap Matching /\ y \in 1..MaxMsgs \cap Matching
        BY <1>2 DEF Msgs
  <2> QED  BY <2>1, RankOne
<1>4. IsFiniteSet(T) /\ Cardinality(T) = Cardinality(S) + 1 /\ Cardinality(S) \in Nat
      BY FS_AddElement, FS_CardinalityType
<1> HIDE DEF T
<1>5. f \in Injection(T, R)
      BY <1>2, <1>3 DEF Injection, IsInjective
<1> HIDE DEF f
<1>6. IsFiniteSet(R) /\ Cardinality(R) = opt.limit
  <2>1. origin + 1 \in Int /\ origin + opt.limit \in Int
        BY <1>1
  <2>2. IsFiniteSet(R) /\ Cardinality(R) = IF origin + 1 > origin + opt.limit THEN 0
                                            ELSE (origin + opt.limit) - (origin + 1) + 1
        BY <2>1, FS_Interval, Zenon
  <2> QED  BY <1>1, <2>2
<1> HIDE DEF R
<1>7. Cardinality(T) <= Cardinality(R)
      BY <1>5, <1>6, FS_Injection
<1> QED  BY <1>1, <1>4, <1>6, <1>7

\* An empty batch of a move or a deletion: the source has none of the messages
\* asked for that it had at the start.
LEMMA NothingLeft ==
    ASSUME TypeInv, Listed, Offsets, KeepingNow, cmd \in {"move", "delete"}, opt.offset = origin,
           pc = "fetch", opt.limit >= 0 => Cardinality(Gone(src.now)) >= Room, Batch = <<>>
    PROVE  Known \cap ToSet(src.now.msgs) = {}
<1> SUFFICES ASSUME NEW m \in Known, m \in ToSet(src.now.msgs) PROVE FALSE
    OBVIOUS
<1>1. Len(Selected(src.now.msgs)) > origin
      BY MoreThanSkipped
<1>2. FetchOffset = origin
  <2>1. FetchOffset = opt.offset + 0
        BY DEF FetchOffset
  <2> QED  BY <2>1, OrderTypes
<1>3. limit_copy = 0
  <2>1. Len(Selected(src.now.msgs)) \in Nat /\ origin \in Nat
        BY SrcFields, PickedMembers, OrderTypes DEF Selected
  <2> QED  BY <1>1, <1>2, <2>1, EmptyBatch DEF Offsets
<1>4. opt.limit >= 0 /\ opt.limit \in Int
      BY <1>3, Numbers DEF Offsets
<1>5. Room = opt.limit
  <2>1. Room = opt.limit - 0 - 0
        BY <1>3 DEF Room, Pending
  <2> QED  BY <1>4, <2>1
<1>6. Gone(src.now) = (1..arrived) \ ToSet(src.now.msgs)
      BY EmptySet DEF Gone, Doomed, Listed
<1>7. Gone(src.now) \subseteq Asked /\ m \in Asked \ Gone(src.now)
      BY <1>6, KnownFacts DEF KeepingNow, Remains
<1>8. IsFiniteSet(Gone(src.now))
      BY CountTypes
<1> QED  BY <1>4, <1>5, <1>7, <1>8, CountUsedUp

TakeDone ==
    /\ opt.offset = origin
    /\ Doomed \subseteq 1..arrived
    /\ opt.limit >= 0 /\ pc \notin {"end", "done"} /\ ret >= 0 =>
           Cardinality(Gone(src.now)) >= Room

\* What is gone stays gone, and a message more goes with each room more.
LEMMA GoneGrows ==
    ASSUME arrived' \in Nat, Doomed' \subseteq 1..arrived', Gone(src.now) \subseteq Gone(src.now)',
           Room \in Int, Cardinality(Gone(src.now)) >= Room
    PROVE  /\ Room' = Room => Cardinality(Gone(src.now)') >= Room'
           /\ \A m \in Gone(src.now)' \ Gone(src.now) :
                  Room' = Room + 1 => Cardinality(Gone(src.now)') >= Room'
<1>1. Gone(src.now)' \subseteq 1..arrived'
      BY DEF Gone
<1>2. /\ Cardinality(Gone(src.now)') \in Nat /\ Cardinality(Gone(src.now)) \in Nat
      /\ Cardinality(Gone(src.now)) <= Cardinality(Gone(src.now)')
      /\ \A m \in Gone(src.now)' \ Gone(src.now) :
             Cardinality(Gone(src.now)) + 1 <= Cardinality(Gone(src.now)')
      BY <1>1, PartSize
<1> QED  BY <1>2

----------------------------------------------------------------------------
\* A move: every message is in one of the databases as the sessions see them,
\* and the rest of the batch is still in the source.
Fresh == \A k \in ident_idx..Len(idents) :
             idents[k] \in ToSet(src.now.msgs) \ ToSet(delete_tbl)
MoveDone ==
    /\ ~src.tx
    /\ pc # "done" /\ ret >= 0 =>
           /\ 1..arrived \subseteq ToSet(src.now.msgs) \cup ToSet(dst.now.msgs)
           /\ ToSet(delete_tbl) \subseteq ToSet(dst.now.msgs)
    /\ pc \in {"item", "track", "flush"} => Ordered(idents) /\ Fresh
MovingDone == DoneBase /\ cmd = "move" /\ TakeDone /\ MoveDone

LEMMA MoveTypes ==
    ASSUME MovingDone
    PROVE  /\ TypeInv /\ Listed /\ Whole /\ CopyBound /\ KeepingNow /\ Offsets /\ cmd = "move"
           /\ TakeDone /\ MoveDone /\ ept > 0 /\ (opt.limit >= 0 => CountedNow)
           /\ ret < 0 => \/ pc \in {"end", "done", "rest"}
                         \/ pc = "item" /\ ident_idx > Len(idents)
           /\ ret \in {0, -1}
           /\ Doomed = ToSet(delete_tbl)
           /\ Room \in Int /\ ident_idx \in Nat /\ ident_idx >= 1 /\ arrived \in Nat
           /\ limit_copy \in Int /\ Len(idents) \in Nat /\ idents \in Seq(Msgs)
           /\ delete_tbl \in Seq(Msgs) /\ opt.limit \in Int
           /\ src.now.msgs \in Seq(Msgs) /\ dst.now.msgs \in Seq(Msgs)
<1>1. /\ TypeInv /\ Listed /\ Bounded /\ Whole /\ Counted /\ Keeping /\ Offsets /\ Returned
      /\ cmd = "move" /\ ept > 0 /\ TakeDone /\ MoveDone
      BY DEF MovingDone, DoneBase, OrderBase, BoundedInv, Offsets
<1>2. CopyBound /\ (opt.limit >= 0 => CountedNow) /\ KeepingNow
      BY <1>1 DEF Bounded, Counted, Counting, Keeping
<1>3. /\ ret < 0 => \/ pc \in {"end", "done", "rest"}
                    \/ pc = "item" /\ ident_idx > Len(idents)
      /\ ret \in {0, -1}
      BY <1>1 DEF Returned, Stuck, TypeInv, TypeOK
<1>4. Doomed = ToSet(delete_tbl)
      BY <1>1 DEF Doomed, TypeInv, Phase
<1> QED  BY <1>1, <1>2, <1>3, <1>4, OrderTypes, CountTypes, Numbers, SrcFields

\* A step that neither copies nor deletes.
LEMMA MoveDoneKept ==
    ASSUME MovingDone, [Next]_vars, opt' = opt, arrived' = arrived, src' = src,
           delete_tbl' = delete_tbl \/ (delete_tbl' = <<>> /\ pc' = "end" /\ ret' < 0),
           ret' >= 0 /\ pc' # "done" => ret >= 0 /\ pc # "done" /\ dst'.now.msgs = dst.now.msgs,
           \/ pc' \notin {"item", "track", "flush"}
           \/ Ordered(idents') /\ Fresh'
           \/ pc \in {"item", "track", "flush"} /\ idents' = idents /\ ident_idx' = ident_idx,
           opt.limit >= 0 /\ pc' \notin {"end", "done"} /\ ret' >= 0 =>
               Room' = Room /\ pc \notin {"end", "done"}
    PROVE  TakeDone' /\ MoveDone'
<1>0. /\ TypeInv /\ TakeDone /\ MoveDone /\ arrived \in Nat /\ Room \in Int /\ cmd = "move"
      /\ ret \in {0, -1} /\ Doomed = ToSet(delete_tbl) /\ opt.limit \in Int
      /\ cmd' = cmd /\ origin' = origin /\ TypeInv'
      BY MoveTypes, SameRun, TypeStep
<1>1. ret' \in {0, -1} /\ Doomed' = ToSet(delete_tbl')
      BY <1>0 DEF TypeInv, TypeOK, Phase, Doomed
<1>2. ToSet(delete_tbl') \subseteq ToSet(delete_tbl)
      BY EmptySet
<1>3. TakeDone'
  <2>1. Doomed' \subseteq 1..arrived'
        BY <1>0, <1>1, <1>2 DEF TakeDone
  <2>2. ASSUME opt.limit >= 0, pc' \notin {"end", "done"}, ret' >= 0
        PROVE  Cardinality(Gone(src.now)') >= Room'
    <3>1. pc \notin {"end", "done"} /\ ret >= 0 /\ Room' = Room /\ delete_tbl' = delete_tbl
          BY <2>2
    <3>2. Cardinality(Gone(src.now)) >= Room
          BY <1>0, <2>2, <3>1 DEF TakeDone
    <3>3. Gone(src.now)' = Gone(src.now)
          BY <1>0, <1>1, <3>1 DEF Gone
    <3> QED  BY <3>1, <3>2, <3>3
  <2> QED  BY <1>0, <2>1, <2>2 DEF TakeDone
<1>4. pc' \in {"item", "track", "flush"} => Ordered(idents') /\ Fresh'
  <2>1. pc' \in {"item", "track", "flush"} => delete_tbl' = delete_tbl
        OBVIOUS
  <2> QED  BY <1>0, <2>1 DEF MoveDone, Fresh
<1>5. ASSUME pc' # "done", ret' >= 0
      PROVE  /\ 1..arrived' \subseteq ToSet(src'.now.msgs) \cup ToSet(dst'.now.msgs)
             /\ ToSet(delete_tbl') \subseteq ToSet(dst'.now.msgs)
      BY <1>0, <1>2, <1>5 DEF MoveDone
<1> QED  BY <1>0, <1>3, <1>4, <1>5 DEF MoveDone

\* A step that deletes what is copied.
LEMMA MoveDoneDeleted ==
    ASSUME MovingDone, [Next]_vars, SameCommand, Deleted, delete_tbl' = <<>>, ret' = ret,
           idents' = idents, ident_idx' = ident_idx, pc \notin {"end", "done"},
           \/ pc \in {"track", "flush"} /\ pc' = "flush"
           \/ pc' \notin {"item", "track", "flush"},
           pc' \notin {"end", "done"} => Room' = Room
    PROVE  TakeDone' /\ MoveDone'
<1>0. /\ TypeInv /\ TakeDone /\ MoveDone /\ arrived \in Nat /\ Room \in Int /\ cmd = "move"
      /\ Doomed = ToSet(delete_tbl) /\ opt.limit \in Int /\ KeepingNow
      /\ delete_tbl \in Seq(Msgs) /\ idents \in Seq(Msgs)
      /\ cmd' = cmd /\ origin' = origin /\ TypeInv'
      BY MoveTypes, SameRun, TypeStep
<1>1. opt' = opt /\ arrived' = arrived
      BY DEF SameCommand
<1>2. dst' = dst /\ src'.tx = src.tx
      /\ ToSet(src'.now.msgs) = ToSet(src.now.msgs) \ ToSet(delete_tbl)
  <2>1. ToSet(delete_tbl) \in SUBSET Msgs
        BY <1>0 DEF ToSet
  <2>2. src' = Wrote(src, Without(src.now, ToSet(delete_tbl))) /\ dst' = dst
        BY DEF Deleted, OnlySrc
  <2> QED  BY <1>0, <2>1, <2>2, SrcDeleted
<1>3. Doomed' = {}
      BY <1>0, EmptySet DEF Doomed, TypeInv, Phase
<1>4. Gone(src.now)' = Gone(src.now)
      BY <1>0, <1>1, <1>2, <1>3 DEF Gone, TakeDone
<1>5. TakeDone'
  <2>1. opt.limit >= 0 /\ ret >= 0 => Cardinality(Gone(src.now)) >= Room
        BY <1>0 DEF TakeDone
  <2> QED  BY <1>0, <1>1, <1>3, <1>4, <2>1 DEF TakeDone
<1>6. ret >= 0 => 1..arrived \subseteq ToSet(src'.now.msgs) \cup ToSet(dst.now.msgs)
      BY <1>0, <1>2 DEF MoveDone
<1>7. ASSUME pc' \in {"item", "track", "flush"} PROVE Ordered(idents) /\ Fresh'
  <2>1. Ordered(idents) /\ Fresh
        BY <1>0, <1>7 DEF MoveDone
  <2> QED  BY <1>2, <2>1, EmptySet DEF Fresh
<1> QED  BY <1>0, <1>1, <1>2, <1>5, <1>6, <1>7, EmptySet DEF MoveDone

LEMMA MoveDoneStart ==
    ASSUME MovingDone, Start
    PROVE  TakeDone' /\ MoveDone'
<1>0. TypeInv /\ cmd = "move"
      BY MoveTypes
<1>1. /\ pc = "start" /\ pc' = "fetch" /\ SameCommand /\ ret' = ret
      /\ delete_tbl' = delete_tbl /\ limit_copy' = limit_copy
      BY <1>0, StartFacts
<1>2. src' = src /\ dst'.now.msgs = dst.now.msgs
      BY <1>0, StartFacts, BegunFacts DEF OnlyDst, dst, src
<1>3. opt' = opt /\ arrived' = arrived /\ Pending = 0 /\ Pending' = 0
      BY <1>1 DEF SameCommand, Pending
<1>4. Room' = Room
      BY <1>1, <1>3 DEF Room
<1> QED  BY <1>1, <1>2, <1>3, <1>4, MoveDoneKept DEF Next, Step

LEMMA MoveDoneFetch ==
    ASSUME MovingDone, Fetch
    PROVE  TakeDone' /\ MoveDone'
<1>0. TypeInv /\ cmd = "move" /\ Listed /\ KeepingNow /\ (opt.limit >= 0 => CountedNow)
      /\ ret \in {0, -1} /\ (ret < 0 => pc \in {"end", "done", "rest", "item"})
      BY MoveTypes
<1>1. /\ pc = "fetch" /\ SameCommand /\ delete_tbl' = delete_tbl /\ src' = src /\ dst' = dst
      /\ pc' \in {"item", "end"}
      /\ pc' = "item" => idents' = Batch /\ ident_idx' = 1
      BY <1>0, FetchFacts DEF src, dst
<1>2. opt' = opt /\ arrived' = arrived
      BY <1>1 DEF SameCommand
<1>3. ASSUME pc' = "item" PROVE Ordered(idents') /\ Fresh'
  <2>1. Ordered(Batch) /\ Len(Batch) \in Nat /\ ToSet(Batch) \subseteq ToSet(src.now.msgs)
        BY <1>0, BatchOrdered
  <2>2. ToSet(delete_tbl) = {}
        BY <1>0, <1>1, EmptySet DEF Listed
  <2>3. \A k \in 1..Len(Batch) : Batch[k] \in ToSet(src.now.msgs)
        BY <2>1 DEF ToSet
  <2> QED  BY <1>1, <1>3, <2>1, <2>2, <2>3 DEF Fresh
<1>4. opt.limit >= 0 /\ pc' = "item" => Room' = Room
      BY <1>0, FetchedRoom
<1> QED  BY <1>0, <1>1, <1>2, <1>3, <1>4, MoveDoneKept DEF Next, Step

LEMMA MoveDoneMessage ==
    ASSUME MovingDone, CopyMessage
    PROVE  TakeDone' /\ MoveDone'
<1>0. /\ TypeInv /\ cmd = "move" /\ TakeDone /\ MoveDone /\ KeepingNow /\ arrived \in Nat
      /\ ret \in {0, -1} /\ Doomed = ToSet(delete_tbl)
      /\ ret < 0 => \/ pc \in {"end", "done", "rest"}
                    \/ pc = "item" /\ ident_idx > Len(idents)
      /\ Room \in Int /\ ident_idx \in Nat /\ ident_idx >= 1 /\ Len(idents) \in Nat
      /\ idents \in Seq(Msgs) /\ delete_tbl \in Seq(Msgs) /\ dst.now.msgs \in Seq(Msgs)
      /\ origin' = origin /\ TypeInv'
  <2>1. Next
        BY DEF Next, Step
  <2> QED  BY <2>1, MoveTypes, SameRun, TypeStep
<1> DEFINE m == idents[ident_idx]
<1>1. /\ pc = "item" /\ ident_idx <= Len(idents) /\ m \in Msgs /\ ident_idx' = ident_idx + 1
      /\ SameCommand /\ limit_copy' = limit_copy /\ idents' = idents
      /\ \/ /\ OnlyDst(Wrote(dst, With(dst.now, m))) /\ pc' = "track" /\ ret' = ret
            /\ delete_tbl' = Append(delete_tbl, m)
         \/ db' = db /\ pc' = "end" /\ ret' = -1 /\ delete_tbl' = delete_tbl
         \/ /\ OnlyDst(Failed(dst, Torn(dst.now, {m}))) /\ ret' = -1 /\ pc' = "end"
            /\ delete_tbl' = delete_tbl
      BY <1>0, CopyMessageFacts
<1>2. ret >= 0
      BY <1>0, <1>1
<1>3. src' = src /\ opt' = opt /\ arrived' = arrived /\ cmd' = cmd
      BY <1>1, SameParts DEF OnlyDst, src, SameCommand
<1>4. CASE pc' = "end"
  <2>1. ret' = -1 /\ delete_tbl' = delete_tbl
        BY <1>1, <1>4
  <2> QED  BY <1>3, <1>4, <2>1, MoveDoneKept DEF Next, Step
<1>5. CASE pc' = "track"
  <2>1. Inserted(m) /\ ret' = ret /\ delete_tbl' = Append(delete_tbl, m)
        BY <1>0, <1>1, <1>5, InsertedFacts DEF OnlyDst
  <2>2. Ordered(idents) /\ Fresh
        BY <1>0, <1>1 DEF MoveDone
  <2>3. m \in ToSet(src.now.msgs) /\ m \notin ToSet(delete_tbl)
        BY <1>0, <1>1, <2>2 DEF Fresh
  <2>4. m \in 1..arrived
        BY <1>0, <2>3 DEF KeepingNow, Remains
  <2>5. ToSet(delete_tbl') = ToSet(delete_tbl) \cup {m}
        BY <1>0, <1>1, <2>1, ToSetAppend
  <2>6. Doomed' = Doomed \cup {m}
        BY <1>0, <1>3, <1>5, <2>5 DEF Doomed
  <2>7. Gone(src.now)' = Gone(src.now) \cup {m} /\ m \notin Gone(src.now)
        BY <1>0, <1>3, <2>3, <2>6 DEF Gone
  <2>8. Room' = Room + 1
        BY <1>0, <1>1, <1>3, <1>5, OneMoreRoom
  <2>9. TakeDone'
    <3>1. Doomed' \subseteq 1..arrived'
          BY <1>0, <1>3, <2>4, <2>6 DEF TakeDone
    <3>2. opt.limit >= 0 => Cardinality(Gone(src.now)) >= Room
          BY <1>0, <1>1, <1>2 DEF TakeDone
    <3>3. opt.limit >= 0 => Cardinality(Gone(src.now)') >= Room'
          BY <1>0, <1>3, <2>7, <2>8, <3>1, <3>2, GoneGrows
    <3> QED  BY <1>0, <1>3, <3>1, <3>3 DEF TakeDone
  <2>10. ToSet(dst'.now.msgs) = ToSet(dst.now.msgs) \cup {m}
    <3>1. dst.now \in Contents
          BY <1>0, DstLengths
    <3>2. dst'.now.msgs = Append(dst.now.msgs, m)
          BY <1>1, <2>1, <3>1, WithFields DEF Inserted
    <3> QED  BY <1>0, <1>1, <3>2, ToSetAppend
  <2>11. /\ 1..arrived \subseteq ToSet(src.now.msgs) \cup ToSet(dst.now.msgs)
         /\ ToSet(delete_tbl) \subseteq ToSet(dst.now.msgs)
         BY <1>0, <1>1, <1>2 DEF MoveDone
  <2>12. Fresh'
    <3> SUFFICES ASSUME NEW k \in (ident_idx + 1)..Len(idents)
                 PROVE  idents[k] \in ToSet(src.now.msgs) \ (ToSet(delete_tbl) \cup {m})
        BY <1>1, <1>3, <2>5 DEF Fresh
    <3>1. k \in ident_idx..Len(idents) /\ k \in 1..Len(idents) /\ ident_idx \in 1..Len(idents)
          /\ ident_idx < k
          BY <1>0, <1>1
    <3>2. m < idents[k]
          BY <2>2, <3>1 DEF Ordered
    <3>3. idents[k] # m
      <4>1. m \in Nat
            BY <2>4
      <4> QED  BY <3>2, <4>1
    <3> QED  BY <2>2, <3>1, <3>3 DEF Fresh
  <2>13. ~src'.tx
         BY <1>0, <1>3 DEF MoveDone
  <2> QED  BY <1>1, <1>3, <2>2, <2>5, <2>9, <2>10, <2>11, <2>12, <2>13 DEF MoveDone
<1> QED  BY <1>1, <1>4, <1>5

LEMMA MoveDoneDeletion ==
    ASSUME MovingDone, TrackDeletion \/ DeleteRest
    PROVE  TakeDone' /\ MoveDone'
<1>0. /\ TypeInv /\ cmd = "move" /\ ret \in {0, -1}
      BY MoveTypes
<1>1. /\ SameCommand /\ limit_copy' = limit_copy /\ idents' = idents /\ ident_idx' = ident_idx
      /\ \/ pc = "track" /\ ret' = ret /\ pc' \in {"flush", "item"}
         \/ pc = "rest" /\ delete_tbl' = <<>> /\ pc' \in {"fetch", "end"}
      /\ \/ Deleted /\ delete_tbl' = <<>> /\ pc' # "item" /\ ret' = ret
         \/ db' = db /\ delete_tbl' = delete_tbl /\ pc = "track"
         \/ db' = db /\ delete_tbl' = <<>> /\ pc' = "end" /\ ret' < 0
      BY <1>0, TrackDeletionFacts, DeleteRestFacts
<1>2. opt' = opt /\ arrived' = arrived /\ cmd' = cmd
      BY <1>1, SameParts DEF SameCommand
<1>3. pc' # "end" => Room' = Room
  <2>1. pc' # "end" => Pending' = Pending
    <3>1. CASE pc = "track"
          BY <1>1, <1>2, <3>1 DEF Pending
    <3>2. CASE pc = "rest"
          BY <1>1, <3>2 DEF Pending
    <3> QED  BY <1>1, <3>1, <3>2
  <2> QED  BY <1>1, <1>2, <2>1 DEF Room
<1>4. [Next]_vars
      BY DEF Next, Step
<1>5. CASE Deleted /\ delete_tbl' = <<>> /\ pc' # "item" /\ ret' = ret
      BY <1>0, <1>1, <1>3, <1>4, <1>5, MoveDoneDeleted
<1>6. CASE db' = db
  <2>1. src' = src /\ dst' = dst
        BY <1>6 DEF src, dst
  <2>2. \/ delete_tbl' = delete_tbl /\ pc = "track"
        \/ delete_tbl' = <<>> /\ pc' = "end" /\ ret' < 0
        \/ Deleted /\ delete_tbl' = <<>> /\ pc' # "item" /\ ret' = ret
        BY <1>1
  <2>3. CASE delete_tbl' = delete_tbl /\ pc = "track"
    <3>1. ret' = ret /\ pc' \in {"flush", "item"} /\ idents' = idents /\ ident_idx' = ident_idx
          BY <1>1, <2>3
    <3> QED  BY <1>2, <1>3, <1>4, <2>1, <2>3, <3>1, MoveDoneKept
  <2>4. CASE delete_tbl' = <<>> /\ pc' = "end" /\ ret' < 0
    <3>1. TypeInv'
          BY <1>0, <1>4, TypeStep
    <3>2. ret' \in {0, -1}
          BY <3>1 DEF TypeInv, TypeOK
    <3>3. ~(ret' >= 0) /\ pc' \notin {"item", "track", "flush"}
          BY <2>4, <3>2
    <3> QED  BY <1>2, <1>4, <2>1, <2>4, <3>3, MoveDoneKept
  <2> QED  BY <1>5, <2>2, <2>3, <2>4
<1> QED  BY <1>1, <1>5, <1>6

LEMMA MoveDoneFlush ==
    ASSUME MovingDone, Flush \/ EndOfBatch, Sure'
    PROVE  TakeDone' /\ MoveDone'
<1>0. /\ TypeInv /\ cmd = "move" /\ Whole /\ ret \in {0, -1} /\ ident_idx \in Nat
      /\ Len(idents) \in Nat
      BY MoveTypes
<1>1. /\ SameCommand /\ ret' = ret /\ limit_copy' = limit_copy /\ idents' = idents /\ ident_idx' = ident_idx
      /\ delete_tbl' = delete_tbl /\ (Flushed(1) \/ NotFlushed(1) \/ Flushed(0) \/ NotFlushed(0))
      /\ \/ pc = "flush" /\ pc' = "item"
         \/ pc = "item" /\ pc' \in {"rest", "fetch", "end"} /\ ident_idx > Len(idents)
  <2>1. CASE Flush
    <3>1. Increment = 1
          BY <1>0 DEF Increment
    <3> QED  BY <1>0, <2>1, <3>1, FlushActionFacts
  <2>2. CASE EndOfBatch
        BY <1>0, <2>2, EndOfBatchFacts
  <2> QED  BY <2>1, <2>2
<1>2. opt' = opt /\ arrived' = arrived /\ cmd' = cmd
      BY <1>1, SameParts DEF SameCommand
<1>3. src' = src /\ dst'.now = dst.now
  <2>1. CASE Flushed(1) \/ Flushed(0)
    <3>1. Renewed(dst, dst') /\ ~dst.broken /\ src' = src
          BY <1>0, <1>1, <2>1 DEF Flushed, Whole
    <3> QED  BY <1>0, <3>1, RenewedWhole DEF Sure
  <2>2. CASE NotFlushed(1) \/ NotFlushed(0)
        BY <2>2 DEF NotFlushed, src, dst
  <2> QED  BY <1>1, <2>1, <2>2
<1>4. Room' = Room
  <2>1. Pending' = Pending
    <3>1. CASE pc = "flush"
          BY <1>0, <1>1, <1>2, <3>1 DEF Pending
    <3>2. CASE pc = "item"
      <4>1. ident_idx = Len(idents) + 1
            BY <1>0, <1>1, <3>2, Numbers
      <4>2. Pending = 0 /\ Pending' = 0
            BY <1>0, <1>1, <3>2, <4>1 DEF Pending
      <4> QED  BY <4>2
    <3> QED  BY <1>1, <3>1, <3>2
  <2> QED  BY <1>1, <1>2, <2>1 DEF Room
<1>5. [Next]_vars
      BY DEF Next, Step
<1> QED  BY <1>1, <1>2, <1>3, <1>4, <1>5, MoveDoneKept

\* An ident that cannot be taken: there is nothing left in hand.
LEMMA MoveDoneIdentFails ==
    ASSUME MovingDone, IdentFails
    PROVE  TakeDone' /\ MoveDone'
<1>0. /\ TypeInv /\ cmd = "move" /\ cmd \notin Readers /\ ident_idx \in Nat
      /\ Len(idents) \in Nat /\ ident_idx \in 1..(Len(idents) + 1) /\ MoveDone
      BY MoveTypes, Numbers DEF Readers
<1>1. /\ pc = "item" /\ pc' = "item" /\ ret' = -1 /\ db' = db /\ SameCommand
      /\ ident_idx' = ident_idx /\ delete_tbl' = delete_tbl
      /\ Len(idents') = ident_idx - 1
      /\ \A k \in 1..(ident_idx - 1) : idents'[k] = idents[k]
      BY <1>0, IdentFailsFacts DEF Stopped
<1>2. opt' = opt /\ arrived' = arrived /\ src' = src /\ dst' = dst
      BY <1>1 DEF SameCommand, src, dst
<1>3. Ordered(idents')
  <2>1. Ordered(idents)
        BY <1>0, <1>1 DEF MoveDone
  <2>2. \A k \in 1..Len(idents') : k \in 1..Len(idents) /\ idents'[k] = idents[k]
        BY <1>0, <1>1
  <2> QED  BY <2>1, <2>2 DEF Ordered
<1>4. Fresh'
      BY <1>0, <1>1 DEF Fresh
<1> QED  BY <1>1, <1>2, <1>3, <1>4, MoveDoneKept DEF Next, Step

\* A message that arrives in the source of a move or a deletion.
LEMMA TakeDoneArrive ==
    ASSUME TypeInv, TakeDone, Arrive
    PROVE  /\ TakeDone'
           /\ ToSet(src'.now.msgs) = ToSet(src.now.msgs) \cup {arrived + 1}
           /\ ToSet(src'.kept.msgs) = ToSet(src.kept.msgs) \cup {arrived + 1}
<1>0. /\ arrived \in Nat /\ Room \in Int /\ src.now.msgs \in Seq(Msgs)
      /\ src.kept.msgs \in Seq(Msgs) /\ src.now \in Contents /\ src.kept \in Contents
      BY OrderTypes, CountTypes, SrcFields
<1>1. /\ arrived' = arrived + 1 /\ arrived + 1 \in Msgs /\ cmd' = cmd
      /\ src'.now = With(src.now, arrived + 1) /\ src'.kept = With(src.kept, arrived + 1)
      /\ UNCHANGED <<opt, origin, pc, ret, limit_copy, idents, ident_idx, delete_tbl>>
      BY ArriveFacts
<1>2. ToSet(src'.now.msgs) = ToSet(src.now.msgs) \cup {arrived + 1}
  <2>1. src'.now.msgs = Append(src.now.msgs, arrived + 1)
        BY <1>0, <1>1, WithFields
  <2> QED  BY <1>0, <1>1, <2>1, ToSetAppend
<1>3. ToSet(src'.kept.msgs) = ToSet(src.kept.msgs) \cup {arrived + 1}
  <2>1. src'.kept.msgs = Append(src.kept.msgs, arrived + 1)
        BY <1>0, <1>1, WithFields
  <2> QED  BY <1>0, <1>1, <2>1, ToSetAppend
<1>4. Pending' = Pending /\ Doomed' = Doomed
      BY <1>1 DEF Pending, Doomed
<1>5. Room' = Room
      BY <1>1, <1>4 DEF Room
<1>6. 1..arrived' = (1..arrived) \cup {arrived + 1} /\ arrived' \in Nat
      BY <1>0, <1>1
<1>7. TakeDone'
  <2>1. Doomed' \subseteq 1..arrived'
        BY <1>4, <1>6 DEF TakeDone
  <2>2. Gone(src.now) \subseteq Gone(src.now)'
    <3> SUFFICES ASSUME NEW m \in 1..arrived, m \notin ToSet(src.now.msgs), m \notin Doomed
                 PROVE  m \in (1..arrived') \ ToSet(src'.now.msgs)
        BY <1>4 DEF Gone
    <3>1. m # arrived + 1
          BY <1>0
    <3> QED  BY <1>2, <1>6, <3>1
  <2>3. Cardinality(Gone(src.now)) >= Room => Cardinality(Gone(src.now)') >= Room'
        BY <1>0, <1>5, <1>6, <2>1, <2>2, GoneGrows
  <2> QED  BY <1>1, <2>1, <2>3 DEF TakeDone
<1> QED  BY <1>2, <1>3, <1>7

LEMMA MoveDoneArrive ==
    ASSUME MovingDone, Arrive
    PROVE  TakeDone' /\ MoveDone'
<1>0. TypeInv /\ TakeDone /\ MoveDone /\ arrived \in Nat
      BY MoveTypes
<1>1. /\ arrived' = arrived + 1 /\ dst' = dst /\ src'.tx = src.tx
      /\ UNCHANGED <<pc, ret, idents, ident_idx, delete_tbl>>
      BY <1>0, ArriveFacts DEF OnlySrc
<1>2. TakeDone' /\ ToSet(src'.now.msgs) = ToSet(src.now.msgs) \cup {arrived + 1}
      BY <1>0, TakeDoneArrive
<1>3. Fresh => Fresh'
      BY <1>1, <1>2 DEF Fresh
<1>4. 1..arrived \subseteq ToSet(src.now.msgs) \cup ToSet(dst.now.msgs) =>
          1..arrived' \subseteq ToSet(src'.now.msgs) \cup ToSet(dst'.now.msgs)
      BY <1>0, <1>1, <1>2
<1> QED  BY <1>0, <1>1, <1>2, <1>3, <1>4 DEF MoveDone

LEMMA MoveDoneStep ==
    ASSUME MovingDone, [Next]_vars, Sure', "move" \notin Resumable
    PROVE  TakeDone' /\ MoveDone'
<1>0. TypeInv /\ cmd = "move"
      BY MoveTypes
<1>1. CASE Erase \/ Emit \/ OpenFile \/ NoMoreFiles \/ EndOfFile \/ SkipMessage \/ LoadMessage
  <2>1. cmd \in {"delete", "load"} \cup Readers
        BY <1>0, <1>1, EraseFacts, EmitFacts, OpenFileFacts,
           ReadFacts, LoadMessageFacts DEF TypeInv, Phase
  <2> QED  BY <1>0, <2>1 DEF Readers
<1>2. CASE Finish
  <2>1. SameCommand /\ pc' = "done" /\ delete_tbl' = delete_tbl /\ src' = src
        BY <1>0, <1>2, FinishFacts DEF OnlyDst
  <2> QED  BY <2>1, MoveDoneKept DEF SameCommand
<1>3. CASE Resume
      BY <1>0, <1>3, ResumeFacts
<1>4. CASE Signal \/ UNCHANGED vars
  <2>1. UNCHANGED <<opt, db, arrived, pc, ret, limit_copy, idents, ident_idx, delete_tbl>>
    <3>1. CASE UNCHANGED vars
          BY <3>1, Zenon DEF vars, countVars, batchVars, envVars
    <3>2. CASE Signal
          BY <1>0, <3>2, SignalFacts
    <3> QED  BY <1>4, <3>1, <3>2
  <2>2. /\ opt' = opt /\ src' = src /\ dst' = dst /\ arrived' = arrived /\ pc' = pc /\ ret' = ret
        /\ limit_copy' = limit_copy /\ idents' = idents /\ ident_idx' = ident_idx
        /\ delete_tbl' = delete_tbl
        BY <2>1, Zenon DEF src, dst
  <2>3. Pending' = Pending
        BY <2>2 DEF Pending, cmd
  <2>4. Room' = Room
        BY <2>2, <2>3 DEF Room
  <2> QED  BY <2>2, <2>4, MoveDoneKept
<1>5. CASE Step
      BY <1>1, <1>2, <1>5, MoveDoneStart, MoveDoneFetch, MoveDoneMessage, MoveDoneDeletion,
         MoveDoneFlush, MoveDoneIdentFails, Zenon DEF Step
<1> QED  BY <1>3, <1>4, <1>5, MoveDoneArrive, Zenon DEF Next

\* The messages that arrive are not those the command has to go through.
LEMMA ArrivalNotKnown ==
    ASSUME TypeInv, Arrive, Known \cap ToSet(src.now.msgs) = {}
    PROVE  Known' \cap ToSet(src'.now.msgs) = {}
<1>1. /\ arrived + 1 \in Msgs /\ src'.now = With(src.now, arrived + 1)
      /\ src.now.msgs \in Seq(Msgs) /\ src.now \in Contents /\ arrived \in Nat
      BY ArriveFacts, SrcFields, OrderTypes
<1>2. ToSet(src'.now.msgs) = ToSet(src.now.msgs) \cup {arrived + 1}
  <2>1. src'.now.msgs = Append(src.now.msgs, arrived + 1)
        BY <1>1, WithFields
  <2> QED  BY <1>1, <2>1, ToSetAppend
<1>3. arrived + 1 \notin Known
  <2>1. \A m \in Known : m \in 1..arrived
        BY KnownFacts
  <2> QED  BY <1>1, <2>1
<1>4. Known' = Known
      BY SameRun DEF Next
<1> QED  BY <1>2, <1>3, <1>4

\* A move that has succeeded: what it has copied is committed, and nothing it
\* is asked for is left in the source.
MoveOver ==
    /\ Level /\ Known \subseteq ToSet(dst.kept.msgs)
    /\ Known \cap ToSet(src.now.msgs) = {}

LEMMA MoveOverStep ==
    ASSUME MovingDone, Over => MoveOver, [Next]_vars, Over'
    PROVE  MoveOver'
<1>0. /\ TypeInv /\ cmd = "move" /\ TakeDone /\ MoveDone /\ CopyBound /\ KeepingNow /\ Listed
      /\ Offsets /\ ret \in {0, -1} /\ (ret < 0 => pc \in {"end", "done", "rest", "item"}) /\ Known' = Known
      BY MoveTypes, SameRun
<1>1. ASSUME Over, UNCHANGED vars \/ Arrive \/ Finish
      PROVE  MoveOver'
  <2>1. MoveOver
        BY <1>1
  <2>2. /\ dst'.now = dst.now \/ dst'.now = dst.kept
        /\ dst'.kept = dst.now \/ dst'.kept = dst.kept
    <3>1. CASE UNCHANGED vars
      <4>1. dst' = dst
            BY <3>1, Zenon DEF vars, dst
      <4> QED  BY <4>1
    <3>2. CASE Arrive
          BY <1>0, <3>2, ArriveFacts DEF OnlySrc
    <3>3. CASE Finish
      <4>1. PICK s : /\ s = Committed(db[Target]) \/ s = RolledBack(db[Target])
                     /\ OnlyDst(s)
            BY <1>0, <3>3, FinishFacts
      <4>2. dst' = Committed(dst) \/ dst' = RolledBack(dst)
            BY <1>0, <4>1 DEF OnlyDst, Target, dst
      <4> QED  BY <1>0, <4>2, EitherDst
    <3> QED  BY <1>1, <3>1, <3>2, <3>3
  <2>3. Level' /\ dst'.kept.msgs = dst.kept.msgs
        BY <2>1, <2>2 DEF MoveOver, Level
  <2>4. Known' \cap ToSet(src'.now.msgs) = {}
    <3>1. CASE UNCHANGED vars
      <4>1. src' = src
            BY <3>1, Zenon DEF vars, src
      <4> QED  BY <1>0, <2>1, <4>1 DEF MoveOver
    <3>2. CASE Arrive
          BY <1>0, <2>1, <3>2, ArrivalNotKnown DEF MoveOver
    <3>3. CASE Finish
      <4>1. src' = src
            BY <1>0, <3>3, FinishFacts DEF OnlyDst
      <4> QED  BY <1>0, <2>1, <4>1 DEF MoveOver
    <3> QED  BY <1>1, <3>1, <3>2, <3>3
  <2> QED  BY <1>0, <2>1, <2>3, <2>4 DEF MoveOver
<1>2. CASE Fetch /\ Batch = <<>>
  <2>1. pc = "fetch" /\ src' = src /\ dst' = dst /\ ret >= 0
        BY <1>0, <1>2, FetchFacts DEF src, dst
  <2>2. Known \cap ToSet(src.now.msgs) = {}
        BY <1>0, <1>2, <2>1, NothingLeft DEF TakeDone
  <2>3. Known \subseteq ToSet(dst.now.msgs)
    <3>1. \A m \in Known : m \in 1..arrived
          BY <1>0, KnownFacts
    <3> QED  BY <1>0, <2>1, <2>2, <3>1 DEF MoveDone
  <2>4. Level
        BY <1>0, <2>1 DEF CopyBound
  <2> QED  BY <1>0, <2>1, <2>2, <2>3, <2>4 DEF MoveOver, Level
<1>3. CASE NoMoreFiles
      BY <1>0, <1>3, ReadFacts
<1> QED  BY <1>0, <1>1, <1>2, <1>3, OverStep

----------------------------------------------------------------------------
\* A deletion: one call for the batch, and the flush that follows it counts
\* the whole batch, so that a transaction of one message ends at every flush.
DeleteDone ==
    /\ ret >= 0 => ~src.broken
    /\ pc \in {"erase", "flush"} => idents # <<>>
    /\ pc = "erase" => Ordered(idents) /\ ToSet(idents) \subseteq ToSet(src.now.msgs)
    /\ pc \in {"start", "fetch"} /\ ept <= 1 => src.now = src.kept
DeletingDone == DoneBase /\ cmd = "delete" /\ TakeDone /\ DeleteDone

LEMMA DeleteTypes ==
    ASSUME DeletingDone
    PROVE  /\ TypeInv /\ Listed /\ KeepingNow /\ Offsets /\ Counted /\ cmd = "delete"
           /\ TakeDone /\ DeleteDone /\ ept > 0 /\ (opt.limit >= 0 => CountedNow)
           /\ (ret < 0 => pc \in {"end", "done", "flush"}) /\ ret \in {0, -1}
           /\ Doomed = IF pc = "erase" THEN ToSet(idents) ELSE {}
           /\ Pending = 0 /\ delete_tbl = <<>>
           /\ Room \in Int /\ arrived \in Nat /\ limit_copy \in Int /\ Len(idents) \in Nat
           /\ idents \in Seq(Msgs) /\ opt.limit \in Int /\ event_no \in Nat
           /\ src.now.msgs \in Seq(Msgs) /\ src.kept.msgs \in Seq(Msgs)
<1>1. /\ TypeInv /\ Listed /\ Counted /\ Keeping /\ Offsets /\ Returned
      /\ cmd = "delete" /\ ept > 0 /\ TakeDone /\ DeleteDone
      BY DEF DeletingDone, DoneBase, OrderBase, BoundedInv, Offsets
<1>2. (opt.limit >= 0 => CountedNow) /\ KeepingNow
      BY <1>1 DEF Counted, Counting, Keeping
<1>3. (ret < 0 => pc \in {"end", "done", "flush"}) /\ ret \in {0, -1}
      BY <1>1 DEF Returned, Stuck, TypeInv, TypeOK
<1>4. delete_tbl = <<>> /\ Pending = 0
      BY <1>1 DEF TypeInv, Phase, Pending
<1>5. Doomed = IF pc = "erase" THEN ToSet(idents) ELSE {}
      BY <1>4, EmptySet DEF Doomed
<1> QED  BY <1>1, <1>2, <1>3, <1>4, <1>5, OrderTypes, CountTypes, Numbers, SrcFields

\* A step that keeps what the session sees of the source.
LEMMA TakeDoneKept ==
    ASSUME DeletingDone, [Next]_vars, opt' = opt, arrived' = arrived,
           pc' \notin {"end", "done"} /\ ret' >= 0 =>
               src'.now.msgs = src.now.msgs /\ limit_copy' = limit_copy /\ ret >= 0,
           pc \notin {"end", "done", "erase"}, pc' # "erase"
    PROVE  TakeDone'
<1>0. /\ TypeInv /\ TakeDone /\ cmd = "delete" /\ Room \in Int /\ Pending = 0
      /\ cmd' = cmd /\ origin' = origin /\ TypeInv'
      BY DeleteTypes, SameRun, TypeStep
<1>1. Doomed = {} /\ Doomed' = {} /\ Pending' = 0
  <2>1. delete_tbl = <<>> /\ delete_tbl' = <<>>
        BY <1>0 DEF TypeInv, Phase
  <2> QED  BY <1>0, <2>1, EmptySet DEF Doomed, Pending
<1>2. ASSUME opt.limit >= 0, pc' \notin {"end", "done"}, ret' >= 0
      PROVE  Cardinality(Gone(src.now)') >= Room'
  <2>1. src'.now.msgs = src.now.msgs /\ limit_copy' = limit_copy /\ ret >= 0
        BY <1>2
  <2>2. Gone(src.now)' = Gone(src.now)
        BY <1>1, <2>1 DEF Gone
  <2>3. Room' = Room
        BY <1>0, <1>1, <2>1 DEF Room
  <2> QED  BY <1>0, <1>2, <2>1, <2>2, <2>3 DEF TakeDone
<1> QED  BY <1>0, <1>1, <1>2 DEF TakeDone

LEMMA DeleteDoneStart ==
    ASSUME DeletingDone, Start
    PROVE  TakeDone' /\ DeleteDone'
<1>0. TypeInv /\ cmd = "delete" /\ DeleteDone /\ ept \in Nat
      BY DeleteTypes, Numbers
<1>1. /\ pc = "start" /\ pc' = "fetch" /\ SameCommand /\ ret' = ret /\ limit_copy' = limit_copy
      /\ cmd' = cmd /\ ept' = ept
      BY <1>0, StartFacts, SameParts
<1>2. src' = src \/ src' = Begun(src)
      BY <1>0, StartFacts DEF OnlySrc, src, Inserting
<1>3. src'.now = src.now /\ src'.kept = src.kept /\ (src'.broken => src.broken)
      BY <1>0, <1>2, SrcFields, SessionFields
<1>4. DeleteDone'
      BY <1>0, <1>1, <1>3 DEF DeleteDone
<1> QED  BY <1>1, <1>3, <1>4, TakeDoneKept DEF SameCommand, Next, Step

LEMMA DeleteDoneFetch ==
    ASSUME DeletingDone, Fetch
    PROVE  TakeDone' /\ DeleteDone'
<1>0. /\ TypeInv /\ cmd = "delete" /\ DeleteDone /\ TakeDone /\ KeepingNow /\ Pending = 0
      /\ Room \in Int /\ opt.limit \in Int /\ limit_copy \in Int /\ arrived \in Nat
      /\ (opt.limit >= 0 => CountedNow) /\ (ret < 0 => pc \in {"end", "done", "flush"})
      /\ Doomed = (IF pc = "erase" THEN ToSet(idents) ELSE {}) /\ delete_tbl = <<>>
      /\ ret \in {0, -1}
      BY DeleteTypes
<1>1. /\ pc = "fetch" /\ SameCommand /\ src' = src /\ cmd' = cmd /\ delete_tbl' = delete_tbl
      /\ \/ pc' = "end" /\ UNCHANGED <<idents, limit_copy>>
         \/ /\ Batch # <<>> /\ idents' = Batch /\ pc' = "erase"
            /\ limit_copy' = IF limit_copy > 0 THEN limit_copy - Len(Batch) ELSE limit_copy
      BY <1>0, FetchFacts, SameParts DEF src
<1>2. opt' = opt /\ arrived' = arrived /\ origin' = origin
      BY <1>1 DEF SameCommand
<1>3. ret >= 0
      BY <1>0, <1>1
<1>4. CASE pc' = "end"
  <2>1. TakeDone'
        BY <1>1, <1>2, <1>4, TakeDoneKept DEF Next, Step
  <2> QED  BY <1>0, <1>1, <1>3, <1>4, <2>1 DEF DeleteDone
<1>5. CASE pc' = "erase"
  <2>1. /\ Batch # <<>> /\ idents' = Batch /\ ret' = ret
        /\ limit_copy' = IF limit_copy > 0 THEN limit_copy - Len(Batch) ELSE limit_copy
        BY <1>0, <1>1, <1>5, FetchEnds
  <2>2. /\ Ordered(Batch) /\ Batch \in Seq(Msgs) /\ Len(Batch) \in Nat
        /\ ToSet(Batch) \subseteq ToSet(src.now.msgs) /\ ToSet(Batch) \subseteq 1..arrived
        BY <1>0, BatchOrdered
  <2>3. DeleteDone'
        BY <1>0, <1>1, <1>3, <1>5, <2>1, <2>2 DEF DeleteDone
  <2>4. Doomed = {} /\ Doomed' = ToSet(Batch)
        BY <1>0, <1>1, <1>5, <2>1, EmptySet DEF Doomed
  <2>5. ASSUME opt.limit >= 0 PROVE Cardinality(Gone(src.now)') >= Room'
    <3>1. limit_copy >= 0
          BY <1>0, <2>5 DEF CountedNow
    <3>2. limit_copy' = limit_copy - Len(Batch)
      <4>1. CASE limit_copy > 0
            BY <2>1, <4>1
      <4>2. CASE limit_copy = 0
        <5>1. Len(Batch) <= 0
              BY <1>0, <1>1, <4>2, BatchLength
        <5> QED  BY <1>0, <2>1, <2>2, <4>2, <5>1
      <4> QED  BY <1>0, <3>1, <4>1, <4>2
    <3>3. Pending' = 0
          BY <1>0, <1>1, <1>5 DEF Pending
    <3>4. Room' = opt.limit - (limit_copy - Len(Batch)) - 0
          BY <1>2, <3>2, <3>3 DEF Room
    <3>5. Room = opt.limit - limit_copy - 0
          BY <1>0 DEF Room
    <3>6. Room' = Room + Len(Batch)
          BY <1>0, <2>2, <3>4, <3>5
    <3>7. Gone(src.now)' = Gone(src.now) \cup ToSet(Batch)
          BY <1>1, <1>2, <2>4 DEF Gone
    <3>8. Gone(src.now) \cap ToSet(Batch) = {}
          BY <2>2, <2>4 DEF Gone
    <3>9. /\ IsFiniteSet(Gone(src.now)) /\ Cardinality(Gone(src.now)) \in Nat
          BY <1>0, CountTypes
    <3>10. IsFiniteSet(ToSet(Batch)) /\ Cardinality(ToSet(Batch)) = Len(Batch)
           BY <2>2, ToSetBound, OrderedSize
    <3>11. Cardinality(Gone(src.now) \cup ToSet(Batch))
               = Cardinality(Gone(src.now)) + Cardinality(ToSet(Batch)) - Cardinality({})
           BY <3>8, <3>9, <3>10, FS_Union
    <3>12. Cardinality({}) = 0
           BY FS_EmptySet
    <3>13. Cardinality(Gone(src.now)) >= Room
           BY <1>0, <1>1, <1>3, <2>5 DEF TakeDone
    <3> QED  BY <1>0, <2>2, <3>6, <3>7, <3>9, <3>10, <3>11, <3>12, <3>13
  <2>6. TakeDone'
        BY <1>0, <1>2, <2>2, <2>4, <2>5 DEF TakeDone
  <2> QED  BY <2>3, <2>6
<1> QED  BY <1>1, <1>4, <1>5

LEMMA DeleteDoneErase ==
    ASSUME DeletingDone, Erase
    PROVE  TakeDone' /\ DeleteDone'
<1>0. /\ TypeInv /\ cmd = "delete" /\ DeleteDone /\ TakeDone /\ Pending = 0
      /\ Room \in Int /\ arrived \in Nat /\ idents \in Seq(Msgs) /\ delete_tbl = <<>>
      /\ (ret < 0 => pc \in {"end", "done", "flush"}) /\ ret \in {0, -1}
      BY DeleteTypes
<1>1. /\ pc = "erase" /\ pc' = "flush" /\ SameCommand /\ cmd' = cmd
      /\ UNCHANGED <<limit_copy, idents, delete_tbl>>
      /\ \/ ret' = 0 /\ src' = Wrote(src, Without(src.now, ToSet(idents)))
         \/ ret' = -1
      BY <1>0, EraseFacts, SameParts DEF OnlySrc
<1>2. opt' = opt /\ arrived' = arrived /\ origin' = origin
      BY <1>1 DEF SameCommand
<1>3. Doomed = ToSet(idents) /\ Doomed' = {} /\ Pending' = 0
      BY <1>0, <1>1, EmptySet DEF Doomed, Pending
<1>4. idents # <<>>
      BY <1>0, <1>1 DEF DeleteDone
<1>5. CASE ret' = -1
      BY <1>0, <1>1, <1>2, <1>3, <1>4, <1>5 DEF TakeDone, DeleteDone
<1>6. CASE ret' = 0 /\ src' = Wrote(src, Without(src.now, ToSet(idents)))
  <2>1. ToSet(idents) \in SUBSET Msgs
        BY <1>0 DEF ToSet
  <2>2. ToSet(src'.now.msgs) = ToSet(src.now.msgs) \ ToSet(idents)
        BY <1>0, <1>6, <2>1, SrcDeleted
  <2>3. src'.broken = src.broken
    <3>1. Without(src.now, ToSet(idents)) \in Contents
          BY <1>0, <2>1, SrcFields, ContentsWritten
    <3> QED  BY <1>0, <1>6, <3>1, SrcFields, SessionFields
  <2>4. Gone(src.now)' = Gone(src.now)
        BY <1>0, <1>2, <1>3, <2>2 DEF Gone, TakeDone
  <2>5. Room' = Room
        BY <1>0, <1>1, <1>2, <1>3 DEF Room
  <2>6. ret >= 0
        BY <1>0, <1>1
  <2>7. TakeDone'
        BY <1>0, <1>1, <1>2, <1>3, <2>4, <2>5, <2>6 DEF TakeDone
  <2> QED  BY <1>0, <1>1, <1>4, <2>3, <2>6, <2>7 DEF DeleteDone
<1> QED  BY <1>1, <1>5, <1>6

\* A session that is whole is the same after a flush, its contents committed.
LEMMA SrcRenewed ==
    ASSUME TypeInv, ~src.broken, Renewed(src, src'), "commit" \notin ignored'
    PROVE  src'.now = src.now /\ src'.kept = src.now /\ ~src'.broken
<1>1. src \in Session /\ src.now \in Contents
      BY SrcFields
<1>2. SessionOK(src)
      BY TypeParts DEF DbOK, src
<1>3. Committed(src) \in Session
      BY <1>1, <1>2, SessionCalls DEF SessionOK
<1>4. Committed(src).now = src.now /\ Committed(src).kept = src.now /\ ~Committed(src).broken
      BY <1>1, SessionFields
<1>5. /\ Begun(Committed(src)).now = src.now /\ Begun(Committed(src)).kept = src.now
      /\ ~Begun(Committed(src)).broken
      BY <1>1, <1>3, <1>4, SessionFields
<1> QED  BY <1>4, <1>5, Zenon DEF Renewed

LEMMA DeleteDoneFlush ==
    ASSUME DeletingDone, Flush, Sure'
    PROVE  TakeDone' /\ DeleteDone'
<1>0. /\ TypeInv /\ cmd = "delete" /\ DeleteDone /\ ept > 0 /\ ept \in Nat
      /\ idents \in Seq(Msgs) /\ Len(idents) \in Nat /\ event_no \in Nat /\ ret \in {0, -1}
      BY DeleteTypes, Numbers
<1>1. /\ pc = "flush" /\ (Flushed(Increment) \/ NotFlushed(Increment)) /\ SameCommand
      /\ ret' = ret /\ pc' \in {"fetch", "end"} /\ (pc' = "fetch" => ret >= 0)
      /\ limit_copy' = limit_copy /\ idents' = idents /\ cmd' = cmd /\ ept' = ept
      BY <1>0, FlushActionFacts, SameParts
<1>2. ASSUME ret >= 0
      PROVE  src'.now = src.now /\ ~src'.broken /\ (ept <= 1 => src'.kept = src.now)
  <2>1. ~src.broken /\ idents # <<>>
        BY <1>0, <1>1, <1>2 DEF DeleteDone
  <2>2. Len(idents) # 0
        BY <1>0, <2>1
  <2>3. Increment \in Nat /\ Increment >= 1
        BY <1>0, <2>2 DEF Increment
  <2>4. CASE Flushed(Increment)
    <3>1. Renewed(src, src')
          BY <1>0, <2>4 DEF Flushed
    <3> QED  BY <1>0, <2>1, <3>1, SrcRenewed DEF Sure
  <2>5. CASE NotFlushed(Increment)
    <3>1. src' = src
          BY <2>5 DEF NotFlushed, src
    <3>2. ~(ept <= 1)
          BY <1>0, <2>3, <2>5 DEF NotFlushed, FlushIsDue
    <3> QED  BY <2>1, <3>1, <3>2
  <2> QED  BY <1>1, <2>4, <2>5
<1>3. DeleteDone'
      BY <1>0, <1>1, <1>2 DEF DeleteDone
<1>4. TakeDone'
      BY <1>1, <1>2, TakeDoneKept DEF SameCommand, Next, Step
<1> QED  BY <1>3, <1>4

LEMMA DeleteDoneArrive ==
    ASSUME DeletingDone, Arrive
    PROVE  TakeDone' /\ DeleteDone'
<1>0. TypeInv /\ DeleteDone /\ TakeDone
      BY DeleteTypes
<1>1. /\ src'.now = With(src.now, arrived + 1) /\ src'.kept = With(src.kept, arrived + 1)
      /\ ept' = ept /\ pc' = pc /\ ret' = ret /\ idents' = idents
      BY <1>0, ArriveFacts
<1>2. src'.broken = src.broken
  <2>1. src' = ArrivedIn(src) /\ src \in Session
        BY <1>0, ArriveFacts, SrcFields DEF OnlySrc
  <2> QED  BY <2>1 DEF ArrivedIn, Session
<1>3. TakeDone' /\ ToSet(src.now.msgs) \subseteq ToSet(src'.now.msgs)
      BY <1>0, TakeDoneArrive
<1> QED  BY <1>0, <1>1, <1>2, <1>3 DEF DeleteDone

\* The end of the command, with no COMMIT failing unnoticed: the transaction
\* in hand is committed, unless it is of one message.
LEMMA DeleteFinish ==
    ASSUME DeletingDone, Finish, Sure'
    PROVE  /\ src' = Committed(src) \/ (src' = RolledBack(src) /\ (ret >= 0 => ept <= 1))
           /\ ~src'.broken
<1>0. TypeInv /\ cmd = "delete" /\ src \in Session /\ src.now \in Contents
      /\ cmd \notin Readers /\ ept \in Nat
      BY DeleteTypes, SrcFields, Numbers DEF Readers
<1>1. \/ db' = [db EXCEPT ![Target] = Committed(db[Target])]
      \/ db' = [db EXCEPT ![Target] = RolledBack(db[Target])] /\ IgnoredFault("commit")
      \/ /\ db' = [db EXCEPT ![Target] = RolledBack(db[Target])]
         /\ ~(cmd \notin Readers /\ ept > 1 /\ ret >= 0)
      BY Zenon DEF Finish
<1>2. ~IgnoredFault("commit")
      BY DEF IgnoredFault, Sure
<1>3. \/ OnlySrc(Committed(src))
      \/ OnlySrc(RolledBack(src)) /\ ~(cmd \notin Readers /\ ept > 1 /\ ret >= 0)
  <2>1. \A s : db' = [db EXCEPT ![Target] = s] => OnlySrc(s)
        BY <1>0, TargetChanged
  <2>2. db[Target] = src
        BY <1>0 DEF Target, src
  <2> QED  BY <1>1, <1>2, <2>1, <2>2, Zenon
<1>4. src' = Committed(src) \/ (src' = RolledBack(src) /\ (ret >= 0 => ept <= 1))
      BY <1>0, <1>3 DEF OnlySrc
<1>5. ~src'.broken
      BY <1>0, <1>4, SessionFields
<1> QED  BY <1>4, <1>5

LEMMA DeleteDoneStep ==
    ASSUME DeletingDone, [Next]_vars, Sure', "delete" \notin Resumable
    PROVE  TakeDone' /\ DeleteDone'
<1>0. /\ TypeInv /\ cmd = "delete" /\ TakeDone /\ DeleteDone /\ delete_tbl = <<>>
      /\ cmd' = cmd /\ TypeInv'
      BY DeleteTypes, SameRun, TypeStep
<1>1. CASE \/ CopyMessage \/ TrackDeletion \/ IdentFails \/ EndOfBatch \/ DeleteRest \/ Emit
           \/ OpenFile \/ NoMoreFiles \/ EndOfFile \/ SkipMessage \/ LoadMessage
  <2>1. cmd \in {"copy", "move", "load"} \cup Readers
        BY <1>0, <1>1, CopyMessageFacts, TrackDeletionFacts, IdentFailsFacts, EndOfBatchFacts,
           DeleteRestFacts, EmitFacts, OpenFileFacts, ReadFacts, LoadMessageFacts DEF TypeInv, Phase
  <2> QED  BY <1>0, <2>1 DEF Readers
<1>2. CASE Finish
  <2>1. SameCommand /\ pc' = "done" /\ ~src'.broken
        BY <1>0, <1>2, FinishFacts, DeleteFinish
  <2>2. DeleteDone'
        BY <2>1 DEF DeleteDone
  <2>3. Doomed' = {}
    <3>1. delete_tbl' = <<>>
          BY <1>0 DEF TypeInv, Phase
    <3> QED  BY <2>1, <3>1, EmptySet DEF Doomed
  <2>4. TakeDone'
        BY <1>0, <2>1, <2>3 DEF TakeDone, SameCommand
  <2> QED  BY <2>2, <2>4
<1>3. CASE Resume
      BY <1>0, <1>3, ResumeFacts
<1>4. CASE Signal \/ UNCHANGED vars
  <2>1. UNCHANGED <<opt, origin, db, arrived, pc, ret, limit_copy, idents, ident_idx, delete_tbl>>
    <3>1. CASE UNCHANGED vars
          BY <3>1, Zenon DEF vars, countVars, batchVars, envVars
    <3>2. CASE Signal
          BY <1>0, <3>2, SignalFacts
    <3> QED  BY <1>4, <3>1, <3>2
  <2>2. /\ opt' = opt /\ origin' = origin /\ src' = src /\ arrived' = arrived /\ pc' = pc
        /\ ret' = ret /\ limit_copy' = limit_copy /\ idents' = idents /\ ident_idx' = ident_idx
        /\ delete_tbl' = delete_tbl /\ ept' = ept
        BY <2>1, Zenon DEF src, ept
  <2>3. Pending' = Pending /\ Doomed' = Doomed
        BY <1>0, <2>2 DEF Pending, Doomed
  <2>4. Room' = Room /\ Gone(src.now)' = Gone(src.now)
        BY <2>2, <2>3 DEF Room, Gone
  <2> QED  BY <1>0, <2>2, <2>3, <2>4 DEF TakeDone, DeleteDone
<1>5. CASE Step
      BY <1>1, <1>2, <1>5, DeleteDoneStart, DeleteDoneFetch, DeleteDoneErase,
         DeleteDoneFlush, Zenon DEF Step
<1> QED  BY <1>3, <1>4, <1>5, DeleteDoneArrive, Zenon DEF Next

\* A deletion that has succeeded: nothing it is asked for is left in what its
\* session sees, nor in what is committed once it has ended.
DeleteOver ==
    /\ Known \cap ToSet(src.now.msgs) = {}
    /\ ept <= 1 => src.now = src.kept
    /\ pc = "done" => Known \cap ToSet(src.kept.msgs) = {}

LEMMA DeleteOverStep ==
    ASSUME DeletingDone, Over => DeleteOver, [Next]_vars, Sure', Over'
    PROVE  DeleteOver'
<1>0. /\ TypeInv /\ cmd = "delete" /\ TakeDone /\ DeleteDone /\ KeepingNow /\ Listed
      /\ Offsets /\ ret \in {0, -1} /\ (ret < 0 => pc \in {"end", "done", "flush"})
      /\ Known' = Known /\ ept' = ept
      BY DeleteTypes, SameRun
<1>1. CASE Over /\ UNCHANGED vars
  <2>1. src' = src /\ pc' = pc
        BY <1>1, Zenon DEF vars, src
  <2> QED  BY <1>0, <1>1, <2>1 DEF DeleteOver
<1>2. CASE Over /\ Arrive
  <2>1. pc # "done" /\ pc' = pc /\ (src.now = src.kept => src'.now = src'.kept)
        BY <1>0, <1>2, ArriveFacts DEF Arrive
  <2> QED  BY <1>0, <1>2, <2>1, ArrivalNotKnown DEF DeleteOver
<1>3. CASE Over /\ Finish
  <2>1. ret >= 0 /\ ~src.broken
        BY <1>0, <1>3 DEF Over, DeleteDone
  <2>2. src'.now = src.now /\ src'.kept = src.now
    <3>1. src \in Session /\ src.now \in Contents
          BY <1>0, SrcFields
    <3>2. CASE src' = Committed(src)
          BY <2>1, <3>1, <3>2, SessionFields
    <3>3. CASE src' = RolledBack(src) /\ ept <= 1
          BY <1>3, <3>1, <3>3, SessionFields DEF DeleteOver
    <3> QED  BY <1>3, <2>1, <3>2, <3>3, DeleteFinish
  <2> QED  BY <1>0, <1>3, <2>2 DEF DeleteOver
<1>4. CASE Fetch /\ Batch = <<>>
  <2>1. pc = "fetch" /\ pc' # "done" /\ src' = src /\ ret >= 0
        BY <1>0, <1>4, FetchFacts DEF src
  <2>2. Known \cap ToSet(src.now.msgs) = {}
        BY <1>0, <1>4, <2>1, NothingLeft DEF TakeDone
  <2> QED  BY <1>0, <2>1, <2>2 DEF DeleteOver, DeleteDone
<1>5. CASE NoMoreFiles
      BY <1>0, <1>5, ReadFacts
<1> QED  BY <1>0, <1>1, <1>2, <1>3, <1>4, <1>5, OverStep

(***************************************************************************)
(* A load.  The destination has what --criteria selects of what the load    *)
(* has gone past, and has committed it up to what is counted.               *)
(***************************************************************************)
LoadThrough(S, n) ==
    \A k \in 1..Len(InFiles) : origin + k <= n /\ InFiles[k] \in Matching => InFiles[k] \in S
AllRead == origin + Len(InFiles) <= Passed
LoadDone ==
    /\ LoadCursor
    /\ LoadThrough(ToSet(dst.kept.msgs), Reached)
    /\ pc # "done" => LoadThrough(ToSet(dst.now.msgs), Passed)
    /\ pc = "open" /\ fileno > Len(files) /\ Running => AllRead
LoadingDone == DoneBase /\ cmd = "load" /\ LoadDone

LEMMA LoadTypes ==
    ASSUME LoadingDone
    PROVE  /\ TypeInv /\ Whole /\ LoadBound /\ LoadDone /\ LoadCursor /\ Offsets /\ cmd = "load"
           /\ ept > 0 /\ ept \in Nat /\ Passed \in Nat /\ Reached \in Nat
           /\ opt.offset \in Nat /\ cur_count \in Nat /\ event_no \in Nat /\ origin \in Nat
           /\ opt.limit \in Int /\ Len(InFiles) \in Nat /\ InFiles \in Seq(Msgs)
           /\ (ret < 0 => pc \in {"end", "done"}) /\ ret \in {0, -1}
<1>1. /\ TypeInv /\ Whole /\ Bounded /\ Offsets /\ Returned /\ LoadDone /\ cmd = "load"
      BY DEF LoadingDone, DoneBase, OrderBase, BoundedInv
<1>2. ret \in {0, -1}
      BY <1>1 DEF TypeInv, TypeOK
<1> QED  BY <1>1, <1>2, OrderTypes, Numbers, FileParts DEF Bounded, Offsets, Returned, Stuck,
              LoadDone

\* A step that inserts nothing.
LEMMA LoadDoneKept ==
    ASSUME LoadingDone, LoadCursor', files' = files, origin' = origin,
           \/ dst'.kept.msgs = dst.kept.msgs /\ Reached' = Reached
           \/ pc # "done" /\ dst'.kept.msgs = dst.now.msgs /\ Reached' = Passed,
           \/ pc' = "done"
           \/ pc # "done" /\ dst'.now.msgs = dst.now.msgs /\ Passed' = Passed
           \/ dst'.now.msgs = dst'.kept.msgs /\ Passed' = Reached',
           pc' = "open" /\ fileno' > Len(files) /\ Running' => AllRead'
    PROVE  LoadDone'
<1>1. InFiles' = InFiles
      BY FilesKept
<1>2. /\ LoadThrough(ToSet(dst.kept.msgs), Reached)
      /\ pc # "done" => LoadThrough(ToSet(dst.now.msgs), Passed)
      BY DEF LoadingDone, LoadDone
<1>3. LoadThrough(ToSet(dst'.kept.msgs), Reached')
      BY <1>2
<1>4. pc' # "done" => LoadThrough(ToSet(dst'.now.msgs), Passed')
      BY <1>2, <1>3
<1>5. /\ LoadThrough(ToSet(dst.kept.msgs), Reached)'
      /\ (pc' # "done" => LoadThrough(ToSet(dst.now.msgs), Passed)')
      BY <1>1, <1>3, <1>4 DEF LoadThrough
<1> QED  BY <1>5 DEF LoadDone

\* The last file is read to its end.
LEMMA LastFile ==
    ASSUME TypeInv, LoadCursor, pc = "read", Running, ident_idx > Len(idents),
           fileno + 1 > Len(files)
    PROVE  AllRead
<1>1. /\ fileno \in 1..Len(files) /\ fileno = Len(files)
  <2>1. fileno \in 1..(Len(files) + 1) /\ fileno <= Len(files) /\ Len(files) \in Nat
        BY FileParts DEF TypeInv, TypeOK, Phase
  <2> QED  BY <2>1
<1>2. /\ idents = files[fileno] /\ Cursor >= opt.offset /\ opt.offset >= origin
      /\ Passed = Starts[fileno - 1] + Cursor
      BY DEF LoadCursor, InFile
<1> DEFINE n == Len(idents)
<1>3. /\ n \in Nat /\ origin \in Nat /\ opt.offset \in Nat /\ offset_copy \in Nat
      /\ ident_idx = n + 1
  <2>1. n \in Nat /\ ident_idx \in Nat /\ ident_idx <= n + 1 /\ ident_idx > n
        BY Numbers
  <2> HIDE DEF n
  <2> QED  BY <2>1, OrderTypes
<1>4. Cursor = n + offset_copy
      BY <1>3 DEF Cursor
<1>5. /\ Starts[fileno - 1] \in Nat
      /\ origin < n => Starts[fileno] = Starts[fileno - 1] + (n - origin)
      /\ origin >= n => Starts[fileno] = Starts[fileno - 1]
      BY <1>1, <1>2, FileParts
<1>6. Starts[fileno] = Len(InFiles)
      BY <1>1, LastStart
<1> HIDE DEF n
<1> QED  BY <1>2, <1>3, <1>4, <1>5, <1>6 DEF AllRead

LEMMA LoadDoneStart ==
    ASSUME LoadingDone, Start
    PROVE  LoadDone'
<1>0. TypeInv /\ cmd = "load" /\ LoadCursor /\ opt.offset \in Nat /\ origin \in Nat
      BY LoadTypes
<1>1. /\ pc = "start" /\ pc' = "open" /\ SameCommand /\ fileno' = fileno /\ cur_count' = cur_count
      BY <1>0, StartFacts
<1>2. dst'.now.msgs = dst.now.msgs /\ dst'.kept.msgs = dst.kept.msgs
      BY <1>0, StartFacts, BegunFacts DEF OnlyDst, dst
<1>3. opt' = opt /\ files' = files /\ origin' = origin
      BY <1>1, SameParts DEF SameCommand
<1>4. Reached' = Reached
      BY <1>1, <1>3 DEF Reached
<1>5. LoadCursor' /\ Passed = opt.offset /\ Passed' = Passed
      BY <1>0, LoadCursorStart
<1>6. ASSUME fileno > Len(files) PROVE AllRead'
  <2>1. fileno = 1 /\ Len(files) \in Nat
        BY <1>0, <1>1, FileParts DEF LoadCursor
  <2>2. Len(files) = 0
        BY <1>6, <2>1
  <2>3. Len(InFiles) = 0
        BY <1>0, <2>2, LastStart, FileParts
  <2>4. opt.offset >= origin
        BY <1>0 DEF LoadCursor
  <2>5. InFiles' = InFiles
        BY <1>3, FilesKept
  <2> QED  BY <1>0, <1>3, <1>5, <2>3, <2>4, <2>5 DEF AllRead
<1> QED  BY <1>1, <1>2, <1>3, <1>4, <1>5, <1>6, LoadDoneKept

LEMMA LoadDoneOpen ==
    ASSUME LoadingDone, OpenFile
    PROVE  LoadDone'
<1>0. TypeInv /\ LoadCursor
      BY LoadTypes
<1>1. /\ pc = "open" /\ SameCommand /\ cur_count' = cur_count /\ event_no' = event_no
      /\ \/ pc' = "read" /\ db' = db
         \/ pc' = "done" /\ OnlyDst(RolledBack(dst))
      BY <1>0, OpenFileFacts
<1>2. opt' = opt /\ files' = files /\ origin' = origin
      BY <1>1, SameParts DEF SameCommand
<1>3. LoadCursor'
      BY <1>0, LoadCursorOpen
<1>4. Reached' = Reached
      BY <1>1, <1>2 DEF Reached
<1>5. Passed' = Passed
      BY <1>0, <1>1, <1>4, NumbersKept
<1>6. dst'.kept.msgs = dst.kept.msgs /\ (pc' = "read" => dst'.now.msgs = dst.now.msgs)
  <2>1. CASE pc' = "read" /\ db' = db
        BY <2>1 DEF dst
  <2>2. CASE pc' = "done" /\ OnlyDst(RolledBack(dst))
        BY <2>2 DEF OnlyDst, RolledBack, NewSession
  <2> QED  BY <1>1, <2>1, <2>2
<1> QED  BY <1>1, <1>2, <1>3, <1>4, <1>5, <1>6, LoadDoneKept

LEMMA LoadDoneRead ==
    ASSUME LoadingDone, NoMoreFiles \/ EndOfFile \/ SkipMessage
    PROVE  LoadDone'
<1>0. TypeInv /\ LoadCursor
      BY LoadTypes
<1>1. /\ pc \in {"open", "read"} /\ SameCommand /\ cur_count' = cur_count /\ db' = db
      /\ pc' \in {"end", "open", "read"} /\ stop_processing' = stop_processing
      BY <1>0, ReadFacts
<1>2. opt' = opt /\ files' = files /\ origin' = origin /\ dst' = dst
      BY <1>1, SameParts DEF SameCommand, dst
<1>3. LoadCursor' /\ Passed' = Passed
      BY <1>0, LoadCursorRead
<1>4. Reached' = Reached
      BY <1>1, <1>2 DEF Reached
<1>5. ASSUME pc' = "open", fileno' > Len(files), Running' PROVE AllRead'
  <2>1. InFiles' = InFiles /\ Running' = Running
        BY <1>1, <1>2, FilesKept DEF Running, LimitReached
  <2>2. pc = "read" /\ fileno' = fileno + 1 /\ ident_idx > Len(idents)
        BY <1>1, <1>5, <2>1 DEF NoMoreFiles, EndOfFile, SkipMessage, Running
  <2>3. AllRead
        BY <1>0, <1>5, <2>1, <2>2, LastFile
  <2> QED  BY <1>2, <1>3, <2>1, <2>3 DEF AllRead
<1> QED  BY <1>1, <1>2, <1>3, <1>4, <1>5, LoadDoneKept

LEMMA LoadDoneMessage ==
    ASSUME LoadingDone, LoadMessage
    PROVE  LoadDone'
<1> DEFINE m == idents[ident_idx]
<1>0. /\ TypeInv /\ LoadDone /\ LoadCursor /\ Passed \in Nat /\ Reached \in Nat /\ origin \in Nat
      BY LoadTypes
<1>1. /\ LoadCursor' /\ Reached' = Reached /\ Passed' = Passed + Due'
      /\ pc = "read" /\ Running /\ ident_idx <= Len(idents) /\ offset_copy = 0
      BY <1>0, LoadCursorMessage
<1>2. SameCommand /\ m \in Msgs
      BY <1>0, LoadMessageFacts
<1>3. files' = files /\ origin' = origin /\ InFiles' = InFiles
      BY <1>2, SameParts, FilesKept DEF SameCommand
<1>4. \/ pc' = "flush" /\ m \in Matching /\ dst' = Wrote(dst, With(dst.now, m))
      \/ pc' = "flush" /\ m \notin Matching /\ dst' = dst
      \/ pc' = "end" /\ dst' = dst
      \/ pc' = "end" /\ dst' = Failed(dst, Torn(dst.now, {m}))
      BY <1>0, LoadMessageOutcomes
<1>5. /\ InFiles[(Passed - origin) + 1] = m
      /\ LoadThrough(ToSet(dst.kept.msgs), Reached) /\ LoadThrough(ToSet(dst.now.msgs), Passed)
      BY <1>0, <1>1, NextToLoad DEF LoadDone
<1> HIDE DEF m
<1>6. CASE pc' = "end" /\ (dst' = dst \/ dst' = Failed(dst, Torn(dst.now, {m})))
  <2>1. dst'.now.msgs = dst.now.msgs /\ dst'.kept.msgs = dst.kept.msgs
    <3>1. dst' = dst \/ HalfInserted(m)
          BY <1>0, <1>2, <1>6, InsertedFacts
    <3> QED  BY <3>1 DEF HalfInserted
  <2>2. Passed' = Passed
    <3>1. Due' = 0
          BY <1>6 DEF Due
    <3> QED  BY <1>0, <1>1, <3>1
  <2> QED  BY <1>1, <1>3, <1>6, <2>1, <2>2, LoadDoneKept
<1>7. CASE /\ pc' = "flush"
           /\ \/ m \in Matching /\ dst' = Wrote(dst, With(dst.now, m))
              \/ m \notin Matching /\ dst' = dst
  <2>1. Passed' = Passed + 1
    <3>1. Due' = 1
          BY <1>7 DEF Due
    <3> QED  BY <1>1, <3>1
  <2>2. /\ ToSet(dst.now.msgs) \subseteq ToSet(dst'.now.msgs)
        /\ ToSet(dst.kept.msgs) \subseteq ToSet(dst'.kept.msgs)
        /\ m \in Matching => m \in ToSet(dst'.now.msgs)
    <3>1. CASE m \in Matching /\ dst' = Wrote(dst, With(dst.now, m))
      <4>1. Inserted(m)
            BY <1>0, <1>2, <3>1, InsertedFacts
      <4>2. /\ dst'.now.msgs = Append(dst.now.msgs, m) /\ dst.now.msgs \in Seq(Msgs)
            /\ dst'.kept = IF dst.tx THEN dst.kept ELSE dst'.now
            /\ ~dst.tx => dst.now = dst.kept
            BY <1>0, <1>2, <4>1, DstLengths, WithFields DEF Inserted
      <4>3. ToSet(dst'.now.msgs) = ToSet(dst.now.msgs) \cup {m}
            BY <4>2, ToSetAppend
      <4> QED  BY <4>2, <4>3
    <3>2. CASE m \notin Matching /\ dst' = dst
          BY <3>2
    <3> QED  BY <1>7, <3>1, <3>2
  <2>3. LoadThrough(ToSet(dst'.kept.msgs), Reached')
        BY <1>1, <1>5, <2>2 DEF LoadThrough
  <2>4. LoadThrough(ToSet(dst'.now.msgs), Passed')
    <3> SUFFICES ASSUME NEW k \in 1..Len(InFiles), origin + k <= Passed + 1,
                        InFiles[k] \in Matching
                 PROVE  InFiles[k] \in ToSet(dst'.now.msgs)
        BY <2>1 DEF LoadThrough
    <3>1. Len(InFiles) \in Nat /\ k \in Nat
          BY LoadTypes
    <3>2. CASE origin + k <= Passed
          BY <1>5, <2>2, <3>2 DEF LoadThrough
    <3>3. CASE origin + k = Passed + 1
      <4>1. k = (Passed - origin) + 1
            BY <1>0, <3>1, <3>3
      <4> QED  BY <1>5, <2>2, <4>1
    <3> QED  BY <1>0, <3>1, <3>2, <3>3
  <2>5. LoadThrough(ToSet(dst.kept.msgs), Reached)' /\ LoadThrough(ToSet(dst.now.msgs), Passed)'
        BY <1>3, <2>3, <2>4 DEF LoadThrough
  <2> QED  BY <1>1, <1>7, <2>5 DEF LoadDone
<1> QED  BY <1>4, <1>6, <1>7

LEMMA LoadDoneFlush ==
    ASSUME LoadingDone, Flush, Sure'
    PROVE  LoadDone'
<1>0. TypeInv /\ Whole /\ LoadCursor /\ cmd = "load" /\ ept > 0
      BY LoadTypes
<1>1. /\ pc = "flush" /\ pc' = "read" /\ SameCommand /\ (Flushed(Due) \/ NotFlushed(Due))
      /\ Due' = 0
  <2>1. pc = "flush"
        BY <1>0, FlushActionFacts
  <2>2. Increment = Due
        BY <1>0, <2>1 DEF Increment, Due
  <2> QED  BY <1>0, <2>2, FlushActionFacts DEF Due
<1>2. opt' = opt /\ files' = files /\ origin' = origin
      BY <1>1, SameParts DEF SameCommand
<1>3. LoadCursor' /\ Passed' = Passed
      BY <1>0, LoadCursorFlush
<1>4. /\ dst'.now.msgs = dst.now.msgs
      /\ \/ dst'.kept.msgs = dst.kept.msgs /\ Reached' = Reached
         \/ dst'.kept.msgs = dst.now.msgs /\ Reached' = Passed
  <2>1. CASE Flushed(Due)
    <3>1. Renewed(dst, dst') /\ ~dst.broken
          BY <1>0, <1>1, <2>1 DEF Flushed, Whole
    <3>2. dst'.now = dst.now /\ dst'.kept = dst.now
          BY <1>0, <3>1, RenewedWhole DEF Sure
    <3> QED  BY <1>0, <1>1, <1>2, <2>1, <3>2, PassedFlushed
  <2>2. CASE NotFlushed(Due)
    <3>1. dst' = dst
          BY <2>2 DEF NotFlushed, dst
    <3> QED  BY <1>0, <1>1, <1>2, <2>2, <3>1, PassedFlushed
  <2> QED  BY <1>1, <2>1, <2>2
<1> QED  BY <1>1, <1>2, <1>3, <1>4, LoadDoneKept

\* The end of a load that succeeds commits all that was gone past.
LEMMA LoadFinish ==
    ASSUME LoadingDone, Finish, Sure'
    PROVE  /\ opt' = opt /\ cur_count' \in Nat /\ cur_count' >= cur_count
           /\ Over' => Reached' = Passed
           /\ \/ dst'.kept.msgs = dst.kept.msgs /\ Reached' = Reached
              \/ dst'.kept.msgs = dst.now.msgs /\ Reached' = Passed
<1>0. /\ TypeInv /\ Whole /\ LoadBound /\ cmd = "load" /\ ept > 0 /\ ept \in Nat
      /\ opt.offset \in Nat /\ cur_count \in Nat /\ event_no \in Nat
      BY LoadTypes
<1>1. /\ pc = "end" /\ pc' = "done" /\ SameCommand /\ ret' = ret
      BY <1>0, FinishFacts
<1>2. opt' = opt
      BY <1>1 DEF SameCommand
<1>3. \/ /\ ept > 1 /\ ret >= 0 /\ dst' = Committed(dst) /\ cur_count' = cur_count + event_no
      \/ ~(ept > 1 /\ ret >= 0) /\ dst' = RolledBack(dst) /\ cur_count' = cur_count
      BY <1>0, SureFinish DEF Inserting
<1>4. Passed = opt.offset + cur_count + event_no + 0
      BY <1>1 DEF Passed, Reached, Due
<1>5. CASE /\ ept > 1 /\ ret >= 0 /\ dst' = Committed(dst) /\ cur_count' = cur_count + event_no
  <2>1. dst'.kept = dst.now
    <3>1. ~dst.broken
          BY <1>0, <1>5 DEF Whole
    <3> QED  BY <1>5, <3>1 DEF Committed, NewSession
  <2>2. Reached' = Passed
    <3>1. Reached' = opt.offset + (cur_count + event_no)
          BY <1>2, <1>5 DEF Reached
    <3> QED  BY <1>0, <1>4, <3>1
  <2> QED  BY <1>0, <1>2, <1>5, <2>1, <2>2
<1>6. CASE ~(ept > 1 /\ ret >= 0) /\ dst' = RolledBack(dst) /\ cur_count' = cur_count
  <2>1. dst'.kept = dst.kept /\ Reached' = Reached
        BY <1>2, <1>6 DEF RolledBack, NewSession, Reached
  <2>2. ASSUME Over' PROVE Reached' = Passed
    <3>1. event_no = 0
          BY <1>0, <1>1, <1>6, <2>2 DEF Over, LoadBound
    <3>2. Passed = Reached
          BY <1>0, <1>4, <3>1 DEF Reached
    <3> QED  BY <2>1, <3>2
  <2> QED  BY <1>0, <1>2, <1>6, <2>1, <2>2
<1> QED  BY <1>3, <1>5, <1>6

LEMMA LoadDoneStep ==
    ASSUME LoadingDone, [Next]_vars, Sure'
    PROVE  LoadDone'
<1>0. /\ TypeInv /\ cmd = "load" /\ LoadDone /\ LoadCursor /\ LoadBound /\ ept > 0
      /\ Passed \in Nat /\ Reached \in Nat /\ opt.offset \in Nat /\ cur_count \in Nat
      BY LoadTypes
<1>1. /\ LoadCursor' /\ files' = files /\ origin' = origin /\ cmd' = cmd
      BY <1>0, LoadCursorStep, SameRun
<1>2. CASE UNCHANGED vars \/ Signal
  <2>1. /\ UNCHANGED <<opt, origin, db, pc, cur_count, event_no, fileno>>
        /\ ~stop_processing' => ~stop_processing
    <3>1. CASE UNCHANGED vars
          BY <3>1, Zenon DEF vars, countVars, batchVars, envVars
    <3>2. CASE Signal
          BY <1>0, <3>2, SignalFacts DEF Signal
    <3> QED  BY <1>2, <3>1, <3>2
  <2>2. /\ opt' = opt /\ dst' = dst /\ pc' = pc /\ cur_count' = cur_count /\ event_no' = event_no
        /\ fileno' = fileno
        BY <2>1, Zenon DEF dst
  <2>3. Reached' = Reached /\ Due' = Due
        BY <2>2 DEF Reached, Due
  <2>4. Passed' = Passed
        BY <2>2, <2>3 DEF Passed
  <2>5. InFiles' = InFiles /\ (Running' => Running)
        BY <1>1, <2>1, <2>2, FilesKept DEF Running, LimitReached
  <2>6. AllRead => AllRead'
        BY <1>1, <2>4, <2>5 DEF AllRead
  <2>7. pc' = "open" /\ fileno' > Len(files) /\ Running' => AllRead'
        BY <1>0, <2>2, <2>5, <2>6 DEF LoadDone
  <2>8. CASE pc = "done"
        BY <1>1, <2>2, <2>3, <2>7, <2>8, LoadDoneKept
  <2>9. CASE pc # "done"
        BY <1>1, <2>2, <2>3, <2>4, <2>7, <2>9, LoadDoneKept
  <2> QED  BY <2>8, <2>9
<1>3. CASE Finish
  <2>1. pc = "end" /\ pc' = "done"
        BY <1>0, <1>3, FinishFacts
  <2> QED  BY <1>1, <1>3, <2>1, LoadFinish, LoadDoneKept
<1>4. CASE Resume
  <2>1. /\ pc = "done" /\ pc' = "start" /\ opt'.offset = opt.offset + cur_count /\ cur_count' = 0
        /\ event_no' = 0 /\ dst' = dst
        BY <1>0, <1>4, ResumeFacts DEF dst
  <2>2. Reached' = Reached
    <3>1. Reached' = (opt.offset + cur_count) + 0
          BY <2>1 DEF Reached
    <3> QED  BY <1>0, <3>1 DEF Reached
  <2>3. Passed' = Reached'
    <3>1. Passed' = Reached + 0 + 0
          BY <2>1, <2>2 DEF Passed, Due
    <3> QED  BY <1>0, <2>2, <3>1
  <2>4. dst'.now.msgs = dst'.kept.msgs
        BY <1>0, <2>1 DEF LoadBound, Level
  <2> QED  BY <1>1, <2>1, <2>2, <2>3, <2>4, LoadDoneKept
<1>5. CASE \/ Fetch \/ CopyMessage \/ TrackDeletion \/ IdentFails \/ EndOfBatch \/ DeleteRest
           \/ Erase \/ Emit \/ Arrive
  <2>1. cmd # "load"
        BY <1>0, <1>5, FetchFacts, CopyMessageFacts, TrackDeletionFacts, IdentFailsFacts, EndOfBatchFacts,
           DeleteRestFacts, EraseFacts, EmitFacts, ArriveFacts DEF TypeInv, Phase, Readers
  <2> QED  BY <1>0, <2>1
<1>6. CASE Step
      BY <1>3, <1>5, <1>6, LoadDoneStart, LoadDoneOpen, LoadDoneRead, LoadDoneMessage,
         LoadDoneFlush, Zenon DEF Step
<1> QED  BY <1>2, <1>4, <1>5, <1>6, Zenon DEF Next

\* A load that succeeds has gone past everything, or as far as --count.
LoadOver ==
    \/ LimitReached
    \/ origin + Len(InFiles) <= (IF pc = "done" THEN Reached ELSE Passed)

LEMMA LoadOverStep ==
    ASSUME LoadingDone, Over => LoadOver, [Next]_vars, Sure', Over'
    PROVE  LoadOver'
<1>0. /\ TypeInv /\ cmd = "load" /\ LoadDone /\ cur_count \in Nat /\ opt.limit \in Int
      BY LoadTypes
<1>1. InFiles' = InFiles /\ origin' = origin
      BY <1>0, SameRun, FilesKept
<1>2. CASE Over /\ Finish
  <2>1. /\ opt' = opt /\ cur_count' \in Nat /\ cur_count' >= cur_count /\ Reached' = Passed
        BY <1>2, LoadFinish
  <2>2. LimitReached => LimitReached'
        BY <1>0, <2>1 DEF LimitReached
  <2>3. pc = "end" /\ pc' = "done"
        BY <1>0, <1>2, FinishFacts
  <2> QED  BY <1>1, <1>2, <2>1, <2>2, <2>3 DEF LoadOver
<1>3. CASE Over /\ UNCHANGED vars
  <2>1. opt' = opt /\ pc' = pc /\ cur_count' = cur_count /\ event_no' = event_no
        BY <1>3, Zenon DEF vars, countVars
  <2>2. Reached' = Reached /\ Due' = Due /\ LimitReached' = LimitReached
        BY <2>1 DEF Reached, Due, LimitReached
  <2>3. Passed' = Passed
        BY <2>1, <2>2 DEF Passed
  <2> QED  BY <1>1, <1>3, <2>1, <2>2, <2>3 DEF LoadOver
<1>4. CASE NoMoreFiles
  <2>1. pc = "open" /\ pc' = "end" /\ fileno > Len(files)
        BY <1>4 DEF NoMoreFiles
  <2>2. SameCommand /\ cur_count' = cur_count /\ event_no' = event_no
        /\ stop_processing' = stop_processing
        BY <1>0, <1>4, ReadFacts
  <2>3. opt' = opt
        BY <2>2 DEF SameCommand
  <2>4. Reached' = Reached /\ LimitReached' = LimitReached
        BY <2>2, <2>3 DEF Reached, LimitReached
  <2>5. Passed' = Passed
        BY <1>0, <2>1, <2>2, <2>4, NumbersKept
  <2>6. CASE LimitReached
        BY <2>4, <2>6 DEF LoadOver
  <2>7. CASE ~LimitReached
    <3>1. AllRead
          BY <1>0, <2>1, <2>2, <2>7 DEF LoadDone, Running, Over
    <3> QED  BY <1>1, <2>1, <2>5, <3>1 DEF LoadOver, AllRead
  <2> QED  BY <2>6, <2>7
<1>5. CASE Fetch \/ Arrive
      BY <1>0, <1>5, FetchFacts, ArriveFacts DEF TypeInv, Phase
<1> QED  BY <1>0, <1>2, <1>3, <1>4, <1>5, OverStep

(***************************************************************************)
(* Every command.                                                           *)
(***************************************************************************)
DoneParts ==
    /\ cmd = "copy" => CopyDone /\ (Over => Within(Reached))
    /\ cmd \in Readers => ReadDone /\ (opt.limit < 0 \/ cmd = "print" => (Over => Within(Reached)))
    /\ cmd = "move" => TakeDone /\ MoveDone /\ (Over => MoveOver)
    /\ cmd = "delete" => TakeDone /\ DeleteDone /\ (Over => DeleteOver)
    /\ cmd = "load" => LoadDone /\ (Over => LoadOver)
DoneInv == DoneBase /\ Sourced /\ (Sure => DoneParts)

LEMMA InitDone ==
    ASSUME Init, ept > 0
    PROVE  DoneInv
<1>0. TypeInv
      BY InitType
<1>1. /\ dst = NewSession(Empty) /\ pc = "start" /\ cur_count = 0 /\ event_no = 0 /\ fileno = 1
      /\ opt.offset = origin /\ arrived = NumMsgs /\ delete_tbl = <<>> /\ limit_copy = opt.limit
      /\ output = <<>> /\ missed = {} /\ ret = 0 /\ origin \in Nat /\ opt.limit \in Int
      /\ src = NewSession([Empty EXCEPT !.msgs = [i \in 1..NumMsgs |-> i]])
      BY <1>0, OrderTypes, Numbers DEF Init, dst, src
<1>2. /\ dst.now.msgs = <<>> /\ dst.kept.msgs = <<>> /\ src.now.msgs = FirstMsgs(arrived)
      /\ src.now = src.kept /\ ~src.tx /\ ~src.broken
      BY <1>1 DEF NewSession, Empty, FirstMsgs
<1>3. Due = 0 /\ Reached = origin /\ Passed = origin /\ Pending = 0 /\ ~Over
  <2>1. Due = 0 /\ Pending = 0 /\ ~Over
        BY <1>1 DEF Due, Pending, Over
  <2>2. Reached = origin
        BY <1>1 DEF Reached
  <2> QED  BY <1>1, <2>1, <2>2 DEF Passed
<1>4. Room = 0
      BY <1>1, <1>3 DEF Room
<1>5. DoneBase
  <2>1. Offsets /\ Returned
        BY <1>1 DEF Offsets, Returned
  <2> QED  BY <1>0, <2>1, InitListed, InitBounded, InitWhole, InitCounted, InitKeeping
           DEF DoneBase, OrderBase, BoundedInv
<1>6. Sourced
      BY <1>2 DEF Sourced
<1>7. \A S : Through(S, origin)
  <2>1. \A m \in Known : Rank(m, Matching) \in Nat /\ origin < Rank(m, Matching)
        BY <1>0, KnownFacts
  <2> QED  BY <1>1, <2>1 DEF Through
<1>8. CopyDone
      BY <1>1, <1>3, <1>4, <1>7 DEF CopyDone
<1>9. ReadDone
  <2>1. Len(<<>>) = 0 /\ 1..0 = {}
        OBVIOUS
  <2>2. Reached = origin + Len(output) /\ Reached = origin + Room
        BY <1>1, <1>3, <1>4, <2>1
  <2>3. Printed
        BY <1>1, <2>1, <2>2 DEF Printed, InPlaces
  <2> QED  BY <1>1, <1>3, <1>7, <2>3 DEF ReadDone
<1>10. TakeDone
  <2>1. Doomed = {}
        BY <1>1, EmptySet DEF Doomed
  <2>2. Cardinality(Gone(src.now)) \in Nat
        BY <1>0, CountTypes
  <2> QED  BY <1>1, <1>4, <2>1, <2>2 DEF TakeDone
<1>11. MoveDone
  <2>1. ToSet(FirstMsgs(arrived)) = 1..arrived
    <3>1. Len(FirstMsgs(arrived)) = arrived
          BY <1>0, OrderTypes, FirstMsgsSeq
    <3> QED  BY <1>0, <3>1, OrderTypes DEF FirstMsgs, ToSet
  <2> QED  BY <1>1, <1>2, <2>1, EmptySet DEF MoveDone
<1>12. DeleteDone
       BY <1>1, <1>2 DEF DeleteDone
<1>13. LoadDone
  <2>1. LoadCursor
        BY <1>1 DEF LoadCursor
  <2>2. \A S : LoadThrough(S, origin)
        BY <1>0, <1>1, FileParts DEF LoadThrough
  <2> QED  BY <1>1, <1>3, <2>1, <2>2 DEF LoadDone
<1> QED  BY <1>3, <1>5, <1>6, <1>8, <1>9, <1>10, <1>11, <1>12, <1>13 DEF DoneInv, DoneParts

LEMMA DoneStep ==
    ASSUME DoneInv, [Next]_vars, "move" \notin Resumable, "delete" \notin Resumable
    PROVE  DoneInv'
<1>0. /\ TypeInv /\ Listed /\ Bounded /\ Whole /\ Keeping /\ Counted /\ Offsets /\ Returned
      /\ Sourced /\ DoneBase /\ (Sure => DoneParts)
      BY DEF DoneInv, DoneBase, OrderBase, BoundedInv
<1>1. /\ TypeInv' /\ Listed' /\ Bounded' /\ Whole' /\ Keeping' /\ Counted' /\ Offsets' /\ Returned'
      /\ Sourced'
      BY <1>0, TypeStep, ListedStep, BoundedStep, WholeStep, KeepingStep, CountedStep,
         OffsetsStep, ReturnedStep, SourcedStep DEF BoundedInv
<1>2. cmd' = cmd /\ opt'.limit = opt.limit
      BY <1>0, SameRun
<1>3. ASSUME Sure' PROVE DoneParts'
  <2>1. DoneParts
        BY <1>0, <1>3, IgnoredGrows DEF Sure
  <2>2. ASSUME cmd = "copy" PROVE CopyDone' /\ (Over' => Within(Reached)')
    <3>1. CopyingDone /\ (Over => Within(Reached))
          BY <1>0, <2>1, <2>2 DEF DoneParts, CopyingDone
    <3> QED  BY <1>3, <3>1, CopyDoneStep, CopyOverStep
  <2>3. ASSUME cmd \in Readers
        PROVE  ReadDone' /\ (opt.limit < 0 \/ cmd = "print" => (Over' => Within(Reached)'))
    <3>1. ReadingDone /\ (opt.limit < 0 \/ cmd = "print" => (Over => Within(Reached)))
          BY <1>0, <2>1, <2>3 DEF DoneParts, ReadingDone
    <3> QED  BY <3>1, ReadDoneStep, ReadOverStep
  <2>4. ASSUME cmd = "move" PROVE TakeDone' /\ MoveDone' /\ (Over' => MoveOver')
    <3>1. MovingDone /\ (Over => MoveOver)
          BY <1>0, <2>1, <2>4 DEF DoneParts, MovingDone
    <3> QED  BY <1>3, <3>1, MoveDoneStep, MoveOverStep
  <2>5. ASSUME cmd = "delete" PROVE TakeDone' /\ DeleteDone' /\ (Over' => DeleteOver')
    <3>1. DeletingDone /\ (Over => DeleteOver)
          BY <1>0, <2>1, <2>5 DEF DoneParts, DeletingDone
    <3> QED  BY <1>3, <3>1, DeleteDoneStep, DeleteOverStep
  <2>6. ASSUME cmd = "load" PROVE LoadDone' /\ (Over' => LoadOver')
    <3>1. LoadingDone /\ (Over => LoadOver)
          BY <1>0, <2>1, <2>6 DEF DoneParts, LoadingDone
    <3> QED  BY <1>3, <3>1, LoadDoneStep, LoadOverStep
  <2> QED  BY <1>2, <2>2, <2>3, <2>4, <2>5, <2>6 DEF DoneParts
<1> QED  BY <1>1, <1>3 DEF DoneInv, DoneBase, OrderBase, BoundedInv

----------------------------------------------------------------------------
(***************************************************************************)
(* What the user is told has been done.                                     *)
(***************************************************************************)
\* The elements up to n of a sequence in order are its first ones.
LEMMA PickedLow ==
    ASSUME NEW w \in Seq(Msgs), Ordered(w), NEW n \in Nat
    PROVE  /\ Picked(w, 1..n) \in Seq(Msgs) /\ Len(Picked(w, 1..n)) <= Len(w)
           /\ \A k \in 1..Len(Picked(w, 1..n)) : Picked(w, 1..n)[k] = w[k] /\ w[k] \in 1..n
<1> DEFINE S == 1..n
           p(i) == Picked(SubSeq(w, 1, i), S)
           First(i) == /\ p(i) \in Seq(Msgs) /\ Len(p(i)) <= i
                       /\ \A k \in 1..Len(p(i)) : p(i)[k] = w[k] /\ w[k] \in S
                       /\ (\A k \in 1..i : w[k] \in S) => Len(p(i)) = i
           G == {i \in 0..Len(w) : First(i)}
<1>1. Len(w) \in Nat /\ \A k \in 1..Len(w) : w[k] \in Msgs /\ w[k] \in Nat /\ w[k] >= 1
  <2>1. \A m \in Msgs : m \in Nat /\ m >= 1
        BY MessagesAssumption DEF Msgs
  <2> QED  BY <2>1
<1>2. \A i \in 0..Len(w) : p(i) \in Seq(Msgs) /\ Len(p(i)) \in Nat
      BY PickedBeginning
<1>3. 0 \in G
  <2>1. SubSeq(w, 1, 0) \in Seq(Msgs) /\ Len(SubSeq(w, 1, 0)) = 0
        BY <1>1, FirstOnes
  <2>2. Len(p(0)) <= 0 /\ p(0) \in Seq(Msgs)
        BY <2>1, PickedMembers
  <2>3. 0 \in 0..Len(w) /\ Len(p(0)) \in Nat
        BY <1>1, <1>2
  <2> HIDE DEF p
  <2>4. Len(p(0)) = 0
        BY <2>2, <2>3
  <2> QED  BY <2>2, <2>3, <2>4
<1>4. ASSUME NEW i \in 0..Len(w), First(i), i < Len(w) PROVE First(i + 1)
  <2>1. /\ i \in Nat /\ i + 1 \in 1..Len(w) /\ i + 1 \in 0..Len(w)
        /\ p(i + 1) = IF w[i + 1] \in S THEN Append(p(i), w[i + 1]) ELSE p(i)
        BY <1>1, <1>4, PickedBeginning
  <2>2. p(i) \in Seq(Msgs) /\ Len(p(i)) \in Nat /\ p(i + 1) \in Seq(Msgs)
        BY <1>2, <2>1
  <2> HIDE DEF p
  <2>3. CASE w[i + 1] \in S
    <3>1. \A k \in 1..i : w[k] \in S
      <4> SUFFICES ASSUME NEW k \in 1..i PROVE w[k] \in S
          OBVIOUS
      <4>1. k \in 1..Len(w) /\ k < i + 1
            BY <1>1, <1>4, <2>1
      <4>2. w[k] < w[i + 1] /\ w[k] \in Nat /\ w[k] >= 1
            BY <1>1, <2>1, <4>1 DEF Ordered
      <4> QED  BY <2>3, <4>2
    <3>2. Len(p(i)) = i
          BY <1>4, <3>1
    <3>3. w[i + 1] \in Msgs
          BY <1>1, <2>1
    <3>4. /\ Len(p(i + 1)) = i + 1 /\ p(i + 1)[i + 1] = w[i + 1]
          /\ \A k \in 1..i : p(i + 1)[k] = p(i)[k]
          BY <2>1, <2>2, <2>3, <3>2, <3>3
    <3>5. ASSUME NEW k \in 1..(i + 1) PROVE p(i + 1)[k] = w[k] /\ w[k] \in S
      <4>1. CASE k \in 1..i
            BY <1>4, <3>2, <3>4, <4>1
      <4>2. CASE k = i + 1
            BY <2>3, <3>4, <4>2
      <4> QED  BY <2>1, <4>1, <4>2
    <3> HIDE DEF S
    <3> QED  BY <2>1, <2>2, <3>4, <3>5
  <2>4. CASE w[i + 1] \notin S
    <3> HIDE DEF S
    <3>1. p(i + 1) = p(i)
          BY <2>1, <2>4
    <3>2. ~(\A k \in 1..(i + 1) : w[k] \in S)
          BY <2>1, <2>4
    <3>3. Len(p(i)) <= i + 1
          BY <1>4, <2>1, <2>2
    <3> QED  BY <1>4, <2>2, <3>1, <3>2, <3>3
  <2> QED  BY <2>3, <2>4
<1>5. 0..Len(w) \subseteq G
  <2>1. \A i \in 0..Len(w) : i \in G /\ i < Len(w) => i + 1 \in G
    <3> SUFFICES ASSUME NEW i \in 0..Len(w), First(i), i < Len(w)
                 PROVE  i + 1 \in 0..Len(w) /\ First(i + 1)
        OBVIOUS
    <3>1. i + 1 \in 0..Len(w)
          BY <1>1
    <3> QED  BY <1>4, <3>1
  <2> HIDE DEF G
  <2> QED  BY <1>1, <1>3, <2>1, UpTo
<1>6. First(Len(w)) /\ SubSeq(w, 1, Len(w)) = w
  <2>1. Len(w) \in 0..Len(w)
        BY <1>1
  <2> QED  BY <1>5, <2>1, FirstOnes
<1> QED  BY <1>6

\* The messages asked for, in order and each at its place.
LEMMA WantedPlaces ==
    ASSUME TypeInv, cmd # "load"
    PROVE  /\ Wanted \in Seq(Msgs) /\ Ordered(Wanted)
           /\ InPlaces(Wanted, 1, origin, arrived)
<1> DEFINE q == Picked(FirstMsgs(arrived), Matching)
           w == SubSeq(q, origin + 1, Len(q))
<1>1. arrived \in 0..MaxMsgs /\ origin \in Nat /\ MaxMsgs \in Nat
      BY OrderTypes, MessagesAssumption
<1>2. q \in Seq(Msgs) /\ Len(q) \in Nat /\ Ordered(q)
  <2>1. FirstMsgs(arrived) \in Seq(Msgs) /\ Ordered(FirstMsgs(arrived))
        BY <1>1, FirstMsgsSeq DEF Ordered, FirstMsgs
  <2> QED  BY <1>1, <2>1, PickedMembers, PickedPlaces
<1>3. Wanted = w
      BY Zenon DEF Wanted, Remainder, Selected, FirstMsgs
<1>4. \A k \in 1..Len(q) : q[k] \in Matching \cap (1..arrived) /\ Rank(q[k], Matching) = k
      BY <1>1, FirstRanks
<1> HIDE DEF q
<1>5. \A i \in (origin + 1)..Len(q) : q[i] \in Msgs
      BY <1>1, <1>2
<1>6. /\ w \in Seq(Msgs) /\ Len(w) = IF origin + 1 <= Len(q) THEN Len(q) - (origin + 1) + 1 ELSE 0
      /\ \A i \in 1..(Len(q) - (origin + 1) + 1) : w[i] = q[origin + 1 + i - 1]
      BY <1>1, <1>2, <1>5, SubSeqProperties
<1> HIDE DEF w
<1>7. \A k \in 1..Len(w) : origin + k \in 1..Len(q) /\ w[k] = q[origin + k]
      BY <1>1, <1>2, <1>6
<1>8. Ordered(w)
  <2> SUFFICES ASSUME NEW i \in 1..Len(w), NEW j \in 1..Len(w), i < j
               PROVE  w[i] < w[j]
      BY DEF Ordered
  <2>1. origin + i < origin + j
        BY <1>1, <1>6
  <2> QED  BY <1>2, <1>7, <2>1 DEF Ordered
<1>9. InPlaces(w, 1, origin, arrived)
      BY <1>4, <1>7 DEF InPlaces, InPlace
<1> QED  BY <1>3, <1>6, <1>8, <1>9

\* The first messages asked for that were there from the start.
LEMMA TodoPlaces ==
    ASSUME TypeInv, cmd # "load"
    PROVE  /\ Todo \in Seq(Msgs) /\ ToSet(Todo) \subseteq Known
           /\ InPlaces(Todo, 1, origin, arrived)
<1> DEFINE known == Picked(Wanted, 1..NumMsgs)
<1>1. /\ opt.limit \in Int /\ origin \in Nat /\ NumMsgs \in Nat
      /\ Wanted \in Seq(Msgs) /\ InPlaces(Wanted, 1, origin, arrived) /\ Ordered(Wanted)
      BY WantedPlaces, Numbers, OrderTypes, MessagesAssumption
<1>2. /\ known \in Seq(Msgs) /\ Len(known) <= Len(Wanted) /\ Len(known) \in Nat
      /\ \A k \in 1..Len(known) : known[k] = Wanted[k] /\ Wanted[k] \in 1..NumMsgs
  <2>1. /\ known \in Seq(Msgs) /\ Len(known) <= Len(Wanted)
        /\ \A k \in 1..Len(known) : known[k] = Wanted[k] /\ Wanted[k] \in 1..NumMsgs
        BY ONLY <1>1, PickedLow, Zenon
  <2> HIDE DEF known
  <2> QED  BY <2>1
<1> HIDE DEF known
<1>3. \A k \in 1..Len(known) : /\ InPlace(known[k], origin + k, arrived)
                               /\ known[k] \in 1..NumMsgs /\ known[k] \in Msgs
      BY <1>1, <1>2 DEF InPlaces
<1>4. /\ Todo \in Seq(Msgs) /\ Len(Todo) \in Nat /\ Len(Todo) <= Len(known)
      /\ opt.limit >= 0 => Len(Todo) <= opt.limit
      /\ \A k \in 1..Len(Todo) : Todo[k] = known[k]
  <2>1. CASE opt.limit < 0
    <3>1. Todo = known
      <4>1. ~(opt.limit >= 0)
            BY <1>1, <2>1
      <4> QED  BY <2>1, <4>1 DEF Todo, known
    <3> QED  BY <1>1, <1>2, <2>1, <3>1
  <2>2. CASE opt.limit >= 0
    <3> DEFINE n == Min({opt.limit, Len(known)})
               u == SubSeq(known, 1, n)
    <3>1. Todo = u
      <4>1. ~(opt.limit < 0)
            BY <1>1, <2>2
      <4> QED  BY <2>2, <4>1 DEF Todo, Prefix, known
    <3>2. n \in 0..Len(known) /\ n <= opt.limit
      <4>1. opt.limit \in Int /\ Len(known) \in Int /\ opt.limit >= 0 /\ Len(known) >= 0
            BY <1>1, <1>2, <2>2
      <4>2. n = IF opt.limit <= Len(known) THEN opt.limit ELSE Len(known)
            BY <4>1, MinOfTwo
      <4> QED  BY <4>1, <4>2
    <3> HIDE DEF n
    <3>3. u \in Seq(Msgs) /\ Len(u) = n /\ \A k \in 1..n : u[k] = known[k]
      <4>1. u \in Seq(Msgs) /\ Len(u) = n
            BY <1>2, <3>2, FirstOnes
      <4>2. \A i \in 1..n : known[i] \in Msgs
            BY <1>3, <3>2
      <4>3. \A k \in 1..(n - 1 + 1) : u[k] = known[1 + k - 1]
            BY <1>2, <3>2, <4>2, SubSeqProperties
      <4>4. \A k \in 1..n : k \in 1..(n - 1 + 1) /\ 1 + k - 1 = k
            BY <3>2
      <4> QED  BY <4>1, <4>3, <4>4
    <3> HIDE DEF u
    <3> QED  BY <1>2, <3>1, <3>2, <3>3
  <2> QED  BY <1>1, <2>1, <2>2
<1>5. \A k \in 1..Len(Todo) : k \in 1..Len(known)
      BY <1>2, <1>4
<1>6. InPlaces(Todo, 1, origin, arrived)
      BY <1>3, <1>4, <1>5 DEF InPlaces
<1>7. ToSet(Todo) \subseteq Known
  <2> SUFFICES ASSUME NEW k \in 1..Len(Todo) PROVE Todo[k] \in Known
      BY DEF ToSet
  <2>1. /\ Todo[k] \in Msgs \cap Matching /\ Todo[k] \in 1..NumMsgs
        /\ Rank(Todo[k], Matching) = origin + k
        BY <1>3, <1>4, <1>5 DEF InPlace
  <2>2. origin < origin + k /\ (opt.limit >= 0 => origin + k <= origin + opt.limit)
        BY <1>1, <1>4
  <2> QED  BY <1>1, <2>1, <2>2 DEF Known, Asked
<1> QED  BY <1>4, <1>6, <1>7

\* What has been read, when nothing asked for is left past it.
LEMMA PrintedTodo ==
    ASSUME TypeInv, cmd = "print", Printed, Within(Reached)
    PROVE  IsPrefix(Todo, output)
<1>1. /\ Todo \in Seq(Msgs) /\ ToSet(Todo) \subseteq Known /\ InPlaces(Todo, 1, origin, arrived)
      BY TodoPlaces
<1>2. /\ InPlaces(output, 1, origin, arrived) /\ Reached = origin + Len(output)
      /\ output \in Seq(Msgs) /\ Len(output) \in Nat /\ origin \in Nat
      BY OrderTypes, Numbers DEF Printed, TypeInv, TypeOK
<1>3. Len(Todo) <= Len(output)
  <2>1. CASE Len(Todo) = 0
        BY <1>2, <2>1
  <2>2. CASE Len(Todo) # 0
    <3> DEFINE n == Len(Todo)
    <3>1. n \in Nat /\ n \in 1..n
          BY <1>1, <2>2
    <3>2. Todo[n] \in Known /\ Rank(Todo[n], Matching) = origin + n
          BY <1>1, <3>1 DEF ToSet, InPlaces, InPlace
    <3>3. origin + n <= origin + Len(output)
          BY <1>2, <3>2 DEF Within
    <3> HIDE DEF n
    <3>4. n <= Len(output)
          BY <1>2, <3>1, <3>3
    <3> QED  BY <3>4 DEF n
  <2> QED  BY <2>1, <2>2
<1>4. \A k \in 1..Len(Todo) : Todo[k] = output[k]
  <2> SUFFICES ASSUME NEW k \in 1..Len(Todo) PROVE Todo[k] = output[k]
      OBVIOUS
  <2>1. k \in 1..Len(output)
        BY <1>1, <1>2, <1>3
  <2>2. /\ Todo[k] \in Msgs /\ Todo[k] \in Matching /\ output[k] \in Msgs /\ output[k] \in Matching
        /\ Rank(Todo[k], Matching) = origin + k /\ Rank(output[k], Matching) = origin + k
        BY <1>1, <1>2, <2>1 DEF InPlaces, InPlace
  <2> QED  BY <2>2, RankOne DEF Msgs
<1> QED  BY <1>1, <1>2, <1>3, <1>4, PrefixByPlaces

\* What has been loaded, when the files have been gone through or --count is
\* reached.
LEMMA LoadedTodo ==
    ASSUME TypeInv, cmd = "load", Offsets, LoadThrough(ToSet(dst.kept.msgs), Reached),
           LoadOver, pc = "done"
    PROVE  ToSet(Todo) \subseteq ToSet(dst.kept.msgs)
<1>1. /\ InFiles \in Seq(Msgs) /\ Len(InFiles) \in Nat /\ opt.limit \in Int /\ origin \in Nat
      /\ opt.offset \in Nat /\ cur_count \in Nat
      BY FileParts, Numbers, OrderTypes
<1>2. LimitReached \/ origin + Len(InFiles) <= Reached
      BY DEF LoadOver
<1>3. CASE opt.limit < 0
  <2>1. ~(opt.limit >= 0)
        BY <1>1, <1>3
  <2>2. Todo = Picked(InFiles, Matching)
        BY <1>3, <2>1 DEF Todo, Wanted, Selected
  <2>3. ToSet(Todo) = ToSet(InFiles) \cap Matching
        BY <1>1, <2>2, PickedMembers
  <2>4. origin + Len(InFiles) <= Reached /\ Reached \in Nat
        BY <1>2, <2>1, OrderTypes DEF LimitReached
  <2>5. \A k \in 1..Len(InFiles) : origin + k <= Reached
        BY <1>1, <2>4
  <2> QED  BY <2>3, <2>5 DEF LoadThrough, ToSet
<1>4. CASE opt.limit >= 0
  <2> DEFINE n == Min({opt.limit, Len(InFiles)})
             u == SubSeq(InFiles, 1, n)
  <2>1. Todo = Picked(u, Matching)
    <3>1. ~(opt.limit < 0)
          BY <1>1, <1>4
    <3> QED  BY <1>4, <3>1 DEF Todo, Prefix, Selected
  <2>2. n \in 0..Len(InFiles) /\ n <= opt.limit /\ n <= Len(InFiles)
        BY <1>1, <1>4, MinOfTwo
  <2> HIDE DEF n
  <2>3. origin + n <= Reached /\ Reached \in Nat
    <3>1. CASE LimitReached
      <4>1. Reached = origin + cur_count /\ cur_count >= opt.limit
            BY <1>4, <3>1 DEF Reached, LimitReached, Offsets
      <4> QED  BY <1>1, <2>2, <4>1
    <3>2. CASE origin + Len(InFiles) <= Reached
          BY <1>1, <2>2, <3>2, OrderTypes
    <3> QED  BY <1>2, <3>1, <3>2, OrderTypes
  <2>4. u \in Seq(Msgs) /\ Len(u) = n /\ \A k \in 1..n : u[k] = InFiles[k]
    <3>1. u \in Seq(Msgs) /\ Len(u) = n
          BY <1>1, <2>2, FirstOnes
    <3>2. \A i \in 1..n : InFiles[i] \in Msgs
          BY <1>1, <2>2
    <3>3. \A k \in 1..(n - 1 + 1) : u[k] = InFiles[1 + k - 1]
          BY <1>1, <2>2, <3>2, SubSeqProperties
    <3>4. \A k \in 1..n : k \in 1..(n - 1 + 1) /\ 1 + k - 1 = k
          BY <2>2
    <3> QED  BY <3>1, <3>3, <3>4
  <2> HIDE DEF u
  <2>5. ToSet(Todo) = ToSet(u) \cap Matching
        BY <2>1, <2>4, PickedMembers
  <2>6. \A k \in 1..n : k \in 1..Len(InFiles) /\ origin + k <= Reached
        BY <1>1, <2>2, <2>3
  <2> QED  BY <2>4, <2>5, <2>6 DEF LoadThrough, ToSet
<1> QED  BY <1>1, <1>3, <1>4

\* A command that reports success has done all that was asked of it, whatever
\* number of batches, interrupted runs, transactions and arrivals it took.  A
\* move or a deletion is not resumed from the offset printed, which counts what
\* is no longer in the source; --events-per-transaction 0 fetches nothing.
THEOREM CommandsComplete ==
    ASSUME "move" \notin Resumable, "delete" \notin Resumable, \A o \in Options : o.ept > 0
    PROVE  Spec => []CommandCompletes
<1>1. Init => DoneInv
  <2> SUFFICES ASSUME Init PROVE DoneInv
      OBVIOUS
  <2>1. ept > 0
        BY DEF Init, ept
  <2> QED  BY <2>1, InitDone
<1>2. DoneInv /\ [Next]_vars => DoneInv'
      BY DoneStep
<1>3. DoneInv => CommandCompletes
  <2> SUFFICES ASSUME DoneInv, pc = "done", ret >= 0, ~stop_processing, Sure
               PROVE  /\ cmd \in Inserting => ToSet(Todo) \subseteq ToSet(dst.kept.msgs)
                      /\ cmd \in {"move", "delete"} => ToSet(Todo) \cap ToSet(src.kept.msgs) = {}
                      /\ cmd = "print" => IsPrefix(Todo, output)
                      /\ cmd = "save" /\ opt.limit < 0 =>
                             ToSet(Todo) \ missed \subseteq ToSet(output)
      BY Zenon DEF CommandCompletes, dst, src, Sure
  <2>1. TypeInv /\ Offsets /\ DoneParts /\ Over
        BY DEF DoneInv, DoneBase, OrderBase, BoundedInv, Over
  <2>2. cmd # "load" => ToSet(Todo) \subseteq Known
        BY <2>1, TodoPlaces
  <2>3. \A S : Through(S, Reached) /\ Within(Reached) => Known \subseteq S
        BY DEF Through, Within
  <2>4. CASE cmd = "copy"
        BY <2>1, <2>2, <2>3, <2>4 DEF DoneParts, CopyDone
  <2>5. CASE cmd = "load"
        BY <2>1, <2>5, LoadedTodo DEF DoneParts, LoadDone
  <2>6. CASE cmd = "move"
    <3>1. MoveOver /\ src.kept = src.now
          BY <2>1, <2>6, SrcFields DEF DoneParts, MoveDone
    <3> QED  BY <2>2, <2>6, <3>1 DEF MoveOver
  <2>7. CASE cmd = "delete"
        BY <2>1, <2>2, <2>7 DEF DoneParts, DeleteOver, Inserting
  <2>8. CASE cmd = "print"
        BY <2>1, <2>8, PrintedTodo DEF DoneParts, ReadDone, Readers, Inserting
  <2>9. CASE cmd = "save"
        BY <2>1, <2>2, <2>3, <2>9 DEF DoneParts, ReadDone, Readers, Inserting, Seen
  <2> QED  BY <2>4, <2>5, <2>6, <2>7, <2>8, <2>9 DEF Inserting
<1> QED  BY <1>1, <1>2, <1>3, PTL DEF Spec
===============================================================================
