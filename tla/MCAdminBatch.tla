---------------------------- MODULE MCAdminBatch ----------------------------
(***************************************************************************)
(* Command lines and files for AdminBatch.                                  *)
(***************************************************************************)
EXTENDS AdminBatch

Commands(cmds, epts, limits, offsets, fs) ==
    [cmd : cmds, ept : epts, limit : limits, offset : offsets, files : fs]

\* A load of one file, and of two with a message in both.
OneFile == <<<<1, 2, 3, 4, 5>>>>
TwoFiles == <<<<1, 2, 3>>, <<4, 3, 1>>>>

\* Every command with transactions smaller than, equal to and larger than the
\* table of deletions and than what is left, with and without --count and
\* --offset.
AllCommands ==
    Commands(Command \ {"load"}, 1..4, {-1, 0, 3}, {0, 1}, {<<>>})
        \cup Commands({"load"}, 1..4, {-1, 0, 3}, {0, 1}, {OneFile, TwoFiles})

Moves == Commands({"move"}, {2}, {-1}, {0}, {<<>>})
=============================================================================
