---------------------------- MODULE AtomicStore ----------------------------
(***************************************************************************)
(* What preludedb_insert_message promises: a message is stored with all its *)
(* rows in one step or not at all, a success is reported only for a stored  *)
(* message, and a message reported as failed is never stored afterwards (it *)
(* may have been stored already: the answer to COMMIT can be lost).         *)
(***************************************************************************)
CONSTANTS Messages, Rows      \* Rows[m]: the rows that make up message m

VARIABLES rows, acked, failed

store == <<rows, acked, failed>>

Stored(m) == Rows[m] \subseteq rows

Init == rows = {} /\ acked = {} /\ failed = {}

StoreMessage(m) ==
    /\ m \notin failed \cup acked
    /\ rows' = rows \cup Rows[m]
    /\ UNCHANGED <<acked, failed>>

Acknowledge(m) ==
    /\ Stored(m) /\ m \notin failed
    /\ acked' = acked \cup {m}
    /\ UNCHANGED <<rows, failed>>

Fail(m) ==
    /\ m \notin acked
    /\ failed' = failed \cup {m}
    /\ UNCHANGED <<rows, acked>>

Next == \E m \in Messages : StoreMessage(m) \/ Acknowledge(m) \/ Fail(m)

Spec == Init /\ [][Next]_store
=============================================================================
