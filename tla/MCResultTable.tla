--------------------------- MODULE MCResultTable ---------------------------
(***************************************************************************)
(* Instances of ResultTable.                                                *)
(***************************************************************************)
EXTENDS ResultTable

AllBackends == {"mysql", "pgsql", "sqlite3"}
=============================================================================
