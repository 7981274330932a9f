----------------------------- MODULE MCServer -----------------------------
(* Small instance of Server. *)
EXTENDS Server

=============================================================================
