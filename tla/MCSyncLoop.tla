----------------------------- MODULE MCSyncLoop -----------------------------
(***************************************************************************)
(* SyncLoop for model checking: its constants are numbers a cfg gives.     *)
(***************************************************************************)
EXTENDS SyncLoop
=============================================================================
