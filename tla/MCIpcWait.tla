----------------------------- MODULE MCIpcWait -----------------------------
(***************************************************************************)
(* Instances of IpcWait for TLC.                                           *)
(***************************************************************************)
EXTENDS IpcWait
=============================================================================
