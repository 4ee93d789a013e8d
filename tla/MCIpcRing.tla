----------------------------- MODULE MCIpcRing -----------------------------
(***************************************************************************)
(* Instances of IpcRing for TLC.                                           *)
(***************************************************************************)
EXTENDS IpcRing
=============================================================================
