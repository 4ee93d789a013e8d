--------------------------- MODULE MCScanoutState ---------------------------
(***************************************************************************)
(* Instances of ScanoutState for TLC.                                      *)
(***************************************************************************)
EXTENDS ScanoutState
=============================================================================
