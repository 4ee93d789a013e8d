---------------------------- MODULE MCUsbProxy ----------------------------
(* Instances of UsbProxy for TLC. *)
EXTENDS UsbProxy

===========================================================================
