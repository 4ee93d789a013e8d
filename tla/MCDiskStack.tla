---------------------------- MODULE MCDiskStack ----------------------------
(* Instances of DiskStack for TLC: three sectors, so that the last block of *)
(* two is half outside the disk.                                            *)
EXTENDS DiskStack

Setup(b, l, n, f) == [block |-> b, line |-> l, lines |-> n, fault |-> f]

\* Overlay blocks of two sectors, cache lines of one or two.
Disks == {Setup(2, 1, 2, "crash"), Setup(2, 2, 1, "crash"), Setup(2, 1, 1, "error")}
Failing == {Setup(2, 1, 1, "error")}
=============================================================================
