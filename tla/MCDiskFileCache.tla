-------------------------- MODULE MCDiskFileCache --------------------------
(* Instances of DiskFileCache for TLC.                                     *)
EXTENDS DiskFileCache

CONSTANTS p1, p2, p3, a, b
=============================================================================
