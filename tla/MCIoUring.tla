----------------------------- MODULE MCIoUring -----------------------------
(***************************************************************************)
(* IoUring for TLC.  The synchronous callers are interchangeable.          *)
(***************************************************************************)
EXTENDS IoUring

Symmetric == Permutations(SyncCaller)

=============================================================================
