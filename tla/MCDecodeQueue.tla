----------------------------- MODULE MCDecodeQueue -----------------------------
(* Finite instance of DecodeQueue for TLC. *)
EXTENDS DecodeQueue
MCByteSizes == {1, 2}
================================================================================
