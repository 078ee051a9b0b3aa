------------------------------ MODULE MCStreamPull ------------------------------
(* Finite instance of StreamPull for TLC: a limit the stream exceeds, and one it fits. *)
EXTENDS StreamPull
MCLimits == {4, 6}
================================================================================
