--------------------------- MODULE MCConsumerManager ---------------------------
(* Finite instances of ConsumerManager for TLC. *)
EXTENDS ConsumerManager, TLC

CONSTANTS e1, e2, e3, old, new

\* Single commands are interchangeable, and so are the tokens.
Symmetry == Permutations(Execs \ BatchExecs) \cup Permutations(Tokens)
================================================================================
