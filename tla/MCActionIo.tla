------------------------------- MODULE MCActionIo -------------------------------
(* Finite instances of ActionIo for TLC. *)
EXTENDS ActionIo

Item(r, kind, channel) == [run |-> r, kind |-> kind, channel |-> channel]
Event(stream, bytes) == [stream |-> stream, bytes |-> bytes]

ThreeEvents == <<Event("stdout", 2), Event("stderr", 1), Event("stdout", 1)>>
SomePlans ==
    { <<Item(1, "mutation", "socket"), Item(1, "mutation", "relay"), Item(1, "mutation", "socket")>>,
      <<Item(1, "mutation", "rest"), Item(1, "read", "relay"), Item(2, "read", "rest")>>,
      <<Item(1, "read", "socket"), Item(2, "read", "relay"), Item(3, "mutation", "relay")>> }
================================================================================
