------------------------- MODULE MCSerialTransport -------------------------
(* How many bytes a read is asked for, and how long it may wait. *)
EXTENDS SerialTransport

SomeTimeouts == {0, 1, 3}
SomeLengths == 1..4
=============================================================================
