--------------------------- MODULE DatagramQueue ---------------------------
(***************************************************************************)
(* What the client library expects of the receiving half of a packet        *)
(* transport: datagrams come out whole, in the order they came in, each     *)
(* once, and only closing the transport loses what was in it.               *)
(***************************************************************************)
EXTENDS Sequences

CONSTANTS Datagrams, Nothing

VARIABLES
    queue,      \* the datagrams that arrived and were not read
    got         \* what the latest read returned

vars == <<queue, got>>

Init == queue = <<>> /\ got = Nothing

Arrive(d) == queue' = Append(queue, d) /\ UNCHANGED got

Deliver ==
    /\ queue # <<>>
    /\ got' = Head(queue) /\ queue' = Tail(queue)

ReadNothing == got' = Nothing /\ UNCHANGED queue

Close == queue' = <<>> /\ UNCHANGED got

Next ==
    \/ \E d \in Datagrams : Arrive(d)
    \/ Deliver \/ ReadNothing \/ Close

Spec == Init /\ [][Next]_vars
=============================================================================
