------------------------------ MODULE UdpPort ------------------------------
(***************************************************************************)
(* What the two packet transports use: the UDP class of the board's network *)
(* library (WiFiUDP, EthernetUDP), the link it runs on, and the datagrams    *)
(* the agent sends.  None of it is code of this repository.  Every datagram  *)
(* fits the buffer a read is given: both ends use the same MTU.              *)
(***************************************************************************)
EXTENDS Integers, Sequences

CONSTANTS
    Datagrams,      \* what the agent may send
    Nothing,        \* no datagram
    MaxInbox,       \* bound: the datagrams the library holds
    MaxDelay        \* delay(1) takes at least 1 and at most this

ASSUME PortAssumption ==
    /\ Nothing \notin Datagrams
    /\ MaxInbox \in Nat
    /\ MaxDelay \in Nat \ {0}

VARIABLES
    linked,         \* the link is up
    bound,          \* the socket is bound to its port
    inbox,          \* datagrams that arrived and were not parsed
    cur             \* the datagram parsed and not read

port == <<linked, bound, inbox, cur>>

PortInit == linked = FALSE /\ bound = FALSE /\ inbox = <<>> /\ cur = Nothing

\* The link comes and goes.
LinkChanges == linked' = ~linked /\ UNCHANGED <<bound, inbox, cur>>

\* A datagram arrives at the bound socket.  Those that find no room are lost.
Arrives(d) ==
    /\ linked /\ bound /\ Len(inbox) < MaxInbox
    /\ inbox' = Append(inbox, d)
    /\ UNCHANGED <<linked, bound, cur>>

\* begin(port) may fail; stop() drops everything.
begin(ok) == bound' = ok /\ UNCHANGED <<linked, inbox, cur>>
stop == bound' = FALSE /\ inbox' = <<>> /\ cur' = Nothing /\ UNCHANGED linked

\* parsePacket() == 0 when nothing is there; else it takes the next datagram.
parsePacket == cur' = Head(inbox) /\ inbox' = Tail(inbox)

\* read(buf, len) with a buffer that holds any datagram.
read == cur' = Nothing /\ UNCHANGED <<linked, bound, inbox>>

\* flush() may drop what is left of the datagram being read.
flush == cur' \in {cur, Nothing} /\ UNCHANGED <<linked, bound, inbox>>

\* The datagrams a read can still return, in order.
Undelivered == (IF cur = Nothing THEN <<>> ELSE <<cur>>) \o inbox

\* Types: the socket's link, binding and receive queue.
PortTypeOK ==
    /\ linked \in BOOLEAN /\ bound \in BOOLEAN
    /\ inbox \in Seq(Datagrams) /\ Len(inbox) <= MaxInbox
    /\ cur \in Datagrams \cup {Nothing}
=============================================================================
