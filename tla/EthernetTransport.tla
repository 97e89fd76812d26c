------------------------- MODULE EthernetTransport -------------------------
(***************************************************************************)
(* The Ethernet transport, src/native_ethernet_transport.cpp, and the       *)
(* function of src/micro_ros_arduino.h that waits for the cable and         *)
(* registers it.  It differs from the WiFi transport where it looks at what  *)
(* the library returns, and in its clock: uxr_millis() has 64 bits, so its  *)
(* differences are the time that passed.                                    *)
(***************************************************************************)
EXTENDS UdpPort

CONSTANT Timeouts   \* the timeouts read is called with

ASSUME TimeoutsAssumption == Timeouts \subseteq Int

VARIABLES
    pc,             \* "setup", "idle", or where read is
    opened,         \* what open returned
    timeout,
    got,            \* what the latest read returned
    sent,           \* what the latest write returned, of a length of 1
    waited,         \* uxr_millis() - start_time
    owed            \* a datagram was there when it started (ghost)

call == <<timeout, got, waited, owed>>
vars == <<port, pc, opened, call, sent>>

Init ==
    /\ PortInit
    /\ pc = "setup" /\ opened = FALSE
    /\ timeout = 0
    /\ got = Nothing /\ waited = 0 /\ owed = FALSE
    /\ sent = 0

\* set_microros_native_ethernet_udp_transports: the board waits for the
\* cable, then the client library knows the transport.
set_microros_native_ethernet_udp_transports ==
    /\ pc = "setup" /\ linked
    /\ pc' = "idle"
    /\ UNCHANGED <<port, opened, call, sent>>

\* Mutated: open does not look at what begin returns.
open_trusting ==
    /\ pc = "idle" /\ ~opened
    /\ \E ok \in BOOLEAN : begin(ok)
    /\ opened' = TRUE
    /\ UNCHANGED <<pc, call, sent>>

\* open returns what begin returns.
open ==
    /\ pc = "idle" /\ ~opened
    /\ \E ok \in BOOLEAN : begin(ok) /\ opened' = ok
    /\ UNCHANGED <<pc, call, sent>>

close ==
    /\ pc = "idle" /\ opened
    /\ stop
    /\ opened' = FALSE
    /\ UNCHANGED <<pc, call, sent>>

\* What write returns: the bytes put into the library's buffer, none if
\* beginPacket fails.  Whether endPacket sends the packet makes no
\* difference to it.
Sent(begun) == IF begun THEN {1} ELSE {0}

write ==
    /\ pc = "idle" /\ opened
    /\ \E begun \in BOOLEAN : sent' \in Sent(begun)
    /\ flush
    /\ UNCHANGED <<pc, opened, call>>

-----------------------------------------------------------------------------

read_start(t) ==
    /\ pc = "idle" /\ opened
    /\ pc' = "check"
    /\ timeout' = t /\ waited' = 0
    /\ owed' = (t > 0 /\ inbox # <<>>)
    /\ UNCHANGED <<port, opened, got, sent>>

\* Mutated: one millisecond more.
TimeLeft_more == waited <= timeout

\* (uxr_millis() - start_time) < ((int64_t)timeout)
TimeLeft == waited < timeout

\* Mutated: the library is asked only after the first delay.
Found_late == TimeLeft /\ waited > 0 /\ inbox # <<>>

\* The loop's second operand is evaluated only while time is left.
Found == TimeLeft /\ inbox # <<>>

read_check ==
    /\ pc = "check"
    /\ IF Found
       THEN pc' = "take" /\ parsePacket
       ELSE pc' = (IF TimeLeft THEN "delay" ELSE "take") /\ UNCHANGED <<inbox, cur>>
    /\ UNCHANGED <<linked, bound, opened, call, sent>>

read_delay(d) ==
    /\ pc = "delay"
    /\ pc' = "check"
    /\ waited' = waited + d
    /\ UNCHANGED <<port, opened, timeout, got, owed, sent>>

\* Mutated: the library is asked for a datagram once more.
read_take_again ==
    /\ pc = "take"
    /\ pc' = "idle"
    /\ got' = IF inbox = <<>> THEN cur ELSE Head(inbox)
    /\ inbox' = IF inbox = <<>> THEN inbox ELSE Tail(inbox)
    /\ cur' = Nothing
    /\ UNCHANGED <<linked, bound, opened, timeout, waited, owed,
                   sent>>

\* Nothing is available when nothing was parsed, and read returns 0.
read_take ==
    /\ pc = "take"
    /\ pc' = "idle"
    /\ got' = cur /\ read
    /\ UNCHANGED <<opened, timeout, waited, owed, sent>>

-----------------------------------------------------------------------------

Network ==
    /\ LinkChanges \/ \E d \in Datagrams : Arrives(d)
    /\ UNCHANGED <<pc, opened, call, sent>>

Next ==
    \/ set_microros_native_ethernet_udp_transports
    \/ open \/ close \/ write
    \/ \E t \in Timeouts : read_start(t)
    \/ read_check \/ read_take
    \/ \E d \in 1..MaxDelay : read_delay(d)
    \/ Network

Spec == Init /\ [][Next]_vars

-----------------------------------------------------------------------------

\* Types: what the transport's calls keep, and a write reports no less than 0.
TypeOK ==
    /\ PortTypeOK
    /\ pc \in {"setup", "idle", "check", "delay", "take"}
    /\ opened \in BOOLEAN
    /\ timeout \in Timeouts \cup {0}
    /\ got \in Datagrams \cup {Nothing}
    /\ sent \in {0, 1}
    /\ waited \in Nat /\ owed \in BOOLEAN

\* A read waits no longer than its timeout and one delay, not at all when the
\* timeout is negative, and one that comes back empty has waited all of it.
ReadKeepsTime ==
    /\ waited = 0 \/ waited < timeout + MaxDelay
    /\ pc = "idle" /\ got = Nothing => waited >= timeout

\* A read with time to wait never comes back empty when a datagram was there
\* as it was called.
PendingIsRead == pc = "idle" /\ owed => got # Nothing

\* The reads return the agent's datagrams whole, in order and once, and no
\* write drops one that was not read.
Queue == INSTANCE DatagramQueue WITH queue <- Undelivered
ReadsImplementQueue == Queue!Spec

\* open returns true only with a bound socket, and the socket stays bound
\* until close, as the header of the custom transports asks.
OpenedIsBound == opened => bound
=============================================================================
