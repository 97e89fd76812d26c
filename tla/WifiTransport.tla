--------------------------- MODULE WifiTransport ---------------------------
(***************************************************************************)
(* The WiFi transport, src/wifi_transport.cpp, and the function of          *)
(* src/micro_ros_arduino.h that joins the network and registers it.  The    *)
(* client library calls open, close, write and read one at a time; the      *)
(* agent's datagrams and the link change at any moment.                     *)
(***************************************************************************)
EXTENDS UdpPort

CONSTANTS
    Word,       \* the number of values of millis(): 2^32 on a board
    Timeouts    \* the timeouts read is called with

ASSUME WordAssumption == Word \in Nat /\ MaxDelay < Word
\* Timeouts the client library passes: far below the period of millis().
ASSUME TimeoutsAssumption == Timeouts \subseteq 0..(Word - MaxDelay)

VARIABLES
    pc,             \* "setup", "idle", or where read is
    opened,         \* what open returned
    now,            \* millis()
    start_time, timeout,
    got,            \* what the latest read returned
    sent,           \* what the latest write returned, of a length of 1
    waited,         \* how long the latest read has waited (ghost)
    owed            \* a datagram was there when it started (ghost)

call == <<start_time, timeout, got, waited, owed>>
vars == <<port, pc, opened, now, call, sent>>

Init ==
    /\ PortInit
    /\ pc = "setup" /\ opened = FALSE
    /\ now = 0 /\ start_time = 0 /\ timeout = 0
    /\ got = Nothing /\ waited = 0 /\ owed = FALSE
    /\ sent = 0

\* set_microros_wifi_transports: the board waits for the network, then the
\* client library knows the transport.
set_microros_wifi_transports ==
    /\ pc = "setup" /\ linked
    /\ pc' = "idle"
    /\ UNCHANGED <<port, opened, now, call, sent>>

\* open returns true whatever begin returns.
open ==
    /\ pc = "idle" /\ ~opened
    /\ \E ok \in BOOLEAN : begin(ok)
    /\ opened' = TRUE
    /\ UNCHANGED <<pc, now, call, sent>>

close ==
    /\ pc = "idle" /\ opened
    /\ stop
    /\ opened' = FALSE
    /\ UNCHANGED <<pc, now, call, sent>>

\* What write returns: the bytes put into the library's buffer, which is
\* there if beginPacket succeeded, and may be if it did not.  Whether
\* endPacket sends the packet makes no difference to it.
Sent(begun) == IF begun THEN {1} ELSE {0, 1}

write ==
    /\ pc = "idle" /\ opened
    /\ \E begun \in BOOLEAN : sent' \in Sent(begun)
    /\ flush
    /\ UNCHANGED <<pc, opened, now, call>>

-----------------------------------------------------------------------------

\* Mutated: the deadline is kept instead of the start.
read_start_deadline(t) ==
    /\ pc = "idle" /\ opened
    /\ pc' = "check"
    /\ start_time' = now + t /\ timeout' = t
    /\ waited' = 0 /\ owed' = FALSE
    /\ UNCHANGED <<port, opened, now, got, sent>>

read_start(t) ==
    /\ pc = "idle" /\ opened
    /\ pc' = "check"
    /\ start_time' = now /\ timeout' = t
    /\ waited' = 0
    /\ owed' = (t > 0 /\ inbox # <<>>)
    /\ UNCHANGED <<port, opened, now, got, sent>>

\* Mutated: the deadline is computed first and compared with the clock.
TimeLeft_deadline == now < start_time + timeout

\* millis() - start_time < timeout, in unsigned arithmetic.
TimeLeft == (now - start_time) % Word < timeout % Word

\* Mutated: the library is asked only after the first delay.
Found_late == TimeLeft /\ waited > 0 /\ inbox # <<>>

\* The loop's second operand is evaluated only while time is left.
Found == TimeLeft /\ inbox # <<>>

read_check ==
    /\ pc = "check"
    /\ IF Found
       THEN pc' = "take" /\ parsePacket
       ELSE pc' = (IF TimeLeft THEN "delay" ELSE "take") /\ UNCHANGED <<inbox, cur>>
    /\ UNCHANGED <<linked, bound, opened, now, call, sent>>

read_delay(d) ==
    /\ pc = "delay"
    /\ pc' = "check"
    /\ now' = (now + d) % Word /\ waited' = waited + d
    /\ UNCHANGED <<port, opened, start_time, timeout, got, owed, sent>>

\* Mutated: the library is asked for a datagram once more.
read_take_again ==
    /\ pc = "take"
    /\ pc' = "idle"
    /\ got' = IF inbox = <<>> THEN cur ELSE Head(inbox)
    /\ inbox' = IF inbox = <<>> THEN inbox ELSE Tail(inbox)
    /\ cur' = Nothing
    /\ UNCHANGED <<linked, bound, opened, now, start_time, timeout, waited, owed,
                   sent>>

\* The library returns -1 when nothing was parsed, and read returns 0.
read_take ==
    /\ pc = "take"
    /\ pc' = "idle"
    /\ got' = cur /\ read
    /\ UNCHANGED <<opened, now, start_time, timeout, waited, owed, sent>>

-----------------------------------------------------------------------------

\* Between calls the clock runs on.
IdleTick ==
    /\ pc = "idle"
    /\ now' = (now + 1) % Word
    /\ UNCHANGED <<port, pc, opened, call, sent>>

Network ==
    /\ LinkChanges \/ \E d \in Datagrams : Arrives(d)
    /\ UNCHANGED <<pc, opened, now, call, sent>>

Next ==
    \/ set_microros_wifi_transports
    \/ open \/ close \/ write
    \/ \E t \in Timeouts : read_start(t)
    \/ read_check \/ read_take
    \/ \E d \in 1..MaxDelay : read_delay(d)
    \/ IdleTick \/ Network

Spec == Init /\ [][Next]_vars

-----------------------------------------------------------------------------

\* Types: millis() and the deadline arithmetic stay within a word.
TypeOK ==
    /\ PortTypeOK
    /\ pc \in {"setup", "idle", "check", "delay", "take"}
    /\ opened \in BOOLEAN
    /\ now \in 0..(Word - 1) /\ start_time \in 0..(Word - 1)
    /\ timeout \in 0..(Word - MaxDelay)
    /\ got \in Datagrams \cup {Nothing}
    /\ sent \in {0, 1}
    /\ waited \in Nat /\ owed \in BOOLEAN

\* A read waits no longer than its timeout and one delay, and one that comes
\* back empty has waited the whole of it, wherever millis() wraps.
ReadKeepsTime ==
    /\ waited < timeout + MaxDelay
    /\ pc = "idle" /\ got = Nothing => waited >= timeout

\* A read with time to wait never comes back empty when a datagram was there
\* as it was called.
PendingIsRead == pc = "idle" /\ owed => got # Nothing

\* The reads return the agent's datagrams whole, in order and once, and no
\* write drops one that was not read.
Queue == INSTANCE DatagramQueue WITH queue <- Undelivered
ReadsImplementQueue == Queue!Spec

\* open returns "true in case of successful opened transport, and false in
\* other case", says the header of the custom transports.
OpenedIsBound == opened => bound
=============================================================================
