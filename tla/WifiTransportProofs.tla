------------------------ MODULE WifiTransportProofs ------------------------
(***************************************************************************)
(* Proofs about WifiTransport for every width of millis(), every timeout    *)
(* the client library may pass, and any datagrams.                          *)
(***************************************************************************)
EXTENDS WifiTransport, SequenceTheorems, TLAPS

\* While a read is under way, the unsigned difference of two readings of
\* millis() is the time it has waited: less than a period has passed.
Clock ==
    /\ waited < timeout + MaxDelay
    /\ pc \in {"check", "delay", "take"} => (now - start_time) % Word = waited
    /\ pc = "delay" => waited < timeout

\* What a read finds: a datagram is parsed only on the way to take, a read
\* without one has waited its time, and one that was owed a datagram finds it
\* at its first look.
Reading ==
    /\ cur # Nothing => pc = "take"
    /\ pc = "take" /\ cur = Nothing => waited >= timeout /\ ~owed
    /\ pc = "check" /\ owed => waited = 0 /\ timeout > 0 /\ inbox # <<>>
    /\ pc = "delay" => ~owed
    /\ pc = "idle" /\ got = Nothing => waited >= timeout /\ ~owed
    /\ pc = "setup" => got = Nothing /\ timeout = 0 /\ waited = 0 /\ ~owed

Inv == TypeOK /\ Clock /\ Reading

-----------------------------------------------------------------------------

\* What the assumptions say of the constants, in one place.
LEMMA Numbers ==
    /\ Word \in Nat /\ Word > 0
    /\ MaxDelay \in Nat /\ MaxDelay > 0 /\ MaxDelay < Word
    /\ Timeouts \subseteq 0..(Word - MaxDelay)
    /\ Nothing \notin Datagrams /\ MaxInbox \in Nat
  BY WordAssumption, TimeoutsAssumption, PortAssumption

\* The remainder of a number within one period of zero.
LEMMA Remainder ==
    ASSUME NEW x \in Int, NEW w \in Nat, w > 0, 0 - w <= x, x < 2 * w
    PROVE  x % w = IF x < 0 THEN x + w ELSE IF x < w THEN x ELSE x - w
  OBVIOUS

\* Unsigned subtraction sees through the wrap of millis().
LEMMA ElapsedAcrossWrap ==
    ASSUME NEW w \in Nat, w > 0,
           NEW n \in 0..(w - 1), NEW s \in 0..(w - 1), NEW d \in Nat,
           NEW e \in Nat, (n - s) % w = e, e + d < w
    PROVE  /\ (n + d) % w \in 0..(w - 1)
           /\ (((n + d) % w) - s) % w = e + d
<1> DEFINE m == (n + d) % w
<1>1. e = IF n < s THEN n - s + w ELSE n - s
  BY Remainder
<1>2. m = IF n + d < w THEN n + d ELSE n + d - w
  BY Remainder
<1> HIDE DEF m
<1>3. m \in 0..(w - 1)
  BY <1>2
<1>4. (m - s) % w = IF m < s THEN m - s + w ELSE m - s
  BY <1>3, Remainder
<1>5. (m - s) % w = e + d
  BY <1>1, <1>2, <1>4
<1> QED
  BY <1>3, <1>5 DEF m

\* Within a read, the loop's condition says whether there is time left.
LEMMA TimeLeftExact ==
    ASSUME Inv, pc = "check"
    PROVE  TimeLeft <=> waited < timeout
<1>1. timeout % Word = timeout
  <2>1. timeout \in Nat /\ timeout < Word
    BY Numbers DEF Inv, TypeOK
  <2> QED
    BY <2>1, Numbers, Remainder
<1> QED
  BY <1>1 DEF Inv, Clock, TimeLeft

-----------------------------------------------------------------------------

\* The transport starts in the inductive invariant.
LEMMA InitInv == Init => Inv
<1> SUFFICES ASSUME Init PROVE Inv
  OBVIOUS
<1>1. PortTypeOK
  <2>1. linked \in BOOLEAN /\ bound \in BOOLEAN
    BY DEF Init, PortInit
  <2>2. inbox \in Seq(Datagrams) /\ Len(inbox) = 0 /\ cur = Nothing
    BY DEF Init, PortInit
  <2> QED
    BY <2>1, <2>2, Numbers DEF PortTypeOK
<1>2. opened \in BOOLEAN /\ owed \in BOOLEAN
  BY DEF Init
<1>3. TypeOK
  BY <1>1, <1>2, Numbers DEF Init, TypeOK
<1>4. Clock /\ Reading
  BY Numbers DEF Init, PortInit, Clock, Reading
<1> QED
  BY <1>3, <1>4 DEF Inv

\* The network is joined.
LEMMA SetupInv ==
    ASSUME Inv, set_microros_wifi_transports
    PROVE  Inv'
<1> USE Numbers DEF Inv, set_microros_wifi_transports, port, call
<1>1. TypeOK'
  BY DEF TypeOK, PortTypeOK
<1>2. Clock'
  BY DEF TypeOK, Clock
<1>3. Reading'
  BY DEF TypeOK, PortTypeOK, Clock, Reading
<1> QED
  BY <1>1, <1>2, <1>3

\* A port is opened, with or without a socket.
LEMMA OpenInv ==
    ASSUME Inv, open
    PROVE  Inv'
<1> USE Numbers DEF Inv, open, begin, call
<1>1. TypeOK'
  BY DEF TypeOK, PortTypeOK
<1>2. Clock'
  BY DEF TypeOK, Clock
<1>3. Reading'
  BY DEF TypeOK, PortTypeOK, Clock, Reading
<1> QED
  BY <1>1, <1>2, <1>3

\* A port is closed.
LEMMA CloseInv ==
    ASSUME Inv, close
    PROVE  Inv'
<1> USE Numbers DEF Inv, close, stop, call
<1>1. TypeOK'
  <2>1. bound' \in BOOLEAN /\ opened' \in BOOLEAN
    OBVIOUS
  <2>2. inbox' \in Seq(Datagrams) /\ Len(inbox') = 0
    OBVIOUS
  <2> QED
    BY <2>1, <2>2 DEF TypeOK, PortTypeOK
<1>2. Clock'
  BY DEF TypeOK, Clock
<1>3. Reading'
  BY DEF TypeOK, PortTypeOK, Clock, Reading
<1> QED
  BY <1>1, <1>2, <1>3

\* A datagram is written.
LEMMA WriteInv ==
    ASSUME Inv, write
    PROVE  Inv'
<1> USE Numbers DEF Inv, write, Sent, flush, call
<1>1. TypeOK'
  BY DEF TypeOK, PortTypeOK
<1>2. Clock'
  BY DEF TypeOK, Clock
<1>3. Reading'
  BY DEF TypeOK, PortTypeOK, Clock, Reading
<1> QED
  BY <1>1, <1>2, <1>3

\* A read starts.
LEMMA ReadStartInv ==
    ASSUME Inv, NEW t \in Timeouts, read_start(t)
    PROVE  Inv'
<1> USE Numbers DEF Inv, read_start, port
<1>0. (now - now) % Word = 0 /\ owed' \in BOOLEAN
  BY Remainder DEF TypeOK
<1>1. TypeOK'
  BY <1>0 DEF TypeOK, PortTypeOK
<1>2. Clock'
  BY <1>0 DEF TypeOK, Clock
<1>3. Reading'
  BY DEF TypeOK, PortTypeOK, Clock, Reading
<1> QED
  BY <1>1, <1>2, <1>3

\* A read looks at its clock and asks the library.
LEMMA ReadCheckInv ==
    ASSUME Inv, read_check
    PROVE  Inv'
<1> USE Numbers DEF Inv, read_check, Found, parsePacket, call
<1>0. TimeLeft <=> waited < timeout
  BY TimeLeftExact DEF read_check
<1>1. TypeOK'
  BY DEF TypeOK, PortTypeOK
<1>2. Clock'
  BY <1>0 DEF TypeOK, Clock
<1>3. Reading'
  BY <1>0 DEF TypeOK, PortTypeOK, Clock, Reading
<1> QED
  BY <1>1, <1>2, <1>3

\* A read sleeps.
LEMMA ReadDelayInv ==
    ASSUME Inv, NEW d \in 1..MaxDelay, read_delay(d)
    PROVE  Inv'
<1> USE Numbers DEF Inv, read_delay, port
<1>0. /\ now' \in 0..(Word - 1) /\ (now' - start_time) % Word = waited + d
  BY ElapsedAcrossWrap DEF TypeOK, Clock
<1>1. TypeOK'
  BY <1>0 DEF TypeOK, PortTypeOK
<1>2. Clock'
  BY <1>0 DEF TypeOK, Clock
<1>3. Reading'
  BY DEF TypeOK, PortTypeOK, Clock, Reading
<1> QED
  BY <1>1, <1>2, <1>3

\* A read returns.
LEMMA ReadTakeInv ==
    ASSUME Inv, read_take
    PROVE  Inv'
<1> USE Numbers DEF Inv, read_take, read
<1>1. TypeOK'
  BY DEF TypeOK, PortTypeOK
<1>2. Clock'
  BY DEF TypeOK, Clock
<1>3. Reading'
  BY DEF TypeOK, PortTypeOK, Clock, Reading
<1> QED
  BY <1>1, <1>2, <1>3

\* Time between calls.
LEMMA IdleTickInv ==
    ASSUME Inv, IdleTick
    PROVE  Inv'
<1> USE Numbers DEF Inv, IdleTick, port, call
<1>0. now' \in 0..(Word - 1)
  BY Remainder DEF TypeOK
<1>1. TypeOK'
  BY <1>0 DEF TypeOK, PortTypeOK
<1>2. Clock'
  BY DEF TypeOK, Clock
<1>3. Reading'
  BY DEF TypeOK, PortTypeOK, Clock, Reading
<1> QED
  BY <1>1, <1>2, <1>3

\* The link changes or a datagram arrives.
LEMMA NetworkInv ==
    ASSUME Inv, Network
    PROVE  Inv'
<1> USE Numbers DEF Inv, Network, LinkChanges, Arrives, call
<1>1. TypeOK'
  <2>1. CASE LinkChanges
    <3>1. linked' \in BOOLEAN
      BY <2>1
    <3> QED
      BY <2>1, <3>1 DEF TypeOK, PortTypeOK
  <2>2. CASE \E d \in Datagrams : Arrives(d)
    BY <2>2 DEF TypeOK, PortTypeOK
  <2> QED
    BY <2>1, <2>2
<1>2. Clock'
  BY DEF TypeOK, Clock
<1>3. Reading'
  BY DEF TypeOK, PortTypeOK, Clock, Reading
<1> QED
  BY <1>1, <1>2, <1>3

-----------------------------------------------------------------------------

\* The invariant holds in every reachable state.
THEOREM Invariant == Spec => []Inv
<1>1. ASSUME Inv, [Next]_vars
      PROVE  Inv'
  <2>1. CASE set_microros_wifi_transports
    BY <1>1, <2>1, SetupInv
  <2>2. CASE open
    BY <1>1, <2>2, OpenInv
  <2>3. CASE close
    BY <1>1, <2>3, CloseInv
  <2>4. CASE write
    BY <1>1, <2>4, WriteInv
  <2>5. CASE \E t \in Timeouts : read_start(t)
    BY <1>1, <2>5, ReadStartInv
  <2>6. CASE read_check
    BY <1>1, <2>6, ReadCheckInv
  <2>7. CASE read_take
    BY <1>1, <2>7, ReadTakeInv
  <2>8. CASE \E d \in 1..MaxDelay : read_delay(d)
    BY <1>1, <2>8, ReadDelayInv
  <2>9. CASE IdleTick
    BY <1>1, <2>9, IdleTickInv
  <2>10. CASE Network
    BY <1>1, <2>10, NetworkInv
  <2>11. CASE UNCHANGED vars
    BY <1>1, <2>11 DEF vars, port, call, Inv, TypeOK, PortTypeOK, Clock, Reading
  <2> QED
    BY <1>1, <2>1, <2>2, <2>3, <2>4, <2>5, <2>6, <2>7, <2>8, <2>9, <2>10, <2>11 DEF Next
<1> QED
  BY <1>1, InitInv, PTL DEF Spec

\* Every variable of the transport keeps its type.
THEOREM TypeCorrect == Spec => []TypeOK
<1>1. Inv => TypeOK
  BY DEF Inv
<1> QED
  BY <1>1, Invariant, PTL

\* A read keeps its timeout for every width of millis(), wherever it wraps.
THEOREM ReadKeepsTimeHolds == Spec => []ReadKeepsTime
<1>1. Inv => ReadKeepsTime
  BY DEF Inv, Clock, Reading, ReadKeepsTime
<1> QED
  BY <1>1, Invariant, PTL

\* A datagram that was there when a read with time to wait started is read.
THEOREM PendingIsReadHolds == Spec => []PendingIsRead
<1>1. Inv => PendingIsRead
  BY DEF Inv, Reading, PendingIsRead
<1> QED
  BY <1>1, Invariant, PTL

-----------------------------------------------------------------------------

\* Parsing moves the first datagram without losing it.
LEMMA ParseKeeps ==
    ASSUME NEW S, NEW s \in Seq(S), s # <<>>
    PROVE  <<Head(s)>> \o Tail(s) = s
  BY HeadTailProperties, SeqEqual

\* With nothing parsed, what can be read is what the library holds.
LEMMA NothingParsed ==
    ASSUME NEW s \in Seq(Datagrams)
    PROVE  /\ <<>> \o s = s
           /\ \A d \in Datagrams :
                /\ <<d>> \o s # <<>>
                /\ Head(<<d>> \o s) = d
                /\ Tail(<<d>> \o s) = s
                /\ \A e \in Datagrams : <<d>> \o Append(s, e) = Append(<<d>> \o s, e)
  OBVIOUS

\* A look at the library moves at most one datagram, and loses none.
LEMMA CheckKeepsQueue ==
    ASSUME Inv, read_check
    PROVE  UNCHANGED <<Undelivered, got>>
<1>1. cur = Nothing /\ got' = got /\ inbox \in Seq(Datagrams)
  BY DEF Inv, TypeOK, PortTypeOK, Reading, read_check, call
<1>2. CASE Found
  <2>1. cur' = Head(inbox) /\ inbox' = Tail(inbox) /\ inbox # <<>>
    BY <1>2 DEF read_check, parsePacket, Found
  <2>2. cur' # Nothing
    BY <1>1, <2>1, Numbers
  <2> QED
    BY <1>1, <2>1, <2>2, ParseKeeps, NothingParsed DEF Undelivered
<1>3. CASE ~Found
  BY <1>1, <1>3 DEF read_check, Undelivered
<1> QED
  BY <1>2, <1>3

\* A read returns the first datagram, or nothing.
LEMMA TakeIsDelivery ==
    ASSUME Inv, read_take
    PROVE  Queue!Deliver \/ Queue!ReadNothing
<1>1. /\ got' = cur /\ cur' = Nothing /\ inbox' = inbox
      /\ inbox \in Seq(Datagrams) /\ cur \in Datagrams \cup {Nothing}
  BY DEF Inv, TypeOK, PortTypeOK, read_take, read
<1>2. Undelivered' = inbox
  BY <1>1, NothingParsed DEF Undelivered
<1>3. CASE cur = Nothing
  BY <1>1, <1>2, <1>3, NothingParsed DEF Undelivered, Queue!ReadNothing
<1>4. CASE cur # Nothing
  BY <1>1, <1>2, <1>4, NothingParsed DEF Undelivered, Queue!Deliver
<1> QED
  BY <1>3, <1>4

\* An arriving datagram goes to the end.
LEMMA NetworkArrives ==
    ASSUME Inv, Network
    PROVE  (\E d \in Datagrams : Queue!Arrive(d)) \/ UNCHANGED <<Undelivered, got>>
<1>1. /\ inbox \in Seq(Datagrams) /\ cur \in Datagrams \cup {Nothing}
      /\ cur' = cur /\ got' = got
  BY DEF Inv, TypeOK, PortTypeOK, Network, LinkChanges, Arrives, call
<1>2. CASE LinkChanges
  BY <1>1, <1>2 DEF LinkChanges, Undelivered
<1>3. ASSUME NEW d \in Datagrams, Arrives(d)
      PROVE  Queue!Arrive(d)
  <2>1. inbox' = Append(inbox, d) /\ inbox' \in Seq(Datagrams)
    BY <1>1, <1>3 DEF Arrives
  <2>2. Undelivered' = Append(Undelivered, d)
    BY <1>1, <2>1, NothingParsed DEF Undelivered
  <2> QED
    BY <1>1, <2>2 DEF Queue!Arrive
<1> QED
  BY <1>2, <1>3 DEF Network

\* The transport delivers the agent's datagrams as DatagramQueue promises.
THEOREM ReadsImplementQueueHolds == Spec => ReadsImplementQueue
<1>1. Init => Queue!Init
  BY NothingParsed DEF Init, PortInit, Undelivered, Queue!Init
<1>2. ASSUME Inv, [Next]_vars
      PROVE  [Queue!Next]_(Queue!vars)
  <2>0. pc # "take" => cur = Nothing
    BY <1>2 DEF Inv, Reading
  <2>1. CASE set_microros_wifi_transports \/ IdleTick
    BY <2>1 DEF set_microros_wifi_transports, IdleTick, port, call, Queue!vars,
        Undelivered
  <2>2. CASE open
    BY <2>2 DEF open, begin, call, Queue!vars, Undelivered
  <2>3. CASE close
    BY <2>3 DEF close, stop, call, Queue!Next, Queue!Close, Undelivered
  <2>4. CASE write
    BY <2>0, <2>4 DEF write, flush, call, Queue!vars, Undelivered
  <2>5. CASE \E t \in Timeouts : read_start(t)
    BY <2>5 DEF read_start, port, Queue!vars, Undelivered
  <2>6. CASE read_check
    BY <1>2, <2>6, CheckKeepsQueue DEF Queue!vars
  <2>7. CASE read_take
    BY <1>2, <2>7, TakeIsDelivery DEF Queue!Next
  <2>8. CASE \E d \in 1..MaxDelay : read_delay(d)
    BY <2>8 DEF read_delay, port, Queue!vars, Undelivered
  <2>9. CASE Network
    BY <1>2, <2>9, NetworkArrives DEF Queue!Next, Queue!vars
  <2>10. CASE UNCHANGED vars
    BY <2>10 DEF vars, port, call, Queue!vars, Undelivered
  <2> QED
    BY <1>2, <2>1, <2>2, <2>3, <2>4, <2>5, <2>6, <2>7, <2>8, <2>9, <2>10 DEF Next
<1> QED
  BY <1>1, <1>2, Invariant, PTL DEF Spec, ReadsImplementQueue, Queue!Spec
=============================================================================
