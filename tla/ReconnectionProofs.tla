------------------------- MODULE ReconnectionProofs -------------------------
(***************************************************************************)
(* Proofs about Reconnection, for all periods and times, with and without   *)
(* faults and however fast the agent comes back.                            *)
(***************************************************************************)
EXTENDS Reconnection, TLAPS

Longest == Larger(CallTime, PingTime)

\* Which states go with which places of loop(), and that a library call
\* under way takes no longer than its time.
Control ==
    /\ pc = "ping" => state \in {"WAITING_AGENT", "AGENT_CONNECTED"} /\ left <= PingTime
    /\ pc \in {"create", "await"} => state = "AGENT_AVAILABLE"
    /\ pc = "await" => step \in 1..3 /\ left <= CallTime
    /\ pc = "destroy" => state \in {"WAITING_AGENT", "AGENT_DISCONNECTED"}
    /\ pc = "spin" => state = "AGENT_CONNECTED" /\ left <= SpinTime
    /\ led => state = "AGENT_CONNECTED"

\* What is initialised at each place: what create_entities has reached, all
\* of it while connected, an owner-closed rest while destroying, else nothing.
Made(k) == {CreateOrder[i] : i \in 1..(k - 1)}
Gone(k) == {DestroyOrder[i] : i \in 1..(k - 1)}
Closed ==
    /\ "publisher" \in live => "node" \in live
    /\ live \cap {"node", "timer", "executor"} # {} => "support" \in live
    /\ "handle" \in live => "executor" \in live
Built ==
    /\ pc \in {"create", "await"} => live = Made(step)
    /\ pc = "destroy" => Closed /\ live \cap Gone(step) = {}
    /\ pc # "destroy" /\ state \in {"AGENT_CONNECTED", "AGENT_DISCONNECTED"}
         => live = Handles
    /\ pc \in {"loop", "ping"} /\ state \in {"WAITING_AGENT", "AGENT_AVAILABLE"}
         => live = {}

\* How long the agent can be gone at each place.  An answer still to come was
\* sent while the agent was there; without one, the time left of the call
\* and of the period bounds the time until the sketch finds out.
OutageAt ==
    /\ pc \in {"loop", "spin"} /\ state = "AGENT_CONNECTED" =>
         /\ since + (IF pc = "spin" THEN left ELSE 0) <= Longest + ConnPeriod + SpinTime
         /\ ~Due(ageC, ConnPeriod) => since <= Longest + Elapsed(ageC)
    /\ pc = "ping" /\ state = "AGENT_CONNECTED" =>
         since + left <= (IF reply THEN PingTime ELSE DetectBound)
    /\ pc = "await" /\ reply => since + left <= CallTime
    /\ pc = "create" /\ step > 3 => since <= CallTime

\* How a session can be lost unnoticed at each place.
StaleAt ==
    /\ state = "AGENT_CONNECTED" => outage <= DetectBound
    /\ pc = "await" /\ reply /\ step = 3 => outage <= CallTime
    /\ pc = "create" /\ step > 3 => outage <= CallTime

Timing ==
    /\ ~agentUp => OutageAt
    /\ agentUp /\ ~session => StaleAt
    /\ pc = "spin" => ageC # Unset

Inv == TypeOK /\ Control /\ Built /\ Timing

-----------------------------------------------------------------------------

\* The two orders, position by position.
LEMMA Orders ==
    /\ Len(CreateOrder) = 6 /\ Len(DestroyOrder) = 5
    /\ CreateOrder[1] = "support" /\ CreateOrder[2] = "node"
    /\ CreateOrder[3] = "publisher" /\ CreateOrder[4] = "timer"
    /\ CreateOrder[5] = "executor" /\ CreateOrder[6] = "handle"
    /\ DestroyOrder[1] = "publisher" /\ DestroyOrder[2] = "timer"
    /\ DestroyOrder[3] = "executor" /\ DestroyOrder[4] = "node"
    /\ DestroyOrder[5] = "support"
  BY DEF CreateOrder, DestroyOrder

\* The handles create_entities makes, as a set.
LEMMA HandleSet ==
    Handles = {"support", "node", "publisher", "timer", "executor", "handle"}
<1> SUFFICES {CreateOrder[i] : i \in 1..6}
           = {"support", "node", "publisher", "timer", "executor", "handle"}
  BY DEF Handles
<1>1. 1..6 = {1, 2, 3, 4, 5, 6}
  OBVIOUS
<1> QED
  BY <1>1, Orders

\* What each step of create_entities finds initialised.
LEMMA MadeAt ==
    ASSUME NEW k \in 1..6
    PROVE  /\ Made(1) = {}
           /\ Made(k + 1) = Made(k) \cup {CreateOrder[k]}
           /\ Made(7) = Handles
           /\ Made(k) \subseteq Handles
           /\ CreateOrder[k] \notin Made(k)
           /\ Owner[CreateOrder[k]] \subseteq Made(k)
  BY Orders DEF Made, Handles, Owner

\* The assumptions in the form the arithmetic needs.
LEMMA Times ==
    /\ WaitPeriod \in Nat /\ WaitPeriod > 0 /\ ConnPeriod \in Nat /\ ConnPeriod > 0
    /\ PingTime \in Nat /\ PingTime > 0 /\ SpinTime \in Nat /\ SpinTime > 0
    /\ CallTime \in Nat /\ CallTime > 0 /\ TimerPeriod \in Nat /\ TimerPeriod > 0
    /\ DataWord \in Nat /\ DataWord > 0 /\ Cap \in Nat
  BY TimesAssumption, CapAssumption

\* A call is answered only if the agent can answer.
LEMMA AnswersPossible ==
    ASSUME NEW possible \in BOOLEAN, NEW a \in Answers(possible)
    PROVE  a \in BOOLEAN /\ (a => possible)
  BY DEF Answers

\* msg.data keeps its width.
LEMMA CountedType ==
    ASSUME NEW d \in 0..(DataWord - 1)
    PROVE  Counted(d) \in 0..(DataWord - 1)
  BY Times DEF Counted

\* The LED of the end of a pass.
LEMMA EndLoopLed ==
    ASSUME NEW s, EndLoop(s)
    PROVE  led' \in BOOLEAN /\ (led' => s = "AGENT_CONNECTED")
  BY DEF EndLoop

\* create_entities starts from nothing, each step finds its owners, and the
\* last one completes the set.
LEMMA MadeFirst == Made(1) = {}
  BY DEF Made

\* A pass that waits.
LEMMA LoopWaitingInv ==
    ASSUME Inv, LoopWaiting
    PROVE  Inv'
<1> USE Times DEF Inv, LoopWaiting, Elapsed, Due, EndLoop, Call, agent
<1>0. reply' \in BOOLEAN /\ (pc' = "ping" /\ reply' => agentUp)
  BY AnswersPossible DEF TypeOK
<1>1. TypeOK'
  BY <1>0 DEF TypeOK, States, Unset, NoData, Control, Larger, Smaller
<1>2. Control'
  BY DEF TypeOK, Control, States, Unset
<1>3. Built'
  BY HandleSet DEF TypeOK, Control, Built, Closed
<1>4. Timing'
  BY <1>0 DEF TypeOK, Control, Timing, OutageAt, StaleAt, DetectBound, Longest,
      Larger, Smaller, Due, Elapsed, Unset
<1> QED
  BY <1>1, <1>2, <1>3, <1>4

\* A connected pass up to its ping or its spin.
LEMMA LoopConnectedInv ==
    ASSUME Inv, LoopConnected
    PROVE  Inv'
<1> USE Times DEF Inv, LoopConnected, Elapsed, Due, Call, agent
<1>0. reply' \in BOOLEAN /\ (pc' = "ping" /\ reply' => agentUp)
  BY AnswersPossible DEF TypeOK
<1>1. TypeOK'
  BY <1>0 DEF TypeOK, States, Unset, NoData, Control, Larger, Smaller
<1>2. Control'
  BY DEF TypeOK, Control, States, Unset
<1>3. Built'
  BY HandleSet DEF TypeOK, Control, Built, Closed
<1>4. Timing'
  BY <1>0 DEF TypeOK, Control, Timing, OutageAt, StaleAt, DetectBound, Longest,
      Larger, Smaller, Due, Elapsed, Unset
<1> QED
  BY <1>1, <1>2, <1>3, <1>4

\* A ping that returns.
LEMMA PingReturnsInv ==
    ASSUME Inv, PingReturns
    PROVE  Inv'
<1> USE Times DEF Inv, PingReturns, AfterPing, EndLoop, NoCall, agent
<1>0. led' \in BOOLEAN /\ reply' \in BOOLEAN
  BY EndLoopLed DEF TypeOK
<1>1. TypeOK'
  BY <1>0 DEF TypeOK, States, Unset, Control
<1>2. Control'
  BY DEF TypeOK, Control, States, Unset
<1>3. Built'
  BY HandleSet DEF TypeOK, Control, Built, Closed
<1>4. Timing'
  <2>1. CASE state = "WAITING_AGENT"
    BY <2>1 DEF TypeOK, Timing, OutageAt, StaleAt
  <2>2. CASE state = "AGENT_CONNECTED" /\ reply
    BY <2>2 DEF TypeOK, Control, Timing, OutageAt, StaleAt, DetectBound, Longest,
        Larger, Due, Elapsed, Unset
  <2>3. CASE state = "AGENT_CONNECTED" /\ ~reply
    BY <2>3 DEF TypeOK, Timing, OutageAt, StaleAt
  <2> QED
    BY <2>1, <2>2, <2>3 DEF TypeOK, Control
<1> QED
  BY <1>1, <1>2, <1>3, <1>4

\* create_entities is entered.
LEMMA LoopAvailableInv ==
    ASSUME Inv, LoopAvailable
    PROVE  Inv'
<1> USE Times, MadeAt DEF Inv, LoopAvailable, clocks, agent
<1>1. TypeOK'
  BY HandleSet DEF TypeOK, States, Unset, NoData, Control, Larger, Smaller
<1>2. Control'
  BY DEF TypeOK, Control, States, Unset
<1>3. Built'
  <2>1. live' = {} /\ step' = 1 /\ pc' = "create" /\ state' = "AGENT_AVAILABLE"
    BY DEF Built
  <2> QED
    BY <2>1, MadeFirst DEF Built
<1>4. Timing'
  BY DEF TypeOK, Control, Timing, OutageAt, StaleAt, DetectBound, Longest, Larger,
      Smaller, Due, Elapsed, Unset
<1> QED
  BY <1>1, <1>2, <1>3, <1>4

\* A creation is asked for.
LEMMA CreateCallsInv ==
    ASSUME Inv, CreateCalls
    PROVE  Inv'
<1> USE Times, Orders DEF Inv, CreateCalls, Call, Remote
<1>0. /\ reply' \in BOOLEAN /\ session' \in BOOLEAN
      /\ reply' => agentUp /\ (step # 1 => session)
      /\ step \in 1..3
  <2> DEFINE h == CreateOrder[step]
             ok == agentUp /\ Creatable(h, live) /\ (h = "support" \/ session)
  <2>1. ok \in BOOLEAN /\ reply' \in Answers(ok)
    BY DEF TypeOK, Creatable
  <2>2. reply' \in BOOLEAN /\ (reply' => ok)
    BY <2>1, AnswersPossible
  <2>3. step \in 1..3 /\ (step # 1 => h # "support")
    BY DEF TypeOK
  <2> QED
    BY <2>2, <2>3 DEF TypeOK
<1>1. TypeOK'
  BY <1>0 DEF TypeOK, States
<1>2. Control'
  BY DEF TypeOK, Control, States, Unset
<1>3. Built'
  BY HandleSet DEF TypeOK, Control, Built, Closed
<1>4. Timing'
  <2>1. pc' = "await" /\ state' = "AGENT_AVAILABLE" /\ left' = CallTime
    BY DEF Control
  <2>2. ~agentUp => OutageAt'
    BY <1>0, <2>1 DEF OutageAt
  <2>3. agentUp /\ ~session' => StaleAt'
    BY <1>0, <2>1 DEF StaleAt
  <2> QED
    BY <2>1, <2>2, <2>3 DEF Timing
<1> QED
  BY <1>1, <1>2, <1>3, <1>4

\* A creation is answered, or not.
LEMMA CreateReturnsInv ==
    ASSUME Inv, CreateReturns
    PROVE  Inv'
<1> USE Times, Orders, MadeAt DEF Inv, CreateReturns, NoCall, CreateNext,
    CreateFails, EnterDestroy, EndLoop, agent
<1>a. step \in 1..3 /\ step # Len(CreateOrder)
  BY DEF TypeOK, Control
<1>b. led' = led
  BY <1>a
<1>c. destroyNow' \in BOOLEAN
  <2>1. CASE reply
    BY <2>1 DEF TypeOK
  <2>2. CASE ~reply
    BY <2>2
  <2> QED
    BY <2>1, <2>2
<1>1. TypeOK'
  <2>1. live' \subseteq Handles
    <3>1. CreateOrder[step] \in Handles
      BY <1>a, HandleSet
    <3> QED
      BY <3>1 DEF TypeOK
  <2>2. /\ state' \in States /\ pc' \in {"create", "destroy"}
        /\ step' \in 1..6 /\ (pc' = "destroy" => step' \in 1..5)
    BY <1>a DEF TypeOK, States
  <2>3. reply' \in BOOLEAN
    OBVIOUS
  <2>4. /\ left' = 0
        /\ UNCHANGED <<data, ageW, ageC, timerIn, since, agentUp, session, outage, heard>>
    OBVIOUS
  <2> QED
    BY <1>b, <1>c, <2>1, <2>2, <2>3, <2>4 DEF TypeOK
<1>2. Control'
  BY DEF TypeOK, Control, States, Unset
<1>3. Built'
  <2>1. live = Made(step) /\ step \in 1..3 /\ state = "AGENT_AVAILABLE"
    BY DEF Built, Control
  <2>2. CASE reply
    <3>1. /\ pc' = "create" /\ step' = step + 1
          /\ state' = state /\ live' = live \cup {CreateOrder[step]}
      BY <2>1, <2>2
    <3>2. live' = Made(step')
      BY <2>1, <3>1
    <3> QED
      BY <2>1, <3>1, <3>2 DEF Built
  <2>3. CASE ~reply
    <3>1. pc' = "destroy" /\ step' = 1 /\ live' = live
      BY <2>3
    <3>2. Closed' /\ Gone(step') = {}
      BY <2>1, <3>1 DEF Closed, Made, Gone
    <3> QED
      BY <3>1, <3>2 DEF Built
  <2> QED
    BY <2>2, <2>3
<1>4. Timing'
  BY DEF TypeOK, Control, Timing, OutageAt, StaleAt, DetectBound, Longest, Larger,
      Smaller, Due, Elapsed, Unset
<1> QED
  BY <1>1, <1>2, <1>3, <1>4

\* A creation on the board.
LEMMA CreateLocalInv ==
    ASSUME Inv, CreateLocal
    PROVE  Inv'
<1> USE Times, Orders, MadeAt DEF Inv, CreateLocal, CreateNext, CreateFails,
    EnterDestroy, EndLoop, Remote, agent
<1>0. /\ step \in 4..6 /\ live = Made(step)
      /\ state = "AGENT_AVAILABLE"
  BY DEF TypeOK, Control, Built
<1>a. /\ \/ live' = live \cup {CreateOrder[step]} /\ CreateNext /\ UNCHANGED destroyNow
         \/ live' = live /\ CreateFails
      /\ timerIn' \in {timerIn, TimerPeriod}
  <2>1. (IF CreateOrder[step] = "executor" THEN live \ {CreateOrder[step], "handle"}
                                          ELSE live) = live
    BY <1>0 DEF Made
  <2> QED
    BY <2>1
<1>b. led' \in BOOLEAN /\ destroyNow' \in BOOLEAN
  <2>1. CASE CreateNext /\ UNCHANGED destroyNow
    BY <2>1, EndLoopLed DEF TypeOK
  <2>2. CASE CreateFails
    BY <2>2 DEF TypeOK
  <2> QED
    BY <1>a, <2>1, <2>2
<1>1. TypeOK'
  <2>1. live' \subseteq Handles
    BY <1>0, <1>a, HandleSet DEF TypeOK
  <2> QED
    BY <1>0, <1>a, <1>b, <2>1 DEF TypeOK, States
<1>2. Control'
  BY DEF TypeOK, Control, States, Unset
<1>3. Built'
  <2>1. CASE live' = live \cup {CreateOrder[step]} /\ CreateNext
    <3>1. live' = Made(step + 1)
      BY <1>0, <2>1
    <3>2. CASE step = 6
      BY <1>0, <2>1, <3>1, <3>2 DEF Built
    <3>3. CASE step # 6
      <4>1. /\ pc' = "create" /\ step' = step + 1 /\ state' = state
        BY <2>1, <3>3
      <4> QED
        BY <1>0, <3>1, <4>1 DEF Built
    <3> QED
      BY <3>2, <3>3
  <2>2. CASE live' = live /\ CreateFails
    <3>1. pc' = "destroy" /\ step' = 1
      BY <2>2
    <3>2. Closed' /\ Gone(step') = {}
      BY <1>0, <2>2, <3>1 DEF Closed, Made, Gone
    <3> QED
      BY <3>1, <3>2 DEF Built
  <2> QED
    BY <1>a, <2>1, <2>2
<1>4. Timing'
  BY DEF TypeOK, Control, Timing, OutageAt, StaleAt, DetectBound, Longest, Larger,
      Smaller, Due, Elapsed, Unset
<1> QED
  BY <1>1, <1>2, <1>3, <1>4

\* destroy_entities is entered.
LEMMA LoopDisconnectedInv ==
    ASSUME Inv, LoopDisconnected
    PROVE  Inv'
<1> USE Times DEF Inv, LoopDisconnected, EnterDestroy, clocks, agent
<1>1. TypeOK'
  BY HandleSet DEF TypeOK, States, Unset, NoData, Control, Larger, Smaller
<1>2. Control'
  BY DEF TypeOK, Control, States, Unset
<1>3. Built'
  <2>1. pc' = "destroy" /\ step' = 1 /\ live' = Handles
    BY DEF Built
  <2>2. Closed' /\ Gone(step') = {}
    BY <2>1, HandleSet DEF Closed, Gone
  <2> QED
    BY <2>1, <2>2 DEF Built
<1>4. Timing'
  BY DEF TypeOK, Control, Timing, OutageAt, StaleAt, DetectBound, Longest, Larger,
      Smaller, Due, Elapsed, Unset
<1> QED
  BY <1>1, <1>2, <1>3, <1>4

\* One fini.
LEMMA DestroyStepInv ==
    ASSUME Inv, DestroyStep
    PROVE  Inv'
<1> USE Times, Orders DEF Inv, DestroyStep, Fini, EndLoop
<1>0. led' \in BOOLEAN /\ session' \in BOOLEAN /\ live' \subseteq live
  BY EndLoopLed DEF TypeOK
<1>1. TypeOK'
  BY <1>0 DEF TypeOK, States, Control
<1>2. Control'
  BY DEF TypeOK, Control, States, Unset
<1>3. Built'
  <2>1. Closed /\ live \cap Gone(step) = {} /\ live \subseteq Handles /\ step \in 1..5
    BY DEF Built, TypeOK
  <2>2. Closed'
    BY <2>1, HandleSet DEF Closed, Gone
  <2>3. live' \cap Gone(step + 1) = {}
    BY <2>1, HandleSet DEF Closed, Gone
  <2>4. CASE step = 5
    <3>1. live' = {}
      BY <2>1, <2>2, <2>3, <2>4, HandleSet DEF Closed, Gone
    <3> QED
      BY <2>4, <3>1 DEF Built
  <2>5. CASE step # 5
    <3>1. pc' = "destroy" /\ step' = step + 1
      BY <2>5
    <3> QED
      BY <2>2, <2>3, <3>1 DEF Built
  <2> QED
    BY <2>4, <2>5
<1>4. Timing'
  BY DEF TypeOK, Control, Timing, OutageAt, StaleAt, DetectBound, Longest, Larger,
      Smaller, Due, Elapsed, Unset
<1> QED
  BY <1>1, <1>2, <1>3, <1>4

\* The timer callback.
LEMMA SpinTimerInv ==
    ASSUME Inv, SpinTimer
    PROVE  Inv'
<1> USE Times DEF Inv, SpinTimer, EndLoop
<1>0. /\ led' \in BOOLEAN
      /\ data' \in 0..(DataWord - 1) /\ heard' \in {heard, data}
  BY EndLoopLed, CountedType DEF TypeOK
<1>1. TypeOK'
  BY <1>0 DEF TypeOK, States, NoData
<1>2. Control'
  BY DEF TypeOK, Control, States, Unset
<1>3. Built'
  BY HandleSet DEF TypeOK, Control, Built, Closed
<1>4. Timing'
  BY DEF TypeOK, Control, Timing, OutageAt, StaleAt, DetectBound, Longest, Larger,
      Smaller, Due, Elapsed, Unset
<1> QED
  BY <1>1, <1>2, <1>3, <1>4

\* A spin that times out.
LEMMA SpinTimeoutInv ==
    ASSUME Inv, SpinTimeout
    PROVE  Inv'
<1> USE Times DEF Inv, SpinTimeout, EndLoop, clocks, agent
<1>1. TypeOK'
  BY HandleSet DEF TypeOK, States, Unset, NoData, Control, Larger, Smaller
<1>2. Control'
  BY DEF TypeOK, Control, States, Unset
<1>3. Built'
  BY HandleSet DEF TypeOK, Control, Built, Closed
<1>4. Timing'
  BY DEF TypeOK, Control, Timing, OutageAt, StaleAt, DetectBound, Longest, Larger,
      Smaller, Due, Elapsed, Unset
<1> QED
  BY <1>1, <1>2, <1>3, <1>4

\* Time passes.
LEMMA TickInv ==
    ASSUME Inv, Tick
    PROVE  Inv'
<1> USE Times DEF Inv, Tick, InCall, Idle, Older, sketch, agent
<1>1. TypeOK'
  BY HandleSet DEF TypeOK, States, Unset, NoData, Control, Larger, Smaller
<1>2. Control'
  BY DEF TypeOK, Control, States, Unset
<1>3. Built'
  BY HandleSet DEF TypeOK, Control, Built, Closed
<1>4. Timing'
  BY DEF TypeOK, Control, Timing, OutageAt, StaleAt, DetectBound, Longest, Larger,
      Smaller, Due, Elapsed, Unset
<1> QED
  BY <1>1, <1>2, <1>3, <1>4

\* The agent goes.
LEMMA AgentGoesInv ==
    ASSUME Inv, NEW crash \in BOOLEAN, AgentGoes(crash)
    PROVE  Inv'
<1> USE Times DEF Inv, AgentGoes, sketch
<1>0. session' \in BOOLEAN /\ reply' \in BOOLEAN
  BY DEF TypeOK
<1>a. agentUp' \in BOOLEAN
  OBVIOUS
<1>b. since' \in 0..Cap
  OBVIOUS
<1>1. TypeOK'
  BY <1>0, <1>a, <1>b DEF TypeOK
<1>2. Control'
  BY DEF TypeOK, Control, States, Unset
<1>3. Built'
  BY HandleSet DEF TypeOK, Control, Built, Closed
<1>4. Timing'
  BY DEF TypeOK, Control, Timing, OutageAt, StaleAt, DetectBound, Longest, Larger,
      Smaller, Due, Elapsed, Unset
<1> QED
  BY <1>1, <1>2, <1>3, <1>4

\* The agent comes back.
LEMMA AgentReturnsInv ==
    ASSUME Inv, AgentReturns
    PROVE  Inv'
<1> USE Times DEF Inv, AgentReturns, sketch
<1>1. TypeOK'
  BY HandleSet DEF TypeOK, States, Unset, NoData, Control, Larger, Smaller
<1>2. Control'
  BY DEF TypeOK, Control, States, Unset
<1>3. Built'
  BY HandleSet DEF TypeOK, Control, Built, Closed
<1>4. Timing'
  BY DEF TypeOK, Control, Timing, OutageAt, StaleAt, DetectBound, Longest, Larger,
      Smaller, Due, Elapsed, Unset
<1> QED
  BY <1>1, <1>2, <1>3, <1>4

-----------------------------------------------------------------------------

\* setup() establishes the inductive invariant.
LEMMA InitInv == Init => Inv
<1> SUFFICES ASSUME Init PROVE Inv
  OBVIOUS
<1> USE Times DEF Init
<1>0. {destroyNow, led, reply, agentUp, session} \subseteq BOOLEAN
  OBVIOUS
<1>1. TypeOK
  BY <1>0 DEF TypeOK, States, Unset, NoData
<1>2. Control /\ Built /\ Timing
  BY DEF Control, Built, Timing, OutageAt, StaleAt
<1> QED
  BY <1>1, <1>2 DEF Inv

\* The invariant holds in every reachable state.
THEOREM Invariant == Spec => []Inv
<1>1. ASSUME Inv, [Next]_vars
      PROVE  Inv'
  <2>1. CASE LoopWaiting
    BY <1>1, <2>1, LoopWaitingInv
  <2>2. CASE LoopConnected
    BY <1>1, <2>2, LoopConnectedInv
  <2>3. CASE LoopAvailable
    BY <1>1, <2>3, LoopAvailableInv
  <2>4. CASE LoopDisconnected
    BY <1>1, <2>4, LoopDisconnectedInv
  <2>5. CASE PingReturns
    BY <1>1, <2>5, PingReturnsInv
  <2>6. CASE CreateCalls
    BY <1>1, <2>6, CreateCallsInv
  <2>7. CASE CreateReturns
    BY <1>1, <2>7, CreateReturnsInv
  <2>8. CASE CreateLocal
    BY <1>1, <2>8, CreateLocalInv
  <2>9. CASE DestroyStep
    BY <1>1, <2>9, DestroyStepInv
  <2>10. CASE SpinTimer
    BY <1>1, <2>10, SpinTimerInv
  <2>11. CASE SpinTimeout
    BY <1>1, <2>11, SpinTimeoutInv
  <2>12. CASE Tick
    BY <1>1, <2>12, TickInv
  <2>13. CASE AgentReturns
    BY <1>1, <2>13, AgentReturnsInv
  <2>14. CASE \E crash \in BOOLEAN : AgentGoes(crash)
    BY <1>1, <2>14, AgentGoesInv
  <2>15. CASE UNCHANGED vars
    BY <1>1, <2>15 DEF vars, sketch, clocks, agent, Inv, TypeOK, Control, Built, Closed,
      Timing, OutageAt, StaleAt
  <2> QED
    BY <1>1, <2>1, <2>2, <2>3, <2>4, <2>5, <2>6, <2>7, <2>8, <2>9, <2>10, <2>11,
        <2>12, <2>13, <2>14, <2>15 DEF Next, loop
<1> QED
  BY <1>1, InitInv, PTL DEF Spec

\* Every variable of the sketch keeps its type, for all times and periods.
THEOREM TypeCorrect == Spec => []TypeOK
<1>1. Inv => TypeOK
  BY DEF Inv
<1> QED
  BY <1>1, Invariant, PTL

\* An agent that is gone is noticed within DetectBound, whatever the periods
\* and the times of the calls are and whichever answers are lost.
THEOREM OutageDetectedHolds == Spec => []OutageDetected
<1>1. Inv => OutageDetected
  <2> SUFFICES ASSUME Inv, led \/ state = "AGENT_CONNECTED", ~agentUp
               PROVE  since <= DetectBound
    BY DEF OutageDetected
  <2>1. OutageAt /\ state = "AGENT_CONNECTED" /\ pc \in {"loop", "ping", "spin"}
    BY DEF Inv, TypeOK, Timing, Control
  <2> QED
    BY <2>1, Times DEF Inv, TypeOK, OutageAt, DetectBound, Longest, Larger
<1> QED
  BY <1>1, Invariant, PTL

\* A session the agent forgot goes unnoticed only after an outage that was
\* too short to be detected.
THEOREM StaleOnlyAfterShortOutageHolds == Spec => []StaleOnlyAfterShortOutage
<1>1. Inv => StaleOnlyAfterShortOutage
  BY DEF Inv, Timing, StaleAt, StaleOnlyAfterShortOutage
<1> QED
  BY <1>1, Invariant, PTL

\* A connected sketch has every entity, and its timer in the executor.
THEOREM ConnectedIsCompleteHolds == Spec => []ConnectedIsComplete
<1>1. Inv => ConnectedIsComplete
  BY DEF Inv, Control, Built, ConnectedIsComplete
<1> QED
  BY <1>1, Invariant, PTL

-----------------------------------------------------------------------------

\* Most steps leave the lifecycle alone; one begins a build, one gives up a
\* live set, and the time and the agent never touch it.
LEMMA QuietSteps ==
    ASSUME Inv,
           \/ LoopWaiting \/ LoopConnected \/ LoopDisconnected
           \/ CreateCalls \/ SpinTimer \/ SpinTimeout
           \/ Tick \/ AgentReturns \/ \E crash \in BOOLEAN : AgentGoes(crash)
    PROVE  UNCHANGED <<Phase, Held>>
<1> USE DEF Inv, TypeOK, States, Control, Phase, Held
<1>1. CASE LoopWaiting
  BY <1>1 DEF LoopWaiting, EndLoop
<1>2. CASE LoopConnected
  BY <1>2 DEF LoopConnected
<1>3. CASE LoopDisconnected
  BY <1>3 DEF LoopDisconnected, EnterDestroy
<1>4. CASE CreateCalls
  BY <1>4 DEF CreateCalls
<1>5. CASE SpinTimer \/ SpinTimeout
  BY <1>5 DEF SpinTimer, SpinTimeout, EndLoop
<1>6. CASE Tick \/ AgentReturns \/ \E crash \in BOOLEAN : AgentGoes(crash)
  BY <1>6 DEF Tick, AgentReturns, AgentGoes, sketch
<1> QED
  BY <1>1, <1>2, <1>3, <1>4, <1>5, <1>6

\* A ping ends a live phase or leaves everything as it is.
LEMMA PingReturnsStep ==
    ASSUME Inv, PingReturns
    PROVE  Lifecycle!GiveUp \/ UNCHANGED <<Phase, Held>>
  BY DEF PingReturns, AfterPing, EndLoop, Inv, Control, Phase, Held, Lifecycle!GiveUp

\* create_entities starts from nothing.
LEMMA LoopAvailableStep ==
    ASSUME Inv, LoopAvailable
    PROVE  Lifecycle!Begin
  BY DEF LoopAvailable, Inv, Built, Phase, Held, Lifecycle!Begin

\* The entities of the lifecycle are the handles that live on.
LEMMA EntitySet == Entities = {"support", "node", "publisher", "timer", "executor"}
  BY HandleSet DEF Entities

\* A creation the agent answers makes one entity.
LEMMA CreateReturnsStep ==
    ASSUME Inv, CreateReturns
    PROVE  (\E e \in Entities : Lifecycle!Make(e)) \/ Lifecycle!GiveUp
<1>0. /\ step \in 1..3 /\ live = Made(step) /\ state = "AGENT_AVAILABLE"
      /\ Phase = "building"
  BY DEF Inv, Control, Built, CreateReturns, Phase
<1>1. CASE reply
  <2> DEFINE e == CreateOrder[step]
  <2>1. e \in Entities /\ e # "handle"
    BY <1>0, Orders, EntitySet
  <2>2. live' = live \cup {e} /\ Phase' = "building"
    BY <1>0, <1>1, Orders DEF CreateReturns, CreateNext, Phase
  <2>3. e \notin live /\ Owner[e] \subseteq live
    BY <1>0, MadeAt
  <2>4. Owner[e] \subseteq live \ {"handle"}
    BY <1>0, <2>3, Orders DEF Owner
  <2>5. Lifecycle!Make(e)
    BY <1>0, <2>1, <2>2, <2>3, <2>4 DEF Lifecycle!Make, Held
  <2> QED
    BY <2>1, <2>5
<1>2. CASE ~reply
  BY <1>0, <1>2 DEF CreateReturns, CreateFails, EnterDestroy, Phase, Held,
      Lifecycle!GiveUp
<1> QED
  BY <1>1, <1>2

\* A creation on the board makes one entity, or completes the set.
LEMMA CreateLocalStep ==
    ASSUME Inv, CreateLocal
    PROVE  \/ \E e \in Entities : Lifecycle!Make(e)
           \/ Lifecycle!Complete \/ Lifecycle!GiveUp
<1>0. /\ step \in 4..6 /\ live = Made(step) /\ state = "AGENT_AVAILABLE"
      /\ Phase = "building"
  BY Orders DEF Inv, TypeOK, Control, Built, CreateLocal, Remote, Phase
<1> DEFINE e == CreateOrder[step]
<1>1. \/ live' = live \cup {e} /\ CreateNext
      \/ live' = live /\ CreateFails
  <2>1. (IF e = "executor" THEN live \ {e, "handle"} ELSE live) = live
    BY <1>0, Orders DEF Made
  <2> QED
    BY <2>1 DEF CreateLocal
<1>2. CASE live' = live \cup {e} /\ CreateNext /\ step \in 4..5
  <2>1. e \in Entities /\ e # "handle"
    BY <1>2, Orders, EntitySet
  <2>2. Phase' = "building"
    BY <1>2, Orders DEF CreateNext, Phase
  <2>3. e \notin live /\ Owner[e] \subseteq live
    BY <1>0, MadeAt
  <2>4. Owner[e] \subseteq live \ {"handle"}
    BY <1>2, <2>3, Orders DEF Owner
  <2>5. Lifecycle!Make(e)
    BY <1>0, <1>2, <2>1, <2>2, <2>3, <2>4 DEF Lifecycle!Make, Held
  <2> QED
    BY <2>1, <2>5
<1>3. CASE live' = live \cup {e} /\ CreateNext /\ step = 6
  <2>1. e = "handle" /\ live \cup {e} = Handles
    BY <1>0, <1>3, MadeAt, Orders
  <2>2. Held = Entities /\ Held' = Held
    BY <1>3, <2>1, HandleSet, EntitySet DEF Held
  <2>3. Phase' = "live"
    BY <1>3, Orders DEF CreateNext, EndLoop, Phase
  <2> QED
    BY <1>0, <2>2, <2>3 DEF Lifecycle!Complete
<1>4. CASE live' = live /\ CreateFails
  BY <1>0, <1>4 DEF CreateFails, EnterDestroy, Phase, Held, Lifecycle!GiveUp
<1> QED
  BY <1>0, <1>1, <1>2, <1>3, <1>4

\* A fini frees an entity nothing belongs to any more, or does nothing; the
\* last one ends the release.
LEMMA DestroyStepStep ==
    ASSUME Inv, DestroyStep
    PROVE  \/ \E e \in Entities : Lifecycle!Free(e)
           \/ Lifecycle!Released \/ UNCHANGED <<Phase, Held>>
<1> DEFINE e == DestroyOrder[step]
<1>0. /\ step \in 1..5 /\ Closed /\ live \cap Gone(step) = {}
      /\ live \subseteq Handles /\ Phase = "releasing"
  BY DEF Inv, TypeOK, Built, DestroyStep, Phase
<1>1. e \in Entities /\ Held' = Held \ {e}
  BY <1>0, Orders, EntitySet DEF DestroyStep, Fini, Held, Closed
<1>2. CASE step = 5
  <2>1. Held \subseteq {e}
    BY <1>0, <1>2, Orders, HandleSet DEF Held, Gone
  <2>2. Held' = {} /\ Phase' = "released"
    BY <1>1, <1>2, <2>1, Orders DEF DestroyStep, EndLoop, Phase
  <2> QED
    BY <1>0, <1>1, <2>1, <2>2 DEF Lifecycle!Released
<1>3. CASE step # 5
  <2>1. Phase' = "releasing"
    BY <1>3, Orders DEF DestroyStep, Phase
  <2>2. \A f \in Held : e \notin Owner[f]
    BY <1>0, <1>3, Orders, HandleSet DEF Held, Gone, Owner
  <2> QED
    BY <1>0, <1>1, <2>1, <2>2 DEF Lifecycle!Free
<1> QED
  BY <1>2, <1>3

\* create_entities and destroy_entities implement the lifecycle the rcl and
\* rclc libraries ask for, at every failure and every outage.
THEOREM ImplementsLifecycleHolds == Spec => ImplementsLifecycle
<1>1. Init => Lifecycle!Init
  BY DEF Init, Lifecycle!Init, Phase, Held
<1>2. ASSUME Inv, [Next]_vars
      PROVE  [Lifecycle!Next]_(Lifecycle!vars)
  <2>1. CASE \/ LoopWaiting \/ LoopConnected \/ LoopDisconnected
             \/ CreateCalls \/ SpinTimer \/ SpinTimeout
             \/ Tick \/ AgentReturns \/ \E crash \in BOOLEAN : AgentGoes(crash)
    BY <1>2, <2>1, QuietSteps DEF Lifecycle!vars
  <2>2. CASE PingReturns
    BY <1>2, <2>2, PingReturnsStep DEF Lifecycle!vars, Lifecycle!Next
  <2>3. CASE LoopAvailable
    BY <1>2, <2>3, LoopAvailableStep DEF Lifecycle!Next
  <2>4. CASE CreateReturns
    BY <1>2, <2>4, CreateReturnsStep DEF Lifecycle!Next
  <2>5. CASE CreateLocal
    BY <1>2, <2>5, CreateLocalStep DEF Lifecycle!Next
  <2>6. CASE DestroyStep
    BY <1>2, <2>6, DestroyStepStep DEF Lifecycle!vars, Lifecycle!Next
  <2>7. CASE UNCHANGED vars
    BY <2>7 DEF vars, sketch, Lifecycle!vars, Phase, Held
  <2> QED
    BY <1>2, <2>1, <2>2, <2>3, <2>4, <2>5, <2>6, <2>7 DEF Next, loop
<1> QED
  BY <1>1, <1>2, Invariant, PTL DEF Spec, ImplementsLifecycle, Lifecycle!Spec

-----------------------------------------------------------------------------

\* How long the agent can have been back when a pass starts to wait for it:
\* a build failed on a session the agent forgot, or a ping failed and the
\* period passed.
Late == Larger(2 * CallTime, PingTime + WaitPeriod + 1)

\* While a period is not over it has run since the ping it was set by.  The
\* agent came back after that ping was answered, or while it was under way.
BackSinceAnswer == ~Due(ageW, WaitPeriod) => since <= Elapsed(ageW)
BackSincePing == ~Due(ageW, WaitPeriod) => since <= PingTime + Elapsed(ageW)

\* How long the agent can have been up at each place of a sketch that is not
\* connected: while it waits, while it builds, and while it gives up a build
\* or a connection the agent was away for.
WaitingAt ==
    /\ pc = "loop" /\ state = "WAITING_AGENT" => since <= Late /\ BackSincePing
    /\ pc = "ping" /\ state = "WAITING_AGENT" =>
         since + left <= (IF reply THEN Late ELSE 0) + PingTime
    /\ pc = "loop" /\ state = "AGENT_AVAILABLE" => since <= Late + PingTime
BuildingAt ==
    /\ pc = "create" =>
         since <= Late + PingTime + (IF step > 3 THEN 3 ELSE step - 1) * CallTime
    /\ pc = "create" /\ step \in 2..3 /\ ~session =>
         since <= CallTime /\ BackSinceAnswer
    /\ pc = "await" =>
         IF reply /\ session THEN since + left <= Late + PingTime + step * CallTime
         ELSE /\ since + left <= (IF reply THEN 1 ELSE 2) * CallTime
              /\ BackSinceAnswer
LeavingAt ==
    /\ pc = "ping" /\ state = "AGENT_CONNECTED" /\ ~reply => since + left <= PingTime
    /\ pc = "loop" /\ state = "AGENT_DISCONNECTED" => since <= PingTime
    /\ pc = "destroy" => since <= Late /\ BackSincePing

\* Nothing but a call of the library takes time, a destruction takes none,
\* and the waiting period starts with the first pass.
Prompt ==
    /\ pc \in {"loop", "create", "destroy"} => left = 0
    /\ pc = "destroy" /\ "support" \in live => destroyNow
    /\ ageW = Unset => pc = "loop" /\ state = "WAITING_AGENT" /\ since = 0

UpAt == WaitingAt /\ BuildingAt /\ LeavingAt
Recovering == Prompt /\ (agentUp => UpAt)

\* The two bounds are numbers.
LEMMA LateIsNumber ==
    Late \in Nat /\ Late >= 2 * CallTime /\ Late >= PingTime + WaitPeriod + 1
  BY Times DEF Late, Larger

\* Without faults a call the agent can answer is answered.
LEMMA AnswersSure ==
    ASSUME ~Faults, NEW possible \in BOOLEAN
    PROVE  Answers(possible) = {possible}
  BY DEF Answers

\* A pass that waits: a period that is over starts the last ping.
LEMMA LoopWaitingRecovers ==
    ASSUME ~Faults, Inv, Recovering, LoopWaiting
    PROVE  Recovering'
<1> USE Times, Orders DEF Inv, TypeOK, Control, Recovering, Prompt, Unset,
    LoopWaiting, EndLoop, Call, agent
<1>1. Prompt'
  <2>1. (ageW' # Unset /\ left' = 0) \/ pc' = "ping"
    BY DEF Elapsed
  <2> QED
    BY <2>1 DEF Elapsed
<1>2. agentUp /\ Due(ageW, WaitPeriod) => reply'
  BY AnswersSure
<1>3. agentUp' => WaitingAt'
  <2>1. CASE Due(ageW, WaitPeriod)
    BY <1>2, <2>1, LateIsNumber DEF UpAt, WaitingAt
  <2>2. CASE ~Due(ageW, WaitPeriod)
    BY <2>2 DEF UpAt, WaitingAt, BackSincePing, Elapsed
  <2> QED
    BY <2>1, <2>2
<1> QED
  BY <1>1, <1>3 DEF UpAt, BuildingAt, LeavingAt

\* A connected pass: from now on only a failed ping counts.
LEMMA LoopConnectedRecovers ==
    ASSUME ~Faults, Inv, Recovering, LoopConnected
    PROVE  Recovering'
<1> USE Times, Orders DEF Inv, TypeOK, Control, Recovering, Prompt, Unset,
    LoopConnected, Call, agent
<1>1. Prompt'
  OBVIOUS
<1>2. agentUp' => WaitingAt'
  BY DEF WaitingAt
<1>3. agentUp' => BuildingAt'
  BY DEF BuildingAt
<1>4. agentUp' => LeavingAt'
  BY AnswersSure DEF LeavingAt
<1> QED
  BY <1>1, <1>2, <1>3, <1>4 DEF UpAt

\* The build begins as soon as the ping is answered.
LEMMA LoopAvailableRecovers ==
    ASSUME ~Faults, Inv, Recovering, LoopAvailable
    PROVE  Recovering'
<1> USE Times, Orders DEF Inv, TypeOK, Control, Recovering, Prompt, Unset,
    LoopAvailable, clocks, agent
<1>1. Prompt'
  OBVIOUS
<1>2. agentUp' => WaitingAt'
  BY DEF WaitingAt
<1>3. agentUp' => BuildingAt'
  BY DEF UpAt, WaitingAt, BuildingAt, Late, Larger
<1>4. agentUp' => LeavingAt'
  BY DEF LeavingAt
<1> QED
  BY <1>1, <1>2, <1>3, <1>4 DEF UpAt

\* The destruction begins at once, with no time to wait in it.
LEMMA LoopDisconnectedRecovers ==
    ASSUME ~Faults, Inv, Recovering, LoopDisconnected
    PROVE  Recovering'
<1> USE Times, Orders DEF Inv, TypeOK, Control, Recovering, Prompt, Unset,
    LoopDisconnected, EnterDestroy, clocks, agent
<1>1. Prompt'
  OBVIOUS
<1>2. agentUp' => WaitingAt'
  BY DEF WaitingAt
<1>3. agentUp' => BuildingAt'
  BY DEF BuildingAt
<1>4. agentUp' => LeavingAt'
  BY DEF UpAt, LeavingAt, BackSincePing, Elapsed, Late, Larger
<1> QED
  BY <1>1, <1>2, <1>3, <1>4 DEF UpAt

\* A ping that fails while the agent is up started without it.
LEMMA PingReturnsRecovers ==
    ASSUME ~Faults, Inv, Recovering, PingReturns
    PROVE  Recovering'
<1> USE Times, Orders DEF Inv, TypeOK, Control, Recovering, Prompt, Unset,
    PingReturns, AfterPing, EndLoop, NoCall, agent
<1>1. Prompt'
  OBVIOUS
<1>2. agentUp' => WaitingAt'
  BY DEF UpAt, WaitingAt, BackSincePing, Elapsed, Late, Larger
<1>3. agentUp' => BuildingAt'
  BY DEF BuildingAt
<1>4. agentUp' => LeavingAt'
  BY DEF UpAt, LeavingAt
<1> QED
  BY <1>1, <1>2, <1>3, <1>4 DEF UpAt

\* A creation the agent can answer is answered; only a forgotten session
\* fails it.
LEMMA CreateCallsRecovers ==
    ASSUME ~Faults, Inv, Recovering, CreateCalls
    PROVE  Recovering'
<1> USE Times, Orders DEF Inv, TypeOK, Control, Recovering, Prompt, Unset,
    CreateCalls, Call, Remote
<1>1. Prompt'
  OBVIOUS
<1>2. state' = "AGENT_AVAILABLE" /\ pc' = "await" /\ step' \in 1..3
  OBVIOUS
<1>3. agentUp => reply' = (step = 1 \/ session)
  <2> DEFINE h == CreateOrder[step]
             ok == agentUp /\ Creatable(h, live) /\ (h = "support" \/ session)
  <2>1. live = Made(step) /\ step \in 1..6
    BY DEF Built
  <2>2. Creatable(h, live)
    BY <2>1, MadeAt DEF Creatable
  <2>3. ok \in BOOLEAN /\ reply' \in Answers(ok)
    OBVIOUS
  <2>4. reply' = ok
    BY <2>3, AnswersSure
  <2>5. (h = "support") <=> step = 1
    BY <1>2
  <2> QED
    BY <2>2, <2>4, <2>5
<1>4. step = 1 => session' = reply'
  OBVIOUS
<1>5. step # 1 => session' = session
  BY <1>2
<1>6. agentUp' => BuildingAt'
  <2> SUFFICES ASSUME agentUp PROVE BuildingAt'
    OBVIOUS
  <2>1. CASE step = 1
    <3>1. reply' /\ session' /\ step' = 1
      BY <1>3, <1>4, <2>1
    <3>2. since' = since /\ left' = CallTime /\ since \in Nat /\ pc = "create"
      OBVIOUS
    <3>3. since <= Late + PingTime
      BY <2>1, <3>2, LateIsNumber DEF UpAt, BuildingAt
    <3>4. since' + left' <= Late + PingTime + step' * CallTime
      BY <3>1, <3>2, <3>3, LateIsNumber
    <3> QED
      BY <1>2, <3>1, <3>4 DEF BuildingAt
  <2>2. CASE step # 1 /\ session
    <3>1. step = 2 \/ step = 3
      BY <1>2, <2>2
    <3>a. reply' /\ session'
      BY <1>3, <1>5, <2>2
    <3>b. since' = since /\ left' = CallTime /\ since \in Nat
      OBVIOUS
    <3>2. /\ pc = "create" /\ since' + left' = since + CallTime
          /\ step' = step /\ reply' /\ session' /\ since \in Nat
      BY <3>a, <3>b
    <3>3. since <= Late + PingTime + (step - 1) * CallTime
      BY <3>1, <3>2 DEF UpAt, BuildingAt
    <3>4. since + CallTime <= Late + PingTime + step * CallTime
      BY <3>1, <3>2, <3>3, LateIsNumber
    <3> QED
      BY <1>2, <3>2, <3>4 DEF BuildingAt
  <2>3. CASE step # 1 /\ ~session
    BY <1>2, <1>3, <1>5, <2>3 DEF UpAt, BuildingAt, BackSinceAnswer
  <2> QED
    BY <2>1, <2>2, <2>3
<1> QED
  BY <1>1, <1>2, <1>6 DEF UpAt, WaitingAt, LeavingAt

\* A creation that fails while the agent is up started without it, or on a
\* session it forgot.
LEMMA CreateReturnsRecovers ==
    ASSUME ~Faults, Inv, Recovering, CreateReturns
    PROVE  Recovering'
<1> USE Times, Orders DEF Inv, TypeOK, Control, Recovering, Prompt, Unset,
    CreateReturns, NoCall, CreateNext, CreateFails, EnterDestroy, EndLoop,
    agent
<1>1. Prompt'
  OBVIOUS
<1>2. agentUp' => WaitingAt'
  BY DEF WaitingAt
<1>3. agentUp' => BuildingAt'
  BY DEF UpAt, BuildingAt, BackSinceAnswer, Late, Larger
<1>4. agentUp' => LeavingAt'
  BY DEF UpAt, BuildingAt, LeavingAt, BackSinceAnswer, BackSincePing, Elapsed,
      Late, Larger
<1> QED
  BY <1>1, <1>2, <1>3, <1>4 DEF UpAt

\* What the board makes by itself does not fail.
LEMMA CreateLocalRecovers ==
    ASSUME ~Faults, Inv, Recovering, CreateLocal
    PROVE  Recovering'
<1>1. /\ step \in 4..6 /\ live = Made(step) /\ CreateOrder[step] \notin Remote
      /\ state = "AGENT_AVAILABLE" /\ pc = "create"
  BY Orders DEF Inv, TypeOK, Control, Built, CreateLocal, Remote
<1>2. CreateNext /\ UNCHANGED <<ageW, left, since, agentUp>>
  <2> DEFINE h == CreateOrder[step]
             there == IF h = "executor" THEN live \ {h, "handle"} ELSE live
  <2>1. there = live
    BY <1>1, Orders DEF Made
  <2>2. Creatable(h, there)
    BY <1>1, <2>1, MadeAt DEF Creatable
  <2>3. Answers(Creatable(h, there)) = {TRUE}
    BY <2>2, AnswersSure
  <2>4. \E ok \in Answers(Creatable(h, there)) : IF ok THEN CreateNext ELSE CreateFails
    BY DEF CreateLocal
  <2> QED
    BY <2>3, <2>4 DEF CreateLocal, agent
<1>3. CASE step = 6
  <2>1. state' = "AGENT_CONNECTED" /\ pc' = "loop"
    BY <1>2, <1>3, Orders DEF CreateNext, EndLoop
  <2> QED
    BY <1>1, <1>2, <2>1 DEF Recovering, Prompt, UpAt, WaitingAt, BuildingAt,
        LeavingAt
<1>4. CASE step # 6
  <2>1. pc' = "create" /\ step' = step + 1 /\ state' = state
    BY <1>2, <1>4, Orders DEF CreateNext
  <2> QED
    BY <1>1, <1>2, <2>1 DEF Recovering, Prompt, UpAt, WaitingAt, BuildingAt,
        LeavingAt
<1> QED
  BY <1>1, <1>3, <1>4

\* No fini waits for the agent.
LEMMA DestroyStepRecovers ==
    ASSUME ~Faults, Inv, Recovering, DestroyStep
    PROVE  Recovering'
<1> USE Times, Orders DEF Inv, TypeOK, Control, Recovering, Prompt, Unset,
    DestroyStep, Fini, EndLoop
<1>1. left' = 0
  <2>1. DestroyOrder[step] \in Remote \cap live => "support" \in live
    BY DEF Built, Closed
  <2> QED
    BY <2>1
<1>2. Prompt'
  <2>1. live' \subseteq live /\ destroyNow' = destroyNow
    OBVIOUS
  <2> QED
    BY <1>1, <2>1
<1>3. agentUp' => WaitingAt'
  BY DEF UpAt, WaitingAt, LeavingAt, BackSincePing
<1>4. agentUp' => BuildingAt'
  BY DEF BuildingAt
<1>5. agentUp' => LeavingAt'
  BY DEF UpAt, LeavingAt, BackSincePing
<1> QED
  BY <1>2, <1>3, <1>4, <1>5 DEF UpAt

\* The timer callback leaves the sketch connected.
LEMMA SpinTimerRecovers ==
    ASSUME ~Faults, Inv, Recovering, SpinTimer
    PROVE  Recovering'
<1> USE Times, Orders DEF Inv, TypeOK, Control, Recovering, Prompt, Unset,
    SpinTimer, EndLoop
<1>1. Prompt'
  OBVIOUS
<1>2. agentUp' => WaitingAt'
  BY DEF WaitingAt
<1>3. agentUp' => BuildingAt'
  BY DEF BuildingAt
<1>4. agentUp' => LeavingAt'
  BY DEF LeavingAt
<1> QED
  BY <1>1, <1>2, <1>3, <1>4 DEF UpAt

\* So does a spin that times out.
LEMMA SpinTimeoutRecovers ==
    ASSUME ~Faults, Inv, Recovering, SpinTimeout
    PROVE  Recovering'
<1> USE Times, Orders DEF Inv, TypeOK, Control, Recovering, Prompt, Unset,
    SpinTimeout, EndLoop, clocks, agent
<1>1. Prompt'
  OBVIOUS
<1>2. agentUp' => WaitingAt'
  BY DEF WaitingAt
<1>3. agentUp' => BuildingAt'
  BY DEF BuildingAt
<1>4. agentUp' => LeavingAt'
  BY DEF LeavingAt
<1> QED
  BY <1>1, <1>2, <1>3, <1>4 DEF UpAt

\* A period not over, or a call under way, uses up the time that passes.
LEMMA TickRecovers ==
    ASSUME ~Faults, Inv, Recovering, Tick
    PROVE  Recovering'
<1> USE Times, Orders DEF Inv, TypeOK, Control, Recovering, Prompt, Unset,
    Tick, InCall, Idle, Older, sketch, agent
<1>1. Prompt'
  BY DEF Smaller
<1>2. agentUp' => WaitingAt'
  BY DEF UpAt, WaitingAt, BackSincePing, Due, Elapsed, Late, Larger, Smaller
<1>3. agentUp' => BuildingAt'
  BY DEF UpAt, BuildingAt, BackSinceAnswer, Due, Elapsed, Late, Larger, Smaller
<1>4. agentUp' => LeavingAt'
  BY DEF UpAt, LeavingAt, Smaller
<1> QED
  BY <1>1, <1>2, <1>3, <1>4 DEF UpAt

\* The agent goes: an answer it has sent may still arrive.
LEMMA AgentGoesRecovers ==
    ASSUME ~Faults, Inv, Recovering, NEW crash \in BOOLEAN, AgentGoes(crash)
    PROVE  Recovering'
<1> USE Times, Orders DEF Inv, TypeOK, Control, Recovering, Prompt, Unset,
    AgentGoes, sketch
<1>1. Prompt'
  OBVIOUS
<1>2. agentUp' => WaitingAt'
  OBVIOUS
<1>3. agentUp' => BuildingAt'
  OBVIOUS
<1>4. agentUp' => LeavingAt'
  OBVIOUS
<1> QED
  BY <1>1, <1>2, <1>3, <1>4

\* The agent comes back: its time starts at zero.
LEMMA AgentReturnsRecovers ==
    ASSUME ~Faults, Inv, Recovering, AgentReturns
    PROVE  Recovering'
<1> USE Times, Orders DEF Inv, TypeOK, Control, Recovering, Prompt, Unset,
    AgentReturns, sketch
<1>1. Prompt'
  OBVIOUS
<1>2. agentUp' => WaitingAt'
  BY DEF WaitingAt, BackSincePing, Elapsed, Late, Larger
<1>3. agentUp' => BuildingAt'
  BY DEF BuildingAt, BackSinceAnswer, Elapsed, Late, Larger
<1>4. agentUp' => LeavingAt'
  BY DEF LeavingAt, BackSincePing, Elapsed, Late, Larger
<1> QED
  BY <1>1, <1>2, <1>3, <1>4 DEF UpAt

\* Nothing has started, and nothing has taken time.
LEMMA InitRecovers == Init => Recovering
<1> SUFFICES ASSUME Init PROVE Recovering
  OBVIOUS
<1>1. BackSincePing /\ since <= Late
  BY Times DEF Init, BackSincePing, Elapsed, Late, Larger
<1> QED
  BY <1>1 DEF Init, Recovering, Prompt, UpAt, WaitingAt, BuildingAt, LeavingAt

\* With no answer lost, the sketch is connected to an agent that has been up
\* for ReconnectBound, for all periods and times, wherever in loop() the agent
\* came back and however often it went before.
THEOREM RecoveredInTimeHolds ==
    ASSUME ~Faults
    PROVE  Spec => []RecoveredInTime
<1>1. ASSUME Inv, Recovering, [Next]_vars
      PROVE  Recovering'
  <2>1. CASE LoopWaiting
    BY <1>1, <2>1, LoopWaitingRecovers
  <2>2. CASE LoopConnected
    BY <1>1, <2>2, LoopConnectedRecovers
  <2>3. CASE LoopAvailable
    BY <1>1, <2>3, LoopAvailableRecovers
  <2>4. CASE LoopDisconnected
    BY <1>1, <2>4, LoopDisconnectedRecovers
  <2>5. CASE PingReturns
    BY <1>1, <2>5, PingReturnsRecovers
  <2>6. CASE CreateCalls
    BY <1>1, <2>6, CreateCallsRecovers
  <2>7. CASE CreateReturns
    BY <1>1, <2>7, CreateReturnsRecovers
  <2>8. CASE CreateLocal
    BY <1>1, <2>8, CreateLocalRecovers
  <2>9. CASE DestroyStep
    BY <1>1, <2>9, DestroyStepRecovers
  <2>10. CASE SpinTimer
    BY <1>1, <2>10, SpinTimerRecovers
  <2>11. CASE SpinTimeout
    BY <1>1, <2>11, SpinTimeoutRecovers
  <2>12. CASE Tick
    BY <1>1, <2>12, TickRecovers
  <2>13. CASE AgentReturns
    BY <1>1, <2>13, AgentReturnsRecovers
  <2>14. CASE \E crash \in BOOLEAN : AgentGoes(crash)
    BY <1>1, <2>14, AgentGoesRecovers
  <2>15. CASE UNCHANGED vars
    BY <1>1, <2>15 DEF vars, sketch, clocks, agent, Recovering, Prompt, UpAt,
      WaitingAt, BuildingAt, LeavingAt, BackSinceAnswer, BackSincePing, Due, Elapsed
  <2> QED
    BY <1>1, <2>1, <2>2, <2>3, <2>4, <2>5, <2>6, <2>7, <2>8, <2>9, <2>10, <2>11,
        <2>12, <2>13, <2>14, <2>15 DEF Next, loop
<1>2. Inv /\ Recovering => RecoveredInTime
  <2> SUFFICES ASSUME Inv, Recovering, agentUp, state # "AGENT_CONNECTED"
               PROVE  since <= ReconnectBound
    BY Times DEF RecoveredInTime, Inv, TypeOK, ReconnectBound, Larger
  <2>1. UpAt /\ pc # "spin" /\ left \in Nat /\ since \in Nat
    BY Times DEF Inv, TypeOK, Control, Recovering
  <2>2. CASE pc \in {"loop", "ping", "destroy"}
    BY <2>1, <2>2, Times DEF Inv, TypeOK, Control, States, UpAt, WaitingAt, LeavingAt,
        Late, Larger, ReconnectBound
  <2>3. CASE pc \in {"create", "await"}
    BY <2>1, <2>3, Times DEF Inv, TypeOK, Control, UpAt, BuildingAt, Late, Larger,
        ReconnectBound
  <2> QED
    BY <2>1, <2>2, <2>3 DEF Inv, TypeOK
<1> QED
  BY <1>1, <1>2, InitRecovers, Invariant, PTL DEF Spec

=============================================================================
