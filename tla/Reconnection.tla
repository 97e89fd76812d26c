---------------------------- MODULE Reconnection ----------------------------
(***************************************************************************)
(* The reconnection sketch, examples/micro-ros_reconnection_example: one    *)
(* loop() that pings the agent, builds the micro-ROS entities when it       *)
(* answers, tears them down when it stops answering, and starts again.      *)
(*                                                                         *)
(* Time is discrete.  Code takes no time; a call into the library takes up  *)
(* to the time its arguments or the library's configuration allow, and the  *)
(* agent can go away or come back at any moment of it.                      *)
(***************************************************************************)
EXTENDS Integers, Sequences

CONSTANTS
    WaitPeriod,     \* EXECUTE_EVERY_N_MS(500, ...) while waiting
    ConnPeriod,     \* EXECUTE_EVERY_N_MS(200, ...) while connected
    PingTime,       \* rmw_uros_ping_agent(100, 1)
    SpinTime,       \* rclc_executor_spin_some(..., 100 ms)
    CallTime,       \* the library's wait for the answer to one creation
    TimerPeriod,    \* timer_timeout
    DataWord,       \* the number of values of msg.data
    Faults,         \* may an answer be lost, a publication, an allocation?
    Cap             \* bound: since and outage stop growing here

Larger(a, b) == IF a > b THEN a ELSE b
Smaller(a, b) == IF a < b THEN a ELSE b

\* How long the sketch can believe in an agent that is gone: an answer that
\* was under way when the agent went, then a period, the spin that outlasts
\* the period, and the ping that fails.
DetectBound == Larger(CallTime, PingTime) + ConnPeriod + SpinTime + PingTime

\* How long it takes to be connected once the agent stays: the build under
\* way fails on a session lost after its first answer, or the ping under way
\* fails and a full period passes; then a ping and three creations.
ReconnectBound ==
    Larger(2 * CallTime, PingTime + WaitPeriod + 1) + PingTime + 3 * CallTime

ASSUME TimesAssumption ==
    /\ {WaitPeriod, ConnPeriod, PingTime, SpinTime, CallTime, TimerPeriod}
         \subseteq Nat \ {0}
    /\ DataWord \in Nat \ {0}
    /\ Faults \in BOOLEAN
ASSUME CapAssumption ==
    /\ Cap \in Nat
    /\ Cap > DetectBound /\ Cap > ReconnectBound

VARIABLES
    state,          \* enum states state
    pc,             \* where loop() is: "loop" is its first line
    step,           \* the position within create_entities, destroy_entities
    live,           \* the globals that are initialised, and "handle": the
                    \* executor knows the timer
    destroyNow,     \* the context's entity destruction timeout is 0
    ageW, ageC,     \* time since the static init of the two periodic pings
    timerIn,        \* time until the timer is ready
    data,           \* msg.data
    led,            \* the pin of the LED
    left,           \* time the library call under way may still take
    reply,          \* the call under way will be answered
    agentUp,        \* the agent runs and is reachable
    session,        \* the agent holds the session of this context
    since,          \* time since agentUp changed
    outage,         \* length of the latest outage
    heard           \* the value the agent received last

sketch == <<state, pc, step, live, destroyNow, data, led>>
clocks == <<ageW, ageC, timerIn, left, since>>
agent == <<agentUp, session, outage, heard>>
vars == <<sketch, clocks, reply, agent>>

Unset == -1     \* static volatile int64_t init = -1
NoData == -1    \* the agent has received nothing

States == {"WAITING_AGENT", "AGENT_AVAILABLE", "AGENT_CONNECTED",
           "AGENT_DISCONNECTED"}
CreateOrder == <<"support", "node", "publisher", "timer", "executor", "handle">>

\* Mutated: the node goes before its publisher; the support stays.
DestroyOrder_node_first == <<"node", "publisher", "timer", "executor", "support">>
DestroyOrder_no_support == <<"publisher", "timer", "executor", "node">>

DestroyOrder == <<"publisher", "timer", "executor", "node", "support">>
Handles == {CreateOrder[i] : i \in 1..6}
Remote == {"support", "node", "publisher"}      \* made by asking the agent
Owner == [support |-> {}, node |-> {"support"}, publisher |-> {"node"},
          timer |-> {"support"}, executor |-> {"support"},
          handle |-> {"executor", "timer"}]

-----------------------------------------------------------------------------

\* setup(): the globals are zero, nothing is initialised yet.
Init ==
    /\ state = "WAITING_AGENT" /\ pc = "loop" /\ step = 0
    /\ live = {} /\ destroyNow = FALSE
    /\ ageW = Unset /\ ageC = Unset /\ timerIn = 0
    /\ data = 0 /\ led = FALSE
    /\ left = 0 /\ reply = FALSE
    /\ agentUp \in BOOLEAN /\ session = FALSE
    /\ since = 0 /\ outage = 0 /\ heard = NoData

\* The condition of EXECUTE_EVERY_N_MS, whose first use starts its clock.
Elapsed(age) == IF age = Unset THEN 0 ELSE age
Due(age, ms) == Elapsed(age) > ms

\* A library call starts.  It can be answered only if the agent can answer.
Answers(possible) == IF ~possible THEN {FALSE}
                     ELSE IF Faults THEN BOOLEAN ELSE {TRUE}
Call(time, possible) == left' = time /\ reply' \in Answers(possible)
NoCall == left' = 0 /\ reply' = FALSE

\* The end of loop(): the LED shows the state the pass ends in.
EndLoop(s) ==
    /\ state' = s /\ pc' = "loop" /\ step' = 0
    /\ led' = (s = "AGENT_CONNECTED")

\* case WAITING_AGENT, up to the ping.
LoopWaiting ==
    /\ pc = "loop" /\ state = "WAITING_AGENT"
    /\ ageW' = Elapsed(ageW)
    /\ IF Due(ageW, WaitPeriod)
       THEN pc' = "ping" /\ Call(PingTime, agentUp)
            /\ UNCHANGED <<state, step, led>>
       ELSE EndLoop(state) /\ UNCHANGED <<left, reply>>
    /\ UNCHANGED <<live, destroyNow, data, ageC, timerIn, since, agent>>

\* case AGENT_CONNECTED, up to the ping, or to the spin if no ping is due.
LoopConnected ==
    /\ pc = "loop" /\ state = "AGENT_CONNECTED"
    /\ ageC' = Elapsed(ageC)
    /\ IF Due(ageC, ConnPeriod)
       THEN pc' = "ping" /\ Call(PingTime, agentUp)
       ELSE pc' = "spin" /\ left' = SpinTime /\ UNCHANGED reply
    /\ UNCHANGED <<state, step, live, destroyNow, data, led,
                   ageW, timerIn, since, agent>>

\* Mutated: a failed ping of a connected sketch changes nothing.
AfterPing_deaf(s, ok) ==
    IF s = "WAITING_AGENT" /\ ok THEN "AGENT_AVAILABLE" ELSE s

\* The state a ping made in state s leads to.
AfterPing(s, ok) ==
    IF s = "WAITING_AGENT"
    THEN IF ok THEN "AGENT_AVAILABLE" ELSE "WAITING_AGENT"
    ELSE IF ok THEN "AGENT_CONNECTED" ELSE "AGENT_DISCONNECTED"

\* The ping returns and init is set again.  The pass goes on to spin_some
\* only if the sketch is still connected.
PingReturns ==
    /\ pc = "ping"
    /\ IF state = "WAITING_AGENT" THEN ageW' = 0 /\ UNCHANGED ageC
                                  ELSE ageC' = 0 /\ UNCHANGED ageW
    /\ IF AfterPing(state, reply) = "AGENT_CONNECTED"
       THEN /\ state' = "AGENT_CONNECTED" /\ pc' = "spin"
            /\ left' = SpinTime /\ reply' = FALSE
            /\ UNCHANGED <<step, led>>
       ELSE EndLoop(AfterPing(state, reply)) /\ NoCall
    /\ UNCHANGED <<live, destroyNow, data, timerIn, since, agent>>

-----------------------------------------------------------------------------

\* case AGENT_AVAILABLE: create_entities is entered.
LoopAvailable ==
    /\ pc = "loop" /\ state = "AGENT_AVAILABLE"
    /\ pc' = "create" /\ step' = 1
    /\ UNCHANGED <<state, live, destroyNow, data, led, clocks, reply, agent>>

\* Mutated: the destruction timeout keeps its default.
EnterDestroy_waiting == pc' = "destroy" /\ step' = 1 /\ destroyNow' = FALSE

\* destroy_entities is entered: without a context there is no timeout to set.
EnterDestroy == pc' = "destroy" /\ step' = 1 /\ destroyNow' = ("support" \in live)

\* Mutated: create_entities ends before the timer is added to the executor.
CreateNext_no_handle ==
    IF step = Len(CreateOrder) - 1
    THEN EndLoop("AGENT_CONNECTED")
    ELSE pc' = "create" /\ step' = step + 1 /\ UNCHANGED <<state, led>>

\* A step of create_entities succeeds: the last one ends the pass.
CreateNext ==
    IF step = Len(CreateOrder)
    THEN EndLoop("AGENT_CONNECTED")
    ELSE pc' = "create" /\ step' = step + 1 /\ UNCHANGED <<state, led>>

\* Mutated: loop() does not destroy what a failed create_entities leaves.
CreateFails_keeping == EndLoop("WAITING_AGENT") /\ UNCHANGED destroyNow

\* RCCHECK: create_entities returns false, and loop() calls destroy_entities.
CreateFails ==
    /\ state' = "WAITING_AGENT" /\ EnterDestroy
    /\ UNCHANGED led

\* The library refuses an object that exists or whose owner does not.
Creatable(h, there) == h \notin there /\ Owner[h] \subseteq there

\* rclc_support_init, rclc_node_init_default, rclc_publisher_init_best_effort
\* ask the agent; support_init opens the session, the others need it.
CreateCalls ==
    /\ pc = "create" /\ CreateOrder[step] \in Remote
    /\ pc' = "await"
    /\ LET h == CreateOrder[step]
       IN  /\ Call(CallTime, /\ agentUp /\ Creatable(h, live)
                             /\ (h = "support" \/ session))
           /\ session' = IF h = "support" THEN reply' ELSE session
    /\ UNCHANGED <<state, step, live, destroyNow, data, led,
                   ageW, ageC, timerIn, since, agentUp, outage, heard>>

\* The answer arrives, or the library gives up.
CreateReturns ==
    /\ pc = "await"
    /\ NoCall
    /\ IF reply
       THEN live' = live \cup {CreateOrder[step]} /\ CreateNext
            /\ destroyNow' = (destroyNow /\ step # 1)
       ELSE UNCHANGED live /\ CreateFails
    /\ UNCHANGED <<data, ageW, ageC, timerIn, since, agent>>

\* rclc_timer_init_default, rclc_executor_init, rclc_executor_add_timer stay
\* on the board.  The executor is zeroed before it is initialised.
CreateLocal ==
    /\ pc = "create" /\ CreateOrder[step] \notin Remote
    /\ LET h == CreateOrder[step]
           there == IF h = "executor" THEN live \ {h, "handle"} ELSE live
       IN  \E ok \in Answers(Creatable(h, there)) :
             IF ok
             THEN /\ live' = there \cup {h} /\ CreateNext
                  /\ timerIn' = IF h = "timer" THEN TimerPeriod ELSE timerIn
                  /\ UNCHANGED destroyNow
             ELSE live' = there /\ UNCHANGED timerIn /\ CreateFails
    /\ UNCHANGED <<data, ageW, ageC, left, since, reply, agent>>

-----------------------------------------------------------------------------

\* case AGENT_DISCONNECTED: destroy_entities is entered.
LoopDisconnected ==
    /\ pc = "loop" /\ state = "AGENT_DISCONNECTED"
    /\ EnterDestroy
    /\ UNCHANGED <<state, live, data, led, clocks, reply, agent>>

\* One fini of destroy_entities.  What is not initialised is left alone, and
\* a publisher is not freed without its node.  A fini that tells the agent
\* waits for it unless the destruction timeout is 0.
Fini(h) ==
    /\ live' = IF h = "publisher" /\ "node" \notin live THEN live
               ELSE live \ (IF h = "executor" THEN {h, "handle"} ELSE {h})
    /\ left' = IF h \in Remote \cap live /\ ~destroyNow THEN CallTime ELSE 0
    /\ session' = (session /\ h # "support")

DestroyStep ==
    /\ pc = "destroy" /\ left = 0
    /\ Fini(DestroyOrder[step])
    /\ IF step = Len(DestroyOrder)
       THEN EndLoop("WAITING_AGENT")
       ELSE step' = step + 1 /\ UNCHANGED <<state, pc, led>>
    /\ UNCHANGED <<destroyNow, data, ageW, ageC, timerIn, since, reply,
                   agentUp, outage, heard>>

-----------------------------------------------------------------------------

\* Mutated: a counter without a width.
Counted_wide(d) == d + 1

\* msg.data++
Counted(d) == (d + 1) % DataWord

\* spin_some finds the timer ready and runs timer_callback: the value is
\* counted whether or not the agent gets it.
SpinTimer ==
    /\ pc = "spin" /\ "handle" \in live /\ timerIn = 0
    /\ \E got \in Answers(agentUp /\ session /\ "publisher" \in live) :
         heard' = IF got THEN data ELSE heard
    /\ data' = Counted(data)
    /\ timerIn' \in 1..TimerPeriod
    /\ EndLoop(state) /\ left' = 0
    /\ UNCHANGED <<live, destroyNow, ageW, ageC, since, reply,
                   agentUp, session, outage>>

\* spin_some times out.
SpinTimeout ==
    /\ pc = "spin" /\ left = 0
    /\ EndLoop(state)
    /\ UNCHANGED <<live, destroyNow, data, clocks, reply, agent>>

-----------------------------------------------------------------------------

\* Time passes only inside a library call, or between passes that wait.
\* An age over its period grows no further: no code tells it from a greater.
InCall == pc \notin {"loop", "create"} /\ left > 0
Idle == /\ pc = "loop" /\ state = "WAITING_AGENT"
        /\ ageW # Unset /\ ~Due(ageW, WaitPeriod)
Older(age, ms) == IF age = Unset THEN Unset ELSE Smaller(age + 1, ms + 1)

Tick ==
    /\ InCall \/ Idle
    /\ ~(pc = "spin" /\ "handle" \in live /\ timerIn = 0)
    /\ left' = IF InCall THEN left - 1 ELSE left
    /\ ageW' = Older(ageW, WaitPeriod) /\ ageC' = Older(ageC, ConnPeriod)
    /\ since' = Smaller(since + 1, Cap)
    /\ timerIn' = Larger(timerIn - 1, 0)
    /\ UNCHANGED <<sketch, reply, agent>>

\* The agent stops and forgets its sessions, or the link to it is cut.  An
\* answer it has sent may still arrive.
AgentGoes(crash) ==
    /\ agentUp
    /\ agentUp' = FALSE /\ since' = 0
    /\ session' = (session /\ ~crash)
    /\ reply' \in {reply, FALSE}
    /\ UNCHANGED <<sketch, ageW, ageC, timerIn, left, outage, heard>>

AgentReturns ==
    /\ ~agentUp
    /\ agentUp' = TRUE /\ since' = 0 /\ outage' = since
    /\ UNCHANGED <<sketch, ageW, ageC, timerIn, left, reply, session, heard>>

loop ==
    \/ LoopWaiting \/ LoopConnected \/ LoopAvailable \/ LoopDisconnected
    \/ PingReturns
    \/ CreateCalls \/ CreateReturns \/ CreateLocal
    \/ DestroyStep
    \/ SpinTimer \/ SpinTimeout

Next == loop \/ Tick \/ AgentReturns \/ \E crash \in BOOLEAN : AgentGoes(crash)

Spec == Init /\ [][Next]_vars

\* The board runs loop() again and again and its clock runs.
FairSpec == Spec /\ WF_vars(loop) /\ WF_vars(Tick)
-----------------------------------------------------------------------------

\* Types: the sketch's variables, and which steps each point of loop() has.
TypeOK ==
    /\ state \in States
    /\ pc \in {"loop", "ping", "create", "await", "destroy", "spin"}
    /\ step \in 0..6
    /\ pc \in {"create", "await"} => step \in 1..6
    /\ pc = "destroy" => step \in 1..5
    /\ live \subseteq Handles
    /\ destroyNow \in BOOLEAN /\ led \in BOOLEAN
    /\ ageW \in Unset..(WaitPeriod + 1) /\ ageC \in Unset..(ConnPeriod + 1)
    /\ timerIn \in 0..TimerPeriod
    /\ data \in 0..(DataWord - 1) /\ heard \in NoData..(DataWord - 1)
    /\ left \in Nat /\ reply \in BOOLEAN
    /\ agentUp \in BOOLEAN /\ session \in BOOLEAN
    /\ since \in 0..Cap /\ outage \in 0..Cap

\* The sketch never believes in an agent that is gone, and never shows it on
\* the LED, for longer than DetectBound: whatever call was under way when the
\* agent went, whichever answers were still to come.
OutageDetected ==
    led \/ state = "AGENT_CONNECTED" => agentUp \/ since <= DetectBound

\* rmw_uros_ping_agent does not say whether the agent still knows the
\* session.  The sketch can be connected to an agent that forgot it, and
\* publish to nobody, only after an outage too short to be detected.
StaleOnlyAfterShortOutage ==
    state = "AGENT_CONNECTED" /\ agentUp /\ ~session => outage <= DetectBound

\* spin_some runs only on the complete set of entities with the timer added
\* to the executor, whichever step of create_entities failed before.
ConnectedIsComplete ==
    state = "AGENT_CONNECTED" => live = Handles

\* With no answer lost, an agent that has been up for ReconnectBound has the
\* sketch connected: no call, no destruction and no retry takes longer.
RecoveredInTime ==
    agentUp /\ since > ReconnectBound => state = "AGENT_CONNECTED"

\* create_entities and destroy_entities follow the discipline rcl and rclc
\* ask for: see EntityLifecycle.
Entities == Handles \ {"handle"}
Phase ==
    IF pc \in {"create", "await"} THEN "building"
    ELSE IF pc = "destroy" \/ state = "AGENT_DISCONNECTED" THEN "releasing"
    ELSE IF state = "AGENT_CONNECTED" THEN "live"
    ELSE "released"
Held == live \ {"handle"}
Lifecycle == INSTANCE EntityLifecycle WITH phase <- Phase, held <- Held
ImplementsLifecycle == Lifecycle!Spec

\* When the agent stays, and was there from the start or away for longer than
\* DetectBound before, the sketch's messages reach it again and again: whatever
\* shorter outages came earlier, none leaves the sketch in a state it does not
\* get out of.
AgentHeardAgain ==
    []agentUp \/ <>[](agentUp /\ outage > DetectBound)
      => \A d \in 0..(DataWord - 1) : []<>(heard = d)

\* When the agent stays away, the sketch ends up waiting with nothing held.
GivesEverythingBack ==
    <>[]~agentUp => <>[](state = "WAITING_AGENT" /\ live = {})
=============================================================================
