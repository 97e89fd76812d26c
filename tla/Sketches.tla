----------------------------- MODULE Sketches -----------------------------
(***************************************************************************)
(* The example sketches that do not reconnect: a setup() that is a chain of *)
(* calls, most of them under RCCHECK, which never returns from error_loop() *)
(* when one fails, and a loop() that spins or publishes.  A sketch runs on  *)
(* a board with a library built from one of the .meta files, whose pools of *)
(* entities are fixed.                                                      *)
(***************************************************************************)
EXTENDS Integers, Sequences, FiniteSets

CONSTANTS
    DataWord,   \* the values of msg.data, an int32 (read as unsigned): 2^32
    Second,     \* the milliseconds of a second: 1000
    Word,       \* the values of an unsigned int: 2^32
    MaxTime     \* bound: the agent's time of day goes no further

ASSUME SketchesAssumption ==
    /\ DataWord \in Nat \ {0} /\ MaxTime \in Nat
    /\ Second \in Nat \ {0} /\ Word \in Nat \ {0}

\* RMW_UXRCE_MAX_NODES, _PUBLISHERS, _SUBSCRIPTIONS, _SERVICES.
Pools(n, p, sub, srv) ==
    [node |-> n, publisher |-> p, subscription |-> sub, service |-> srv]

\* Mutated: the smallest library has room for one publisher.
Pool_small(meta) == IF meta = "colcon_verylowmem" THEN Pools(1, 1, 1, 0)
                                                  ELSE Pools(1, 10, 5, 1)
Pool(meta) == IF meta = "colcon_verylowmem" THEN Pools(1, 2, 1, 0)
                                            ELSE Pools(1, 10, 5, 1)

\* What the sketches do.  setup: the calls in their order.  "serial", "wifi"
\* and "ethernet" register a transport; the last two wait for the link.
\* "led" sets the pin up.  "memory" creates a message, unchecked, "fill"
\* writes into it.  "overrun" creates a message, checked, where the sketch has
\* only a pointer: the library writes beyond it.  "hardware" readies a sensor, "pdm" the microphone.
\* loop: "spin", "spin!" under RCCHECK, "publish", "sync", or "apart" for the
\* loops of ImuEvents and Decibels and that of tf_publisher, which a defined
\* execution never gets to.  wakes: what a spin finds ready; the timer of
\* types_handling publishes two messages, heard if both are, and counts
\* nothing; service_callback answers a + b and keeps nothing.
Sketch(setup, loop, wakes) == [setup |-> setup, loop |-> loop, wakes |-> wakes]

micro_ros_publisher == Sketch(
    <<"serial", "led", "support", "node", "publisher", "timer", "executor", "add">>,
    "spin", "timer")
micro_ros_types_handling == Sketch(
    <<"serial", "led", "support", "node", "publisher", "timer", "executor", "add",
      "memory", "memory", "fill">>,
    "spin", "timer_two")
micro_ros_subscriber == Sketch(
    <<"serial", "led", "support", "node", "subscription", "executor", "add">>,
    "spin!", "subscription")
micro_ros_subscriber_twist == Sketch(
    <<"serial", "led", "support", "node", "subscription", "executor", "add">>,
    "spin!", "subscription")
micro_ros_addtwoints_service == Sketch(
    <<"serial", "support", "node", "service", "executor", "add">>,
    "spin", "service")
micro_ros_publisher_wifi == Sketch(
    <<"wifi", "led", "support", "node", "publisher">>, "publish", "none")
micro_ros_publisher_wifi_at == Sketch(
    <<"wifi", "led", "support", "node", "publisher">>, "publish", "none")
micro_ros_publisher_ethernet == Sketch(
    <<"ethernet", "led", "support", "node", "publisher">>, "publish", "none")
micro_ros_IMU_ML == Sketch(
    <<"wifi", "led", "support", "node", "publisher", "publisher", "memory",
      "hardware">>, "apart", "none")
micro_ros_decibels == Sketch(
    <<"serial", "led", "support", "node", "publisher", "pdm">>, "apart", "none")
micro_ros_time_sync == Sketch(<<"serial", "led", "support">>, "sync", "none")
micro_ros_tf_publisher == Sketch(
    <<"serial", "hardware", "led", "support", "node", "publisher", "timer",
      "executor", "overrun">>, "apart", "none")

\* The sketches the CI builds, and the library of the boards it builds for.
Supported ==
    ({micro_ros_publisher, micro_ros_addtwoints_service, micro_ros_subscriber,
      micro_ros_subscriber_twist, micro_ros_types_handling,
      micro_ros_time_sync, micro_ros_tf_publisher, micro_ros_publisher_wifi,
      micro_ros_publisher_ethernet} \X {"colcon"})
    \cup ({micro_ros_publisher, micro_ros_publisher_wifi} \X {"colcon_lowmem"})
    \cup ({micro_ros_publisher, micro_ros_decibels, micro_ros_IMU_ML,
           micro_ros_publisher_wifi, micro_ros_publisher_wifi_at}
             \X {"colcon_verylowmem"})

VARIABLES
    sketch, meta,   \* what runs, with which library
    pc,             \* "setup", "loop", "error_loop", "halted", "undefined"
    step,           \* the call of setup() that is next
    made,           \* how many of each entity exist
    lacking,        \* a message has no memory
    led, data,      \* the pin of the LED, msg.data
    time_ms,        \* the time of the agent that was asked for last
    printed,        \* the date printed for it, in seconds and milliseconds
    heard,          \* what the agent received last
    missed,         \* the latest publication did not reach it (ghost)
    lost,           \* how many since heard did not, up to a wrap (ghost)
    agentUp,        \* the agent answers
    session,        \* it has the session of this board
    linked,         \* the board has a network
    faults          \* calls may fail though the agent answers (rigid)

setting == <<sketch, meta, faults>>
dates == <<time_ms, printed>>
vars == <<setting, pc, step, made, lacking, led, data, dates, heard, missed,
          lost, agentUp, session, linked>>

Nothing == [sec |-> 0, ms |-> 0]
NoData == -1

Kinds == {"support", "node", "publisher", "subscription", "service", "timer",
          "executor", "add"}

Init ==
    /\ \E s \in Supported : sketch = s[1] /\ meta = s[2]
    /\ faults \in BOOLEAN
    /\ pc = "setup" /\ step = 1
    /\ made = [k \in Kinds |-> 0] /\ lacking = FALSE
    /\ led = FALSE /\ data = 0 /\ time_ms = 0 /\ printed = Nothing
    /\ heard = NoData /\ missed = TRUE /\ lost = 0
    /\ agentUp \in BOOLEAN /\ session = FALSE /\ linked \in BOOLEAN

-----------------------------------------------------------------------------

Call == sketch.setup[step]
Results(possible) == IF ~possible THEN {FALSE} ELSE IF faults THEN BOOLEAN ELSE {TRUE}

\* May a call succeed?  support_init opens the session; an entity needs
\* it and a place in its pool; an executor of size 1 takes one handle.
Possible(call) ==
    CASE call = "support" -> agentUp
      [] call \in {"node", "publisher", "subscription", "service"} ->
           agentUp /\ session /\ made[call] < Pool(meta)[call]
      [] call = "add" -> made["add"] < 1
      [] OTHER -> TRUE

Continue == step' = step + 1
            /\ pc' = IF step = Len(sketch.setup) THEN "loop" ELSE "setup"

\* Mutated: the result is not checked.
Rccheck_soft(ok) == Continue

\* RCCHECK, of a call of setup().
Rccheck(ok) == IF ok THEN Continue ELSE pc' = "error_loop" /\ UNCHANGED step

Creates ==
    /\ pc = "setup" /\ Call \in Kinds
    /\ \E ok \in Results(Possible(Call)) :
         /\ made' = IF ok THEN [made EXCEPT ![Call] = @ + 1] ELSE made
         /\ session' = (session \/ (ok /\ Call = "support"))
         /\ Rccheck(ok)
    /\ UNCHANGED <<setting, dates, lacking, led, data, heard, missed, lost, agentUp,
                   linked>>

\* set_microros_transports returns; the others wait for the network.
Registers ==
    /\ pc = "setup" /\ Call \in {"serial", "wifi", "ethernet"}
    /\ Call \in {"wifi", "ethernet"} => linked
    /\ Continue
    /\ UNCHANGED <<setting, dates, made, lacking, led, data, heard, missed, lost,
                   agentUp, session, linked>>

Prepares ==
    /\ pc = "setup"
    /\ \/ /\ Call = "led" /\ led' = TRUE
          /\ Continue /\ UNCHANGED lacking
       \/ /\ Call = "memory" /\ \E ok \in Results(TRUE) : lacking' = (lacking \/ ~ok)
          /\ Continue /\ UNCHANGED led
       \/ /\ Call = "fill" /\ UNCHANGED <<led, lacking>>
          /\ IF lacking THEN pc' = "undefined" /\ UNCHANGED step ELSE Continue
       \/ /\ Call = "overrun" /\ UNCHANGED <<led, lacking, step>>
          /\ \E ok \in Results(TRUE) : pc' = IF ok THEN "undefined" ELSE "error_loop"
       \/ /\ Call = "hardware" /\ Continue /\ UNCHANGED <<led, lacking>>
       \/ /\ Call = "pdm" /\ UNCHANGED <<led, lacking>>
          /\ \E ok \in Results(TRUE) :
               IF ok THEN Continue ELSE pc' = "halted" /\ UNCHANGED step
    /\ UNCHANGED <<setting, dates, made, data, heard, missed, lost, agentUp,
                   session, linked>>

-----------------------------------------------------------------------------

\* Mutated: only what is received is counted; a publication that fails ends in
\* error_loop().
Counted_received(d, got) == IF got THEN (d + 1) % DataWord ELSE d
AfterPublish_hard(got) == IF got THEN "loop" ELSE "error_loop"

\* msg.data++, whether or not rcl_publish succeeded; an int32 wraps.
Counted(d, got) == (d + 1) % DataWord

\* RCSOFTCHECK(rcl_publish(...))
AfterPublish(got) == "loop"

\* rcl_publish and msg.data++, in timer_callback or in loop().
Publishes(counts) ==
    \E got \in Results(agentUp /\ session) :
      /\ heard' = IF got THEN data ELSE heard
      /\ missed' = ~got /\ pc' = AfterPublish(got)
      /\ data' = IF counts THEN Counted(data, got) ELSE data
      /\ lost' = IF got THEN 0 ELSE (lost + 1) % DataWord
      /\ UNCHANGED led

\* spin_some runs a callback, or finds nothing ready, or fails.
Spins ==
    /\ pc = "loop" /\ sketch.loop \in {"spin", "spin!"}
    /\ \/ sketch.wakes = "timer" /\ Publishes(TRUE)
       \/ sketch.wakes = "timer_two" /\ Publishes(FALSE)
       \/ /\ sketch.wakes = "subscription" /\ agentUp /\ session
          /\ led' \in BOOLEAN /\ UNCHANGED <<pc, data, heard, missed, lost>>
       \/ /\ faults
          /\ pc' = IF sketch.loop = "spin!" THEN "error_loop" ELSE "loop"
          /\ UNCHANGED <<led, data, heard, missed, lost>>
    /\ UNCHANGED <<setting, dates, step, made, lacking, agentUp, session, linked>>

LoopPublishes ==
    /\ pc = "loop" /\ sketch.loop = "publish"
    /\ Publishes(TRUE)
    /\ UNCHANGED <<setting, dates, step, made, lacking, agentUp, session, linked>>

\* Mutated: the seconds are those of the truncated time.
Date_narrow(t) == [sec |-> (t % Word) \div Second, ms |-> (t % Word) % Second]

\* setTime(time_ms/1000), and (uint) time_ms % 1000: the cast comes first.
Date(t) == [sec |-> t \div Second, ms |-> (t % Word) % Second]

\* loop() of micro-ros_time_sync: RCCHECK(rmw_uros_sync_session), then the
\* date of the agent, or an error when its time is not positive.
Syncs ==
    /\ pc = "loop" /\ sketch.loop = "sync"
    /\ \E ok \in Results(agentUp /\ session) :
         IF ok
         THEN /\ time_ms' \in 0..MaxTime
              /\ printed' = IF time_ms' > 0 THEN Date(time_ms') ELSE Nothing
              /\ UNCHANGED pc
         ELSE pc' = "error_loop" /\ UNCHANGED dates
    /\ UNCHANGED <<setting, step, made, lacking, led, data, heard, missed, lost,
                   agentUp, session, linked>>

HasLed == \E i \in 1..Len(sketch.setup) : sketch.setup[i] = "led"

\* Mutated: the LED is switched on, not over.
Blink_on == HasLed

Blink == ~led /\ HasLed

\* error_loop() blinks; where there is no LED, it does nothing.
error_loop ==
    /\ pc = "error_loop"
    /\ led' = Blink
    /\ UNCHANGED <<setting, dates, pc, step, made, lacking, data, heard, missed, lost,
                   agentUp, session, linked>>

\* The agent and the network come and go; an agent that stops may forget
\* the session.
World ==
    /\ \/ agentUp' = ~agentUp /\ session' \in {session, FALSE} /\ UNCHANGED linked
       \/ linked' = ~linked /\ UNCHANGED <<agentUp, session>>
    /\ UNCHANGED <<setting, dates, pc, step, made, lacking, led, data, heard, missed,
                   lost>>

board == Creates \/ Registers \/ Prepares \/ Spins \/ LoopPublishes \/ Syncs
         \/ error_loop

Next == board \/ World

Spec == Init /\ [][Next]_vars

\* The board runs.
FairSpec == Spec /\ WF_vars(board)

-----------------------------------------------------------------------------

\* Types: the setup calls, the pools' use and the counters, all bounded.
TypeOK ==
    /\ <<sketch, meta>> \in Supported
    /\ pc \in {"setup", "loop", "error_loop", "halted", "undefined"}
    /\ step \in 1..(Len(sketch.setup) + 1)
    /\ \A k \in Kinds : made[k] \in 0..2
    /\ data \in 0..(DataWord - 1) /\ lost \in 0..(DataWord - 1)
    /\ heard \in NoData..(DataWord - 1)
    /\ time_ms \in 0..MaxTime /\ printed.ms \in 0..(Second - 1)

\* loop() runs only on what setup() was to make: no call that failed, in any
\* order of outages, is passed over.
RunningIsComplete ==
    pc = "loop" => \A k \in Kinds :
      made[k] = Cardinality({i \in 1..Len(sketch.setup) : sketch.setup[i] = k})

\* A counting sketch's next value to be received is beyond the last one by as
\* many as were lost between them, through any outages and the wrap of the
\* int32: a subscriber can tell losses from the gap they leave, and takes none
\* for new that it had, unless all but one value were lost in a row.
GapsAreLosses ==
    [][data' # data /\ ~missed' => heard' = (heard + 1 + lost) % DataWord]_vars

\* The date printed is less than a second off the agent's, however far the
\* agent's time is beyond what an unsigned int holds.
PrintedWithinASecond ==
    LET millis == Second * printed.sec + printed.ms
    IN  millis < time_ms + Second /\ time_ms < millis + Second

\* With an agent that answers, a network in the end and no call that fails
\* for reasons of its own, every sketch that the CI builds for a board gets to
\* loop() with the library of that board: its entities fit the pools, those
\* of IMU_ML exactly.  (The transform sketch leaves what C defines before.)
ReachesLoop ==
    ~faults /\ []agentUp /\ <>[]linked /\ sketch # micro_ros_tf_publisher
      => <>(pc = "loop")

\* A sketch that is in error_loop(), from setup() or its loop(), says so as long
\* as the board runs, if it has a LED: it ends up dark and lit in turns.  One
\* sketch gives up elsewhere and does not say so: decibels, when there is no
\* microphone, halts in a while (1) of its own with the LED lit, as it is while
\* that sketch sets up or runs.
ErrorLoopIsShown ==
    /\ [](pc = "error_loop" /\ HasLed => []<>led /\ []<>~led)
    /\ [](pc = "halted" => sketch = micro_ros_decibels /\ []led)

Publisher == sketch.wakes \in {"timer", "timer_two"} \/ sketch.loop = "publish"

\* An outage does not stop a sketch that got to loop(): when the agent stays
\* and still has the session, what it publishes is received again.
HeardAgain ==
    ~faults /\ <>[](agentUp /\ session) /\ <>(pc = "loop" /\ Publisher)
      => <>[]~missed
=============================================================================
