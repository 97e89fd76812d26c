----------------------------- MODULE ImuEvents -----------------------------
(***************************************************************************)
(* loop() and the interrupt handler INT1Event_cb() of the activity sketch,  *)
(* examples/micro-ros_IMU_ML.  The sensor reports two kinds of events, of   *)
(* its classifier and of its step counter, on one interrupt line.  The line *)
(* is high while the status of either lasts; the handler runs when it rises.*)
(* setup() attaches the handler when the sensor runs already: what happened *)
(* before went unheard.                                                     *)
(***************************************************************************)
EXTENDS Naturals

CONSTANTS
    Codes,      \* what the classifier may put out, mlc_out[0]
    MaxSteps    \* bound: the steps that are counted

ASSUME StepsAssumption == Codes \subseteq Nat /\ MaxSteps \in Nat

Sources == {"mlc", "step"}

VARIABLES
    pc,             \* "setup", or what loop() does next
    mems_event,
    status,         \* status.is_mlc1 as loop() read it
    event_status,   \* event_status.StepStatus as loop() read it
    string_msg, pedometer_msg,
    active,         \* the status of each source, in the sensor
    output,         \* the classifier's output
    steps,          \* the step counter
    rose,           \* the event that set the status called the handler (ghost)
    seen            \* loop() has read the status since (ghost)

board == <<pc, mems_event, status, event_status, string_msg, pedometer_msg>>
sensor == <<active, output, steps, rose>>
vars == <<board, sensor, seen>>

Init ==
    /\ pc = "setup" /\ mems_event = 0
    /\ status = FALSE /\ event_status = FALSE
    /\ string_msg = "empty" /\ pedometer_msg = 0
    /\ active = [s \in Sources |-> FALSE]
    /\ output \in Codes /\ steps = 0
    /\ rose = [s \in Sources |-> FALSE] /\ seen = [s \in Sources |-> FALSE]

\* attachInterrupt, the end of setup().  A line that is high already does not
\* rise.
attachInterrupt ==
    /\ pc = "setup"
    /\ pc' = "loop"
    /\ UNCHANGED <<mems_event, status, event_status, string_msg, pedometer_msg,
                   sensor, seen>>

\* if (mems_event)
Check ==
    /\ pc = "loop" /\ mems_event = 1
    /\ pc' = "clear"
    /\ UNCHANGED <<mems_event, status, event_status, string_msg, pedometer_msg,
                   sensor, seen>>

\* mems_event=0;
Clear ==
    /\ pc = "clear"
    /\ pc' = "mlc_status" /\ mems_event' = 0
    /\ UNCHANGED <<status, event_status, string_msg, pedometer_msg, sensor, seen>>

\* Mutated: the flag is cleared when the events have been handled.
EndPass_clear == pc' = "loop" /\ mems_event' = 0

EndPass == pc' = "loop" /\ UNCHANGED mems_event

\* The pass goes on to the step event if there was one.
ThenSteps(stepped) ==
    IF stepped THEN pc' = "steps" /\ UNCHANGED mems_event ELSE EndPass

GetMLCStatus ==
    /\ pc = "mlc_status"
    /\ pc' = "event_status"
    /\ status' = active["mlc"]
    /\ seen' = [seen EXCEPT !["mlc"] = @ \/ active["mlc"]]
    /\ UNCHANGED <<mems_event, event_status, string_msg, pedometer_msg, sensor>>

GetXEventStatus ==
    /\ pc = "event_status"
    /\ event_status' = active["step"]
    /\ seen' = [seen EXCEPT !["step"] = @ \/ active["step"]]
    /\ IF status THEN pc' = "output" /\ UNCHANGED mems_event
                 ELSE ThenSteps(active["step"])
    /\ UNCHANGED <<status, string_msg, pedometer_msg, sensor>>

\* Mutated: the case of 1 has no break.
Activity_falls(code) ==
    CASE code = 0 -> "Stationary" [] code = 1 -> "Jogging"
      [] code = 4 -> "Jogging" [] code = 8 -> "Biking"
      [] code = 12 -> "Driving" [] OTHER -> "Unknown"

\* switch(mlc_out[0])
Activity(code) ==
    CASE code = 0 -> "Stationary" [] code = 1 -> "Walking"
      [] code = 4 -> "Jogging" [] code = 8 -> "Biking"
      [] code = 12 -> "Driving" [] OTHER -> "Unknown"

GetMLCOutput ==
    /\ pc = "output"
    /\ string_msg' = Activity(output)
    /\ ThenSteps(event_status)
    /\ UNCHANGED <<status, event_status, pedometer_msg, sensor, seen>>

\* Mutated: a count too many.
Counted_more == steps + 1

Counted == steps

GetStepCount ==
    /\ pc = "steps"
    /\ pedometer_msg' = Counted
    /\ EndPass
    /\ UNCHANGED <<status, event_status, string_msg, sensor, seen>>

\* INT1Event_cb, attached to the rising edge of the line.
INT1Event_cb(edge) == mems_event' = IF edge THEN 1 ELSE mems_event

\* The interrupt line is low.
LineLow == \A s \in Sources : ~active[s]

\* The sensor reports an event.
Detect(s) ==
    /\ ~active[s]
    /\ LET edge == LineLow /\ pc # "setup"
       IN  /\ rose' = [rose EXCEPT ![s] = edge]
           /\ INT1Event_cb(edge)
    /\ active' = [active EXCEPT ![s] = TRUE]
    /\ seen' = [seen EXCEPT ![s] = FALSE]
    /\ IF s = "mlc" THEN output' \in Codes /\ UNCHANGED steps
                    ELSE steps < MaxSteps /\ steps' = steps + 1 /\ UNCHANGED output
    /\ UNCHANGED <<pc, status, event_status, string_msg, pedometer_msg>>

\* The interrupt is not latched: a status ends by itself.
Expire(s) ==
    /\ active[s]
    /\ active' = [active EXCEPT ![s] = FALSE]
    /\ UNCHANGED <<board, output, steps, rose, seen>>

\* The board is reset.  The sensor is not: its statuses last, unheard.
Restart ==
    /\ pc' = "setup" /\ mems_event' = 0
    /\ status' = FALSE /\ event_status' = FALSE
    /\ string_msg' = "empty" /\ pedometer_msg' = 0
    /\ rose' = [s \in Sources |-> FALSE] /\ seen' = [s \in Sources |-> FALSE]
    /\ UNCHANGED <<active, output, steps>>

loop == Check \/ Clear \/ GetMLCStatus \/ GetXEventStatus \/ GetMLCOutput
        \/ GetStepCount

Next == attachInterrupt \/ loop \/ Restart \/ \E s \in Sources : Detect(s) \/ Expire(s)

Spec == Init /\ [][Next]_vars

-----------------------------------------------------------------------------

\* Types: the loop's variables and the sensor's; the step counter sent is one
\* the sensor has had.
TypeOK ==
    /\ pc \in {"setup", "loop", "clear", "mlc_status", "event_status", "output", "steps"}
    /\ mems_event \in {0, 1}
    /\ status \in BOOLEAN /\ event_status \in BOOLEAN
    /\ pedometer_msg \in 0..MaxSteps /\ steps \in 0..MaxSteps
    /\ output \in Codes
    /\ active \in [Sources -> BOOLEAN] /\ rose \in [Sources -> BOOLEAN]
    /\ seen \in [Sources -> BOOLEAN]

\* The steps of a pass that come before the status of each source is read.
Before == [mlc |-> {"clear", "mlc_status"},
           step |-> {"clear", "mlc_status", "event_status"}]

\* An event that raised the line is never forgotten while its status lasts:
\* the flag is set or loop() is about to read the status, at whatever moment
\* of a pass the interrupt came.  (An event that comes while the other
\* source holds the line high, or before the handler is attached, calls no
\* handler and can be missed.)
EdgeIsServed ==
    \A s \in Sources : active[s] /\ rose[s] /\ ~seen[s] =>
      mems_event = 1 \/ pc \in Before[s]

\* The codes of the sensor's activity recognition program.
Labels == {<<0, "Stationary">>, <<1, "Walking">>, <<4, "Jogging">>,
           <<8, "Biking">>, <<12, "Driving">>}

\* Between passes, the activity published is the sensor's latest if loop()
\* saw its event, though the output is read after the status and can change
\* in between.
LatestActivityShown ==
    pc = "loop" /\ seen["mlc"] =>
      IF \E l \in Labels : l[1] = output THEN <<output, string_msg>> \in Labels
                                         ELSE string_msg = "Unknown"
=============================================================================
