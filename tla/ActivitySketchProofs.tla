------------------------ MODULE ActivitySketchProofs ------------------------
(***************************************************************************)
(* Proofs about the activity sketch, for any codes and any number of steps. *)
(* No event that raised the interrupt line is forgotten, and the activity   *)
(* shown is the latest that was seen: both are proved of ImuEvents, which   *)
(* the sketch with its sensor implements.  And the sensor is set when       *)
(* setup() is done, wherever in its program a reset left it: the proof goes *)
(* through the table by its segments, and line by line where a register     *)
(* that matters is written.                                                *)
(***************************************************************************)
EXTENDS ActivitySketch, Sequences, TLAPS

\* No event calls the handler before it is attached.
Unheard == pc = "setup" => \A s \in Sources : ~rose[s]

Inv == TypeOK /\ EdgeIsServed /\ Unheard

\* The sketch starts in the inductive invariant.
LEMMA InitInv == Init => Inv
<1>1. Init => TypeOK
  <2> SUFFICES ASSUME Init PROVE TypeOK
    OBVIOUS
  <2>1. status \in BOOLEAN /\ event_status \in BOOLEAN
    BY DEF Init
  <2>2. /\ active \in [Sources -> BOOLEAN] /\ rose \in [Sources -> BOOLEAN]
        /\ seen \in [Sources -> BOOLEAN]
    BY DEF Init
  <2>3. pedometer_msg \in 0..MaxSteps /\ steps \in 0..MaxSteps /\ output \in Codes
    BY StepsAssumption DEF Init
  <2>4. QED
    BY <2>1, <2>2, <2>3 DEF Init, TypeOK
<1>2. Init => EdgeIsServed
  BY DEF Init, EdgeIsServed
<1>3. Init => Unheard
  BY DEF Init, Unheard
<1>4. QED
  BY <1>1, <1>2, <1>3 DEF Inv

\* Each step of loop() either leaves the flag, or clears it before it reads
\* a status; a status that is read is seen.
LEMMA LoopInv == Inv /\ loop => Inv'
<1> SUFFICES ASSUME Inv, loop PROVE Inv'
  OBVIOUS
<1> USE StepsAssumption DEF Inv, TypeOK, EdgeIsServed, Unheard, Sources, Before, sensor
<1>1. CASE Check
  BY <1>1 DEF Check
<1>2. CASE Clear
  BY <1>2 DEF Clear
<1>3. CASE GetMLCStatus
  BY <1>3 DEF GetMLCStatus
<1>4. CASE GetXEventStatus
  BY <1>4 DEF GetXEventStatus, ThenSteps, EndPass
<1>5. CASE GetMLCOutput
  BY <1>5 DEF GetMLCOutput, ThenSteps, EndPass
<1>6. CASE GetStepCount
  BY <1>6 DEF GetStepCount, EndPass, Counted
<1>7. QED
  BY <1>1, <1>2, <1>3, <1>4, <1>5, <1>6 DEF loop

\* Before the handler is attached no event has called it.
LEMMA AttachInv == Inv /\ attachInterrupt => Inv'
  BY StepsAssumption DEF Inv, TypeOK, EdgeIsServed, Unheard, attachInterrupt, sensor

\* After a reset no event has called the handler.
LEMMA RestartInv == Inv /\ Restart => Inv'
<1> SUFFICES ASSUME Inv, Restart PROVE Inv'
  OBVIOUS
<1>1. \A s \in Sources : ~rose'[s]
  BY DEF Restart
<1>2. /\ rose' \in [Sources -> BOOLEAN] /\ seen' \in [Sources -> BOOLEAN]
      /\ status' \in BOOLEAN /\ event_status' \in BOOLEAN
  BY DEF Restart
<1>3. TypeOK'
  BY <1>2, StepsAssumption DEF Inv, TypeOK, Restart
<1>4. QED
  BY <1>1, <1>3 DEF Inv, EdgeIsServed, Unheard

\* An event that raises the line sets the flag; no other event clears it.
LEMMA SensorInv ==
  ASSUME Inv, NEW s \in Sources, Detect(s) \/ Expire(s)
  PROVE  Inv'
<1> USE StepsAssumption DEF Inv, TypeOK, EdgeIsServed, Unheard, Before
<1>1. CASE Detect(s)
  <2>1. /\ active' = [active EXCEPT ![s] = TRUE] /\ seen' = [seen EXCEPT ![s] = FALSE]
        /\ rose' = [rose EXCEPT ![s] = LineLow /\ pc # "setup"]
        /\ mems_event' = IF LineLow /\ pc # "setup" THEN 1 ELSE mems_event
        /\ UNCHANGED <<pc, status, event_status, string_msg, pedometer_msg>>
    BY <1>1 DEF Detect, INT1Event_cb
  <2>2. output' \in Codes /\ steps' \in 0..MaxSteps
    BY <1>1 DEF Detect, Sources
  <2>3. TypeOK'
    BY <2>1, <2>2
  <2>4. EdgeIsServed'
    <3> SUFFICES ASSUME NEW u \in Sources, active'[u], rose'[u], ~seen'[u]
                 PROVE  mems_event' = 1 \/ pc' \in Before[u]
      OBVIOUS
    <3>1. CASE u = s
      BY <2>1, <3>1
    <3>2. CASE u # s
      BY <2>1, <3>2
    <3>3. QED
      BY <3>1, <3>2
  <2>5. Unheard'
    BY <2>1
  <2>6. QED
    BY <2>3, <2>4, <2>5
<1>2. CASE Expire(s)
  BY <1>2 DEF Expire, board
<1>3. QED
  BY <1>1, <1>2

\* The inductive invariant: TypeOK, EdgeIsServed and Unheard together.
THEOREM Invariant == Spec => []Inv
<1>1. Init => Inv
  BY InitInv
<1>2. Inv /\ [Next]_vars => Inv'
  <2> SUFFICES ASSUME Inv, [Next]_vars PROVE Inv'
    OBVIOUS
  <2>1. CASE loop
    BY <2>1, LoopInv
  <2>4. CASE attachInterrupt
    BY <2>4, AttachInv
  <2>5. CASE Restart
    BY <2>5, RestartInv
  <2>2. ASSUME NEW s \in Sources, Detect(s) \/ Expire(s) PROVE Inv'
    BY <2>2, SensorInv
  <2>3. CASE UNCHANGED vars
    BY <2>3 DEF Inv, TypeOK, EdgeIsServed, Unheard, vars, board, sensor
  <2>6. QED
    BY <2>1, <2>2, <2>3, <2>4, <2>5 DEF Next
<1>3. QED
  BY <1>1, <1>2, PTL DEF Spec

-----------------------------------------------------------------------------

\* Once the event of an activity is seen, the activity is shown or the pass
\* is on its way to reading it.
Latest ==
    seen["mlc"] => \/ string_msg = Activity(output)
                   \/ status /\ pc \in {"event_status", "output"}

\* The text published for a code is that of its label, if it has one.
LEMMA ActivityOfLabel ==
    ASSUME NEW code \in Nat
    PROVE  IF \E l \in Labels : l[1] = code THEN <<code, Activity(code)>> \in Labels
                                            ELSE Activity(code) = "Unknown"
<1>1. (\E l \in Labels : l[1] = code) <=> code \in {0, 1, 4, 8, 12}
  BY DEF Labels
<1>2. CASE code = 0
  BY <1>1, <1>2 DEF Labels, Activity
<1>3. CASE code = 1
  BY <1>1, <1>3 DEF Labels, Activity
<1>4. CASE code = 4
  BY <1>1, <1>4 DEF Labels, Activity
<1>5. CASE code = 8
  BY <1>1, <1>5 DEF Labels, Activity
<1>6. CASE code = 12
  BY <1>1, <1>6 DEF Labels, Activity
<1>7. CASE code \notin {0, 1, 4, 8, 12}
  BY <1>1, <1>7 DEF Activity
<1>8. QED
  BY <1>2, <1>3, <1>4, <1>5, <1>6, <1>7

\* Reading the status makes the activity seen or leaves it as it was; the
\* output that is read then cannot change without a new event.
LEMMA LoopLatest == Inv /\ Latest /\ loop => Latest'
<1> SUFFICES ASSUME Inv, Latest, loop PROVE Latest'
  OBVIOUS
<1>1. active \in [Sources -> BOOLEAN] /\ seen \in [Sources -> BOOLEAN]
  BY DEF Inv, TypeOK
<1>2. "mlc" \in Sources /\ "step" \in Sources /\ "mlc" # "step"
  BY DEF Sources
<1>3. output' = output
  BY DEF loop, Check, Clear, GetMLCStatus, GetXEventStatus, GetMLCOutput, GetStepCount,
         sensor
<1>4. CASE Check
  BY <1>3, <1>4 DEF Check, Latest
<1>5. CASE Clear
  BY <1>3, <1>5 DEF Clear, Latest
<1>6. CASE GetMLCStatus
  <2>1. seen'["mlc"] = (seen["mlc"] \/ active["mlc"])
    BY <1>1, <1>2, <1>6 DEF GetMLCStatus
  <2>2. /\ pc = "mlc_status" /\ pc' = "event_status" /\ status' = active["mlc"]
        /\ string_msg' = string_msg
    BY <1>6 DEF GetMLCStatus
  <2>3. QED
    BY <1>3, <2>1, <2>2 DEF Latest
<1>7. CASE GetXEventStatus
  <2>1. seen'["mlc"] = seen["mlc"]
    BY <1>1, <1>2, <1>7 DEF GetXEventStatus
  <2>2. /\ pc = "event_status" /\ status' = status /\ string_msg' = string_msg
        /\ status => pc' = "output"
    BY <1>7 DEF GetXEventStatus
  <2>3. QED
    BY <1>3, <2>1, <2>2 DEF Latest
<1>8. CASE GetMLCOutput
  BY <1>3, <1>8 DEF GetMLCOutput, Latest
<1>9. CASE GetStepCount
  BY <1>3, <1>9 DEF GetStepCount, Latest
<1>10. QED
  BY <1>4, <1>5, <1>6, <1>7, <1>8, <1>9 DEF loop

\* What the rest of the world does: a new output is not yet seen, and after
\* a reset nothing is.
LEMMA OthersLatest ==
    ASSUME Inv, Latest,
           \/ attachInterrupt \/ Restart \/ UNCHANGED vars
           \/ \E s \in Sources : Detect(s) \/ Expire(s)
    PROVE  Latest'
<1>1. CASE attachInterrupt
  BY <1>1 DEF attachInterrupt, Latest, sensor
<1>2. CASE Restart
  BY <1>2 DEF Restart, Latest, Sources
<1>3. CASE UNCHANGED vars
  BY <1>3 DEF vars, board, sensor, Latest
<1>4. ASSUME NEW s \in Sources, Detect(s)
      PROVE  Latest'
  <2>1. /\ seen' = [seen EXCEPT ![s] = FALSE] /\ seen \in [Sources -> BOOLEAN]
        /\ UNCHANGED <<pc, status, string_msg>>
        /\ s = "mlc" \/ output' = output
    BY <1>4 DEF Detect, Inv, TypeOK
  <2>2. CASE s = "mlc"
    BY <2>1, <2>2 DEF Latest, Sources
  <2>3. CASE s # "mlc"
    <3>1. seen'["mlc"] = seen["mlc"] /\ output' = output
      BY <2>1, <2>3 DEF Sources
    <3>2. QED
      BY <2>1, <3>1 DEF Latest
  <2>4. QED
    BY <2>2, <2>3
<1>5. ASSUME NEW s \in Sources, Expire(s)
      PROVE  Latest'
  BY <1>5 DEF Expire, board, Latest
<1>6. QED
  BY <1>1, <1>2, <1>3, <1>4, <1>5

\* The activity shown is that of the latest event seen, in every state.
THEOREM LatestInvariant == Spec => []Latest
<1>1. Init => Latest
  BY DEF Init, Latest, Sources
<1>2. Inv /\ Latest /\ [Next]_vars => Latest'
  BY LoopLatest, OthersLatest DEF Next
<1>3. QED
  BY <1>1, <1>2, Invariant, PTL DEF Spec

-----------------------------------------------------------------------------

\* What is left out of ImuEvents, the sensor's registers, only takes events
\* away: the sketch with its sensor does nothing that ImuEvents does not.
THEOREM ActivityImplementsEvents == ActivitySpec => Spec
<1>1. ActivityInit => Init
  BY DEF ActivityInit
<1>2. [ActivityNext]_avars => [Next]_vars
  BY DEF ActivityNext, avars, setup, Begin, Program, Enable_Pedometer, Attach, Pass, Reset,
         Begins, Ends, Next
<1>3. QED
  BY <1>1, <1>2, PTL DEF Spec, ActivitySpec

\* Every variable of the sketch keeps its type.
THEOREM TypeCorrect == ActivitySpec => []TypeOK
<1>1. Inv => TypeOK
  BY DEF Inv
<1>2. QED
  BY <1>1, Invariant, ActivityImplementsEvents, PTL

\* The flag and the two status reads lose no event that raised the line.
THEOREM EdgeIsServedHolds == ActivitySpec => []EdgeIsServed
<1>1. Inv => EdgeIsServed
  BY DEF Inv
<1>2. QED
  BY <1>1, Invariant, ActivityImplementsEvents, PTL

\* Between passes the text published last is that of the sensor's latest
\* activity, if loop() saw its event.
THEOREM LatestActivityShownHolds == ActivitySpec => []LatestActivityShown
<1>1. Inv /\ Latest => LatestActivityShown
  <2> SUFFICES ASSUME Inv, Latest, pc = "loop", seen["mlc"]
               PROVE  IF \E l \in Labels : l[1] = output
                      THEN <<output, string_msg>> \in Labels
                      ELSE string_msg = "Unknown"
    BY DEF LatestActivityShown
  <2>1. string_msg = Activity(output)
    BY DEF Latest
  <2>2. output \in Nat
    BY StepsAssumption DEF Inv, TypeOK
  <2>3. QED
    BY <2>1, <2>2, ActivityOfLabel
<1>2. QED
  BY <1>1, Invariant, LatestInvariant, ActivityImplementsEvents, PTL

-----------------------------------------------------------------------------

\* A write to the sensor: a register and a byte.
Writes == Nat \X Nat

Table == lsm6dsox_activity_recognition_for_mobile

\* A sequence of n writes that load bytes.
Loads(s, n) ==
    /\ s \in Seq(Writes) /\ Len(s) = n
    /\ \A i \in 1..n : s[i][1] \in {PAGE_SEL, PAGE_ADDRESS, PAGE_VALUE}

\* Bytes loads bytes, three writes for each.
LEMMA BytesLoads ==
    ASSUME NEW page \in Nat, NEW first \in Nat, NEW last \in Nat, first <= last,
           NEW n, n = 3 * (last - first + 1)
    PROVE  Loads(Bytes(page, first, last), n)
<1> DEFINE s == Bytes(page, first, last)
<1>1. n \in Nat
  OBVIOUS
<1>2. ASSUME NEW i \in 1..n
      PROVE  s[i] \in Writes /\ s[i][1] \in {PAGE_SEL, PAGE_ADDRESS, PAGE_VALUE}
  <2>1. i % 3 \in 0..2 /\ i \div 3 \in Nat
    BY <1>1
  <2> QED
    BY <2>1 DEF Bytes, Writes, PAGE_SEL, PAGE_ADDRESS, PAGE_VALUE
<1>3. s = [i \in 1..n |-> s[i]]
  BY DEF Bytes
<1>4. s \in Seq(Writes) /\ Len(s) = n
  BY <1>1, <1>2, <1>3
<1> QED
  BY <1>2, <1>4 DEF Loads

\* What is before in a sequence stays where it is, and what is added comes
\* after.
LEMMA Added ==
    ASSUME NEW s \in Seq(Writes), NEW t \in Seq(Writes)
    PROVE  /\ s \o t \in Seq(Writes) /\ Len(s \o t) = Len(s) + Len(t)
           /\ \A i \in 1..Len(s) : (s \o t)[i] = s[i]
           /\ \A i \in 1..Len(t) : (s \o t)[Len(s) + i] = t[i]
  OBVIOUS

\* Loading more is loading.
LEMMA LoadsMore ==
    ASSUME NEW s, NEW t, NEW m \in Nat, NEW n \in Nat, Loads(s, m), Loads(t, n)
    PROVE  Loads(s \o t, m + n)
<1>1. /\ s \in Seq(Writes) /\ Len(s) = m /\ t \in Seq(Writes) /\ Len(t) = n
      /\ s \o t \in Seq(Writes) /\ Len(s \o t) = m + n
  BY DEF Loads
<1>2. ASSUME NEW i \in 1..(m + n)
      PROVE  (s \o t)[i][1] \in {PAGE_SEL, PAGE_ADDRESS, PAGE_VALUE}
  <2>1. CASE i <= m
    BY <1>1, <2>1 DEF Loads
  <2>2. CASE i > m
    <3>1. i - m \in 1..n /\ (s \o t)[i] = t[i - m]
      BY <1>1, <2>2
    <3> QED
      BY <3>1 DEF Loads
  <2> QED
    <3>1. i \in Int /\ m \in Int
      OBVIOUS
    <3>2. i <= m \/ i > m
      BY <3>1
    <3> QED
      BY <2>1, <2>2, <3>2
<1> QED
  BY <1>1, <1>2 DEF Loads

\* How long the segments are, and which of them load bytes.
LEMMA Segments ==
    /\ Loads(Page1, 42) /\ Loads(Page3, 588) /\ Loads(Page4, 57)
    /\ Loads(Page4Trees, 534) /\ Loads(Page5, 768) /\ Loads(Page6, 210)
    /\ Stop \in Seq(Writes) /\ Len(Stop) = 5
    /\ Reopen \in Seq(Writes) /\ Len(Reopen) = 4
    /\ Close \in Seq(Writes) /\ Len(Close) = 2
    /\ Run \in Seq(Writes) /\ Len(Run) = 14
<1>1. Loads(Page1, 42)
  <2>1. Loads(Bytes(\h11, \hEA, \hF0), 21) /\ Loads(Bytes(\h11, \hF2, \hF2), 3)
    BY BytesLoads
  <2>2. Loads(Bytes(\h11, \hFA, \hFF), 18)
    BY BytesLoads
  <2>3. Loads(Bytes(\h11, \hEA, \hF0) \o Bytes(\h11, \hF2, \hF2), 21 + 3)
    BY <2>1, LoadsMore
  <2> QED
    BY <2>2, <2>3, LoadsMore DEF Page1
<1>2. Loads(Page3, 588)
  BY BytesLoads DEF Page3
<1>3. Loads(Page4, 57)
  <2>1. /\ Loads(Bytes(\h41, \h00, \h07), 24) /\ Loads(Bytes(\h41, \h42, \h4C), 33)
    BY BytesLoads
  <2> QED
    BY <2>1, LoadsMore DEF Page4
<1>4. Loads(Page4Trees, 534)
  BY BytesLoads DEF Page4Trees
<1>5. Loads(Page5, 768)
  BY BytesLoads DEF Page5
<1>6. Loads(Page6, 210)
  BY BytesLoads DEF Page6
<1> USE DEF Writes, CTRL1_XL, CTRL2_G, CTRL3_C, MD1_CFG, FUNC_CFG_ACCESS, PAGE_SEL,
        EMB_FUNC_EN_A, EMB_FUNC_EN_B, MLC_INT1, PAGE_RW, MLC_ODR, Main, Embedded
<1>7. Stop \in Seq(Writes) /\ Len(Stop) = 5
  BY DEF Stop
<1>8. Reopen \in Seq(Writes) /\ Len(Reopen) = 4
  BY DEF Reopen
<1>9. Close \in Seq(Writes) /\ Len(Close) = 2
  BY DEF Close
<1>10. Run \in Seq(Writes) /\ Len(Run) = 14
  BY DEF Run
<1> QED
  BY <1>1, <1>2, <1>3, <1>4, <1>5, <1>6, <1>7, <1>8, <1>9, <1>10

\* A sequence of n writes.
OfLength(s, n) == s \in Seq(Writes) /\ Len(s) = n

\* A segment that loads bytes has its length.
LEMMA LoadsLength ==
    ASSUME NEW s, NEW n, Loads(s, n)
    PROVE  OfLength(s, n)
  BY DEF Loads, OfLength

\* Table starts with s.
Starts(s, n) == OfLength(s, n) /\ \A i \in 1..n : Table[i] = s[i]

\* Table has s after its first m writes.
Has(m, s, n) == \A i \in 1..n : Table[m + i] = s[i]

\* The length of two segments is the sum of theirs.
LEMMA AddedLength ==
    ASSUME NEW s, NEW t, NEW m \in Nat, NEW n \in Nat, OfLength(s, m), OfLength(t, n)
    PROVE  OfLength(s \o t, m + n)
  BY DEF OfLength

\* A table that starts with two segments has each in its place.
LEMMA Split ==
    ASSUME NEW s, NEW t, NEW m \in Nat, NEW n \in Nat, OfLength(s, m), OfLength(t, n),
           Starts(s \o t, m + n)
    PROVE  Starts(s, m) /\ Has(m, t, n)
<1>1. \A i \in 1..m : Table[i] = s[i]
  BY DEF OfLength, Starts
<1>2. ASSUME NEW i \in 1..n
      PROVE  Table[m + i] = t[i]
  <2>1. m + i \in 1..(m + n)
    OBVIOUS
  <2> QED
    BY <2>1, Added DEF OfLength, Starts
<1> QED
  BY <1>1, <1>2 DEF Starts, Has

\* Where the segments of the table are.
LEMMA Parts ==
    /\ TotalNumberOfLine = 2224
    /\ Has(0, Stop, 5)
    /\ Has(5, Page1, 42) /\ Has(47, Page3, 588) /\ Has(635, Page4, 57)
    /\ Has(692, Reopen, 4)
    /\ Has(696, Page4Trees, 534) /\ Has(1230, Page5, 768) /\ Has(1998, Page6, 210)
    /\ Has(2208, Close, 2) /\ Has(2210, Run, 14)
<1> DEFINE a == Stop \o Page1
           b == a \o Page3
           c == b \o Page4
           d == c \o Reopen
           e == d \o Page4Trees
           f == e \o Page5
           g == f \o Page6
           h == g \o Close
<1>0. /\ OfLength(Stop, 5) /\ OfLength(Page1, 42) /\ OfLength(Page3, 588)
      /\ OfLength(Page4, 57) /\ OfLength(Reopen, 4) /\ OfLength(Page4Trees, 534)
      /\ OfLength(Page5, 768) /\ OfLength(Page6, 210) /\ OfLength(Close, 2)
      /\ OfLength(Run, 14)
  <2>1. OfLength(Page1, 42) /\ OfLength(Page3, 588) /\ OfLength(Page4, 57)
    BY Segments, LoadsLength
  <2>2. OfLength(Page4Trees, 534) /\ OfLength(Page5, 768) /\ OfLength(Page6, 210)
    BY Segments, LoadsLength
  <2>3. OfLength(Stop, 5) /\ OfLength(Reopen, 4)
    BY Segments, Zenon DEF OfLength
  <2>4. OfLength(Close, 2) /\ OfLength(Run, 14)
    BY Segments, Zenon DEF OfLength
  <2> QED
    BY <2>1, <2>2, <2>3, <2>4
<1>1. OfLength(a, 47)
  BY <1>0, AddedLength
<1>2. OfLength(b, 635)
  BY <1>0, <1>1, AddedLength
<1>3. OfLength(c, 692)
  BY <1>0, <1>2, AddedLength
<1>4. OfLength(d, 696)
  BY <1>0, <1>3, AddedLength
<1>5. OfLength(e, 1230)
  BY <1>0, <1>4, AddedLength
<1>6. OfLength(f, 1998)
  BY <1>0, <1>5, AddedLength
<1>7. OfLength(g, 2208)
  BY <1>0, <1>6, AddedLength
<1>8. OfLength(h, 2210)
  BY <1>0, <1>7, AddedLength
<1>9. OfLength(h \o Run, 2224)
  BY <1>0, <1>8, AddedLength
<1>10. Table = h \o Run
  BY DEF Table, lsm6dsox_activity_recognition_for_mobile
<1>11. Starts(h \o Run, 2224)
  BY <1>9, <1>10 DEF Starts
<1> HIDE DEF a, b, c, d, e, f, g, h
<1>12. Starts(h, 2210) /\ Has(2210, Run, 14)
  BY <1>0, <1>8, <1>11, Split
<1>13. Starts(g, 2208) /\ Has(2208, Close, 2)
  BY <1>0, <1>7, <1>12, Split DEF h
<1>14. Starts(f, 1998) /\ Has(1998, Page6, 210)
  BY <1>0, <1>6, <1>13, Split DEF g
<1>15. Starts(e, 1230) /\ Has(1230, Page5, 768)
  BY <1>0, <1>5, <1>14, Split DEF f
<1>16. Starts(d, 696) /\ Has(696, Page4Trees, 534)
  BY <1>0, <1>4, <1>15, Split DEF e
<1>17. Starts(c, 692) /\ Has(692, Reopen, 4)
  BY <1>0, <1>3, <1>16, Split DEF d
<1>18. Starts(b, 635) /\ Has(635, Page4, 57)
  BY <1>0, <1>2, <1>17, Split DEF c
<1>19. Starts(a, 47) /\ Has(47, Page3, 588)
  BY <1>0, <1>1, <1>18, Split DEF b
<1>20. Starts(Stop, 5) /\ Has(5, Page1, 42)
  BY <1>0, <1>19, Split DEF a
<1>21. Has(0, Stop, 5)
  BY <1>20 DEF Starts, Has
<1>22. TotalNumberOfLine = 2224
  BY <1>9, <1>10 DEF OfLength, TotalNumberOfLine, Table
<1> QED
  BY <1>12, <1>13, <1>14, <1>15, <1>16, <1>17, <1>18, <1>19, <1>20, <1>21, <1>22

\* The lines of the table that load bytes.
Loading == (6..692) \cup (697..2208)

\* A line that loads a byte.
LoadsByte(i) ==
    Table[i] \in Writes /\ Table[i][1] \in {PAGE_SEL, PAGE_ADDRESS, PAGE_VALUE}

\* The lines of a segment that loads bytes do.
LEMMA PartLoads ==
    ASSUME NEW m \in Nat, NEW n \in Nat, NEW s, Has(m, s, n), Loads(s, n),
           NEW i \in Nat, m < i, i <= m + n
    PROVE  LoadsByte(i)
<1>1. i - m \in 1..n /\ m + (i - m) = i
  OBVIOUS
<1>2. Table[i] = s[i - m]
  BY <1>1 DEF Has
<1>3. s[i - m] \in Writes /\ s[i - m][1] \in {PAGE_SEL, PAGE_ADDRESS, PAGE_VALUE}
  BY <1>1 DEF Loads
<1> QED
  BY <1>2, <1>3 DEF LoadsByte

\* All lines of Loading load bytes.
LEMMA LoadingLines == \A i \in Loading : LoadsByte(i)
<1> SUFFICES ASSUME NEW i \in Nat, i \in Loading
             PROVE  LoadsByte(i)
  BY DEF Loading
<1>1. CASE 5 < i /\ i <= 47
  <2>1. Has(5, Page1, 42) /\ Loads(Page1, 42)
    BY Parts, Segments
  <2> QED
    BY <1>1, <2>1, PartLoads
<1>2. CASE 47 < i /\ i <= 635
  <2>1. Has(47, Page3, 588) /\ Loads(Page3, 588)
    BY Parts, Segments
  <2> QED
    BY <1>2, <2>1, PartLoads
<1>3. CASE 635 < i /\ i <= 692
  <2>1. Has(635, Page4, 57) /\ Loads(Page4, 57)
    BY Parts, Segments
  <2> QED
    BY <1>3, <2>1, PartLoads
<1>4. CASE 696 < i /\ i <= 1230
  <2>1. Has(696, Page4Trees, 534) /\ Loads(Page4Trees, 534)
    BY Parts, Segments
  <2> QED
    BY <1>4, <2>1, PartLoads
<1>5. CASE 1230 < i /\ i <= 1998
  <2>1. Has(1230, Page5, 768) /\ Loads(Page5, 768)
    BY Parts, Segments
  <2> QED
    BY <1>5, <2>1, PartLoads
<1>6. CASE 1998 < i /\ i <= 2208
  <2>1. Has(1998, Page6, 210) /\ Loads(Page6, 210)
    BY Parts, Segments
  <2> QED
    BY <1>6, <2>1, PartLoads
<1> QED
  BY <1>1, <1>2, <1>3, <1>4, <1>5, <1>6 DEF Loading

\* The other lines, one by one.
LEMMA OtherLines ==
    /\ Table[1] = <<CTRL1_XL, 0>> /\ Table[2] = <<CTRL2_G, 0>>
    /\ Table[3] = <<FUNC_CFG_ACCESS, Embedded>>
    /\ Table[4] = <<EMB_FUNC_EN_B, 0>> /\ Table[5] = <<PAGE_RW, \h40>>
    /\ Table[693] = <<FUNC_CFG_ACCESS, Main>> /\ Table[694] = <<CTRL3_C, 0>>
    /\ Table[695] = <<FUNC_CFG_ACCESS, Embedded>> /\ Table[696] = <<PAGE_RW, \h40>>
    /\ Table[2209] = <<FUNC_CFG_ACCESS, Embedded>> /\ Table[2210] = <<PAGE_RW, \h00>>
    /\ Table[2211] = <<EMB_FUNC_EN_A, 0>> /\ Table[2212] = <<EMB_FUNC_EN_B, \h10>>
    /\ Table[2213] = <<PAGE_SEL, \h01>> /\ Table[2214] = <<FUNC_CFG_ACCESS, Main>>
    /\ Table[2215] = <<CTRL3_C, \h44>> /\ Table[2216] = <<FUNC_CFG_ACCESS, Embedded>>
    /\ Table[2217] = <<MLC_ODR, \h15>> /\ Table[2218] = <<FUNC_CFG_ACCESS, Main>>
    /\ Table[2219] = <<CTRL1_XL, \h28>> /\ Table[2220] = <<CTRL2_G, 0>>
    /\ Table[2221] = <<MD1_CFG, \h02>> /\ Table[2222] = <<FUNC_CFG_ACCESS, Embedded>>
    /\ Table[2223] = <<MLC_INT1, \h01>> /\ Table[2224] = <<FUNC_CFG_ACCESS, Main>>
<1>1. \A i \in 1..5 : Table[i] = Stop[i]
  <2>1. Has(0, Stop, 5)
    BY Parts
  <2> QED
    BY <2>1 DEF Has
<1>2. \A i \in 1..4 : Table[692 + i] = Reopen[i]
  <2>1. Has(692, Reopen, 4)
    BY Parts
  <2> QED
    BY <2>1 DEF Has
<1>3. \A i \in 1..2 : Table[2208 + i] = Close[i]
  <2>1. Has(2208, Close, 2)
    BY Parts
  <2> QED
    BY <2>1 DEF Has
<1>4. /\ Table[693] = Reopen[1] /\ Table[694] = Reopen[2] /\ Table[695] = Reopen[3]
      /\ Table[696] = Reopen[4] /\ Table[2209] = Close[1] /\ Table[2210] = Close[2]
  BY <1>2, <1>3
<1>5. /\ Table[1] = Stop[1] /\ Table[2] = Stop[2] /\ Table[3] = Stop[3]
      /\ Table[4] = Stop[4] /\ Table[5] = Stop[5]
  BY <1>1
<1>6. \A i \in 1..14 : Table[2210 + i] = Run[i]
  <2>1. Has(2210, Run, 14)
    BY Parts
  <2> QED
    BY <2>1 DEF Has
<1>7. /\ Table[2211] = Run[1] /\ Table[2212] = Run[2] /\ Table[2213] = Run[3]
      /\ Table[2214] = Run[4] /\ Table[2215] = Run[5] /\ Table[2216] = Run[6]
      /\ Table[2217] = Run[7] /\ Table[2218] = Run[8] /\ Table[2219] = Run[9]
      /\ Table[2220] = Run[10] /\ Table[2221] = Run[11] /\ Table[2222] = Run[12]
      /\ Table[2223] = Run[13] /\ Table[2224] = Run[14]
  BY <1>6
<1> QED
  BY <1>4, <1>5, <1>7 DEF Stop, Reopen, Close, Run

\* The registers are bytes, and loop() runs when all of setup() is done.
ChipTypeOK ==
    /\ LineCounter \in -1..2225
    /\ FUNC_CFG \in {Main, Embedded}
    /\ reg \in [{Main, Embedded} -> [Registers -> Nat]]
    /\ pc # "setup" => LineCounter = 2225

\* Which bank is selected after so many lines of the table.
Selected ==
    /\ LineCounter \in (3..692) \cup (695..2213) \cup (2216..2217) \cup (2222..2223) =>
         FUNC_CFG = Embedded
    /\ LineCounter \in (2218..2221) \cup (2224..2225) => FUNC_CFG = Main

\* The memory stays open, and the classifier off, while bytes are loaded.
Open ==
    /\ ~stray
    /\ LineCounter \in 4..2211 => reg[Embedded][EMB_FUNC_EN_B] = 0
    /\ LineCounter \in 5..2209 => reg[Embedded][PAGE_RW] = \h40

\* What the end of the program and the pedometer leave, line by line; the
\* statuses are not latched.
Started ==
    /\ LineCounter >= 2210 => reg[Embedded][PAGE_RW] = 0
    /\ LineCounter >= 2212 => reg[Embedded][EMB_FUNC_EN_B] = \h10
    /\ LineCounter >= 2219 => reg[Main][CTRL1_XL] = \h28
    /\ LineCounter >= 2221 => reg[Main][MD1_CFG] = \h02
    /\ LineCounter >= 2223 => reg[Embedded][MLC_INT1] = \h01
    /\ LineCounter = 2225 => reg[Embedded][EMB_FUNC_EN_A] = \h08

\* What setup() has done to the sensor when LineCounter lines are written,
\* whatever its registers held before.
Chip == ChipTypeOK /\ Selected /\ Open /\ Started

\* A write of FUNC_CFG_ACCESS selects a bank.
LEMMA Selects ==
    ASSUME NEW bank, Write_Reg(FUNC_CFG_ACCESS, bank), ~stray
    PROVE  FUNC_CFG' = bank /\ reg' = reg /\ ~stray'
<1>1. FUNC_CFG_ACCESS # PAGE_VALUE
  BY DEF FUNC_CFG_ACCESS, PAGE_VALUE
<1> QED
  BY <1>1, Zenon DEF Write_Reg

\* Any other write sets a register of the bank that is selected.
LEMMA Sets ==
    ASSUME NEW r \in Registers, NEW byte \in Nat, Write_Reg(r, byte),
           ChipTypeOK, ~stray, r = PAGE_VALUE => MemoryOpen
    PROVE  /\ FUNC_CFG' = FUNC_CFG /\ ~stray'
           /\ reg' \in [{Main, Embedded} -> [Registers -> Nat]]
           /\ reg'[FUNC_CFG][r] = byte
           /\ \A b \in {Main, Embedded}, q \in Registers :
                b # FUNC_CFG \/ q # r => reg'[b][q] = reg[b][q]
<1>1. r # FUNC_CFG_ACCESS
  BY DEF Registers, FUNC_CFG_ACCESS, CTRL1_XL, CTRL2_G, CTRL3_C, MD1_CFG,
      PAGE_SEL, EMB_FUNC_EN_A, EMB_FUNC_EN_B, PAGE_ADDRESS, PAGE_VALUE,
      MLC_INT1, PAGE_RW, MLC_ODR
<1>2. /\ FUNC_CFG' = FUNC_CFG /\ ~stray'
      /\ reg' = [reg EXCEPT ![FUNC_CFG][r] = byte]
  BY <1>1 DEF Write_Reg
<1> QED
  BY <1>2 DEF ChipTypeOK

\* The registers that matter are all different.
LEMMA RegistersDiffer ==
    /\ CTRL1_XL \in Registers /\ CTRL2_G \in Registers /\ CTRL3_C \in Registers
    /\ MD1_CFG \in Registers /\ PAGE_SEL \in Registers /\ EMB_FUNC_EN_A \in Registers
    /\ EMB_FUNC_EN_B \in Registers /\ PAGE_ADDRESS \in Registers
    /\ PAGE_VALUE \in Registers /\ MLC_INT1 \in Registers /\ PAGE_RW \in Registers
    /\ MLC_ODR \in Registers
    /\ Main # Embedded /\ Main \in Nat /\ Embedded \in Nat
    /\ PAGE_VALUE \notin {CTRL1_XL, CTRL2_G, CTRL3_C, MD1_CFG, PAGE_SEL, EMB_FUNC_EN_A,
                          EMB_FUNC_EN_B, MLC_INT1, PAGE_RW, MLC_ODR}
    /\ EMB_FUNC_EN_B \notin {CTRL1_XL, CTRL2_G, CTRL3_C, MD1_CFG, PAGE_SEL, EMB_FUNC_EN_A,
                             PAGE_ADDRESS, PAGE_VALUE, MLC_INT1, PAGE_RW, MLC_ODR}
    /\ PAGE_RW \notin {CTRL1_XL, CTRL2_G, CTRL3_C, MD1_CFG, PAGE_SEL, EMB_FUNC_EN_A,
                       EMB_FUNC_EN_B, PAGE_ADDRESS, PAGE_VALUE, MLC_INT1, MLC_ODR}
    /\ CTRL1_XL \notin {CTRL2_G, CTRL3_C, MD1_CFG}
    /\ MD1_CFG \notin {CTRL2_G, CTRL3_C, CTRL1_XL}
    /\ MLC_INT1 \notin {EMB_FUNC_EN_A, PAGE_RW}
  BY DEF Registers, CTRL1_XL, CTRL2_G, CTRL3_C, MD1_CFG, PAGE_SEL,
      EMB_FUNC_EN_A, EMB_FUNC_EN_B, PAGE_ADDRESS, PAGE_VALUE, MLC_INT1,
      PAGE_RW, MLC_ODR, Main, Embedded

\* The board writes the next line.
LEMMA Writing ==
    ASSUME NEW n, LineCounter = n, Program
    PROVE  /\ Write_Reg(Table[n + 1][1], Table[n + 1][2])
           /\ LineCounter' = n + 1 /\ pc' = pc /\ pc = "setup"
  BY DEF Program, Table, vars, board

\* Stop stops the classifier before it opens the memory.
LEMMA StopChip ==
    ASSUME Chip, Program, LineCounter \in 0..4
    PROVE  Chip'
<1> USE RegistersDiffer DEF Chip, ChipTypeOK, Selected, Open, Started
<1>1. CASE LineCounter = 0
  <2>1. Write_Reg(CTRL1_XL, 0) /\ LineCounter' = 1 /\ pc' = pc /\ pc = "setup"
    BY <1>1, Writing, OtherLines
  <2> QED
    BY <1>1, <2>1, Sets
<1>2. CASE LineCounter = 1
  <2>1. Write_Reg(CTRL2_G, 0) /\ LineCounter' = 2 /\ pc' = pc /\ pc = "setup"
    BY <1>2, Writing, OtherLines
  <2> QED
    BY <1>2, <2>1, Sets
<1>3. CASE LineCounter = 2
  <2>1. Write_Reg(FUNC_CFG_ACCESS, Embedded) /\ LineCounter' = 3 /\ pc' = pc /\ pc = "setup"
    BY <1>3, Writing, OtherLines
  <2> QED
    BY <1>3, <2>1, Selects
<1>4. CASE LineCounter = 3
  <2>1. Write_Reg(EMB_FUNC_EN_B, 0) /\ LineCounter' = 4 /\ pc' = pc /\ pc = "setup"
    BY <1>4, Writing, OtherLines
  <2> QED
    BY <1>4, <2>1, Sets
<1>5. CASE LineCounter = 4
  <2>1. Write_Reg(PAGE_RW, \h40) /\ LineCounter' = 5 /\ pc' = pc /\ pc = "setup"
    BY <1>5, Writing, OtherLines
  <2> QED
    BY <1>5, <2>1, Sets
<1>6. \/ LineCounter = 0 \/ LineCounter = 1 \/ LineCounter = 2 \/ LineCounter = 3
      \/ LineCounter = 4
  OBVIOUS
<1> HIDE DEF Chip
<1> QED
  BY <1>1, <1>2, <1>3, <1>4, <1>5, <1>6

\* Reopen leaves the memory open, whatever bank it visits.
LEMMA ReopenChip ==
    ASSUME Chip, Program, LineCounter \in 692..695
    PROVE  Chip'
<1> USE RegistersDiffer DEF Chip, ChipTypeOK, Selected, Open, Started
<1>1. CASE LineCounter = 692
  <2>1. Write_Reg(FUNC_CFG_ACCESS, Main) /\ LineCounter' = 693 /\ pc' = pc /\ pc = "setup"
    BY <1>1, Writing, OtherLines
  <2> QED
    BY <1>1, <2>1, Selects
<1>2. CASE LineCounter = 693
  <2>1. Write_Reg(CTRL3_C, 0) /\ LineCounter' = 694 /\ pc' = pc /\ pc = "setup"
    BY <1>2, Writing, OtherLines
  <2> QED
    BY <1>2, <2>1, Sets
<1>3. CASE LineCounter = 694
  <2>1. Write_Reg(FUNC_CFG_ACCESS, Embedded) /\ LineCounter' = 695 /\ pc' = pc /\ pc = "setup"
    BY <1>3, Writing, OtherLines
  <2> QED
    BY <1>3, <2>1, Selects
<1>4. CASE LineCounter = 695
  <2>1. Write_Reg(PAGE_RW, \h40) /\ LineCounter' = 696 /\ pc' = pc /\ pc = "setup"
    BY <1>4, Writing, OtherLines
  <2> QED
    BY <1>4, <2>1, Sets
<1>5. LineCounter = 692 \/ LineCounter = 693 \/ LineCounter = 694 \/ LineCounter = 695
  OBVIOUS
<1> HIDE DEF Chip
<1> QED
  BY <1>1, <1>2, <1>3, <1>4, <1>5

\* Close closes the memory, from the bank it selects itself.
LEMMA CloseChip ==
    ASSUME Chip, Program, LineCounter \in 2208..2209
    PROVE  Chip'
<1> USE RegistersDiffer DEF Chip, ChipTypeOK, Selected, Open, Started
<1>1. CASE LineCounter = 2208
  <2>1. Write_Reg(FUNC_CFG_ACCESS, Embedded) /\ LineCounter' = 2209 /\ pc' = pc /\ pc = "setup"
    BY <1>1, Writing, OtherLines
  <2> QED
    BY <1>1, <2>1, Selects
<1>2. CASE LineCounter = 2209
  <2>1. Write_Reg(PAGE_RW, 0) /\ LineCounter' = 2210 /\ pc' = pc /\ pc = "setup"
    BY <1>2, Writing, OtherLines
  <2> QED
    BY <1>2, <2>1, Sets
<1>3. LineCounter = 2208 \/ LineCounter = 2209
  OBVIOUS
<1> HIDE DEF Chip
<1> QED
  BY <1>1, <1>2, <1>3

\* Run switches banks four times, and each register is written in its own.
LEMMA RunChip ==
    ASSUME Chip, Program, LineCounter \in 2210..2223
    PROVE  Chip'
<1> USE RegistersDiffer DEF Chip, ChipTypeOK, Selected, Open, Started
<1>1. CASE LineCounter = 2210
  <2>1. Write_Reg(EMB_FUNC_EN_A, 0) /\ LineCounter' = 2211 /\ pc' = pc /\ pc = "setup"
    BY <1>1, Writing, OtherLines
  <2> QED
    BY <1>1, <2>1, Sets
<1>2. CASE LineCounter = 2211
  <2>1. Write_Reg(EMB_FUNC_EN_B, \h10) /\ LineCounter' = 2212 /\ pc' = pc /\ pc = "setup"
    BY <1>2, Writing, OtherLines
  <2> QED
    BY <1>2, <2>1, Sets
<1>3. CASE LineCounter = 2212
  <2>1. Write_Reg(PAGE_SEL, \h01) /\ LineCounter' = 2213 /\ pc' = pc /\ pc = "setup"
    BY <1>3, Writing, OtherLines
  <2> QED
    BY <1>3, <2>1, Sets
<1>4. CASE LineCounter = 2213
  <2>1. Write_Reg(FUNC_CFG_ACCESS, Main) /\ LineCounter' = 2214 /\ pc' = pc /\ pc = "setup"
    BY <1>4, Writing, OtherLines
  <2> QED
    BY <1>4, <2>1, Selects
<1>5. CASE LineCounter = 2214
  <2>1. Write_Reg(CTRL3_C, \h44) /\ LineCounter' = 2215 /\ pc' = pc /\ pc = "setup"
    BY <1>5, Writing, OtherLines
  <2> QED
    BY <1>5, <2>1, Sets
<1>6. CASE LineCounter = 2215
  <2>1. Write_Reg(FUNC_CFG_ACCESS, Embedded) /\ LineCounter' = 2216 /\ pc' = pc /\ pc = "setup"
    BY <1>6, Writing, OtherLines
  <2> QED
    BY <1>6, <2>1, Selects
<1>7. CASE LineCounter = 2216
  <2>1. Write_Reg(MLC_ODR, \h15) /\ LineCounter' = 2217 /\ pc' = pc /\ pc = "setup"
    BY <1>7, Writing, OtherLines
  <2> QED
    BY <1>7, <2>1, Sets
<1>8. CASE LineCounter = 2217
  <2>1. Write_Reg(FUNC_CFG_ACCESS, Main) /\ LineCounter' = 2218 /\ pc' = pc /\ pc = "setup"
    BY <1>8, Writing, OtherLines
  <2> QED
    BY <1>8, <2>1, Selects
<1>9. CASE LineCounter = 2218
  <2>1. Write_Reg(CTRL1_XL, \h28) /\ LineCounter' = 2219 /\ pc' = pc /\ pc = "setup"
    BY <1>9, Writing, OtherLines
  <2> QED
    BY <1>9, <2>1, Sets
<1>10. CASE LineCounter = 2219
  <2>1. Write_Reg(CTRL2_G, 0) /\ LineCounter' = 2220 /\ pc' = pc /\ pc = "setup"
    BY <1>10, Writing, OtherLines
  <2> QED
    BY <1>10, <2>1, Sets
<1>11. CASE LineCounter = 2220
  <2>1. Write_Reg(MD1_CFG, \h02) /\ LineCounter' = 2221 /\ pc' = pc /\ pc = "setup"
    BY <1>11, Writing, OtherLines
  <2> QED
    BY <1>11, <2>1, Sets
<1>12. CASE LineCounter = 2221
  <2>1. Write_Reg(FUNC_CFG_ACCESS, Embedded) /\ LineCounter' = 2222 /\ pc' = pc /\ pc = "setup"
    BY <1>12, Writing, OtherLines
  <2> QED
    BY <1>12, <2>1, Selects
<1>13. CASE LineCounter = 2222
  <2>1. Write_Reg(MLC_INT1, \h01) /\ LineCounter' = 2223 /\ pc' = pc /\ pc = "setup"
    BY <1>13, Writing, OtherLines
  <2> QED
    BY <1>13, <2>1, Sets
<1>14. CASE LineCounter = 2223
  <2>1. Write_Reg(FUNC_CFG_ACCESS, Main) /\ LineCounter' = 2224 /\ pc' = pc /\ pc = "setup"
    BY <1>14, Writing, OtherLines
  <2> QED
    BY <1>14, <2>1, Selects
<1>15. \/ LineCounter = 2210 \/ LineCounter = 2211 \/ LineCounter = 2212
       \/ LineCounter = 2213 \/ LineCounter = 2214 \/ LineCounter = 2215
       \/ LineCounter = 2216 \/ LineCounter = 2217 \/ LineCounter = 2218
       \/ LineCounter = 2219 \/ LineCounter = 2220 \/ LineCounter = 2221
       \/ LineCounter = 2222 \/ LineCounter = 2223
  OBVIOUS
<1> HIDE DEF Chip
<1> QED
  BY <1>1, <1>2, <1>3, <1>4, <1>5, <1>6, <1>7, <1>8, <1>9, <1>10, <1>11, <1>12, <1>13,
      <1>14, <1>15

\* A byte is loaded while the memory is open.
LEMMA LoadChip ==
    ASSUME Chip, Program, LineCounter + 1 \in Loading
    PROVE  Chip'
<1> DEFINE l == Table[LineCounter + 1]
<1>1. Write_Reg(l[1], l[2]) /\ LineCounter' = LineCounter + 1 /\ pc' = pc /\ pc = "setup"
  BY Writing
<1>2. l[1] \in {PAGE_SEL, PAGE_ADDRESS, PAGE_VALUE} /\ l[2] \in Nat
  BY LoadingLines DEF LoadsByte, Writes
<1>3. LineCounter \in (5..691) \cup (696..2207)
  BY DEF Chip, ChipTypeOK, Loading
<1>4. /\ FUNC_CFG = Embedded /\ MemoryOpen
      /\ reg[Embedded][PAGE_RW] = \h40 /\ reg[Embedded][EMB_FUNC_EN_B] = 0
  <2>1. /\ FUNC_CFG = Embedded /\ reg[Embedded][PAGE_RW] = \h40
        /\ reg[Embedded][EMB_FUNC_EN_B] = 0
    BY <1>3 DEF Chip, Selected, Open
  <2>2. Bit(6, \h40) /\ ~Bit(4, 0)
    BY DEF Bit
  <2> QED
    BY <2>1, <2>2 DEF MemoryOpen
<1> HIDE DEF l
<1>5. /\ FUNC_CFG' = Embedded /\ ~stray'
      /\ reg' \in [{Main, Embedded} -> [Registers -> Nat]]
      /\ reg'[Embedded][PAGE_RW] = reg[Embedded][PAGE_RW]
      /\ reg'[Embedded][EMB_FUNC_EN_B] = reg[Embedded][EMB_FUNC_EN_B]
  <2>1. l[1] \in Registers /\ l[1] # PAGE_RW /\ l[1] # EMB_FUNC_EN_B
    BY <1>2, RegistersDiffer
  <2>2. /\ FUNC_CFG' = FUNC_CFG /\ ~stray'
        /\ reg' \in [{Main, Embedded} -> [Registers -> Nat]]
        /\ \A b \in {Main, Embedded}, q \in Registers :
             b # FUNC_CFG \/ q # l[1] => reg'[b][q] = reg[b][q]
    <3>1. ChipTypeOK /\ ~stray
      BY DEF Chip, Open
    <3>2. Write_Reg(l[1], l[2])
      BY <1>1
    <3> QED
      BY <1>2, <1>4, <2>1, <3>1, <3>2, Sets, Zenon
  <2> QED
    BY <1>4, <2>1, <2>2, RegistersDiffer
<1>6. LineCounter' = LineCounter + 1 /\ pc' = pc /\ pc = "setup"
  BY <1>1
<1>7. ChipTypeOK' /\ Selected'
  BY <1>3, <1>5, <1>6 DEF ChipTypeOK, Selected
<1>8. Open'
  BY <1>4, <1>5 DEF Open
<1>9. Started'
  BY <1>3, <1>6 DEF Started
<1> QED
  BY <1>7, <1>8, <1>9 DEF Chip

\* The loop over the table.
LEMMA ProgramChip ==
    ASSUME Chip, Program
    PROVE  Chip'
<1>1. LineCounter \in 0..2223
  BY Parts DEF Program
<1>2. CASE LineCounter + 1 \in Loading
  BY <1>2, LoadChip
<1>3. CASE LineCounter \in 0..4
  BY <1>3, StopChip
<1>4. CASE LineCounter \in 692..695
  BY <1>4, ReopenChip
<1>5. CASE LineCounter \in 2208..2209
  BY <1>5, CloseChip
<1>6. CASE LineCounter \in 2210..2223
  BY <1>6, RunChip
<1> QED
  BY <1>1, <1>2, <1>3, <1>4, <1>5, <1>6 DEF Loading

\* begin() and the pedometer write to registers that matter only later.
LEMMA AroundChip ==
    ASSUME Chip, Begin \/ Enable_Pedometer
    PROVE  Chip'
<1> USE RegistersDiffer DEF Chip, ChipTypeOK, Selected, Open, Started
<1>1. CASE Begin
  BY <1>1 DEF Begin, vars, board
<1>2. CASE Enable_Pedometer
  <2>1. /\ LineCounter = 2224 /\ LineCounter' = 2225 /\ FUNC_CFG' = Main /\ stray' = stray
        /\ reg' = [reg EXCEPT ![Embedded][EMB_FUNC_EN_A] = \h08]
    BY <1>2, Parts DEF Enable_Pedometer
  <2>2. /\ reg' \in [{Main, Embedded} -> [Registers -> Nat]]
        /\ reg'[Embedded][EMB_FUNC_EN_A] = \h08
        /\ reg'[Main] = reg[Main]
        /\ \A q \in Registers : q # EMB_FUNC_EN_A => reg'[Embedded][q] = reg[Embedded][q]
    BY <2>1
  <2>3. ChipTypeOK' /\ Selected'
    BY <2>1, <2>2
  <2>4. Open' /\ Started'
    BY <2>1, <2>2
  <2> HIDE DEF ChipTypeOK, Selected, Open, Started
  <2> QED
    BY <2>3, <2>4
<1> HIDE DEF Chip
<1> QED
  BY <1>1, <1>2

\* setup() ends with the program and the pedometer done.
LEMMA AttachChip ==
    ASSUME Chip, Attach
    PROVE  Chip'
  BY Parts DEF Attach, chip, Chip, ChipTypeOK, Selected, Open, Started

\* A reset leaves the registers, and setup() begins anew.
LEMMA ResetChip ==
    ASSUME Chip, Reset
    PROVE  Chip'
<1>1. LineCounter' = -1 /\ ~stray' /\ FUNC_CFG' = FUNC_CFG /\ reg' = reg /\ pc' = "setup"
  BY DEF Reset, Restart
<1>2. ChipTypeOK' /\ Selected'
  BY <1>1 DEF Chip, ChipTypeOK, Selected
<1>3. Open' /\ Started'
  BY <1>1 DEF Open, Started
<1> QED
  BY <1>2, <1>3 DEF Chip

\* Nothing else touches the registers, or returns to setup().
LEMMA OthersChip ==
    ASSUME Chip, Pass \/ (\E s \in Sources : Begins(s) \/ Ends(s)) \/ UNCHANGED avars
    PROVE  Chip'
<1>1. UNCHANGED <<LineCounter, FUNC_CFG, reg, stray>> /\ (pc = "setup" => pc' = "setup")
  BY DEF Pass, loop, Check, Clear, GetMLCStatus, GetXEventStatus, GetMLCOutput,
      GetStepCount, Begins, Ends, Detect, Expire, chip, avars, vars, board
<1>2. ChipTypeOK' /\ Selected'
  BY <1>1 DEF Chip, ChipTypeOK, Selected
<1>3. Open' /\ Started'
  BY <1>1 DEF Chip, Open, Started
<1> QED
  BY <1>2, <1>3 DEF Chip

\* The sensor is as setup() has left it in every reachable state.
LEMMA ChipInvariant == ActivitySpec => []Chip
<1>1. ActivityInit => Chip
  BY DEF ActivityInit, Init, Chip, ChipTypeOK, Selected, Open, Started
<1>2. ASSUME Chip, [ActivityNext]_avars
      PROVE  Chip'
  <2>1. CASE Program
    BY <1>2, <2>1, ProgramChip
  <2>2. CASE Begin \/ Enable_Pedometer
    BY <1>2, <2>2, AroundChip
  <2>3. CASE Attach
    BY <1>2, <2>3, AttachChip
  <2>4. CASE Reset
    BY <1>2, <2>4, ResetChip
  <2>5. CASE Pass \/ (\E s \in Sources : Begins(s) \/ Ends(s)) \/ UNCHANGED avars
    BY <1>2, <2>5, OthersChip
  <2> QED
    BY <1>2, <2>1, <2>2, <2>3, <2>4, <2>5 DEF ActivityNext, setup
<1> QED
  BY <1>1, <1>2, PTL DEF ActivitySpec

\* No byte of the program misses the memory, and when setup() is done the
\* sensor reports both kinds of events, from whatever state a reset left it in.
THEOREM SensorIsSetHolds == ActivitySpec => []SensorIsSet
<1>1. Chip => SensorIsSet
  <2>1. Bit(1, \h02) /\ Bit(4, \h10) /\ Bit(0, \h01) /\ Bit(3, \h08)
    BY DEF Bit
  <2>2. Chip /\ pc # "setup" => \A s \in Sources : Reports(s)
    <3>1. Chip /\ pc # "setup" =>
            /\ reg[Main][CTRL1_XL] = \h28 /\ reg[Main][MD1_CFG] = \h02
            /\ reg[Embedded][EMB_FUNC_EN_B] = \h10 /\ reg[Embedded][MLC_INT1] = \h01
            /\ reg[Embedded][EMB_FUNC_EN_A] = \h08
      BY DEF Chip, ChipTypeOK, Started
    <3> QED
      BY <2>1, <3>1 DEF Reports
  <2>3. Chip => ~stray /\ (pc # "setup" => FUNC_CFG = Main)
    BY DEF Chip, ChipTypeOK, Selected, Open
  <2> QED
    BY <2>2, <2>3 DEF SensorIsSet
<1> QED
  BY <1>1, ChipInvariant, PTL

\* Nor are its statuses latched then: the safety half of NotDeaf.
THEOREM StatusesEnd == ActivitySpec => [](pc # "setup" => ~Latched)
<1>1. Chip => (pc # "setup" => ~Latched)
  <2>1. ~Bit(7, 0)
    BY DEF Bit
  <2> QED
    BY <2>1 DEF Chip, ChipTypeOK, Started, Latched
<1> QED
  BY <1>1, ChipInvariant, PTL
=============================================================================
