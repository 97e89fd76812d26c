--------------------------- MODULE SketchesProofs ---------------------------
(***************************************************************************)
(* Proofs about Sketches, for every supported sketch and library, every      *)
(* bound, and any width and unit of time.                                   *)
(***************************************************************************)
EXTENDS Sketches, FiniteSetTheorems, TLAPS

\* The positions of setup() up to n that make a k.
Makes(n, k) == {i \in 1..n : sketch.setup[i] = k}

\* The calls that have succeeded are those before step, each entity made once
\* for each of them, and loop() begins after the last.
SetupAt ==
    /\ step \in 1..(Len(sketch.setup) + 1)
    /\ pc = "setup" => step <= Len(sketch.setup)
    /\ pc = "loop" => step = Len(sketch.setup) + 1
    /\ made \in [Kinds -> Nat]
    /\ \A k \in Kinds : made[k] = Cardinality(Makes(step - 1, k))

\* The sketches that count what they publish.
Counts == sketch.wakes = "timer" \/ sketch.loop = "publish"

\* The next value is beyond the last one heard by those lost since.
Counting ==
    /\ data \in 0..(DataWord - 1) /\ lost \in 0..(DataWord - 1)
    /\ heard \in -1..(DataWord - 1)
    /\ Counts => data = (heard + 1 + lost) % DataWord

\* What was printed is the date of the latest time.
Dated ==
    /\ time_ms \in 0..MaxTime
    /\ printed = IF time_ms > 0 THEN Date(time_ms) ELSE Nothing

Setting ==
    /\ <<sketch, meta>> \in Supported
    /\ pc \in {"setup", "loop", "error_loop", "halted", "undefined"}

\* A chain of calls is not empty, and makes each entity once, or the fifth and
\* the sixth call make the same.
Chain(setup) ==
    /\ Len(setup) \in Nat \ {0}
    /\ \A i, j \in 1..Len(setup) :
         setup[i] = setup[j] /\ setup[i] \in Kinds => i = j \/ {i, j} = {5, 6}

Inv == Setting /\ SetupAt /\ Counting /\ Dated

-----------------------------------------------------------------------------

\* The assumptions, in the form the arithmetic needs.
LEMMA Numbers ==
    /\ DataWord \in Nat /\ DataWord > 0 /\ MaxTime \in Nat
    /\ Second \in Nat /\ Second > 0 /\ Word \in Nat /\ Word > 0
  BY SketchesAssumption

\* The supported sketches, without their libraries.
LEMMA SupportedSketches ==
    ASSUME NEW s \in Supported
    PROVE  s[1] \in {micro_ros_publisher, micro_ros_types_handling,
             micro_ros_subscriber, micro_ros_subscriber_twist,
             micro_ros_addtwoints_service, micro_ros_publisher_wifi,
             micro_ros_publisher_wifi_at, micro_ros_publisher_ethernet,
             micro_ros_IMU_ML, micro_ros_decibels, micro_ros_time_sync,
             micro_ros_tf_publisher}
  BY DEF Supported

\* Every sketch's setup() is such a chain; the two alike are the publishers of
\* IMU_ML.
LEMMA Chains ==
    ASSUME NEW s \in Supported
    PROVE  Chain(s[1].setup)
<1>1. Chain(micro_ros_publisher.setup)
  BY DEF Chain, micro_ros_publisher, Sketch, Kinds
<1>2. Chain(micro_ros_types_handling.setup)
  BY DEF Chain, micro_ros_types_handling, Sketch, Kinds
<1>3. Chain(micro_ros_subscriber.setup)
  BY DEF Chain, micro_ros_subscriber, Sketch, Kinds
<1>4. Chain(micro_ros_subscriber_twist.setup)
  BY DEF Chain, micro_ros_subscriber_twist, Sketch, Kinds
<1>5. Chain(micro_ros_addtwoints_service.setup)
  BY DEF Chain, micro_ros_addtwoints_service, Sketch, Kinds
<1>6. Chain(micro_ros_publisher_wifi.setup)
  BY DEF Chain, micro_ros_publisher_wifi, Sketch, Kinds
<1>7. Chain(micro_ros_publisher_wifi_at.setup)
  BY DEF Chain, micro_ros_publisher_wifi_at, Sketch, Kinds
<1>8. Chain(micro_ros_publisher_ethernet.setup)
  BY DEF Chain, micro_ros_publisher_ethernet, Sketch, Kinds
<1>9. Chain(micro_ros_IMU_ML.setup)
  BY DEF Chain, micro_ros_IMU_ML, Sketch, Kinds
<1>10. Chain(micro_ros_decibels.setup)
  BY DEF Chain, micro_ros_decibels, Sketch, Kinds
<1>11. Chain(micro_ros_time_sync.setup)
  BY DEF Chain, micro_ros_time_sync, Sketch, Kinds
<1>12. Chain(micro_ros_tf_publisher.setup)
  BY DEF Chain, micro_ros_tf_publisher, Sketch, Kinds
<1> QED
  BY <1>1, <1>2, <1>3, <1>4, <1>5, <1>6, <1>7, <1>8, <1>9, <1>10, <1>11, <1>12,
      SupportedSketches

\* Division and remainder of a time.
LEMMA DivMod ==
    ASSUME NEW t \in Nat, NEW d \in Nat, d > 0
    PROVE  /\ t \div d \in Nat /\ t % d \in 0..(d - 1)
           /\ t = d * (t \div d) + (t % d)
  OBVIOUS

\* The remainder of a number below two periods.
LEMMA Remainder ==
    ASSUME NEW x \in Nat, NEW w \in Nat, w > 0, x < 2 * w
    PROVE  x % w = IF x < w THEN x ELSE x - w
  OBVIOUS

\* Counting on by one with a wrap is counting on by one without, wrapped.
LEMMA CountOn ==
    ASSUME NEW w \in Nat, w > 0, NEW h \in -1..(w - 1), NEW n \in 0..(w - 1)
    PROVE  /\ (((h + 1 + n) % w) + 1) % w = (h + 1 + ((n + 1) % w)) % w
           /\ (n + 1) % w \in 0..(w - 1)
<1> DEFINE a == h + 1 + n
           d == a % w
           m == (n + 1) % w
           b == h + 1 + m
<1>1. a \in Nat /\ a < 2 * w
  OBVIOUS
<1> HIDE DEF a
<1>2. d = IF a < w THEN a ELSE a - w
  BY <1>1, Remainder
<1>3. m = IF n + 1 < w THEN n + 1 ELSE n + 1 - w
  BY Remainder
<1> HIDE DEF d, m
<1>4. d \in 0..(w - 1) /\ m \in 0..(w - 1)
  BY <1>1, <1>2, <1>3
<1>5. (d + 1) % w = IF d + 1 < w THEN d + 1 ELSE d + 1 - w
  BY <1>4, Remainder
<1>6. b \in Nat /\ b < 2 * w
  BY <1>4
<1> HIDE DEF b
<1>7. b % w = IF b < w THEN b ELSE b - w
  BY <1>6, Remainder
<1>8. (d + 1) % w = b % w
  <2>1. a = h + 1 + n /\ b = h + 1 + m
    BY DEF a, b
  <2> QED
    BY <1>2, <1>3, <1>4, <1>5, <1>7, <2>1
<1> QED
  BY <1>4, <1>8 DEF a, b, d, m

\* A date is less than a second off its time, whatever the truncation of its
\* milliseconds makes of them.
LEMMA DateOf ==
    ASSUME NEW t \in Nat
    PROVE  /\ Date(t).sec \in Nat /\ Date(t).ms \in 0..(Second - 1)
           /\ Second * Date(t).sec <= t /\ t < Second * Date(t).sec + Second
<1>1. /\ t \div Second \in Nat /\ t % Second \in 0..(Second - 1)
      /\ t = Second * (t \div Second) + (t % Second)
  BY Numbers, DivMod
<1>2. (t % Word) % Second \in 0..(Second - 1)
  BY Numbers, DivMod
<1> DEFINE q == Second * (t \div Second)
<1>3. q \in Nat
  BY <1>1, Numbers
<1>4. q <= t /\ t < q + Second
  <2> HIDE DEF q
  <2>1. t = q + (t % Second)
    BY <1>1 DEF q
  <2> QED
    BY <1>1, <1>3, <2>1, Numbers
<1> QED
  BY <1>1, <1>2, <1>4 DEF Date

\* The positions that make a k are finitely many, and one more call adds its
\* own.
LEMMA MakesNext ==
    ASSUME NEW n \in Nat, NEW k
    PROVE  /\ Makes(0, k) = {}
           /\ IsFiniteSet(Makes(n, k)) /\ Cardinality(Makes(n, k)) \in Nat
           /\ Cardinality(Makes(n + 1, k))
                = Cardinality(Makes(n, k)) + (IF sketch.setup[n + 1] = k THEN 1 ELSE 0)
<1>1. IsFiniteSet(1..n) /\ Makes(n, k) \subseteq 1..n
  BY FS_Interval DEF Makes
<1>2. IsFiniteSet(Makes(n, k)) /\ Cardinality(Makes(n, k)) \in Nat
  BY <1>1, FS_Subset, FS_CardinalityType
<1>3. CASE sketch.setup[n + 1] = k
  <2>1. Makes(n + 1, k) = Makes(n, k) \cup {n + 1} /\ n + 1 \notin Makes(n, k)
    BY <1>3 DEF Makes
  <2> QED
    BY <1>2, <1>3, <2>1, FS_AddElement DEF Makes
<1>4. CASE sketch.setup[n + 1] # k
  <2>1. Makes(n + 1, k) = Makes(n, k)
    BY <1>4 DEF Makes
  <2> QED
    BY <1>2, <1>4, <2>1 DEF Makes
<1> QED
  BY <1>2, <1>3, <1>4

\* No sketch makes more than two entities of a kind.
LEMMA MakesAtMostTwo ==
    ASSUME Setting, NEW n \in 0..Len(sketch.setup), NEW k \in Kinds
    PROVE  Cardinality(Makes(n, k)) \in 0..2
<1>1. Chain(sketch.setup)
  <2>1. <<sketch, meta>>[1] = sketch
    OBVIOUS
  <2> QED
    BY <2>1, Chains DEF Setting
<1>2. n \in Nat
  BY <1>1
<1>3. CASE Makes(n, k) = {}
  BY <1>3, FS_EmptySet
<1>4. CASE Makes(n, k) # {}
  <2>1. PICK i \in Makes(n, k) : TRUE
    BY <1>4
  <2> DEFINE other == IF i = 5 THEN 6 ELSE 5
  <2>2. Makes(n, k) \subseteq {i, other}
    <3> SUFFICES ASSUME NEW j \in Makes(n, k) PROVE j = i \/ j = other
      OBVIOUS
    <3>1. /\ i \in 1..Len(sketch.setup) /\ j \in 1..Len(sketch.setup)
          /\ sketch.setup[i] = k /\ sketch.setup[j] = k
      BY <1>1 DEF Makes
    <3>2. i = j \/ {i, j} = {5, 6}
      BY <1>1, <3>1 DEF Chain
    <3> QED
      BY <3>2
  <2>3. IsFiniteSet({i, other}) /\ Cardinality({i, other}) <= 2
    <3>0. i # other
      OBVIOUS
    <3> HIDE DEF other
    <3>1. IsFiniteSet({i}) /\ Cardinality({i}) = 1
      BY FS_Singleton
    <3>2. {i, other} = {i} \cup {other} /\ i # other
      BY <3>0
    <3>3. Cardinality({i} \cup {other}) = Cardinality({i}) + 1
      BY <3>1, <3>2, FS_AddElement
    <3>4. IsFiniteSet({i} \cup {other})
      BY <3>1, FS_AddElement
    <3> QED
      BY <3>1, <3>2, <3>3, <3>4
  <2>4. Cardinality(Makes(n, k)) <= Cardinality({i, other})
    BY <2>2, <2>3, FS_Subset
  <2>5. Cardinality(Makes(n, k)) \in Nat /\ Cardinality({i, other}) \in Nat
    BY <1>2, <2>3, MakesNext, FS_CardinalityType
  <2> QED
    BY <2>3, <2>4, <2>5
<1> QED
  BY <1>3, <1>4

-----------------------------------------------------------------------------

\* Every sketch starts at its first call.
LEMMA InitInv == Init => Inv
<1> SUFFICES ASSUME Init PROVE Inv
  OBVIOUS
<1>1. Setting
  <2>1. PICK s \in Supported : sketch = s[1] /\ meta = s[2]
    BY DEF Init
  <2>2. s = <<s[1], s[2]>>
    BY DEF Supported
  <2> QED
    BY <2>1, <2>2 DEF Init, Setting
<1>2. SetupAt
  <2>1. Chain(sketch.setup)
    BY Chains DEF Init
  <2>2. \A k \in Kinds : Makes(0, k) = {} /\ Cardinality({}) = 0
    BY FS_EmptySet DEF Makes
  <2> QED
    <3>1. Len(sketch.setup) \in Nat \ {0} /\ pc = "setup" /\ step = 1
      BY <2>1 DEF Init, Chain
    <3>2. made \in [Kinds -> Nat] /\ \A k \in Kinds : made[k] = 0
      BY DEF Init
    <3>3. step - 1 = 0
      BY <3>1
    <3>4. \A k \in Kinds : made[k] = Cardinality(Makes(step - 1, k))
      BY <2>2, <3>2, <3>3
    <3> QED
      BY <3>1, <3>2, <3>4 DEF SetupAt
<1>3. Counting /\ Dated
  <2>1. data = 0 /\ lost = 0 /\ heard = -1 /\ (-1 + 1 + 0) % DataWord = 0
    BY Numbers DEF Init, NoData
  <2> QED
    BY <2>1, Numbers DEF Init, Counting, Dated
<1> QED
  BY <1>1, <1>2, <1>3 DEF Inv

\* A call of setup() that succeeds: the count of what it makes goes up.
LEMMA ContinueKeeps ==
    ASSUME Inv, pc = "setup", Continue, UNCHANGED sketch,
           \/ Call \notin Kinds /\ made' = made
           \/ Call \in Kinds /\ made' = [made EXCEPT ![Call] = @ + 1]
    PROVE  SetupAt' /\ pc' \in {"setup", "loop"}
<1>1. /\ step \in Nat /\ step >= 1 /\ step <= Len(sketch.setup)
      /\ Len(sketch.setup) \in Nat /\ made \in [Kinds -> Nat]
      /\ step - 1 \in Nat /\ (step - 1) + 1 = step
  <2>1. Chain(sketch.setup)
    <3>1. <<sketch, meta>>[1] = sketch
      OBVIOUS
    <3> QED
      BY <3>1, Chains DEF Inv, Setting
  <2> QED
    BY <2>1 DEF Inv, SetupAt
<1>2. step' = step + 1 /\ step' - 1 = step
  BY <1>1 DEF Continue
<1>3. made' \in [Kinds -> Nat]
  BY <1>1
<1>4. ASSUME NEW k \in Kinds
      PROVE  made'[k] = Cardinality(Makes(step, k))
  <2>1. Cardinality(Makes(step, k))
          = Cardinality(Makes(step - 1, k)) + (IF Call = k THEN 1 ELSE 0)
    BY <1>1, MakesNext DEF Call
  <2>2. made[k] = Cardinality(Makes(step - 1, k))
    BY DEF Inv, SetupAt
  <2>3. made'[k] = made[k] + (IF Call = k THEN 1 ELSE 0)
    BY <1>1
  <2> QED
    BY <2>1, <2>2, <2>3
<1>5. \A k \in Kinds : made'[k] = Cardinality(Makes(step - 1, k)')
  BY <1>2, <1>4 DEF Makes
<1>6. pc' = IF step = Len(sketch.setup) THEN "loop" ELSE "setup"
  BY DEF Continue
<1> QED
  BY <1>1, <1>2, <1>3, <1>5, <1>6 DEF SetupAt

\* A step that leaves setup() without going on changes nothing it made.
LEMMA StayKeeps ==
    ASSUME Inv, UNCHANGED <<sketch, step, made>>,
           pc' \in {"loop", "setup"} => pc' = pc
    PROVE  SetupAt'
  BY DEF Inv, SetupAt, Makes

\* An entity is made, or error_loop() is entered.
LEMMA CreatesInv ==
    ASSUME Inv, Creates
    PROVE  Inv'
<1>1. /\ pc = "setup" /\ Call \in Kinds
      /\ UNCHANGED <<sketch, meta, data, heard, lost, time_ms, printed>>
  BY DEF Creates, setting, dates
<1>2. \/ made' = [made EXCEPT ![Call] = @ + 1] /\ Continue
      \/ made' = made /\ pc' = "error_loop" /\ step' = step
  BY DEF Creates, Rccheck
<1>3. SetupAt' /\ pc' \in {"setup", "loop", "error_loop"}
  BY <1>1, <1>2, ContinueKeeps, StayKeeps
<1>4. Setting' /\ Counting' /\ Dated'
  BY <1>1, <1>3 DEF Inv, Setting, Counting, Counts, Dated
<1> QED
  BY <1>3, <1>4 DEF Inv

\* A transport is registered.
LEMMA RegistersInv ==
    ASSUME Inv, Registers
    PROVE  Inv'
<1>1. /\ pc = "setup" /\ Call \notin Kinds /\ made' = made /\ Continue
      /\ UNCHANGED <<sketch, meta, data, heard, lost, time_ms, printed>>
  BY DEF Registers, Kinds, setting, dates
<1>2. SetupAt' /\ pc' \in {"setup", "loop"}
  BY <1>1, ContinueKeeps
<1>3. Setting' /\ Counting' /\ Dated'
  BY <1>1, <1>2 DEF Inv, Setting, Counting, Counts, Dated
<1> QED
  BY <1>2, <1>3 DEF Inv

\* The other calls of setup().
LEMMA PreparesInv ==
    ASSUME Inv, Prepares
    PROVE  Inv'
<1>1. /\ pc = "setup" /\ made' = made
      /\ Call \in {"led", "memory", "fill", "overrun", "hardware", "pdm"}
      /\ UNCHANGED <<sketch, meta, data, heard, lost, time_ms, printed>>
  BY DEF Prepares, setting, dates
<1>2. \/ Continue
      \/ pc' \in {"undefined", "error_loop", "halted"} /\ step' = step
  BY DEF Prepares
<1>3. Call \notin Kinds
  BY <1>1 DEF Kinds
<1>4. SetupAt' /\ pc' \in {"setup", "loop", "undefined", "error_loop", "halted"}
  BY <1>1, <1>2, <1>3, ContinueKeeps, StayKeeps
<1>5. Setting' /\ Counting' /\ Dated'
  BY <1>1, <1>4 DEF Inv, Setting, Counting, Counts, Dated
<1> QED
  BY <1>4, <1>5 DEF Inv

\* What an agent hears of a sketch that counts is the value beyond the last
\* one by those lost since.
Gap == data' # data /\ ~missed' => heard' = (heard + 1 + lost) % DataWord

\* A publication, heard or lost, counted or not.
LEMMA PublishesKeeps ==
    ASSUME Inv, NEW counts \in BOOLEAN, Publishes(counts), counts <=> Counts,
           UNCHANGED sketch
    PROVE  Counting' /\ pc' = "loop" /\ Gap
<1>1. /\ pc' = "loop" /\ missed' \in BOOLEAN
      /\ heard' = IF missed' THEN heard ELSE data
      /\ data' = IF Counts THEN (data + 1) % DataWord ELSE data
      /\ lost' = IF missed' THEN (lost + 1) % DataWord ELSE 0
  BY DEF Publishes, Results, Counted, AfterPublish
<1>2. /\ data \in 0..(DataWord - 1) /\ lost \in 0..(DataWord - 1)
      /\ heard \in -1..(DataWord - 1)
      /\ Counts => data = (heard + 1 + lost) % DataWord
  BY DEF Inv, Counting
<1>3. (data + 1) % DataWord \in 0..(DataWord - 1)
  BY <1>2, Numbers, CountOn
<1>4. (lost + 1) % DataWord \in 0..(DataWord - 1)
  BY <1>2, Numbers, CountOn
<1>5. Counts /\ missed' => data' = (heard' + 1 + lost') % DataWord
  BY <1>1, <1>2, Numbers, CountOn
<1>6. Counts /\ ~missed' => data' = (heard' + 1 + lost') % DataWord
  <2>1. (data + 1) % DataWord = (data + 1 + 0) % DataWord
    BY <1>2
  <2> QED
    BY <1>1, <2>1
<1>7. Counts' <=> Counts
  BY DEF Counts
<1>8. Counting'
  <2>1. /\ data' \in 0..(DataWord - 1) /\ lost' \in 0..(DataWord - 1)
        /\ heard' \in -1..(DataWord - 1)
    BY <1>1, <1>2, <1>3, <1>4, Numbers
  <2> QED
    BY <1>5, <1>6, <1>7, <2>1, <1>1 DEF Counting
<1>9. Gap
  BY <1>1, <1>2 DEF Gap
<1> QED
  BY <1>1, <1>8, <1>9

\* A pass of a loop() that spins.
LEMMA SpinsInv ==
    ASSUME Inv, Spins
    PROVE  Inv' /\ Gap
<1>1. /\ pc = "loop" /\ UNCHANGED <<sketch, meta, step, made, time_ms, printed>>
  BY DEF Spins, setting, dates
<1>2. \/ Publishes(TRUE) /\ Counts
      \/ Publishes(FALSE) /\ ~Counts
      \/ pc' \in {"loop", "error_loop"} /\ UNCHANGED <<data, heard, lost>>
  BY <1>1 DEF Spins, Counts
<1>3. Counting' /\ pc' \in {"loop", "error_loop"} /\ Gap
  <2>1. CASE Publishes(TRUE) /\ Counts
    BY <1>1, <2>1, PublishesKeeps
  <2>2. CASE Publishes(FALSE) /\ ~Counts
    BY <1>1, <2>2, PublishesKeeps
  <2>3. CASE pc' \in {"loop", "error_loop"} /\ UNCHANGED <<data, heard, lost>>
    BY <1>1, <2>3 DEF Inv, Counting, Counts, Gap
  <2> QED
    BY <1>2, <2>1, <2>2, <2>3
<1>4. SetupAt' /\ Setting' /\ Dated'
  BY <1>1, <1>3, StayKeeps DEF Inv, Setting, Dated
<1> QED
  BY <1>3, <1>4 DEF Inv

\* A pass of a loop() that publishes.
LEMMA LoopPublishesInv ==
    ASSUME Inv, LoopPublishes
    PROVE  Inv' /\ Gap
<1>1. /\ pc = "loop" /\ Publishes(TRUE) /\ Counts
      /\ UNCHANGED <<sketch, meta, step, made, time_ms, printed>>
  BY DEF LoopPublishes, Counts, setting, dates
<1>2. Counting' /\ pc' = "loop" /\ Gap
  BY <1>1, PublishesKeeps
<1>3. SetupAt' /\ Setting' /\ Dated'
  BY <1>1, <1>2, StayKeeps DEF Inv, Setting, Dated
<1> QED
  BY <1>2, <1>3 DEF Inv

\* A date is asked for.
LEMMA SyncsInv ==
    ASSUME Inv, Syncs
    PROVE  Inv'
<1>1. /\ pc = "loop" /\ pc' \in {"loop", "error_loop"}
      /\ UNCHANGED <<sketch, meta, step, made, data, heard, lost>>
  BY DEF Syncs, setting
<1>2. Dated'
  <2>1. \/ /\ time_ms' \in 0..MaxTime
           /\ printed' = IF time_ms' > 0 THEN Date(time_ms') ELSE Nothing
        \/ UNCHANGED <<time_ms, printed>>
    BY DEF Syncs, dates
  <2> QED
    BY <2>1 DEF Inv, Dated
<1>3. SetupAt' /\ Setting' /\ Counting'
  BY <1>1, StayKeeps DEF Inv, Setting, Counting, Counts
<1> QED
  BY <1>2, <1>3 DEF Inv

\* error_loop(), and the agent and the network, touch none of this.
LEMMA OthersInv ==
    ASSUME Inv, error_loop \/ World \/ UNCHANGED vars
    PROVE  Inv'
<1>1. UNCHANGED <<sketch, meta, pc, step, made, data, heard, lost, time_ms, printed>>
  BY DEF error_loop, World, vars, setting, dates
<1> QED
  BY <1>1, StayKeeps DEF Inv, Setting, Counting, Counts, Dated

-----------------------------------------------------------------------------

\* The invariant holds in every reachable state.
THEOREM Invariant == Spec => []Inv
<1>1. ASSUME Inv, [Next]_vars
      PROVE  Inv'
  <2>1. CASE Creates
    BY <1>1, <2>1, CreatesInv
  <2>2. CASE Registers
    BY <1>1, <2>2, RegistersInv
  <2>3. CASE Prepares
    BY <1>1, <2>3, PreparesInv
  <2>4. CASE Spins
    BY <1>1, <2>4, SpinsInv
  <2>5. CASE LoopPublishes
    BY <1>1, <2>5, LoopPublishesInv
  <2>6. CASE Syncs
    BY <1>1, <2>6, SyncsInv
  <2>7. CASE error_loop \/ World \/ UNCHANGED vars
    BY <1>1, <2>7, OthersInv
  <2> QED
    BY <1>1, <2>1, <2>2, <2>3, <2>4, <2>5, <2>6, <2>7 DEF Next, board
<1> QED
  BY <1>1, InitInv, PTL DEF Spec

\* Every variable of a sketch keeps its type, and no sketch makes more than
\* two entities of a kind.
THEOREM TypeCorrect == Spec => []TypeOK
<1>1. Inv => TypeOK
  <2> SUFFICES ASSUME Inv PROVE TypeOK
    OBVIOUS
  <2>1. \A k \in Kinds : made[k] \in 0..2
    <3> SUFFICES ASSUME NEW k \in Kinds PROVE made[k] \in 0..2
      OBVIOUS
    <3>1. step - 1 \in 0..Len(sketch.setup)
      BY DEF Inv, SetupAt
    <3> QED
      BY <3>1, MakesAtMostTwo DEF Inv, SetupAt
  <2>2. printed.ms \in 0..(Second - 1)
    BY Numbers, DateOf DEF Inv, Dated, Nothing
  <2> QED
    BY <2>1, <2>2, Numbers DEF Inv, Setting, SetupAt, Counting, Dated, TypeOK, NoData
<1> QED
  BY <1>1, Invariant, PTL

\* loop() runs only when every entity of setup() was made, once for each call
\* that makes one, in every sketch with every library.
THEOREM RunningIsCompleteHolds == Spec => []RunningIsComplete
<1>1. Inv => RunningIsComplete
  <2> SUFFICES ASSUME Inv, pc = "loop", NEW k \in Kinds
               PROVE  made[k] = Cardinality(Makes(Len(sketch.setup), k))
    BY DEF RunningIsComplete, Makes
  <2>1. step - 1 = Len(sketch.setup)
    BY DEF Inv, SetupAt
  <2> QED
    BY <2>1 DEF Inv, SetupAt
<1> QED
  BY <1>1, Invariant, PTL

\* The date is less than a second off, for every width of an unsigned int.
THEOREM PrintedWithinASecondHolds == Spec => []PrintedWithinASecond
<1>1. Inv => PrintedWithinASecond
  <2> SUFFICES ASSUME Inv PROVE PrintedWithinASecond
    OBVIOUS
  <2> DEFINE whole == Second * printed.sec
  <2>1. time_ms \in Nat
    BY DEF Inv, Dated
  <2>2. whole \in Nat /\ printed.ms \in 0..(Second - 1)
        /\ whole <= time_ms /\ time_ms < whole + Second
    <3>1. CASE time_ms > 0
      BY <2>1, <3>1, Numbers, DateOf DEF Inv, Dated
    <3>2. CASE time_ms = 0
      <4>1. printed.sec = 0 /\ printed.ms = 0
        BY <3>2 DEF Inv, Dated, Nothing
      <4> QED
        BY <3>2, <4>1, Numbers
    <3> QED
      BY <2>1, <3>1, <3>2
  <2> HIDE DEF whole
  <2>3. whole + printed.ms < time_ms + Second /\ time_ms < whole + printed.ms + Second
    BY <2>1, <2>2, Numbers
  <2> QED
    BY <2>3 DEF whole, PrintedWithinASecond
<1> QED
  BY <1>1, Invariant, PTL

\* Between two values received lie exactly those that were lost, for a counter
\* of any width and any number of wraps.
THEOREM GapsAreLossesHolds == Spec => GapsAreLosses
<1>1. ASSUME Inv, [Next]_vars
      PROVE  [data' # data /\ ~missed' => heard' = (heard + 1 + lost) % DataWord]_vars
  <2>1. CASE Spins \/ LoopPublishes
    BY <1>1, <2>1, SpinsInv, LoopPublishesInv DEF Gap
  <2>2. CASE Creates \/ Registers \/ Prepares
    BY <2>2 DEF Creates, Registers, Prepares
  <2>3. CASE Syncs \/ error_loop \/ World \/ UNCHANGED vars
    BY <2>3 DEF Syncs, error_loop, World, vars
  <2> QED
    BY <1>1, <2>1, <2>2, <2>3 DEF Next, board
<1> QED
  BY <1>1, Invariant, PTL DEF Spec, GapsAreLosses
=============================================================================
