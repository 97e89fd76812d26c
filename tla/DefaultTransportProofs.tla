----------------------- MODULE DefaultTransportProofs -----------------------
(***************************************************************************)
(* Proofs about the two halves of src/default_transport.cpp.                *)
(*                                                                         *)
(* clock_gettime, alone and in the program that uses it: for a register of  *)
(* any width, a second, a millisecond, a period and timeouts of any length, *)
(* and any number of wraps that the wrap counter can hold.                  *)
(*                                                                         *)
(* The serial transport: for any timeouts and lengths of its reads, and a   *)
(* buffer of any size.                                                      *)
(***************************************************************************)
EXTENDS ClockUsers, SerialTransport, TLAPS

\* The invariant that carries the proofs.  The code's wrap count never
\* exceeds the true one (Counted), the latest call lies in the past (Past),
\* tp is the conversion of the two statics (Shown), and no wrap was missed as
\* long as every period had a call (Exact).
Counted == rollover <= atLaps
Past == atLaps < laps \/ (atLaps = laps /\ last_measure <= micros)
Shown == tp = Timespec(last_measure + rollover * micro_rollover_useconds)
Exact == polled => rollover = atLaps
ClockInv == TypeOK /\ Counted /\ Past /\ Shown /\ Exact

-----------------------------------------------------------------------------

\* What \div and % by the length of a second compute.
LEMMA DivMod ==
    ASSUME NEW x \in Nat, NEW s \in Nat, s > 0
    PROVE  /\ x \div s \in Nat
           /\ x % s \in 0..(s - 1)
           /\ x = s * (x \div s) + (x % s)
  OBVIOUS

\* Reading a timespec back gives the microseconds it was made of.
LEMMA UsOfTimespec ==
    ASSUME NEW x \in Nat
    PROVE  /\ Timespec(x) \in [tv_sec : Nat, tv_nsec : 0..(1000 * SecUs - 1)]
           /\ Us(Timespec(x)) = x
<1>1. /\ x \div SecUs \in Nat
      /\ x % SecUs \in 0..(SecUs - 1)
      /\ x = SecUs * (x \div SecUs) + (x % SecUs)
  BY DivMod, SecUsAssumption
<1>2. ((x % SecUs) * 1000) \div 1000 = x % SecUs
  BY <1>1, SecUsAssumption
<1>3. (x % SecUs) * 1000 \in 0..(1000 * SecUs - 1)
  BY <1>1, SecUsAssumption
<1> QED
  BY <1>1, <1>2, <1>3, SecUsAssumption DEF Timespec, Us

\* The conversion is monotone: seconds and nanoseconds compare as the
\* microseconds do.
LEMMA TimespecMonotone ==
    ASSUME NEW x \in Nat, NEW y \in Nat, x <= y
    PROVE  Before(Timespec(x), Timespec(y))
<1> DEFINE a == x \div SecUs
           b == y \div SecUs
           c == x % SecUs
           d == y % SecUs
<1>1. /\ a \in Nat /\ b \in Nat
      /\ c \in 0..(SecUs - 1) /\ d \in 0..(SecUs - 1)
      /\ x = SecUs * a + c /\ y = SecUs * b + d
  BY DivMod, SecUsAssumption
<1>2. Before(Timespec(x), Timespec(y)) <=> (a < b \/ (a = b /\ c * 1000 <= d * 1000))
  BY DEF Before, Timespec
<1> HIDE DEF a, b, c, d
<1>3. ~ (b < a)
  <2> SUFFICES ASSUME b < a PROVE FALSE
    OBVIOUS
  <2>1. SecUs * (b + 1) <= SecUs * a
    BY <1>1, SecUsAssumption
  <2> QED
    BY <2>1, <1>1, SecUsAssumption
<1>4. CASE a < b
  BY <1>2, <1>4
<1>5. CASE a = b
  <2>1. c <= d
    BY <1>1, <1>5, SecUsAssumption
  <2> QED
    BY <1>1, <1>2, <1>5, <2>1, SecUsAssumption
<1> QED
  BY <1>1, <1>3, <1>4, <1>5

\* The 64-bit time of the code is a natural number.
LEMMA RealUs ==
    ASSUME NEW m \in Nat, NEW r \in Nat
    PROVE  m + r * micro_rollover_useconds \in Nat
<1>1. Word - 1 \in Nat
  BY WordAssumption
<1>2. r * (Word - 1) \in Nat
  BY <1>1
<1> QED
  BY <1>2 DEF micro_rollover_useconds

-----------------------------------------------------------------------------

\* The clock starts in its inductive invariant.
LEMMA InitClockInv == Init => ClockInv
<1> SUFFICES ASSUME Init PROVE ClockInv
  OBVIOUS
<1>1. 0 + 0 * micro_rollover_useconds = 0
  BY WordAssumption DEF micro_rollover_useconds
<1>2. Shown
  BY <1>1 DEF Init, Shown
<1>3. TypeOK
  BY UsOfTimespec, WordAssumption, MaxLapsAssumption DEF Init, TypeOK
<1> QED
  BY <1>2, <1>3 DEF Init, ClockInv, Counted, Past, Exact

\* Time passing moves the register past the latest reading or wraps it.
LEMMA TickClockInv ==
    ASSUME ClockInv, NEW d \in 1..Word, Tick(d)
    PROVE  ClockInv'
<1> USE WordAssumption, MaxLapsAssumption
<1>1. TypeOK'
  BY DEF ClockInv, TypeOK, Tick
<1>2. Past'
  BY DEF ClockInv, TypeOK, Past, Tick
<1>3. Counted' /\ Exact'
  BY DEF ClockInv, Counted, Exact, Tick
<1>4. Shown'
  BY DEF ClockInv, Shown, Tick
<1> QED
  BY <1>1, <1>2, <1>3, <1>4 DEF ClockInv

\* The count after a call, without the 32-bit remainder: a wrap is counted
\* only when the register really wrapped since the previous call.
LEMMA CallCount ==
    ASSUME ClockInv, clock_gettime
    PROVE  /\ rollover' = rollover + (IF micros < last_measure THEN 1 ELSE 0)
           /\ rollover' <= laps
           /\ rollover' \in 0..(Word - 1)
<1> DEFINE r == rollover + (IF micros < last_measure THEN 1 ELSE 0)
<1>1. /\ rollover' = r % Word
      /\ micros' = micros /\ laps' = laps
  BY DEF clock_gettime, Wrapped
<1>2. r \in Nat /\ r <= laps /\ r < Word
  BY WordAssumption, MaxLapsAssumption DEF ClockInv, TypeOK, Counted, Past
<1> HIDE DEF r
<1>3. r % Word = r
  BY <1>2, WordAssumption
<1> QED
  BY <1>1, <1>2, <1>3, WordAssumption DEF r

\* A call in every period misses no wrap.
LEMMA CallExact ==
    ASSUME ClockInv, clock_gettime
    PROVE  Exact'
<1> SUFFICES ASSUME polled' PROVE rollover' = laps
  BY DEF Exact, clock_gettime
<1>1. polled /\ TrueUs - CalledAt < Word
  BY DEF clock_gettime
<1>2. /\ micros \in 0..(Word - 1) /\ last_measure \in 0..(Word - 1)
      /\ laps \in Nat /\ atLaps \in Nat /\ Word \in Nat
      /\ rollover = atLaps
  BY <1>1, WordAssumption, MaxLapsAssumption DEF ClockInv, TypeOK, Exact
<1>3. (laps - atLaps) * Word + micros - last_measure < Word
  BY <1>1, <1>2 DEF TrueUs, CalledAt
<1>4. CASE laps = atLaps
  BY <1>2, <1>4, CallCount DEF ClockInv, Past
<1>5. CASE laps = atLaps + 1
  <2>1. (laps - atLaps) * Word = Word
    BY <1>2, <1>5
  <2>2. micros < last_measure
    BY <1>2, <1>3, <2>1
  <2> QED
    BY <1>2, <1>5, <2>2, CallCount
<1>6. CASE laps > atLaps + 1
  <2>1. (laps - atLaps) * Word >= 2 * Word
    BY <1>2, <1>6
  <2> QED
    BY <1>2, <1>3, <2>1
<1> QED
  BY <1>2, <1>4, <1>5, <1>6 DEF ClockInv, Past

\* clock_gettime preserves the inductive invariant.
LEMMA CallClockInv ==
    ASSUME ClockInv, clock_gettime
    PROVE  ClockInv'
<1>1. Shown'
  BY DEF clock_gettime, Shown, micro_rollover_useconds
<1>2. Counted'
  BY CallCount DEF clock_gettime, Counted
<1>3. Past'
  BY WordAssumption DEF clock_gettime, Past, ClockInv, TypeOK
<1>4. TypeOK'
  <2>1. rollover' \in 0..(Word - 1)
    BY CallCount
  <2>2. last_measure' = micros /\ last_measure' \in Nat /\ rollover' \in Nat
    BY <2>1, WordAssumption DEF ClockInv, TypeOK, clock_gettime
  <2>3. tp' \in [tv_sec : Nat, tv_nsec : 0..(1000 * SecUs - 1)]
    BY <1>1, <2>2, RealUs, UsOfTimespec DEF Shown, micro_rollover_useconds
  <2> QED
    BY <2>1, <2>3 DEF ClockInv, TypeOK, clock_gettime
<1>5. Exact'
  BY CallExact
<1> QED
  BY <1>1, <1>2, <1>3, <1>4, <1>5 DEF ClockInv

\* The invariant holds in every reachable state.
THEOREM ClockInvariant == Spec => []ClockInv
<1>1. ASSUME ClockInv, [Next]_vars
      PROVE  ClockInv'
  <2>1. CASE clock_gettime
    BY <1>1, <2>1, CallClockInv
  <2>2. CASE \E d \in 1..Word : Tick(d)
    BY <1>1, <2>2, TickClockInv
  <2>3. CASE UNCHANGED vars
    BY <1>1, <2>3 DEF vars, ClockInv, TypeOK, Counted, Past, Shown, Exact
  <2> QED
    BY <1>1, <2>1, <2>2, <2>3 DEF Next
<1> QED
  BY <1>1, InitClockInv, PTL DEF Spec

\* The registers of clock_gettime keep their width, and tv_nsec stays a
\* fraction of a second, for every width of micros().
THEOREM ClockTypeCorrect == Spec => []TypeOK
<1>1. ClockInv => TypeOK
  BY DEF ClockInv
<1> QED
  BY <1>1, ClockInvariant, PTL

\* clock_gettime never shows a time that has not been reached.
THEOREM ClockNeverAheadHolds == Spec => []ClockNeverAhead
<1>1. ClockInv => ClockNeverAhead
  <2> SUFFICES ASSUME ClockInv PROVE ClockNeverAhead
    OBVIOUS
  <2>1. /\ last_measure \in Nat /\ rollover \in Nat /\ atLaps \in Nat
        /\ rollover <= atLaps /\ Word \in Nat /\ Word > 1
    BY WordAssumption, MaxLapsAssumption DEF ClockInv, TypeOK, Counted
  <2>2. Us(tp) = last_measure + rollover * (Word - 1)
    BY <2>1, RealUs, UsOfTimespec DEF ClockInv, Shown, micro_rollover_useconds
  <2>3. rollover * (Word - 1) <= atLaps * Word
    <3>1. rollover * (Word - 1) <= rollover * Word
      BY <2>1
    <3>2. rollover * Word <= atLaps * Word
      BY <2>1
    <3> QED
      BY <2>1, <3>1, <3>2
  <2> QED
    BY <2>1, <2>2, <2>3 DEF ClockNeverAhead, CalledAt
<1> QED
  BY <1>1, ClockInvariant, PTL

\* A program that reads the clock in every period of micros() sees a time
\* that is late by one microsecond for every wrap, and by nothing else.
THEOREM ClockLagHolds == Spec => []ClockLagWhilePolled
<1>1. ClockInv => ClockLagWhilePolled
  <2> SUFFICES ASSUME ClockInv, polled PROVE CalledAt - Us(tp) = rollover
    BY DEF ClockLagWhilePolled
  <2>1. /\ last_measure \in Nat /\ rollover \in Nat /\ Word \in Nat
        /\ rollover = atLaps
    BY WordAssumption DEF ClockInv, TypeOK, Exact
  <2>2. Us(tp) = last_measure + rollover * (Word - 1)
    BY <2>1, RealUs, UsOfTimespec DEF ClockInv, Shown, micro_rollover_useconds
  <2>3. rollover * (Word - 1) = rollover * Word - rollover
    BY <2>1
  <2> QED
    BY <2>1, <2>2, <2>3 DEF CalledAt
<1> QED
  BY <1>1, ClockInvariant, PTL

\* No call of clock_gettime returns a time before the previous one, however
\* many wraps went unnoticed in between.
THEOREM ClockNeverGoesBackHolds == Spec => ClockNeverGoesBack
<1>1. ASSUME ClockInv, ClockInv', [Next]_vars
      PROVE  [Before(tp, tp')]_vars
  <2> DEFINE u == last_measure + rollover * (Word - 1)
             v == last_measure' + rollover' * (Word - 1)
  <2>1. /\ tp = Timespec(u) /\ tp' = Timespec(v)
        /\ u \in Nat /\ v \in Nat
    <3>1. /\ last_measure \in Nat /\ rollover \in Nat
          /\ last_measure' \in Nat /\ rollover' \in Nat
      BY <1>1, WordAssumption DEF ClockInv, TypeOK
    <3>2. u \in Nat /\ v \in Nat
      BY <3>1, RealUs DEF micro_rollover_useconds
    <3> QED
      BY <1>1, <3>2 DEF ClockInv, Shown, micro_rollover_useconds
  <2>2. u <= v
    <3>1. CASE clock_gettime
      <4>1. /\ last_measure' = micros
            /\ rollover' = rollover + (IF micros < last_measure THEN 1 ELSE 0)
        BY <1>1, <3>1, CallCount DEF clock_gettime
      <4>2. /\ micros \in 0..(Word - 1) /\ last_measure \in 0..(Word - 1)
            /\ rollover \in Nat /\ Word \in Nat
        BY <1>1, WordAssumption DEF ClockInv, TypeOK
      <4>3. (rollover + 1) * (Word - 1) = rollover * (Word - 1) + Word - 1
        BY <4>2
      <4>4. rollover * (Word - 1) \in Int
        BY <4>2
      <4> QED
        BY <4>1, <4>2, <4>3, <4>4
    <3>2. CASE \E d \in 1..Word : Tick(d)
      <4>1. u = v
        BY <3>2 DEF Tick
      <4> QED
        BY <2>1, <4>1
    <3>3. CASE UNCHANGED vars
      <4>1. u = v
        BY <3>3 DEF vars
      <4> QED
        BY <2>1, <4>1
    <3> QED
      BY <1>1, <3>1, <3>2, <3>3 DEF Next
  <2> QED
    BY <2>1, <2>2, TimespecMonotone
<1> QED
  BY <1>1, ClockInvariant, PTL DEF Spec, ClockNeverGoesBack

-----------------------------------------------------------------------------

\* The types of the variables of the program.
UsersTypeOK ==
    /\ pc \in {"loop", "X", "check", "delay"}
    /\ caller \in {"loop", "X"}
    /\ start_time \in Nat /\ timeout \in Int /\ startUs \in Nat
    /\ init \in Nat \cup {-1} /\ initUs \in Nat

Reading == pc \in {"check", "delay"}

\* The reading that start_time was made of: what the clock shows now, less
\* the true time since then, and more by what the wraps since then cost.
StartedAt == Us(tp) - (CalledAt - startUs) + (atLaps - startUs \div Word)

\* Of a read under way: start_time is the millisecond of its start (Started);
\* the clock was called at its start or later (Since); and it goes on because
\* there was time left when the clock was last called, one pass ago at most
\* (InPass).
Started == Reading => StartedAt >= start_time * MsUs /\ StartedAt < (start_time + 1) * MsUs
Since == Reading => startUs <= CalledAt /\ startUs \div Word <= atLaps
InPass ==
    /\ pc = "delay" => TrueUs = CalledAt /\ TimeLeft(Millis(tp))
    /\ pc = "check" => \/ TrueUs = CalledAt /\ CalledAt = startUs
                       \/ TrueUs - CalledAt \in 0..Pass /\ TimeLeft(Millis(tp))

\* Of the macro: the clock is not nearer to the end of the millisecond of
\* init than the true time is to initUs (NotEarly); and as long as no wrap
\* was missed, init is not later than the clock was at initUs (NotLate).
NotEarly == init # -1 => Us(tp) - CalledAt < (init + 1) * MsUs - initUs
NotLate == init # -1 /\ polled => initUs - initUs \div Word >= init * MsUs

UsersInv ==
    ClockInv /\ UsersTypeOK /\ Started /\ Since /\ InPass /\ NotEarly /\ NotLate

-----------------------------------------------------------------------------

\* Every step of the program is a step of the clock or leaves it alone.
LEMMA UsersStepIsClockStep == [UsersNext]_uvars => [Next]_vars
<1> SUFFICES ASSUME [UsersNext]_uvars PROVE [Next]_vars
  OBVIOUS
<1>1. CASE clock_gettime
  BY <1>1 DEF Next
<1>2. CASE \E d \in 1..Word : Tick(d)
  BY <1>2 DEF Next
<1>3. CASE read_delay
  <2>1. PICK d \in MsUs..Pass : Tick(d)
    BY <1>3 DEF read_delay
  <2>2. d \in 1..Word
    BY UsersAssumption, WordAssumption
  <2> QED
    BY <2>1, <2>2 DEF Next
<1>4. CASE UNCHANGED uvars
  BY <1>4 DEF uvars
<1> QED
  BY <1>1, <1>2, <1>3, <1>4
  DEF UsersNext, EXECUTE_EVERY_N_MS, Executed, read_start, read_check, Elsewhere

\* The clock of the program behaves as ArduinoClock says, so that every
\* theorem about ArduinoClock is one about the program.
THEOREM UsersImplementClock == UsersSpec => Spec
<1>1. UsersInit => Init
  BY DEF UsersInit
<1> QED
  BY <1>1, UsersStepIsClockStep, PTL DEF UsersSpec, Spec

\* The invariant of the clock holds in the program.
LEMMA UsersClockInv == UsersSpec => []ClockInv
  BY UsersImplementClock, ClockInvariant, PTL

-----------------------------------------------------------------------------

\* The quotient of a division against a bound.
LEMMA QuotientBound ==
    ASSUME NEW x \in Nat, NEW m \in Nat, m > 0, NEW y \in Int
    PROVE  /\ x \div m \in Nat
           /\ x \div m >= y => x >= y * m
           /\ x \div m < y => x < y * m
<1> DEFINE q == x \div m
           r == x % m
<1>1. q \in Nat /\ r \in 0..(m - 1) /\ x = m * q + r
  BY DivMod
<1> HIDE DEF q, r
<1>2. ASSUME q >= y PROVE x >= y * m
  <2>1. m * q >= m * y
    BY <1>1, <1>2
  <2>2. m * y = y * m /\ m * q \in Int /\ m * y \in Int
    BY <1>1
  <2> QED
    BY <1>1, <2>1, <2>2
<1>3. ASSUME q < y PROVE x < y * m
  <2>1. m * (q + 1) <= m * y
    BY <1>1, <1>3
  <2>2. m * (q + 1) = m * q + m /\ m * y = y * m /\ m * q \in Int /\ m * y \in Int
    BY <1>1
  <2> QED
    BY <1>1, <2>1, <2>2
<1> QED
  BY <1>1, <1>2, <1>3 DEF q

\* The wraps of a true time.
LEMMA WrapsOfTrueUs ==
    ASSUME TypeOK
    PROVE  TrueUs \in Nat /\ TrueUs \div Word = laps
<1>1. micros \in 0..(Word - 1) /\ laps \in Nat /\ Word \in Nat /\ Word > 1
  BY WordAssumption, MaxLapsAssumption DEF TypeOK
<1>2. laps * Word \in Nat
  BY <1>1
<1>3. laps * Word + micros \in Nat
  BY <1>1, <1>2
<1> DEFINE q == (laps * Word + micros) \div Word
<1>4. q \in Nat /\ q * Word <= laps * Word + micros /\ laps * Word + micros < q * Word + Word
  <2>1. /\ q \in Nat
        /\ (laps * Word + micros) % Word \in 0..(Word - 1)
        /\ laps * Word + micros = Word * q + ((laps * Word + micros) % Word)
    BY <1>1, <1>3, DivMod
  <2>2. Word * q = q * Word /\ q * Word \in Int
    BY <1>1, <2>1
  <2> HIDE DEF q
  <2> QED
    BY <1>1, <1>3, <2>1, <2>2
<1> HIDE DEF q
<1>5. ~ (q < laps)
  <2> SUFFICES ASSUME q < laps PROVE FALSE
    OBVIOUS
  <2>1. (q + 1) * Word <= laps * Word
    BY <1>1, <1>4
  <2>2. (q + 1) * Word = q * Word + Word /\ q * Word \in Int
    BY <1>1, <1>4
  <2> QED
    BY <1>1, <1>2, <1>4, <2>1, <2>2
<1>6. ~ (q > laps)
  <2> SUFFICES ASSUME q > laps PROVE FALSE
    OBVIOUS
  <2>1. (laps + 1) * Word <= q * Word
    BY <1>1, <1>4
  <2>2. (laps + 1) * Word = laps * Word + Word /\ q * Word \in Int
    BY <1>1, <1>4
  <2> QED
    BY <1>1, <1>2, <1>4, <2>1, <2>2
<1>7. q = laps
  BY <1>1, <1>4, <1>5, <1>6
<1> QED
  BY <1>3, <1>7 DEF TrueUs, q

\* What the clock shows, by its invariant.
LEMMA ShownUs ==
    ASSUME ClockInv
    PROVE  /\ Us(tp) = last_measure + rollover * (Word - 1)
           /\ Us(tp) \in Nat /\ CalledAt \in Nat /\ TrueUs \in Nat
           /\ CalledAt <= TrueUs
           /\ polled => Us(tp) = CalledAt - atLaps
<1>1. /\ last_measure \in 0..(Word - 1) /\ micros \in 0..(Word - 1) /\ rollover \in Nat
      /\ atLaps \in Nat /\ laps \in Nat /\ Word \in Nat /\ Word > 1
  BY WordAssumption, MaxLapsAssumption DEF ClockInv, TypeOK
<1>2. /\ Us(tp) = last_measure + rollover * (Word - 1)
      /\ Us(tp) \in Nat
  BY <1>1, RealUs, UsOfTimespec DEF ClockInv, Shown, micro_rollover_useconds
<1>3. atLaps * Word \in Nat /\ laps * Word \in Nat
  BY <1>1
<1>4. CalledAt \in Nat /\ TrueUs \in Nat
  BY <1>1, <1>3 DEF CalledAt, TrueUs
<1>5. CalledAt <= TrueUs
  <2>1. CASE atLaps = laps /\ last_measure <= micros
    BY <1>1, <1>3, <2>1 DEF CalledAt, TrueUs
  <2>2. CASE atLaps < laps
    <3>1. (atLaps + 1) * Word <= laps * Word
      BY <1>1, <2>2
    <3>2. (atLaps + 1) * Word = atLaps * Word + Word
      BY <1>1
    <3> QED
      BY <1>1, <1>3, <3>1, <3>2 DEF CalledAt, TrueUs
  <2> QED
    BY <2>1, <2>2 DEF ClockInv, Past
<1>6. ASSUME polled PROVE Us(tp) = CalledAt - atLaps
  <2>1. rollover = atLaps
    BY <1>6 DEF ClockInv, Exact
  <2>2. rollover * (Word - 1) = atLaps * Word - atLaps
    BY <1>1, <2>1
  <2> QED
    BY <1>1, <1>2, <1>3, <2>2 DEF CalledAt
<1> QED
  BY <1>2, <1>4, <1>5, <1>6

\* What a call adds to the time shown: never more than passed since the call
\* before, and, if that was less than a period of micros(), exactly what
\* passed less a microsecond if the register wrapped.
LEMMA CallAdvances ==
    ASSUME ClockInv, clock_gettime
    PROVE  /\ CalledAt' = TrueUs /\ atLaps' = laps /\ TrueUs' = TrueUs /\ laps' = laps
           /\ atLaps <= laps
           /\ Us(tp') - Us(tp) <= TrueUs - CalledAt
           /\ TrueUs - CalledAt < Word =>
                Us(tp') - Us(tp) = (TrueUs - CalledAt) - (laps - atLaps)
<1> DEFINE c == IF micros < last_measure THEN 1 ELSE 0
           k == laps - atLaps
<1>1. /\ last_measure \in 0..(Word - 1) /\ micros \in 0..(Word - 1) /\ rollover \in Nat
      /\ atLaps \in Nat /\ laps \in Nat /\ Word \in Nat /\ Word > 1
      /\ (atLaps < laps \/ (atLaps = laps /\ last_measure <= micros))
  BY WordAssumption, MaxLapsAssumption DEF ClockInv, TypeOK, Past
<1>2. /\ last_measure' = micros /\ atLaps' = laps /\ micros' = micros /\ laps' = laps
      /\ rollover' = rollover + c
  BY CallCount DEF clock_gettime
<1>3. CalledAt' = TrueUs /\ TrueUs' = TrueUs
  BY <1>2 DEF CalledAt, TrueUs
<1>4. ClockInv'
  BY CallClockInv
<1>5. Us(tp)' = last_measure' + rollover' * (Word - 1)
  <2>1. last_measure' \in Nat /\ rollover' \in Nat
    BY <1>1, <1>2
  <2>2. tp' = Timespec(last_measure' + rollover' * (Word - 1))
    BY <1>4 DEF ClockInv, Shown, micro_rollover_useconds
  <2>3. Us(tp') = last_measure' + rollover' * (Word - 1)
    BY <2>1, <2>2, RealUs, UsOfTimespec DEF micro_rollover_useconds
  <2> QED
    BY <2>3 DEF Us
<1>6. Us(tp') = micros + rollover * (Word - 1) + c * (Word - 1)
  <2>1. (rollover + c) * (Word - 1) = rollover * (Word - 1) + c * (Word - 1)
    BY <1>1
  <2>2. Us(tp') = micros + (rollover + c) * (Word - 1)
    BY <1>2, <1>5 DEF Us
  <2>3. rollover * (Word - 1) \in Int /\ c * (Word - 1) \in Int
    BY <1>1
  <2> QED
    BY <1>1, <2>1, <2>2, <2>3
<1>7. Us(tp') - Us(tp) = micros - last_measure + c * (Word - 1)
  <2>1. rollover * (Word - 1) \in Int /\ c * (Word - 1) \in Int
    BY <1>1
  <2> QED
    BY <1>1, <1>6, <2>1, ShownUs
<1>8. TrueUs - CalledAt = k * Word + micros - last_measure
  <2>1. laps * Word - atLaps * Word = k * Word
    BY <1>1
  <2>2. laps * Word \in Int /\ atLaps * Word \in Int
    BY <1>1
  <2> QED
    BY <1>1, <2>1, <2>2 DEF TrueUs, CalledAt
<1>9. /\ Us(tp') - Us(tp) <= TrueUs - CalledAt
      /\ TrueUs - CalledAt < Word =>
           Us(tp') - Us(tp) = (TrueUs - CalledAt) - (laps - atLaps)
  <2>1. CASE k = 0
    BY <1>1, <1>7, <1>8, <2>1
  <2>2. CASE k = 1
    BY <1>1, <1>7, <1>8, <2>2
  <2>3. CASE k >= 2
    <3>1. k * Word >= 2 * Word
      BY <1>1, <2>3
    <3>2. k * Word \in Int
      BY <1>1
    <3>3. ~ (TrueUs - CalledAt < Word)
      BY <1>1, <1>8, <3>1, <3>2
    <3>4. c * (Word - 1) <= Word - 1
      BY <1>1
    <3> QED
      BY <1>1, <1>7, <1>8, <3>1, <3>2, <3>3, <3>4
  <2> QED
    BY <1>1, <2>1, <2>2, <2>3
<1> QED
  BY <1>1, <1>2, <1>3, <1>9

-----------------------------------------------------------------------------

\* The program starts in its invariant.
LEMMA InitUsersInv == UsersInit => UsersInv
<1> SUFFICES ASSUME UsersInit PROVE UsersInv
  OBVIOUS
<1>1. ClockInv
  BY InitClockInv DEF UsersInit
<1>2. UsersTypeOK /\ Started /\ Since /\ InPass /\ NotEarly /\ NotLate
  BY DEF UsersInit, UsersTypeOK, Started, Since, InPass, NotEarly, NotLate, Reading
<1> QED
  BY <1>1, <1>2 DEF UsersInv

\* What a reading in milliseconds says of the time shown.
LEMMA MillisBounds ==
    ASSUME NEW t, Us(t) \in Nat, NEW y \in Int
    PROVE  /\ Millis(t) \in Nat
           /\ Millis(t) >= y => Us(t) >= y * MsUs
           /\ Millis(t) < y => Us(t) < y * MsUs
           /\ Us(t) >= Millis(t) * MsUs
           /\ Us(t) < (Millis(t) + 1) * MsUs
<1>1. MsUs \in Nat /\ MsUs > 0
  BY UsersAssumption
<1>2. Millis(t) \in Nat
  BY <1>1, QuotientBound DEF Millis
<1> QED
  BY <1>1, <1>2, QuotientBound DEF Millis

\* The same as a formula about one state, to be used of the next one.
LEMMA ShownUsAlways ==
    ClockInv => Us(tp) \in Nat /\ (polled => Us(tp) = CalledAt - atLaps)
  BY ShownUs

\* After a call the clock shows what it showed when it was called, which is
\* now.
LEMMA AfterCall ==
    ASSUME ClockInv, clock_gettime
    PROVE  /\ ClockInv' /\ Us(tp') \in Nat
           /\ Us(tp)' = Us(tp') /\ Millis(tp)' = Millis(tp')
           /\ CalledAt' = TrueUs /\ TrueUs' = TrueUs /\ TrueUs \in Nat
           /\ atLaps' = laps /\ laps' = laps /\ laps \in Nat /\ TrueUs \div Word = laps
           /\ polled' => polled /\ Us(tp') = TrueUs - laps
<1>1. ClockInv'
  BY CallClockInv
<1>2. /\ CalledAt' = TrueUs /\ TrueUs' = TrueUs
      /\ atLaps' = laps /\ laps' = laps
  BY CallAdvances
<1>3. /\ Us(tp)' = Us(tp') /\ Millis(tp)' = Millis(tp')
  BY DEF Us, Millis
<1>4. (Us(tp) \in Nat /\ (polled => Us(tp) = CalledAt - atLaps))'
  BY <1>1, ShownUsAlways, PTL
<1>5. TrueUs \in Nat /\ TrueUs \div Word = laps /\ laps \in Nat
  BY WrapsOfTrueUs, MaxLapsAssumption DEF ClockInv, TypeOK
<1>6. polled' => polled
  BY DEF clock_gettime
<1> QED
  BY <1>1, <1>2, <1>3, <1>4, <1>5, <1>6

\* Time passing outside the read leaves the invariant alone.
LEMMA ElsewhereUsersInv ==
    ASSUME UsersInv, Elsewhere
    PROVE  UsersInv'
<1>1. PICK d \in 1..Word : Tick(d)
  BY DEF Elsewhere
<1>2. ClockInv'
  BY <1>1, TickClockInv DEF UsersInv
<1>3. /\ pc' = pc /\ pc \in {"loop", "X"} /\ UNCHANGED <<read, init, initUs>>
      /\ UNCHANGED <<last_measure, tp, atLaps, polled>>
  BY <1>1 DEF Elsewhere, Tick
<1>4. UsersTypeOK' /\ Started' /\ Since' /\ InPass'
  BY <1>3 DEF UsersInv, UsersTypeOK, Started, Since, InPass, Reading, read
<1>5. NotEarly' /\ NotLate'
  BY <1>3 DEF UsersInv, NotEarly, NotLate, Us, CalledAt
<1> QED
  BY <1>2, <1>4, <1>5 DEF UsersInv

\* The true time after some has passed.
LEMMA TickTrueUs ==
    ASSUME TypeOK, NEW d \in 1..Word, Tick(d)
    PROVE  TrueUs' = TrueUs + d
<1>1. micros \in Nat /\ laps \in Nat /\ Word \in Nat /\ d \in Nat
  BY WordAssumption, MaxLapsAssumption DEF TypeOK
<1>2. (laps + 1) * Word = laps * Word + Word /\ laps * Word \in Int
  BY <1>1
<1>3. CASE micros + d < Word
  BY <1>1, <1>2, <1>3 DEF Tick, TrueUs
<1>4. CASE ~ (micros + d < Word)
  <2>1. micros' = micros + d - Word /\ laps' = laps + 1
    BY <1>4 DEF Tick
  <2> QED
    BY <1>1, <1>2, <2>1 DEF TrueUs
<1> QED
  BY <1>3, <1>4

\* A pass of the read takes Pass at most.
LEMMA DelayUsersInv ==
    ASSUME UsersInv, read_delay
    PROVE  UsersInv'
<1>1. PICK d \in MsUs..Pass : Tick(d)
  BY DEF read_delay
<1>2. d \in 1..Word /\ d \in 0..Pass
  BY <1>1, UsersAssumption, WordAssumption
<1>3. ClockInv'
  BY <1>1, <1>2, TickClockInv DEF UsersInv
<1>4. /\ pc = "delay" /\ pc' = "check" /\ UNCHANGED <<read, init, initUs>>
      /\ UNCHANGED <<last_measure, tp, atLaps, polled>>
  BY <1>1 DEF read_delay, Tick
<1>5. UsersTypeOK' /\ Started' /\ Since' /\ NotEarly' /\ NotLate'
  BY <1>4
  DEF UsersInv, UsersTypeOK, Started, Since, NotEarly, NotLate, Reading, StartedAt, read,
      Us, CalledAt
<1>6. InPass'
  <2>1. TrueUs = CalledAt /\ TimeLeft(Millis(tp)) /\ TrueUs \in Nat
    BY <1>4, ShownUs DEF UsersInv, InPass
  <2>2. TrueUs' = TrueUs + d /\ CalledAt' = CalledAt
    BY <1>1, <1>2, <1>4, TickTrueUs DEF UsersInv, ClockInv, CalledAt
  <2>3. TrueUs' - CalledAt' \in 0..Pass
    BY <1>2, <2>1, <2>2
  <2>4. TimeLeft(Millis(tp))'
    BY <1>4, <2>1 DEF TimeLeft, Millis, Us, read
  <2> QED
    BY <1>4, <2>3, <2>4 DEF InPass
<1> QED
  BY <1>3, <1>5, <1>6 DEF UsersInv

\* A call by another than the macro leaves what is said of the macro true.
LEMMA CallKeepsPeriod ==
    ASSUME UsersInv, clock_gettime, UNCHANGED <<init, initUs>>
    PROVE  NotEarly' /\ NotLate'
<1>1. NotLate'
  BY AfterCall DEF UsersInv, NotLate
<1>2. NotEarly'
  <2> SUFFICES ASSUME init # -1
               PROVE  Us(tp)' - CalledAt' < (init + 1) * MsUs - initUs
    BY DEF NotEarly
  <2>1. Us(tp) - CalledAt < (init + 1) * MsUs - initUs
    BY DEF UsersInv, NotEarly
  <2>2. Us(tp') - Us(tp) <= TrueUs - CalledAt
    BY CallAdvances DEF UsersInv
  <2>3. /\ Us(tp) \in Nat /\ CalledAt \in Nat /\ TrueUs \in Nat /\ Us(tp') \in Nat
        /\ Us(tp)' = Us(tp') /\ CalledAt' = TrueUs
    BY ShownUs, AfterCall DEF UsersInv
  <2>4. (init + 1) * MsUs \in Int /\ initUs \in Int
    BY UsersAssumption DEF UsersInv, UsersTypeOK
  <2> QED
    BY <2>1, <2>2, <2>3, <2>4
<1> QED
  BY <1>1, <1>2

\* The macro notes the time: a whole call, whose reading becomes init.
LEMMA SetPeriod ==
    ASSUME UsersInv, clock_gettime, init' = Millis(tp'), initUs' = TrueUs
    PROVE  init' \in Nat /\ initUs' \in Nat /\ NotEarly' /\ NotLate'
<1>1. /\ Us(tp') \in Nat /\ Us(tp)' = Us(tp') /\ CalledAt' = TrueUs /\ TrueUs \in Nat
      /\ laps \in Nat /\ TrueUs \div Word = laps
      /\ polled' => Us(tp') = TrueUs - laps
  BY AfterCall DEF UsersInv
<1>2. /\ init' \in Nat /\ initUs' \in Nat
      /\ Us(tp') >= init' * MsUs
      /\ Us(tp') < (init' + 1) * MsUs
  BY <1>1, MillisBounds
<1>3. init' * MsUs \in Int /\ (init' + 1) * MsUs \in Int
  BY <1>2, UsersAssumption
<1>4. NotEarly'
  <2>1. Us(tp)' - CalledAt' < (init' + 1) * MsUs - initUs'
    BY <1>1, <1>2, <1>3
  <2> QED
    BY <2>1 DEF NotEarly
<1>5. NotLate'
  <2>1. polled' => initUs' - initUs' \div Word >= init' * MsUs
    BY <1>1, <1>2, <1>3
  <2> QED
    BY <2>1 DEF NotLate
<1> QED
  BY <1>2, <1>4, <1>5

\* The macro preserves the invariant, whether its period is over or not.
LEMMA MacroUsersInv ==
    ASSUME UsersInv, EXECUTE_EVERY_N_MS \/ Executed
    PROVE  UsersInv'
<1>1. /\ clock_gettime /\ UNCHANGED read
      /\ pc \in {"loop", "X"} /\ pc' \in {"loop", "X"}
  BY DEF EXECUTE_EVERY_N_MS, Executed
<1>2. \/ init' = Millis(tp') /\ initUs' = TrueUs
      \/ UNCHANGED <<init, initUs>>
  BY DEF EXECUTE_EVERY_N_MS, Executed
<1>3. NotEarly' /\ NotLate' /\ init' \in Nat \cup {-1} /\ initUs' \in Nat
  BY <1>1, <1>2, SetPeriod, CallKeepsPeriod DEF UsersInv, UsersTypeOK
<1>4. UsersTypeOK' /\ Started' /\ Since' /\ InPass'
  BY <1>1, <1>3 DEF UsersInv, UsersTypeOK, Started, Since, InPass, Reading, read
<1> QED
  BY <1>1, <1>3, <1>4, AfterCall DEF UsersInv

\* A read starts at a true time and at what the clock shows then.
LEMMA StartUsersInv ==
    ASSUME UsersInv, NEW t \in Timeouts, read_start(t)
    PROVE  UsersInv'
<1>1. /\ clock_gettime /\ pc \in {"loop", "X"} /\ caller' = pc /\ pc' = "check"
      /\ start_time' = Millis(tp') /\ timeout' = t /\ startUs' = TrueUs
      /\ UNCHANGED <<init, initUs>>
  BY DEF read_start
<1>2. /\ ClockInv' /\ Us(tp') \in Nat /\ Us(tp)' = Us(tp')
      /\ CalledAt' = TrueUs /\ TrueUs' = TrueUs /\ TrueUs \in Nat
      /\ atLaps' = laps /\ laps \in Nat /\ TrueUs \div Word = laps
  BY <1>1, AfterCall DEF UsersInv
<1>3. /\ start_time' \in Nat
      /\ Us(tp') >= start_time' * MsUs
      /\ Us(tp') < (start_time' + 1) * MsUs
  BY <1>1, <1>2, MillisBounds
<1>4. UsersTypeOK'
  BY <1>1, <1>2, <1>3, UsersAssumption DEF UsersInv, UsersTypeOK
<1>5. StartedAt' = Us(tp')
  BY <1>1, <1>2 DEF StartedAt
<1>6. Started' /\ Since' /\ InPass'
  BY <1>1, <1>2, <1>3, <1>5 DEF Started, Since, InPass
<1> QED
  BY <1>1, <1>2, <1>4, <1>6, CallKeepsPeriod DEF UsersInv

\* In the loop of the read no wrap is missed: the clock is called again
\* before a period of micros() is over, and goes on by what passed, less a
\* microsecond if the register wrapped.
LEMMA CheckAdvances ==
    ASSUME UsersInv, pc = "check", clock_gettime
    PROVE  /\ Us(tp') = Us(tp) + (TrueUs - CalledAt) - (laps - atLaps)
           /\ StartedAt' = Us(tp') - (TrueUs - startUs') + (laps - startUs' \div Word)
           /\ startUs' = startUs => StartedAt' = StartedAt
           /\ startUs <= CalledAt /\ CalledAt <= TrueUs
           /\ atLaps <= laps /\ startUs \div Word <= atLaps
           /\ startUs \div Word \in Int
           /\ Us(tp) \in Nat /\ Us(tp') \in Nat /\ CalledAt \in Nat /\ TrueUs \in Nat
           /\ laps \in Nat /\ atLaps \in Nat
<1>1. TrueUs - CalledAt < Word
  <2>1. TrueUs - CalledAt <= Pass \/ TrueUs - CalledAt = 0
    BY UsersAssumption, ShownUs DEF UsersInv, InPass
  <2> QED
    BY <2>1, UsersAssumption, WordAssumption, ShownUs DEF UsersInv
<1>2. /\ Us(tp) \in Nat /\ Us(tp') \in Nat /\ CalledAt \in Nat /\ TrueUs \in Nat
      /\ laps \in Nat /\ atLaps \in Nat /\ startUs \in Nat /\ CalledAt <= TrueUs
      /\ Us(tp)' = Us(tp') /\ CalledAt' = TrueUs /\ atLaps' = laps
  BY ShownUs, AfterCall, MaxLapsAssumption DEF UsersInv, UsersTypeOK, ClockInv, TypeOK
<1>3. /\ Us(tp') - Us(tp) = (TrueUs - CalledAt) - (laps - atLaps)
      /\ atLaps <= laps
  BY <1>1, CallAdvances DEF UsersInv
<1>4. Us(tp') = Us(tp) + (TrueUs - CalledAt) - (laps - atLaps)
  BY <1>2, <1>3
<1>5. startUs \div Word \in Int
  BY <1>2, DivMod, WordAssumption
<1>6. StartedAt' = Us(tp') - (TrueUs - startUs') + (laps - startUs' \div Word)
  BY <1>2 DEF StartedAt
<1>7. ASSUME startUs' = startUs PROVE StartedAt' = StartedAt
  BY <1>2, <1>4, <1>5, <1>6, <1>7 DEF StartedAt
<1> QED
  BY <1>2, <1>3, <1>4, <1>5, <1>6, <1>7 DEF UsersInv, Since, Reading

\* The condition of the read's loop preserves the invariant.
LEMMA CheckUsersInv ==
    ASSUME UsersInv, read_check
    PROVE  UsersInv'
<1>1. clock_gettime /\ pc = "check" /\ UNCHANGED <<init, initUs>>
  BY DEF read_check
<1>2. /\ ClockInv' /\ NotEarly' /\ NotLate'
      /\ CalledAt' = TrueUs /\ TrueUs' = TrueUs /\ Millis(tp)' = Millis(tp') /\ atLaps' = laps
  BY <1>1, AfterCall, CallKeepsPeriod DEF UsersInv
<1>3. CASE TimeLeft(Millis(tp')) /\ pc' = "delay" /\ UNCHANGED read
  <2>1. UsersTypeOK'
    BY <1>1, <1>3 DEF UsersInv, UsersTypeOK, read
  <2>2. StartedAt' = StartedAt /\ startUs' = startUs /\ start_time' = start_time
    BY <1>1, <1>3, CheckAdvances DEF read
  <2>3. Started'
    BY <1>1, <2>2 DEF UsersInv, Started, Reading
  <2>4. startUs <= TrueUs /\ startUs \div Word <= laps
    <3>1. startUs \in Nat
      BY DEF UsersInv, UsersTypeOK
    <3> QED
      BY <1>1, <3>1, CheckAdvances
  <2>5. Since'
    BY <1>2, <2>2, <2>4 DEF Since
  <2>6. InPass'
    BY <1>2, <1>3 DEF InPass, TimeLeft, read
  <2> QED
    BY <1>2, <2>1, <2>3, <2>5, <2>6 DEF UsersInv
<1>4. CASE Return
  <2>1. UsersTypeOK' /\ Started' /\ Since' /\ InPass'
    BY <1>1, <1>4 DEF Return, UsersInv, UsersTypeOK, Started, Since, InPass, Reading
  <2> QED
    BY <1>2, <2>1 DEF UsersInv
<1> QED
  BY <1>3, <1>4 DEF read_check

\* The invariant holds in every reachable state of the program.
THEOREM UsersInvariant == UsersSpec => []UsersInv
<1>1. ASSUME UsersInv, [UsersNext]_uvars
      PROVE  UsersInv'
  <2>1. CASE EXECUTE_EVERY_N_MS \/ Executed
    BY <1>1, <2>1, MacroUsersInv
  <2>2. CASE \E t \in Timeouts : read_start(t)
    BY <1>1, <2>2, StartUsersInv
  <2>3. CASE read_check
    BY <1>1, <2>3, CheckUsersInv
  <2>4. CASE read_delay
    BY <1>1, <2>4, DelayUsersInv
  <2>5. CASE Elsewhere
    BY <1>1, <2>5, ElsewhereUsersInv
  <2>6. CASE UNCHANGED uvars
    BY <1>1, <2>6
    DEF uvars, vars, read, UsersInv, ClockInv, TypeOK, Counted, Past, Shown, Exact,
        UsersTypeOK, Started, Since, InPass, NotEarly, NotLate, Reading, StartedAt,
        TimeLeft, Millis, Us, CalledAt, TrueUs
  <2> QED
    BY <1>1, <2>1, <2>2, <2>3, <2>4, <2>5, <2>6 DEF UsersNext
<1> QED
  BY <1>1, InitUsersInv, PTL DEF UsersSpec

\* A read that gives up has waited its timeout in true time, to within a
\* millisecond, a pass of its loop and a microsecond for every wrap, whatever
\* the clock missed before.
THEOREM ReadKeepsTrueTimeHolds == UsersSpec => ReadKeepsTrueTime
<1> DEFINE Left == read_check /\ ~TimeLeft(Millis(tp')) /\ timeout > 0
           Kept == /\ TrueUs - startUs > (timeout - 1) * MsUs
                   /\ TrueUs - startUs < timeout * MsUs + Pass + WrapsSince(startUs)
<1>1. ASSUME UsersInv, Left
      PROVE  Kept
  <2> DEFINE W == laps - startUs \div Word
             S == start_time * MsUs
             T == timeout * MsUs
  <2>1. clock_gettime /\ pc = "check" /\ read_check
    BY <1>1 DEF read_check
  <2>2. /\ Us(tp') = Us(tp) + (TrueUs - CalledAt) - (laps - atLaps)
        /\ startUs <= CalledAt /\ CalledAt <= TrueUs
        /\ atLaps <= laps /\ startUs \div Word <= atLaps
        /\ startUs \div Word \in Int
        /\ Us(tp) \in Nat /\ Us(tp') \in Nat /\ CalledAt \in Nat /\ TrueUs \in Nat
        /\ laps \in Nat /\ atLaps \in Nat
    BY <1>1, <2>1, CheckAdvances
  <2>3. /\ start_time \in Nat /\ timeout \in Int /\ startUs \in Nat
        /\ MsUs \in Nat /\ Pass \in Nat /\ timeout > 0
    BY <1>1, UsersAssumption DEF UsersInv, UsersTypeOK
  <2>4. /\ S \in Int /\ T \in Int
        /\ (start_time + timeout) * MsUs = S + T
        /\ (start_time + 1) * MsUs = S + MsUs
        /\ (timeout - 1) * MsUs = T - MsUs
    BY <2>3
  <2>5. /\ StartedAt = Us(tp') - (TrueUs - startUs) + W
        /\ StartedAt >= S /\ StartedAt < S + MsUs
    <3>1. StartedAt >= S /\ StartedAt < (start_time + 1) * MsUs
      BY <1>1, <2>1 DEF UsersInv, Started, Reading
    <3>2. StartedAt = Us(tp') - (TrueUs - startUs) + W
      BY <2>2, <2>3 DEF StartedAt
    <3> QED
      BY <2>4, <3>1, <3>2
  <2>6. W \in Nat
    BY <2>2
  <2>7. Us(tp') >= S + T
    <3>1. Millis(tp') >= start_time + timeout
      <4>1. Millis(tp') \in Nat
        BY <2>2, MillisBounds
      <4> QED
        BY <1>1, <2>3, <4>1 DEF TimeLeft
    <3>2. start_time + timeout \in Int
      BY <2>3
    <3>3. Us(tp') >= (start_time + timeout) * MsUs
      BY <2>2, <3>1, <3>2, MillisBounds
    <3> QED
      BY <2>4, <3>3
  <2> HIDE DEF W, S, T
  <2>8. TrueUs - startUs > T - MsUs
    BY <2>2, <2>3, <2>4, <2>5, <2>6, <2>7
  <2>9. TrueUs - startUs < T + Pass + W
    <3>1. CASE TrueUs = CalledAt /\ CalledAt = startUs
      <4>1. T > 0
        BY <2>3, UsersAssumption DEF T
      <4> QED
        BY <2>2, <2>3, <2>4, <2>6, <3>1, <4>1
    <3>2. CASE TrueUs - CalledAt \in 0..Pass /\ TimeLeft(Millis(tp))
      <4>1. Millis(tp) < start_time + timeout
        <5>1. Millis(tp) \in Nat
          BY <2>2, MillisBounds
        <5> QED
          BY <2>3, <3>2, <5>1 DEF TimeLeft
      <4>2. Us(tp) < (start_time + timeout) * MsUs
        BY <2>2, <2>3, <4>1, MillisBounds
      <4>3. TrueUs - CalledAt <= Pass
        BY <2>2, <2>3, <3>2
      <4> QED
        BY <2>2, <2>3, <2>4, <2>5, <2>6, <4>2, <4>3
    <3> QED
      BY <1>1, <2>1, <3>1, <3>2 DEF UsersInv, InPass
  <2> QED
    BY <2>4, <2>8, <2>9 DEF WrapsSince, W, T
<1>2. UsersInv /\ [UsersNext]_uvars => [Left => Kept]_uvars
  BY <1>1
<1> QED
  BY <1>2, UsersInvariant, PTL DEF UsersSpec, ReadKeepsTrueTime

\* EXECUTE_EVERY_N_MS never acts before its period is over, and, if every
\* period of micros() had a call, passes over the moment by no more than a
\* millisecond and a microsecond for every wrap.
THEOREM PeriodKeptHolds == UsersSpec => PeriodKept
<1> DEFINE Kept == IF pc' = "X" THEN TrueUs - initUs > MS * MsUs
                   ELSE polled' => TrueUs - initUs < (MS + 1) * MsUs + WrapsSince(initUs)
<1>1. ASSUME UsersInv, EXECUTE_EVERY_N_MS, init # -1
      PROVE  Kept
  <2> DEFINE I == init * MsUs
             P == MS * MsUs
  <2>1. clock_gettime /\ pc' = IF Due(Millis(tp')) THEN "X" ELSE "loop"
    BY <1>1 DEF EXECUTE_EVERY_N_MS
  <2>2. /\ Us(tp') \in Nat /\ TrueUs \in Nat /\ laps \in Nat
        /\ polled' => polled /\ Us(tp') = TrueUs - laps
    BY <1>1, <2>1, AfterCall DEF UsersInv
  <2>3. /\ init \in Nat /\ initUs \in Nat /\ MsUs \in Nat /\ MS \in Nat
        /\ Millis(tp') \in Nat
    BY <1>1, <2>2, UsersAssumption, MillisBounds DEF UsersInv, UsersTypeOK
  <2>4. /\ I \in Int /\ P \in Int
        /\ (init + 1) * MsUs = I + MsUs
        /\ (MS + 1) * MsUs = P + MsUs
        /\ (init + MS + 1) * MsUs = I + P + MsUs
    BY <2>3
  <2> HIDE DEF I, P
  <2>5. CASE Due(Millis(tp'))
    <3>1. Us(tp') >= (init + MS + 1) * MsUs
      <4>1. Millis(tp') >= init + MS + 1
        BY <2>3, <2>5 DEF Due
      <4> QED
        BY <2>2, <2>3, <4>1, MillisBounds
    <3>2. Us(tp') - TrueUs < (init + 1) * MsUs - initUs
      <4>1. Us(tp) - CalledAt < (init + 1) * MsUs - initUs
        BY <1>1 DEF UsersInv, NotEarly
      <4>2. Us(tp') - Us(tp) <= TrueUs - CalledAt
        BY <1>1, <2>1, CallAdvances DEF UsersInv
      <4>3. Us(tp) \in Nat /\ CalledAt \in Nat
        BY <1>1, ShownUs DEF UsersInv
      <4> QED
        BY <2>2, <2>3, <2>4, <4>1, <4>2, <4>3
    <3>3. TrueUs - initUs > P
      BY <2>2, <2>3, <2>4, <3>1, <3>2
    <3> QED
      BY <2>1, <2>5, <3>3 DEF P
  <2>6. CASE ~Due(Millis(tp'))
    <3> SUFFICES ASSUME polled'
                 PROVE  TrueUs - initUs < (MS + 1) * MsUs + WrapsSince(initUs)
      BY <2>1, <2>6
    <3>1. Us(tp') < (init + MS + 1) * MsUs
      <4>1. Millis(tp') < init + MS + 1
        BY <2>3, <2>6 DEF Due
      <4> QED
        BY <2>2, <2>3, <4>1, MillisBounds
    <3>2. initUs - initUs \div Word >= I
      BY <1>1, <2>2 DEF UsersInv, NotLate, I
    <3>3. initUs \div Word \in Int
      BY <2>3, DivMod, WordAssumption
    <3>4. TrueUs - initUs < P + MsUs + (laps - initUs \div Word)
      BY <2>2, <2>3, <2>4, <3>1, <3>2, <3>3
    <3> QED
      BY <2>4, <3>4 DEF WrapsSince
  <2> QED
    BY <2>5, <2>6
<1>2. UsersInv /\ [UsersNext]_uvars => [EXECUTE_EVERY_N_MS /\ init # -1 => Kept]_uvars
  BY <1>1
<1> QED
  BY <1>2, UsersInvariant, PTL DEF UsersSpec, PeriodKept

-----------------------------------------------------------------------------

\* A read has waited no longer than the timeout for each byte it has, and the
\* silence for the next one (Patience), by the timeout of this read and no
\* other; and one that is over with too few bytes was silent for all of it.
Patience ==
    /\ silence <= read_timeout
    /\ waited <= read_timeout * count + silence
    /\ port = "read" => limit = read_timeout
    /\ port # "read" /\ count < len => silence = read_timeout

SerialInv == SerialTypeOK /\ Patience

\* One more byte allows one more timeout.
LEMMA OneMoreByte ==
    ASSUME NEW t \in Nat, NEW n \in Nat
    PROVE  t * n \in Nat /\ t * (n + 1) = t * n + t
  OBVIOUS

\* The serial port starts with nothing read and nothing waited for.
LEMMA InitSerialInv ==
    ASSUME SerialInit
    PROVE  SerialInv
  BY SerialAssumption DEF SerialInit, SerialInv, SerialTypeOK, Patience

\* Nothing but a read changes what a read has waited for.
LEMMA PortSerialInv ==
    ASSUME SerialInv,
           \/ set_microros_transports \/ open \/ close
           \/ Arrives \/ \E n \in Lengths : write(n)
    PROVE  SerialInv'
<1>1. /\ (port # "read" /\ port' # "read") \/ port' = port
      /\ port' \in {"setup", "closed", "idle", "read"}
      /\ UNCHANGED <<limit, read_timeout, len, count, silence, waited>>
  BY DEF SerialInv, SerialTypeOK, set_microros_transports, open,
      close, Arrives, write
<1>2. avail' \in 0..BufferSize /\ sent' \in Nat
  BY SerialAssumption DEF SerialInv, SerialTypeOK, set_microros_transports,
      open, close, Arrives, write
<1>3. SerialTypeOK'
  BY <1>1, <1>2 DEF SerialInv, SerialTypeOK
<1>4. Patience'
  BY <1>1 DEF SerialInv, Patience
<1> QED
  BY <1>3, <1>4 DEF SerialInv

\* A read starts with the timeout it is given, whatever was set before.
LEMMA ReadBeginSerialInv ==
    ASSUME SerialInv,
           NEW t \in ReadTimeouts, NEW n \in Lengths, read_begin(t, n)
    PROVE  SerialInv'
<1>1. t \in Nat /\ n \in Nat /\ t * 0 = 0
  BY SerialAssumption
<1>2. SerialTypeOK'
  BY <1>1, SerialAssumption DEF SerialInv, SerialTypeOK, read_begin, Limit
<1>3. Patience'
  BY <1>1 DEF Patience, read_begin, Limit
<1> QED
  BY <1>2, <1>3 DEF SerialInv

\* A byte is taken: the silence before it is paid for by the timeout.
LEMMA ReadByteSerialInv ==
    ASSUME SerialInv, read_byte
    PROVE  SerialInv'
<1>1. /\ read_timeout \in Nat /\ count \in Nat /\ silence \in Nat /\ waited \in Nat
      /\ len \in Nat /\ count < len
  BY SerialAssumption DEF SerialInv, SerialTypeOK, read_byte, More
<1>2. SerialTypeOK'
  BY <1>1, SerialAssumption DEF SerialInv, SerialTypeOK, read_byte
<1>3. Patience'
  <2> DEFINE paid == read_timeout * count
             more == read_timeout * (count + 1)
  <2>1. paid \in Nat /\ more = paid + read_timeout
    BY <1>1, OneMoreByte
  <2>2. waited <= paid + silence /\ silence <= read_timeout
    BY DEF SerialInv, Patience
  <2>3. waited <= more
    <3> HIDE DEF paid, more
    <3> QED
      BY <1>1, <2>1, <2>2
  <2>4. /\ silence' = 0 /\ waited' = waited /\ count' = count + 1
        /\ read_timeout' = read_timeout /\ limit' = limit /\ port = "read" /\ port' = "read"
    BY DEF read_byte
  <2>5. waited' <= read_timeout' * count' + silence'
    <3>1. read_timeout' * count' = more
      BY <2>4
    <3> HIDE DEF paid, more
    <3> QED
      BY <1>1, <2>1, <2>3, <2>4, <3>1
  <2> QED
    BY <1>1, <2>4, <2>5 DEF SerialInv, Patience
<1> QED
  BY <1>2, <1>3 DEF SerialInv

\* A read waits only while its silence is below its own timeout.
LEMMA ReadWaitSerialInv ==
    ASSUME SerialInv, read_wait
    PROVE  SerialInv'
<1> DEFINE paid == read_timeout * count
<1>1. /\ read_timeout \in Nat /\ count \in Nat /\ silence \in Nat /\ waited \in Nat
      /\ paid \in Nat /\ paid' = paid
  BY OneMoreByte, SerialAssumption DEF SerialInv, SerialTypeOK, read_wait
<1>2. SerialTypeOK'
  BY <1>1 DEF SerialInv, SerialTypeOK, read_wait
<1>3. /\ waited <= paid + silence /\ silence < limit /\ limit = read_timeout
      /\ silence' = silence + 1 /\ waited' = waited + 1
      /\ UNCHANGED <<limit, read_timeout>> /\ port = "read" /\ port' = "read"
  BY DEF SerialInv, Patience, read_wait
<1>4. Patience'
  <2> HIDE DEF paid
  <2>1. waited' <= paid' + silence' /\ silence' <= read_timeout'
    BY <1>1, <1>3
  <2> QED
    BY <1>3, <2>1 DEF Patience, paid
<1> QED
  BY <1>2, <1>4 DEF SerialInv

\* A read returns with all its bytes, or after a silence of its timeout.
LEMMA ReadReturnSerialInv ==
    ASSUME SerialInv, read_return
    PROVE  SerialInv'
<1>1. SerialTypeOK'
  BY DEF SerialInv, SerialTypeOK, read_return
<1>2. /\ UNCHANGED <<limit, read_timeout, len, count, silence, waited>>
      /\ port' = "idle" /\ port = "read"
      /\ count = len \/ silence >= limit
  BY DEF read_return
<1>3. count < len => silence = read_timeout
  BY <1>2, SerialAssumption DEF SerialInv, SerialTypeOK, Patience
<1>4. Patience'
  BY <1>2, <1>3 DEF SerialInv, Patience
<1> QED
  BY <1>1, <1>4 DEF SerialInv

\* The invariant of the serial port holds in every reachable state.
THEOREM SerialInvariant == SerialSpec => []SerialInv
<1>1. ASSUME SerialInv, [SerialNext]_svars
      PROVE  SerialInv'
  <2>1. CASE \/ set_microros_transports \/ open \/ close
             \/ Arrives \/ \E n \in Lengths : write(n)
    BY <1>1, <2>1, PortSerialInv
  <2>2. CASE \E t \in ReadTimeouts, n \in Lengths : read_begin(t, n)
    BY <1>1, <2>2, ReadBeginSerialInv
  <2>3. CASE read_byte
    BY <1>1, <2>3, ReadByteSerialInv
  <2>4. CASE read_wait
    BY <1>1, <2>4, ReadWaitSerialInv
  <2>5. CASE read_return
    BY <1>1, <2>5, ReadReturnSerialInv
  <2>6. CASE UNCHANGED svars
    BY <1>1, <2>6 DEF svars, SerialInv, SerialTypeOK, Patience
  <2> QED
    BY <1>1, <2>1, <2>2, <2>3, <2>4, <2>5, <2>6 DEF SerialNext
<1> QED
  BY <1>1, InitSerialInv, PTL DEF SerialSpec

\* Every variable of the serial transport keeps its type; in particular no
\* read has more bytes than it was asked for.
THEOREM SerialTypeCorrect == SerialSpec => []SerialTypeOK
<1>1. SerialInv => SerialTypeOK
  BY DEF SerialInv
<1> QED
  BY <1>1, SerialInvariant, PTL

\* A read waits its own timeout for each byte and once more, and gives up only
\* after a silence of all of it, however long the reads before it waited.
THEOREM WaitsForSilenceHolds == SerialSpec => []WaitsForSilence
<1>1. SerialInv => WaitsForSilence
  <2> SUFFICES ASSUME SerialInv PROVE WaitsForSilence
    OBVIOUS
  <2> DEFINE paid == read_timeout * count
             more == read_timeout * (count + 1)
  <2>1. /\ read_timeout \in Nat /\ count \in Nat /\ silence \in Nat /\ waited \in Nat
        /\ paid \in Nat /\ more = paid + read_timeout
    BY OneMoreByte, SerialAssumption DEF SerialInv, SerialTypeOK
  <2>2. waited <= paid + silence /\ silence <= read_timeout
    BY DEF SerialInv, Patience
  <2>3. waited <= more
    <3> HIDE DEF paid, more
    <3> QED
      BY <2>1, <2>2
  <2>4. port = "idle" /\ count < len => silence = read_timeout
    BY DEF SerialInv, Patience
  <2> QED
    BY <2>3, <2>4 DEF WaitsForSilence
<1> QED
  BY <1>1, SerialInvariant, PTL
=============================================================================
