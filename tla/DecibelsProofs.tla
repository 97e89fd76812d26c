-------------------------- MODULE DecibelsProofs --------------------------
(***************************************************************************)
(* The invariants of Decibels for interrupts of any size, any number of     *)
(* them, anywhere between the accesses of loop().                           *)
(***************************************************************************)
EXTENDS Decibels, TLAPS

\* As the code has it, the sum covers no more samples than the count, but
\* between the two clears.
Covered ==
    /\ "divide" \in done => "read_rms" \in done
    /\ "clear_count" \in done => "divide" \in done
    /\ "clear_rms" \in done => "clear_count" \in done
    /\ rms <= samplesRead \/ ("clear_count" \in done /\ "clear_rms" \notin done)
    /\ "read_rms" \in done /\ "divide" \notin done => local_rms <= samplesRead
    /\ "divide" \in done => local_rms <= divisor
    /\ level.sum <= level.over

\* The samples a level has or will have are apart from those of the next.
Apart ==
    /\ "clear_rms" \in done => "read_rms" \in done
    /\ "read_rms" \notin done => used + rms <= arrived
    /\ "read_rms" \in done => used + local_rms <= arrived
    /\ "clear_rms" \in done => used + local_rms + rms <= arrived
    /\ used <= arrived
    /\ samplesRead <= arrived /\ rms <= arrived

Inv == TypeOK /\ (inOrder => Covered) /\ Apart

\* The sketch starts in the inductive invariant.
LEMMA InitInv == Init => Inv
BY SamplesAssumption DEF Init, Inv, TypeOK, Covered, Apart

\* Every statement of loop() preserves the inductive invariant.
LEMMA LoopInv == Inv /\ loop => Inv'
<1> SUFFICES ASSUME Inv, loop PROVE Inv'
  OBVIOUS
<1> USE SamplesAssumption DEF Inv, TypeOK, Covered, Apart, Accesses, Written, Needed
<1>1. CASE ReadRms
  BY <1>1 DEF ReadRms, Access
<1>2. CASE Divide
  BY <1>2 DEF Divide, Access
<1>3. CASE ClearCount
  BY <1>3 DEF ClearCount, Access, Cleared
<1>4. CASE ClearRms
  BY <1>4 DEF ClearRms, Access, Cleared
<1>5. CASE Publish
  BY <1>5 DEF Publish
<1>6. QED
  BY <1>1, <1>2, <1>3, <1>4, <1>5 DEF loop

\* The microphone's callback preserves it, wherever it interrupts loop().
LEMMA InterruptInv ==
  ASSUME Inv, NEW n \in BlockSizes, onPDMdata(n)
  PROVE  Inv'
<1>1. n \in Nat
  BY SamplesAssumption
<1>2. /\ samplesRead' = samplesRead + n /\ rms' = rms + n
      /\ arrived' = arrived + n /\ arrived + n <= MaxSamples
      /\ UNCHANGED <<inOrder, done, local_rms, divisor, level, used>>
  BY DEF onPDMdata, Samples
<1>3. TypeOK'
  BY <1>1, <1>2, SamplesAssumption DEF Inv, TypeOK, Apart
<1>4. (inOrder => Covered)'
  BY <1>1, <1>2, SamplesAssumption DEF Inv, TypeOK, Covered
<1>5. Apart'
  BY <1>1, <1>2, SamplesAssumption DEF Inv, TypeOK, Apart
<1>6. QED
  BY <1>3, <1>4, <1>5 DEF Inv

\* The inductive invariant of loop() and onPDMdata().
THEOREM Invariant == Spec => []Inv
<1>1. Init => Inv
  BY InitInv
<1>2. Inv /\ [Next]_vars => Inv'
  <2> SUFFICES ASSUME Inv, [Next]_vars PROVE Inv'
    OBVIOUS
  <2>1. CASE loop
    BY <2>1, LoopInv
  <2>2. ASSUME NEW n \in BlockSizes, onPDMdata(n) PROVE Inv'
    BY <2>2, InterruptInv
  <2>3. CASE UNCHANGED vars
    BY <2>3 DEF Inv, TypeOK, Covered, Apart, vars
  <2>4. QED
    BY <2>1, <2>2, <2>3 DEF Next
<1>3. QED
  BY <1>1, <1>2, PTL DEF Spec

\* Every global of the sketch keeps its type.
THEOREM TypeCorrect == Spec => []TypeOK
<1>1. Inv => TypeOK
  BY DEF Inv
<1>2. QED
  BY <1>1, Invariant, PTL

\* If the build keeps the order of the accesses, no interrupt makes loop()
\* publish a level that is too high.
THEOREM LevelNotOverstatedHolds == Spec => []LevelNotOverstated
<1>1. Inv => LevelNotOverstated
  BY DEF Inv, Covered, LevelNotOverstated
<1>2. QED
  BY <1>1, Invariant, PTL

\* The levels use no more samples than arrived, in any order of the accesses.
THEOREM SampleUsedOnceHolds == Spec => []SampleUsedOnce
<1>1. Inv => SampleUsedOnce
  BY DEF Inv, Apart, SampleUsedOnce
<1>2. QED
  BY <1>1, Invariant, PTL
=============================================================================
