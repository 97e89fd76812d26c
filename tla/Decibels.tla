----------------------------- MODULE Decibels -----------------------------
(***************************************************************************)
(* loop() and the interrupt handler onPDMdata() of the sound level sketch,  *)
(* examples/micro-ros_decibels.  loop() reads and clears two globals that   *)
(* the handler adds to, with interrupts enabled: the handler can run        *)
(* between any two of its accesses, and runs to its end.                    *)
(*                                                                         *)
(* rms, a sum of squares, is the number of samples whose squares are in it. *)
(* A double takes two accesses on this board; the handler between the two   *)
(* leaves a sum with or without its samples (but for its last bits), as if  *)
(* it ran just before or after.                                             *)
(*                                                                         *)
(* The handler and loop() race for the two globals, and only samplesRead is *)
(* volatile: a compiler may move the accesses to rms, as long as each global *)
(* is read before it is cleared.  Both kinds of build are modelled.         *)
(***************************************************************************)
EXTENDS Naturals

CONSTANTS
    BlockSizes,     \* localsamplesRead: the samples of one interrupt
    MaxSamples      \* bound: all the samples that arrive

ASSUME SamplesAssumption == BlockSizes \subseteq Nat /\ MaxSamples \in Nat

\* The accesses of a pass, and for each the ones that come before it in the
\* code, and in a build that moves them.
Accesses == {"read_rms", "divide", "clear_count", "clear_rms"}
Written == [read_rms |-> {}, divide |-> {"read_rms"},
            clear_count |-> {"read_rms", "divide"},
            clear_rms |-> {"read_rms", "divide", "clear_count"}]
Needed == [read_rms |-> {}, divide |-> {},
           clear_count |-> {"divide"}, clear_rms |-> {"read_rms"}]

VARIABLES
    inOrder,        \* the build keeps the accesses in the order of the code
    done,           \* the accesses of this pass that loop() has made
    samplesRead, rms,
    local_rms,
    divisor,        \* the samplesRead that local_rms is divided by
    level,          \* the published level: its sum and its divisor
    used,           \* the samples in all published levels (ghost)
    arrived         \* the samples the handler was given (ghost)

vars == <<inOrder, done, samplesRead, rms, local_rms, divisor, level, used, arrived>>

Init ==
    /\ inOrder \in BOOLEAN
    /\ done = {} /\ samplesRead = 0 /\ rms = 0
    /\ local_rms = 0 /\ divisor = 0
    /\ level = [sum |-> 0, over |-> 0]
    /\ used = 0 /\ arrived = 0

\* loop() comes to access a.
Access(a) ==
    /\ a \notin done
    /\ (IF inOrder THEN Written[a] ELSE Needed[a]) \subseteq done
    /\ done' = done \cup {a}
    /\ UNCHANGED <<inOrder, level, used, arrived>>

\* double local_rms = rms;
ReadRms ==
    /\ Access("read_rms")
    /\ local_rms' = rms
    /\ UNCHANGED <<samplesRead, rms, divisor>>

\* local_rms /= samplesRead: with no samples it is 0/0, and is published.
Divide ==
    /\ Access("divide")
    /\ divisor' = samplesRead
    /\ UNCHANGED <<samplesRead, rms, local_rms>>

\* Mutated: the two are cleared in the other order; neither is.
Cleared_swapped(turn) == IF turn = 1 THEN rms' = 0 /\ UNCHANGED samplesRead
                                     ELSE samplesRead' = 0 /\ UNCHANGED rms
Cleared_not(turn) == UNCHANGED <<samplesRead, rms>>

\* samplesRead = 0; then rms = 0;
Cleared(turn) == IF turn = 1 THEN samplesRead' = 0 /\ UNCHANGED rms
                             ELSE rms' = 0 /\ UNCHANGED samplesRead

ClearCount ==
    /\ Access("clear_count")
    /\ Cleared(1)
    /\ UNCHANGED <<local_rms, divisor>>

ClearRms ==
    /\ Access("clear_rms")
    /\ Cleared(2)
    /\ UNCHANGED <<local_rms, divisor>>

\* The level is published, and loop() waits 100 ms.
Publish ==
    /\ done = Accesses
    /\ done' = {}
    /\ level' = [sum |-> local_rms, over |-> divisor]
    /\ used' = used + local_rms
    /\ UNCHANGED <<inOrder, samplesRead, rms, local_rms, divisor, arrived>>

\* Mutated: bytes are counted for samples.
Samples_bytes(n) == 2 * n

\* localsamplesRead, for n samples in bytesAvailable.
Samples(n) == n

onPDMdata(n) ==
    /\ arrived + n <= MaxSamples
    /\ samplesRead' = samplesRead + Samples(n)
    /\ rms' = rms + n
    /\ arrived' = arrived + n
    /\ UNCHANGED <<inOrder, done, local_rms, divisor, level, used>>

loop == ReadRms \/ Divide \/ ClearCount \/ ClearRms \/ Publish

Next == loop \/ \E n \in BlockSizes : onPDMdata(n)

Spec == Init /\ [][Next]_vars

-----------------------------------------------------------------------------

\* Types: the sum and the counter stay within the samples the microphone has
\* delivered, and a block is counted in samples, not in bytes.
TypeOK ==
    /\ inOrder \in BOOLEAN /\ done \subseteq Accesses
    /\ samplesRead \in 0..MaxSamples /\ rms \in 0..MaxSamples
    /\ local_rms \in 0..MaxSamples /\ divisor \in 0..MaxSamples
    /\ level \in [sum : 0..MaxSamples, over : 0..MaxSamples]
    /\ used \in Nat /\ arrived \in 0..MaxSamples

\* In a build that keeps the accesses in the order of the code, a published
\* level is never the mean over fewer samples than were summed: an interrupt
\* between the accesses of loop() can make it too low, never too high, and
\* never infinite.  The order of the reads and that of the clears both matter.
LevelNotOverstated == inOrder => level.sum <= level.over

\* Samples are not told apart but counted: all the levels published rest on no
\* more samples than have arrived, in whichever order the compiler puts the
\* accesses.  A sample in two levels shows where none has been lost.
SampleUsedOnce == used <= arrived
=============================================================================
