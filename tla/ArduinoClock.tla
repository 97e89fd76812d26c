---------------------------- MODULE ArduinoClock ----------------------------
(***************************************************************************)
(* clock_gettime of src/default_transport.cpp: the only clock the micro-ROS *)
(* stack has on a board without an operating system.  It widens the 32-bit  *)
(* micros() register to a 64-bit time by counting the wraps it notices, and *)
(* it can only notice one wrap between two calls.                           *)
(*                                                                         *)
(* The hardware register is micros; laps is how often it really wrapped.    *)
(* The pair is the true time since boot, and no code reads laps.            *)
(***************************************************************************)
EXTENDS Integers

CONSTANTS
    Word,       \* the number of values of the register: 2^32 on a board
    SecUs,      \* microseconds in a second: 1000000 in the code
    MaxLaps     \* bound: how often the register wraps in a behaviour

ASSUME WordAssumption == Word \in Nat /\ Word > 1
ASSUME SecUsAssumption == SecUs \in Nat /\ SecUs > 0
\* The 32-bit rollover counter itself never wraps: that takes 584,000 years.
ASSUME MaxLapsAssumption == MaxLaps \in Nat /\ MaxLaps < Word

VARIABLES
    micros,         \* the hardware register
    laps,           \* how often it wrapped since boot (ghost)
    rollover,       \* static uint32_t rollover
    last_measure,   \* static uint32_t last_measure
    tp,             \* the timespec of the latest call
    atLaps,         \* laps at the latest call (ghost)
    polled          \* every wrap so far had a call before the next (ghost)

vars == <<micros, laps, rollover, last_measure, tp, atLaps, polled>>

\* Mutated: a wrap that adds one microsecond less, or one more.
micro_rollover_useconds_short == Word - 2
micro_rollover_useconds_whole == Word

\* The value the code adds for every wrap it notices; a wrap lasts Word.
micro_rollover_useconds == Word - 1

\* Mutated: the register is taken as it is.
Wrapped_never(m) == FALSE

\* Mutated: equal readings count as a wrap.
Wrapped_or_same(m) == m <= last_measure

\* A wrap is noticed when the register is below its previous reading.
Wrapped(m) == m < last_measure

\* Mutated: the nanoseconds are not reduced modulo the second.
Timespec_raw(us) == [tv_sec |-> us \div SecUs, tv_nsec |-> us * 1000]

\* The conversion of real_us into seconds and nanoseconds.
Timespec(us) == [tv_sec |-> us \div SecUs, tv_nsec |-> (us % SecUs) * 1000]

\* The time a timespec stands for, and the order on timespecs.
Us(t) == t.tv_sec * SecUs + t.tv_nsec \div 1000
Before(s, t) == \/ s.tv_sec < t.tv_sec
                \/ s.tv_sec = t.tv_sec /\ s.tv_nsec <= t.tv_nsec

TrueUs == laps * Word + micros
CalledAt == atLaps * Word + last_measure

Init ==
    /\ micros = 0 /\ laps = 0
    /\ rollover = 0 /\ last_measure = 0
    /\ tp = Timespec(0)
    /\ atLaps = 0
    /\ polled = TRUE

\* d microseconds pass.  Any number of them pass between two calls.
Tick(d) ==
    /\ IF micros + d < Word
       THEN micros' = micros + d /\ laps' = laps
       ELSE /\ laps < MaxLaps
            /\ micros' = micros + d - Word /\ laps' = laps + 1
    /\ UNCHANGED <<rollover, last_measure, tp, atLaps, polled>>

\* The whole of clock_gettime.  The macro is a long long literal, so the
\* product and the sum are 64-bit and do not wrap; rollover is 32-bit.
clock_gettime ==
    LET m == micros
        r == (rollover + (IF Wrapped(m) THEN 1 ELSE 0)) % Word
    IN  /\ rollover' = r
        /\ tp' = Timespec(m + r * micro_rollover_useconds)
        /\ last_measure' = m
        /\ atLaps' = laps
        /\ polled' = (polled /\ TrueUs - CalledAt < Word)
        /\ UNCHANGED <<micros, laps>>

Next == clock_gettime \/ \E d \in 1..Word : Tick(d)

Spec == Init /\ [][Next]_vars

-----------------------------------------------------------------------------

\* The registers keep their width and tv_nsec is a fraction of a second.
TypeOK ==
    /\ micros \in 0..(Word - 1)
    /\ laps \in 0..MaxLaps
    /\ rollover \in 0..(Word - 1)
    /\ last_measure \in 0..(Word - 1)
    /\ tp \in [tv_sec : Nat, tv_nsec : 0..(1000 * SecUs - 1)]
    /\ atLaps \in 0..MaxLaps
    /\ polled \in BOOLEAN

\* clock_gettime never goes back, however long the program leaves between
\* two calls and however many wraps of micros() it misses.  Every timeout of
\* the stack is a difference of two such readings.
ClockNeverGoesBack == [][Before(tp, tp')]_vars

\* clock_gettime is never ahead of the time since boot: no wrap is counted
\* that did not happen.
ClockNeverAhead == Us(tp) <= CalledAt

\* As long as the program calls clock_gettime in every period of micros(),
\* the reading is behind by exactly one microsecond for every wrap, the
\* price of a macro that is one short of the period.
ClockLagWhilePolled == polled => CalledAt - Us(tp) = rollover
=============================================================================
