----------------------------- MODULE ClockUsers -----------------------------
(***************************************************************************)
(* The two pieces of code that measure time with uxr_millis(), which is     *)
(* clock_gettime in milliseconds: the wait of the Ethernet read and the     *)
(* macro EXECUTE_EVERY_N_MS of the reconnection sketch, in one program.     *)
(* Every use is a whole call of clock_gettime, so that each also notices    *)
(* the wraps for the other.  Outside the read, any time may pass between    *)
(* two uses, more than a period of micros() included.                       *)
(***************************************************************************)
EXTENDS ArduinoClock

CONSTANTS
    MsUs,       \* microseconds in a millisecond: 1000 in the code
    MS,         \* the period of the macro, in milliseconds
    Timeouts,   \* the timeouts a read is called with, in milliseconds
    Pass        \* the longest pass of the read's loop: parsePacket() and delay(1)

ASSUME UsersAssumption ==
    /\ MsUs \in Nat \ {0} /\ MS \in Nat /\ Timeouts \subseteq Int
    /\ Pass \in MsUs..(Word - 1)

VARIABLES
    pc,             \* what the program does next
    caller,         \* where the read returns to
    start_time,     \* of the read
    timeout,        \* of the read
    init,           \* static int64_t init of the macro
    startUs,        \* the true time when start_time was read (ghost)
    initUs          \* the true time when init was read (ghost)

read == <<caller, start_time, timeout, startUs>>
uvars == <<vars, pc, read, init, initUs>>

\* What uxr_millis() returns for a reading of the clock.
Millis(t) == Us(t) \div MsUs

UsersInit ==
    /\ Init
    /\ pc = "loop" /\ caller = "loop"
    /\ start_time = 0 /\ timeout = 0 /\ startUs = 0
    /\ init = -1 /\ initUs = 0

\* if (uxr_millis() - init > MS)
Due(now) == now - init > MS

\* The macro up to X.  Setting init for the first time and comparing are two
\* calls at the same time: the second finds nothing to do.
EXECUTE_EVERY_N_MS ==
    /\ pc = "loop"
    /\ clock_gettime
    /\ IF init = -1
       THEN pc' = pc /\ init' = Millis(tp') /\ initUs' = TrueUs
       ELSE /\ pc' = IF Due(Millis(tp')) THEN "X" ELSE "loop"
            /\ UNCHANGED <<init, initUs>>
    /\ UNCHANGED read

\* init = uxr_millis() when X, which takes its time, is over.
Executed ==
    /\ pc = "X"
    /\ clock_gettime
    /\ init' = Millis(tp') /\ initUs' = TrueUs
    /\ pc' = "loop"
    /\ UNCHANGED read

\* Bound: a read starts only if the time that is modelled lasts to its end.
Room(t) == TrueUs + t * MsUs + Pass + MaxLaps < (MaxLaps + 1) * Word

\* int64_t start_time = uxr_millis()
read_start(t) ==
    /\ pc \in {"loop", "X"} /\ Room(t)
    /\ clock_gettime
    /\ caller' = pc /\ pc' = "check"
    /\ start_time' = Millis(tp') /\ timeout' = t /\ startUs' = TrueUs
    /\ UNCHANGED <<init, initUs>>

\* (uxr_millis() - start_time) < ((int64_t)timeout)
TimeLeft(now) == now - start_time < timeout

\* Its variables end with the read.
Return ==
    /\ pc' = caller /\ caller' = "loop"
    /\ start_time' = 0 /\ timeout' = 0 /\ startUs' = 0

\* The condition of the loop; while there is time left, a datagram may end it.
read_check ==
    /\ pc = "check"
    /\ clock_gettime
    /\ \/ TimeLeft(Millis(tp')) /\ pc' = "delay" /\ UNCHANGED read
       \/ Return
    /\ UNCHANGED <<init, initUs>>

\* parsePacket() and delay(1) of a pass of the read's loop.
read_delay ==
    /\ pc = "delay" /\ pc' = "check"
    /\ \E d \in MsUs..Pass : Tick(d)
    /\ UNCHANGED <<read, init, initUs>>

\* The rest of the program runs for any time.
Elsewhere ==
    /\ pc \in {"loop", "X"}
    /\ \E d \in 1..Word : Tick(d)
    /\ UNCHANGED <<pc, read, init, initUs>>

UsersNext ==
    \/ EXECUTE_EVERY_N_MS \/ Executed
    \/ (\E t \in Timeouts : read_start(t)) \/ read_check \/ read_delay
    \/ Elsewhere

UsersSpec == UsersInit /\ [][UsersNext]_uvars

-----------------------------------------------------------------------------

\* How often micros() wrapped since a time.
WrapsSince(us) == laps - us \div Word

\* A read of the Ethernet transport that gives up has waited its timeout, in
\* time that really passed, to within a millisecond: whatever wraps the clock
\* missed before the read, none is missed during it, and each costs the read
\* at most a microsecond of patience.
ReadKeepsTrueTime ==
    [][read_check /\ ~TimeLeft(Millis(tp')) /\ timeout > 0 =>
         /\ TrueUs - startUs > (timeout - 1) * MsUs
         /\ TrueUs - startUs < timeout * MsUs + Pass + WrapsSince(startUs)]_uvars

\* EXECUTE_EVERY_N_MS never acts before its period is over in real time,
\* however many wraps the clock missed; and if the clock was called in every
\* period of micros(), it does not pass over the moment by more than a
\* millisecond and a microsecond for every wrap.
PeriodKept ==
    [][EXECUTE_EVERY_N_MS /\ init # -1 =>
         IF pc' = "X" THEN TrueUs - initUs > MS * MsUs
         ELSE polled' => TrueUs - initUs < (MS + 1) * MsUs + WrapsSince(initUs)]_uvars
=============================================================================
