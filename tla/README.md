# A TLA+ model of micro_ros_arduino

micro_ros_arduino packs the micro-ROS client library for Arduino boards: a
precompiled `libmicroros.a` for each platform with its headers, a few hundred
lines of C++ that give the library a clock and its transports on a board, the
example sketches that users start from, and the script that generates all of it.
This directory models the repository's own code. The headers and libraries of
other projects are not modelled; what the code relies on of them is in
definitions marked external in `PROJECT.json`.

- [The system](#the-system)
- [Modules](#modules)
- [Runs](#runs)
- [Bounds, fairness, assumptions](#bounds-fairness-assumptions)
- [Proofs](#proofs)
- [Where code and text disagree](#where-code-and-text-disagree)
- [Not modelled](#not-modelled)
- [Plan](#plan)

## The system

A sketch is one thread: `setup()` once, then `loop()` for ever, with interrupt
handlers between any two of its accesses. The client library runs inside the
calls that the sketch makes; it calls the transport's functions and
`clock_gettime` and is itself single-threaded. At the other end of the transport
is the agent, a process on another machine that comes and goes.

| Component | State | Operations | What is hard | What makes it correct |
|---|---|---|---|---|
| Clock, `src/default_transport.cpp` | the wraps counted, the last reading | `clock_gettime` | a 32-bit register that wraps, unseen if nobody looks | never back, never ahead, late by a known amount |
| Serial transport, same file | the timeout of `Serial` | open, close, write, read | bytes that trickle in, a timeout that outlives its read | a short read means silence for its own timeout |
| WiFi transport, `src/wifi_transport.cpp` | the socket | open, close, write, read, registration | timeouts against arrivals, the wrap of `millis()`, results not looked at | reads behave as a queue and keep time |
| Ethernet transport, `src/native_ethernet_transport.cpp` | the socket | the same | the same, other checks, signed timeouts | the same, and opened means bound |
| Reconnection sketch | the four states, the entities, two periods | `loop()`, `create_entities`, `destroy_entities`, `timer_callback` | the agent goes or returns at any moment of any call, each step can fail | outages are noticed in time, nothing is leaked or used half made, the sketch recovers |
| Sound level sketch | a sum and a count that an interrupt adds to | `loop()`, `onPDMdata` | the interrupt between any two accesses, compilers that move them | no sample counts twice, no level is too high |
| Activity sketch | a flag that an interrupt sets | `setup()`, `loop()`, `INT1Event_cb` | one flag and one line for two sources of events; a sensor that runs before the handler is attached, and that a reset of the board leaves as it is | no edge is forgotten, the latest activity is shown, the board never goes deaf |
| Activity recognition program, `lsm6dsox_activity_recognition_for_mobile.h` | the sensor's registers and its memory | 2224 writes in order | banks of registers that share addresses, memory that is open at times only, a start from any state | the program is stored whole, and the sensor reports both kinds of events in the end |
| Time synchronisation sketch | the agent's time | `setup()`, `loop()` | 64-bit milliseconds truncated to 32 | the date printed is close to the agent's |
| Sketches that do not reconnect | the entities made, the value published | `setup()`, `loop()`, callbacks | fixed pools, failures in the middle, outages | run on all entities or not at all, start on every board, are heard again |
| Transform sketch | as the others | `setup()` | a call on the address of a pointer, undefined in C | nothing, once that call succeeds |
| Library generation, `extras/library_generation/library_generation.sh` | `firmware/build`, `src/`, two lists | the script, run after run | no `set -e`, kills, one platform that reuses another's build, headers removed whether or not they were moved | `src/` never mixes runs or platforms, and what was built is there in the end |

The components meet at these points. The transports are registered by the
functions of `src/micro_ros_arduino.h`, which wait for the network without end.
The client library's timeouts, `uxr_millis()` in the Ethernet read and in the
reconnection sketch, are differences of `clock_gettime`, and each use also
notices wraps for the others. The activity sketch and its sensor meet in the
registers that the program sets and in the interrupt line. The sketches' calls go
through a transport to the agent. The pools a sketch takes its entities from are
fixed by the `.meta` file its board's library was generated with.

`PROJECT.json` lists the hazards, each at its line, with the properties that
would show it going wrong.

## Modules

Names of variables, functions and states are those of the source. Variables
marked *(ghost)* in a module are not in the code: they record what a property
needs to speak about. Operators introduced by "Mutated:" are plausible wrong
versions of the definition after them. No specification uses them; they are
there to show that a property notices.

**ArduinoClock** models `clock_gettime`. `micros` and `laps` are the true time;
`Tick(d)` lets any time of up to a period pass, and any number of ticks come
between two calls. `rollover` has the register's width. The product and the sum
are 64 bits wide in the code (the macro is a `long long` literal) and do not wrap.
**ClockUsers** extends it with the two pieces of code that measure time with it,
in one program: the loop of the Ethernet read (`read_start`, `read_check`,
`read_delay`) and `EXECUTE_EVERY_N_MS`, whose statement X may hold a read. Each
use is a whole `clock_gettime`; `Elsewhere` lets any time pass outside the read,
periods of `micros()` included.

**UdpPort** is what both packet transports use of the boards' UDP classes:
binding that may fail, a bounded queue of datagrams that drops what finds no
room, and a `flush` that may or may not drop what is left of the current
datagram, since the libraries differ. **WifiTransport** and
**EthernetTransport** are the two files, with one action per function, except
for `read`, whose loop is one action per statement (`read_start`, `read_check`,
`read_delay`, `read_take`): datagrams arrive in between. WiFi uses `millis()`
with its width; Ethernet uses a 64-bit clock, whose difference is `waited`
itself. A datagram is a model value and a write has length 1: lengths do not
matter to what is stated. **DatagramQueue** is the abstract specification of the
receiving half: whole datagrams, in order, once, lost only by closing. The
refinement maps its queue to the datagrams parsed or waiting.

**SerialTransport** counts bytes. `readBytes` of the Arduino core is three
external actions: take a byte and start waiting anew, wait, return.

**Reconnection** is the state machine of the reconnection sketch in discrete
time. A call into the library starts (`Call`), takes up to its time and returns;
the agent can go or come back at every moment of it. `pc` and `step` say where
`loop()`, `create_entities` and `destroy_entities` are, `live` which globals are
initialised, `destroyNow` what `rmw_uros_set_context_entity_destroy_session_timeout`
set. `ageW` and `ageC` are the two static `init` variables of
`EXECUTE_EVERY_N_MS`, as the time since they were set. **EntityLifecycle** is
the discipline the rcl and rclc libraries expect: build from nothing, owners
first, run only on a complete set, free owners last, and start again only with
everything given back.

**Decibels** makes every access of `loop()` to the two shared globals an action
and `onPDMdata` another that can come in between. The accesses race and only
`samplesRead` is volatile, so there are two kinds of builds: one that keeps the
order of the code, and one that makes the accesses in any order that reads each
global before it is cleared.

**ImuEvents** makes every register access of the activity sketch's `loop()` an
action. The sensor raises its line when the first of the two statuses begins and
lowers it when both have ended, and `INT1Event_cb` runs on the rising edge, if
`attachInterrupt` came before. `Restart` resets the board and leaves the sensor.
**SensorProgram** is the table that programs the sensor, by segments: all 2224
writes in their order, with the 733 bytes of the decision trees as zeros.
**ActivitySketch** composes the two: `setup()` runs the table on a model of the
sensor's two banks of registers (`Begin`, `Program`, `Enable_Pedometer`,
`Attach`), and whether the sensor reports an event, or keeps a status, is read
from the registers (`Reports`, `Latched`). `Reset` may come between any two
writes.

**Sketches** holds the `setup()` of twelve sketches as the list of calls they
make and runs each with the libraries of the boards that the CI builds it for. A
call can fail when the agent is away, when the session is gone, when a pool is
used up, or, in the behaviours where `faults` is true, for any other reason. In
`error_loop()` a sketch blinks its LED if it has one; the sound level sketch
without a microphone is `halted` instead, in the `while (1)` of its own
(decibels.ino:76). `msg.data` wraps like the int32 it is, its values read as
unsigned; `lost` counts the publications lost since the last one that was
received. Of the transform sketch
there is `setup()` up to the call that C does not define, after which the state
is `undefined`. `Syncs` is the loop of the time synchronisation sketch with its
conversion of the time into seconds and milliseconds; the calendar is left out.

**LibraryGeneration** is the script: cleaning, one block per platform in the
order of the file, fixing the include paths, writing the lists. It starts from
the repository as it is checked out: no library for the ESP32, and for Teensy 3.6
that of Teensy 3.5. A build makes nothing, the headers, or all, and of what is
there the copies take some or all; a link, the list of the packages, the
installation of rsync, an rsync and the lists at the end can fail too. Only
removals do not: the script runs as root. `headers` says for each package what
lies in `src/<package>/<package>/`, where a build puts it, and in
`src/<package>/`, where the loop of "Fix include paths" moves it; `Rsync` and
`Rm` are the two commands of that loop. Options, cleaning, each block, each of
these commands and the lists are steps, and the script can be killed between
any two and run again, with or without `-p`.

The modules named **MC...** give the sets of values that a `.cfg` cannot write.
The modules named **...Proofs** hold the theorems.

## Runs

| Run | Module, configuration | Checks | Result |
|---|---|---|---|
| `clock` | ClockUsers, MCClockUsers.cfg | `TypeOK`, `ClockNeverAhead`, `ClockLagWhilePolled`, `ClockNeverGoesBack`, `ReadKeepsTrueTime`, `PeriodKept` | However rarely it is called, the clock neither goes back nor gets ahead. Called in every period, it loses exactly one microsecond per wrap. A read that gives up waited its timeout in true time, whatever the clock missed before; the macro never acts early, and is late by a millisecond and a microsecond per wrap at most as long as no wrap was missed. |
| `wifi` | WifiTransport, MCWifiTransport.cfg | `ReadKeepsTime`, `PendingIsRead`, `ReadsImplementQueue` | A read waits its timeout and less than one delay more wherever `millis()` wraps. What is pending is read. Nothing is lost, repeated or reordered, `flush` included: between calls no datagram is half read. |
| `ethernet` | MCEthernetTransport, MCEthernetTransport.cfg | the same and `OpenedIsBound` | The same with negative timeouts, where it does not look for a datagram at all. |
| `serial` | MCSerialTransport, MCSerialTransport.cfg | `WaitsForSilence` | A short read has heard nothing for its own timeout, and the wait is at most a timeout per byte and one more. |
| `reconnection` | Reconnection, MCReconnection.cfg | `OutageDetected`, `StaleOnlyAfterShortOutage`, `ConnectedIsComplete`, `ImplementsLifecycle` | With faults everywhere. The bounds are exact: one less is violated. |
| `reconnection_live` | Reconnection, MCReconnectionLive.cfg | `RecoveredInTime`, `AgentHeardAgain`, `GivesEverythingBack` | Without lost answers, the sketch is connected within `ReconnectBound` of the agent's return; the zero destruction timeout is needed for it. If outages last long enough to be noticed, the sketch recovers from all of them. With shorter ones it need not: see `StaleOnlyAfterShortOutage`. |
| `wifi_open` | WifiTransport, MCWifiOpen.cfg | `OpenedIsBound` | Violated: see [below](#where-code-and-text-disagree). |
| `library_documented` | MCLibraryGeneration, MCLibraryDocumented.cfg | `LibraryAsDocumented` | Violated: see [below](#where-code-and-text-disagree). |
| `decibels` | Decibels, MCDecibels.cfg | `LevelNotOverstated`, `SampleUsedOnce` | Samples can be lost between the accesses; the levels use no more of them than arrived (samples are counted, not told apart). The level is never too high if the build keeps the order of the accesses. |
| `imu_events` | ActivitySketch, MCActivitySketch.cfg | `TypeOK`, `EdgeIsServed`, `LatestActivityShown`, `SensorIsSet`, `NotDeaf` | Clearing the flag first makes the order right: an interrupt in the middle of a pass causes another pass. The program is stored whole and the sensor reports in the end, from wherever a reset left it. An edge that came before the handler is lost, but not for good, since the program does not latch the statuses. |
| `library` | MCLibraryGeneration, MCLibraryGeneration.cfg | `LibraryIsGenuine`, `AskedIsBuilt` | Failed steps and kills leave gaps, never libraries or headers of another run or platform. A run whose builds succeed has its libraries; it has its headers too only if the loop that moves them did not fail (see [below](#where-code-and-text-disagree)). |
| `sketches` | Sketches, MCSketches.cfg | `RunningIsComplete`, `PrintedWithinASecond`, `GapsAreLosses`, `ReachesLoop`, `HeardAgain`, `ErrorLoopIsShown` | No failure in `setup()` is passed over; a sketch that has a LED and is in `error_loop()` shows it, and the only one that gives up elsewhere, the sound level sketch without a microphone, does not; the gap between two values received is what was lost between them, also across the wrap; the truncation of the time does not reach the seconds. Without faults, all sketches fit the pools of their boards and start; `HeardAgain` holds only if the agent keeps the session, since these sketches do not reconnect. |

The runs `wifi`, `reconnection` and `decibels` also check the `TypeOK` of their
module, and `serial` its `SerialTypeOK`.

## Bounds, fairness, assumptions

**Bounds.** A word of 8 or 7 values stands for 2^32, a second of 3 or 5 units for
1000 or 1000000; what matters is kept: neither is a multiple of the other, and
all values are far smaller than they are. A millisecond of 2 units stands for 1000. The clock wraps six times, so that
several wraps fall between two calls. A read of ClockUsers starts only if the
modelled time lasts to its end (`Room`). The sensor's program runs whole. One
code with a case of its own and one without, and two steps, give each branch of
the activity sketch's loop and an event of each source during another. Two datagrams and a queue of two make
overtaking and overflow possible. The periods and times of Reconnection are
small and differ where the order matters (a creation is longer than a ping, a
period longer than a spin); `Cap` only stops counters above all bounds of the
properties. `DataWord = 2` in Reconnection and 4 in Sketches make `msg.data` wrap; with 4,
losses of a whole period and more come between two values received. Two packages put one behind
the other in the loop over them. Two runs of the script suffice
for what one leaves to the next, since a run depends on the state it finds and
on nothing else. Seven samples in blocks of up to three put several interrupts
into each of several passes. What is proved does not depend on any of these.

**Deadlock** is checked everywhere but in LibraryGeneration, whose runs are
bounded and which really ends.

**Fairness.** `FairSpec` of Reconnection is weakly fair to `loop` and to `Tick`:
the Arduino core calls `loop()` again and again and the board's clock runs. No
fairness is assumed of the agent. `FairSpec` of Sketches is weakly fair to the
board as a whole. `ActivitySpec` is weakly fair to `loop()` (`Pass`), to events
of the classifier (the wearer goes on changing activity) and to the end of each
status, and strongly to an end that lets the line fall: a status lasts one
sample of the sensor and events are many samples apart, so that the two sources
do not hold the line high in turns for ever. `NotDeaf` is about boards that are
at some time not reset any more; no fairness is assumed of `setup()`. `<>[]linked` in `ReachesLoop` is the premise of waiting
without end for the network.

**Assumptions** that a reader may want to argue with:

- Reconnection: code outside library calls takes no time. An answer that comes
  after its call gave up is dropped by the library (it carries the number of
  its request). Opening a session replaces an older one of the same client.
- WiFi: timeouts are at most a period of `millis()` less one delay. -1
  (`UXR_TIMEOUT_INF`), which becomes nearly a whole period there, is excluded.
- Serial: timeouts are not negative (`SerialAssumption`). `read` takes an `int`
  and `setTimeout()` an unsigned number, so that -1 means a wait without end.
- Library generation: removals do not fail, and a command that fails has done
  nothing, or a part for the copies of a build.
- The buffer of a read holds any datagram: both ends use the same MTU.
- Ethernet: `read` succeeds when `available()` is not 0. The code's check for a
  negative result cannot work, since its type is unsigned.
- The sensor: the meaning of the bits in `Reports`, `Latched` and `MemoryOpen`,
  and what `begin()`, the two `Enable` calls and `Enable_Pedometer()` write, are
  those of its driver and its data sheet, not of this repository. A register
  write does not fail.
- `clock_gettime` is used from one thread. The transports use it correctly on
  the boards of this repository because each runs one sketch.
- The rollover counter itself does not wrap (`MaxLapsAssumption`).

## Proofs

TLAPS checks these for every value of the constants that the named assumptions
allow. Each module has an inductive invariant for each specification it is
about, whose conjuncts are named and commented there.

- **DefaultTransportProofs**, in three parts.
  - The clock (`ClockInv`): the reading is what the counted wraps give, no more
    wraps are counted than happened, and all were while every period was polled.
    `ClockNeverGoesBack` needs more than that no wrap is counted twice: after a
    wrap the register is lower by at most `Word - 1`, which is just what the
    macro adds; hence it would fail with one microsecond less.
  - Its users (`UsersInv`): the program's steps are steps of the clock or leave
    it alone (`UsersImplementClock`), which carries the theorems above over to
    the specification that the run checks. `Started` follows the millisecond in
    which a read began through all its passes, by `CallAdvances`: what a call
    adds to the clock is what passed since the call before, less a microsecond
    if the register wrapped, provided less than a period passed, which `InPass`
    gives within a read. Outside it only an upper bound is left, enough for the
    macro never to act early (`NotEarly`); its lateness needs every wrap to have
    been seen (`NotLate`).
  - The serial transport (`SerialInv`), beside the clock: a system of its own,
    with names of its own. `Patience` says what a read under way has waited: a
    timeout for each byte it has, and the silence for the next. The limit that
    `readBytes` uses is the one this read set (`limit = read_timeout`), whatever
    reads before it set.
- **ReconnectionProofs** (`Inv` = `TypeOK`, `Control`, `Built`, `Timing`; and
  `Recovering`). `OutageDetected` is not inductive: that the sketch finds out in
  time depends on the time left of the call under way, on the age of the period,
  and on whether the answer was sent before the agent went. `OutageAt` and
  `StaleAt` say so for each place of `loop()`. `Built` says what is initialised
  at each place and gives `ConnectedIsComplete` and the refinement of
  EntityLifecycle, whose proof maps each action to an abstract step or a stutter.
  `RecoveredInTime` is about `~Faults`, as its run is: with lost answers it does
  not hold. `Recovering` bounds how long the agent can have been up at each place
  of a sketch that is not connected. The agent may go and return at any moment of
  a call, so the bound must also follow a build made with an agent that has
  forgotten the session, and a period set by a ping that the agent answered
  before it came back (`BackSinceAnswer`) or during which it did
  (`BackSincePing`).
- **WifiTransportProofs** (`Clock`, `Reading`): while a read is under way the
  unsigned difference is the time waited (`ElapsedAcrossWrap`), and a datagram is
  parsed only on the way to being taken. From the second follow that `flush`
  loses nothing and the refinement of DatagramQueue.
- **EthernetTransportProofs** (`Clock`, `Reading`, `OpenedIsBound`): the same for
  the Ethernet transport, whose clock needs no argument about wraps, but whose
  timeouts may be negative: then a read returns without looking, which is why
  `owed`, a datagram that must be found, implies a positive timeout.
- **DecibelsProofs** (`Covered`, `Apart`): the first holds for the order of the
  code only, the second for every build.
- **ActivitySketchProofs**, in two parts.
  - Events (`Inv`, `Latest`): `EdgeIsServed` is inductive with the types and with
    the fact that no event called the handler before it was attached
    (`Unheard`). `LatestActivityShown` needs `Latest`, which follows an activity
    from its status to the text. Both hold of ImuEvents, and the sketch with its
    sensor implements that (`ActivityImplementsEvents`): registers only take
    events away.
  - The sensor (`Chip`): what the registers hold after each number of lines. The
    table is taken apart into its ten segments (`Parts`), six of which do nothing
    but load bytes (`LoadingLines`); the other 25 lines are gone through one by
    one. A reset keeps the registers, so that setup() may begin with the memory
    open, the classifier running or the wrong bank selected, and `Chip` says
    nothing of a register until this run of setup() has written it: `Selected`
    starts at line 3, `Open` at lines 4 and 5. With `Started` follow
    `SensorIsSet` and that the statuses are not latched (`StatusesEnd`), the half
    of `NotDeaf` that needs no fairness.
- **LibraryGenerationProofs** (`TypeOK`, `Fresh`, `Progress`). `Fresh`: all that
  `src/` holds, headers and libraries, is of one run (`Of`), the one under way
  as soon as that has cleaned. `Progress`: after `n` blocks of a run in which no
  build has failed, every platform asked for among them has its library (`Made`)
  and every package its headers, nested (`Copied`); `Moved` follows them through
  the loop while nothing in it has failed. What fails later does not touch
  `Made`, which is why `AskedIsBuilt` promises the libraries whatever happens to
  the headers. The library of Teensy 3.6, if it is taken from Teensy 3.5, was made in the same run, since
  the block of Teensy 3.5 comes before it (`BlockOrder`).
- **SketchesProofs** (`SetupAt`, `Counting`, `Dated`). `SetupAt` counts: what is
  made of each kind is the number of calls for it that `setup()` has behind it,
  and `loop()` starts with all of them behind. `Chains` goes through the twelve
  sketches. `PrintedWithinASecond` is arithmetic: truncated milliseconds are
  still less than a second. `GapsAreLosses` is an action property: `Counting` relates
  the next value to the last one heard and to the losses since, modulo the
  width of the counter, and `CountOn` is the arithmetic of its wrap.

Only model-checked: all liveness properties (`AgentHeardAgain`,
`GivesEverythingBack`, `NotDeaf`, `ReachesLoop`, `HeardAgain`, `ErrorLoopIsShown`),
since fairness and ENABLED are beyond the prover. Every invariant, action property
and refinement that a passing run checks is proved.

## Where code and text disagree

Two disagreements are runs that end in a violation:

- `wifi_open`: WiFi `open` returns true though `begin` failed; the header of the
  custom transports asks for false.
- `library_documented`: the libraries of Arduino Due and of the Cortex-M4 boards
  are generated with `colcon_lowmem.meta`; the README's tables say
  `colcon_verylowmem.meta` and `colcon.meta`.

Others are read off the models directly:

- WiFi `write` returns the bytes buffered though no packet was sent, and
  Ethernet `write` does so if `endPacket` fails; the header asks for the "Number
  of successfully sent bytes" (`Sent` in both modules).
- A serial read can wait a timeout for each byte; the header calls `timeout` the
  "Maximum timeout of the read operation" (the bound of `WaitsForSilence`).
- The milliseconds after "Agent date: " are those of the time modulo 2^32
  (`Date`); hence `PrintedWithinASecond` and no more.
- "Session sync failed" is never printed when the synchronisation fails: the
  sketch is in `error_loop()` by then (`Syncs`).
- README.md:37 calls the ESP32 supported; the checkout has no library for it
  (`Init` of LibraryGeneration).
- The library of the Kakute F7 is put into a folder named `hardfp`
  (library_generation.sh:215) and built with `-mfloat-abi=hard`; the folder of
  Teensy 4, with the same flag, is named `hard`.
- Without a microphone the sound level sketch halts with its LED lit, as it is
  while the sketch runs: whoever looks at it sees no error (`ErrorLoopIsShown`).
- If `apt` or `rsync` fails, the script throws the message away and its
  `rm -rf` (library_generation.sh:255) removes the only copy of the headers
  (`Rsync`, `Rm`): a run whose builds all succeeded ends with libraries and no
  headers, and nothing tells.
- The script's exit status is that of its last command: a run whose builds
  failed looks to the workflow like one that succeeded.

## Not modelled

- The transform sketch (`micro-ros_tf_publisher`) after the call in `setup()`
  that passes the address of a pointer for that of a message: this is undefined
  behaviour without a small set of outcomes, and a defined execution never gets
  to its `loop()`, which is floating point and sensor input.
- `sketch.setup` of `micro-ros_types_handling` can go on without memory for its
  message; the model stops in the state `undefined`.
- Floating point (the logarithm of the sound level, which is NaN without
  samples), the calendar, formatting, toolchain flags, board patches, the CI's
  installation steps.
- Results that the code does not look at and that nothing in the repository
  says anything about: a register write of the sensor that fails, an event of
  one source that comes and goes while the other holds the line high.
- WiFi timeouts of -1, see the assumptions; an LED-less sketch that failed is
  silent, and `ErrorLoopIsShown` is not stated of it.
- The client library, rcl, rclc, rmw and the ROS 2 types: generated or other
  projects' code. These headers are nearly all of the repository's lines. Most
  only declare: what they declare is compiled into the libraries `libmicroros.a`
  and its source is not here, so there is nothing to translate. The few with
  code in them (logging macros, error states, atomics) belong to other projects
  and none of the repository's own code uses them directly. The code of this
  repository proper is some 2,400 lines and the sensor's table.

## Plan

Done, in this order: the clock; the reconnection sketch with EntityLifecycle;
the packet transports with DatagramQueue; the two sketches with interrupts; the
serial transport; time synchronisation; the other sketches; library generation;
the clock with its users; the activity sketch with its sensor, `setup()` and
resets; failures that show; the proofs above.

Next:

1. Compose a packet transport with the reconnection sketch, so that lost answers
   come from the transport instead of `Answers`.
