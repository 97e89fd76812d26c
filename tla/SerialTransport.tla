-------------------------- MODULE SerialTransport --------------------------
(***************************************************************************)
(* The serial transport, src/default_transport.cpp.  It is a stream: bytes  *)
(* arrive one by one into a buffer the board's core keeps, and a read takes *)
(* what arrives while it waits.  Bytes are counted, not told apart.         *)
(***************************************************************************)
EXTENDS Naturals

CONSTANTS
    ReadTimeouts,   \* the timeouts read is called with; not negative, though
                    \* read takes an int: setTimeout() makes those unsigned
    Lengths,        \* the lengths read is called with
    Default,        \* the timeout of a Serial nobody has set
    BufferSize      \* the bytes the core's buffer holds

ASSUME SerialAssumption ==
    /\ ReadTimeouts \subseteq Nat /\ Lengths \subseteq Nat \ {0}
    /\ Default \in Nat /\ BufferSize \in Nat \ {0}

VARIABLES
    port,       \* "setup", "closed", "idle" or "read"
    avail,      \* the bytes in the core's buffer
    limit,      \* the timeout Serial has been given
    read_timeout, len,  \* the parameters of the latest read
    count,      \* the bytes the read under way, or the latest, has taken
    silence,    \* how long it has waited for the next byte
    sent,       \* what the latest write returned
    waited      \* how long it has waited in all (ghost)

svars == <<port, avail, limit, read_timeout, len, count, silence, sent, waited>>

SerialInit ==
    /\ port = "setup" /\ avail = 0 /\ limit = Default
    /\ read_timeout = 0 /\ len = 0 /\ count = 0 /\ silence = 0
    /\ sent = 0 /\ waited = 0

\* set_microros_transports
set_microros_transports ==
    /\ port = "setup" /\ port' = "closed"
    /\ UNCHANGED <<avail, limit, read_timeout, len, count, silence, sent, waited>>

\* Serial.begin(115200)
open ==
    /\ port = "closed" /\ port' = "idle"
    /\ UNCHANGED <<avail, limit, read_timeout, len, count, silence, sent, waited>>

\* Serial.end() drops what was not read.
close ==
    /\ port = "idle" /\ port' = "closed"
    /\ avail' = 0
    /\ UNCHANGED <<limit, read_timeout, len, count, silence, sent, waited>>

\* Serial.write takes as many bytes as it can.
write(n) ==
    /\ port = "idle" /\ sent' \in 0..n
    /\ UNCHANGED <<port, avail, limit, read_timeout, len, count, silence, waited>>

\* Mutated: a timeout once set is kept.
Limit_kept(t) == limit

\* Serial.setTimeout(timeout)
Limit(t) == t

read_begin(t, n) ==
    /\ port = "idle" /\ port' = "read"
    /\ limit' = Limit(t) /\ read_timeout' = t /\ len' = n
    /\ count' = 0 /\ silence' = 0 /\ waited' = 0
    /\ UNCHANGED <<avail, sent>>

\* Mutated: one byte too many.
More_equal == count <= len

\* readBytes(buf, len)
More == count < len

\* readBytes takes the next byte, and waits anew for the one after it.
read_byte ==
    /\ port = "read" /\ More /\ avail > 0
    /\ avail' = avail - 1 /\ count' = count + 1 /\ silence' = 0
    /\ UNCHANGED <<port, limit, read_timeout, len, sent, waited>>

\* readBytes waits.
read_wait ==
    /\ port = "read" /\ More /\ avail = 0 /\ silence < limit
    /\ silence' = silence + 1 /\ waited' = waited + 1
    /\ UNCHANGED <<port, avail, limit, read_timeout, len, count, sent>>

\* readBytes has all it was asked for, or no byte came for the timeout.
read_return ==
    /\ port = "read"
    /\ count = len \/ (avail = 0 /\ silence >= limit)
    /\ port' = "idle"
    /\ UNCHANGED <<avail, limit, read_timeout, len, count, silence, sent, waited>>

\* A byte of the agent arrives while the port is open.  One that finds
\* no room is lost.
Arrives ==
    /\ port \in {"idle", "read"}
    /\ avail < BufferSize /\ avail' = avail + 1
    /\ UNCHANGED <<port, limit, read_timeout, len, count, silence, sent, waited>>

SerialNext ==
    \/ set_microros_transports \/ open \/ close
    \/ \E t \in ReadTimeouts, n \in Lengths : read_begin(t, n)
    \/ \E n \in Lengths : write(n)
    \/ read_byte \/ read_wait \/ read_return
    \/ Arrives

SerialSpec == SerialInit /\ [][SerialNext]_svars

-----------------------------------------------------------------------------

\* Types: a read never has more bytes than its caller asked for.
SerialTypeOK ==
    /\ port \in {"setup", "closed", "idle", "read"}
    /\ avail \in 0..BufferSize /\ limit \in ReadTimeouts \cup {Default}
    /\ read_timeout \in ReadTimeouts \cup {0} /\ len \in Lengths \cup {0}
    /\ count \in 0..len /\ silence \in Nat /\ sent \in Nat /\ waited \in Nat

\* A read never waits longer than its timeout for each byte it returns and
\* once more, and one that returns less than asked has heard nothing for the
\* whole of its timeout: earlier reads with other timeouts do not matter.
WaitsForSilence ==
    /\ waited <= read_timeout * (count + 1)
    /\ port = "idle" /\ count < len => silence = read_timeout
=============================================================================
