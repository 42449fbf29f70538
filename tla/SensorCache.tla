------------------------------ MODULE SensorCache ------------------------------
(***************************************************************************)
(* The temperatures behind the web dashboard: a request answers at once    *)
(* with what is cached, and starts a thread that reads the sensors anew if *)
(* the last read is long ago (_get_cached_temperatures,                    *)
(* _refresh_sensors_worker).  The cache and its time stamp are shared by   *)
(* all HTTP threads and all readers without a lock.                        *)
(*                                                                         *)
(* Time passes in ticks, and what counts is only how long ago things were: *)
(* every time is kept as an age, up to where it makes no difference any    *)
(* more.  A request takes its steps within a tick.                         *)
(***************************************************************************)
EXTENDS Naturals

CONSTANTS
    Thread,     \* the HTTP threads
    Interval,   \* 15 seconds, in ticks
    ReadTime,   \* what the sensors take at most
    PollGap     \* time between two requests of a page that is open

ASSUME SensorAssumption ==
    /\ Interval \in Nat /\ ReadTime \in Nat /\ PollGap \in Nat
    /\ ReadTime < Interval

\* How old a temperature may be while a page is open: it was read when a reader
\* began, which took ReadTime; the next one begins with the first request after
\* the interval, and takes ReadTime again.
Staleness == 2 * ReadTime + Interval + PollGap + 1

VARIABLES
    cached,     \* the age of _CACHED_TEMPS; at first, of the process
    lastRead,   \* the age of _LAST_SENSOR_READ
    reader,     \* of each thread, the reader it has started
    \* the rest observes the behaviour
    gap,        \* time since the last request
    good        \* time for which the page has been open and the sensors readable

sensorVars == <<cached, lastRead, reader, gap, good>>

-----------------------------------------------------------------------------
NoReader == [at |-> "none", ran |-> 0, age |-> 0]
Running(t) == reader[t].at # "none"
Due == lastRead > Interval

Older(age, limit) == IF age < limit THEN age + 1 ELSE age

SensorTypeOK ==
    /\ cached \in 0..Staleness + 1
    /\ lastRead \in 0..Interval + 1
    /\ reader \in [Thread -> [at : {"none", "sense", "store", "stamp"},
                              ran : 0..ReadTime, age : 0..ReadTime]]
    /\ gap \in 0..PollGap + 1
    /\ good \in 0..Staleness

\* _LAST_SENSOR_READ = 0.0, long ago.
SensorInit ==
    /\ cached = 0
    /\ lastRead = Interval + 1
    /\ reader = [t \in Thread |-> NoReader]
    /\ gap = 0 /\ good = 0

-----------------------------------------------------------------------------
(* A request: LooksFresh, or Looks and then StartsReader                   *)

\* A slip: the time stamp moves with every request.
LooksFreshAndStamps ==
    /\ ~Due
    /\ gap' = 0 /\ lastRead' = 0
    /\ UNCHANGED <<cached, reader, good>>

LooksFresh ==
    /\ ~Due
    /\ gap' = 0
    /\ UNCHANGED <<cached, lastRead, reader, good>>

LooksDue ==
    /\ Due
    /\ gap' = 0
    /\ UNCHANGED <<cached, lastRead, reader, good>>

\* A slip: no debounce, the reader alone sets the time stamp.
StartsReaderOnly(t) ==
    /\ reader' = [reader EXCEPT ![t] = [at |-> "sense", ran |-> 0, age |-> 0]]
    /\ UNCHANGED <<cached, lastRead, gap, good>>

\* By now another thread may have started a reader as well.
StartsReader(t) ==
    /\ lastRead' = 0
    /\ reader' = [reader EXCEPT ![t] = [at |-> "sense", ran |-> 0, age |-> 0]]
    /\ UNCHANGED <<cached, gap, good>>

-----------------------------------------------------------------------------
(* The readers                                                             *)

Sense(t) ==
    /\ reader[t].at = "sense"
    /\ reader' = [reader EXCEPT ![t].at = "store"]
    /\ UNCHANGED <<cached, lastRead, gap, good>>

\* No sensors, or an exception: the cache stays as it is.
SenseFails(t) ==
    /\ reader[t].at = "sense"
    /\ reader' = [reader EXCEPT ![t].at = "stamp"]
    /\ good' = 0
    /\ UNCHANGED <<cached, lastRead, gap>>

\* It may replace what another reader has found later than this one.
Store(t) ==
    /\ reader[t].at = "store"
    /\ cached' = reader[t].age
    /\ reader' = [reader EXCEPT ![t].at = "stamp", ![t].age = 0]
    /\ UNCHANGED <<lastRead, gap, good>>

Stamp(t) ==
    /\ reader[t].at = "stamp"
    /\ lastRead' = 0
    /\ reader' = [reader EXCEPT ![t] = NoReader]
    /\ UNCHANGED <<cached, gap, good>>

\* A reader is done before it has run longer than ReadTime.
SensorTick ==
    /\ \A t \in Thread : Running(t) => reader[t].ran < ReadTime
    /\ cached' = Older(cached, Staleness + 1)
    /\ lastRead' = Older(lastRead, Interval + 1)
    /\ gap' = Older(gap, PollGap + 1)
    /\ good' = IF gap' > PollGap THEN 0 ELSE Older(good, Staleness)
    /\ reader' = [t \in Thread |->
                    IF ~Running(t) THEN NoReader
                    ELSE [reader[t] EXCEPT !.ran = @ + 1,
                                           !.age = IF reader[t].at = "store" THEN @ + 1 ELSE @]]

ReaderNext == \E t \in Thread : Sense(t) \/ SenseFails(t) \/ Store(t) \/ Stamp(t)

-----------------------------------------------------------------------------
(* Properties                                                              *)

\* What is cached is no older than b, or could not have been renewed for b.
Bounded(b) == cached <= b \/ good <= b

\* While a page is open and the sensors can be read, what it is shown is never
\* older than one interval, one poll and two reads, however requests and readers
\* overtake each other; a reader that stores late brings nothing older back.
SensorsAreRecent == good = Staleness => cached < Staleness
=============================================================================
