----------------------------- MODULE RateCollector ----------------------------
(***************************************************************************)
(* The collectors that turn counters into rates: collect_network           *)
(* (server/collectors/network.py) and collect_disk_io                      *)
(* (server/collectors/disk.py).  Both keep the previous reading and its    *)
(* wall clock time in module variables and divide by the time between      *)
(* two readings; the disk is the case of one device that never goes away.  *)
(* Only the fast loop calls them (FastCollectors), one call after another. *)
(***************************************************************************)
EXTENDS Integers, Functions

CONSTANTS Devices,      \* the interfaces reported, without lo and veth
          LineRate,     \* the most bytes a device moves in a second
          MaxClock,     \* bound on the wall clock, in seconds
          MaxSetBacks   \* bound on how often the clock is set back

ASSUME RateAssumption ==
    /\ LineRate \in Nat
    /\ MaxClock \in Nat
    /\ MaxSetBacks \in Nat

VARIABLES
    clock,          \* time.time()
    counters,       \* the byte counters of the devices present
    prevIo,         \* _prev_net_io, _prev_disk_io
    prevTime,       \* _prev_net_time, _prev_disk_time
    rates,          \* what the last call returned
    \* Auxiliary variables: no action of the code depends on them.
    setBacks,       \* how often the clock was set back
    span,           \* seconds that really passed since the last reading
    jumped,         \* the ways the clock was set since then
    intact,         \* the devices there ever since that reading
    moved           \* the bytes they moved since then

hostVars == <<clock, counters, setBacks>>
readingVars == <<prevIo, prevTime, rates>>
truthVars == <<span, jumped, intact, moved>>
rateVars == <<hostVars, readingVars, truthVars>>

\* None in the code: no reading yet.
Never == -1

MaxSpan == MaxClock + MaxSetBacks
MaxBytes == LineRate * MaxSpan

PerDevice(range) == UNION {[present -> range] : present \in SUBSET Devices}

RateTypeOK ==
    /\ clock \in 0..MaxClock
    /\ counters \in PerDevice(0..MaxBytes)
    /\ setBacks \in 0..MaxSetBacks
    /\ prevIo \in PerDevice(0..MaxBytes)
    /\ prevTime \in 0..MaxClock \cup {Never}
    /\ rates \in PerDevice(0..MaxBytes)
    /\ span \in 0..MaxSpan
    /\ jumped \subseteq {"back", "ahead"}
    /\ intact \subseteq DOMAIN counters
    /\ moved \in [Devices -> 0..MaxBytes]

NoReadings == [d \in {} |-> 0]

RateInit ==
    /\ clock = 0
    /\ counters = [d \in Devices |-> 0]
    /\ setBacks = 0
    /\ prevIo = NoReadings
    /\ prevTime = Never
    /\ rates = NoReadings
    /\ span = 0
    /\ jumped = {}
    /\ intact = {}
    /\ moved = [d \in Devices |-> 0]

-----------------------------------------------------------------------------
(* The host *)

\* A second passes: every device present moves up to LineRate bytes.
TimePasses ==
    /\ clock < MaxClock
    /\ clock' = clock + 1
    /\ span' = span + 1
    /\ \E bytes \in [DOMAIN counters -> 0..LineRate] :
          /\ counters' = [d \in DOMAIN counters |-> counters[d] + bytes[d]]
          /\ moved' = [d \in Devices |->
                          IF d \in intact THEN moved[d] + bytes[d] ELSE moved[d]]
    /\ UNCHANGED <<setBacks, readingVars, jumped, intact>>

\* An interface is removed, or added with its counters at zero.
DeviceGoes(d) ==
    /\ d \in DOMAIN counters
    /\ counters' = Restrict(counters, DOMAIN counters \ {d})
    /\ intact' = intact \ {d}
    /\ moved' = [moved EXCEPT ![d] = 0]
    /\ UNCHANGED <<clock, setBacks, readingVars, span, jumped>>

DeviceComes(d) ==
    /\ d \in Devices \ DOMAIN counters
    /\ counters' = [e \in DOMAIN counters \cup {d} |->
                       IF e = d THEN 0 ELSE counters[e]]
    /\ UNCHANGED <<clock, setBacks, readingVars, truthVars>>

\* Nothing keeps the wall clock from being set, back or ahead.
ClockSetBack ==
    /\ clock > 0 /\ setBacks < MaxSetBacks
    /\ clock' = clock - 1
    /\ setBacks' = setBacks + 1
    /\ jumped' = jumped \cup {"back"}
    /\ UNCHANGED <<counters, readingVars, span, intact, moved>>

ClockSetAhead ==
    /\ clock < MaxClock
    /\ clock' = clock + 1
    /\ jumped' = jumped \cup {"ahead"}
    /\ UNCHANGED <<counters, setBacks, readingVars, span, intact, moved>>

-----------------------------------------------------------------------------
(* The collector *)

Known(d) == prevTime # Never /\ d \in DOMAIN prevIo

Elapsed == clock - prevTime

\* Mutant: no max(0, ...).
Rate_Unclamped(d) == (counters[d] - prevIo[d]) \div Elapsed

\* Mutant: the sign of the difference is dropped, not the difference.
Rate_NoClamp(d) ==
    IF counters[d] >= prevIo[d]
    THEN (counters[d] - prevIo[d]) \div Elapsed
    ELSE (prevIo[d] - counters[d]) \div Elapsed

\* max(0, int(difference / dt)): a counter that started anew gives 0.
Rate(d) ==
    IF counters[d] >= prevIo[d] THEN (counters[d] - prevIo[d]) \div Elapsed ELSE 0

\* No rate without a previous reading of the device at an earlier time.
Reported(d) == IF Known(d) /\ Elapsed > 0 THEN Rate(d) ELSE 0

Collect ==
    /\ rates' = [d \in DOMAIN counters |-> Reported(d)]
    /\ prevIo' = counters
    /\ prevTime' = clock
    /\ span' = 0
    /\ jumped' = {}
    /\ intact' = DOMAIN counters
    /\ moved' = [d \in Devices |-> 0]
    /\ UNCHANGED hostVars

\* Mutant: a failed reading is stamped like any other.
ReadFails_Stamps ==
    /\ rates' = NoReadings
    /\ prevTime' = IF prevTime = Never THEN Never ELSE clock
    /\ UNCHANGED <<hostVars, prevIo, truthVars>>

\* psutil raises, or finds no disk: return early, with nothing to report.
ReadFails ==
    /\ rates' = NoReadings
    /\ UNCHANGED <<hostVars, prevIo, prevTime, truthVars>>

-----------------------------------------------------------------------------
(* Properties *)

\* What is reported of a device that stayed is what it really moved since the
\* previous successful reading over the time that really passed, however many
\* readings failed in between, if the clock was not set (network.py lines 23-26
\* and 40-53, disk.py lines 53-79).
RatesAreTrue ==
    [][Collect /\ jumped = {} /\ span > 0 =>
       \A d \in intact \cap DOMAIN rates' : rates'[d] = moved[d] \div span]_rateVars

\* No device is reported above what it can move, not even one whose counter
\* started anew unseen between two readings, nor when the clock was set ahead
\* (network.py lines 43-48).
NoRateAboveLine ==
    [][Collect /\ "back" \notin jumped =>
       \A d \in DOMAIN rates' : rates'[d] <= LineRate]_rateVars
=============================================================================
