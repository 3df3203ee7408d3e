---------------------------- MODULE FastCollectors ----------------------------
(***************************************************************************)
(* One sample of the fast loop (server/scheduler.py): collect_cpu          *)
(* (server/collectors/cpu.py) and then the rates of RateCollector, each in *)
(* an executor thread; memory keeps nothing and only appears as a failure. *)
(* psutil gives CPU percentages since its previous reading, which it keeps *)
(* apart for the total and for the cores: one of each before version       *)
(* 5.9.6, one of each per thread from then on (requirements.txt allows     *)
(* both).  A reading stands for the seconds it covers.                     *)
(***************************************************************************)
EXTENDS RateCollector

CONSTANTS Workers   \* the threads of the executor that collect_cpu runs in

LoopThread == "event loop"
Threads == Workers \cup {LoopThread}

ASSUME WorkerAssumption == LoopThread \notin Workers

VARIABLES
    perThread,      \* psutil keeps its readings per thread
    at,             \* where the fast loop is
    totalAge,       \* seconds since the total was read, per reading kept
    coresAge,       \* the same for the cores
    sample,         \* the seconds covered by the last result of collect_cpu
    \* Auxiliary variables: no action of the code depends on them.
    primeAge,       \* seconds since the loop last primed the readings
    readAge,        \* seconds since the last result of collect_cpu
    afterPrime      \* no result of collect_cpu since the loop primed

cpuVars == <<perThread, totalAge, coresAge, sample, primeAge, readAge, afterPrime>>
fastVars == <<rateVars, at, cpuVars>>

Ages == 0..MaxSpan

FastTypeOK ==
    /\ RateTypeOK
    /\ perThread \in BOOLEAN
    /\ at \in {"start", "top", "asleep", "rates"}
    /\ totalAge \in [Threads -> Ages \cup {Never}]
    /\ coresAge \in [Threads -> Ages \cup {Never}]
    /\ sample \in [total : Ages, cores : Ages]
    /\ primeAge \in Ages /\ readAge \in Ages
    /\ afterPrime \in BOOLEAN

\* Importing psutil takes the first readings, in the thread of the event loop.
Imported == [t \in Threads |-> IF t = LoopThread THEN 0 ELSE Never]

FastInit ==
    /\ RateInit
    /\ perThread \in BOOLEAN
    /\ at = "start"
    /\ totalAge = Imported
    /\ coresAge = Imported
    /\ sample = [total |-> 0, cores |-> 0]
    /\ primeAge = 0 /\ readAge = 0
    /\ afterPrime = FALSE

-----------------------------------------------------------------------------

\* The reading a thread goes by.
Kept(thread) == IF perThread THEN thread ELSE LoopThread

\* The seconds a reading covers: a first call returns 0 and covers none.
Covered(age, thread) == IF age[Kept(thread)] = Never THEN 0 ELSE age[Kept(thread)]

Older(age) == [t \in Threads |-> IF age[t] = Never THEN Never ELSE age[t] + 1]

\* The loop starts right after psutil is imported.
SecondPasses ==
    /\ at # "start"
    /\ TimePasses
    /\ totalAge' = Older(totalAge)
    /\ coresAge' = Older(coresAge)
    /\ primeAge' = primeAge + 1
    /\ readAge' = readAge + 1
    /\ UNCHANGED <<perThread, at, sample, afterPrime>>

\* Mutant: nothing is read again after a wake-up.
Prime_Missing ==
    /\ primeAge' = 0
    /\ afterPrime' = TRUE
    /\ UNCHANGED <<perThread, totalAge, coresAge, sample, readAge>>

\* psutil.cpu_percent(interval=0, percpu=True), in the event loop.
Prime ==
    /\ coresAge' = [coresAge EXCEPT ![LoopThread] = 0]
    /\ primeAge' = 0
    /\ afterPrime' = TRUE
    /\ UNCHANGED <<perThread, totalAge, sample, readAge>>

\* The loop starts, or wakes up, and settles for half a second.
LoopPrimes ==
    /\ at \in {"start", "asleep"}
    /\ at' = "top"
    /\ Prime
    /\ UNCHANGED rateVars

LoopSleeps ==
    /\ at = "top"
    /\ at' = "asleep"
    /\ UNCHANGED <<rateVars, cpuVars>>

\* Mutant: total and cores are read by two calls to the executor.
CollectCpu_TwoCalls(thread) ==
    /\ totalAge' = [totalAge EXCEPT ![Kept(thread)] = 0]
    /\ \E other \in Workers :
          /\ sample' = [total |-> Covered(totalAge, thread),
                        cores |-> Covered(coresAge, other)]
          /\ coresAge' = [coresAge EXCEPT ![Kept(other)] = 0]
    /\ readAge' = 0
    /\ afterPrime' = FALSE
    /\ UNCHANGED <<perThread, primeAge>>

\* collect_cpu(): the total, then the cores, then the load.
CollectCpu(thread) ==
    /\ sample' = [total |-> Covered(totalAge, thread),
                  cores |-> Covered(coresAge, thread)]
    /\ totalAge' = [totalAge EXCEPT ![Kept(thread)] = 0]
    /\ coresAge' = [coresAge EXCEPT ![Kept(thread)] = 0]
    /\ readAge' = 0
    /\ afterPrime' = FALSE
    /\ UNCHANGED <<perThread, primeAge>>

\* Any idle thread of the executor takes the call.
LoopReadsCpu ==
    /\ at = "top"
    /\ at' = "rates"
    /\ \E thread \in Workers : CollectCpu(thread)
    /\ UNCHANGED rateVars

LoopReadsRates ==
    /\ at = "rates"
    /\ at' = "top"
    /\ Collect \/ ReadFails
    /\ UNCHANGED cpuVars

\* A later collector raises: the sample is lost, what was read stays read.
LoopFails ==
    /\ at = "rates"
    /\ at' = "top"
    /\ UNCHANGED <<rateVars, cpuVars>>

FastNext ==
    \/ SecondPasses
    \/ /\ \/ \E d \in Devices : DeviceGoes(d) \/ DeviceComes(d)
          \/ ClockSetBack
          \/ ClockSetAhead
       /\ UNCHANGED <<at, cpuVars>>
    \/ LoopPrimes
    \/ LoopSleeps
    \/ LoopReadsCpu
    \/ LoopReadsRates
    \/ LoopFails

FastSpec == FastInit /\ [][FastNext]_fastVars

-----------------------------------------------------------------------------
(* Properties *)

\* Total and cores of one result cover the same seconds, whichever thread reads
\* them, except in the first result after the loop primed the cores alone
\* (cpu.py lines 19-23, scheduler.py 64-66, 75-76).
WindowsAgree ==
    [][at' = "rates" /\ at = "top" =>
       sample'.total = sample'.cores \/ (afterPrime /\ ~perThread)]_fastVars

\* Before version 5.9.6, what the cores show begins no earlier than the last
\* wake-up, and the totals follow one another without gap and overlap, over
\* failed samples too.
ReadingsFollow ==
    [][at' = "rates" /\ at = "top" /\ ~perThread =>
       sample'.cores <= primeAge /\ sample'.total = readAge]_fastVars

\* "Re-prime CPU stats after wake" (scheduler.py line 75): what is reported
\* after a wake-up does not cover the sleep.
ReprimedAfterWake ==
    [][at' = "rates" /\ at = "top" =>
       sample'.total <= primeAge /\ sample'.cores <= primeAge]_fastVars
=============================================================================
