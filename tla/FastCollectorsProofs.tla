-------------------------- MODULE FastCollectorsProofs -------------------------
(***************************************************************************)
(* Proofs about FastCollectors, for any devices, line rate, threads and    *)
(* bounds of the clock: the rates are what the devices really moved, none  *)
(* is above what a device can move, and total and cores of the CPU cover   *)
(* the seconds they should.                                                *)
(*                                                                         *)
(* The properties speak of what really passed and moved, which the code    *)
(* never sees.  ReadingInv relates it to the clock and the readings the    *)
(* collector kept, CpuInv the seconds each kept reading covers.            *)
(***************************************************************************)
EXTENDS FastCollectors, TLAPS

\* No fewer than the seconds since the start, whatever the wall clock shows.
Seconds == clock + setBacks

\* What was moved fits the time it took.
RateFits ==
    /\ span <= Seconds
    /\ \A d \in DOMAIN counters : counters[d] <= LineRate * Seconds
    /\ \A d \in Devices : moved[d] <= LineRate * span

\* Since the previous reading a clock that was not set shows what passed, and one
\* that was set ahead shows more; no counter grew by more than the line takes, and
\* one that stayed grew by what it moved.
ReadingInv ==
    /\ prevTime # Never =>
          /\ "back" \notin jumped => clock >= prevTime + span
          /\ jumped = {} => clock = prevTime + span
    /\ \A d \in DOMAIN counters \cap DOMAIN prevIo :
          counters[d] <= prevIo[d] + LineRate * span
    /\ \A d \in intact :
          prevTime # Never /\ d \in DOMAIN prevIo /\ counters[d] = prevIo[d] + moved[d]

AgeInv ==
    /\ \A t \in Threads : totalAge[t] <= Seconds /\ coresAge[t] <= Seconds
    /\ primeAge <= Seconds /\ readAge <= Seconds

\* A worker reads total and cores together; the readings that all threads share
\* are those of the last result, and of the last wake-up for the cores.
CpuInv ==
    /\ perThread => \A t \in Workers : totalAge[t] = coresAge[t]
    /\ ~perThread => /\ totalAge[LoopThread] = readAge
                     /\ coresAge[LoopThread] \in 0..primeAge
                     /\ afterPrime \/ coresAge[LoopThread] = totalAge[LoopThread]

RateInv == RateTypeOK /\ RateFits /\ ReadingInv

\* The inductive invariant of the fast collectors.
FastInv == FastTypeOK /\ RateInv /\ AgeInv /\ CpuInv

-----------------------------------------------------------------------------

\* A reading is a function from the devices present.
LEMMA ReadingOf ==
    ASSUME NEW f, NEW R
    PROVE  f \in PerDevice(R) <=> DOMAIN f \subseteq Devices /\ f \in [DOMAIN f -> R]
<1>1. ASSUME f \in PerDevice(R) PROVE DOMAIN f \subseteq Devices /\ f \in [DOMAIN f -> R]
  BY <1>1 DEF PerDevice
<1>2. ASSUME DOMAIN f \subseteq Devices, f \in [DOMAIN f -> R] PROVE f \in PerDevice(R)
  <2>1. [DOMAIN f -> R] \in {[present -> R] : present \in SUBSET Devices}
    BY <1>2
  <2>. QED
    BY <1>2, <2>1 DEF PerDevice
<1>. QED
  BY <1>1, <1>2

\* A line moves LineRate more in one second more, and no less in more seconds.
LEMMA LineMoves ==
    ASSUME NEW s \in Nat, NEW t \in Nat, s <= t
    PROVE  /\ LineRate * s \in Nat
           /\ LineRate * (s + 1) = LineRate * s + LineRate
           /\ LineRate * s <= LineRate * t
<1>1. LineRate \in Nat
  BY RateAssumption
<1>2. LineRate * s \in Nat /\ LineRate * (s + 1) = LineRate * s + LineRate
  BY <1>1
<1>3. LineRate * t = LineRate * s + LineRate * (t - s) /\ t - s \in Nat
  BY <1>1
<1>4. LineRate * (t - s) \in Nat
  BY <1>1, <1>3
<1>. QED
  BY <1>2, <1>3, <1>4

\* A quotient is no more than its dividend.
LEMMA QuotientIsLess ==
    ASSUME NEW a \in Nat, NEW b \in Nat \ {0}
    PROVE  a \div b \in Nat /\ a \div b <= a
  OBVIOUS

\* What fits a line for some seconds is, per second, within its rate.
LEMMA QuotientFitsLine ==
    ASSUME NEW a \in Nat, NEW b \in Nat \ {0}, a <= LineRate * b
    PROVE  a \div b <= LineRate
<1>1. LineRate \in Nat
  BY RateAssumption
<1>2. a \div b \in Nat /\ b * (a \div b) <= a
  OBVIOUS
<1>. DEFINE q == a \div b
<1>. HIDE DEF q
<1>3. ASSUME q > LineRate PROVE FALSE
  <2>1. q - LineRate - 1 \in Nat /\ q \in Nat
    BY <1>1, <1>2, <1>3 DEF q
  <2>2. b * (q - LineRate - 1) \in Nat
    BY <2>1
  <2>3. b * q = LineRate * b + b + b * (q - LineRate - 1)
    BY <1>1, <2>1
  <2>4. b * q <= LineRate * b
    BY <1>1, <1>2, <2>1 DEF q
  <2>. QED
    BY <1>1, <2>1, <2>2, <2>3, <2>4
<1>. QED
  BY <1>1, <1>2, <1>3 DEF q

-----------------------------------------------------------------------------
(* Counters and rates *)

LEMMA RateTypes ==
    ASSUME RateInv
    PROVE  /\ LineRate \in Nat /\ MaxClock \in Nat /\ MaxSetBacks \in Nat
           /\ clock \in 0..MaxClock /\ setBacks \in 0..MaxSetBacks
           /\ Seconds \in Nat /\ Seconds <= MaxSpan /\ MaxSpan \in Nat
           /\ MaxBytes \in Nat
           /\ DOMAIN counters \subseteq Devices
           /\ counters \in [DOMAIN counters -> Nat]
           /\ DOMAIN prevIo \subseteq Devices
           /\ prevIo \in [DOMAIN prevIo -> Nat]
           /\ prevTime \in 0..MaxClock \cup {Never}
           /\ span \in Nat /\ jumped \subseteq {"back", "ahead"}
           /\ intact \subseteq DOMAIN counters
           /\ moved \in [Devices -> Nat]
<1>1. /\ DOMAIN counters \subseteq Devices /\ counters \in [DOMAIN counters -> 0..MaxBytes]
      /\ DOMAIN prevIo \subseteq Devices /\ prevIo \in [DOMAIN prevIo -> 0..MaxBytes]
  BY ReadingOf DEF RateInv, RateTypeOK
<1>2. MaxSpan \in Nat /\ MaxBytes \in Nat
  BY RateAssumption DEF MaxSpan, MaxBytes
<1>. QED
  BY <1>1, <1>2, RateAssumption DEF RateInv, RateTypeOK, Seconds, MaxSpan

\* Counters within the line are of the type.
LEMMA LineBoundsCounter ==
    ASSUME NEW s \in Nat, s <= MaxSpan, NEW n \in Nat, n <= LineRate * s
    PROVE  n \in 0..MaxBytes
<1>1. MaxSpan \in Nat
  BY RateAssumption DEF MaxSpan
<1>2. /\ LineRate * s \in Nat /\ LineRate * s <= LineRate * MaxSpan
      /\ LineRate * MaxSpan \in Nat
  BY <1>1, LineMoves
<1>. QED
  BY <1>2 DEF MaxBytes

LEMMA TimeKeepsRates ==
    ASSUME RateInv, TimePasses
    PROVE  RateInv'
<1>0. RateTypeOK /\ RateFits /\ ReadingInv
  BY DEF RateInv
<1>. PICK bytes \in [DOMAIN counters -> 0..LineRate] :
        /\ counters' = [d \in DOMAIN counters |-> counters[d] + bytes[d]]
        /\ moved' = [d \in Devices |->
                        IF d \in intact THEN moved[d] + bytes[d] ELSE moved[d]]
  BY DEF TimePasses
<1>1. /\ clock < MaxClock /\ clock' = clock + 1 /\ span' = span + 1
      /\ UNCHANGED <<setBacks, prevIo, prevTime, rates, jumped, intact>>
  BY DEF TimePasses, readingVars
<1>2. /\ Seconds' = Seconds + 1 /\ Seconds' \in Nat /\ Seconds' <= MaxSpan
      /\ span' <= Seconds' /\ span' \in Nat
  BY <1>0, <1>1, RateTypes DEF Seconds, RateFits, MaxSpan
<1>3. /\ LineRate * (Seconds + 1) = LineRate * Seconds + LineRate
      /\ LineRate * (span + 1) = LineRate * span + LineRate
      /\ LineRate * Seconds \in Nat /\ LineRate * span \in Nat
  BY RateTypes, LineMoves
<1>4. DOMAIN counters' = DOMAIN counters
  OBVIOUS
<1>5. ASSUME NEW d \in DOMAIN counters
      PROVE  /\ counters'[d] = counters[d] + bytes[d] /\ bytes[d] \in Nat
             /\ bytes[d] <= LineRate /\ counters[d] \in Nat /\ counters'[d] \in Nat
  BY RateTypes
<1>6. ASSUME NEW d \in DOMAIN counters'
      PROVE  counters'[d] <= LineRate * Seconds' /\ counters'[d] \in 0..MaxBytes
  <2>1. counters[d] <= LineRate * Seconds
    BY <1>0, <1>4 DEF RateFits
  <2>2. counters'[d] <= LineRate * (Seconds + 1)
    BY <1>3, <1>4, <1>5, <2>1, RateTypes
  <2>3. Seconds + 1 \in Nat /\ Seconds + 1 <= MaxSpan
    BY <1>2, RateTypes
  <2>4. counters'[d] \in 0..MaxBytes
    BY <1>4, <1>5, <2>2, <2>3, LineBoundsCounter
  <2>. QED
    BY <1>2, <2>2, <2>4
<1>7. ASSUME NEW d \in Devices
      PROVE  moved'[d] <= LineRate * span' /\ moved'[d] \in 0..MaxBytes
  <2>1. moved[d] <= LineRate * span /\ moved[d] \in Nat
    BY <1>0, RateTypes DEF RateFits
  <2>2. moved'[d] \in Nat /\ moved'[d] <= LineRate * (span + 1)
    <3>1. CASE d \in intact
      <4>1. d \in DOMAIN counters /\ moved'[d] = moved[d] + bytes[d]
        BY <3>1, RateTypes
      <4>. QED
        BY <1>3, <1>5, <2>1, <4>1, RateTypes
    <3>2. CASE d \notin intact
      BY <1>3, <2>1, <3>2, RateTypes
    <3>. QED
      BY <3>1, <3>2
  <2>3. span + 1 \in Nat /\ span + 1 <= MaxSpan
    BY <1>1, <1>2, RateTypes
  <2>4. moved'[d] \in 0..MaxBytes
    BY <2>2, <2>3, LineBoundsCounter
  <2>. QED
    BY <1>1, <2>2, <2>4
<1>8. ReadingInv'
  <2>1. ASSUME NEW d \in DOMAIN counters \cap DOMAIN prevIo
        PROVE  counters'[d] <= prevIo[d] + LineRate * span'
    <3>1. counters[d] <= prevIo[d] + LineRate * span
      BY <1>0 DEF ReadingInv
    <3>. QED
      BY <1>1, <1>3, <1>5, <3>1, RateTypes
  <2>2. ASSUME NEW d \in intact
        PROVE  prevTime # Never /\ d \in DOMAIN prevIo /\ counters'[d] = prevIo[d] + moved'[d]
    <3>1. prevTime # Never /\ d \in DOMAIN prevIo /\ counters[d] = prevIo[d] + moved[d]
      BY <1>0 DEF ReadingInv
    <3>2. d \in DOMAIN counters /\ d \in Devices
      BY RateTypes
    <3>3. moved'[d] = moved[d] + bytes[d] /\ moved[d] \in Nat /\ prevIo[d] \in Nat
      BY <3>1, <3>2, RateTypes
    <3>. QED
      BY <1>5, <3>1, <3>2, <3>3
  <2>3. prevTime # Never =>
           /\ "back" \notin jumped => clock' >= prevTime + span'
           /\ jumped = {} => clock' = prevTime + span'
    BY <1>0, <1>1, RateTypes DEF ReadingInv, Never
  <2>. QED
    BY <1>1, <1>4, <2>1, <2>2, <2>3 DEF ReadingInv
<1>9. RateTypeOK'
  <2>1. counters' \in PerDevice(0..MaxBytes)
    <3>. DEFINE new == counters'
    <3>1. DOMAIN new \subseteq Devices
      BY <1>4, RateTypes
    <3>2. new \in [DOMAIN new -> 0..MaxBytes]
      BY <1>6
    <3>. HIDE DEF new
    <3>3. new \in PerDevice(0..MaxBytes)
      BY <3>1, <3>2, ReadingOf
    <3>. QED
      BY <3>3 DEF new
  <2>2. moved' \in [Devices -> 0..MaxBytes]
    BY <1>7
  <2>3. span' \in 0..MaxSpan
    BY <1>2, RateTypes
  <2>4. clock' \in 0..MaxClock /\ intact' \subseteq DOMAIN counters'
    BY <1>1, <1>4, RateTypes
  <2>. QED
    BY <1>0, <1>1, <2>1, <2>2, <2>3, <2>4 DEF RateTypeOK
<1>. QED
  BY <1>2, <1>6, <1>7, <1>8, <1>9 DEF RateInv, RateFits

LEMMA DevicesKeepRates ==
    ASSUME RateInv, NEW d \in Devices, DeviceGoes(d) \/ DeviceComes(d)
    PROVE  RateInv'
<1>0. RateTypeOK /\ RateFits /\ ReadingInv
  BY DEF RateInv
<1>1. CASE DeviceGoes(d)
  <2>1. /\ counters' = [e \in DOMAIN counters \ {d} |-> counters[e]]
        /\ intact' = intact \ {d} /\ moved' = [moved EXCEPT ![d] = 0]
        /\ UNCHANGED <<clock, setBacks, prevIo, prevTime, rates, span, jumped, Seconds>>
    BY <1>1 DEF DeviceGoes, Restrict, readingVars, Seconds
  <2>2. /\ DOMAIN counters' = DOMAIN counters \ {d}
        /\ \A e \in DOMAIN counters' : counters'[e] = counters[e]
    BY <2>1
  <2>3. counters' \in PerDevice(0..MaxBytes)
    <3>. DEFINE new == [e \in DOMAIN counters \ {d} |-> counters[e]]
    <3>1. DOMAIN counters \subseteq Devices /\ counters \in [DOMAIN counters -> 0..MaxBytes]
      BY <1>0, ReadingOf DEF RateTypeOK
    <3>2. DOMAIN new \subseteq Devices /\ new \in [DOMAIN new -> 0..MaxBytes]
      BY <3>1
    <3>. HIDE DEF new
    <3>3. new \in PerDevice(0..MaxBytes)
      BY <3>2, ReadingOf
    <3>. QED
      BY <2>1, <3>3 DEF new
  <2>4. 0 \in 0..MaxBytes /\ 0 <= LineRate * span
    <3>1. LineRate * span \in Nat /\ MaxBytes \in Nat
      BY RateTypes, LineMoves DEF MaxBytes
    <3>. QED
      BY <3>1
  <2>5. RateTypeOK'
    BY <1>0, <2>1, <2>2, <2>3, <2>4 DEF RateTypeOK
  <2>6. RateFits'
    BY <1>0, <2>1, <2>2, <2>4, RateTypes DEF RateFits
  <2>7. ReadingInv'
    <3>1. \A e \in intact' : e # d /\ e \in intact /\ e \in Devices /\ e \in DOMAIN counters'
      BY <2>1, <2>2, RateTypes
    <3>2. \A e \in intact' : moved'[e] = moved[e]
      BY <2>1, <3>1, RateTypes
    <3>. QED
      BY <1>0, <2>1, <2>2, <3>1, <3>2 DEF ReadingInv
  <2>. QED
    BY <2>5, <2>6, <2>7 DEF RateInv
<1>2. CASE DeviceComes(d)
  <2>1. /\ d \notin DOMAIN counters
        /\ counters' = [e \in DOMAIN counters \cup {d} |-> IF e = d THEN 0 ELSE counters[e]]
        /\ UNCHANGED <<clock, setBacks, prevIo, prevTime, rates, span, jumped, intact,
                       moved, Seconds>>
    BY <1>2 DEF DeviceComes, readingVars, truthVars, Seconds
  <2>2. /\ DOMAIN counters' = DOMAIN counters \cup {d} /\ counters'[d] = 0
        /\ \A e \in DOMAIN counters : counters'[e] = counters[e]
    BY <2>1
  <2>3. counters' \in PerDevice(0..MaxBytes)
    <3>. DEFINE new == [e \in DOMAIN counters \cup {d} |-> IF e = d THEN 0 ELSE counters[e]]
    <3>0. MaxBytes \in Nat
      BY RateTypes DEF MaxBytes
    <3>1. DOMAIN counters \subseteq Devices /\ counters \in [DOMAIN counters -> 0..MaxBytes]
      BY <1>0, ReadingOf DEF RateTypeOK
    <3>2. DOMAIN new \subseteq Devices /\ new \in [DOMAIN new -> 0..MaxBytes]
      BY <3>0, <3>1
    <3>. HIDE DEF new
    <3>3. new \in PerDevice(0..MaxBytes)
      BY <3>2, ReadingOf
    <3>. QED
      BY <2>1, <3>3 DEF new
  <2>4. LineRate * span \in Nat /\ LineRate * Seconds \in Nat
    BY RateTypes, LineMoves
  <2>5. RateTypeOK'
    BY <1>0, <2>1, <2>2, <2>3 DEF RateTypeOK
  <2>6. RateFits'
    BY <1>0, <2>1, <2>2, <2>4 DEF RateFits
  <2>7. ReadingInv'
    <3>1. ASSUME NEW e \in DOMAIN counters' \cap DOMAIN prevIo
          PROVE  counters'[e] <= prevIo[e] + LineRate * span
      <4>1. CASE e = d
        BY <2>2, <2>4, <4>1, RateTypes
      <4>2. CASE e # d
        BY <1>0, <2>2, <4>2 DEF ReadingInv
      <4>. QED
        BY <4>1, <4>2
    <3>2. ASSUME NEW e \in intact PROVE counters'[e] = counters[e]
      BY <2>2, RateTypes
    <3>. QED
      BY <1>0, <2>1, <3>1, <3>2 DEF ReadingInv
  <2>. QED
    BY <2>5, <2>6, <2>7 DEF RateInv
<1>. QED
  BY <1>1, <1>2

LEMMA ClockKeepsRates ==
    ASSUME RateInv, ClockSetBack \/ ClockSetAhead
    PROVE  RateInv' /\ Seconds <= Seconds' /\ Seconds' \in Nat
<1>0. RateTypeOK /\ RateFits /\ ReadingInv
  BY DEF RateInv
<1>1. UNCHANGED <<counters, prevIo, prevTime, rates, span, intact, moved>>
  BY DEF ClockSetBack, ClockSetAhead, readingVars
<1>2. CASE ClockSetBack
  <2>1. /\ clock > 0 /\ setBacks < MaxSetBacks /\ clock' = clock - 1
        /\ setBacks' = setBacks + 1 /\ jumped' = jumped \cup {"back"}
    BY <1>2 DEF ClockSetBack
  <2>2. Seconds' = Seconds
    BY <2>1, RateTypes DEF Seconds
  <2>3. RateTypeOK'
    BY <1>0, <1>1, <2>1, RateTypes DEF RateTypeOK
  <2>4. "back" \in jumped' /\ jumped' # {}
    BY <2>1
  <2>. QED
    BY <1>0, <1>1, <2>2, <2>3, <2>4, RateTypes DEF RateInv, RateFits, ReadingInv
<1>3. CASE ClockSetAhead
  <2>1. /\ clock < MaxClock /\ clock' = clock + 1 /\ setBacks' = setBacks
        /\ jumped' = jumped \cup {"ahead"}
    BY <1>3 DEF ClockSetAhead
  <2>2. Seconds' = Seconds + 1 /\ Seconds \in Nat
    BY <2>1, RateTypes DEF Seconds
  <2>3. RateTypeOK'
    BY <1>0, <1>1, <2>1, RateTypes DEF RateTypeOK
  <2>4. RateFits'
    <3>1. LineRate * Seconds \in Nat /\ LineRate * Seconds <= LineRate * Seconds'
          /\ LineRate * Seconds' \in Nat
      BY <2>2, LineMoves
    <3>2. \A d \in DOMAIN counters : counters[d] \in Nat
      BY RateTypes
    <3>. QED
      BY <1>0, <1>1, <2>2, <3>1, <3>2, RateTypes DEF RateFits
  <2>5. jumped' # {} /\ ("back" \notin jumped' => "back" \notin jumped)
    BY <2>1
  <2>6. prevTime # Never /\ "back" \notin jumped' => clock' >= prevTime + span
    BY <1>0, <2>1, <2>5, RateTypes DEF ReadingInv, Never
  <2>7. ReadingInv'
    BY <1>0, <1>1, <2>5, <2>6 DEF ReadingInv
  <2>. QED
    BY <2>2, <2>3, <2>4, <2>7 DEF RateInv
<1>. QED
  BY <1>2, <1>3

\* A rate never exceeds the difference of the counters.
LEMMA ReportedFits ==
    ASSUME RateInv, NEW d \in DOMAIN counters
    PROVE  Reported(d) \in 0..MaxBytes
<1>0. MaxBytes \in Nat /\ clock \in Nat
  BY RateTypes
<1>1. counters[d] \in 0..MaxBytes
  <2>1. counters \in [DOMAIN counters -> 0..MaxBytes]
    BY ReadingOf DEF RateInv, RateTypeOK
  <2>. QED
    BY <2>1
<1>2. CASE Known(d) /\ Elapsed > 0 /\ counters[d] >= prevIo[d]
  <2>. DEFINE grown == counters[d] - prevIo[d]
              time == Elapsed
  <2>1. prevIo[d] \in Nat /\ prevTime \in Nat
    BY <1>2, RateTypes DEF Known
  <2>2. grown \in Nat /\ grown <= counters[d] /\ time \in Nat \ {0}
    BY <1>0, <1>1, <1>2, <2>1 DEF Elapsed
  <2>3. Reported(d) = grown \div time
    BY <1>2 DEF Reported, Rate
  <2>. HIDE DEF grown, time
  <2>4. grown \div time \in Nat /\ grown \div time <= grown
    BY <2>2, QuotientIsLess
  <2>. QED
    BY <1>0, <1>1, <2>2, <2>3, <2>4
<1>3. CASE ~(Known(d) /\ Elapsed > 0 /\ counters[d] >= prevIo[d])
  BY <1>0, <1>3 DEF Reported, Rate
<1>. QED
  BY <1>2, <1>3

LEMMA CollectingKeepsRates ==
    ASSUME RateInv, Collect
    PROVE  RateInv'
<1>0. RateTypeOK /\ RateFits /\ ReadingInv
  BY DEF RateInv
<1>1. /\ rates' = [d \in DOMAIN counters |-> Reported(d)]
      /\ prevIo' = counters /\ prevTime' = clock /\ span' = 0 /\ jumped' = {}
      /\ intact' = DOMAIN counters /\ moved' = [d \in Devices |-> 0]
      /\ UNCHANGED <<clock, counters, setBacks, Seconds>>
  BY DEF Collect, hostVars, Seconds
<1>2. LineRate * 0 = 0 /\ 0 <= Seconds /\ MaxBytes \in Nat
  BY RateTypes DEF MaxBytes
<1>3. rates' \in PerDevice(0..MaxBytes)
  <2>. DEFINE new == [d \in DOMAIN counters |-> Reported(d)]
  <2>1. DOMAIN new \subseteq Devices /\ new \in [DOMAIN new -> 0..MaxBytes]
    BY ReportedFits, RateTypes
  <2>. HIDE DEF new
  <2>2. new \in PerDevice(0..MaxBytes)
    BY <2>1, ReadingOf
  <2>. QED
    BY <1>1, <2>2 DEF new
<1>4. RateTypeOK'
  <2>1. moved' \in [Devices -> 0..MaxBytes]
    BY <1>1, <1>2
  <2>2. prevIo' \in PerDevice(0..MaxBytes) /\ counters' \in PerDevice(0..MaxBytes)
    BY <1>0, <1>1 DEF RateTypeOK
  <2>3. /\ clock' \in 0..MaxClock /\ setBacks' \in 0..MaxSetBacks
        /\ prevTime' \in 0..MaxClock \cup {Never} /\ span' \in 0..MaxSpan
    BY <1>1, RateTypes
  <2>4. jumped' \subseteq {"back", "ahead"}
    BY <1>1
  <2>5. intact' \subseteq DOMAIN counters'
    BY <1>1
  <2>. QED
    BY <1>3, <2>1, <2>2, <2>3, <2>4, <2>5 DEF RateTypeOK
<1>5. RateFits'
  BY <1>0, <1>1, <1>2 DEF RateFits
<1>6. ReadingInv'
  <2>1. \A d \in DOMAIN counters : d \in Devices /\ counters[d] \in Nat
    BY RateTypes
  <2>2. clock # Never /\ clock = clock + 0 /\ clock >= clock + 0
    BY RateTypes DEF Never
  <2>. QED
    BY <1>1, <1>2, <2>1, <2>2 DEF ReadingInv
<1>. QED
  BY <1>4, <1>5, <1>6 DEF RateInv

LEMMA FailingKeepsRates ==
    ASSUME RateInv, ReadFails
    PROVE  RateInv'
<1>1. rates' = NoReadings
      /\ UNCHANGED <<clock, counters, setBacks, prevIo, prevTime, span, jumped, intact,
                     moved, Seconds>>
  BY DEF ReadFails, hostVars, truthVars, Seconds
<1>2. NoReadings \in PerDevice(0..MaxBytes)
  BY ReadingOf DEF NoReadings
<1>3. RateTypeOK'
  BY <1>1, <1>2 DEF RateInv, RateTypeOK
<1>. QED
  BY <1>1, <1>3 DEF RateInv, RateFits, ReadingInv

LEMMA InitMakesRates ==
    ASSUME RateInit
    PROVE  RateInv
<1>1. /\ clock = 0 /\ counters = [d \in Devices |-> 0] /\ setBacks = 0
      /\ prevIo = NoReadings /\ prevTime = Never /\ rates = NoReadings /\ span = 0
      /\ jumped = {} /\ intact = {} /\ moved = [d \in Devices |-> 0]
  BY DEF RateInit
<1>2. MaxSpan \in Nat /\ MaxBytes \in Nat /\ LineRate * 0 = 0 /\ Seconds = 0
  BY <1>1, RateAssumption DEF MaxSpan, MaxBytes, Seconds
<1>3. NoReadings \in PerDevice(0..MaxBytes) /\ DOMAIN NoReadings = {}
  BY ReadingOf DEF NoReadings
<1>4. counters \in PerDevice(0..MaxBytes)
  <2>. DEFINE zero == [d \in Devices |-> 0]
  <2>1. DOMAIN zero \subseteq Devices /\ zero \in [DOMAIN zero -> 0..MaxBytes]
    BY <1>2
  <2>. HIDE DEF zero
  <2>2. zero \in PerDevice(0..MaxBytes)
    BY <2>1, ReadingOf
  <2>. QED
    BY <1>1, <2>2 DEF zero
<1>5. RateTypeOK
  <2>1. moved \in [Devices -> 0..MaxBytes]
    BY <1>1, <1>2
  <2>2. prevIo \in PerDevice(0..MaxBytes) /\ rates \in PerDevice(0..MaxBytes)
    BY <1>1, <1>3
  <2>3. /\ clock \in 0..MaxClock /\ setBacks \in 0..MaxSetBacks
        /\ prevTime \in 0..MaxClock \cup {Never} /\ span \in 0..MaxSpan
    BY <1>1, <1>2, RateAssumption
  <2>4. jumped \subseteq {"back", "ahead"} /\ intact \subseteq DOMAIN counters
    BY <1>1
  <2>. QED
    BY <1>4, <2>1, <2>2, <2>3, <2>4 DEF RateTypeOK
<1>6. RateFits /\ ReadingInv
  BY <1>1, <1>2, <1>3 DEF RateFits, ReadingInv
<1>. QED
  BY <1>5, <1>6 DEF RateInv

-----------------------------------------------------------------------------
(* The readings of the CPU *)

CpuTypes ==
    /\ perThread \in BOOLEAN
    /\ at \in {"start", "top", "asleep", "rates"}
    /\ totalAge \in [Threads -> Ages \cup {Never}]
    /\ coresAge \in [Threads -> Ages \cup {Never}]
    /\ sample \in [total : Ages, cores : Ages]
    /\ primeAge \in Ages /\ readAge \in Ages
    /\ afterPrime \in BOOLEAN

LEMMA AgeIsSeconds == Ages \subseteq Nat /\ 0 \in Ages /\ Never \notin Ages /\ MaxSpan \in Nat
  BY RateAssumption DEF Ages, MaxSpan, Never

LEMMA LoopIsThread == LoopThread \in Threads /\ Workers \subseteq Threads
  BY DEF Threads

\* A second makes every reading one older.
LEMMA SecondKeepsCpu ==
    ASSUME CpuTypes, RateInv, RateInv', AgeInv, CpuInv, SecondPasses
    PROVE  CpuTypes' /\ AgeInv' /\ CpuInv'
<1>1. /\ totalAge' = Older(totalAge) /\ coresAge' = Older(coresAge)
      /\ primeAge' = primeAge + 1 /\ readAge' = readAge + 1
      /\ UNCHANGED <<perThread, at, sample, afterPrime>>
      /\ clock' = clock + 1 /\ setBacks' = setBacks
  BY DEF SecondPasses, TimePasses
<1>2. Seconds' = Seconds + 1 /\ Seconds \in Nat /\ Seconds + 1 <= MaxSpan
  <2>1. clock \in Nat /\ setBacks \in Nat /\ MaxClock \in Nat /\ MaxSetBacks \in Nat
        /\ clock < MaxClock /\ setBacks <= MaxSetBacks
    BY RateTypes DEF SecondPasses, TimePasses
  <2>. QED
    BY <1>1, <2>1 DEF Seconds, MaxSpan
<1>3. ASSUME NEW t \in Threads
      PROVE  /\ totalAge'[t] = IF totalAge[t] = Never THEN Never ELSE totalAge[t] + 1
             /\ coresAge'[t] = IF coresAge[t] = Never THEN Never ELSE coresAge[t] + 1
             /\ totalAge[t] \in Nat \cup {Never} /\ coresAge[t] \in Nat \cup {Never}
             /\ totalAge[t] <= Seconds /\ coresAge[t] <= Seconds
  BY <1>1, AgeIsSeconds DEF Older, CpuTypes, AgeInv
<1>4. ASSUME NEW t \in Threads
      PROVE  /\ totalAge'[t] <= Seconds' /\ coresAge'[t] <= Seconds'
             /\ totalAge'[t] \in Ages \cup {Never} /\ coresAge'[t] \in Ages \cup {Never}
  BY <1>2, <1>3, AgeIsSeconds DEF Ages, Never
<1>5. primeAge' <= Seconds' /\ readAge' <= Seconds' /\ primeAge' \in Ages /\ readAge' \in Ages
  BY <1>1, <1>2, AgeIsSeconds DEF AgeInv, CpuTypes, Ages
<1>6. CpuTypes'
  <2>1. totalAge' \in [Threads -> Ages \cup {Never}]
    BY <1>1, <1>4 DEF Older
  <2>2. coresAge' \in [Threads -> Ages \cup {Never}]
    BY <1>1, <1>4 DEF Older
  <2>. QED
    BY <1>1, <1>5, <2>1, <2>2 DEF CpuTypes
<1>7. AgeInv'
  BY <1>4, <1>5 DEF AgeInv
<1>8. CpuInv'
  <2>1. ASSUME perThread, NEW t \in Workers PROVE totalAge'[t] = coresAge'[t]
    <3>1. totalAge[t] = coresAge[t] /\ t \in Threads
      BY <2>1, LoopIsThread DEF CpuInv
    <3>. QED
      BY <1>3, <3>1
  <2>2. ASSUME ~perThread
        PROVE  /\ totalAge'[LoopThread] = readAge' /\ coresAge'[LoopThread] \in 0..primeAge'
               /\ afterPrime \/ coresAge'[LoopThread] = totalAge'[LoopThread]
    <3>1. /\ totalAge[LoopThread] = readAge /\ coresAge[LoopThread] \in 0..primeAge
          /\ afterPrime \/ coresAge[LoopThread] = totalAge[LoopThread]
          /\ readAge \in Nat /\ primeAge \in Nat
      BY <2>2, AgeIsSeconds DEF CpuInv, CpuTypes
    <3>2. totalAge[LoopThread] # Never /\ coresAge[LoopThread] # Never
      BY <3>1 DEF Never
    <3>3. /\ totalAge'[LoopThread] = totalAge[LoopThread] + 1
          /\ coresAge'[LoopThread] = coresAge[LoopThread] + 1
      BY <1>3, <3>2, LoopIsThread
    <3>. QED
      BY <1>1, <3>1, <3>3
  <2>. QED
    BY <1>1, <2>1, <2>2 DEF CpuInv
<1>. QED
  BY <1>6, <1>7, <1>8

\* The loop reads the cores anew, in its own thread.
LEMMA PrimingKeepsCpu ==
    ASSUME CpuTypes, RateInv, AgeInv, CpuInv, Prime, at' = "top", UNCHANGED rateVars
    PROVE  CpuTypes' /\ AgeInv' /\ CpuInv'
<1>1. /\ coresAge' = [coresAge EXCEPT ![LoopThread] = 0] /\ primeAge' = 0
      /\ afterPrime' = TRUE /\ UNCHANGED <<perThread, totalAge, sample, readAge, Seconds>>
  BY DEF Prime, rateVars, hostVars, Seconds
<1>2. Seconds \in Nat /\ Ages \subseteq Nat /\ 0 \in Ages
  BY RateTypes, AgeIsSeconds
<1>3. /\ coresAge'[LoopThread] = 0
      /\ \A t \in Threads \ {LoopThread} : coresAge'[t] = coresAge[t]
      /\ coresAge' \in [Threads -> Ages \cup {Never}]
  BY <1>1, <1>2, LoopIsThread DEF CpuTypes
<1>4. CpuTypes'
  BY <1>1, <1>2, <1>3 DEF CpuTypes
<1>5. AgeInv'
  BY <1>1, <1>2, <1>3 DEF AgeInv
<1>6. CpuInv'
  <2>1. \A t \in Workers : t \in Threads \ {LoopThread}
    BY WorkerAssumption, LoopIsThread
  <2>. QED
    BY <1>1, <1>3, <2>1 DEF CpuInv
<1>. QED
  BY <1>4, <1>5, <1>6

\* A worker reads total and cores, from its own readings or the shared ones.
LEMMA ReadingKeepsCpu ==
    ASSUME CpuTypes, RateInv, AgeInv, CpuInv, NEW thread \in Workers, CollectCpu(thread),
           at' = "rates", UNCHANGED rateVars
    PROVE  CpuTypes' /\ AgeInv' /\ CpuInv'
<1>. DEFINE k == Kept(thread)
<1>1. /\ sample' = [total |-> Covered(totalAge, thread), cores |-> Covered(coresAge, thread)]
      /\ totalAge' = [totalAge EXCEPT ![k] = 0] /\ coresAge' = [coresAge EXCEPT ![k] = 0]
      /\ readAge' = 0 /\ afterPrime' = FALSE /\ UNCHANGED <<perThread, primeAge, Seconds>>
  BY DEF CollectCpu, rateVars, hostVars, Seconds
<1>2. Seconds \in Nat /\ Ages \subseteq Nat /\ 0 \in Ages
  BY RateTypes, AgeIsSeconds
<1>3. k \in Threads /\ (~perThread => k = LoopThread)
  BY LoopIsThread DEF Kept
<1>4. Covered(totalAge, thread) \in Ages /\ Covered(coresAge, thread) \in Ages
  <2>1. totalAge[k] \in Ages \cup {Never} /\ coresAge[k] \in Ages \cup {Never}
    BY <1>3 DEF CpuTypes
  <2>. QED
    BY <1>2, <2>1 DEF Covered
<1>. HIDE DEF k
<1>5. /\ totalAge'[k] = 0 /\ coresAge'[k] = 0
      /\ \A t \in Threads \ {k} : totalAge'[t] = totalAge[t] /\ coresAge'[t] = coresAge[t]
      /\ totalAge' \in [Threads -> Ages \cup {Never}]
      /\ coresAge' \in [Threads -> Ages \cup {Never}]
  BY <1>1, <1>2, <1>3 DEF CpuTypes
<1>6. CpuTypes'
  BY <1>1, <1>2, <1>4, <1>5 DEF CpuTypes
<1>7. AgeInv'
  BY <1>1, <1>2, <1>5 DEF AgeInv
<1>8. CpuInv'
  <2>1. ASSUME perThread, NEW t \in Workers PROVE totalAge'[t] = coresAge'[t]
    <3>1. t \in Threads /\ totalAge[t] = coresAge[t]
      BY <2>1, LoopIsThread DEF CpuInv
    <3>. QED
      BY <1>5, <3>1
  <2>2. ASSUME ~perThread
        PROVE  totalAge'[LoopThread] = 0 /\ coresAge'[LoopThread] = 0 /\ 0 \in 0..primeAge
    <3>1. primeAge \in Nat
      BY <1>2 DEF CpuTypes
    <3>. QED
      BY <1>3, <1>5, <2>2, <3>1
  <2>. QED
    BY <1>1, <2>1, <2>2 DEF CpuInv
<1>. QED
  BY <1>6, <1>7, <1>8

LEMMA IdleKeepsCpu ==
    ASSUME CpuTypes, AgeInv, CpuInv, UNCHANGED <<cpuVars, Seconds>>,
           at' \in {"start", "top", "asleep", "rates"}
    PROVE  CpuTypes' /\ AgeInv' /\ CpuInv'
  BY DEF cpuVars, CpuTypes, AgeInv, CpuInv

\* A clock that is set makes no reading of the CPU older.
LEMMA ClockKeepsCpu ==
    ASSUME CpuTypes, AgeInv, CpuInv, UNCHANGED <<at, cpuVars>>,
           Seconds \in Nat, Seconds' \in Nat, Seconds <= Seconds'
    PROVE  CpuTypes' /\ AgeInv' /\ CpuInv'
<1>1. CpuTypes' /\ CpuInv'
  BY DEF cpuVars, CpuTypes, CpuInv
<1>2. ASSUME NEW t \in Threads
      PROVE  totalAge'[t] <= Seconds' /\ coresAge'[t] <= Seconds'
  <2>1. /\ totalAge[t] \in Nat \cup {Never} /\ coresAge[t] \in Nat \cup {Never}
        /\ totalAge[t] <= Seconds /\ coresAge[t] <= Seconds
    BY AgeIsSeconds DEF CpuTypes, AgeInv
  <2>2. UNCHANGED <<totalAge, coresAge>>
    BY DEF cpuVars
  <2>. QED
    BY <2>1, <2>2 DEF Never
<1>3. primeAge' <= Seconds' /\ readAge' <= Seconds'
  BY AgeIsSeconds DEF cpuVars, CpuTypes, AgeInv
<1>. QED
  BY <1>1, <1>2, <1>3 DEF AgeInv

-----------------------------------------------------------------------------
(* The invariant *)

LEMMA TypesSplit == FastTypeOK <=> RateTypeOK /\ CpuTypes
  BY DEF FastTypeOK, CpuTypes

LEMMA IdleKeepsRates == ASSUME RateInv, UNCHANGED rateVars PROVE RateInv'
  BY DEF rateVars, hostVars, readingVars, truthVars, RateInv, RateTypeOK, RateFits,
         ReadingInv, Seconds

\* Imported readings are taken in the event loop; no worker has any yet.
LEMMA InitMakesFast == FastInit => FastInv
<1>. SUFFICES ASSUME FastInit PROVE FastInv
  OBVIOUS
<1>1. RateInv
  BY InitMakesRates DEF FastInit
<1>2. /\ perThread \in BOOLEAN /\ at = "start" /\ sample = [total |-> 0, cores |-> 0]
      /\ primeAge = 0 /\ readAge = 0 /\ afterPrime = FALSE
      /\ totalAge = [t \in Threads |-> IF t = LoopThread THEN 0 ELSE Never]
      /\ coresAge = [t \in Threads |-> IF t = LoopThread THEN 0 ELSE Never]
  BY DEF FastInit, Imported
<1>3. 0 \in Ages /\ Seconds \in Nat
  BY <1>1, AgeIsSeconds, RateTypes
<1>4. CpuTypes
  BY <1>2, <1>3 DEF CpuTypes
<1>5. \A t \in Workers : t \in Threads /\ t # LoopThread
  BY WorkerAssumption, LoopIsThread
<1>6. AgeInv
  BY <1>2, <1>3 DEF AgeInv, Never
<1>7. CpuInv
  BY <1>2, <1>5, LoopIsThread DEF CpuInv
<1>. QED
  BY <1>1, <1>4, <1>6, <1>7, TypesSplit DEF FastInv, RateInv

LEMMA NextKeepsFast == FastInv /\ [FastNext]_fastVars => FastInv'
<1>. SUFFICES ASSUME FastInv, [FastNext]_fastVars PROVE FastInv'
  OBVIOUS
<1>1. CpuTypes /\ RateInv /\ AgeInv /\ CpuInv
  BY TypesSplit DEF FastInv
<1>. SUFFICES CpuTypes' /\ RateInv' /\ AgeInv' /\ CpuInv'
  BY DEF FastInv, FastTypeOK, CpuTypes, RateInv
<1>2. at \in {"start", "top", "asleep", "rates"}
  BY <1>1 DEF CpuTypes
<1>3. ASSUME UNCHANGED <<clock, setBacks>> PROVE UNCHANGED Seconds
  BY <1>3 DEF Seconds
<1>4. CASE SecondPasses
  <2>1. RateInv'
    BY <1>1, <1>4, TimeKeepsRates DEF SecondPasses
  <2>. QED
    BY <1>1, <1>4, <2>1, SecondKeepsCpu
<1>5. CASE /\ \/ \E d \in Devices : DeviceGoes(d) \/ DeviceComes(d)
              \/ ClockSetBack
              \/ ClockSetAhead
           /\ UNCHANGED <<at, cpuVars>>
  <2>1. CASE \E d \in Devices : DeviceGoes(d) \/ DeviceComes(d)
    <3>. PICK d \in Devices : DeviceGoes(d) \/ DeviceComes(d)
      BY <2>1
    <3>1. RateInv'
      BY <1>1, DevicesKeepRates
    <3>2. UNCHANGED Seconds
      BY <1>3 DEF DeviceGoes, DeviceComes
    <3>. QED
      BY <1>1, <1>2, <1>5, <3>1, <3>2, IdleKeepsCpu
  <2>2. CASE ClockSetBack \/ ClockSetAhead
    <3>1. RateInv' /\ Seconds <= Seconds' /\ Seconds' \in Nat /\ Seconds \in Nat
      BY <1>1, <2>2, ClockKeepsRates, RateTypes
    <3>. QED
      BY <1>1, <1>5, <3>1, ClockKeepsCpu
  <2>. QED
    BY <1>5, <2>1, <2>2
<1>6. CASE LoopPrimes
  <2>1. RateInv'
    BY <1>1, <1>6, IdleKeepsRates DEF LoopPrimes
  <2>. QED
    BY <1>1, <1>6, <2>1, PrimingKeepsCpu DEF LoopPrimes
<1>7. CASE LoopSleeps \/ LoopFails \/ UNCHANGED fastVars
  <2>1. /\ UNCHANGED <<rateVars, cpuVars>> /\ at' \in {"start", "top", "asleep", "rates"}
    BY <1>2, <1>7 DEF LoopSleeps, LoopFails, fastVars
  <2>2. UNCHANGED Seconds
    BY <1>3, <2>1 DEF rateVars, hostVars
  <2>3. RateInv'
    BY <1>1, <2>1, IdleKeepsRates
  <2>. QED
    BY <1>1, <2>1, <2>2, <2>3, IdleKeepsCpu
<1>8. CASE LoopReadsCpu
  <2>. PICK thread \in Workers : CollectCpu(thread)
    BY <1>8 DEF LoopReadsCpu
  <2>1. RateInv'
    BY <1>1, <1>8, IdleKeepsRates DEF LoopReadsCpu
  <2>. QED
    BY <1>1, <1>8, <2>1, ReadingKeepsCpu DEF LoopReadsCpu
<1>9. CASE LoopReadsRates
  <2>1. RateInv'
    BY <1>1, <1>9, CollectingKeepsRates, FailingKeepsRates DEF LoopReadsRates
  <2>2. UNCHANGED Seconds
    BY <1>3, <1>9 DEF LoopReadsRates, Collect, ReadFails, hostVars
  <2>. QED
    BY <1>1, <1>9, <2>1, <2>2, IdleKeepsCpu DEF LoopReadsRates
<1>. QED
  BY <1>4, <1>5, <1>6, <1>7, <1>8, <1>9 DEF FastNext

\* The readings kept, the clock and the ages agree with what really passed and
\* moved, in every state of the fast collectors.
THEOREM FastInvariant == FastSpec => []FastInv
  BY InitMakesFast, NextKeepsFast, PTL DEF FastSpec

\* Rates and ages stay within what the time that passed allows.
THEOREM FastTypeCorrect == FastSpec => []FastTypeOK
<1>1. FastInv => FastTypeOK
  BY DEF FastInv
<1>. QED
  BY <1>1, FastInvariant, PTL

-----------------------------------------------------------------------------
(* What is reported *)

\* Between two readings, a clock that is not set back shows no less than what
\* passed, and one that is not set at all just that.
LEMMA ElapsedIsSpan ==
    ASSUME RateInv, "back" \notin jumped, prevTime # Never
    PROVE  /\ Elapsed \in Nat /\ span <= Elapsed
           /\ jumped = {} => Elapsed = span
<1>1. /\ clock >= prevTime + span /\ prevTime \in Nat /\ span \in Nat /\ clock \in Nat
      /\ jumped = {} => clock = prevTime + span
  BY RateTypes DEF RateInv, ReadingInv, Never
<1>. QED
  BY <1>1 DEF Elapsed

\* The rate of a device that stayed is what it moved over the time that passed,
\* as long as the clock was not set, after any number of failed readings.
THEOREM ReportsWhatMoved == FastSpec => RatesAreTrue
<1>1. FastInv /\ Collect /\ jumped = {} /\ span > 0 =>
         \A d \in intact \cap DOMAIN rates' : rates'[d] = moved[d] \div span
  <2>. SUFFICES ASSUME FastInv, Collect, jumped = {}, span > 0,
                       NEW d \in intact, d \in DOMAIN rates'
                PROVE  rates'[d] = moved[d] \div span
    OBVIOUS
  <2>1. RateInv
    BY DEF FastInv
  <2>2. d \in DOMAIN counters /\ rates'[d] = Reported(d)
    BY DEF Collect
  <2>3. prevTime # Never /\ d \in DOMAIN prevIo /\ counters[d] = prevIo[d] + moved[d]
    BY <2>1 DEF RateInv, ReadingInv
  <2>4. prevIo[d] \in Nat /\ moved[d] \in Nat
    BY <2>1, <2>2, <2>3, RateTypes
  <2>5. Elapsed = span /\ Known(d)
    BY <2>1, <2>3, ElapsedIsSpan DEF Known
  <2>6. counters[d] >= prevIo[d] /\ counters[d] - prevIo[d] = moved[d]
    BY <2>3, <2>4
  <2>7. Reported(d) = moved[d] \div span
    BY <2>5, <2>6 DEF Reported, Rate
  <2>. QED
    BY <2>2, <2>7
<1>. QED
  BY <1>1, FastInvariant, PTL DEF RatesAreTrue

\* No rate is above the line, of a device that went away and came back neither,
\* as long as the clock was not set back.
THEOREM RatesFitTheLine == FastSpec => NoRateAboveLine
<1>1. FastInv /\ Collect /\ "back" \notin jumped =>
         \A d \in DOMAIN rates' : rates'[d] <= LineRate
  <2>. SUFFICES ASSUME FastInv, Collect, "back" \notin jumped, NEW d \in DOMAIN rates'
                PROVE  rates'[d] <= LineRate
    OBVIOUS
  <2>1. RateInv /\ LineRate \in Nat
    BY RateAssumption DEF FastInv
  <2>2. d \in DOMAIN counters /\ rates'[d] = Reported(d)
    BY DEF Collect
  <2>3. CASE Known(d) /\ Elapsed > 0 /\ counters[d] >= prevIo[d]
    <3>. DEFINE grown == counters[d] - prevIo[d]
                time == Elapsed
    <3>1. span <= time /\ time \in Nat \ {0} /\ span \in Nat
      BY <2>1, <2>3, ElapsedIsSpan, RateTypes DEF Known
    <3>2. counters[d] <= prevIo[d] + LineRate * span
      BY <2>1, <2>2, <2>3 DEF Known, RateInv, ReadingInv
    <3>3. counters[d] \in Nat /\ prevIo[d] \in Nat
      BY <2>1, <2>2, <2>3, RateTypes DEF Known
    <3>4. Reported(d) = grown \div time
      BY <2>3 DEF Reported, Rate
    <3>. HIDE DEF time
    <3>5. /\ LineRate * span \in Nat /\ LineRate * time \in Nat
          /\ LineRate * span <= LineRate * time
      BY <3>1, LineMoves
    <3>6. grown \in Nat /\ grown <= LineRate * time
      BY <2>3, <3>2, <3>3, <3>5
    <3>. HIDE DEF grown, time
    <3>. QED
      BY <2>2, <3>1, <3>4, <3>6, QuotientFitsLine
  <2>4. CASE ~(Known(d) /\ Elapsed > 0 /\ counters[d] >= prevIo[d])
    BY <2>1, <2>2, <2>4 DEF Reported, Rate
  <2>. QED
    BY <2>3, <2>4
<1>. QED
  BY <1>1, FastInvariant, PTL DEF NoRateAboveLine

\* The step from the top of the loop to the rates is collect_cpu in a thread.
LEMMA ReadingStep ==
    ASSUME FastInv, [FastNext]_fastVars, at = "top", at' = "rates"
    PROVE  \E thread \in Workers : CollectCpu(thread)
<1>1. ~SecondPasses /\ ~LoopPrimes /\ ~LoopSleeps /\ ~LoopReadsRates /\ ~LoopFails
  BY DEF SecondPasses, LoopPrimes, LoopSleeps, LoopReadsRates, LoopFails
<1>2. ~UNCHANGED at
  OBVIOUS
<1>. QED
  BY <1>1, <1>2 DEF FastNext, fastVars, LoopReadsCpu

\* A result shows total and cores of the same seconds, read by any thread, but
\* for the first one after a wake-up where threads share the readings.
THEOREM WindowsAgreeAlways == FastSpec => WindowsAgree
<1>1. FastInv /\ [FastNext]_fastVars =>
         (at' = "rates" /\ at = "top" =>
            sample'.total = sample'.cores \/ (afterPrime /\ ~perThread))
  <2>. SUFFICES ASSUME FastInv, [FastNext]_fastVars, at = "top", at' = "rates",
                       ~(afterPrime /\ ~perThread)
                PROVE  sample'.total = sample'.cores
    OBVIOUS
  <2>. PICK thread \in Workers : CollectCpu(thread)
    BY ReadingStep
  <2>1. /\ sample'.total = Covered(totalAge, thread)
        /\ sample'.cores = Covered(coresAge, thread)
    BY DEF CollectCpu
  <2>2. totalAge[Kept(thread)] = coresAge[Kept(thread)]
    <3>1. perThread \in BOOLEAN /\ afterPrime \in BOOLEAN
      BY DEF FastInv, FastTypeOK
    <3>2. CASE perThread
      BY <3>2 DEF FastInv, CpuInv, Kept
    <3>3. CASE ~perThread
      BY <3>3 DEF FastInv, CpuInv, Kept
    <3>. QED
      BY <3>1, <3>2, <3>3
  <2>. QED
    BY <2>1, <2>2 DEF Covered
<1>. QED
  BY <1>1, FastInvariant, PTL DEF FastSpec, WindowsAgree

\* Where threads share the readings, totals follow one another second by second
\* and the cores show nothing from before the last wake-up.
THEOREM ReadingsFollowAlways == FastSpec => ReadingsFollow
<1>1. FastInv /\ [FastNext]_fastVars =>
         (at' = "rates" /\ at = "top" /\ ~perThread =>
            sample'.cores <= primeAge /\ sample'.total = readAge)
  <2>. SUFFICES ASSUME FastInv, [FastNext]_fastVars, at = "top", at' = "rates", ~perThread
                PROVE  sample'.cores <= primeAge /\ sample'.total = readAge
    OBVIOUS
  <2>. PICK thread \in Workers : CollectCpu(thread)
    BY ReadingStep
  <2>1. /\ sample'.total = Covered(totalAge, thread)
        /\ sample'.cores = Covered(coresAge, thread)
        /\ Kept(thread) = LoopThread
    BY DEF CollectCpu, Kept
  <2>2. /\ totalAge[LoopThread] = readAge /\ coresAge[LoopThread] \in 0..primeAge
        /\ readAge \in Nat /\ primeAge \in Nat
    BY AgeIsSeconds DEF FastInv, CpuInv, FastTypeOK
  <2>3. sample'.total = readAge /\ sample'.cores = coresAge[LoopThread]
    BY <2>1, <2>2 DEF Covered, Never
  <2>. QED
    BY <2>2, <2>3
<1>. QED
  BY <1>1, FastInvariant, PTL DEF FastSpec, ReadingsFollow
=============================================================================
