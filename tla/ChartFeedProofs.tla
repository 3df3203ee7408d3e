---------------------------- MODULE ChartFeedProofs ---------------------------
(***************************************************************************)
(* Proofs about ChartFeed, for any size of the buffer, of the history and  *)
(* of the charts, any stamps and any bounds: the ring buffer answers with  *)
(* the newest samples of the running server, no sample falls between the   *)
(* history and the live frames, the charts of a page that has caught up    *)
(* end in the samples of its session, and the feed implements LiveFeed.    *)
(***************************************************************************)
EXTENDS ChartFeed, SequenceTheorems, TLAPS

\* The buffer is the right end of the log.
RingInv ==
    /\ buffer \in Seq(Entries)
    /\ log \in Seq(Entries)
    /\ appended \in 0..MaxAppends
    /\ buffer = LastOf(log, Held)

\* The samples of one server are numbered without gaps.
LogInv ==
    /\ Len(log) <= appended
    /\ \A i \in 1..Len(log) : log[i].data = appended - Len(log) + i

\* Nothing is left of a session that is over, and the one broadcast under way
\* is that of the newest sample.
SessionInv ==
    /\ stage = "off" => pending = 0 /\ channel = <<>>
    /\ pending \in {0, appended}

\* How many points the history of a session has.
Window == IF HistoryPoints < Held THEN HistoryPoints ELSE Held

\* A session that has had its history was sent the samples of the window, but
\* for the one of the broadcast under way.
GapInv ==
    stage = "listening" =>
       \A n \in appended - Window + 1..appended : n \in offered \/ n = pending

Points == 1..MaxAppends
Frames == [type : {"metrics", "history"}, points : Seq(Points)]

\* The newest point of the charts, and the newest sample written to the session.
Newest == IF chart = <<>> THEN 0 ELSE Last(chart)
Sent == IF pending = 0 THEN appended ELSE appended - 1

\* The i-th frame of the channel is the j-th live one, when the h-th is the
\* history and h = 0 says that there is none.
Position(i, h) == IF h # 0 /\ h < i THEN i - 1 ELSE i

\* The page has handled the live frames up to shown; the channel holds those
\* that follow, one by one up to the newest sent, and at most one history among
\* them; the charts end in the samples from the start of the session to shown.
Follows(seen, h) ==
    /\ \A i \in 1..Len(channel) :
          IF i = h THEN channel[i].type = "history"
          ELSE channel[i] = Live(seen + Position(i, h))
    /\ seen + (IF h = 0 THEN Len(channel) ELSE Len(channel) - 1) = Sent
    /\ h # 0 => stage = "listening"
    /\ Newest <= seen
    /\ \A i \in 0..MaxPoints - 1 :
          i < seen - since => i < Len(chart) /\ chart[Len(chart) - i] = seen - i

ChartInv ==
    /\ channel \in Seq(Frames)
    /\ Newest <= appended
    /\ stage # "off" =>
          \E seen \in since..appended, h \in 0..Len(channel) : Follows(seen, h)

\* The inductive invariant of the feed.
FeedInv ==
    /\ RingInv
    /\ FeedTypeOK
    /\ LogInv
    /\ SessionInv
    /\ GapInv
    /\ ChartInv

-----------------------------------------------------------------------------

\* What LastOf returns.
LEMMA LastOfElements ==
    ASSUME NEW T, NEW s \in Seq(T), NEW n \in 0..Len(s)
    PROVE  /\ LastOf(s, n) \in Seq(T)
           /\ Len(LastOf(s, n)) = n
           /\ \A i \in 1..n : LastOf(s, n)[i] = s[Len(s) - n + i]
<1>1. Len(s) \in Nat /\ Len(s) - n + 1 \in Int
  OBVIOUS
<1>2. CASE n = 0
  BY <1>1, <1>2, SubSeqProperties DEF LastOf
<1>3. CASE n # 0
  BY <1>1, <1>3, SubSeqProperties DEF LastOf
<1>. QED
  BY <1>2, <1>3

\* Two sequences of the same length and elements are one.
LEMMA SameElements ==
    ASSUME NEW s \in Seq(Entries), NEW t \in Seq(Entries), Len(s) = Len(t),
           \A i \in 1..Len(s) : s[i] = t[i]
    PROVE  s = t
  BY SeqEqual

LEMMA LastOfAll ==
    ASSUME NEW s \in Seq(Entries)
    PROVE  LastOf(s, Len(s)) = s
<1>. DEFINE n == Len(s)
            end == LastOf(s, n)
<1>1. n \in 0..Len(s)
  OBVIOUS
<1>2. /\ end \in Seq(Entries) /\ Len(end) = n
      /\ \A i \in 1..n : end[i] = s[Len(s) - n + i]
  <2>. HIDE DEF n
  <2>. QED
    BY <1>1, LastOfElements
<1>. HIDE DEF end
<1>3. \A i \in 1..Len(end) : end[i] = s[i]
  BY <1>1, <1>2
<1>4. end = s
  BY <1>2, <1>3, SameElements
<1>. QED
  BY <1>4 DEF end

\* deque.append keeps the right end, below its limit and at it.
LEMMA PushKeepsTheEnd ==
    ASSUME NEW b \in Seq(Entries), NEW l \in Seq(Entries), NEW e \in Entries,
           b = LastOf(l, IF Len(l) < MaxSize THEN Len(l) ELSE MaxSize)
    PROVE  /\ Push(b, e) \in Seq(Entries)
           /\ l \o <<e>> \in Seq(Entries)
           /\ Push(b, e) =
                 LastOf(l \o <<e>>, IF Len(l \o <<e>>) < MaxSize
                                    THEN Len(l \o <<e>>) ELSE MaxSize)
<1>. DEFINE longer == l \o <<e>>
<1>1. MaxSize \in Nat \ {0} /\ Len(l) \in Nat
  BY RingAssumption
<1>2. /\ longer \in Seq(Entries) /\ Len(longer) = Len(l) + 1
      /\ \A i \in 1..Len(l) : longer[i] = l[i]
      /\ longer[Len(l) + 1] = e
  OBVIOUS
<1>. HIDE DEF longer
<1>3. CASE Len(l) < MaxSize
  <2>1. b = l
    <3>1. (IF Len(l) < MaxSize THEN Len(l) ELSE MaxSize) = Len(l)
      BY <1>3
    <3>. QED
      BY <3>1, LastOfAll
  <2>3. Push(b, e) = longer
    BY <1>3, <2>1 DEF Push, longer
  <2>4. LastOf(longer, Len(longer)) = longer
    BY <1>2, LastOfAll
  <2>5. (IF Len(longer) < MaxSize THEN Len(longer) ELSE MaxSize) = Len(longer)
    BY <1>1, <1>2, <1>3
  <2>. QED
    BY <1>2, <2>3, <2>4, <2>5 DEF longer
<1>4. CASE ~(Len(l) < MaxSize)
  <2>0. MaxSize \in 0..Len(l) /\ b = LastOf(l, MaxSize)
    BY <1>1, <1>4
  <2>1. Len(b) = MaxSize /\ \A i \in 1..MaxSize : b[i] = l[Len(l) - MaxSize + i]
    BY <2>0, LastOfElements
  <2>2. Push(b, e) = Tail(b) \o <<e>> /\ b # <<>>
    <3>1. ~(Len(b) < MaxSize) /\ Len(b) # 0
      BY <1>1, <2>1
    <3>2. b # <<>>
      BY <3>1
    <3>. QED
      BY <3>1, <3>2 DEF Push
  <2>3. /\ Tail(b) \in Seq(Entries) /\ Len(Tail(b)) = MaxSize - 1
        /\ \A i \in 1..MaxSize - 1 : Tail(b)[i] = b[i + 1]
    BY <1>1, <2>1, <2>2, HeadTailProperties
  <2>. DEFINE pushed == Push(b, e)
              end == LastOf(longer, MaxSize)
  <2>4. /\ pushed \in Seq(Entries) /\ Len(pushed) = MaxSize
        /\ \A i \in 1..MaxSize - 1 : pushed[i] = b[i + 1]
        /\ pushed[MaxSize] = e
    <3>. DEFINE tail == Tail(b)
    <3>1. pushed = tail \o <<e>>
      BY <2>2
    <3>2. /\ tail \in Seq(Entries) /\ Len(tail) = MaxSize - 1
          /\ \A i \in 1..MaxSize - 1 : tail[i] = b[i + 1]
      BY <2>3
    <3>. HIDE DEF tail, pushed
    <3>. QED
      BY <1>1, <3>1, <3>2
  <2>5. /\ end \in Seq(Entries) /\ Len(end) = MaxSize
        /\ \A i \in 1..MaxSize : end[i] = longer[Len(longer) - MaxSize + i]
    <3>1. MaxSize \in 0..Len(longer)
      BY <1>1, <1>2, <1>4
    <3>. QED
      BY <1>2, <3>1, LastOfElements
  <2>. HIDE DEF pushed, end
  <2>6. \A i \in 1..MaxSize : pushed[i] = longer[Len(longer) - MaxSize + i]
    <3>. SUFFICES ASSUME NEW i \in 1..MaxSize
                  PROVE  pushed[i] = longer[Len(longer) - MaxSize + i]
      OBVIOUS
    <3>1. CASE i = MaxSize
      <4>1. Len(longer) - MaxSize + i = Len(l) + 1
        BY <1>1, <1>2, <3>1
      <4>. QED
        BY <1>2, <2>4, <3>1, <4>1
    <3>2. CASE i # MaxSize
      <4>1. i \in 1..MaxSize - 1 /\ i + 1 \in 1..MaxSize
        BY <1>1, <3>2
      <4>2. /\ Len(l) - MaxSize + (i + 1) \in 1..Len(l)
            /\ Len(l) - MaxSize + (i + 1) = Len(longer) - MaxSize + i
        BY <1>1, <1>2, <1>4, <4>1
      <4>3. pushed[i] = b[i + 1] /\ b[i + 1] = l[Len(l) - MaxSize + (i + 1)]
        BY <2>1, <2>4, <4>1
      <4>. QED
        BY <1>2, <4>2, <4>3
    <3>. QED
      BY <3>1, <3>2
  <2>7. pushed = end
    BY <2>4, <2>5, <2>6, SameElements
  <2>8. (IF Len(longer) < MaxSize THEN Len(longer) ELSE MaxSize) = MaxSize
    BY <1>1, <1>2, <1>4
  <2>. QED
    BY <1>2, <2>4, <2>7, <2>8 DEF pushed, end, longer
<1>. QED
  BY <1>3, <1>4

\* A right end of what the buffer holds is one of what was appended.
LEMMA EndOfTheEnd ==
    ASSUME RingInv, NEW k \in 0..Held
    PROVE  LastOf(buffer, k) = LastOf(log, k)
<1>1. /\ Held \in 0..Len(log) /\ Len(log) \in Nat /\ MaxSize \in Nat \ {0}
  BY RingAssumption DEF Held, RingInv
<1>2. /\ Len(buffer) = Held
      /\ \A i \in 1..Held : buffer[i] = log[Len(log) - Held + i]
  BY <1>1, LastOfElements DEF RingInv
<1>3. k \in 0..Len(buffer) /\ k \in 0..Len(log) /\ k \in Nat
  BY <1>1, <1>2
<1>4. /\ LastOf(buffer, k) \in Seq(Entries) /\ Len(LastOf(buffer, k)) = k
      /\ \A i \in 1..k : LastOf(buffer, k)[i] = buffer[Held - k + i]
  <2>1. buffer \in Seq(Entries)
    BY DEF RingInv
  <2>2. /\ LastOf(buffer, k) \in Seq(Entries) /\ Len(LastOf(buffer, k)) = k
        /\ \A i \in 1..k : LastOf(buffer, k)[i] = buffer[Len(buffer) - k + i]
    BY <1>3, <2>1, LastOfElements
  <2>. QED
    BY <1>2, <2>2
<1>5. /\ LastOf(log, k) \in Seq(Entries) /\ Len(LastOf(log, k)) = k
      /\ \A i \in 1..k : LastOf(log, k)[i] = log[Len(log) - k + i]
  BY <1>3, LastOfElements DEF RingInv
<1>6. \A i \in 1..k : LastOf(buffer, k)[i] = LastOf(log, k)[i]
  BY <1>1, <1>2, <1>3, <1>4, <1>5
<1>. QED
  BY <1>4, <1>5, <1>6, SameElements

\* get_latest(n) of the right end is the right end, or all of it.
LEMMA LatestOfTheEnd ==
    ASSUME RingInv, NEW n \in 1..MaxSize + 1
    PROVE  GetLatest(n) = LastOf(log, IF n < Held THEN n ELSE Held)
<1>1. /\ Held \in 0..Len(log) /\ Len(log) \in Nat /\ MaxSize \in Nat \ {0}
  BY RingAssumption DEF Held, RingInv
<1>2. /\ Len(buffer) = Held
      /\ \A i \in 1..Held : buffer[i] = log[Len(log) - Held + i]
  BY <1>1, LastOfElements DEF RingInv
<1>3. CASE n >= Held
  BY <1>1, <1>2, <1>3 DEF GetLatest, RingInv
<1>4. CASE n < Held
  <2>0. n \in Nat /\ n > 0 /\ n \in 0..Len(buffer) /\ n \in 0..Len(log)
    BY <1>1, <1>2, <1>4
  <2>1. GetLatest(n) = LastOf(buffer, n)
    <3>1. -n \in Int /\ ~(-n >= 0) /\ ~(n >= Len(buffer)) /\ Len(buffer) + (-n) = Len(buffer) - n
      BY <1>1, <1>2, <1>4, <2>0
    <3>2. Len(buffer) + (-n) > 0
      BY <1>1, <1>2, <1>4, <2>0
    <3>. QED
      BY <3>1, <3>2 DEF GetLatest, SliceFrom, LastOf
  <2>2. n \in 0..Held
    BY <1>1, <1>4, <2>0
  <2>3. LastOf(buffer, n) = LastOf(log, n)
    BY <2>2, EndOfTheEnd
  <2>. QED
    BY <1>4, <2>1, <2>3
<1>. QED
  BY <1>1, <1>3, <1>4

\* get_latest(n) is some right end for every other integer: a slice from the
\* left, [-0:] included, ends with the newest entry too.
LEMMA AnyLatestIsAnEnd ==
    ASSUME RingInv, NEW n \in Int
    PROVE  \E k \in 0..Held : GetLatest(n) = LastOf(log, k)
<1>1. Held \in Nat /\ Len(buffer) = Held
  BY LastOfElements, RingAssumption DEF Held, RingInv
<1>2. CASE n >= 1
  <2>1. CASE n <= MaxSize
    <3>1. n \in 1..MaxSize + 1 /\ (IF n < Held THEN n ELSE Held) \in 0..Held
      BY <1>1, <1>2, <2>1, RingAssumption
    <3>. QED
      BY <3>1, LatestOfTheEnd
  <2>2. CASE n > MaxSize
    <3>1. n >= Len(buffer)
      BY <1>1, <2>2, RingAssumption DEF Held, RingInv
    <3>2. GetLatest(n) = buffer
      BY <3>1 DEF GetLatest
    <3>. QED
      BY <1>1, <3>2 DEF RingInv
  <2>. QED
    BY <2>1, <2>2, RingAssumption
<1>3. CASE n <= 0
  <2>. DEFINE m == -n
  <2>1. m \in Nat
    BY <1>3
  <2>2. CASE m < Held
    <3>1. /\ Held - m \in 0..Held /\ Len(buffer) - (Held - m) + 1 = m + 1
          /\ n >= Len(buffer) => n = 0 /\ Held = 0
      BY <1>1, <1>3, <2>1, <2>2
    <3>2. ~(n >= Len(buffer))
      BY <1>1, <2>1, <2>2, <3>1
    <3>3. GetLatest(n) = LastOf(buffer, Held - m)
      BY <2>1, <3>1, <3>2 DEF GetLatest, SliceFrom, LastOf
    <3>. QED
      BY <3>1, <3>3, EndOfTheEnd
  <2>3. CASE m >= Held
    <3>1. GetLatest(n) = <<>>
      <4>1. CASE n >= Len(buffer)
        <5>1. Len(buffer) = 0 /\ GetLatest(n) = buffer
          BY <1>1, <1>3, <4>1 DEF GetLatest
        <5>. QED
          BY <5>1, EmptySeq DEF RingInv
      <4>2. CASE ~(n >= Len(buffer))
        <5>1. GetLatest(n) = SubSeq(buffer, m + 1, Len(buffer)) /\ m + 1 > Len(buffer)
          BY <1>1, <2>1, <2>3, <4>2 DEF GetLatest, SliceFrom
        <5>2. buffer \in Seq(Entries) /\ m + 1 \in Int /\ Len(buffer) \in Int
          BY <1>1, <2>1 DEF RingInv
        <5>. QED
          BY <5>1, <5>2, SubSeqProperties, EmptySeq
      <4>. QED
        BY <4>1, <4>2
    <3>2. LastOf(log, 0) = <<>> /\ 0 \in 0..Held
      BY <1>1, LastOfElements, EmptySeq DEF RingInv
    <3>. QED
      BY <3>1, <3>2
  <2>. QED
    BY <1>1, <2>1, <2>2, <2>3
<1>. QED
  BY <1>2, <1>3

-----------------------------------------------------------------------------

LEMMA InitMakesRing ==
    ASSUME FeedInit
    PROVE  RingInv
<1>1. buffer = <<>> /\ log = <<>> /\ appended = 0
  BY DEF FeedInit, RingInit
<1>2. Held = 0
  BY <1>1, RingAssumption DEF Held
<1>3. LastOf(<<>>, 0) = <<>>
  BY LastOfElements DEF LastOf
<1>. QED
  BY <1>1, <1>2, <1>3, RingAssumption DEF RingInv

LEMMA NextKeepsRing ==
    ASSUME RingInv, [FeedNext]_feedVars
    PROVE  RingInv'
<1>0. ASSUME UNCHANGED ringVars PROVE RingInv'
  BY <1>0 DEF RingInv, ringVars, Held
<1>1. ASSUME NEW t \in Stamps, Sample(t) PROVE RingInv'
  <2>. DEFINE e == [timestamp |-> t, data |-> appended + 1]
  <2>1. /\ buffer' = Push(buffer, e) /\ log' = log \o <<e>>
        /\ appended < MaxAppends /\ appended' = appended + 1
    BY <1>1 DEF Sample, AppendEntry
  <2>2. e \in Entries /\ appended' \in 0..MaxAppends
    BY <2>1, RingAssumption DEF Entries, RingInv
  <2>. HIDE DEF e
  <2>3. /\ Push(buffer, e) \in Seq(Entries)
        /\ log \o <<e>> \in Seq(Entries)
        /\ Push(buffer, e) =
              LastOf(log \o <<e>>, IF Len(log \o <<e>>) < MaxSize
                                   THEN Len(log \o <<e>>) ELSE MaxSize)
    BY <2>2, PushKeepsTheEnd DEF RingInv, Held
  <2>. QED
    BY <2>1, <2>2, <2>3 DEF RingInv, Held
<1>2. CASE ServerRestarts
  <2>1. buffer' = <<>> /\ log' = <<>> /\ appended' = appended
    BY <1>2 DEF ServerRestarts, ClearAll
  <2>2. Held' = 0
    BY <2>1, RingAssumption DEF Held
  <2>3. LastOf(<<>>, 0) = <<>>
    BY LastOfElements DEF LastOf
  <2>. QED
    BY <2>1, <2>2, <2>3 DEF RingInv
<1>3. CASE SendLive \/ SessionOpens \/ SysInfoIsSent \/ HistoryIsSent
  BY <1>0, <1>3 DEF SendLive, SessionOpens, SysInfoIsSent, HistoryIsSent
<1>4. CASE SessionEnds \/ PageReloads \/ PageReceives
  BY <1>0, <1>4 DEF SessionEnds, PageReloads, PageReceives
<1>5. CASE UNCHANGED feedVars
  BY <1>0, <1>5 DEF feedVars
<1>. QED
  BY <1>1, <1>2, <1>3, <1>4, <1>5 DEF FeedNext

\* At every step of every session, restart and reload the buffer is the right
\* end of what the running server sampled.
THEOREM BufferIsTheEnd == FeedSpec => []RingInv
<1>1. FeedInit => RingInv
  BY InitMakesRing
<1>2. RingInv /\ [FeedNext]_feedVars => RingInv'
  BY NextKeepsRing
<1>. QED
  BY <1>1, <1>2, PTL DEF FeedSpec

\* get_latest and get_since answer with the newest samples of the running
\* server, for any size of the buffer and any readings of the wall clock.
THEOREM LatestAnswers == FeedSpec => []LatestAreTheNewest
<1>1. RingInv => LatestAreTheNewest
  <2>. SUFFICES ASSUME RingInv PROVE LatestAreTheNewest
    OBVIOUS
  <2>1. \A n \in 1..MaxSize + 1 :
           GetLatest(n) = LastOf(log, IF n < Held THEN n ELSE Held)
    BY LatestOfTheEnd
  <2>2. \A n \in (-MaxSize)..0 : \E k \in 0..Held : GetLatest(n) = LastOf(log, k)
    BY AnyLatestIsAnEnd, RingAssumption
  <2>3. buffer = LastOf(log, Held)
    BY DEF RingInv
  <2>. QED
    BY <2>1, <2>2, <2>3, Zenon DEF LatestAreTheNewest, GetSince
<1>. QED
  BY <1>1, BufferIsTheEnd, PTL

\* /api/history passes any integer on to get_latest (main.py line 94): whatever
\* it is, the answer is empty or ends with the newest entry and has no gap.
THEOREM AnyRequestGetsAnEnd ==
    FeedSpec => [](\A n \in Int : \E k \in 0..Held : GetLatest(n) = LastOf(log, k))
<1>1. RingInv => \A n \in Int : \E k \in 0..Held : GetLatest(n) = LastOf(log, k)
  BY AnyLatestIsAnEnd
<1>. QED
  BY <1>1, BufferIsTheEnd, PTL

-----------------------------------------------------------------------------
(* The samples of the log and the gap between history and live frames *)

LEMMA NextKeepsLog ==
    ASSUME RingInv, LogInv, [FeedNext]_feedVars
    PROVE  LogInv'
<1>. USE RingAssumption DEF RingInv
<1>1. ASSUME UNCHANGED ringVars PROVE LogInv'
  BY <1>1 DEF LogInv, ringVars
<1>2. ASSUME NEW t \in Stamps, Sample(t) PROVE LogInv'
  <2>. DEFINE e == [timestamp |-> t, data |-> appended + 1]
  <2>1. log' = log \o <<e>> /\ appended' = appended + 1 /\ e.data = appended + 1
    BY <1>2 DEF Sample, AppendEntry
  <2>. HIDE DEF e
  <2>2. /\ Len(log') = Len(log) + 1 /\ Len(log) \in Nat /\ appended \in Nat
        /\ \A i \in 1..Len(log) : log'[i] = log[i]
        /\ log'[Len(log) + 1] = e
    BY <2>1
  <2>3. ASSUME NEW i \in 1..Len(log')
        PROVE  log'[i].data = appended' - Len(log') + i
    <3>1. appended' - Len(log') + i = appended - Len(log) + i
      BY <2>1, <2>2
    <3>2. CASE i = Len(log) + 1
      BY <2>1, <2>2, <3>1, <3>2
    <3>3. CASE i # Len(log) + 1
      <4>1. i \in 1..Len(log)
        BY <2>2, <3>3
      <4>. QED
        BY <2>2, <3>1, <4>1 DEF LogInv
    <3>. QED
      BY <3>2, <3>3
  <2>4. Len(log') <= appended'
    BY <2>1, <2>2 DEF LogInv
  <2>. QED
    BY <2>3, <2>4 DEF LogInv
<1>3. CASE ServerRestarts
  BY <1>3 DEF ServerRestarts, ClearAll, LogInv
<1>4. CASE SendLive \/ SessionOpens \/ SysInfoIsSent \/ HistoryIsSent
  BY <1>1, <1>4 DEF SendLive, SessionOpens, SysInfoIsSent, HistoryIsSent
<1>5. CASE SessionEnds \/ PageReloads \/ PageReceives \/ UNCHANGED feedVars
  BY <1>1, <1>5 DEF SessionEnds, PageReloads, PageReceives, feedVars
<1>. QED
  BY <1>2, <1>3, <1>4, <1>5 DEF FeedNext

LEMMA NextKeepsSession ==
    ASSUME RingInv, SessionInv, [FeedNext]_feedVars
    PROVE  SessionInv'
<1>. USE DEF SessionInv
<1>1. ASSUME NEW t \in Stamps, Sample(t) PROVE SessionInv'
  BY <1>1 DEF Sample, AppendEntry
<1>2. CASE SendLive
  BY <1>2 DEF SendLive, ringVars
<1>3. CASE SessionOpens \/ SysInfoIsSent \/ HistoryIsSent
  BY <1>3 DEF SessionOpens, SysInfoIsSent, HistoryIsSent, ringVars
<1>4. CASE SessionEnds \/ ServerRestarts
  BY <1>4 DEF SessionEnds, ServerRestarts, EndSession
<1>5. CASE PageReloads \/ PageReceives \/ UNCHANGED feedVars
  BY <1>5 DEF PageReloads, PageReceives, feedVars, sessionVars, ringVars
<1>. QED
  BY <1>1, <1>2, <1>3, <1>4, <1>5 DEF FeedNext

LEMMA WindowFits ==
    ASSUME RingInv, LogInv
    PROVE  /\ Held \in Nat /\ Window \in Nat /\ Window <= Held
           /\ Held <= Len(log) /\ Len(log) <= appended
           /\ Len(log) \in Nat /\ appended \in Nat
  BY RingAssumption, FeedAssumption DEF RingInv, LogInv, Held, Window

\* get_latest answers with consecutive samples that end in the newest.
LEMMA LatestSamples ==
    ASSUME RingInv, LogInv, NEW n \in Nat \ {0}
    PROVE  LET latest == GetLatest(n)
               m == IF n < Held THEN n ELSE Held
           IN  /\ latest \in Seq(Entries)
               /\ Len(latest) = m
               /\ \A i \in 1..m : latest[i].data = appended - m + i
<1>. DEFINE latest == GetLatest(n)
            m == IF n < Held THEN n ELSE Held
<1>1. latest = LastOf(log, m)
  <2>1. CASE n <= MaxSize
    <3>1. n \in 1..MaxSize + 1
      BY <2>1, RingAssumption
    <3>. QED
      BY <3>1, LatestOfTheEnd
  <2>2. CASE n > MaxSize
    <3>1. /\ Held \in 0..Len(log) /\ Held <= MaxSize /\ Len(log) \in Nat
          /\ log \in Seq(Entries) /\ buffer = LastOf(log, Held)
      BY RingAssumption DEF Held, RingInv
    <3>2. Len(buffer) = Held
      BY <3>1, LastOfElements
    <3>3. n >= Len(buffer) /\ ~(n < Held)
      BY <2>2, <3>1, <3>2, RingAssumption
    <3>. QED
      BY <3>1, <3>3 DEF GetLatest
  <2>. QED
    BY <2>1, <2>2, RingAssumption
<1>2. m \in 0..Len(log) /\ log \in Seq(Entries) /\ Len(log) \in Nat /\ appended \in Nat
  BY WindowFits, RingAssumption DEF RingInv
<1>. HIDE DEF latest, m
<1>3. /\ latest \in Seq(Entries) /\ Len(latest) = m
      /\ \A i \in 1..m : latest[i] = log[Len(log) - m + i]
  BY <1>1, <1>2, LastOfElements
<1>4. ASSUME NEW i \in 1..m PROVE latest[i].data = appended - m + i
  <2>. DEFINE k == Len(log) - m + i
  <2>1. k \in 1..Len(log) /\ appended - Len(log) + k = appended - m + i
    BY <1>2
  <2>2. latest[i] = log[k]
    BY <1>3
  <2>. HIDE DEF k
  <2>. QED
    BY <2>1, <2>2 DEF LogInv
<1>. QED
  BY <1>3, <1>4 DEF latest, m

LEMMA HistorySamples ==
    ASSUME RingInv, LogInv
    PROVE  /\ GetLatest(HistoryPoints) \in Seq(Entries)
           /\ Len(GetLatest(HistoryPoints)) = Window
           /\ \A i \in 1..Window :
                 GetLatest(HistoryPoints)[i].data = appended - Window + i
<1>1. HistoryPoints \in Nat \ {0}
  BY FeedAssumption
<1>. QED
  BY <1>1, LatestSamples DEF Window

\* The points of the history are the samples of the window.
LEMMA HistoryIsWindow ==
    ASSUME RingInv, LogInv, HistoryIsSent
    PROVE  offered' = offered \cup appended - Window + 1..appended
<1>. DEFINE latest == GetLatest(HistoryPoints)
            points == [i \in DOMAIN latest |-> latest[i].data]
<1>1. offered' = offered \cup Range(points)
  BY DEF HistoryIsSent
<1>2. /\ DOMAIN latest = 1..Window
      /\ \A i \in 1..Window : latest[i].data = appended - Window + i
  BY HistorySamples
<1>. HIDE DEF latest
<1>3. Range(points) = {appended - Window + i : i \in 1..Window}
  BY <1>2 DEF Range
<1>4. {appended - Window + i : i \in 1..Window} = appended - Window + 1..appended
  <2>1. ASSUME NEW n \in appended - Window + 1..appended
        PROVE  n \in {appended - Window + i : i \in 1..Window}
    <3>1. n - (appended - Window) \in 1..Window
          /\ n = appended - Window + (n - (appended - Window))
      BY WindowFits
    <3>. QED
      BY <3>1
  <2>. QED
    BY <2>1, WindowFits
<1>. QED
  BY <1>1, <1>3, <1>4

LEMMA NextKeepsGap ==
    ASSUME RingInv, LogInv, SessionInv, GapInv, RingInv', LogInv',
           [FeedNext]_feedVars
    PROVE  GapInv'
<1>1. ASSUME stage' # "listening" PROVE GapInv'
  BY <1>1 DEF GapInv
<1>2. ASSUME UNCHANGED <<ringVars, stage, pending>>, offered \subseteq offered'
      PROVE  GapInv'
  BY <1>2 DEF GapInv, Window, Held, ringVars
<1>3. ASSUME NEW t \in Stamps, Sample(t) PROVE GapInv'
  <2>. DEFINE first == appended' - Window' + 1
  <2>. SUFFICES ASSUME stage = "listening", NEW n \in first..appended'
                PROVE  n \in offered' \/ n = pending'
    BY <1>3 DEF Sample, GapInv
  <2>1. /\ pending = 0 /\ appended' = appended + 1 /\ offered' = offered
        /\ pending' = appended + 1
    BY <1>3 DEF Sample, AppendEntry
  <2>2. /\ first \in Int /\ appended - Window + 1 <= first
        /\ appended \in Nat /\ Window \in Nat /\ Window <= appended
    <3>1. Len(log') = Len(log) + 1 /\ Len(log) \in Nat
      BY <1>3, RingAssumption DEF Sample, AppendEntry, RingInv
    <3>2. Window' \in Nat
      <4>1. Held' \in Nat
        BY <3>1, RingAssumption DEF Held
      <4>. QED
        BY <4>1, FeedAssumption DEF Window
    <3>3. Window' <= Window + 1
      BY <3>1, WindowFits, RingAssumption, FeedAssumption DEF Window, Held
    <3>4. appended \in Nat /\ Window \in Nat /\ Window <= appended
      BY WindowFits
    <3>. DEFINE w == Window'
    <3>5. w \in Nat
      BY <3>2
    <3>6. w <= Window + 1
      BY <3>3
    <3>7. first = (appended + 1 - w) + 1
      BY <2>1, <3>4, <3>5
    <3>. HIDE DEF first, w
    <3>. QED
      BY <3>4, <3>5, <3>6, <3>7
  <2>. HIDE DEF first
  <2>3. CASE n = appended + 1
    BY <2>1, <2>3
  <2>4. CASE n # appended + 1
    <3>1. n \in appended - Window + 1..appended /\ n # 0
      BY <2>1, <2>2, <2>4
    <3>. QED
      BY <2>1, <3>1 DEF GapInv
  <2>. QED
    BY <2>3, <2>4
<1>4. CASE SendLive
  BY <1>4 DEF SendLive, GapInv, Window, Held, ringVars
<1>5. CASE HistoryIsSent
  <2>1. offered' = offered \cup appended - Window + 1..appended
    BY <1>5, HistoryIsWindow
  <2>2. UNCHANGED <<appended, Window>>
    BY <1>5 DEF HistoryIsSent, ringVars, Window, Held
  <2>. QED
    BY <2>1, <2>2 DEF GapInv
<1>6. CASE SessionOpens \/ SysInfoIsSent \/ SessionEnds \/ ServerRestarts
  BY <1>1, <1>6 DEF SessionOpens, SysInfoIsSent, SessionEnds, ServerRestarts, EndSession
<1>7. CASE PageReloads \/ PageReceives \/ UNCHANGED feedVars
  BY <1>2, <1>7 DEF PageReloads, PageReceives, feedVars, sessionVars
<1>. QED
  BY <1>3, <1>4, <1>5, <1>6, <1>7 DEF FeedNext

-----------------------------------------------------------------------------
(* The charts and the channel *)

\* A push at the right end, with a shift if the chart was full.
LEMMA PushPoint ==
    ASSUME NEW c \in Seq(Points), Len(c) <= MaxPoints, NEW x \in Points
    PROVE  LET longer == c \o <<x>>
               d == IF Len(longer) > MaxPoints THEN Tail(longer) ELSE longer
           IN  /\ d \in Seq(Points) /\ d # <<>> /\ Len(d) <= MaxPoints
               /\ d[Len(d)] = x
               /\ \A i \in 1..MaxPoints - 1 :
                     i - 1 < Len(c) => i < Len(d) /\ d[Len(d) - i] = c[Len(c) - (i - 1)]
<1>. DEFINE longer == c \o <<x>>
            n == Len(c)
<1>1. MaxPoints \in Nat \ {0} /\ n \in Nat /\ n <= MaxPoints
  BY FeedAssumption
<1>2. /\ longer \in Seq(Points) /\ Len(longer) = n + 1
      /\ \A i \in 1..n : longer[i] = c[i]
      /\ longer[n + 1] = x
  OBVIOUS
<1>3. longer # <<>>
  BY <1>1, <1>2
<1>4. /\ Tail(longer) \in Seq(Points) /\ Len(Tail(longer)) = n
      /\ \A i \in 1..n : Tail(longer)[i] = longer[i + 1]
  BY <1>1, <1>2, <1>3, HeadTailProperties
<1>5. ASSUME NEW i \in 1..MaxPoints - 1, i - 1 < n
      PROVE  n + 1 - i \in 1..n /\ n + 1 - i = n - (i - 1)
  BY <1>1, <1>5
<1>6. CASE n = MaxPoints
  <2>. DEFINE d == Tail(longer)
  <2>1. d \in Seq(Points) /\ Len(d) = n /\ d # <<>> /\ d[n] = x
    BY <1>1, <1>2, <1>4, <1>6
  <2>2. ASSUME NEW i \in 1..MaxPoints - 1, i - 1 < n
        PROVE  i < n /\ d[n - i] = c[n - (i - 1)]
    <3>1. n - i \in 1..n /\ n - i + 1 = n + 1 - i /\ i < n
      BY <1>1, <1>6
    <3>2. d[n - i] = longer[n + 1 - i]
      BY <1>4, <3>1
    <3>. QED
      BY <1>2, <1>5, <2>2, <3>1, <3>2
  <2>3. Len(longer) > MaxPoints
    BY <1>1, <1>2, <1>6
  <2>. HIDE DEF longer
  <2>. QED
    BY <1>1, <1>6, <2>1, <2>2, <2>3 DEF longer
<1>7. CASE n # MaxPoints
  <2>1. ~(Len(longer) > MaxPoints) /\ Len(longer) = n + 1
    BY <1>1, <1>2, <1>7
  <2>2. ASSUME NEW i \in 1..MaxPoints - 1, i - 1 < n
        PROVE  i < n + 1 /\ longer[n + 1 - i] = c[n - (i - 1)]
    BY <1>1, <1>2, <1>5, <2>2
  <2>. HIDE DEF longer
  <2>. QED
    BY <1>1, <1>2, <1>3, <2>1, <2>2 DEF longer
<1>. QED
  BY <1>6, <1>7

LEMMA ChartTypes ==
    ASSUME RingInv, FeedTypeOK, SessionInv, ChartInv
    PROVE  /\ appended \in Nat /\ MaxPoints \in Nat \ {0}
           /\ pending \in Nat /\ (pending # 0 => pending = appended)
           /\ Sent \in Int /\ Sent <= appended
           /\ chart \in Seq(1..MaxAppends) /\ Len(chart) <= MaxPoints
           /\ channel \in Seq(Frames) /\ Len(channel) \in Nat
           /\ stage # "off" => since \in 0..MaxAppends
  BY FeedAssumption, RingAssumption
  DEF RingInv, FeedTypeOK, SessionInv, ChartInv, Sent, NoSession

LEMMA NewestIsPoint ==
    ASSUME RingInv, FeedTypeOK, SessionInv, ChartInv
    PROVE  Newest \in {0} \cup Points
<1>1. ASSUME chart # <<>> PROVE chart[Len(chart)] \in Points
  <2>1. chart \in Seq(Points)
    BY ChartTypes DEF Points
  <2>2. Len(chart) \in 1..Len(chart)
    BY <1>1, <2>1, EmptySeq
  <2>. QED
    BY <2>1, <2>2, ElementOfSeq
<1>. QED
  BY <1>1 DEF Newest, Last

LEMMA ReceivingKeepsChart ==
    ASSUME RingInv, FeedTypeOK, SessionInv, ChartInv, PageReceives
    PROVE  ChartInv'
<1>. DEFINE frame == Head(channel)
            rest == Tail(channel)
<1>1. /\ channel # <<>> /\ channel' = rest
      /\ chart' = IF frame.type = "metrics" THEN UpdateFastMetrics(frame.points) ELSE chart
      /\ UNCHANGED <<appended, pending, since, stage>>
  BY DEF PageReceives, LoadHistory, ringVars
<1>2. /\ rest \in Seq(Frames) /\ Len(rest) = Len(channel) - 1 /\ Len(channel) \in Nat \ {0}
      /\ \A i \in 1..Len(channel) - 1 : rest[i] = channel[i + 1]
      /\ frame = channel[1]
  BY <1>1, HeadTailProperties, ChartTypes
<1>. HIDE DEF frame, rest
<1>3. Sent' = Sent
  BY <1>1 DEF Sent
<1>4. stage # "off"
  BY <1>1 DEF SessionInv
<1>5. PICK seen \in since..appended, h \in 0..Len(channel) : Follows(seen, h)
  BY <1>4 DEF ChartInv
<1>6. seen \in Nat /\ h \in Nat /\ since \in Nat /\ seen >= since
  BY <1>4, ChartTypes
<1>7. CASE h = 1
  <2>1. chart' = chart
    BY <1>1, <1>2, <1>5, <1>7 DEF Follows
  <2>2. Follows(seen, 0)'
    <3>1. ASSUME NEW i \in 1..Len(rest)
          PROVE  rest[i] = Live(seen + i) /\ i # 0
      <4>1. i + 1 \in 1..Len(channel) /\ i + 1 # 1 /\ 1 < i + 1 /\ (i + 1) - 1 = i /\ i # 0
        BY <1>2
      <4>. QED
        BY <1>2, <1>5, <1>7, <4>1 DEF Follows, Position
    <3>2. seen + Len(rest) = Sent
      BY <1>2, <1>5, <1>7 DEF Follows
    <3>3. Newest' = Newest
      BY <2>1 DEF Newest
    <3>. QED
      BY <1>1, <1>3, <1>5, <2>1, <3>1, <3>2, <3>3 DEF Follows, Position
  <2>3. Newest' <= appended'
    BY <1>1, <2>1 DEF ChartInv, Newest
  <2>. QED
    BY <1>1, <1>2, <1>6, <2>2, <2>3 DEF ChartInv
<1>8. CASE h # 1
  <2>. DEFINE next == seen + 1
              k == IF h = 0 THEN 0 ELSE h - 1
  <2>1. frame = Live(next)
    <3>1. 1 \in 1..Len(channel) /\ Position(1, h) = 1
      BY <1>2, <1>6, <1>8 DEF Position
    <3>. QED
      BY <1>2, <1>5, <1>8, <3>1 DEF Follows
  <2>2. next \in since..appended /\ next \in 1..MaxAppends
    <3>1. next <= Sent
      BY <1>2, <1>5, <1>6, <1>8, ChartTypes DEF Follows
    <3>. QED
      BY <1>6, <3>1, ChartTypes, RingAssumption DEF RingInv
  <2>3. /\ chart' \in Seq(1..MaxAppends) /\ chart' # <<>> /\ Len(chart') <= MaxPoints
        /\ chart'[Len(chart')] = next
        /\ \A i \in 1..MaxPoints - 1 :
              i - 1 < Len(chart) =>
                 i < Len(chart') /\ chart'[Len(chart') - i] = chart[Len(chart) - (i - 1)]
    <3>. DEFINE longer == chart \o <<next>>
                d == IF Len(longer) > MaxPoints THEN Tail(longer) ELSE longer
    <3>1. chart' = d
      BY <1>1, <2>1 DEF Live, UpdateFastMetrics
    <3>2. chart \in Seq(Points) /\ Len(chart) <= MaxPoints /\ next \in Points
      BY <2>2, ChartTypes DEF Points
    <3>. HIDE DEF next
    <3>3. /\ d \in Seq(Points) /\ d # <<>> /\ Len(d) <= MaxPoints
          /\ d[Len(d)] = next
          /\ \A i \in 1..MaxPoints - 1 :
                i - 1 < Len(chart) =>
                   i < Len(d) /\ d[Len(d) - i] = chart[Len(chart) - (i - 1)]
      BY <3>2, PushPoint
    <3>. HIDE DEF d
    <3>. QED
      BY <3>1, <3>3 DEF Points
  <2>4. Newest' = next
    BY <2>3 DEF Newest, Last
  <2>5. ASSUME NEW i \in 0..MaxPoints - 1, i < next - since
        PROVE  i < Len(chart') /\ chart'[Len(chart') - i] = next - i
    <3>1. CASE i = 0
      <4>1. Len(chart') \in Nat \ {0}
        BY <2>3
      <4>. QED
        BY <1>6, <2>3, <3>1, <4>1
    <3>2. CASE i # 0
      <4>1. i \in 1..MaxPoints - 1 /\ i - 1 \in 0..MaxPoints - 1 /\ i - 1 < seen - since
        BY <1>6, <2>5, <3>2, ChartTypes
      <4>2. i - 1 < Len(chart) /\ chart[Len(chart) - (i - 1)] = seen - (i - 1)
        BY <1>5, <4>1 DEF Follows
      <4>3. seen - (i - 1) = next - i
        BY <1>6, <4>1
      <4>. QED
        BY <2>3, <4>1, <4>2, <4>3
    <3>. QED
      BY <3>1, <3>2
  <2>6. ASSUME NEW i \in 1..Len(rest)
        PROVE  IF i = k THEN rest[i].type = "history"
               ELSE rest[i] = Live(next + Position(i, k))
    <3>1. i + 1 \in 1..Len(channel) /\ rest[i] = channel[i + 1]
      BY <1>2
    <3>2. i = k <=> i + 1 = h
      BY <1>2, <1>6
    <3>3. i # k => next + Position(i, k) = seen + Position(i + 1, h)
      BY <1>2, <1>6, <1>8 DEF Position
    <3>. QED
      BY <1>5, <3>1, <3>2, <3>3 DEF Follows
  <2>7. next + (IF k = 0 THEN Len(rest) ELSE Len(rest) - 1) = Sent
    <3>1. seen + (IF h = 0 THEN Len(channel) ELSE Len(channel) - 1) = Sent
      BY <1>5 DEF Follows
    <3>2. CASE h = 0
      BY <1>2, <1>6, <3>1, <3>2
    <3>3. CASE h # 0
      <4>1. k # 0 /\ (k = 0) = FALSE
        BY <1>6, <1>8, <3>3
      <4>. QED
        BY <1>2, <1>6, <3>1, <3>3, <4>1
    <3>. QED
      BY <3>2, <3>3
  <2>8. k \in 0..Len(rest) /\ (k # 0 => stage = "listening")
    BY <1>2, <1>5, <1>6, <1>8 DEF Follows
  <2>9. next <= appended /\ next \in since..appended
    BY <2>2, ChartTypes, <1>6
  <2>. HIDE DEF next, k
  <2>10. Follows(next, k)'
    BY <1>1, <1>3, <2>4, <2>5, <2>6, <2>7, <2>8, <2>9 DEF Follows
  <2>. QED
    BY <1>1, <1>2, <2>4, <2>8, <2>9, <2>10 DEF ChartInv
<1>. QED
  BY <1>7, <1>8

LEMMA SendingKeepsChart ==
    ASSUME RingInv, FeedTypeOK, SessionInv, ChartInv, SendLive
    PROVE  ChartInv'
<1>. DEFINE frame == Live(pending)
            longer == Append(channel, frame)
<1>1. /\ pending # 0 /\ channel' = longer /\ pending' = 0
      /\ UNCHANGED <<appended, chart, since, stage>>
  BY DEF SendLive, ringVars
<1>2. pending = appended /\ Sent' = Sent + 1 /\ pending \in Points /\ Sent \in Nat
  BY <1>1, ChartTypes, RingAssumption DEF Sent, RingInv, Points
<1>3. /\ longer \in Seq(Frames) /\ Len(longer) = Len(channel) + 1
      /\ \A i \in 1..Len(channel) : longer[i] = channel[i]
      /\ longer[Len(channel) + 1] = frame
      /\ Len(channel) \in Nat
  <2>1. frame \in Frames /\ channel \in Seq(Frames)
    BY <1>2, ChartTypes DEF Live, Frames
  <2>. HIDE DEF frame
  <2>. QED
    BY <2>1
<1>. HIDE DEF frame, longer
<1>4. Newest' = Newest /\ stage # "off"
  BY <1>1 DEF Newest, SessionInv
<1>5. PICK seen \in since..appended, h \in 0..Len(channel) : Follows(seen, h)
  BY <1>4 DEF ChartInv
<1>6. seen \in Nat /\ h \in Nat
  BY <1>4, ChartTypes
<1>7. seen + (IF h = 0 THEN Len(channel) ELSE Len(channel) - 1) = Sent
  BY <1>5 DEF Follows
<1>8. ASSUME NEW i \in 1..Len(longer)
      PROVE  IF i = h THEN longer[i].type = "history"
             ELSE longer[i] = Live(seen + Position(i, h))
  <2>1. CASE i = Len(longer)
    <3>1. i # h /\ seen + Position(i, h) = Sent + 1
      BY <1>3, <1>6, <1>7, <2>1 DEF Position
    <3>2. Sent + 1 = pending
      BY <1>1, <1>2 DEF Sent
    <3>. QED
      BY <1>3, <2>1, <3>1, <3>2 DEF frame
  <2>2. CASE i # Len(longer)
    <3>1. i \in 1..Len(channel)
      BY <1>3, <2>2
    <3>. QED
      BY <1>3, <1>5, <3>1 DEF Follows
  <2>. QED
    BY <2>1, <2>2
<1>9. seen + (IF h = 0 THEN Len(longer) ELSE Len(longer) - 1) = Sent'
  BY <1>2, <1>3, <1>6, <1>7
<1>10. Follows(seen, h)'
  BY <1>1, <1>4, <1>5, <1>8, <1>9 DEF Follows
<1>11. h \in 0..Len(longer)
  BY <1>3, <1>6
<1>. QED
  BY <1>1, <1>3, <1>4, <1>10, <1>11 DEF ChartInv

LEMMA HistoryIsFrame ==
    ASSUME RingInv, LogInv
    PROVE  [i \in DOMAIN GetLatest(HistoryPoints) |->
               GetLatest(HistoryPoints)[i].data] \in Seq(Points)
<1>. DEFINE latest == GetLatest(HistoryPoints)
<1>1. latest \in Seq(Entries)
  BY HistorySamples
<1>. HIDE DEF latest
<1>2. [i \in DOMAIN latest |-> latest[i].data] \in Seq(Points)
  <2>1. DOMAIN latest = 1..Len(latest) /\ Len(latest) \in Nat
    BY <1>1
  <2>2. ASSUME NEW i \in 1..Len(latest) PROVE latest[i].data \in Points
    <3>1. latest[i] \in Entries
      BY <1>1, ElementOfSeq
    <3>. QED
      BY <3>1 DEF Entries, Points
  <2>. QED
    BY <2>1, <2>2, IsASeq
<1>. QED
  BY <1>2 DEF latest

LEMMA HistoryKeepsChart ==
    ASSUME RingInv, LogInv, FeedTypeOK, SessionInv, ChartInv, HistoryIsSent
    PROVE  ChartInv'
<1>. DEFINE points == [i \in DOMAIN GetLatest(HistoryPoints) |->
                         GetLatest(HistoryPoints)[i].data]
            frame == History(points)
            longer == Append(channel, frame)
<1>1. /\ stage = "hello" /\ stage' = "listening"
      /\ channel' = (IF points = <<>> THEN channel ELSE longer)
      /\ UNCHANGED <<appended, pending, chart, since>>
  BY DEF HistoryIsSent, ringVars
<1>2. frame \in Frames /\ frame.type = "history"
  BY HistoryIsFrame DEF History, Frames
<1>. HIDE DEF points, frame
<1>3. /\ longer \in Seq(Frames) /\ Len(longer) = Len(channel) + 1
      /\ \A i \in 1..Len(channel) : longer[i] = channel[i]
      /\ longer[Len(channel) + 1] = frame
      /\ Len(channel) \in Nat /\ channel \in Seq(Frames)
  BY <1>2, ChartTypes
<1>. HIDE DEF longer
<1>4. Newest' = Newest /\ Sent' = Sent
  BY <1>1 DEF Newest, Sent
<1>5. PICK seen \in since..appended, h \in 0..Len(channel) : Follows(seen, h)
  BY <1>1 DEF ChartInv
<1>6. h = 0 /\ seen \in Nat /\ seen + Len(channel) = Sent
  BY <1>1, <1>5, ChartTypes DEF Follows
<1>7. CASE points = <<>>
  <2>1. Follows(seen, 0)'
    BY <1>1, <1>4, <1>5, <1>6, <1>7 DEF Follows
  <2>. QED
    BY <1>1, <1>3, <1>4, <1>7, <2>1 DEF ChartInv
<1>8. CASE points # <<>>
  <2>0. PICK k \in Nat : k = Len(channel) + 1 /\ k = Len(longer) /\ k # 0
    BY <1>3
  <2>1. ASSUME NEW i \in 1..Len(longer)
        PROVE  IF i = k THEN longer[i].type = "history"
               ELSE longer[i] = Live(seen + Position(i, k))
    <3>1. CASE i = k
      BY <1>2, <1>3, <2>0, <3>1
    <3>2. CASE i # k
      <4>1. i \in 1..Len(channel) /\ i # 0 /\ Position(i, k) = i /\ Position(i, 0) = i
        BY <1>3, <2>0, <3>2 DEF Position
      <4>. QED
        BY <1>3, <1>5, <1>6, <3>2, <4>1 DEF Follows
    <3>. QED
      BY <3>1, <3>2
  <2>2. seen + (IF k = 0 THEN Len(longer) ELSE Len(longer) - 1) = Sent
    BY <1>3, <1>6, <2>0
  <2>3. channel' = longer /\ stage' = "listening"
    BY <1>1, <1>8
  <2>4. UNCHANGED <<appended, pending, chart, since>>
    BY <1>1
  <2>5. Follows(seen, k)'
    <3>1. \A i \in 1..Len(channel') :
             IF i = k THEN channel'[i].type = "history"
             ELSE channel'[i] = Live(seen + Position(i, k))
      BY <2>1, <2>3
    <3>2. seen + (IF k = 0 THEN Len(channel') ELSE Len(channel') - 1) = Sent'
      BY <1>4, <2>2, <2>3
    <3>3. Newest' <= seen
      BY <1>4, <1>5 DEF Follows
    <3>4. \A i \in 0..MaxPoints - 1 :
             i < seen - since' => i < Len(chart') /\ chart'[Len(chart') - i] = seen - i
      BY <1>5, <2>4 DEF Follows
    <3>5. stage' = "listening"
      BY <2>3
    <3>. QED
      BY <3>1, <3>2, <3>3, <3>4, <3>5 DEF Follows
  <2>6. k \in 0..Len(channel') /\ seen \in since'..appended'
    BY <1>3, <1>5, <2>0, <2>3, <2>4
  <2>7. channel' \in Seq(Frames) /\ Newest' <= appended'
    BY <1>3, <1>4, <2>3, <2>4 DEF ChartInv
  <2>. QED
    BY <2>5, <2>6, <2>7 DEF ChartInv
<1>. QED
  BY <1>7, <1>8

LEMMA NextKeepsChart ==
    ASSUME RingInv, LogInv, FeedTypeOK, SessionInv, ChartInv, [FeedNext]_feedVars
    PROVE  ChartInv'
<1>1. ASSUME NEW t \in Stamps, Sample(t) PROVE ChartInv'
  <2>1. /\ pending = 0 /\ appended' = appended + 1
        /\ pending' = (IF stage = "off" THEN 0 ELSE appended + 1)
        /\ UNCHANGED <<stage, channel, chart, since>>
    BY <1>1 DEF Sample, AppendEntry
  <2>2. Newest' = Newest /\ Newest <= appended'
    <3>1. Newest \in Int
      BY NewestIsPoint DEF Points
    <3>. QED
      BY <2>1, <3>1, ChartTypes DEF Newest, ChartInv
  <2>3. CASE stage = "off"
    BY <2>1, <2>2, <2>3 DEF ChartInv
  <2>4. CASE stage # "off"
    <3>1. Sent' = Sent
      BY <2>1, <2>4, ChartTypes DEF Sent
    <3>2. PICK seen \in since..appended, h \in 0..Len(channel) : Follows(seen, h)
      BY <2>4 DEF ChartInv
    <3>3. seen \in since..appended'
      BY <2>1, <2>4, <3>2, ChartTypes
    <3>4. Follows(seen, h)'
      BY <2>1, <2>2, <3>1, <3>2 DEF Follows
    <3>. QED
      BY <2>1, <2>2, <3>2, <3>3, <3>4 DEF ChartInv
  <2>. QED
    BY <2>3, <2>4
<1>2. CASE SendLive
  BY <1>2, SendingKeepsChart
<1>3. CASE SessionOpens
  <2>1. /\ stage = "off" /\ stage' = "sysinfo" /\ since' = appended
        /\ channel = <<>> /\ pending = 0
        /\ UNCHANGED <<appended, pending, channel, chart>>
    BY <1>3 DEF SessionOpens, SessionInv, ringVars
  <2>2. Newest' = Newest /\ Newest <= appended /\ Sent' = appended
    BY <2>1 DEF Newest, ChartInv, Sent
  <2>3. Follows(appended, 0)'
    BY <2>1, <2>2, ChartTypes DEF Follows
  <2>4. appended \in since'..appended' /\ 0 \in 0..Len(channel')
    BY <2>1, ChartTypes
  <2>. QED
    BY <2>1, <2>2, <2>3, <2>4 DEF ChartInv
<1>4. CASE SysInfoIsSent
  <2>1. /\ stage = "sysinfo" /\ stage' = "hello"
        /\ UNCHANGED <<appended, pending, channel, chart, since>>
    BY <1>4 DEF SysInfoIsSent, ringVars
  <2>2. Newest' = Newest /\ Sent' = Sent
    BY <2>1 DEF Newest, Sent
  <2>3. PICK seen \in since..appended, h \in 0..Len(channel) : Follows(seen, h)
    BY <2>1 DEF ChartInv
  <2>4. Follows(seen, h)'
    BY <2>1, <2>2, <2>3 DEF Follows
  <2>. QED
    BY <2>1, <2>2, <2>3, <2>4 DEF ChartInv
<1>5. CASE HistoryIsSent
  BY <1>5, HistoryKeepsChart
<1>6. CASE SessionEnds \/ ServerRestarts
  <2>1. stage' = "off" /\ channel' = <<>> /\ UNCHANGED <<appended, chart>>
    BY <1>6 DEF SessionEnds, ServerRestarts, EndSession, ClearAll, ringVars
  <2>2. <<>> \in Seq(Frames)
    OBVIOUS
  <2>. QED
    BY <2>1, <2>2 DEF ChartInv, Newest
<1>7. CASE PageReloads
  BY <1>7, ChartTypes DEF PageReloads, sessionVars, ringVars, ChartInv, Newest
<1>8. CASE PageReceives
  BY <1>8, ReceivingKeepsChart
<1>9. CASE UNCHANGED feedVars
  BY <1>9 DEF feedVars, sessionVars, ringVars, ChartInv, Follows, Newest, Sent
<1>. QED
  BY <1>1, <1>2, <1>3, <1>4, <1>5, <1>6, <1>7, <1>8, <1>9 DEF FeedNext

-----------------------------------------------------------------------------
(* The invariant of the feed *)

\* The frame the page handles is the history, which leaves the charts alone, or
\* the live frame of the sample they want next.
LEMMA ReceivingIsNext ==
    ASSUME RingInv, FeedTypeOK, SessionInv, ChartInv, PageReceives
    PROVE  \/ chart' = chart
           \/ /\ stage # "off" /\ Newest' \in 1..appended
              /\ Newest' = (IF Newest < since THEN since + 1 ELSE Newest + 1)
              /\ chart' \in Seq(Points) /\ Len(chart') <= MaxPoints
<1>. DEFINE frame == Head(channel)
<1>1. /\ channel # <<>>
      /\ chart' = IF frame.type = "metrics" THEN UpdateFastMetrics(frame.points) ELSE chart
  BY DEF PageReceives, LoadHistory
<1>2. frame = channel[1] /\ Len(channel) \in Nat \ {0}
  BY <1>1, EmptySeq, ChartTypes
<1>. HIDE DEF frame
<1>3. stage # "off"
  BY <1>1 DEF SessionInv
<1>4. PICK seen \in since..appended, h \in 0..Len(channel) : Follows(seen, h)
  BY <1>3 DEF ChartInv
<1>5. seen \in Nat /\ h \in Nat /\ since \in Nat /\ seen >= since
  BY <1>3, ChartTypes
<1>6. CASE h = 1
  BY <1>1, <1>2, <1>4, <1>6 DEF Follows
<1>7. CASE h # 1
  <2>. DEFINE next == seen + 1
  <2>1. frame = Live(next)
    <3>1. 1 \in 1..Len(channel) /\ Position(1, h) = 1
      BY <1>2, <1>5, <1>7 DEF Position
    <3>. QED
      BY <1>2, <1>4, <1>7, <3>1 DEF Follows
  <2>2. next \in 1..appended /\ next \in Points
    <3>1. next <= Sent
      BY <1>2, <1>4, <1>5, <1>7, ChartTypes DEF Follows
    <3>. QED
      BY <1>5, <3>1, ChartTypes, RingAssumption DEF RingInv, Points
  <2>3. next = IF Newest < since THEN since + 1 ELSE Newest + 1
    <3>1. CASE seen = since
      <4>1. Newest <= since /\ Newest \in Int
        <5>1. Newest <= seen
          BY <1>4 DEF Follows
        <5>2. Newest \in Int
          BY NewestIsPoint DEF Points
        <5>. QED
          BY <3>1, <5>1, <5>2
      <4>. QED
        BY <1>5, <3>1, <4>1
    <3>2. CASE seen # since
      <4>1. 0 \in 0..MaxPoints - 1 /\ 0 < seen - since
        BY <1>5, <3>2, ChartTypes
      <4>2. 0 < Len(chart) /\ chart[Len(chart) - 0] = seen - 0
        BY <1>4, <4>1 DEF Follows
      <4>3. Newest = seen
        BY <1>5, <4>2, ChartTypes DEF Newest, Last
      <4>. QED
        BY <1>5, <3>2, <4>3
    <3>. QED
      BY <3>1, <3>2
  <2>4. /\ chart' \in Seq(Points) /\ chart' # <<>> /\ Len(chart') <= MaxPoints
        /\ chart'[Len(chart')] = next
    <3>. DEFINE longer == chart \o <<next>>
                d == IF Len(longer) > MaxPoints THEN Tail(longer) ELSE longer
    <3>1. chart' = d
      BY <1>1, <2>1 DEF Live, UpdateFastMetrics
    <3>2. chart \in Seq(Points) /\ Len(chart) <= MaxPoints
      BY ChartTypes DEF Points
    <3>. HIDE DEF next
    <3>3. /\ d \in Seq(Points) /\ d # <<>> /\ Len(d) <= MaxPoints
          /\ d[Len(d)] = next
      BY <2>2, <3>2, PushPoint
    <3>. HIDE DEF d
    <3>. QED
      BY <3>1, <3>3
  <2>5. Newest' = next
    BY <2>4 DEF Newest, Last
  <2>. QED
    BY <1>3, <2>2, <2>3, <2>4, <2>5
<1>. QED
  BY <1>6, <1>7

LEMMA NextKeepsTypes ==
    ASSUME RingInv, LogInv, FeedTypeOK, SessionInv, ChartInv, RingInv', ChartInv',
           [FeedNext]_feedVars
    PROVE  FeedTypeOK'
<1>1. RingTypeOK'
  <2>1. Held' \in 0..Len(log') /\ Held' <= MaxSize
    BY RingAssumption DEF RingInv, Held
  <2>2. Len(LastOf(log, Held))' = Held'
    <3>. DEFINE l == log'
                n == Held'
    <3>1. l \in Seq(Entries) /\ n \in 0..Len(l)
      BY <2>1 DEF RingInv
    <3>. HIDE DEF l, n
    <3>2. Len(LastOf(l, n)) = n
      BY <3>1, LastOfElements
    <3>. QED
      BY <3>2 DEF l, n, LastOf
  <2>. QED
    BY <2>1, <2>2 DEF RingTypeOK, RingInv
<1>2. \A i \in 1..Len(channel') :
         channel'[i].type \in {"metrics", "history"} /\ channel'[i].points \in Seq(Points)
  <2>. SUFFICES ASSUME NEW i \in 1..Len(channel')
                PROVE  channel'[i] \in Frames
    BY DEF Frames
  <2>1. channel' \in Seq(Frames)
    BY DEF ChartInv
  <2>. QED
    BY <2>1, ElementOfSeq
<1>3. chart' \in Seq(Points) /\ Len(chart') <= MaxPoints
  <2>1. chart \in Seq(Points) /\ Len(chart) <= MaxPoints
    BY ChartTypes DEF Points
  <2>2. CASE PageReceives
    BY <2>1, <2>2, ReceivingIsNext
  <2>3. CASE PageReloads
    BY <2>3, FeedAssumption DEF PageReloads
  <2>4. CASE UNCHANGED chart
    BY <2>1, <2>4
  <2>5. PageReceives \/ PageReloads \/ UNCHANGED chart
    BY DEF FeedNext, Sample, SendLive, SessionOpens, SysInfoIsSent, HistoryIsSent,
           SessionEnds, ServerRestarts, feedVars
  <2>. QED
    BY <2>2, <2>3, <2>4, <2>5
<1>4. offered' \subseteq Points
  <2>1. offered \subseteq Points
    BY DEF FeedTypeOK, Points
  <2>2. CASE SendLive
    BY <2>1, <2>2, ChartTypes DEF SendLive, Points, FeedTypeOK
  <2>3. CASE HistoryIsSent
    <3>1. offered' = offered \cup appended - Window + 1..appended
      BY <2>3, HistoryIsWindow
    <3>2. appended - Window + 1..appended \subseteq Points
      BY WindowFits, RingAssumption DEF Points, RingInv
    <3>. QED
      BY <2>1, <3>1, <3>2
  <2>4. CASE SessionEnds \/ ServerRestarts
    BY <2>4 DEF SessionEnds, ServerRestarts, EndSession
  <2>5. CASE UNCHANGED offered
    BY <2>1, <2>5
  <2>6. SendLive \/ HistoryIsSent \/ SessionEnds \/ ServerRestarts \/ UNCHANGED offered
    BY DEF FeedNext, Sample, SessionOpens, SysInfoIsSent, PageReloads, PageReceives,
           feedVars, sessionVars
  <2>. QED
    BY <2>2, <2>3, <2>4, <2>5, <2>6
<1>5. /\ stage' \in {"off", "sysinfo", "hello", "listening"}
      /\ pending' \in 0..MaxAppends
      /\ restarts' \in 0..MaxRestarts
      /\ since' \in {NoSession} \cup 0..MaxAppends
      /\ stage' = "off" <=> since' = NoSession
  <2>. DEFINE Rest(st, p, r, s) ==
                 /\ st \in {"off", "sysinfo", "hello", "listening"}
                 /\ p \in 0..MaxAppends
                 /\ r \in 0..MaxRestarts
                 /\ s \in {NoSession} \cup 0..MaxAppends
                 /\ st = "off" <=> s = NoSession
  <2>. SUFFICES Rest(stage', pending', restarts', since')
    OBVIOUS
  <2>0. /\ Rest(stage, pending, restarts, since)
        /\ appended \in 0..MaxAppends /\ MaxAppends \in Nat /\ MaxRestarts \in Nat
    BY RingAssumption, FeedAssumption DEF FeedTypeOK, RingInv
  <2>1. ASSUME NEW t \in Stamps, Sample(t) PROVE Rest(stage', pending', restarts', since')
    BY <2>0, <2>1 DEF Sample, AppendEntry
  <2>2. CASE SendLive
    BY <2>0, <2>2 DEF SendLive
  <2>3. CASE SessionOpens
    BY <2>0, <2>3 DEF SessionOpens, NoSession
  <2>4. CASE SysInfoIsSent \/ HistoryIsSent
    BY <2>0, <2>4 DEF SysInfoIsSent, HistoryIsSent
  <2>5. CASE SessionEnds \/ ServerRestarts
    BY <2>0, <2>5 DEF SessionEnds, ServerRestarts, EndSession
  <2>6. CASE PageReloads \/ PageReceives \/ UNCHANGED feedVars
    BY <2>0, <2>6 DEF PageReloads, PageReceives, feedVars, sessionVars
  <2>. QED
    BY <2>1, <2>2, <2>3, <2>4, <2>5, <2>6 DEF FeedNext
<1>. QED
  BY <1>1, <1>2, <1>3, <1>4, <1>5 DEF FeedTypeOK, Points

LEMMA InitMakesFeed ==
    ASSUME FeedInit
    PROVE  FeedInv
<1>1. RingInv
  BY InitMakesRing
<1>2. /\ buffer = <<>> /\ log = <<>> /\ appended = 0 /\ stage = "off" /\ pending = 0
      /\ channel = <<>> /\ chart = <<>> /\ restarts = 0 /\ since = NoSession
      /\ offered = {}
  BY DEF FeedInit, RingInit
<1>3. FeedTypeOK
  BY <1>2, RingAssumption, FeedAssumption DEF FeedTypeOK, RingTypeOK
<1>4. LogInv /\ SessionInv /\ GapInv
  BY <1>2 DEF LogInv, SessionInv, GapInv
<1>5. ChartInv
  BY <1>2 DEF ChartInv, Newest
<1>. QED
  BY <1>1, <1>3, <1>4, <1>5 DEF FeedInv

\* The inductive invariant of the feed.
THEOREM FeedInvariant == FeedSpec => []FeedInv
<1>1. FeedInit => FeedInv
  BY InitMakesFeed
<1>2. FeedInv /\ [FeedNext]_feedVars => FeedInv'
  <2>. SUFFICES ASSUME FeedInv, [FeedNext]_feedVars PROVE FeedInv'
    OBVIOUS
  <2>1. RingInv /\ FeedTypeOK /\ LogInv /\ SessionInv /\ GapInv /\ ChartInv
    BY DEF FeedInv
  <2>2. RingInv' /\ LogInv' /\ SessionInv'
    BY <2>1, NextKeepsRing, NextKeepsLog, NextKeepsSession
  <2>3. GapInv' /\ ChartInv'
    BY <2>1, <2>2, NextKeepsGap, NextKeepsChart
  <2>4. FeedTypeOK'
    BY <2>1, <2>2, <2>3, NextKeepsTypes
  <2>. QED
    BY <2>2, <2>3, <2>4 DEF FeedInv
<1>. QED
  BY <1>1, <1>2, PTL DEF FeedSpec

\* Every variable of the feed keeps its type.
THEOREM FeedTypeCorrect == FeedSpec => []FeedTypeOK
<1>1. FeedInv => FeedTypeOK
  BY DEF FeedInv
<1>. QED
  BY <1>1, FeedInvariant, PTL

\* No sample falls between the history of a session and its live frames,
\* whatever the sizes of buffer and history are.
THEOREM NothingIsMissed == FeedSpec => []NoGapAfterHello
<1>1. FeedInv => NoGapAfterHello
  <2>. SUFFICES ASSUME FeedInv, stage = "listening",
                       NEW i \in 1..Len(GetLatest(HistoryPoints))
                PROVE  \/ GetLatest(HistoryPoints)[i].data \in offered
                       \/ GetLatest(HistoryPoints)[i].data = pending
    BY DEF NoGapAfterHello
  <2>. DEFINE n == GetLatest(HistoryPoints)[i].data
  <2>1. i \in 1..Window /\ n = appended - Window + i
    BY HistorySamples DEF FeedInv
  <2>. HIDE DEF n
  <2>2. n \in appended - Window + 1..appended
    BY <2>1, WindowFits DEF FeedInv
  <2>3. n \in offered \/ n = pending
    BY <2>2 DEF FeedInv, GapInv
  <2>. QED
    BY <2>3 DEF n
<1>. QED
  BY <1>1, FeedInvariant, PTL

\* Once the page has handled what it was sent, its charts end in the samples of
\* its session, in order and without a gap, for charts of any size.
THEOREM ChartsEndInSession == FeedSpec => []ChartShowsSession
<1>1. FeedInv => ChartShowsSession
  <2>. SUFFICES ASSUME FeedInv, Settled PROVE ChartShowsSession
    BY DEF ChartShowsSession
  <2>1. RingInv /\ FeedTypeOK /\ SessionInv /\ ChartInv
    BY DEF FeedInv
  <2>2. stage = "listening" /\ channel = <<>> /\ pending = 0 /\ Len(channel) = 0
    BY DEF Settled
  <2>3. PICK seen \in since..appended, h \in 0..Len(channel) : Follows(seen, h)
    BY <2>1, <2>2 DEF ChartInv
  <2>4. since \in Nat /\ appended \in Nat /\ since <= appended /\ MaxPoints \in Nat
        /\ chart \in Seq(Points) /\ Len(chart) \in Nat
    BY <2>1, <2>2, <2>3, ChartTypes DEF Points
  <2>5. seen = appended
    <3>1. h = 0
      BY <2>2, <2>3
    <3>2. seen + Len(channel) = Sent /\ Sent = appended
      BY <2>2, <2>3, <3>1 DEF Follows, Sent
    <3>. QED
      BY <2>2, <2>4, <3>2
  <2>. DEFINE n == IF appended - since < MaxPoints THEN appended - since ELSE MaxPoints
  <2>6. n \in Nat /\ n <= MaxPoints /\ n <= appended - since
    BY <2>4
  <2>. HIDE DEF n
  <2>7. ASSUME NEW i \in 0..n - 1
        PROVE  i < Len(chart) /\ chart[Len(chart) - i] = appended - i
    <3>1. i \in 0..MaxPoints - 1 /\ i < seen - since
      BY <2>4, <2>5, <2>6
    <3>. QED
      BY <2>3, <2>5, <3>1 DEF Follows
  <2>8. n <= Len(chart)
    <3>1. CASE n = 0
      BY <2>4, <3>1
    <3>2. CASE n # 0
      <4>1. n - 1 \in 0..n - 1
        BY <2>6, <3>2
      <4>2. n - 1 < Len(chart)
        BY <2>7, <4>1
      <4>. QED
        BY <2>4, <2>6, <4>2
    <3>. QED
      BY <3>1, <3>2
  <2>9. LastOf(chart, n) = [i \in 1..n |-> appended - n + i]
    <3>. DEFINE end == LastOf(chart, n)
    <3>1. /\ end \in Seq(Points) /\ Len(end) = n
          /\ \A i \in 1..n : end[i] = chart[Len(chart) - n + i]
      <4>1. n \in 0..Len(chart)
        BY <2>4, <2>6, <2>8
      <4>. QED
        BY <2>4, <4>1, LastOfElements
    <3>. HIDE DEF end
    <3>2. ASSUME NEW i \in 1..n PROVE end[i] = appended - n + i
      <4>1. /\ n - i \in 0..n - 1 /\ Len(chart) - (n - i) = Len(chart) - n + i
            /\ appended - (n - i) = appended - n + i
        BY <2>4, <2>6
      <4>2. chart[Len(chart) - (n - i)] = appended - (n - i)
        BY <2>7, <4>1
      <4>. QED
        BY <3>1, <4>1, <4>2
    <3>3. end = [i \in 1..n |-> end[i]]
      BY <3>1
    <3>4. end = [i \in 1..n |-> appended - n + i]
      BY <3>2, <3>3
    <3>. QED
      BY <3>4 DEF end
  <2>. QED
    BY <2>8, <2>9 DEF ChartShowsSession, n
<1>. QED
  BY <1>1, FeedInvariant, PTL

-----------------------------------------------------------------------------
(* The feed implements LiveFeed *)

\* The history of the session has been handled, or there was none.
Filled ==
    /\ stage = "listening"
    /\ \A i \in 1..Len(channel) : channel[i].type # "history"

Shown == <<appended, since, Filled, Newest>>

LEMMA InitMapsToPromise ==
    ASSUME FeedInit
    PROVE  Promise!LiveFeedInit
  BY DEF FeedInit, RingInit, Promise!LiveFeedInit, NoSession, Promise!Away

\* Appending or handling a live frame fills nothing, and handling a history can
\* only fill.
LEMMA LiveFramesFillNothing ==
    ASSUME NEW c \in Seq(Frames), NEW n
    PROVE  (\A i \in 1..Len(Append(c, Live(n))) : Append(c, Live(n))[i].type # "history")
           <=> (\A i \in 1..Len(c) : c[i].type # "history")
<1>. DEFINE longer == Append(c, Live(n))
<1>1. /\ Len(longer) = Len(c) + 1
      /\ \A i \in 1..Len(c) : longer[i] = c[i]
      /\ longer[Len(c) + 1] = Live(n)
  OBVIOUS
<1>2. Live(n).type # "history"
  BY DEF Live
<1>3. Len(c) \in Nat
  OBVIOUS
<1>. HIDE DEF longer
<1>4. \A i \in 1..Len(longer) : i \in 1..Len(c) \/ i = Len(c) + 1
  BY <1>1, <1>3
<1>5. \A i \in 1..Len(c) : i \in 1..Len(longer)
  BY <1>1, <1>3
<1>6. (\A i \in 1..Len(longer) : longer[i].type # "history")
      <=> (\A i \in 1..Len(c) : c[i].type # "history")
  BY <1>1, <1>2, <1>4, <1>5
<1>. QED
  BY <1>6 DEF longer

LEMMA TailFills ==
    ASSUME NEW c \in Seq(Frames), c # <<>>
    PROVE  /\ (\A i \in 1..Len(c) : c[i].type # "history") =>
                 \A i \in 1..Len(Tail(c)) : Tail(c)[i].type # "history"
           /\ Head(c).type # "history" =>
                 ((\A i \in 1..Len(Tail(c)) : Tail(c)[i].type # "history") =>
                     \A i \in 1..Len(c) : c[i].type # "history")
<1>. DEFINE rest == Tail(c)
<1>1. /\ Len(c) \in Nat \ {0} /\ Len(rest) = Len(c) - 1
      /\ \A i \in 1..Len(c) - 1 : rest[i] = c[i + 1]
      /\ Head(c) = c[1]
  OBVIOUS
<1>. HIDE DEF rest
<1>2. ASSUME NEW i \in 1..Len(rest)
      PROVE  i + 1 \in 1..Len(c) /\ rest[i] = c[i + 1]
  BY <1>1
<1>3. ASSUME NEW i \in 1..Len(c), i # 1
      PROVE  i - 1 \in 1..Len(rest) /\ rest[i - 1] = c[i]
  <2>1. i - 1 \in 1..Len(c) - 1 /\ (i - 1) + 1 = i
    BY <1>1, <1>3
  <2>. QED
    BY <1>1, <2>1
<1>4. (\A i \in 1..Len(c) : c[i].type # "history") =>
         \A i \in 1..Len(rest) : rest[i].type # "history"
  BY <1>2
<1>5. Head(c).type # "history" =>
         ((\A i \in 1..Len(rest) : rest[i].type # "history") =>
             \A i \in 1..Len(c) : c[i].type # "history")
  BY <1>1, <1>3
<1>. QED
  BY <1>4, <1>5 DEF rest

\* Nothing is filled outside the listening stage, whose pages have joined.
LEMMA FilledHaveJoined ==
    ASSUME FeedTypeOK
    PROVE  /\ Filled \in BOOLEAN
           /\ stage # "listening" => Filled = FALSE
           /\ Filled => since # -1
           /\ stage = "off" <=> since = -1
  BY DEF FeedTypeOK, Filled, NoSession

\* A page that handles a live frame is as filled as before; one that handles
\* its history was not filled.
LEMMA ReceivingFills ==
    ASSUME FeedTypeOK, ChartInv, PageReceives
    PROVE  /\ Head(channel).type = "metrics" => Filled' = Filled
           /\ Head(channel).type # "metrics" => Filled = FALSE /\ chart' = chart
<1>1. /\ channel # <<>> /\ channel' = Tail(channel) /\ stage' = stage
      /\ Head(channel).type # "metrics" => chart' = chart
  BY DEF PageReceives, LoadHistory
<1>2. channel \in Seq(Frames)
  BY DEF ChartInv
<1>3. 1 \in 1..Len(channel) /\ Head(channel) = channel[1]
  BY <1>1, <1>2
<1>4. Head(channel).type \in {"metrics", "history"}
  BY <1>3 DEF FeedTypeOK
<1>5. ASSUME Head(channel).type = "metrics"
      PROVE  Filled' = Filled
  <2>1. Head(channel).type # "history"
    BY <1>5
  <2>2. (\A i \in 1..Len(channel) : channel[i].type # "history")
        <=> (\A i \in 1..Len(Tail(channel)) : Tail(channel)[i].type # "history")
    BY <1>1, <1>2, <2>1, TailFills
  <2>. QED
    BY <1>1, <2>2 DEF Filled
<1>6. ASSUME Head(channel).type # "metrics"
      PROVE  Filled = FALSE
  BY <1>3, <1>4, <1>6 DEF Filled
<1>. QED
  BY <1>1, <1>5, <1>6

\* Each step of the feed is a step of the promise or leaves it alone.
LEMMA NextMapsToPromise ==
    ASSUME FeedInv, [FeedNext]_feedVars
    PROVE  [Promise!LiveFeedNext]_Shown
<1>0. FeedTypeOK /\ ChartInv /\ RingInv /\ SessionInv
  BY DEF FeedInv
<1>. DEFINE Stays == UNCHANGED Shown
<1>1. ASSUME NEW t \in Stamps, Sample(t) PROVE Promise!Take
  <2>1. appended' = appended + 1 /\ UNCHANGED <<stage, channel, since, chart>>
    BY <1>1 DEF Sample, AppendEntry
  <2>. QED
    BY <2>1 DEF Promise!Take
<1>2. ASSUME SessionOpens PROVE Promise!Join
  <2>1. /\ stage = "off" /\ stage' = "sysinfo" /\ since' = appended
        /\ UNCHANGED <<appended, channel, chart>>
    BY <1>2 DEF SessionOpens, ringVars
  <2>2. since = -1
    BY <1>0, <2>1, FilledHaveJoined
  <2>. QED
    BY <2>1, <2>2 DEF Promise!Join, Promise!Away
<1>3. ASSUME SessionEnds \/ ServerRestarts PROVE Promise!Leave \/ Stays
  <2>1. stage' = "off" /\ since' = -1 /\ UNCHANGED <<appended, chart>>
    BY <1>3 DEF SessionEnds, ServerRestarts, EndSession, ClearAll, ringVars, NoSession
  <2>2. CASE since = -1
    <3>1. Filled = FALSE /\ Filled' = FALSE
      BY <1>0, <2>1, <2>2, FilledHaveJoined DEF Filled
    <3>. QED
      BY <2>1, <2>2, <3>1 DEF Shown, Newest
  <2>3. CASE since # -1
    BY <2>1, <2>3 DEF Promise!Leave, Promise!Away
  <2>. QED
    BY <2>2, <2>3
<1>4. ASSUME PageReloads PROVE Promise!Reload
  <2>1. stage = "off" /\ chart' = <<>> /\ UNCHANGED <<appended, stage, channel, since>>
    BY <1>4 DEF PageReloads, sessionVars, ringVars
  <2>2. since = -1
    BY <1>0, <2>1, FilledHaveJoined
  <2>. QED
    BY <2>1, <2>2 DEF Promise!Reload, Promise!Away
<1>5. ASSUME PageReceives PROVE Promise!Fill \/ Promise!Show \/ Stays
  <2>1. UNCHANGED <<appended, since, stage>>
    BY <1>5 DEF PageReceives, ringVars
  <2>2. CASE Head(channel).type = "metrics"
    <3>1. Filled' = Filled
      BY <1>0, <1>5, <2>2, ReceivingFills
    <3>2. CASE chart' = chart
      BY <2>1, <3>1, <3>2 DEF Shown, Newest
    <3>3. CASE chart' # chart
      <4>1. /\ stage # "off" /\ Newest' \in 1..appended
            /\ Newest' = (IF Newest < since THEN since + 1 ELSE Newest + 1)
        BY <1>0, <1>5, <3>3, ReceivingIsNext
      <4>2. since # -1
        BY <1>0, <4>1, FilledHaveJoined
      <4>3. Newest' <= appended
        BY <1>0, <4>1, ChartTypes
      <4>. QED
        BY <2>1, <3>1, <4>1, <4>2, <4>3
        DEF Promise!Show, Promise!NextToShow, Promise!Away, Newest, Filled
    <3>. QED
      BY <3>2, <3>3
  <2>3. CASE Head(channel).type # "metrics"
    <3>1. Filled = FALSE /\ chart' = chart
      BY <1>0, <1>5, <2>3, ReceivingFills
    <3>2. CASE Filled'
      <4>1. since # -1
        BY <1>0, <2>1, <3>2, FilledHaveJoined DEF Filled
      <4>. QED
        BY <2>1, <3>1, <3>2, <4>1 DEF Promise!Fill, Promise!Away, Filled
    <3>3. CASE ~Filled'
      BY <2>1, <3>1, <3>3 DEF Shown, Newest, Filled
    <3>. QED
      BY <3>2, <3>3
  <2>. QED
    BY <2>2, <2>3
<1>6. ASSUME HistoryIsSent PROVE Promise!Fill \/ Stays
  <2>1. /\ stage = "hello" /\ stage' = "listening"
        /\ UNCHANGED <<appended, since, chart>>
    BY <1>6 DEF HistoryIsSent, ringVars
  <2>2. Filled = FALSE /\ since # -1
    BY <1>0, <2>1, FilledHaveJoined
  <2>3. CASE Filled'
    BY <2>1, <2>2, <2>3 DEF Promise!Fill, Promise!Away, Filled
  <2>4. CASE ~Filled'
    BY <2>1, <2>2, <2>4 DEF Shown, Newest, Filled
  <2>. QED
    BY <2>3, <2>4
<1>7. ASSUME SendLive \/ SysInfoIsSent \/ UNCHANGED feedVars PROVE Stays
  <2>1. UNCHANGED <<appended, since, chart>>
    BY <1>7 DEF SendLive, SysInfoIsSent, feedVars, sessionVars, ringVars
  <2>2. Filled' = Filled
    <3>1. CASE SendLive
      <4>1. stage' = stage /\ channel' = Append(channel, Live(pending))
        BY <3>1 DEF SendLive
      <4>2. channel \in Seq(Frames)
        BY <1>0 DEF ChartInv
      <4>. QED
        BY <4>1, <4>2, LiveFramesFillNothing DEF Filled
    <3>2. CASE SysInfoIsSent
      <4>1. stage # "listening" /\ stage' # "listening"
        BY <3>2 DEF SysInfoIsSent
      <4>. QED
        BY <4>1 DEF Filled
    <3>3. CASE UNCHANGED feedVars
      BY <3>3 DEF feedVars, sessionVars, Filled
    <3>. QED
      BY <1>7, <3>1, <3>2, <3>3
  <2>. QED
    BY <2>1, <2>2 DEF Shown, Newest
<1>. HIDE DEF Stays
<1>8. \/ Promise!Take \/ Promise!Join \/ Promise!Fill \/ Promise!Show
      \/ Promise!Leave \/ Promise!Reload \/ Stays
  BY <1>1, <1>2, <1>3, <1>4, <1>5, <1>6, <1>7 DEF FeedNext
<1>. QED
  BY <1>8 DEF Promise!LiveFeedNext, Stays

\* The feed does what LiveFeed promises: a page is shown every sample of its
\* session, one by one, in order and not before it was taken, but for those
\* that its history, handled once, brings at one stroke.
THEOREM FeedImplementsLiveFeed == FeedSpec => FeedContract
<1>1. FeedInit => Promise!LiveFeedInit
  BY InitMapsToPromise
<1>2. FeedInv /\ [FeedNext]_feedVars => [Promise!LiveFeedNext]_Shown
  BY NextMapsToPromise
<1>. QED
  BY <1>1, <1>2, FeedInvariant, PTL
  DEF FeedSpec, FeedContract, Promise!LiveFeedSpec, Promise!feed, Shown, Newest, Filled
=============================================================================
