------------------------------- MODULE ChartFeed ------------------------------
(***************************************************************************)
(* How the samples of the fast loop reach the charts of one browser page:  *)
(* the ring buffer, the history sent at the start of a session, the live   *)
(* frames of the broadcasts, the ordered channel of the WebSocket, and     *)
(* ChartManager (web/js/charts.js), which survives reconnects of the page  *)
(* and restarts of the server.  The page is not paused.                    *)
(*                                                                         *)
(* Every series of a chart is pushed and trimmed alike, so the chart is    *)
(* one sequence of samples; a sample is its number in the order taken.     *)
(***************************************************************************)
EXTENDS RingBuffer

CONSTANTS MaxPoints,        \* MAX_POINTS of charts.js
          HistoryPoints,    \* the 120 of websocket_endpoint
          MaxRestarts       \* bound on the restarts of the server

ASSUME FeedAssumption ==
    /\ MaxPoints \in Nat \ {0}
    /\ HistoryPoints \in Nat \ {0}
    /\ MaxRestarts \in Nat

VARIABLES stage,    \* where the endpoint of the page's session is
          pending,  \* the sample a running broadcast has yet to send, or 0
          channel,  \* frames sent and not yet handled by the page
          chart,    \* the points on the charts
          restarts, \* restarts of the server so far
          \* Auxiliary variables: no action of the code depends on them.
          since,    \* samples taken when the session began, or NoSession
          offered   \* the samples written to the session

sessionVars == <<stage, pending, channel, since, offered>>
feedVars == <<ringVars, sessionVars, chart, restarts>>

NoSession == -1

Live(n) == [type |-> "metrics", points |-> <<n>>]
History(s) == [type |-> "history", points |-> s]

FeedTypeOK ==
    /\ RingTypeOK
    /\ stage \in {"off", "sysinfo", "hello", "listening"}
    /\ pending \in 0..MaxAppends
    /\ \A i \in 1..Len(channel) :
          /\ channel[i].type \in {"metrics", "history"}
          /\ channel[i].points \in Seq(1..MaxAppends)
    /\ chart \in Seq(1..MaxAppends)
    /\ Len(chart) <= MaxPoints
    /\ restarts \in 0..MaxRestarts
    /\ since \in {NoSession} \cup 0..MaxAppends
    /\ stage = "off" <=> since = NoSession
    /\ offered \subseteq 1..MaxAppends

FeedInit ==
    /\ RingInit
    /\ stage = "off"
    /\ pending = 0
    /\ channel = <<>>
    /\ chart = <<>>
    /\ restarts = 0
    /\ since = NoSession
    /\ offered = {}

\* The fast loop stores a sample and snapshots the targets of its broadcast;
\* it is one task, so the previous broadcast is over.
Sample(stamp) ==
    /\ pending = 0
    /\ AppendEntry(stamp)
    /\ pending' = IF stage = "off" THEN 0 ELSE appended + 1
    /\ UNCHANGED <<stage, channel, since, offered, chart, restarts>>

\* Mutant: only a page that has had its history is sent live frames.
SendLive_ListeningOnly ==
    /\ pending # 0
    /\ IF stage = "listening"
       THEN /\ channel' = Append(channel, Live(pending))
            /\ offered' = offered \cup {pending}
       ELSE UNCHANGED <<channel, offered>>
    /\ pending' = 0
    /\ UNCHANGED <<ringVars, stage, since, chart, restarts>>

\* The broadcast reaches this page, after the targets registered before it.
SendLive ==
    /\ pending # 0
    /\ channel' = Append(channel, Live(pending))
    /\ offered' = offered \cup {pending}
    /\ pending' = 0
    /\ UNCHANGED <<ringVars, stage, since, chart, restarts>>

\* The endpoint registers the page before it collects the system information.
SessionOpens ==
    /\ stage = "off"
    /\ stage' = "sysinfo"
    /\ since' = appended
    /\ UNCHANGED <<ringVars, pending, channel, offered, chart, restarts>>

SysInfoIsSent ==
    /\ stage = "sysinfo"
    /\ stage' = "hello"
    /\ UNCHANGED <<ringVars, pending, channel, since, offered, chart, restarts>>

\* The history is read and written in one step, empty histories not at all.
HistoryIsSent ==
    /\ stage = "hello"
    /\ stage' = "listening"
    /\ LET points == [i \in DOMAIN GetLatest(HistoryPoints) |->
                         GetLatest(HistoryPoints)[i].data]
       IN  /\ channel' = IF points = <<>> THEN channel
                         ELSE Append(channel, History(points))
           /\ offered' = offered \cup Range(points)
    /\ UNCHANGED <<ringVars, pending, since, chart, restarts>>

\* The session is over; what the channel still holds is lost.
EndSession ==
    /\ stage' = "off"
    /\ pending' = 0
    /\ channel' = <<>>
    /\ since' = NoSession
    /\ offered' = {}

\* At any stage: the peer leaves, or a frame to it fails.
SessionEnds ==
    /\ stage # "off"
    /\ EndSession
    /\ UNCHANGED <<ringVars, chart, restarts>>

\* The process is replaced: the buffers are in memory only.  The page stays.
ServerRestarts ==
    /\ restarts < MaxRestarts
    /\ restarts' = restarts + 1
    /\ ClearAll
    /\ EndSession
    /\ UNCHANGED chart

PageReloads ==
    /\ stage = "off"
    /\ chart' = <<>>
    /\ UNCHANGED <<ringVars, sessionVars, restarts>>

-----------------------------------------------------------------------------
(* ChartManager *)

\* Mutant: shift at the limit, not above it.
UpdateFastMetrics_ShiftsEarly(points) ==
    LET longer == chart \o points
    IN  IF Len(longer) >= MaxPoints THEN Tail(longer) ELSE longer

\* Mutant: nothing is ever shifted.
UpdateFastMetrics_Grows(points) == chart \o points

\* updateFastMetrics(): push, and shift once if too long.
UpdateFastMetrics(points) ==
    LET longer == chart \o points
    IN  IF Len(longer) > MaxPoints THEN Tail(longer) ELSE longer

\* loadHistory() is never reached: the constructor gives every ChartManager a
\* field of that name, which hides the method.  The call raises a TypeError,
\* onmessage catches it, and the charts stay as they are.
LoadHistory(points) == chart

PageReceives ==
    /\ channel # <<>>
    /\ channel' = Tail(channel)
    /\ chart' = IF Head(channel).type = "metrics"
                THEN UpdateFastMetrics(Head(channel).points)
                ELSE LoadHistory(Head(channel).points)
    /\ UNCHANGED <<ringVars, stage, pending, since, offered, restarts>>

FeedNext ==
    \/ \E t \in Stamps : Sample(t)
    \/ SendLive
    \/ SessionOpens
    \/ SysInfoIsSent
    \/ HistoryIsSent
    \/ SessionEnds
    \/ ServerRestarts
    \/ PageReloads
    \/ PageReceives

FeedSpec == FeedInit /\ [][FeedNext]_feedVars

\* A broadcast under way comes to its targets, and the browser handles what
\* has arrived; nobody owes a sample, a session or its end.
FeedLiveSpec ==
    /\ FeedSpec
    /\ WF_feedVars(SendLive)
    /\ WF_feedVars(PageReceives)

-----------------------------------------------------------------------------
(* Properties *)

\* A session that has had its history was sent every sample the history
\* reaches back to, in the history or live: none falls between the two, however
\* registration and the running broadcast interleave (main.py lines 129-145,
\* scheduler.py 94-107).
NoGapAfterHello ==
    stage = "listening" =>
       \A i \in 1..Len(GetLatest(HistoryPoints)) :
          LET sample == GetLatest(HistoryPoints)[i].data
          IN  sample \in offered \/ sample = pending

\* The page has handled all that its session sent it.
Settled == stage = "listening" /\ channel = <<>> /\ pending = 0

\* The end of a settled page's charts are the samples of its session, in order
\* and without gap, as many as the charts hold (charts.js lines 242-302).
ChartShowsSession ==
    Settled =>
       LET n == IF appended - since < MaxPoints THEN appended - since ELSE MaxPoints
       IN  Len(chart) >= n /\ LastOf(chart, n) = [i \in 1..n |-> appended - n + i]

\* From sample to chart, over reconnects, reloads and restarts of the server,
\* the feed does what LiveFeed promises: the charts get each live frame of a
\* session in turn, and the history, once, at the place it has in the channel
\* (main.py lines 129-145, charts.js lines 242-302 and 365-368).
Promise == INSTANCE LiveFeed WITH
    taken <- appended,
    joined <- since,
    filled <- /\ stage = "listening"
              /\ \A i \in 1..Len(channel) : channel[i].type # "history",
    shown <- IF chart = <<>> THEN 0 ELSE Last(chart)

FeedContract == Promise!LiveFeedSpec

\* A sample taken during a session gets to the charts, unless the session ends.
SamplesAreShown ==
    \A n \in 1..MaxAppends :
       since # NoSession /\ since < n /\ n <= appended
          ~> stage = "off" \/ (chart # <<>> /\ Last(chart) >= n)

\* "Load historical data to pre-fill charts" (charts.js line 366), "so the
\* client can populate charts immediately" (main.py line 139): a page that has
\* handled its history shows the newest sample the server has, and as many
\* points as the server can fill its charts with.
ChartIsPrefilled ==
    Settled /\ buffer # <<>> =>
       /\ Contains(chart, Last(buffer).data)
       /\ Len(chart) >= Len(GetLatest(MaxPoints))
=============================================================================
