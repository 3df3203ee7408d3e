----------------------------- MODULE SessionProofs ----------------------------
(***************************************************************************)
(* Proofs about Session, for any number of socket slots, tokens, slider    *)
(* positions and bounds: a page has one live connection at most, and one   *)
(* that wants to be connected never stops trying; the server answers only  *)
(* pages with its token; what the user sets last is what ends up in force, *)
(* and the status line says so.                                            *)
(*                                                                         *)
(* None of these is inductive.  That a second live socket cannot appear    *)
(* rests on every live socket being this.ws, the only one that _doConnect  *)
(* looks at (LinkInv); that settings and status line agree with the server *)
(* rests on the last command or answer in flight for each setting          *)
(* (CommandsInv, AnswersInv), and on the one connection.                   *)
(***************************************************************************)
EXTENDS Session, SequenceTheorems, TLAPS

ReadyStates == {"connecting", "open", "closing", "closed"}

\* The types of the fields the argument needs.
LinkTypes ==
    /\ ws \in {Null} \cup Socket
    /\ readyState \in [Socket -> ReadyStates]
    /\ timers \in Nat
    /\ started \in BOOLEAN
    /\ shouldReconnect \in BOOLEAN

\* Every live socket is the one the client object holds.
LiveIsCurrent == \A s \in Socket : Live(s) => s = ws

LinkInv == LinkTypes /\ LiveIsCurrent /\ NeverGivesUp

-----------------------------------------------------------------------------

\* Null is no socket.
LEMMA NullIsNoSocket == Null \notin Socket
  BY ClientAssumption DEF Null, Socket

\* A page that is loaded, like a new one, has no live socket and is not started.
LEMMA LinkInitially ==
    ASSUME ws = Null, readyState = [s \in Socket |-> "closed"], timers = 0,
           started = FALSE, shouldReconnect = TRUE
    PROVE  LinkInv
  BY NullIsNoSocket
  DEF LinkInv, LinkTypes, LiveIsCurrent, Live, NeverGivesUp, ReadyStates

\* _doConnect() keeps the invariant, from any number of timers, and leaves a
\* timer or a socket that is not closed behind.
LEMMA ConnectKeepsLink ==
    ASSUME LinkTypes, LiveIsCurrent, NEW n \in Nat, DoConnect(n)
    PROVE  /\ ws' \in {Null} \cup Socket
           /\ readyState' \in [Socket -> ReadyStates]
           /\ timers' \in Nat
           /\ LiveIsCurrent'
           /\ timers' > 0 \/ (ws' # Null /\ readyState'[ws'] # "closed")
<1>1. CASE Live(ws) /\ timers' = n /\ UNCHANGED <<readyState, ws, reconnectDelay>>
  BY <1>1, NullIsNoSocket DEF LinkTypes, LiveIsCurrent, Live, ReadyStates
<1>2. CASE /\ ~Live(ws)
           /\ \E s \in Socket \ {ws} :
                 /\ readyState[s] = "closed"
                 /\ readyState' = [readyState EXCEPT ![s] = "connecting"]
                 /\ ws' = s
           /\ timers' = n
  <2>1. PICK s \in Socket \ {ws} :
           /\ readyState[s] = "closed"
           /\ readyState' = [readyState EXCEPT ![s] = "connecting"]
           /\ ws' = s
    BY <1>2
  <2>2. \A t \in Socket : t # s => readyState'[t] = readyState[t] /\ ~Live(t)
    BY <2>1, <1>2 DEF LinkTypes, LiveIsCurrent
  <2>3. LiveIsCurrent'
    BY <2>1, <2>2 DEF LiveIsCurrent, Live
  <2>. QED
    BY <1>2, <2>1, <2>3, NullIsNoSocket DEF LinkTypes, ReadyStates
<1>3. CASE ~Live(ws) /\ ScheduleReconnect(n) /\ UNCHANGED <<readyState, ws>>
  BY <1>3 DEF LinkTypes, LiveIsCurrent, Live, ScheduleReconnect
<1>. QED
  BY <1>1, <1>2, <1>3 DEF DoConnect

\* A socket that opens or closes keeps the invariant.
LEMMA SocketKeepsLink ==
    ASSUME LinkInv, NEW s \in Socket, SocketOpens(s) \/ SocketCloses(s)
    PROVE  LinkInv'
<1>1. CASE SocketOpens(s)
  BY <1>1, NullIsNoSocket
  DEF SocketOpens, LinkInv, LinkTypes, LiveIsCurrent, Live, NeverGivesUp, ReadyStates
<1>2. CASE SocketCloses(s)
  <2>1. /\ readyState' = [readyState EXCEPT ![s] = "closed"]
        /\ ws' = ws /\ started' = started /\ shouldReconnect' = shouldReconnect
        /\ IF shouldReconnect THEN timers' = timers + 1 ELSE timers' = timers
    BY <1>2 DEF SocketCloses, OnClose, ScheduleReconnect
  <2>2. LiveIsCurrent'
    BY <2>1 DEF LinkInv, LinkTypes, LiveIsCurrent, Live
  <2>. QED
    BY <2>1, <2>2 DEF LinkInv, LinkTypes, NeverGivesUp, ReadyStates
<1>. QED
  BY <1>1, <1>2

\* So does every step of the page and of the endpoint it sees.
LEMMA ClientKeepsLink ==
    ASSUME LinkInv, ClientNext
    PROVE  LinkInv'
<1>1. CASE PageStarts
  BY <1>1, ConnectKeepsLink DEF PageStarts, LinkInv, LinkTypes, NeverGivesUp
<1>2. ASSUME NEW s \in Socket, SocketCloses(s)
      PROVE  LinkInv'
  BY <1>2, SocketKeepsLink
<1>7. ASSUME NEW s \in Socket, SocketStartsClosing(s)
      PROVE  LinkInv'
  <2>1. /\ readyState' = [readyState EXCEPT ![s] = "closing"]
        /\ UNCHANGED <<ws, timers, started, shouldReconnect>>
    BY <1>7 DEF SocketStartsClosing
  <2>2. LiveIsCurrent'
    BY <2>1 DEF LinkInv, LinkTypes, LiveIsCurrent, Live
  <2>. QED
    BY <2>1, <2>2 DEF LinkInv, LinkTypes, NeverGivesUp, ReadyStates
<1>3. CASE TimerFires
  <2>1. CASE shouldReconnect
    BY <1>3, <2>1, ConnectKeepsLink DEF TimerFires, LinkInv, LinkTypes, NeverGivesUp
  <2>2. CASE ~shouldReconnect
    BY <1>3, <2>2 DEF TimerFires, LinkInv, LinkTypes, LiveIsCurrent, Live, NeverGivesUp
  <2>. QED
    BY <2>1, <2>2
<1>4. CASE ApiDisconnects
  <2>1. readyState' \in {readyState, [readyState EXCEPT ![ws] = "closing"]}
    BY <1>4 DEF ApiDisconnects
  <2>2. LiveIsCurrent'
    BY <1>4, <2>1 DEF ApiDisconnects, LinkInv, LinkTypes, LiveIsCurrent, Live
  <2>. QED
    BY <1>4, <2>1, <2>2, NullIsNoSocket
    DEF ApiDisconnects, LinkInv, LinkTypes, NeverGivesUp, ReadyStates
<1>5. CASE ApiConnects
  BY <1>5, ConnectKeepsLink DEF ApiConnects, LinkInv, LinkTypes, NeverGivesUp
<1>6. ASSUME \/ ClickPause
             \/ \E i \in PageIntervals : MoveSlider(i)
             \/ \E s \in Socket : ServerTakes(s) \/ ServerDrops(s) \/ PageTakes(s)
      PROVE  LinkInv'
  <2>1. UNCHANGED <<started, linkVars>>
    BY <1>6 DEF ClickPause, MoveSlider, ServerTakes, ServerDrops, PageTakes
  <2>. QED
    BY <2>1 DEF linkVars, LinkInv, LinkTypes, LiveIsCurrent, Live, NeverGivesUp
<1>. QED
  BY <1>1, <1>2, <1>3, <1>4, <1>5, <1>6, <1>7 DEF ClientNext

-----------------------------------------------------------------------------

\* Every live socket of a page is its current one, and a page that wants to be
\* connected has a socket that is not closed or a timer: through reloads,
\* restarts of the server, refused tokens and late events of older sockets.
THEOREM LinkInvariant == SessionSpec => []LinkInv
<1>1. SessionInit => LinkInv
  BY LinkInitially DEF SessionInit, ClientInit
<1>2. LinkInv /\ [SessionNext]_sessionVars => LinkInv'
  <2>. SUFFICES ASSUME LinkInv, [SessionNext]_sessionVars
                PROVE  LinkInv'
    OBVIOUS
  <2>1. ASSUME NEW token \in MaybeToken, Visits(token)
        PROVE  LinkInv'
    <3>1. /\ ws' = Null /\ readyState' = [s \in Socket |-> "closed"]
          /\ timers' = 0 /\ started' = FALSE /\ shouldReconnect' = TRUE
      BY <2>1 DEF Visits, PageLoads
    <3>. QED
      BY <3>1, NullIsNoSocket
      DEF LinkInv, LinkTypes, LiveIsCurrent, Live, NeverGivesUp, ReadyStates
  <2>2. ASSUME NEW s \in Socket, SocketAdmitted(s)
        PROVE  LinkInv'
    BY <2>2, SocketKeepsLink DEF SocketAdmitted
  <2>3. CASE OnDashboard
    BY <2>3, ClientKeepsLink DEF OnDashboard
  <2>4. ASSUME \/ \E token \in Settings : ServerRestarts(token)
               \/ \E token \in Tokens : Submits(token)
               \/ Enters
               \/ UNCHANGED sessionVars
        PROVE  LinkInv'
    <3>1. UNCHANGED <<started, linkVars>>
      BY <2>4 DEF ServerRestarts, Submits, Enters, sessionVars, clientVars
    <3>. QED
      BY <3>1 DEF linkVars, LinkInv, LinkTypes, LiveIsCurrent, Live, NeverGivesUp
  <2>. QED
    BY <2>1, <2>2, <2>3, <2>4 DEF SessionNext
<1>. QED
  BY <1>1, <1>2, PTL DEF SessionSpec

\* A page never holds two connections at once (websocket.js lines 37-40).
THEOREM OneConnection == SessionSpec => []OneLiveSocket
<1>1. LinkInv => OneLiveSocket
  <2>. SUFFICES ASSUME LinkInv, NEW s \in Socket, NEW t \in Socket, Live(s), Live(t)
                PROVE  s = t
    BY DEF OneLiveSocket
  <2>. QED
    BY DEF LinkInv, LiveIsCurrent
<1>. QED
  BY <1>1, LinkInvariant, PTL

\* A page that wants to be connected is connected, connecting, or about to try
\* again (websocket.js lines 42-47, 55-61, 110-117).
THEOREM KeepsTrying == SessionSpec => []NeverGivesUp
<1>1. LinkInv => NeverGivesUp
  BY DEF LinkInv
<1>. QED
  BY <1>1, LinkInvariant, PTL

-----------------------------------------------------------------------------
(* What the page shows and what the server has in force *)

\* Of the commands in a queue the last one for a field carries this value, or
\* none is for that field.
LastSays(q, f, v) ==
    \A i \in 1..Len(q) :
       q[i].field = f /\ (\A j \in i + 1..Len(q) : q[j].field # f) => q[i].value = v
Silent(q, f) == \A i \in 1..Len(q) : q[i].field # f

\* Before the script has run there is nothing to go wrong.
IdleInv ==
    ~started => /\ timers = 0 /\ ws = Null
                /\ \A s \in Socket : readyState[s] = "closed"

\* The server knows of a socket while it is open, and else has nothing of it.
PeerInv ==
    \A s \in Socket :
       /\ peer[s] # "none" <=> readyState[s] = "open"
       /\ peer[s] = "none" => /\ up[s] = <<>> /\ down[s] = <<>>
                              /\ inForce[s] = Defaults /\ touched[s] = {}

\* The last command in flight for a setting is what the page shows, and when
\* there is none the server has it in force.
CommandsInv ==
    \A s \in Socket : peer[s] = "served" =>
       \A f \in touched[s] : /\ LastSays(up[s], f, page[f])
                             /\ Silent(up[s], f) => inForce[s][f] = page[f]

\* A page that connects once has one socket or one timer, and its status line
\* follows ws.
TextInv ==
    ~apiUsed =>
       /\ \A s \in Socket : readyState[s] # "closed" => s = ws
       /\ timers \in {0, 1}
       /\ ws # Null /\ readyState[ws] # "closed" => timers = 0
       /\ text \in {"Connected", "Paused"} <=>
             ws # Null /\ readyState[ws] \in {"open", "closing"}

\* The last answer in flight about the pause is what the server has in force,
\* and when there is none the status line says so.
AnswersInv ==
    ~apiUsed =>
       \A s \in Socket : peer[s] = "served" =>
          /\ LastSays(down[s], "paused", inForce[s].paused)
          /\ Silent(down[s], "paused") => (text = "Paused" <=> inForce[s].paused)

\* The inductive invariant of the session.
PageInv ==
    /\ LinkInv
    /\ SessionTypeOK
    /\ IdleInv
    /\ PeerInv
    /\ OnlyTheTokenIsServed
    /\ CommandsInv
    /\ TextInv
    /\ AnswersInv

-----------------------------------------------------------------------------

\* A command that is appended is the last for its field and no other.
LEMMA AppendSays ==
    ASSUME NEW q \in Seq(Command), NEW c \in Command, NEW f, NEW v
    PROVE  /\ Append(q, c) \in Seq(Command)
           /\ c.field = f => /\ ~Silent(Append(q, c), f)
                             /\ c.value = v => LastSays(Append(q, c), f, v)
           /\ c.field # f => /\ Silent(Append(q, c), f) => Silent(q, f)
                             /\ LastSays(q, f, v) => LastSays(Append(q, c), f, v)
<1>. DEFINE longer == Append(q, c)
            n == Len(q)
<1>1. /\ longer \in Seq(Command) /\ Len(longer) = n + 1 /\ n \in Nat
      /\ \A i \in 1..n : longer[i] = q[i]
      /\ longer[n + 1] = c
  OBVIOUS
<1>. HIDE DEF longer, n
<1>2. ASSUME c.field = f PROVE ~Silent(longer, f)
  BY <1>1, <1>2 DEF Silent
<1>3. ASSUME c.field = f, c.value = v PROVE LastSays(longer, f, v)
  <2>. SUFFICES ASSUME NEW i \in 1..n + 1, longer[i].field = f,
                       \A j \in i + 1..n + 1 : longer[j].field # f
                PROVE  longer[i].value = v
    BY <1>1 DEF LastSays
  <2>1. i = n + 1
    BY <1>1, <1>3
  <2>. QED
    BY <1>1, <1>3, <2>1
<1>4. ASSUME c.field # f, Silent(longer, f) PROVE Silent(q, f)
  BY <1>1, <1>4 DEF Silent, n
<1>5. ASSUME c.field # f, LastSays(q, f, v) PROVE LastSays(longer, f, v)
  <2>. SUFFICES ASSUME NEW i \in 1..n + 1, longer[i].field = f,
                       \A j \in i + 1..n + 1 : longer[j].field # f
                PROVE  longer[i].value = v
    BY <1>1 DEF LastSays
  <2>1. i \in 1..n /\ \A j \in i + 1..n : j \in 1..n /\ longer[j].field # f
    BY <1>1, <1>5
  <2>2. q[i].field = f /\ \A j \in i + 1..n : q[j].field # f
    BY <1>1, <2>1
  <2>3. q[i].value = v
    BY <1>5, <2>1, <2>2 DEF LastSays, n
  <2>. QED
    BY <1>1, <2>1, <2>3
<1>. QED
  BY <1>1, <1>2, <1>3, <1>4, <1>5 DEF longer

\* The command at the head of a queue is the last for its field or not.
LEMMA TailSays ==
    ASSUME NEW q \in Seq(Command), q # <<>>, NEW f, NEW v
    PROVE  /\ Head(q) \in Command /\ Tail(q) \in Seq(Command)
           /\ Len(Tail(q)) <= Len(q)
           /\ LastSays(q, f, v) => LastSays(Tail(q), f, v)
           /\ Silent(Tail(q), f) /\ Head(q).field # f => Silent(q, f)
           /\ Silent(Tail(q), f) /\ Head(q).field = f /\ LastSays(q, f, v) =>
                 Head(q).value = v
<1>. DEFINE rest == Tail(q)
            n == Len(q)
<1>1. /\ rest \in Seq(Command) /\ Len(rest) = n - 1 /\ n \in Nat \ {0}
      /\ \A i \in 1..n - 1 : rest[i] = q[i + 1]
      /\ Head(q) = q[1] /\ q[1] \in Command
  BY HeadTailProperties, ElementOfSeq, EmptySeq
<1>. HIDE DEF rest, n
<1>2. ASSUME LastSays(q, f, v) PROVE LastSays(rest, f, v)
  <2>. SUFFICES ASSUME NEW i \in 1..n - 1, rest[i].field = f,
                       \A j \in i + 1..n - 1 : rest[j].field # f
                PROVE  rest[i].value = v
    BY <1>1 DEF LastSays
  <2>1. i + 1 \in 1..n /\ q[i + 1].field = f
    BY <1>1
  <2>2. ASSUME NEW j \in i + 1 + 1..n PROVE q[j].field # f
    <3>1. j - 1 \in i + 1..n - 1 /\ j - 1 \in 1..n - 1 /\ (j - 1) + 1 = j
      BY <1>1
    <3>. QED
      BY <1>1, <3>1
  <2>3. q[i + 1].value = v
    BY <1>2, <2>1, <2>2 DEF LastSays, n
  <2>. QED
    BY <1>1, <2>3
<1>3. ASSUME Silent(rest, f), NEW i \in 2..n PROVE q[i].field # f
  <2>1. i - 1 \in 1..n - 1 /\ (i - 1) + 1 = i
    BY <1>1
  <2>. QED
    BY <1>1, <1>3, <2>1 DEF Silent
<1>4. ASSUME Silent(rest, f), q[1].field # f PROVE Silent(q, f)
  <2>1. \A i \in 1..n : i = 1 \/ i \in 2..n
    BY <1>1
  <2>. QED
    BY <1>3, <1>4, <2>1 DEF Silent, n
<1>5. ASSUME Silent(rest, f), q[1].field = f, LastSays(q, f, v) PROVE q[1].value = v
  <2>1. 1 \in 1..n /\ 1 + 1 = 2
    BY <1>1
  <2>2. \A j \in 1 + 1..n : q[j].field # f
    BY <1>3, <1>5, <2>1
  <2>. QED
    BY <1>5, <2>1, <2>2 DEF LastSays, n
<1>. QED
  BY <1>1, <1>2, <1>4, <1>5 DEF rest, n

-----------------------------------------------------------------------------
(* Types *)

\* The fields of the client object and those of the connections.
LinkFields ==
    /\ readyState \in [Socket -> {"connecting", "open", "closing", "closed"}]
    /\ ws \in {Null} \cup Socket
    /\ reconnectDelay \in FirstDelay..MaxDelay
    /\ timers \in 0..Slots

PeerFields ==
    /\ peer \in [Socket -> {"none", "served", "dropped", "gone"}]
    /\ up \in [Socket -> Seq(Command)]
    /\ down \in [Socket -> Seq(Command)]
    /\ \A s \in Socket : Len(up[s]) <= MaxInFlight /\ Len(down[s]) <= MaxAnswers
    /\ inForce \in [Socket -> Controls]
    /\ touched \in [Socket -> SUBSET Fields]

PageFields ==
    /\ started \in BOOLEAN
    /\ connected \in BOOLEAN
    /\ shouldReconnect \in BOOLEAN
    /\ page \in Controls
    /\ text \in {"Connecting...", "Connected", "Reconnecting...", "Paused"}
    /\ apiUsed \in BOOLEAN

LEMMA ClientFields == ClientTypeOK <=> LinkFields /\ PeerFields /\ PageFields
  BY DEF ClientTypeOK, LinkFields, PeerFields, PageFields

\* The delay grows by half, up to its limit.
LEMMA DelayIsCapped ==
    ASSUME NEW n \in 0..Slots - 1, LinkFields, ScheduleReconnect(n)
    PROVE  reconnectDelay' \in FirstDelay..MaxDelay /\ timers' \in 0..Slots
<1>. DEFINE longer == (reconnectDelay * 3) \div 2
<1>1. reconnectDelay \in 1000..30000
  BY DEF LinkFields, FirstDelay, MaxDelay
<1>2. longer \in Int /\ longer >= 1000
  BY <1>1
<1>3. /\ reconnectDelay' = (IF longer < 30000 THEN longer ELSE 30000)
      /\ timers' = n + 1
  BY DEF ScheduleReconnect, MaxDelay
<1>. HIDE DEF longer
<1>4. timers' \in 0..Slots
  BY <1>3, ClientAssumption
<1>. QED
  BY <1>2, <1>3, <1>4 DEF FirstDelay, MaxDelay

LEMMA ConnectKeepsTypes ==
    ASSUME NEW n \in 0..Slots - 1, LinkFields, DoConnect(n)
    PROVE  LinkFields'
<1>1. n \in 0..Slots
  BY ClientAssumption
<1>2. CASE Live(ws) /\ timers' = n /\ UNCHANGED <<readyState, ws, reconnectDelay>>
  BY <1>1, <1>2 DEF LinkFields
<1>3. CASE /\ \E s \in Socket \ {ws} :
                 /\ readyState[s] = "closed"
                 /\ readyState' = [readyState EXCEPT ![s] = "connecting"]
                 /\ ws' = s
           /\ timers' = n /\ UNCHANGED reconnectDelay
  BY <1>1, <1>3 DEF LinkFields
<1>4. CASE ScheduleReconnect(n) /\ UNCHANGED <<readyState, ws>>
  BY <1>4, DelayIsCapped DEF LinkFields
<1>. QED
  BY <1>2, <1>3, <1>4 DEF DoConnect

LEMMA ForgetKeepsTypes ==
    ASSUME PeerFields, NEW s \in Socket, Forget(s)
    PROVE  PeerFields'
<1>1. Defaults \in Controls
  BY ClientAssumption DEF Defaults, Controls
<1>2. <<>> \in Seq(Command) /\ Len(<<>>) = 0 /\ MaxInFlight \in Nat /\ MaxAnswers \in Nat
  BY ClientAssumption
<1>. QED
  BY <1>1, <1>2 DEF Forget, PeerFields

LEMMA SendKeepsTypes ==
    ASSUME PeerFields, LinkFields, NEW c \in Command, Send(c.field, c.value),
           UNCHANGED <<peer, down, inForce>>
    PROVE  PeerFields'
<1>1. CASE ws # Null /\ readyState[ws] = "open"
  <2>1. c = [field |-> c.field, value |-> c.value] /\ c.field \in Fields
    BY DEF Command, Fields
  <2>2. /\ ws \in Socket /\ Len(up[ws]) < MaxInFlight
        /\ up' = [up EXCEPT ![ws] = Append(@, c)]
        /\ touched' = [touched EXCEPT ![ws] = @ \cup {c.field}]
    BY <1>1, <2>1 DEF Send, LinkFields
  <2>3. up[ws] \in Seq(Command)
    BY <2>2 DEF PeerFields
  <2>. DEFINE longer == Append(up[ws], c)
  <2>4. longer \in Seq(Command) /\ Len(longer) <= MaxInFlight
    BY <2>2, <2>3, ClientAssumption
  <2>. HIDE DEF longer
  <2>5. up' = [up EXCEPT ![ws] = longer]
    BY <2>2 DEF longer
  <2>. QED
    BY <2>1, <2>2, <2>4, <2>5 DEF PeerFields
<1>2. CASE ~(ws # Null /\ readyState[ws] = "open")
  BY <1>2 DEF Send, PeerFields
<1>. QED
  BY <1>1, <1>2

LEMMA AnsweringKeepsTypes ==
    ASSUME PeerFields, NEW s \in Socket, ServerTakes(s)
    PROVE  PeerFields'
<1>. DEFINE c == Head(up[s])
            rest == Tail(up[s])
<1>1. c \in Command /\ rest \in Seq(Command) /\ Len(rest) <= MaxInFlight
  <2>1. up[s] \in Seq(Command) /\ up[s] # <<>> /\ Len(up[s]) <= MaxInFlight
    BY DEF ServerTakes, PeerFields
  <2>2. c \in Command /\ rest \in Seq(Command) /\ Len(rest) <= Len(up[s])
    BY <2>1, TailSays
  <2>. QED
    BY <2>1, <2>2, ClientAssumption
<1>2. up' = [up EXCEPT ![s] = rest] /\ UNCHANGED <<peer, touched>>
  BY DEF ServerTakes
<1>3. CASE peer[s] = "served"
  <2>. DEFINE longer == Append(down[s], c)
              new == [inForce[s] EXCEPT ![c.field] = c.value]
  <2>1. /\ Len(down[s]) < MaxAnswers /\ down' = [down EXCEPT ![s] = longer]
        /\ inForce' = [inForce EXCEPT ![s] = new]
    BY <1>3 DEF ServerTakes
  <2>2. longer \in Seq(Command) /\ Len(longer) <= MaxAnswers
    <3>1. down[s] \in Seq(Command)
      BY DEF PeerFields
    <3>. HIDE DEF c
    <3>. QED
      BY <1>1, <2>1, <3>1, ClientAssumption
  <2>3. new \in Controls
    <3>1. inForce[s] \in Controls
      BY DEF PeerFields
    <3>. HIDE DEF c
    <3>. QED
      BY <1>1, <3>1 DEF Command, Controls
  <2>. HIDE DEF c, rest, longer, new
  <2>. QED
    BY <1>1, <1>2, <2>1, <2>2, <2>3 DEF PeerFields
<1>4. CASE peer[s] # "served"
  <2>1. UNCHANGED <<inForce, down>>
    BY <1>4 DEF ServerTakes
  <2>. HIDE DEF rest, c
  <2>. QED
    BY <1>1, <1>2, <2>1 DEF PeerFields
<1>. QED
  BY <1>3, <1>4

LEMMA ClientKeepsTypes ==
    ASSUME ClientTypeOK, IdleInv, ClientNext
    PROVE  ClientTypeOK'
<1>. SUFFICES LinkFields' /\ PeerFields' /\ PageFields'
  BY DEF ClientTypeOK, LinkFields, PeerFields, PageFields
<1>0. LinkFields /\ PeerFields /\ PageFields
  BY ClientFields
<1>a. ASSUME UNCHANGED linkVars
      PROVE  LinkFields' /\ UNCHANGED <<connected, shouldReconnect>>
  BY <1>0, <1>a DEF linkVars, LinkFields
<1>b. ASSUME UNCHANGED peerVars PROVE PeerFields'
  BY <1>0, <1>b DEF peerVars, PeerFields
<1>1. CASE PageStarts
  <2>1. DoConnect(timers) /\ timers = 0
    BY <1>1 DEF PageStarts, IdleInv
  <2>2. LinkFields'
    BY <1>0, <2>1, ConnectKeepsTypes, ClientAssumption
  <2>. QED
    BY <1>0, <1>1, <1>b, <2>2 DEF PageStarts, PageFields, settingVars
<1>2. ASSUME NEW s \in Socket, SocketCloses(s)
      PROVE  LinkFields' /\ PeerFields' /\ PageFields'
  <2>1. PeerFields'
    BY <1>0, <1>2, ForgetKeepsTypes DEF SocketCloses
  <2>2. reconnectDelay' \in FirstDelay..MaxDelay /\ timers' \in 0..Slots
    <3>1. CASE shouldReconnect
      <4>1. timers \in 0..Slots - 1 /\ ScheduleReconnect(timers)
        BY <1>0, <1>2, <3>1, ClientAssumption DEF SocketCloses, OnClose, LinkFields
      <4>. QED
        BY <1>0, <4>1, DelayIsCapped
    <3>2. CASE ~shouldReconnect
      BY <1>0, <1>2, <3>2 DEF SocketCloses, OnClose, LinkFields
    <3>. QED
      BY <3>1, <3>2
  <2>. QED
    BY <1>0, <1>2, <2>1, <2>2 DEF SocketCloses, OnClose, LinkFields, PageFields
<1>11. ASSUME NEW s \in Socket, SocketStartsClosing(s)
       PROVE  LinkFields' /\ PeerFields' /\ PageFields'
  <2>1. PeerFields'
    BY <1>0, <1>11, ForgetKeepsTypes DEF SocketStartsClosing
  <2>. QED
    BY <1>0, <1>11, <2>1 DEF SocketStartsClosing, LinkFields, PageFields
<1>3. CASE TimerFires
  <2>1. CASE shouldReconnect
    <3>1. timers - 1 \in 0..Slots - 1 /\ DoConnect(timers - 1)
      BY <1>0, <1>3, <2>1, ClientAssumption DEF TimerFires, LinkFields
    <3>2. LinkFields'
      BY <1>0, <3>1, ConnectKeepsTypes
    <3>. QED
      BY <1>0, <1>3, <1>b, <3>2 DEF TimerFires, PageFields, settingVars
  <2>2. CASE ~shouldReconnect
    <3>1. LinkFields'
      BY <1>0, <1>3, <2>2, ClientAssumption DEF TimerFires, LinkFields
    <3>. QED
      BY <1>0, <1>3, <1>b, <3>1 DEF TimerFires, PageFields, settingVars
  <2>. QED
    BY <2>1, <2>2
<1>4. CASE ApiDisconnects
  <2>1. CASE Live(ws)
    <3>1. ws \in Socket
      BY <1>0, <2>1 DEF Live, LinkFields
    <3>2. PeerFields'
      BY <1>0, <1>4, <2>1, <3>1, ForgetKeepsTypes DEF ApiDisconnects
    <3>. QED
      BY <1>0, <1>4, <2>1, <3>1, <3>2 DEF ApiDisconnects, LinkFields, PageFields
  <2>2. CASE ~Live(ws)
    BY <1>0, <1>4, <1>b, <2>2 DEF ApiDisconnects, LinkFields, PageFields
  <2>. QED
    BY <2>1, <2>2
<1>5. CASE ApiConnects
  <2>1. timers \in 0..Slots - 1 /\ DoConnect(timers)
    BY <1>0, <1>5, ClientAssumption DEF ApiConnects, LinkFields
  <2>2. LinkFields'
    BY <1>0, <2>1, ConnectKeepsTypes
  <2>. QED
    BY <1>0, <1>5, <1>b, <2>2 DEF ApiConnects, PageFields, settingVars
<1>6. CASE ClickPause
  <2>. DEFINE c == [field |-> "paused", value |-> ~page.paused]
  <2>1. c \in Command
    BY DEF Command
  <2>2. Send(c.field, c.value) /\ UNCHANGED <<linkVars, peer, down, inForce>>
    BY <1>6 DEF ClickPause
  <2>3. PeerFields'
    BY <1>0, <2>1, <2>2, SendKeepsTypes
  <2>. QED
    BY <1>0, <1>6, <1>a, <2>2, <2>3 DEF ClickPause, PageFields, Controls
<1>7. ASSUME NEW i \in PageIntervals, MoveSlider(i)
      PROVE  LinkFields' /\ PeerFields' /\ PageFields'
  <2>. DEFINE c == [field |-> "interval", value |-> i]
  <2>1. c \in Command
    BY DEF Command
  <2>2. Send(c.field, c.value) /\ UNCHANGED <<linkVars, peer, down, inForce>>
    BY <1>7 DEF MoveSlider
  <2>3. PeerFields'
    BY <1>0, <2>1, <2>2, SendKeepsTypes
  <2>. QED
    BY <1>0, <1>7, <1>a, <2>2, <2>3 DEF MoveSlider, PageFields, Controls
<1>8. ASSUME NEW s \in Socket, ServerTakes(s)
      PROVE  LinkFields' /\ PeerFields' /\ PageFields'
  BY <1>0, <1>8, <1>a, AnsweringKeepsTypes DEF ServerTakes, PageFields
<1>9. ASSUME NEW s \in Socket, ServerDrops(s)
      PROVE  LinkFields' /\ PeerFields' /\ PageFields'
  <2>1. PeerFields'
    BY <1>0, <1>9 DEF ServerDrops, PeerFields
  <2>. QED
    BY <1>0, <1>9, <1>a, <2>1 DEF ServerDrops, PageFields
<1>10. ASSUME NEW s \in Socket, PageTakes(s)
       PROVE  LinkFields' /\ PeerFields' /\ PageFields'
  <2>. DEFINE rest == Tail(down[s])
  <2>1. rest \in Seq(Command) /\ Len(rest) <= MaxAnswers
    <3>1. down[s] \in Seq(Command) /\ down[s] # <<>> /\ Len(down[s]) <= MaxAnswers
      BY <1>0, <1>10 DEF PageTakes, PeerFields
    <3>2. rest \in Seq(Command) /\ Len(rest) <= Len(down[s])
      BY <3>1, TailSays
    <3>. QED
      BY <3>1, <3>2, ClientAssumption
  <2>2. down' = [down EXCEPT ![s] = rest]
    BY <1>10 DEF PageTakes
  <2>. HIDE DEF rest
  <2>3. PeerFields'
    BY <1>0, <1>10, <2>1, <2>2 DEF PageTakes, PeerFields
  <2>. QED
    BY <1>0, <1>10, <1>a, <2>3 DEF PageTakes, Status, PageFields
<1>. QED
  BY <1>1, <1>2, <1>3, <1>4, <1>5, <1>6, <1>7, <1>8, <1>9, <1>10, <1>11 DEF ClientNext

LEMMA SessionKeepsTypes ==
    ASSUME SessionTypeOK, IdleInv, [SessionNext]_sessionVars
    PROVE  SessionTypeOK'
<1>. USE DEF SessionTypeOK
<1>1. ASSUME NEW token \in MaybeToken, Visits(token) PROVE SessionTypeOK'
  <2>1. LinkFields'
    BY <1>1, ClientAssumption DEF Visits, PageLoads, LinkFields, FirstDelay, MaxDelay
  <2>2. Defaults \in Controls
    BY ClientAssumption DEF Defaults, Controls
  <2>3. PeerFields'
    BY <1>1, <2>2, ClientAssumption DEF Visits, PageLoads, PeerFields
  <2>4. PageFields'
    BY <1>1, <2>2 DEF Visits, PageLoads, PageFields
  <2>5. ClientTypeOK'
    BY <2>1, <2>3, <2>4 DEF ClientTypeOK, LinkFields, PeerFields, PageFields
  <2>. QED
    BY <1>1, <2>5 DEF Visits, PageLoads, ServeIndex
<1>2. ASSUME NEW token \in Settings, ServerRestarts(token) PROVE SessionTypeOK'
  <2>1. ClientTypeOK'
    BY <1>2 DEF ServerRestarts, linkVars, ClientTypeOK
  <2>. QED
    BY <1>2, <2>1 DEF ServerRestarts
<1>3. ASSUME NEW token \in Tokens, Submits(token) PROVE SessionTypeOK'
  <2>1. ClientTypeOK'
    BY <1>3 DEF Submits, clientVars, linkVars, settingVars, peerVars, ClientTypeOK
  <2>. QED
    BY <1>3, <2>1 DEF Submits, MaybeToken, clientVars
<1>4. CASE Enters
  <2>1. ClientTypeOK'
    BY <1>4 DEF Enters, clientVars, linkVars, settingVars, peerVars, ClientTypeOK
  <2>. QED
    BY <1>4, <2>1 DEF Enters, ServeIndex, clientVars
<1>5. ASSUME NEW s \in Socket, SocketAdmitted(s) PROVE SessionTypeOK'
  <2>0. LinkFields /\ PeerFields /\ PageFields /\ SocketOpens(s)
    BY <1>5, ClientFields DEF SocketAdmitted
  <2>1. LinkFields'
    BY <2>0 DEF SocketOpens, LinkFields, FirstDelay, MaxDelay
  <2>2. PeerFields'
    BY <2>0 DEF SocketOpens, PeerFields
  <2>3. PageFields'
    BY <2>0 DEF SocketOpens, PageFields
  <2>4. ClientTypeOK'
    BY <2>1, <2>2, <2>3 DEF ClientTypeOK, LinkFields, PeerFields, PageFields
  <2>. QED
    BY <1>5, <2>4 DEF SocketAdmitted, SocketOpens, accessVars
<1>6. CASE OnDashboard
  <2>1. ClientTypeOK'
    BY <1>6, ClientKeepsTypes DEF OnDashboard
  <2>. QED
    BY <1>6, <2>1 DEF OnDashboard, accessVars
<1>7. CASE UNCHANGED sessionVars
  BY <1>7
  DEF sessionVars, accessVars, clientVars, linkVars, settingVars, peerVars, ClientTypeOK
<1>. QED
  BY <1>1, <1>2, <1>3, <1>4, <1>5, <1>6, <1>7 DEF SessionNext

-----------------------------------------------------------------------------
(* Connections, and the token *)

LEMMA NextKeepsIdle ==
    ASSUME IdleInv, [SessionNext]_sessionVars
    PROVE  IdleInv'
<1>1. ASSUME NEW token \in MaybeToken, Visits(token) PROVE IdleInv'
  BY <1>1 DEF Visits, PageLoads, IdleInv
<1>2. ASSUME NEW s \in Socket, SocketAdmitted(s) PROVE started
  BY <1>2 DEF SocketAdmitted, SocketOpens, IdleInv
<1>3. ASSUME NEW s \in Socket, SocketStartsClosing(s) \/ SocketCloses(s) PROVE started
  BY <1>3 DEF SocketStartsClosing, SocketCloses, IdleInv
<1>4. ASSUME started, UNCHANGED started PROVE IdleInv'
  BY <1>4 DEF IdleInv
<1>5. ASSUME UNCHANGED <<started, linkVars>> PROVE IdleInv'
  BY <1>5 DEF IdleInv, linkVars
<1>6. ASSUME NEW s \in Socket,
             SocketAdmitted(s) \/ SocketStartsClosing(s) \/ SocketCloses(s)
      PROVE  IdleInv'
  <2>1. started /\ UNCHANGED started
    BY <1>2, <1>3, <1>6
    DEF SocketAdmitted, SocketOpens, SocketStartsClosing, SocketCloses
  <2>. QED
    BY <1>4, <2>1
<1>7. CASE PageStarts
  BY <1>7 DEF PageStarts, IdleInv
<1>8. CASE TimerFires
  <2>1. started
    BY <1>8 DEF TimerFires, IdleInv
  <2>. QED
    BY <1>4, <1>8, <2>1 DEF TimerFires
<1>9. CASE ApiDisconnects \/ ApiConnects
  BY <1>4, <1>9 DEF ApiDisconnects, ApiConnects
<1>10. ASSUME \/ ClickPause
              \/ \E i \in PageIntervals : MoveSlider(i)
              \/ \E s \in Socket : ServerTakes(s) \/ ServerDrops(s) \/ PageTakes(s)
       PROVE  IdleInv'
  BY <1>5, <1>10 DEF ClickPause, MoveSlider, ServerTakes, ServerDrops, PageTakes
<1>11. ASSUME \/ \E token \in Settings : ServerRestarts(token)
              \/ \E token \in Tokens : Submits(token)
              \/ Enters
              \/ UNCHANGED sessionVars
       PROVE  IdleInv'
  BY <1>5, <1>11 DEF ServerRestarts, Submits, Enters, sessionVars, clientVars
<1>. QED
  BY <1>1, <1>6, <1>7, <1>8, <1>9, <1>10, <1>11 DEF SessionNext, OnDashboard, ClientNext

\* _doConnect() does nothing to a socket that is open, and opens none.
LEMMA ConnectOpensNone ==
    ASSUME NEW n, LinkFields, DoConnect(n)
    PROVE  /\ \A s \in Socket : readyState'[s] = "open" <=> readyState[s] = "open"
           /\ \A s \in Socket : readyState'[s] = "closing" <=> readyState[s] = "closing"
           /\ ws' # ws => /\ ws' \in Socket /\ readyState'[ws'] = "connecting"
                          /\ ~Live(ws)
<1>1. CASE UNCHANGED <<readyState, ws>>
  BY <1>1
<1>2. CASE ~Live(ws) /\ \E s \in Socket \ {ws} :
                 /\ readyState[s] = "closed"
                 /\ readyState' = [readyState EXCEPT ![s] = "connecting"]
                 /\ ws' = s
  BY <1>2 DEF LinkFields
<1>. QED
  BY <1>1, <1>2 DEF DoConnect, ScheduleReconnect

\* Forget(s) is about s only.
LEMMA ForgetsOne ==
    ASSUME PeerFields, NEW s \in Socket, Forget(s)
    PROVE  /\ peer'[s] = "none" /\ up'[s] = <<>> /\ down'[s] = <<>>
           /\ inForce'[s] = Defaults /\ touched'[s] = {}
           /\ \A t \in Socket \ {s} :
                 /\ peer'[t] = peer[t] /\ up'[t] = up[t] /\ down'[t] = down[t]
                 /\ inForce'[t] = inForce[t] /\ touched'[t] = touched[t]
  BY DEF Forget, PeerFields

LEMMA NextKeepsPeers ==
    ASSUME SessionTypeOK, PeerInv, [SessionNext]_sessionVars
    PROVE  PeerInv'
<1>0. LinkFields /\ PeerFields
  BY ClientFields DEF SessionTypeOK
<1>a. ASSUME UNCHANGED peerVars,
             \A s \in Socket : readyState'[s] = "open" <=> readyState[s] = "open"
      PROVE  PeerInv'
  BY <1>a DEF PeerInv, peerVars
<1>b. ASSUME UNCHANGED <<readyState, peer>>, NEW s \in Socket, peer[s] # "none",
             \A t \in Socket \ {s} :
                /\ up'[t] = up[t] /\ down'[t] = down[t]
                /\ inForce'[t] = inForce[t] /\ touched'[t] = touched[t]
      PROVE  PeerInv'
  BY <1>b DEF PeerInv
<1>c. ASSUME NEW f, NEW v, Send(f, v), UNCHANGED <<linkVars, peer, down, inForce>>
      PROVE  PeerInv'
  <2>1. CASE ws # Null /\ readyState[ws] = "open"
    <3>1. ws \in Socket /\ peer[ws] # "none"
      BY <1>0, <2>1 DEF LinkFields, PeerInv
    <3>2. \A t \in Socket \ {ws} : up'[t] = up[t] /\ touched'[t] = touched[t]
      BY <1>0, <1>c, <2>1, <3>1 DEF Send, PeerFields
    <3>. QED
      BY <1>b, <1>c, <3>1, <3>2 DEF linkVars
  <2>2. CASE ~(ws # Null /\ readyState[ws] = "open")
    BY <1>a, <1>c, <2>2 DEF Send, linkVars, peerVars
  <2>. QED
    BY <2>1, <2>2
<1>1. ASSUME NEW token \in MaybeToken, Visits(token) PROVE PeerInv'
  BY <1>1 DEF Visits, PageLoads, PeerInv
<1>2. ASSUME NEW token \in Settings, ServerRestarts(token) PROVE PeerInv'
  BY <1>0, <1>2 DEF ServerRestarts, PeerInv, PeerFields, linkVars
<1>3. ASSUME NEW s \in Socket, SocketAdmitted(s) PROVE PeerInv'
  BY <1>0, <1>3 DEF SocketAdmitted, SocketOpens, PeerInv, PeerFields, LinkFields
<1>4. ASSUME NEW s \in Socket, SocketCloses(s) PROVE PeerInv'
  <2>1. /\ readyState'[s] = "closed"
        /\ \A t \in Socket \ {s} : readyState'[t] = readyState[t]
    BY <1>0, <1>4 DEF SocketCloses, LinkFields
  <2>2. Forget(s)
    BY <1>4 DEF SocketCloses
  <2>. QED
    BY <1>0, <2>1, <2>2, ForgetsOne DEF PeerInv
<1>14. ASSUME NEW s \in Socket, SocketStartsClosing(s) PROVE PeerInv'
  <2>1. /\ readyState'[s] = "closing"
        /\ \A t \in Socket \ {s} : readyState'[t] = readyState[t]
    BY <1>0, <1>14 DEF SocketStartsClosing, LinkFields
  <2>2. Forget(s)
    BY <1>14 DEF SocketStartsClosing
  <2>. QED
    BY <1>0, <2>1, <2>2, ForgetsOne DEF PeerInv
<1>5. CASE PageStarts
  BY <1>0, <1>5, <1>a, ConnectOpensNone DEF PageStarts, settingVars
<1>6. CASE TimerFires
  <2>1. UNCHANGED peerVars
    BY <1>6 DEF TimerFires, settingVars
  <2>2. \/ DoConnect(timers - 1)
        \/ UNCHANGED readyState
    BY <1>6 DEF TimerFires
  <2>. QED
    BY <1>0, <1>a, <2>1, <2>2, ConnectOpensNone
<1>7. CASE ApiConnects
  BY <1>0, <1>7, <1>a, ConnectOpensNone DEF ApiConnects, settingVars
<1>8. CASE ApiDisconnects
  <2>1. CASE Live(ws)
    <3>1. ws \in Socket
      BY <1>0, <2>1 DEF Live, LinkFields
    <3>2. /\ readyState'[ws] = "closing"
          /\ \A t \in Socket \ {ws} : readyState'[t] = readyState[t]
      BY <1>0, <1>8, <2>1, <3>1 DEF ApiDisconnects, LinkFields
    <3>3. Forget(ws)
      BY <1>8, <2>1 DEF ApiDisconnects
    <3>. QED
      BY <1>0, <3>1, <3>2, <3>3, ForgetsOne DEF PeerInv
  <2>2. CASE ~Live(ws)
    BY <1>8, <1>a, <2>2 DEF ApiDisconnects
  <2>. QED
    BY <2>1, <2>2
<1>9. CASE ClickPause \/ \E i \in PageIntervals : MoveSlider(i)
  BY <1>9, <1>c DEF ClickPause, MoveSlider
<1>10. ASSUME NEW s \in Socket, ServerTakes(s) PROVE PeerInv'
  <2>1. UNCHANGED <<readyState, peer, touched>> /\ peer[s] # "none"
    BY <1>10 DEF ServerTakes, linkVars
  <2>2. \A t \in Socket \ {s} : up'[t] = up[t]
    BY <1>0, <1>10 DEF ServerTakes, PeerFields
  <2>3. \A t \in Socket \ {s} : down'[t] = down[t] /\ inForce'[t] = inForce[t]
    BY <1>0, <1>10 DEF ServerTakes, PeerFields
  <2>. QED
    BY <1>b, <2>1, <2>2, <2>3
<1>11. ASSUME NEW s \in Socket, ServerDrops(s) PROVE PeerInv'
  BY <1>0, <1>11 DEF ServerDrops, PeerInv, PeerFields, linkVars
<1>12. ASSUME NEW s \in Socket, PageTakes(s) PROVE PeerInv'
  <2>1. UNCHANGED <<readyState, peer, up, inForce, touched>> /\ peer[s] # "none"
    BY <1>12 DEF PageTakes, linkVars, PeerInv
  <2>2. \A t \in Socket \ {s} : down'[t] = down[t]
    BY <1>0, <1>12 DEF PageTakes, PeerFields
  <2>. QED
    BY <1>b, <2>1, <2>2
<1>13. ASSUME \/ \E token \in Tokens : Submits(token)
              \/ Enters
              \/ UNCHANGED sessionVars
       PROVE  PeerInv'
  BY <1>13, <1>a DEF Submits, Enters, sessionVars, clientVars, linkVars, settingVars
<1>. QED
  BY <1>1, <1>2, <1>3, <1>4, <1>5, <1>6, <1>7, <1>8, <1>9, <1>10, <1>11, <1>12, <1>13,
     <1>14
  DEF SessionNext, OnDashboard, ClientNext

\* The token on the wire is that of the address, or none that a server has.
LEMMA WireIsHonest ==
    ASSUME SessionTypeOK, OpensSocket
    PROVE  CheckToken(urlToken)
<1>1. serverToken \in Tokens \cup {NoToken} /\ Garbled \notin Tokens
  BY TokenAssumption DEF SessionTypeOK
<1>2. Garbled # NoToken
  BY DEF Garbled, NoToken
<1>. QED
  BY <1>1, <1>2 DEF OpensSocket, CheckToken, WireToken

LEMMA NextKeepsToken ==
    ASSUME SessionTypeOK, IdleInv, PeerInv, OnlyTheTokenIsServed,
           [SessionNext]_sessionVars
    PROVE  OnlyTheTokenIsServed'
<1>0. PeerFields
  BY ClientFields DEF SessionTypeOK
<1>1. ASSUME UNCHANGED <<serverToken, urlToken>>,
             \A s \in Socket : peer'[s] \in {"served", "dropped"} =>
                                  peer[s] \in {"served", "dropped"}
      PROVE  OnlyTheTokenIsServed'
  BY <1>1 DEF OnlyTheTokenIsServed, CheckToken
<1>2. ASSUME NEW token \in MaybeToken, Visits(token) PROVE OnlyTheTokenIsServed'
  BY <1>2 DEF Visits, PageLoads, OnlyTheTokenIsServed
<1>3. ASSUME NEW token \in Settings, ServerRestarts(token) PROVE OnlyTheTokenIsServed'
  BY <1>3 DEF ServerRestarts, OnlyTheTokenIsServed
<1>4. ASSUME NEW token \in Tokens, Submits(token) PROVE OnlyTheTokenIsServed'
  BY <1>4 DEF Submits, clientVars, settingVars, peerVars, SessionTypeOK, IdleInv,
              PeerInv, OnlyTheTokenIsServed
<1>5. CASE Enters \/ UNCHANGED sessionVars
  BY <1>1, <1>5 DEF Enters, ServeIndex, sessionVars, accessVars, clientVars,
                    settingVars, peerVars
<1>6. ASSUME NEW s \in Socket, SocketAdmitted(s) PROVE OnlyTheTokenIsServed'
  <2>1. CheckToken(urlToken)
    BY <1>6, WireIsHonest DEF SocketAdmitted
  <2>2. UNCHANGED <<serverToken, urlToken>>
    BY <1>6 DEF SocketAdmitted, accessVars
  <2>. QED
    BY <2>1, <2>2 DEF OnlyTheTokenIsServed, CheckToken
<1>7. CASE OnDashboard
  <2>1. UNCHANGED <<serverToken, urlToken>>
    BY <1>7 DEF OnDashboard, accessVars
  <2>2. \A s \in Socket : peer'[s] \in {"served", "dropped"} =>
                             peer[s] \in {"served", "dropped"}
    <3>1. UNCHANGED peer \/ \E s \in Socket : Forget(s) \/ ServerDrops(s)
      <4>1. CASE ApiDisconnects
        <5>1. CASE Live(ws)
          <6>1. ws \in Socket
            BY <5>1, ClientFields DEF Live, LinkFields, SessionTypeOK
          <6>. QED
            BY <4>1, <5>1, <6>1 DEF ApiDisconnects
        <5>2. CASE ~Live(ws)
          BY <4>1, <5>2 DEF ApiDisconnects, peerVars
        <5>. QED
          BY <5>1, <5>2
      <4>2. CASE PageStarts \/ TimerFires \/ ApiConnects
        BY <4>2 DEF PageStarts, TimerFires, ApiConnects, settingVars, peerVars
      <4>3. CASE ClickPause \/ \E i \in PageIntervals : MoveSlider(i)
        BY <4>3 DEF ClickPause, MoveSlider
      <4>4. CASE \E s \in Socket : \/ SocketStartsClosing(s)
                                    \/ SocketCloses(s)
                                    \/ ServerTakes(s)
                                    \/ ServerDrops(s)
                                    \/ PageTakes(s)
        BY <4>4 DEF SocketStartsClosing, SocketCloses, ServerTakes, PageTakes
      <4>. QED
        BY <1>7, <4>1, <4>2, <4>3, <4>4 DEF OnDashboard, ClientNext
    <3>. QED
      BY <1>0, <3>1 DEF Forget, ServerDrops, PeerFields
  <2>. QED
    BY <1>1, <2>1, <2>2
<1>. QED
  BY <1>2, <1>3, <1>4, <1>5, <1>6, <1>7 DEF SessionNext

-----------------------------------------------------------------------------
(* Commands, answers and the status line *)

\* A socket the server serves is open, and so the page's current one.
LEMMA ServedIsCurrent ==
    ASSUME LinkInv, PeerInv, NEW s \in Socket, peer[s] = "served"
    PROVE  readyState[s] = "open" /\ s = ws
<1>1. readyState[s] = "open" /\ s # Null
  BY NullIsNoSocket DEF PeerInv
<1>. QED
  BY <1>1 DEF LinkInv, LiveIsCurrent, Live

\* A setting is changed on the page and sent, if the socket is open.
LEMMA SendKeepsCommands ==
    ASSUME SessionTypeOK, LinkInv, PeerInv, CommandsInv,
           NEW c \in Command, Send(c.field, c.value), UNCHANGED <<peer, inForce>>,
           page'[c.field] = c.value,
           \A f \in Fields \ {c.field} : page'[f] = page[f]
    PROVE  CommandsInv'
<1>0. LinkFields /\ PeerFields
  BY ClientFields DEF SessionTypeOK
<1>1. CASE ws # Null /\ readyState[ws] = "open"
  <2>1. ws \in Socket /\ c = [field |-> c.field, value |-> c.value] /\ c.field \in Fields
    BY <1>0, <1>1 DEF LinkFields, Command, Fields
  <2>2. /\ up'[ws] = Append(up[ws], c) /\ up[ws] \in Seq(Command)
        /\ touched'[ws] = touched[ws] \cup {c.field} /\ touched[ws] \subseteq Fields
    BY <1>0, <1>1, <2>1 DEF Send, PeerFields
  <2>3. SUFFICES ASSUME peer[ws] = "served", NEW f \in touched'[ws]
                 PROVE  /\ LastSays(up'[ws], f, page'[f])
                        /\ Silent(up'[ws], f) => inForce[ws][f] = page'[f]
    BY ServedIsCurrent DEF CommandsInv
  <2>4. CASE f = c.field
    BY <2>2, <2>4, AppendSays
  <2>5. CASE f # c.field
    <3>1. f \in touched[ws] /\ page'[f] = page[f]
      BY <2>2, <2>5
    <3>2. LastSays(up[ws], f, page[f]) /\ (Silent(up[ws], f) => inForce[ws][f] = page[f])
      BY <2>1, <2>3, <3>1 DEF CommandsInv
    <3>. QED
      BY <2>2, <2>5, <3>1, <3>2, AppendSays
  <2>. QED
    BY <2>4, <2>5
<1>2. CASE ~(ws # Null /\ readyState[ws] = "open")
  <2>1. \A s \in Socket : peer[s] # "served"
    BY <1>2, ServedIsCurrent, NullIsNoSocket
  <2>. QED
    BY <2>1 DEF CommandsInv
<1>. QED
  BY <1>1, <1>2

LEMMA NextKeepsCommands ==
    ASSUME SessionTypeOK, LinkInv, PeerInv, CommandsInv, [SessionNext]_sessionVars
    PROVE  CommandsInv'
<1>0. LinkFields /\ PeerFields /\ page \in Controls
  BY ClientFields DEF SessionTypeOK, PageFields
<1>a. ASSUME UNCHANGED page,
             \A s \in Socket : peer'[s] = "served" =>
                /\ peer[s] = "served" /\ up'[s] = up[s]
                /\ touched'[s] = touched[s] /\ inForce'[s] = inForce[s]
      PROVE  CommandsInv'
  BY <1>a DEF CommandsInv
<1>b. ASSUME NEW s \in Socket, Forget(s), UNCHANGED page PROVE CommandsInv'
  BY <1>0, <1>a, <1>b, ForgetsOne
<1>1. ASSUME NEW token \in MaybeToken, Visits(token) PROVE CommandsInv'
  BY <1>1 DEF Visits, PageLoads, CommandsInv
<1>2. ASSUME NEW token \in Settings, ServerRestarts(token) PROVE CommandsInv'
  BY <1>2 DEF ServerRestarts, CommandsInv
<1>3. ASSUME NEW s \in Socket, SocketAdmitted(s) PROVE CommandsInv'
  <2>1. touched[s] = {} /\ readyState[s] = "connecting"
    BY <1>3 DEF SocketAdmitted, SocketOpens, PeerInv
  <2>2. \A t \in Socket \ {s} : peer'[t] = peer[t]
    BY <1>0, <1>3 DEF SocketAdmitted, SocketOpens, PeerFields
  <2>3. UNCHANGED <<page, up, touched, inForce>>
    BY <1>3 DEF SocketAdmitted, SocketOpens
  <2>. QED
    BY <2>1, <2>2, <2>3 DEF CommandsInv
<1>4. ASSUME NEW s \in Socket, SocketStartsClosing(s) \/ SocketCloses(s)
      PROVE  CommandsInv'
  BY <1>4, <1>b DEF SocketStartsClosing, SocketCloses
<1>5. CASE PageStarts \/ TimerFires \/ ApiConnects
  BY <1>5, <1>a DEF PageStarts, TimerFires, ApiConnects, settingVars, peerVars
<1>6. CASE ApiDisconnects
  <2>1. CASE Live(ws)
    <3>1. ws \in Socket
      BY <1>0, <2>1 DEF Live, LinkFields
    <3>. QED
      BY <1>6, <1>b, <2>1, <3>1 DEF ApiDisconnects
  <2>2. CASE ~Live(ws)
    BY <1>6, <1>a, <2>2 DEF ApiDisconnects, peerVars
  <2>. QED
    BY <2>1, <2>2
<1>7. CASE ClickPause
  <2>. DEFINE c == [field |-> "paused", value |-> ~page.paused]
  <2>1. c \in Command /\ c.field = "paused" /\ c.value = ~page.paused
    BY DEF Command
  <2>2. /\ Send("paused", ~page.paused) /\ UNCHANGED <<peer, inForce>>
        /\ page' = [page EXCEPT !.paused = ~@]
    BY <1>7 DEF ClickPause
  <2>3. page'["paused"] = ~page.paused /\ page'["interval"] = page["interval"]
    BY <1>0, <2>2 DEF Controls
  <2>. HIDE DEF c
  <2>4. Send(c.field, c.value) /\ page'[c.field] = c.value
    BY <2>1, <2>2, <2>3
  <2>5. \A f \in Fields \ {c.field} : page'[f] = page[f]
    BY <2>1, <2>3 DEF Fields
  <2>. QED
    BY <2>1, <2>2, <2>4, <2>5, SendKeepsCommands
<1>8. ASSUME NEW i \in PageIntervals, MoveSlider(i) PROVE CommandsInv'
  <2>. DEFINE c == [field |-> "interval", value |-> i]
  <2>1. c \in Command /\ c.field = "interval" /\ c.value = i
    BY DEF Command
  <2>2. /\ Send("interval", i) /\ UNCHANGED <<peer, inForce>>
        /\ page' = [page EXCEPT !.interval = i]
    BY <1>8 DEF MoveSlider
  <2>3. page'["interval"] = i /\ page'["paused"] = page["paused"]
    BY <1>0, <2>2 DEF Controls
  <2>. HIDE DEF c
  <2>4. Send(c.field, c.value) /\ page'[c.field] = c.value
    BY <2>1, <2>2, <2>3
  <2>5. \A f \in Fields \ {c.field} : page'[f] = page[f]
    BY <2>1, <2>3 DEF Fields
  <2>. QED
    BY <2>1, <2>2, <2>4, <2>5, SendKeepsCommands
<1>9. ASSUME NEW s \in Socket, ServerTakes(s) PROVE CommandsInv'
  <2>. DEFINE c == Head(up[s])
              rest == Tail(up[s])
  <2>1. /\ up[s] # <<>> /\ up[s] \in Seq(Command) /\ up'[s] = rest
        /\ UNCHANGED <<page, peer, touched>> /\ touched[s] \subseteq Fields
    BY <1>0, <1>9 DEF ServerTakes, PeerFields
  <2>2. \A t \in Socket \ {s} : up'[t] = up[t] /\ inForce'[t] = inForce[t]
    <3>1. \A t \in Socket \ {s} : up'[t] = up[t]
      BY <1>0, <1>9 DEF ServerTakes, PeerFields
    <3>2. \A t \in Socket \ {s} : inForce'[t] = inForce[t]
      BY <1>0, <1>9 DEF ServerTakes, PeerFields
    <3>. QED
      BY <3>1, <3>2
  <2>3. CASE peer[s] = "served"
    <3>1. inForce'[s] = [inForce[s] EXCEPT ![c.field] = c.value] /\ inForce[s] \in Controls
      BY <1>0, <1>9, <2>3 DEF ServerTakes, PeerFields
    <3>. HIDE DEF c, rest
    <3>2. \A f \in Fields : inForce'[s][f] = IF f = c.field THEN c.value ELSE inForce[s][f]
      BY <3>1 DEF Controls, Fields
    <3>3. ASSUME NEW f \in touched[s]
          PROVE  LastSays(rest, f, page[f]) /\ (Silent(rest, f) => inForce'[s][f] = page[f])
      <4>1. LastSays(up[s], f, page[f]) /\ (Silent(up[s], f) => inForce[s][f] = page[f])
        BY <2>3 DEF CommandsInv
      <4>2. /\ LastSays(rest, f, page[f])
            /\ Silent(rest, f) /\ c.field # f => Silent(up[s], f)
            /\ Silent(rest, f) /\ c.field = f => c.value = page[f]
        BY <2>1, <4>1, TailSays DEF c, rest
      <4>. QED
        BY <2>1, <3>2, <4>1, <4>2
    <3>. QED
      BY <2>1, <2>2, <3>3 DEF CommandsInv
  <2>4. CASE peer[s] # "served"
    BY <1>a, <2>1, <2>2, <2>4
  <2>. QED
    BY <2>3, <2>4
<1>10. ASSUME NEW s \in Socket, ServerDrops(s) PROVE CommandsInv'
  BY <1>0, <1>10, <1>a DEF ServerDrops, PeerFields
<1>11. ASSUME NEW s \in Socket, PageTakes(s) PROVE CommandsInv'
  BY <1>11, <1>a DEF PageTakes
<1>12. ASSUME \/ \E token \in Tokens : Submits(token)
              \/ Enters
              \/ UNCHANGED sessionVars
       PROVE  CommandsInv'
  BY <1>12, <1>a DEF Submits, Enters, sessionVars, clientVars, settingVars, peerVars
<1>. QED
  BY <1>1, <1>2, <1>3, <1>4, <1>5, <1>6, <1>7, <1>8, <1>9, <1>10, <1>11, <1>12
  DEF SessionNext, OnDashboard, ClientNext

LEMMA NextKeepsText ==
    ASSUME SessionTypeOK, LinkInv, IdleInv, TextInv, [SessionNext]_sessionVars
    PROVE  TextInv'
<1>0. LinkFields
  BY ClientFields DEF SessionTypeOK
<1>a. ASSUME UNCHANGED <<readyState, ws, timers, text, apiUsed>> PROVE TextInv'
  BY <1>a DEF TextInv
<1>b. ASSUME DoConnect(0), UNCHANGED <<text, apiUsed>>,
             ~apiUsed => ws = Null \/ readyState[ws] = "closed"
      PROVE  TextInv'
  <2>. SUFFICES ASSUME ~apiUsed
                PROVE  TextInv'
    BY <1>b DEF TextInv
  <2>1. \A s \in Socket : readyState[s] = "closed"
    BY <1>b, NullIsNoSocket DEF TextInv
  <2>2. ~Live(ws) /\ text' \notin {"Connected", "Paused"}
    BY <1>b DEF Live, TextInv
  <2>3. CASE timers' = 0 /\ \E s \in Socket \ {ws} :
                 /\ readyState' = [readyState EXCEPT ![s] = "connecting"]
                 /\ ws' = s
    <3>1. PICK s \in Socket \ {ws} :
             readyState' = [readyState EXCEPT ![s] = "connecting"] /\ ws' = s
      BY <2>3
    <3>2. readyState'[s] = "connecting" /\ \A t \in Socket \ {s} : readyState'[t] = "closed"
      BY <1>0, <2>1, <3>1 DEF LinkFields
    <3>. QED
      BY <2>2, <2>3, <3>1, <3>2 DEF TextInv
  <2>4. CASE timers' = 1 /\ UNCHANGED <<readyState, ws>>
    BY <1>b, <2>1, <2>2, <2>4 DEF TextInv
  <2>. QED
    BY <1>b, <2>2, <2>3, <2>4 DEF DoConnect, ScheduleReconnect
<1>1. ASSUME NEW token \in MaybeToken, Visits(token) PROVE TextInv'
  BY <1>1 DEF Visits, PageLoads, TextInv
<1>2. ASSUME NEW s \in Socket, SocketAdmitted(s) PROVE TextInv'
  <2>1. s = ws /\ ws # Null
    BY <1>2, NullIsNoSocket
    DEF SocketAdmitted, SocketOpens, LinkInv, LiveIsCurrent, Live
  <2>. QED
    BY <1>0, <1>2, <2>1 DEF SocketAdmitted, SocketOpens, LinkFields, TextInv
<1>3. ASSUME NEW s \in Socket, SocketCloses(s) PROVE TextInv'
  <2>. SUFFICES ASSUME ~apiUsed
                PROVE  TextInv'
    BY <1>3 DEF SocketCloses, TextInv
  <2>1. s = ws /\ ws # Null /\ timers = 0
    BY <1>3, NullIsNoSocket DEF SocketCloses, TextInv
  <2>2. timers' \in {0, 1}
    BY <1>3, <2>1 DEF SocketCloses, OnClose, ScheduleReconnect
  <2>3. readyState'[s] = "closed" /\ \A t \in Socket \ {s} : readyState'[t] = readyState[t]
    BY <1>0, <1>3 DEF SocketCloses, LinkFields
  <2>. QED
    BY <1>3, <2>1, <2>2, <2>3 DEF SocketCloses, OnClose, TextInv
<1>10. ASSUME NEW s \in Socket, SocketStartsClosing(s) PROVE TextInv'
  <2>1. readyState'[s] = "closing" /\ \A t \in Socket \ {s} : readyState'[t] = readyState[t]
    BY <1>0, <1>10 DEF SocketStartsClosing, LinkFields
  <2>2. readyState[s] = "open" /\ UNCHANGED <<ws, timers, text, apiUsed>>
    BY <1>10 DEF SocketStartsClosing
  <2>3. ws # Null => ws \in Socket
    BY <1>0 DEF LinkFields
  <2>. QED
    BY <2>1, <2>2, <2>3 DEF TextInv
<1>4. CASE PageStarts
  <2>1. DoConnect(0) /\ ws = Null /\ UNCHANGED <<text, apiUsed>>
    BY <1>4 DEF PageStarts, settingVars, IdleInv
  <2>. QED
    BY <1>b, <2>1
<1>5. CASE TimerFires
  <2>. SUFFICES ASSUME ~apiUsed
                PROVE  TextInv'
    BY <1>5 DEF TimerFires, TextInv
  <2>1. timers = 1 /\ timers - 1 = 0 /\ (ws = Null \/ readyState[ws] = "closed")
    BY <1>5 DEF TimerFires, TextInv
  <2>2. UNCHANGED <<text, apiUsed>>
    BY <1>5 DEF TimerFires, settingVars
  <2>3. CASE shouldReconnect
    BY <1>5, <1>b, <2>1, <2>2, <2>3 DEF TimerFires
  <2>4. CASE ~shouldReconnect
    BY <1>5, <2>1, <2>2, <2>4 DEF TimerFires, TextInv
  <2>. QED
    BY <2>3, <2>4
<1>6. CASE ApiDisconnects \/ ApiConnects
  BY <1>6 DEF ApiDisconnects, ApiConnects, TextInv
<1>7. ASSUME NEW s \in Socket, PageTakes(s) PROVE TextInv'
  <2>1. s = ws /\ ws # Null /\ readyState[ws] = "open"
    BY <1>7, NullIsNoSocket DEF PageTakes, LinkInv, LiveIsCurrent, Live
  <2>2. /\ text' \in {text, "Connected", "Paused"}
        /\ UNCHANGED <<readyState, ws, timers, apiUsed>>
    BY <1>7 DEF PageTakes, Status, linkVars
  <2>. QED
    BY <2>1, <2>2 DEF TextInv
<1>8. ASSUME \/ ClickPause
             \/ \E i \in PageIntervals : MoveSlider(i)
             \/ \E s \in Socket : ServerTakes(s) \/ ServerDrops(s)
      PROVE  TextInv'
  BY <1>8, <1>a DEF ClickPause, MoveSlider, ServerTakes, ServerDrops, linkVars
<1>9. ASSUME \/ \E token \in Settings : ServerRestarts(token)
             \/ \E token \in Tokens : Submits(token)
             \/ Enters
             \/ UNCHANGED sessionVars
      PROVE  TextInv'
  BY <1>9, <1>a
  DEF ServerRestarts, Submits, Enters, sessionVars, clientVars, linkVars, settingVars
<1>. QED
  BY <1>1, <1>2, <1>3, <1>4, <1>5, <1>6, <1>7, <1>8, <1>9, <1>10
  DEF SessionNext, OnDashboard, ClientNext

LEMMA NextKeepsAnswers ==
    ASSUME SessionTypeOK, LinkInv, PeerInv, TextInv, AnswersInv,
           [SessionNext]_sessionVars
    PROVE  AnswersInv'
<1>0. LinkFields /\ PeerFields
  BY ClientFields DEF SessionTypeOK
<1>a. ASSUME UNCHANGED text, ~apiUsed' => ~apiUsed,
             \A s \in Socket : peer'[s] = "served" =>
                peer[s] = "served" /\ down'[s] = down[s] /\ inForce'[s] = inForce[s]
      PROVE  AnswersInv'
  BY <1>a DEF AnswersInv
<1>1. ASSUME NEW token \in MaybeToken, Visits(token) PROVE AnswersInv'
  BY <1>1 DEF Visits, PageLoads, AnswersInv
<1>2. ASSUME NEW token \in Settings, ServerRestarts(token) PROVE AnswersInv'
  BY <1>2 DEF ServerRestarts, AnswersInv
<1>3. ASSUME NEW s \in Socket, SocketAdmitted(s) PROVE AnswersInv'
  <2>1. readyState[s] = "connecting" /\ s = ws
    BY <1>3, NullIsNoSocket
    DEF SocketAdmitted, SocketOpens, LinkInv, LiveIsCurrent, Live
  <2>2. down[s] = <<>> /\ inForce[s] = Defaults
    BY <2>1 DEF PeerInv
  <2>3. /\ text' = "Connected" /\ UNCHANGED <<down, inForce>>
        /\ \A t \in Socket \ {s} : peer'[t] = peer[t]
    BY <1>0, <1>3 DEF SocketAdmitted, SocketOpens, PeerFields
  <2>4. \A t \in Socket \ {s} : peer'[t] # "served"
    BY <2>1, <2>3, ServedIsCurrent
  <2>5. LastSays(<<>>, "paused", FALSE) /\ Defaults.paused = FALSE
    BY DEF LastSays, Defaults
  <2>. QED
    BY <2>2, <2>3, <2>4, <2>5 DEF AnswersInv
<1>4. ASSUME NEW s \in Socket, SocketStartsClosing(s) \/ SocketCloses(s)
      PROVE  AnswersInv'
  <2>. SUFFICES ASSUME ~apiUsed
                PROVE  \A t \in Socket : peer'[t] # "served"
    BY <1>4 DEF SocketStartsClosing, SocketCloses, AnswersInv
  <2>2. s = ws
    BY <1>4 DEF SocketStartsClosing, SocketCloses, TextInv
  <2>3. peer'[s] = "none" /\ \A t \in Socket \ {s} : peer'[t] = peer[t]
    BY <1>0, <1>4, ForgetsOne DEF SocketStartsClosing, SocketCloses
  <2>. QED
    BY <2>2, <2>3, ServedIsCurrent
<1>5. CASE PageStarts \/ TimerFires
  BY <1>5, <1>a DEF PageStarts, TimerFires, settingVars, peerVars
<1>6. CASE ApiDisconnects \/ ApiConnects
  BY <1>6 DEF ApiDisconnects, ApiConnects, AnswersInv
<1>7. CASE ClickPause \/ \E i \in PageIntervals : MoveSlider(i)
  BY <1>7, <1>a DEF ClickPause, MoveSlider
<1>8. ASSUME NEW s \in Socket, ServerTakes(s) PROVE AnswersInv'
  <2>. DEFINE c == Head(up[s])
  <2>1. UNCHANGED <<text, apiUsed, peer>>
    BY <1>8 DEF ServerTakes
  <2>2. \A t \in Socket \ {s} : down'[t] = down[t] /\ inForce'[t] = inForce[t]
    <3>1. \A t \in Socket \ {s} : down'[t] = down[t]
      BY <1>0, <1>8 DEF ServerTakes, PeerFields
    <3>2. \A t \in Socket \ {s} : inForce'[t] = inForce[t]
      BY <1>0, <1>8 DEF ServerTakes, PeerFields
    <3>. QED
      BY <3>1, <3>2
  <2>3. CASE peer[s] = "served" /\ ~apiUsed
    <3>1. /\ inForce'[s] = [inForce[s] EXCEPT ![c.field] = c.value]
          /\ inForce[s] \in Controls
          /\ down'[s] = Append(down[s], c) /\ down[s] \in Seq(Command)
      BY <1>0, <1>8, <2>3 DEF ServerTakes, PeerFields
    <3>2. c \in Command
      <4>1. up[s] \in Seq(Command) /\ up[s] # <<>>
        BY <1>0, <1>8 DEF ServerTakes, PeerFields
      <4>. QED
        BY <4>1, TailSays
    <3>. HIDE DEF c
    <3>3. inForce'[s].paused = IF c.field = "paused" THEN c.value ELSE inForce[s].paused
      BY <3>1 DEF Controls
    <3>4. /\ LastSays(down[s], "paused", inForce[s].paused)
          /\ Silent(down[s], "paused") => (text = "Paused" <=> inForce[s].paused)
      BY <2>3 DEF AnswersInv
    <3>5. CASE c.field = "paused"
      <4>1. ~Silent(down'[s], "paused") /\ LastSays(down'[s], "paused", c.value)
        BY <3>1, <3>2, <3>5, AppendSays
      <4>2. inForce'[s].paused = c.value
        BY <3>3, <3>5
      <4>3. LastSays(down'[s], "paused", inForce'[s].paused)
        BY <4>1, <4>2
      <4>. QED
        BY <2>1, <2>2, <4>1, <4>3 DEF AnswersInv
    <3>6. CASE c.field # "paused"
      <4>1. /\ Silent(down'[s], "paused") => Silent(down[s], "paused")
            /\ LastSays(down'[s], "paused", inForce[s].paused)
        BY <3>1, <3>2, <3>4, <3>6, AppendSays
      <4>2. inForce'[s].paused = inForce[s].paused
        BY <3>3, <3>6
      <4>. QED
        BY <2>1, <2>2, <3>4, <4>1, <4>2 DEF AnswersInv
    <3>. QED
      BY <3>5, <3>6
  <2>4. CASE ~(peer[s] = "served" /\ ~apiUsed)
    BY <2>1, <2>2, <2>4 DEF AnswersInv
  <2>. QED
    BY <2>3, <2>4
<1>9. ASSUME NEW s \in Socket, ServerDrops(s) PROVE AnswersInv'
  BY <1>0, <1>9, <1>a DEF ServerDrops, PeerFields
<1>10. ASSUME NEW s \in Socket, PageTakes(s) PROVE AnswersInv'
  <2>. SUFFICES ASSUME ~apiUsed, peer[s] = "served"
                PROVE  /\ LastSays(down'[s], "paused", inForce[s].paused)
                       /\ Silent(down'[s], "paused") =>
                             (text' = "Paused" <=> inForce[s].paused)
    <3>1. s = ws
      BY <1>10, NullIsNoSocket DEF PageTakes, LinkInv, LiveIsCurrent, Live
    <3>2. \A t \in Socket : peer[t] = "served" => t = s
      BY <3>1, ServedIsCurrent
    <3>3. UNCHANGED <<apiUsed, peer, inForce>>
      BY <1>10 DEF PageTakes
    <3>. QED
      BY <3>2, <3>3 DEF AnswersInv
  <2>. DEFINE c == Head(down[s])
              rest == Tail(down[s])
  <2>1. /\ down[s] # <<>> /\ down[s] \in Seq(Command) /\ down'[s] = rest
        /\ text' = Status(c)
    BY <1>0, <1>10 DEF PageTakes, PeerFields
  <2>2. /\ LastSays(down[s], "paused", inForce[s].paused)
        /\ Silent(down[s], "paused") => (text = "Paused" <=> inForce[s].paused)
    BY DEF AnswersInv
  <2>3. /\ c \in Command /\ LastSays(rest, "paused", inForce[s].paused)
        /\ Silent(rest, "paused") /\ c.field # "paused" => Silent(down[s], "paused")
        /\ Silent(rest, "paused") /\ c.field = "paused" => c.value = inForce[s].paused
    BY <2>1, <2>2, TailSays
  <2>. HIDE DEF c, rest
  <2>4. ASSUME Silent(rest, "paused") PROVE text' = "Paused" <=> inForce[s].paused
    <3>1. CASE c.field = "paused"
      <4>1. c.value = inForce[s].paused
        BY <2>3, <2>4, <3>1
      <4>2. text' = IF c.value THEN "Paused" ELSE "Connected"
        BY <2>1, <3>1 DEF Status
      <4>. QED
        BY <4>1, <4>2
    <3>2. CASE c.field # "paused"
      <4>1. text' = text
        BY <2>1, <3>2 DEF Status
      <4>. QED
        BY <2>2, <2>3, <2>4, <3>2, <4>1
    <3>. QED
      BY <3>1, <3>2
  <2>. QED
    BY <2>1, <2>3, <2>4
<1>11. ASSUME \/ \E token \in Tokens : Submits(token)
              \/ Enters
              \/ UNCHANGED sessionVars
       PROVE  AnswersInv'
  BY <1>11, <1>a DEF Submits, Enters, sessionVars, clientVars, settingVars, peerVars
<1>. QED
  BY <1>1, <1>2, <1>3, <1>4, <1>5, <1>6, <1>7, <1>8, <1>9, <1>10, <1>11
  DEF SessionNext, OnDashboard, ClientNext

-----------------------------------------------------------------------------

LEMMA InitMakesPage ==
    ASSUME SessionInit
    PROVE  SessionTypeOK /\ IdleInv /\ PeerInv /\ OnlyTheTokenIsServed
           /\ CommandsInv /\ TextInv /\ AnswersInv
<1>. USE DEF SessionInit, ClientInit
<1>1. Defaults \in Controls
  BY ClientAssumption DEF Defaults, Controls
<1>2. LinkFields
  BY ClientAssumption DEF LinkFields, FirstDelay, MaxDelay
<1>3. PeerFields
  BY <1>1, ClientAssumption DEF PeerFields
<1>4. PageFields
  BY <1>1 DEF PageFields
<1>5. ClientTypeOK
  BY <1>2, <1>3, <1>4, ClientFields
<1>6. SessionTypeOK
  BY <1>5 DEF SessionTypeOK, MaybeToken
<1>7. IdleInv /\ PeerInv /\ OnlyTheTokenIsServed /\ CommandsInv
  BY DEF IdleInv, PeerInv, OnlyTheTokenIsServed, CommandsInv
<1>8. TextInv /\ AnswersInv
  BY DEF TextInv, AnswersInv
<1>. QED
  BY <1>6, <1>7, <1>8

\* The inductive invariant of the session: the one live connection, what is in
\* flight on it in both directions, and the token it was opened with.
THEOREM PageInvariant == SessionSpec => []PageInv
<1>. DEFINE Rest == /\ SessionTypeOK /\ IdleInv /\ PeerInv /\ OnlyTheTokenIsServed
                    /\ CommandsInv /\ TextInv /\ AnswersInv
<1>1. SessionInit => Rest
  BY InitMakesPage
<1>2. LinkInv /\ Rest /\ [SessionNext]_sessionVars => Rest'
  <2>. SUFFICES ASSUME LinkInv, Rest, [SessionNext]_sessionVars PROVE Rest'
    OBVIOUS
  <2>1. SessionTypeOK' /\ IdleInv' /\ PeerInv'
    BY SessionKeepsTypes, NextKeepsIdle, NextKeepsPeers
  <2>2. OnlyTheTokenIsServed'
    BY NextKeepsToken
  <2>3. CommandsInv' /\ TextInv' /\ AnswersInv'
    BY NextKeepsCommands, NextKeepsText, NextKeepsAnswers
  <2>. QED
    BY <2>1, <2>2, <2>3
<1>3. LinkInv /\ Rest => PageInv
  BY DEF PageInv
<1>. HIDE DEF Rest
<1>. QED
  BY <1>1, <1>2, <1>3, LinkInvariant, PTL DEF SessionSpec

\* Every variable keeps its type; the delay between attempts stays within its
\* limits and the timers within the number of sockets.
THEOREM SessionTypeCorrect == SessionSpec => []SessionTypeOK
<1>1. PageInv => SessionTypeOK
  BY DEF PageInv
<1>. QED
  BY <1>1, PageInvariant, PTL

\* A server answers only pages that hold its token, whatever servers with other
\* tokens came before it (main.py lines 64-68, 125-127).
THEOREM StrangersAreRefused == SessionSpec => []OnlyTheTokenIsServed
<1>1. PageInv => OnlyTheTokenIsServed
  BY DEF PageInv
<1>. QED
  BY <1>1, PageInvariant, PTL

\* What the user set last on a connection is in force once the commands in
\* flight have arrived.
THEOREM LastSettingWins == SessionSpec => []SettingsReachServer
<1>1. PageInv => SettingsReachServer
  <2>. SUFFICES ASSUME PageInv, NEW s \in Socket, peer[s] = "served", up[s] = <<>>,
                       NEW f \in touched[s]
                PROVE  inForce[s][f] = page[f]
    BY DEF SettingsReachServer
  <2>1. Silent(up[s], f)
    BY DEF Silent
  <2>. QED
    BY <2>1 DEF PageInv, CommandsInv
<1>. QED
  BY <1>1, PageInvariant, PTL

\* The status line says what the connection and the server say (app.js lines
\* 109-127), as long as the page only connects once.
THEOREM StatusTellsTheTruth == SessionSpec => []StatusIsHonest
<1>1. PageInv => StatusIsHonest
  <2>. SUFFICES ASSUME PageInv, ~apiUsed
                PROVE  StatusIsHonest
    BY DEF StatusIsHonest
  <2>1. text \in {"Connected", "Paused"} <=>
           ws # Null /\ readyState[ws] \in {"open", "closing"}
    BY DEF PageInv, TextInv
  <2>2. ASSUME NEW s \in Socket, peer[s] = "served", down[s] = <<>>
        PROVE  text = "Paused" <=> inForce[s].paused
    <3>1. Silent(down[s], "paused")
      BY <2>2 DEF Silent
    <3>. QED
      BY <2>2, <3>1 DEF PageInv, AnswersInv
  <2>. QED
    BY <2>1, <2>2 DEF StatusIsHonest
<1>. QED
  BY <1>1, PageInvariant, PTL

-----------------------------------------------------------------------------
(* The connections of the page implement Endpoint *)

LEMMA SameViewKeepsEndpoint ==
    ASSUME UNCHANGED <<peer, inForce>>
    PROVE  UNCHANGED EndpointView!vars
  BY DEF EndpointView!vars

\* Connections that end take their settings along.
LEMMA EndingImplementsEndpoint ==
    ASSUME NEW S \in SUBSET Socket,
           \A s \in S : peer'[s] \notin {"served", "dropped"},
           \A s \in Socket \ S : peer'[s] = peer[s] /\ inForce'[s] = inForce[s]
    PROVE  EndpointView!End
  BY DEF EndpointView!End, EndpointView!Leave, EndpointView!Defaults, Defaults

\* A socket that opens was none to the server, which therefore has the defaults
\* in force for it.
LEMMA OpeningImplementsEndpoint ==
    ASSUME PeerFields, PeerInv, NEW s \in Socket, SocketAdmitted(s)
    PROVE  EndpointView!Admit(s)
<1>1. peer[s] = "none" /\ inForce[s] = Defaults
  BY DEF SocketAdmitted, SocketOpens, PeerInv
<1>2. peer' = [peer EXCEPT ![s] = "served"] /\ inForce' = inForce
  BY DEF SocketAdmitted, SocketOpens
<1>. QED
  BY <1>1, <1>2 DEF EndpointView!Admit, PeerFields

\* A command the server takes changes the setting it names, of its sender.
LEMMA TakingImplementsEndpoint ==
    ASSUME PeerFields, NEW s \in Socket, ServerTakes(s)
    PROVE  [EndpointView!Next]_(EndpointView!vars)
<1>. DEFINE c == Head(up[s])
<1>1. c \in Command
  <2>1. up[s] \in Seq(Command) /\ up[s] # <<>>
    BY DEF ServerTakes, PeerFields
  <2>. QED
    BY <2>1, TailSays
<1>2. CASE peer[s] # "served"
  BY <1>2, SameViewKeepsEndpoint DEF ServerTakes
<1>3. CASE peer[s] = "served"
  <2>1. UNCHANGED peer /\ inForce' = [inForce EXCEPT ![s][c.field] = c.value]
    BY <1>3 DEF ServerTakes
  <2>2. inForce[s] \in Controls
    BY DEF PeerFields
  <2>. HIDE DEF c
  <2>. DEFINE before == [t \in Socket |-> IF peer[t] = "served" THEN inForce[t] ELSE Defaults]
              after == [t \in Socket |-> IF peer'[t] = "served" THEN inForce'[t] ELSE Defaults]
  <2>3. after = [before EXCEPT ![s] = [inForce[s] EXCEPT ![c.field] = c.value]]
    BY <1>3, <2>1 DEF PeerFields
  <2>4. before[s] = inForce[s]
    BY <1>3
  <2>5. CASE c.field = "paused"
    <3>1. c.value \in BOOLEAN
      BY <1>1, <2>5 DEF Command
    <3>2. after = [before EXCEPT ![s].paused = c.value]
      BY <2>3, <2>4, <2>5
    <3>. QED
      BY <1>3, <2>1, <3>1, <3>2 DEF EndpointView!Next, EndpointView!Command
  <2>6. CASE c.field = "interval"
    <3>1. c.value \in PageIntervals
      BY <1>1, <2>6 DEF Command
    <3>2. after = [before EXCEPT ![s].interval = c.value]
      BY <2>3, <2>4, <2>6
    <3>. QED
      BY <1>3, <2>1, <3>1, <3>2 DEF EndpointView!Next, EndpointView!Command
  <2>. QED
    BY <1>1, <2>5, <2>6 DEF Command
<1>. QED
  BY <1>2, <1>3

LEMMA DroppingImplementsEndpoint ==
    ASSUME PeerFields, NEW s \in Socket, ServerDrops(s)
    PROVE  EndpointView!Drop
<1>1. /\ peer[s] = "served" /\ peer' = [peer EXCEPT ![s] = "dropped"]
      /\ inForce' = inForce
  BY DEF ServerDrops
<1>2. EndpointView!Leave({s}, "dropped")
  BY <1>1 DEF EndpointView!Leave, EndpointView!Defaults, Defaults, PeerFields
<1>. QED
  BY <1>1, <1>2 DEF EndpointView!Drop

LEMMA StepImplementsEndpoint ==
    ASSUME SessionTypeOK, PeerInv, [SessionNext]_sessionVars
    PROVE  [EndpointView!Next]_(EndpointView!vars)
<1>0. PeerFields
  BY ClientFields DEF SessionTypeOK
<1>1. ASSUME NEW token \in MaybeToken, Visits(token)
      PROVE  EndpointView!End
  <2>1. \A s \in Socket : peer'[s] = "none"
    BY <1>1 DEF Visits, PageLoads
  <2>. QED
    BY <2>1, EndingImplementsEndpoint
<1>2. ASSUME NEW token \in Settings, ServerRestarts(token)
      PROVE  EndpointView!End
  <2>1. \A s \in Socket : peer'[s] \in {"none", "gone"}
    BY <1>2 DEF ServerRestarts
  <2>. QED
    BY <2>1, EndingImplementsEndpoint
<1>3. ASSUME NEW s \in Socket, SocketAdmitted(s)
      PROVE  EndpointView!Admit(s)
  BY <1>0, <1>3, OpeningImplementsEndpoint
<1>4. ASSUME NEW s \in Socket, Forget(s)
      PROVE  EndpointView!End
  <2>1. /\ peer'[s] = "none"
        /\ \A t \in Socket \ {s} : peer'[t] = peer[t] /\ inForce'[t] = inForce[t]
    BY <1>0, <1>4 DEF Forget, PeerFields
  <2>2. {s} \in SUBSET Socket /\ \A t \in {s} : peer'[t] \notin {"served", "dropped"}
    BY <2>1
  <2>. QED
    BY <2>1, <2>2, EndingImplementsEndpoint
<1>5. ASSUME NEW s \in Socket, SocketStartsClosing(s) \/ SocketCloses(s)
      PROVE  EndpointView!End
  BY <1>4, <1>5 DEF SocketStartsClosing, SocketCloses
<1>6. CASE ApiDisconnects
  <2>1. CASE Live(ws)
    <3>1. ws \in Socket
      BY <2>1, ClientFields DEF Live, SessionTypeOK, LinkFields
    <3>. QED
      BY <1>4, <1>6, <2>1, <3>1 DEF ApiDisconnects, EndpointView!Next
  <2>2. CASE ~Live(ws)
    BY <1>6, <2>2, SameViewKeepsEndpoint DEF ApiDisconnects, peerVars
  <2>. QED
    BY <2>1, <2>2
<1>7. ASSUME NEW s \in Socket, ServerTakes(s)
      PROVE  [EndpointView!Next]_(EndpointView!vars)
  BY <1>0, <1>7, TakingImplementsEndpoint
<1>8. ASSUME NEW s \in Socket, ServerDrops(s)
      PROVE  EndpointView!Drop
  BY <1>0, <1>8, DroppingImplementsEndpoint
<1>9. ASSUME \/ PageStarts \/ TimerFires \/ ApiConnects \/ ClickPause
             \/ \E i \in PageIntervals : MoveSlider(i)
             \/ \E s \in Socket : PageTakes(s)
             \/ \E token \in Tokens : Submits(token)
             \/ Enters
             \/ UNCHANGED sessionVars
      PROVE  UNCHANGED EndpointView!vars
  <2>1. UNCHANGED <<peer, inForce>>
    BY <1>9 DEF PageStarts, TimerFires, ApiConnects, ClickPause, MoveSlider, PageTakes,
       Submits, Enters, sessionVars, clientVars, settingVars, peerVars
  <2>. QED
    BY <2>1, SameViewKeepsEndpoint
<1>10. CASE OnDashboard
  BY <1>5, <1>6, <1>7, <1>8, <1>9, <1>10 DEF OnDashboard, ClientNext, EndpointView!Next
<1>. QED
  BY <1>1, <1>2, <1>3, <1>9, <1>10 DEF SessionNext, EndpointView!Next

\* A page may rely, for each of its sockets, on what the server promises every
\* client: defaults at first, only its own commands after that, and no service
\* once it was dropped; reconnects, restarts and reloads included.
THEOREM PagesSeeEndpoints == SessionSpec => PeerContract
<1>1. SessionInit => EndpointView!Init
  BY DEF SessionInit, ClientInit, EndpointView!Init, EndpointView!Defaults, Defaults
<1>2. PageInv /\ [SessionNext]_sessionVars => [EndpointView!Next]_(EndpointView!vars)
  BY StepImplementsEndpoint DEF PageInv
<1>. QED
  BY <1>1, <1>2, PageInvariant, PTL DEF SessionSpec, PeerContract, EndpointView!Spec
=============================================================================
