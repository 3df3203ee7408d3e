----------------------------- MODULE ClientSession ----------------------------
(***************************************************************************)
(* The browser side of a session: CloudDateWebSocket (web/js/websocket.js) *)
(* with its reconnects, the pause button, the interval slider and the      *)
(* status line of web/js/app.js, and the endpoint as the page sees it.     *)
(* Callbacks run one at a time; the handlers of every socket write the     *)
(* fields of the one client object.  Session adds how a visitor gets here. *)
(***************************************************************************)
EXTENDS Integers, FiniteSets, SequencesExt

CONSTANTS Slots,            \* bound on the sockets alive at once; 0 is null
          PageIntervals,    \* positions of the slider
          DefaultPace,      \* 2.0 s, on the page and on the server
          MaxInFlight,      \* bound on the commands in flight on a socket
          MaxAnswers        \* bound on the answers in flight on a socket

ASSUME ClientAssumption ==
    /\ Slots \in Nat \ {0}
    /\ DefaultPace \in PageIntervals
    /\ MaxInFlight \in Nat \ {0}
    /\ MaxAnswers \in Nat \ {0}

Socket == 1..Slots
Null == 0

\* reconnectDelay and maxReconnectDelay, in milliseconds.
FirstDelay == 1000
MaxDelay == 30000

VARIABLES
    started,            \* connectWebSocket() has run
    readyState,         \* of each socket; "closed" also before it exists
    ws,                 \* this.ws
    connected,          \* this.connected
    shouldReconnect,    \* this._shouldReconnect
    reconnectDelay,     \* this.reconnectDelay
    timers,             \* reconnect timers that have not fired
    page,               \* isPaused and currentInterval
    text,               \* the status line
    peer,               \* what the server is to each socket
    up,                 \* commands on their way to the server, per socket
    down,               \* answers on their way to the page, per socket
    inForce,            \* what the server has in force for each socket
    touched,            \* settings the user changed on an open socket (aux.)
    apiUsed             \* disconnect() was called, or connect() once more: app.js
                        \* does neither (aux.)

linkVars == <<readyState, ws, connected, shouldReconnect, reconnectDelay, timers>>
peerVars == <<peer, up, down, inForce, touched>>
settingVars == <<page, text, peerVars>>
clientVars == <<started, linkVars, settingVars, apiUsed>>

Fields == {"paused", "interval"}
Controls == [paused : BOOLEAN, interval : PageIntervals]
Defaults == [paused |-> FALSE, interval |-> DefaultPace]
Command == [field : {"paused"}, value : BOOLEAN]
           \cup [field : {"interval"}, value : PageIntervals]

ClientTypeOK ==
    /\ started \in BOOLEAN
    /\ readyState \in [Socket -> {"connecting", "open", "closing", "closed"}]
    /\ ws \in {Null} \cup Socket
    /\ connected \in BOOLEAN
    /\ shouldReconnect \in BOOLEAN
    /\ reconnectDelay \in FirstDelay..MaxDelay
    /\ timers \in 0..Slots
    /\ page \in Controls
    /\ text \in {"Connecting...", "Connected", "Reconnecting...", "Paused"}
    /\ peer \in [Socket -> {"none", "served", "dropped", "gone"}]
    /\ up \in [Socket -> Seq(Command)]
    /\ down \in [Socket -> Seq(Command)]
    /\ \A s \in Socket : Len(up[s]) <= MaxInFlight /\ Len(down[s]) <= MaxAnswers
    /\ inForce \in [Socket -> Controls]
    /\ touched \in [Socket -> SUBSET Fields]
    /\ apiUsed \in BOOLEAN

ClientInit ==
    /\ started = FALSE
    /\ readyState = [s \in Socket |-> "closed"]
    /\ ws = Null
    /\ connected = FALSE
    /\ shouldReconnect = TRUE
    /\ reconnectDelay = FirstDelay
    /\ timers = 0
    /\ page = Defaults
    /\ text = "Connecting..."
    /\ peer = [s \in Socket |-> "none"]
    /\ up = [s \in Socket |-> <<>>]
    /\ down = [s \in Socket |-> <<>>]
    /\ inForce = [s \in Socket |-> Defaults]
    /\ touched = [s \in Socket |-> {}]
    /\ apiUsed = FALSE

\* The page is loaded again: a new client object, and none of the old sockets.
PageLoads ==
    /\ started' = FALSE
    /\ readyState' = [s \in Socket |-> "closed"]
    /\ ws' = Null
    /\ connected' = FALSE
    /\ shouldReconnect' = TRUE
    /\ reconnectDelay' = FirstDelay
    /\ timers' = 0
    /\ page' = Defaults
    /\ text' = "Connecting..."
    /\ peer' = [s \in Socket |-> "none"]
    /\ up' = [s \in Socket |-> <<>>]
    /\ down' = [s \in Socket |-> <<>>]
    /\ inForce' = [s \in Socket |-> Defaults]
    /\ touched' = [s \in Socket |-> {}]
    /\ apiUsed' = FALSE

Live(s) == s # Null /\ readyState[s] \in {"connecting", "open"}

-----------------------------------------------------------------------------
(* websocket.js *)

\* Mutant: the delay is not capped.
ScheduleReconnect_Uncapped(n) ==
    /\ timers' = n + 1
    /\ reconnectDelay' = (reconnectDelay * 3) \div 2

\* _scheduleReconnect(), with n timers pending before it.
ScheduleReconnect(n) ==
    /\ timers' = n + 1
    /\ reconnectDelay' = LET longer == (reconnectDelay * 3) \div 2
                         IN  IF longer < MaxDelay THEN longer ELSE MaxDelay

\* Mutant: a socket that is still connecting does not count.
DoConnect_OpenOnly(n) ==
    IF ws # Null /\ readyState[ws] = "open"
    THEN timers' = n /\ UNCHANGED <<readyState, ws, reconnectDelay>>
    ELSE /\ timers' = n
         /\ \E s \in Socket \ {ws} :
               /\ readyState[s] = "closed"
               /\ readyState' = [readyState EXCEPT ![s] = "connecting"]
               /\ ws' = s
         /\ UNCHANGED reconnectDelay

\* _doConnect(), with n timers pending: nothing while a socket is connecting
\* or open, else a new socket, or another try if the constructor throws.
DoConnect(n) ==
    \/ /\ Live(ws)
       /\ timers' = n
       /\ UNCHANGED <<readyState, ws, reconnectDelay>>
    \/ /\ ~Live(ws)
       /\ \E s \in Socket \ {ws} :
             /\ readyState[s] = "closed"
             /\ readyState' = [readyState EXCEPT ![s] = "connecting"]
             /\ ws' = s
       /\ timers' = n
       /\ UNCHANGED reconnectDelay
    \/ /\ ~Live(ws)
       /\ ScheduleReconnect(n)
       /\ UNCHANGED <<readyState, ws>>

PageStarts ==
    /\ ~started
    /\ started' = TRUE
    /\ DoConnect(timers)
    /\ UNCHANGED <<connected, shouldReconnect, settingVars, apiUsed>>

\* onopen: the server has registered the connection with its defaults.
SocketOpens(s) ==
    /\ readyState[s] = "connecting"
    /\ readyState' = [readyState EXCEPT ![s] = "open"]
    /\ peer' = [peer EXCEPT ![s] = "served"]
    /\ connected' = TRUE
    /\ reconnectDelay' = FirstDelay
    /\ text' = "Connected"
    /\ UNCHANGED <<started, ws, shouldReconnect, timers, page, up, down, inForce,
                   touched, apiUsed>>

\* Mutant: the settings of a connection outlive it.
Forget_KeepsSettings(s) ==
    /\ peer' = [peer EXCEPT ![s] = "none"]
    /\ down' = [down EXCEPT ![s] = <<>>]
    /\ up' = [up EXCEPT ![s] = <<>>]
    /\ touched' = [touched EXCEPT ![s] = {}]
    /\ UNCHANGED inForce

\* A connection that ends takes its settings and what is in flight along.
Forget(s) ==
    /\ peer' = [peer EXCEPT ![s] = "none"]
    /\ down' = [down EXCEPT ![s] = <<>>]
    /\ up' = [up EXCEPT ![s] = <<>>]
    /\ inForce' = [inForce EXCEPT ![s] = Defaults]
    /\ touched' = [touched EXCEPT ![s] = {}]

\* Mutant: only a connection that was open is tried again.
OnClose_AfterOpenOnly ==
    /\ connected' = FALSE
    /\ text' = "Reconnecting..."
    /\ IF shouldReconnect /\ connected
       THEN timers < Slots /\ ScheduleReconnect(timers)
       ELSE UNCHANGED <<timers, reconnectDelay>>

OnClose ==
    /\ connected' = FALSE
    /\ text' = "Reconnecting..."
    /\ IF shouldReconnect
       THEN timers < Slots /\ ScheduleReconnect(timers)
       ELSE UNCHANGED <<timers, reconnectDelay>>

\* The server's side closes the connection, after what it sent has been handled:
\* readyState changes, and no callback runs until onclose.
SocketStartsClosing(s) ==
    /\ readyState[s] = "open" /\ down[s] = <<>>
    /\ readyState' = [readyState EXCEPT ![s] = "closing"]
    /\ Forget(s)
    /\ UNCHANGED <<started, ws, connected, shouldReconnect, reconnectDelay, timers,
                   page, text, apiUsed>>

\* onclose, after onerror or not, of any socket that is not closed yet: a
\* refused handshake, a lost connection or server, or the end of a closing.
SocketCloses(s) ==
    /\ readyState[s] # "closed"
    /\ readyState' = [readyState EXCEPT ![s] = "closed"]
    /\ OnClose
    /\ Forget(s)
    /\ UNCHANGED <<started, ws, shouldReconnect, page, apiUsed>>

TimerFires ==
    /\ timers > 0
    /\ IF shouldReconnect
       THEN DoConnect(timers - 1)
       ELSE timers' = timers - 1 /\ UNCHANGED <<readyState, ws, reconnectDelay>>
    /\ UNCHANGED <<started, connected, shouldReconnect, settingVars, apiUsed>>

\* disconnect()
ApiDisconnects ==
    /\ started
    /\ apiUsed' = TRUE
    /\ shouldReconnect' = FALSE
    /\ IF Live(ws)
       THEN /\ readyState' = [readyState EXCEPT ![ws] = "closing"]
            /\ Forget(ws)
       ELSE UNCHANGED <<readyState, peerVars>>
    /\ UNCHANGED <<started, ws, connected, reconnectDelay, timers, page, text>>

\* connect()
ApiConnects ==
    /\ started /\ timers < Slots
    /\ apiUsed' = TRUE
    /\ shouldReconnect' = TRUE
    /\ DoConnect(timers)
    /\ UNCHANGED <<started, connected, settingVars>>

-----------------------------------------------------------------------------
(* app.js, and the endpoint as the page sees it *)

\* Mutant: a command replaces the one that is still in flight.
Send_Replaces(field, value) ==
    IF ws # Null /\ readyState[ws] = "open"
    THEN /\ up' = [up EXCEPT ![ws] = <<[field |-> field, value |-> value]>>]
         /\ touched' = [touched EXCEPT ![ws] = @ \cup {field}]
    ELSE UNCHANGED <<up, touched>>

\* _send(): a command is dropped unless the socket is open.
Send(field, value) ==
    IF ws # Null /\ readyState[ws] = "open"
    THEN /\ Len(up[ws]) < MaxInFlight
         /\ up' = [up EXCEPT ![ws] = Append(@, [field |-> field, value |-> value])]
         /\ touched' = [touched EXCEPT ![ws] = @ \cup {field}]
    ELSE UNCHANGED <<up, touched>>

ClickPause ==
    /\ started
    /\ page' = [page EXCEPT !.paused = ~@]
    /\ Send("paused", ~page.paused)
    /\ UNCHANGED <<started, linkVars, text, peer, down, inForce, apiUsed>>

MoveSlider(i) ==
    /\ started
    /\ page' = [page EXCEPT !.interval = i]
    /\ Send("interval", i)
    /\ UNCHANGED <<started, linkVars, text, peer, down, inForce, apiUsed>>

\* The endpoint takes the next command of a socket, and answers; for a client
\* that is no longer registered it does neither.
ServerTakes(s) ==
    /\ peer[s] \in {"served", "dropped"} /\ up[s] # <<>>
    /\ up' = [up EXCEPT ![s] = Tail(@)]
    /\ IF peer[s] = "served"
       THEN /\ Len(down[s]) < MaxAnswers
            /\ inForce' = [inForce EXCEPT ![s][Head(up[s]).field] = Head(up[s]).value]
            /\ down' = [down EXCEPT ![s] = Append(@, Head(up[s]))]
       ELSE UNCHANGED <<inForce, down>>
    /\ UNCHANGED <<started, linkVars, page, text, peer, touched, apiUsed>>

\* The server drops a client from its registry and leaves the socket open.
ServerDrops(s) ==
    /\ peer[s] = "served"
    /\ peer' = [peer EXCEPT ![s] = "dropped"]
    /\ UNCHANGED <<started, linkVars, page, text, up, down, inForce, touched, apiUsed>>

\* Mutant: the answer to resume is not handled.
Status_NoResumed(answer) ==
    IF answer = [field |-> "paused", value |-> TRUE] THEN "Paused" ELSE text

\* handleStatus() of an answer: that of an interval changes nothing.
Status(answer) ==
    IF answer.field # "paused" THEN text
    ELSE IF answer.value THEN "Paused" ELSE "Connected"

\* onmessage, which a closing socket no longer fires.
PageTakes(s) ==
    /\ readyState[s] = "open" /\ down[s] # <<>>
    /\ text' = Status(Head(down[s]))
    /\ down' = [down EXCEPT ![s] = Tail(@)]
    /\ UNCHANGED <<started, linkVars, page, peer, up, inForce, touched, apiUsed>>

-----------------------------------------------------------------------------

ClientNext ==
    \/ PageStarts
    \/ \E s \in Socket : \/ SocketStartsClosing(s)
                         \/ SocketCloses(s)
                         \/ ServerTakes(s)
                         \/ ServerDrops(s)
                         \/ PageTakes(s)
    \/ TimerFires
    \/ ApiDisconnects
    \/ ApiConnects
    \/ ClickPause
    \/ \E i \in PageIntervals : MoveSlider(i)

-----------------------------------------------------------------------------
(* Properties *)

\* A page never holds two connections at once, whatever timers and late
\* close events are about (websocket.js lines 37-40).
OneLiveSocket == \A s, t \in Socket : Live(s) /\ Live(t) => s = t

\* A page that wants to be connected is, or has a timer or a close event to
\* come that tries again (lines 42-47, 55-61, 110-117).
NeverGivesUp ==
    started /\ shouldReconnect =>
       timers > 0 \/ (ws # Null /\ readyState[ws] # "closed")

\* The status line says connected or paused exactly from onopen to onclose of
\* the page's socket, and once commands and answers have arrived it says paused
\* exactly when the server has paused this page, which the button may not: no
\* late event of an older socket or session shows through (app.js lines
\* 109-127), as long as the page calls connect() once and no disconnect().
StatusIsHonest ==
    ~apiUsed =>
       /\ text \in {"Connected", "Paused"} <=>
             ws # Null /\ readyState[ws] \in {"open", "closing"}
       /\ \A s \in Socket :
             peer[s] = "served" /\ up[s] = <<>> /\ down[s] = <<>> =>
             (text = "Paused" <=> inForce[s].paused)

\* What the user sets on a connection the server serves is in force once the
\* commands in flight have arrived, however quickly settings were changed.
SettingsReachServer ==
    \A s \in Socket :
       peer[s] = "served" /\ up[s] = <<>> =>
       \A f \in touched[s] : inForce[s][f] = page[f]

\* What the page relies on of its connections is what the server promises its
\* clients (Endpoint): a socket starts with the defaults, whatever the socket
\* before it had set, and only the commands taken from it change them.
EndpointView == INSTANCE Endpoint WITH
    Client <- Socket, Intervals <- PageIntervals, DefaultInterval <- DefaultPace,
    status <- [s \in Socket |-> IF peer[s] \in {"served", "dropped"} THEN peer[s]
                                                                     ELSE "over"],
    settings <- [s \in Socket |-> IF peer[s] = "served" THEN inForce[s] ELSE Defaults]
PeerContract == EndpointView!Spec
=============================================================================
