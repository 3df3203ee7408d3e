-------------------------------- MODULE Session -------------------------------
(***************************************************************************)
(* A visitor from the address bar to live metrics: the access token of     *)
(* server/main.py (pages, /api/config and /ws), the script of its login    *)
(* page, and the dashboard page, which is ClientSession.  The server may   *)
(* be restarted at any time, with another TOKEN or with none.              *)
(***************************************************************************)
EXTENDS ClientSession

CONSTANTS Tokens,       \* tokens, trimmed
          Mangled,      \* those that a URL does not carry unless encoded
          Settings      \* the values of TOKEN the server is started with

NoToken == ""
Garbled == "garbled"

ASSUME TokenAssumption ==
    /\ Mangled \subseteq Tokens
    /\ NoToken \notin Tokens /\ Garbled \notin Tokens
    /\ Settings \subseteq Tokens \cup {NoToken}

VARIABLES
    serverToken,    \* config.TOKEN of the running server
    place,          \* what the visitor is looking at
    urlToken        \* the token in the address of the page

accessVars == <<serverToken, place, urlToken>>
sessionVars == <<clientVars, accessVars>>

MaybeToken == Tokens \cup {NoToken}

SessionTypeOK ==
    /\ ClientTypeOK
    /\ serverToken \in Settings
    /\ place \in {"away", "login", "entering", "dashboard"}
    /\ urlToken \in MaybeToken
    /\ place # "dashboard" => ~started

SessionInit ==
    /\ ClientInit
    /\ serverToken \in Settings
    /\ place = "away"
    /\ urlToken = NoToken

\* _check_token()
CheckToken(token) == serverToken = NoToken \/ token = serverToken

\* _buildUrl() decodes the token of the page's address and appends it to the
\* address of the WebSocket as it is.
WireToken == IF urlToken \in Mangled THEN Garbled ELSE urlToken

\* Mutant: only the page and the API ask for the token.
OpensSocket_Unchecked == TRUE

\* websocket_endpoint() closes before it accepts, or registers the page.
OpensSocket == CheckToken(WireToken)

\* serve_index(): the dashboard, or the login page.
ServeIndex(token) ==
    /\ urlToken' = token
    /\ place' = IF CheckToken(token) THEN "dashboard" ELSE "login"

-----------------------------------------------------------------------------

\* The visitor opens an address, a bookmark with a token perhaps, or reloads
\* the page; whatever page was there is gone with its sockets.
Visits(token) ==
    /\ ServeIndex(token)
    /\ PageLoads
    /\ UNCHANGED serverToken

\* A token is typed, or filled in from localStorage, and the button pressed:
\* /api/config tells whether it is right.  An error shows a message.  (The
\* script also submits a remembered token by itself, before it listens to
\* submissions, so that nothing happens.)
Submits(token) ==
    /\ place = "login"
    /\ CheckToken(token)
    /\ place' = "entering"
    /\ urlToken' = token
    /\ UNCHANGED <<clientVars, serverToken>>

\* The script goes to the page with the token, encoded.
Enters ==
    /\ place = "entering"
    /\ ServeIndex(urlToken)
    /\ UNCHANGED <<clientVars, serverToken>>

\* The process is replaced (docker-compose.yml, update.sh), with the TOKEN of
\* its new environment; the page learns of it when its socket closes.
ServerRestarts(token) ==
    /\ serverToken' = token
    /\ peer' = [s \in Socket |-> IF peer[s] = "none" THEN "none" ELSE "gone"]
    /\ UNCHANGED <<started, linkVars, page, text, up, down, inForce, touched,
                   apiUsed, place, urlToken>>

SocketAdmitted(s) ==
    /\ OpensSocket
    /\ SocketOpens(s)
    /\ UNCHANGED accessVars

OnDashboard ==
    /\ place = "dashboard"
    /\ ClientNext
    /\ UNCHANGED accessVars

SessionNext ==
    \/ \E token \in MaybeToken : Visits(token)
    \/ \E token \in Settings : ServerRestarts(token)
    \/ \E token \in Tokens : Submits(token)
    \/ Enters
    \/ \E s \in Socket : SocketAdmitted(s)
    \/ OnDashboard

SessionSpec == SessionInit /\ [][SessionNext]_sessionVars

\* The attempt to open a socket ends, and so does a socket that is closing or
\* whose server is gone.
SocketSettles(s) ==
    \/ SocketAdmitted(s)
    \/ /\ readyState[s] \in {"connecting", "closing"} \/ peer[s] = "gone"
       /\ SocketCloses(s)
       /\ UNCHANGED accessVars

\* The page starts, timers fire and sockets settle; a server that is tried
\* again and again accepts in the end, if it takes the token, and the
\* constructor does not throw for ever.
SessionLiveSpec ==
    /\ SessionSpec
    /\ WF_sessionVars(OnDashboard /\ PageStarts)
    /\ WF_sessionVars(OnDashboard /\ TimerFires)
    /\ SF_sessionVars(OnDashboard /\ TimerFires /\ ws' # ws)
    /\ \A s \in Socket : /\ WF_sessionVars(SocketSettles(s))
                         /\ SF_sessionVars(SocketAdmitted(s))

-----------------------------------------------------------------------------
(* Properties *)

\* A server answers only pages that hold its token: what a page had from an
\* earlier server with another TOKEN, or from an address without one, is worth
\* nothing to it (main.py lines 64-68, 125-127).
OnlyTheTokenIsServed ==
    \A s \in Socket : peer[s] \in {"served", "dropped"} => CheckToken(urlToken)

\* A dashboard gets connected, again and again, also to a server that was
\* restarted, as long as its token is the server's and survives the address of
\* the WebSocket.
Reconnects ==
    place = "dashboard" ~>
       \/ ws # Null /\ readyState[ws] = "open"
       \/ place # "dashboard" \/ ~OpensSocket
       \/ apiUsed
=============================================================================
