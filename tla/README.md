# CloudDate: a TLA+ model and its proofs

CloudDate is a monitoring dashboard: a FastAPI server collects metrics of its
host in two loops and pushes them over WebSockets to browser pages, and goes to
sleep when nobody watches. This directory holds TLA+ modules that model its
stateful parts, TLC configurations that check them on small instances, and
proofs that TLAPS checks for every value of the constants.

## 1. The system

| Component | Source | State | Operations |
|---|---|---|---|
| Connection manager | `server/connection_manager.py` | the dicts `_connections`, `_intervals`, `_paused`; `_is_sleeping`, `_sleep_timer_task`, `_wake_event`, `_conn_counter` | `connect`, `disconnect`, `_start_sleep_timer`, `_sleep_countdown`, `wait_for_wake`, `set_interval`, `set_paused`, `broadcast`, `send_to` |
| WebSocket endpoint | `server/main.py` | where each handler task is | registration, system information, history, the commands `set_interval`, `pause`, `resume`, `ping`, every way to end |
| Scheduler | `server/scheduler.py` | `_running`, the two tasks, `tick` of the slow loop | wait for a wake-up, collect, store, broadcast, pace, fail and retry, stop |
| Ring buffers | `server/ring_buffer.py` | a bounded deque behind a lock | `append`, `get_latest`, `get_since`, `get_all`, `clear` |
| Rate collectors | `collectors/network.py`, `collectors/disk.py` | the previous reading and its time | `collect_network`, `collect_disk_io` |
| CPU collector | `collectors/cpu.py`, `scheduler.py` | none of its own; psutil keeps the previous readings | `collect_cpu`, priming |
| Docker and systemd collectors | `collectors/docker_stats.py`, `collectors/services.py` | client and availability flag; access method, cached list and its time | `collect_docker`, `collect_services` |
| Processes, disk usage, disk alerts | `collectors/process.py`, `collectors/disk.py`, `scheduler.py` | none | one list per answer of the host |
| Memory, temperature, system information | `collectors/*.py` | none | one reading each |
| Access token, pages, REST API | `server/main.py` | `config.TOKEN`; the token in the page's address | `serve_index`, the login page, `/api/config`, `/api/history`, the check before a WebSocket |
| Browser session | `web/js/websocket.js`, `web/js/app.js` | the current socket, `connected`, `reconnectDelay`, pending timers, pause, interval and status line of the page | connect, events of sockets, reconnect, send a command, show the status |
| Charts | `web/js/charts.js` | one array per series | `updateFastMetrics`, `loadHistory` |

How they interact: the page opens a WebSocket; its handler registers it with the
connection manager, which cancels the sleep timer and sets the wake event on
which both loops wait. The fast loop stores each sample in its ring buffer and
broadcasts it; the slow loop does so with payloads whose collectors run at
different multiples of a tick. A new page gets system information and the last
120 fast samples before it listens. Its commands change its pause flag and
interval; the loops take the minimum interval of all clients. A client leaves the
registry when its handler ends, when a frame to it fails, or when an answer to it
fails; an empty registry starts the sleep timer.

What is hard about it. The server is one asyncio event loop with executor
threads for the collectors, so everything may happen during an `await`: clients
come, go, pause and fail during a broadcast, during a collection, during a nap
and between registration and history. Several paths remove the same client. The
sleeping flag, the wake event, the timer and the registry have to agree after
every one of them. On the page, callbacks of old sockets and several reconnect
timers write the fields of one object. Collectors keep readings, caches and
flags between calls that may fail, measured by a wall clock that may be set back.
The hazards are listed with their lines in `PROJECT.json`.

What makes each component correct:

- connection manager: it never sleeps on a registered client, always gets to
  sleep without one, loses no wake-up, and its three dicts keep one domain;
- endpoint: a handler leaves nothing behind, what a client was told is in force,
  and who is still there is not dropped;
- scheduler: loops never stop for good, never collect while asleep beyond the
  iteration they are in, keep every tier on time, and leave nothing in the manager
  when they are cancelled;
- ring buffer: it holds exactly the newest entries;
- feed and charts: a page sees every sample of its session, once and in order,
  whatever was on it before; series are bounded and full;
- page: one live connection, retries that never end and back off, a status line
  and settings that agree with the server;
- token: a server answers only those who hold its token, also after a restart;
- collectors: rates are what really moved over the time that really passed, CPU
  figures of one sample cover one span, cached lists are recent, lists are true
  of what the host answered and ordered, and a page shows the containers there are.

## 2. The modules

| Module | Models | Notes |
|---|---|---|
| `SleepWake` | the promise of sleep mode, abstractly | visitors, a mode, blocked producers |
| `ConnectionManager` | every method of the class | implements `SleepWake` |
| `ConnectionManagerProofs` | theorems about it | TLAPS |
| `Endpoint` | the promise of the server to its pages, abstractly | admitted, served, dropped, over; what is in force |
| `Server` | endpoint handlers and both loops | EXTENDS `ConnectionManager`, implements `Endpoint` |
| `ServerProofs` | theorems about it | TLAPS, EXTENDS `ConnectionManagerProofs` |
| `NumberLemmas` | least elements, remainders of a counter | TLAPS, lemmas for `ServerProofs` and `SlowFeedProofs` |
| `RingBuffer` | `RingBuffer` | |
| `LiveFeed` | the promise of the feed, abstractly | samples taken, the page's join, its filling from the history, the newest sample shown |
| `ChartFeed` | buffer, history, live frames, channel, charts of a page, restarts | EXTENDS `RingBuffer`, implements `LiveFeed` |
| `ChartFeedProofs` | theorems about buffer and feed | TLAPS |
| `ClientSession` | `CloudDateWebSocket`, the page's controls and status line, the endpoint as the page sees it | |
| `Session` | token, login page, dashboard, restarts | EXTENDS `ClientSession`, its server implements `Endpoint` |
| `SessionProofs` | theorems about it | TLAPS |
| `RateCollector` | network and disk I/O rates | |
| `FastCollectors` | one sample of the fast loop: CPU readings, then rates | EXTENDS `RateCollector` |
| `FastCollectorsProofs` | theorems about both | TLAPS |
| `SlowCollectors` | Docker and systemd collectors | |
| `SlowLists` | processes, units, disks and alerts of one payload | operators only |
| `SlowListsProofs` | theorems about them | TLAPS |
| `SlowFeed` | iterations of the slow loop and the page that takes its payloads | EXTENDS `SlowCollectors`, `SlowLists` |
| `SlowFeedProofs` | theorems about it and its collectors | TLAPS, EXTENDS `SlowListsProofs` |
| `MC...` | the instances TLC checks | values that a .cfg cannot express |

How they compose: `Server` contains the manager and checks that it is used only
through its operations (`ManagerContract`), and the manager implements
`SleepWake`. The other compositions look at one page or one loop and take from
the rest only what reaches them: `ChartFeed` the frames of the fast loop to one
page, `Session` the endpoint as its sockets see it (admitted, served, dropped,
gone), `SlowFeed` and `FastCollectors` one loop with its collectors.

`Endpoint` is the seam between the two halves of a connection. `Server`, with all
its handlers and loops, implements it (`EndpointContract`), and so does the server
that `Session` models with one variable per socket (`PeerContract`): its picture of
the other side makes no step that the contract rules out. The converse, that
`Session` lets its server do everything `Endpoint` allows, is not stated: a slot
of `Session` is admitted only if its page asks, and drops one at a time.

Operators keep the source's names where TLA+ allows (`IsPaused`,
`DoConnect`, `GetLatest`, `ScheduleReconnect`, ...); the `map` of
`PROJECT.json` gives the lines of every definition. A definition named
`X_Something` above `X` is a mutant: `X` as a plausible bug would have it. For
every checked property one of them makes TLC find a violation.

### ConnectionManager and Server

A step is what the event loop runs between two awaits that can suspend. No
section under `self._lock` awaits, so the lock is never contended and `connect`,
`disconnect` and the end of the countdown are one step each. `broadcast` is
split: the snapshot of the targets (`StartBroadcast`), each target it skips,
fails at or writes to (`SkipTarget`, `SendRaises`, `SendFrame`), the drain it
awaits (`DrainEnds`), and the clean-up (`FinishBroadcast`). The frame counts as
sent when it is written, before the drain. Connection ids only grow, which is
also the iteration order of the dicts. The timer is a number of ticks to go;
starting it again, cancelling it and letting it fire are assignments to it.
`CancelCalls` is the cancellation of the loops at shutdown, which unwinds
whatever call they are suspended in.

`Server` adds a program counter per handler (`sysinfo`, `hello`, `listening`,
`done`) and per loop (`start`, `waiting`, `collecting`, `sending`, `pausing`,
`error`, `stopped`). A collection spans two steps, since executor threads answer
at any later time; the 0.5 s and 1 s a loop settles after a wake-up are part of
that span. The naps themselves have no length: the code subtracts from the
interval what the wall clock says has elapsed (`scheduler.py` 110-112, 204-206),
so that a clock that is set makes a nap as short as 0.05 or 0.5 s, or longer than
the interval. Any interleaving the timing allows is a behaviour, and some that it
does not; no property depends on the length of a nap. A command and its answer are
one step, because the answer's write happens before the handler can suspend. The
tick of the slow loop counts modulo a common multiple of the periods, as only
divisibility is asked of it.

Auxiliary variables record what a property needs and no action reads:
`acked` (what a client was last told), `sinceAsleep`, `age` of each tier,
`wakePending`.

### RingBuffer, ChartFeed, LiveFeed

The buffer is the sequence of its entries, each method one step (it holds the
lock throughout); `SliceFrom` is Python's `s[k:]` for any sign of `k`. In
`ChartFeed` a sample is its number in the order taken, the WebSocket an ordered
channel that a session loses when it ends, and the chart one sequence, since all
series are pushed and trimmed alike. The chart outlives sessions and restarts of
the server, not reloads of the page. `LoadHistory` leaves the charts as they
are, because that is what the call does (section 4). `LiveFeed` maps to it with
the number of samples, their number when the session began, whether the history
has been handled, and the last point of the chart. Its `Fill` is the history
frame, once in a session, which may bring the page forward to any sample from its
join to the newest, or change nothing; its `NextToShow` leaves no other step that
would skip, repeat or reorder a sample. `FeedAssumption` asks nothing of the
buffer's size: `RING_BUFFER_SIZE` may be below the points of the history or the
charts.

### ClientSession, Session

Each socket is a slot with a `readyState`; the handlers of every socket write
the one client object, as the closures in the code do. A slot may be reused
once it is closed. Commands travel up in order, the answers down; `peer` tells
whether the server still serves the socket, has dropped it from its registry and
left it open, or is gone. `connect()` and `disconnect()` may be called at any
time although the page only calls `connect()` once; `apiUsed` records that, and
two properties are about pages that do not. A socket the page or the server
closes passes `CLOSING` (`SocketStartsClosing`), in which no callback runs and
nothing is sent; one that is lost may skip it. `onerror`, always followed by
`onclose`, is part of it.

`Session` puts the page behind the token: `ServeIndex` answers an address with
the dashboard or the login page, whose script asks `/api/config` and then goes
to the address with the token (`Submits`, `Enters`); `SocketAdmitted` is the
handshake with the check of `websocket_endpoint`. `ServerRestarts` replaces the
process, perhaps with another `TOKEN`. `WireToken` is what the query of the
WebSocket's address carries of the page's token: `_buildUrl` does not encode it,
so the tokens in `Mangled` arrive as something else.

### RateCollector, FastCollectors

The kernel's counters and the interfaces change at any time and are external.
`RateCollector` stands for both rate collectors: the disk is the case of one
device that never goes. The wall clock may be set back, as often as the bound
allows, and ahead. `span`, `jumped`, `intact` and `moved` keep the truth a
rate is compared with. `FastCollectors` adds the CPU: a reading is the number of
seconds since it was taken, apart for the total and the cores. psutil kept one of
each up to 5.9.5 and one of each per thread since; `requirements.txt` allows both,
so `perThread` is chosen at the start. Readings taken in the event loop prime
what `collect_cpu` uses in the executor only in the first case.

### SlowCollectors, SlowLists, SlowFeed

The Docker daemon, its containers and systemctl change at any time.
`collect_docker` is one step whose listing may break off; `collect_services` is
three (begun, answered, returned), so that time passes and the clock may be set,
back or ahead, during the query; it may also raise, when the output does not
decode, which costs the iteration (`ServicesRaise`). `SlowLists` are the functions
from one answer of the host, a sequence in the order of the host, to one list of the payload. A list is the
elements at some of the positions of another: `Filtered` keeps their order,
`SortedBy` is Python's stable sort, and neither is recursive, so that both can be
proved about. `AnswersAssumption` says what an answer is; that psutil lists a
process once is the only thing it asks for beyond types. `SlowFeed` runs
both collectors when their tiers are due and hands the payload to a page, which
replaces the panels it got a list for. `settled` counts the payloads the page
took in a row since a container came or went, or since a listing that broke off
left out one that is there; from `DockerEvery + 1` on the page and Docker have to
agree about it (`PageFollowsDocker`). A tick counts modulo the longest period.

## 3. What TLC checks

Runs that pass, every property with the mutant that breaks it:

| Run | Bounds | What it shows |
|---|---|---|
| `connections` | 3 connections, 2 loops, delay of 1 tick, 2 intervals | `SleepsOnlyWhenIdle`, `IdleMeansCountdown`, `CountdownOnlyWhenIdle`, `NoLostWake`, refinement of `SleepWake` |
| `server` | 2 clients, 2 loops, 2 intervals, one tier, a timer due at once | refinement of `Endpoint` (`EndpointContract`), `NothingLeftBehind`, `AckedInForce`, `NoFrameAfterPauseAck`, `OnlyLostAreDropped`, `OneSampleAsleep` |
| `server_live` | 2 clients, the slow loop, tiers of 2 and 3 ticks, under fairness | `TiersOnTime`, `ManagerContract`, `ClientsAreFed`, `LostClientsAreDropped`, `AbandonedServerSleeps` |
| `chart` | size 3, charts and history of 2, 5 samples, a clock of two values, one restart | `LatestAreTheNewest`, `NoGapAfterHello`, `ChartShowsSession`, refinement of `LiveFeed` (`FeedContract`), `SamplesAreShown` under fairness |
| `session` | 2 sockets alive at once, 2 commands and 1 answer in flight per socket, 2 tokens, one of which a URL mangles | `OneLiveSocket`, `NeverGivesUp`, `StatusIsHonest`, `SettingsReachServer`, `OnlyTheTokenIsServed`, `PeerContract`, `Reconnects` under fairness |
| `fast_collectors` | 1 interface, 2 threads, 3 s, one set-back of the clock, any jumps ahead | `RatesAreTrue`, `NoRateAboveLine`, `WindowsAgree`, `ReadingsFollow` |
| `slow_collectors` | 1 container, tiers of 3 and 6 ticks, a cache of 2 s, a clock of 3 s set back once and ahead at any time; 3 processes, 3 units, 2 mounts in any states, `ALERT_DISK` at 80 | `CacheIsRecent`, `PageFollowsDocker`, `PayloadIsTrue` |

Why the bounds are enough. Three connections let one be added, one be sent to
and one be removed in every order, around two broadcasts that each hold a stale
snapshot; ids are never reused, so more of them repeat the same situations. A
countdown of one tick separates started, running and due; `server` needs only that
it may fire at any time before it is cancelled. Two clients suffice
where a property relates one client to the rest. With two loops every pair of
loop steps interleaves; liveness is checked with one, since loops share nothing
but the manager, whose contract `ManagerContract` shows to be kept. Each
component's type invariant is checked by a run; `ManagerTypeOK` is part of the
`TypeOK` that `server` checks. The periods 2
and 3 stand for 2, 3, 6 and 12: they include a pair that does not divide each
other. Five samples push the ring over its end and the charts over theirs, before
or after a restart. Two sockets are one in use and one closing late; a third
would close late as well. One token that survives the address and one that does
not are all `WireToken` tells apart; a server
without a token refuses nobody, and the run passes with that setting added too
(251,000 states instead of 64,000). Two threads let a reading be found, be
missing, and be older than another thread's; they are alike, and the run takes
them as symmetric (its properties are safety). Containers do not influence each
other, so one suffices; three processes around a limit of two, and three units,
make every pair of neighbours occur. The mounts are below, at and between the
thresholds of 80 and 90 percent, and at the second. `MaxConns`, `MaxAppends`, `MaxRestarts`,
`Slots`, `MaxInFlight`, `MaxAnswers`, `MaxClock` and `MaxSetBacks` are the only
bounds on what the code does not bound.

Deadlock is checked in every run but those of `Server`, which is shut down in the
end: the other models always have a step, as loops go on, sessions can end and
begin, and a visitor can open an address.

Fairness. `Server!Fairness` asks of the handlers and loops only that a task that
can run does run: weak fairness of `HandlerProgress`, `LoopStep` and the
timer. A drain ends because the transport drains, or because uvicorn's keepalive
ping times out and closes the connection. Strong fairness of `LoopCollects` says
that collectors asked again and again do not fail for ever. Commands, departures,
failures and the shutdown are never owed. `FeedLiveSpec`: a broadcast under way
comes to its targets and the browser handles what has arrived; nobody owes a
sample or a session. `SessionLiveSpec`: the page starts, its timers fire,
handshakes and closing sockets end, a lost server's sockets close, a server
tried again and again admits in the end if it takes the token, and the constructor of the
WebSocket does not throw for ever; the user, the visitor and restarts owe
nothing. `SlowFeedLiveSpec` (for `docker_back` only): the slow loop runs on, and
neither another collector nor a listing fails for ever.

## 4. Where the code and its texts disagree

Runs that TLC is expected to refute, each quoting what the repository says:

- `server_wake`: "Reset so first wake does a full collection"
  (`scheduler.py:139`). A slow loop that pauses, collects or waits after an error
  through a whole sleep and wake-up never reaches the reset.
- `server_zombie`: "When no clients are connected, the system enters sleep mode"
  (`connection_manager.py:4`). A payload that does not encode, such as a process
  name with undecodable bytes, removes clients whose connections are fine; the
  server then sleeps in front of them.
- `docker_back`: "Returns None if Docker is not available"
  (`docker_stats.py:18`). After one failed attempt it returns `None` for good.
- `chart_prefill`: "Load historical data to pre-fill charts" (`charts.js:366`),
  "so the client can populate charts immediately" (`main.py:139`). The
  constructor gives each `ChartManager` a field `loadHistory` (line 101), which hides
  the method; the call raises a TypeError that `onmessage` catches. Charts begin
  empty. `LiveFeed` allows the filling that the texts describe. With the body of
  the method in the place of `LoadHistory` this run finds no error and
  `FeedContract` still holds, but `ChartShowsSession` does not: a sample whose
  broadcast is under way when the page joins comes in the history and as a
  live frame, and is drawn twice.
- `cpu_prime`: "Re-prime CPU stats after wake" (`scheduler.py:75`). Only the cores
  are read, in the event loop; the total, and with a psutil that keeps readings
  per thread the cores too, cover the sleep in the first samples after it.

Seen while modelling and not the subject of a run: `get_latest(0)` returns the
whole buffer (`[-0:]`) and a negative `n` a slice from the left, and
`/api/history` passes `n` on unchecked, so that the number of entries is not the one
asked for (they are still the newest without a gap: `LatestAreTheNewest`,
`AnyRequestGetsAnEnd`); a late `disconnect` of a client already
dropped starts the countdown again (the sleep comes later, but comes:
`AbandonedServerSleeps`); after a reconnect the page still shows its pause and
interval while the server uses its defaults; the README gives `PROCESS_LIMIT` a
default of 50 and `config.py` 30; the slow loop's floor is 5 s and the header of
`scheduler.py` says 3 s; a token with `+`, `&`, `%` or `#`
opens the page but not its socket, since `_buildUrl` decodes it and does not
encode it again, and the page retries for ever; the login page submits a
remembered token before it listens to submissions, so that nothing happens until
the button is pressed; a page whose server came back with another `TOKEN`
retries for ever and never asks for it; `updateDiskBars` marks disks from 90
percent whatever `ALERT_DISK` says and `handleAlerts` ignores the alerts of type
`disk` that the server sends, so the setting has no effect on the page although the
README lists it (`DisksAreTrue` says which disks each of the two takes, and is
checked with a threshold of 80); a clock set back during an iteration lengthens
the nap after it by as much; the
Docker health check calls `/api/config` without the token and gets 403 when one
is set; `collect_services` trusts the wall clock, so its 60 s may last longer
after the clock is set back.

## 5. What is proved

`ConnectionManagerProofs`, for any number of connections and loops, any delay
and any set of intervals that contains the default (`ManagerAssumption`):

- `ManagerTypeCorrect`: `ManagerSpec => []ManagerTypeOK`. Its content is that the
  three dicts keep one domain whatever order of `disconnect`, `set_interval`,
  `set_paused` and clean-ups; lemmas `UnregisterTypeOK` and `ConnectTypeOK`
  carry the two actions that change domains.
- `ManagerInvariant`: the inductive invariant `SleepInv`, and from it
  `NeverSleepsOnClients`, `IdleCountsDown`, `ArrivalCancelsCountdown` and
  `WakeIsNeverLost`. None of the four is inductive alone: that a firing countdown
  keeps the flag and the event in agreement needs the registry; that no countdown
  outlives an arrival needs that only empty registries start one; that loops wait
  only while the system sleeps needs that the event is set otherwise. The proof
  has one step per action and reuses two lemmas: `IdleUnchanged`, for the
  actions that touch none of this, and `UnregisterSleepInv`, for the four paths
  that remove clients.
- `ImplementsSleepWake`: `ManagerSpec => SleepWakeContract`, step by step:
  arrivals map to `Arrive`, every removal to `Depart`, a firing countdown to
  `FallAsleep`, a blocking wait to `Block`, a cancellation to `GiveUp`, and
  the rest to stutters. It uses `SleepInv`: an arrival releases the blocked
  loops in the abstract step because no loop is blocked while awake.

`ServerProofs`, for any number of connections, any of the two loops, any periods
that divide the cycle of the tick, any intervals and buffer sizes: `ServerInvariant`
proves `ServerInv`, whose parts need one another.

- `UsesManager` (`ManagerContract`): every step of a handler, a loop, the timer or
  the shutdown is an operation of the manager or leaves it alone. That a handler
  acts only on an id the manager gave out is `FreshIds`. With `ImplementsSleepWake`
  it gives `ServerImplementsSleepWake`, and every theorem about the manager holds
  of the server.
- `NothingStays` (`NothingLeftBehind`) and `ToldIsInForce` are `RegistryInv` and
  `CallsInv`: a client leaves the registry before its handler ends, whichever path
  removes it, a failed answer removes the client whose setting it was about, and a
  waiter or a broadcast belongs to a loop that is in that call. Four lemmas say which
  steps only forget clients (`OnlyForgets`), so that the rest of the proof is about
  arrivals and commands. `PausedAreLeftAlone` follows, since `broadcast` asks for the
  flag at the moment it writes.
- `OnlyTheLostLeave` (`OnlyLostAreDropped`) is `CastInv`: the failed targets of a
  broadcast that encodes have closed sockets, and a closed socket stays closed
  (`ClosedStayClosed`). `OnlyLostAreForgotten` has one case for each path that
  removes a client.
- `SleepStopsCollection` is `AsleepInv`: a loop that has stored its sample after the
  system fell asleep is past the collection or blocked until the next arrival,
  which rests on `NoLostWake`.
- `TiersStayOnTime` is `TiersInv`: the age of a tier of period p stays below the
  remainder of the tick by p until it is due. A failed iteration repeats its tick and
  a wake-up sets it to 0, which only brings the collection forward.
  `RemainderCountsOn` and `CycleKeepsRemainders` are the arithmetic of a tick that
  wraps.
- `ServerImplementsEndpoint` (`EndpointContract`): a registration maps to `Admit`, a
  command of a registered client to `Command`, the clean-up of a broadcast and a
  failed answer to `Drop`, the end of a handler to `End`, and the rest to stutters. A
  command of a client that was dropped must be a stutter: the manager's guards
  (`if client_id in self._intervals`) make it one.
- `OnlyPayloadsHideClients`: with `MayNotEncode = {}`, the system sleeps only when no
  client is connected, the sentence that `server_zombie` refutes without this
  hypothesis. Its invariant `OpenInv` says that whoever listens on an open socket is
  registered, and that the failed targets of a broadcast have closed sockets; with
  `ServerInv` it is inductive. So an encoding error is the only cause of what that run
  shows.

`ChartFeedProofs`, for any size of buffer, history and charts, any readings of the
clock and any number of samples and restarts:

- `BufferIsTheEnd`: the invariant `RingInv`, that the buffer is the right
  end of the log, as long as it may be. `PushKeepsTheEnd` is the induction step,
  below the limit and at it; it and `LatestOfTheEnd` compare sequences element by
  element through `LastOfElements` and `SameElements`. From it `LatestAnswers`
  (`[]LatestAreTheNewest`).
- `FeedInvariant` proves `FeedInv`, which adds what is under way: samples are numbered
  without gap (`LogInv`), only the newest can be in a running broadcast
  (`SessionInv`), what a history reaches back to was offered or is that one
  (`GapInv`), and the channel holds the live frames that continue what the page
  has handled, with at most one history among them (`ChartInv`). From `GapInv`
  `NothingIsMissed`, from `ChartInv` `ChartsEndInSession`.
- `FeedImplementsLiveFeed` (`FeedContract`): storing a sample maps to `LiveFeed`'s,
  a new session to its join, handling the history to `Fill`, handling a live frame to
  `NextToShow`, for which `ChartInv` says that the frame is the next one, and the rest
  to stutters. That a page is filled at most once needs that a session's channel
  never gets a second history (`TailFills`, `LiveFramesFillNothing`).
- `AnyRequestGetsAnEnd`: whatever integer `/api/history` passes on, `get_latest` answers
  with a run of the newest samples. `LatestAnswers` uses it for `n` below 1.

`SessionProofs`, for any number of slots, tokens and bounds: `LinkInvariant`
proves `LinkInv`, from which `OneConnection` (`[]OneLiveSocket`) and `KeepsTrying`
(`[]NeverGivesUp`) follow. That a second live socket cannot appear needs that
every live socket is `this.ws`, the only one `_doConnect` looks at; `ConnectKeepsLink`
is the lemma about `_doConnect`, used by the start of the page, a timer and
`connect()`. `PageInvariant` adds the server's side:

- `StrangersAreRefused` (`[]OnlyTheTokenIsServed`), inductive with the types and
  `PeerInv`, since a restart leaves no socket served and the page's token changes
  only when no socket is open.
- `LastSettingWins` (`[]SettingsReachServer`) from `CommandsInv`: the last command in
  flight for a setting is what the page shows, and without one the server has it
  in force. `AppendSays` and `TailSays` say what sending and handling do to
  "the last".
- `StatusTellsTheTruth` (`[]StatusIsHonest`) from `TextInv` and `AnswersInv`, the same
  about answers and the status line. It needs that there is only one connection
  whose answers could arrive, hence `LinkInv`, and that a page that never called
  `disconnect()` has one socket or one timer, so that no older socket closes late.
- `PagesSeeEndpoints` (`PeerContract`): the server of this model takes only steps of
  `Endpoint`, restarts (all connections end) and handshakes included.

`FastCollectorsProofs`, for any devices, line rate, threads and bounds of the clock:
`FastInvariant` proves `FastInv`.

- `ReportsWhatMoved` (`RatesAreTrue`) and `RatesFitTheLine` (`NoRateAboveLine`) come
  from `ReadingInv`: the clock has advanced since the previous reading by what
  really passed unless it was set, and by no less unless it was set back; a device that
  stayed has counted what it moved; and no counter exceeds the previous reading by more than the line moves,
  one that started anew included. A failed reading keeps all three because it
  leaves the previous one and its time alone. `RateFits` bounds the counters;
  `QuotientFitsLine` is the division.
- `WindowsAgreeAlways` and `ReadingsFollowAlways` come from `CpuInv`: a worker always
  reads total and cores together, so readings kept per thread agree; shared ones
  agree from the first result after a wake-up on, and the cores' is no older than
  the wake-up.

`SlowFeedProofs`, for any containers, any periods (`SlowFeedAssumption`), cache
span and clock, any duration of a query:

- `CacheInvariant` proves `CacheInv`, that the age of the cached list is at most the
  clock less its stamp plus the seconds the clock was set back, and the same of a running
  query, whose answer becomes the cached list; `CachedListIsRecent` is
  `[]CacheIsRecent`.
- `SlowInvariant` proves `SlowInv`, whose core is `PanelInv`: while the page and Docker
  disagree about a container, no more payloads have counted than went out since the
  last listing, which the tick tells (`Allowed`), and none if the list collected in
  this iteration is as wrong. `AllowedGrows` is the arithmetic. From it
  `PanelFollows` (`[]PageFollowsDocker`).
- `DockerIsGivenUp` needs no invariant: only a step that tries to connect without a
  daemon gives Docker up, and no step takes that back. A removed container is not
  enough, a daemon that is late once is; it is why `docker_back` is refuted.
- `PayloadTrue` (`[]PayloadIsTrue`) puts together the theorems of `SlowListsProofs`,
  for any `ALERT_DISK`.

`SlowListsProofs`, for any answers that satisfy `AnswersAssumption`, of any length,
and any limit: `TopList`, `UnitList` and `DiskList`. All three rest on `CountThrough`:
a finite set with a strict total order can be counted through in that order,
since the place of an element is the number of those before it, and no two share
one; `CountingIsBijective` adds that nobody is met twice. `FilteredKeeps` and
`SortOrder` state it of `Filtered` and `SortedBy`: a stable sort breaks ties by
position, which makes a strict total order out of any order of the keys. The rest of `TopList`
is that a first part of a sorted list outranks what comes after it; that of
`DiskList` that a threshold picks the same mounts from the list as from the answer
(`ThresholdsPick`).

In each module the type invariant that TLC checks is proved as well
(`ServerTypeCorrect`, which includes `ManagerTypeCorrect`, `FeedTypeCorrect`,
`SessionTypeCorrect`, `FastTypeCorrect`, `SlowTypeCorrect`); where a bound on a variable is not a guard
of its own, as for ages, counters and queues, it follows from the rest of the
invariant. Every inductive invariant was checked by TLC before it was proved.
The assumptions are those named in the modules (`ManagerAssumption`,
`ServerAssumption`, `RingAssumption`, `FeedAssumption`, `ClientAssumption`,
`TokenAssumption`, `RateAssumption`, `WorkerAssumption`, `SlowAssumption`,
`SlowFeedAssumption`, `SlowListsAssumption`, `AnswersAssumption`), which TLC
evaluates in every run of a module that extends theirs; one theorem adds a
hypothesis of its own, `OnlyPayloadsHideClients`, named above.

Only model-checked: liveness (`ClientsAreFed`, `LostClientsAreDropped`,
`AbandonedServerSleeps`, `SamplesAreShown`, `Reconnects`), which is beyond the
prover. Every other property of a passing run is a theorem.

## 6. What is not modelled

Memory, temperature and system information copy numbers into a dict and keep
nothing; they appear by their outcomes only: an answer after any delay, or an
exception that costs the iteration. `_check_alerts`, container arithmetic and
all rendering compute one value from one input and keep nothing; nor do
`/api/history` (a read of `get_latest`) and the numbers `/api/config` answers.
The configuration is constants. Of the deployment only the effect, a process
that is replaced, is modelled. How long the loops nap is left open, and with it
`min_interval`, whose only readers are the naps. `collect_failed_services`, `get_all`,
`get_since`, `clear_all` and `ping` of the client have no caller; `GetSince` is
checked beside `GetLatest`; `ClearAll` stands for what a new process
begins with. Wall-clock durations are abstracted to order, except in the
collectors whose correctness is about time. The link between page and server
loses what it holds when it ends, but, being a WebSocket, neither reorders
nor duplicates.

## 7. What is left

The model is complete as far as the code keeps state, and every safety property of
the passing runs is a theorem. What could still be done:

1. The other direction of the seam: that a page beside any `Endpoint`, not only the
   server `Session` models, has the properties of `SessionProofs`.
2. What the abstract specifications imply by themselves (nobody is blocked while a
   visitor is there; what is shown was taken in the session), as theorems that the
   refinements carry over.
3. The safety half of the liveness properties, where it is an invariant of its own: a
   client that is registered and unpaused stays a target until it is sent a frame; a
   page that misses samples has them in the channel.
