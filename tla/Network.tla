------------------------------ MODULE Network ------------------------------
(***************************************************************************)
(* The default set-up, one pool and the donation: src/net/Network.cpp with *)
(* SinglePoolStrategy.cpp and DonateStrategy.cpp, each owning one Client.  *)
(*                                                                         *)
(* All of it runs on the event loop: one callback at a time.  A callback   *)
(* for received data handles several lines in a row (variable reading).    *)
(***************************************************************************)
EXTENDS Client

CONSTANTS
  Refusable,  \* clients whose name or address libuv may refuse at once
  Chatty,     \* clients whose server sends lines nobody asked for
  LongLogins  \* clients whose login may be too long for the send buffer

Ids == {"pool", "donor"}  \* Client::id() 0 and -1

ASSUME NetworkAssumption == Refusable \subseteq Ids /\ Chatty \subseteq Ids

VARIABLES
  clients,
  active,    \* SinglePoolStrategy::m_active
  donating,  \* DonateStrategy::m_active
  timer,     \* DonateStrategy::m_timer is armed
  miner,     \* what Workers was last told: the job, and whether to pause
  reading,   \* the client whose onRead() is running, or "none"
  closing,   \* the event loop is running the close callbacks
  stopped,   \* stop() has been called
  fault,     \* an operation the language leaves undefined has been executed
  strays     \* history: clients that disconnect() left with a lookup in flight,
             \* or that connect() found with a socket

vars ==
  <<clients, active, donating, timer, miner, reading, closing, stopped, fault, strays>>

TypeOK ==
  /\ clients \in [Ids -> Client]
  /\ active \in BOOLEAN /\ donating \in BOOLEAN /\ timer \in BOOLEAN
  /\ miner \in [job : JobIds, paused : BOOLEAN] \cup [job : {NoJob}, paused : {TRUE}]
  /\ reading \in Ids \cup {"none"}
  /\ closing \in BOOLEAN /\ stopped \in BOOLEAN /\ fault \in BOOLEAN
  /\ strays \in SUBSET Ids

Accepts(k, accepted) == k \notin Refusable => accepted

\* DonateStrategy() connects at once, App::exec() connects the pool.
Init ==
  /\ \E started \in [Ids -> BOOLEAN] :
       /\ \A k \in Ids : Accepts(k, started[k])
       /\ clients = [k \in Ids |-> connect(NewClient, started[k])]
  /\ active = FALSE /\ donating = FALSE /\ timer = FALSE
  /\ miner = [job |-> NoJob, paused |-> TRUE]
  /\ reading = "none" /\ closing = FALSE /\ stopped = FALSE /\ fault = FALSE /\ strays = {}

\* The event loop is free to run a callback.
Free == reading = "none" /\ ~closing /\ ~stopped /\ ~fault

Set(k, c) == clients' = [clients EXCEPT ![k] = c]

-----------------------------------------------------------------------------
(* The listeners: the two strategies and Network.                          *)

\* Network::onPause() without an active pool: Workers::pause().
paused(m) == [m EXCEPT !.paused = TRUE]

\* Mutant: SinglePoolStrategy::onClose() without onPause().
ReconnectMutant(k, c) ==
  /\ Set(k, reconnect(c))
  /\ active' = (active /\ k # "pool")
  /\ UNCHANGED <<miner, donating, timer, fault, strays>>

\* Client::reconnect() of client k, whose record is c by now.
\* SinglePoolStrategy::onClose() ends in Network::onPause() and Workers::pause();
\* DonateStrategy::onClose() does nothing: the donation stays active.
Reconnect(k, c) ==
  LET lost == k = "pool" /\ active IN
  /\ Set(k, reconnect(c))
  /\ active' = (active /\ ~lost)
  /\ miner' = IF lost THEN paused(miner) ELSE miner
  /\ UNCHANGED <<donating, timer, fault, strays>>

\* Mutant: the timer of the donation is not started.
OnLoginSuccessMutant(k) ==
  /\ active' = (active \/ k = "pool")
  /\ donating' = (donating \/ k = "donor")
  /\ UNCHANGED timer

\* onLoginSuccess() of the two strategies.
OnLoginSuccess(k) ==
  /\ active' = (active \/ k = "pool")
  /\ donating' = (donating \/ k = "donor")
  /\ timer' = (timer \/ (k = "donor" /\ ~donating))

\* Network::setJob() and Workers::setJob(): a job of the donation is dropped.
SetJob(k, job) ==
  miner' = IF k = "pool" THEN [job |-> job, paused |-> FALSE] ELSE miner

\* Network::onJob(): a job of the pool is dropped while the donation is active.
OnJob(k, job) ==
  IF donating' /\ k = "pool" THEN UNCHANGED miner ELSE SetJob(k, job)

-----------------------------------------------------------------------------
(* Callbacks of libuv for client k.                                        *)

OnResolved(k) ==
  /\ Free /\ clients[k].lookup
  /\ \E accepted \in BOOLEAN :
       Accepts(k, accepted) /\ Set(k, openSocket(clients[k], accepted))
  /\ fault' = ~OpenIsDefined(clients[k])
  /\ UNCHANGED <<active, donating, timer, miner, reading, closing, stopped, strays>>

\* onResolved() with an error or without an address.
OnResolveError(k) ==
  /\ Free /\ clients[k].lookup
  /\ Reconnect(k, lookupFailed(clients[k]))
  /\ UNCHANGED <<reading, closing, stopped>>

OnConnect(k) ==
  /\ Free /\ clients[k].sock = "opening"
  /\ \E fits, written \in BOOLEAN :
       /\ k \in LongLogins \/ fits
       /\ Set(k, login(clients[k], fits, written))
  /\ UNCHANGED <<active, donating, timer, miner, reading, closing, stopped, fault, strays>>

\* onConnect() with an error; onRead() with an error or the end of the stream.
OnSocketError(k) ==
  /\ Free /\ clients[k].sock \in {"opening", "open"}
  /\ Set(k, close(clients[k]))
  /\ UNCHANGED <<active, donating, timer, miner, reading, closing, stopped, fault, strays>>

\* What the servers may send.
Sends(k, line) ==
  line.type \in {"other", "job"} =>
    k \in Chatty \/ (k = "pool" /\ active) \/ (k = "donor" /\ donating)

\* One round of the loop in onRead(): it goes on with the lines that came in
\* the same read even if a line before them has closed the connection.
OnReadLine(k, line) ==
  /\ reading = k \/ (Free /\ clients[k].sock = "open")
  /\ Sends(k, line)
  /\ reading' = k
  /\ Set(k, parse(clients[k], line))
  /\ IF IsNews(clients[k], line) /\ line.type = "login"
     THEN OnLoginSuccess(k)
     ELSE UNCHANGED <<active, donating, timer>>
  /\ IF IsNews(clients[k], line) THEN OnJob(k, line.job) ELSE UNCHANGED miner
  /\ UNCHANGED <<closing, stopped, fault, strays>>

\* onRead() returns.
OnReadEnd ==
  /\ reading # "none"
  /\ reading' = "none"
  /\ UNCHANGED <<clients, active, donating, timer, miner, closing, stopped, fault, strays>>

\* The close callbacks run one after the other, at the end of the iteration of
\* the event loop that closed the sockets, before any other callback.
OnClose(k) ==
  /\ reading = "none" /\ ~fault
  /\ clients[k].sock = "closing"
  /\ closing' = \E other \in Ids \ {k} : clients[other].sock = "closing"
  /\ Reconnect(k, socketClosed(clients[k]))
  /\ UNCHANGED <<reading, stopped>>

-----------------------------------------------------------------------------
(* Timers, shares, and the end.                                            *)

\* Network::tick() for a client whose deadline has passed.
Tick(k) ==
  /\ Free /\ clients[k].expire
  /\ \E started \in BOOLEAN :
       Accepts(k, started) /\ Set(k, expired(clients[k], started))
  /\ fault' = (clients[k].state = "connecting" /\ ~ConnectIsDefined(clients[k]))
  /\ UNCHANGED <<active, donating, timer, miner, reading, closing, stopped, strays>>

\* The keep-alive timer of a connected client.
Ping(k) ==
  /\ Free /\ clients[k].sock = "open"
  /\ \E written \in BOOLEAN : Set(k, send(clients[k], written))
  /\ UNCHANGED <<active, donating, timer, miner, reading, closing, stopped, fault, strays>>

\* SinglePoolStrategy::resume() of an active pool.
resumed == [job |-> clients["pool"].job, paused |-> FALSE]

\* Mutant: onPause() without resume().
SuspendNeverResumes ==
  /\ Free /\ timer /\ donating
  /\ Set("donor", disconnect(clients["donor"]))
  /\ donating' = FALSE
  /\ timer' = TRUE
  /\ miner' = IF active THEN miner ELSE paused(miner)
  /\ strays' = strays \cup {k \in {"donor"} : clients[k].lookup}
  /\ UNCHANGED <<active, reading, closing, stopped, fault>>

\* DonateStrategy::onTimer() when the donation has had its time: suspend(),
\* Network::onPause(), and SinglePoolStrategy::resume() if the pool is active.
Suspend ==
  /\ Free /\ timer /\ donating
  /\ Set("donor", disconnect(clients["donor"]))
  /\ donating' = FALSE
  /\ timer' = TRUE
  /\ miner' = IF active THEN resumed ELSE paused(miner)
  /\ strays' = strays \cup {k \in {"donor"} : clients[k].lookup}
  /\ UNCHANGED <<active, reading, closing, stopped, fault>>

\* DonateStrategy::onTimer() at the end of the pause between two donations, which
\* is long enough for the close callback of suspend() to have come.
Donate ==
  /\ Free /\ timer /\ ~donating
  /\ clients["donor"].sock # "closing"
  /\ \E started \in BOOLEAN :
       Accepts("donor", started) /\ Set("donor", connect(clients["donor"], started))
  /\ timer' = FALSE
  /\ fault' = ~ConnectIsDefined(clients["donor"])
  /\ strays' = strays \cup {k \in {"donor"} : clients[k].sock # "none"}
  /\ UNCHANGED <<active, donating, miner, reading, closing, stopped>>

\* Network::onJobResult(): every share names the pool, as no other job is mined.
Submit ==
  /\ Free /\ miner.job # NoJob
  /\ \E written \in BOOLEAN : Set("pool", send(clients["pool"], written))
  /\ UNCHANGED <<active, donating, timer, miner, reading, closing, stopped, fault, strays>>

\* Network::stop(): the process is about to exit.
Stop ==
  /\ Free
  /\ stopped' = TRUE
  /\ timer' = FALSE
  /\ clients' = [k \in Ids |-> disconnect(clients[k])]
  /\ strays' = strays \cup {k \in Ids : clients[k].lookup}
  /\ UNCHANGED <<active, donating, miner, reading, closing, fault>>

Halted == (stopped \/ fault) /\ UNCHANGED vars

-----------------------------------------------------------------------------
ClientStep(k) ==
  \/ OnResolved(k) \/ OnResolveError(k)
  \/ OnConnect(k) \/ OnSocketError(k)
  \/ \E line \in Line : OnReadLine(k, line)
  \/ OnClose(k) \/ Tick(k) \/ Ping(k)

Next ==
  \/ \E k \in Ids : ClientStep(k)
  \/ OnReadEnd \/ Suspend \/ Donate \/ Submit \/ Stop \/ Halted

\* A read ends, a closed handle is reported, and time passes.
Fairness ==
  /\ WF_vars(OnReadEnd)
  /\ \A k \in Ids : WF_vars(OnClose(k))
  /\ SF_vars(Suspend)

Spec == Init /\ [][Next]_vars /\ Fairness

-----------------------------------------------------------------------------
(* Properties.                                                             *)

\* Outside a donation the miner works on the latest job of the pool, the jobs
\* dropped during a donation included, and it is paused exactly while the pool
\* is not active.  During a donation it is at least paused without a pool.
MinerFollowsPool ==
  /\ ~active => miner.paused
  /\ active /\ ~donating => miner = [job |-> clients["pool"].job, paused |-> FALSE]

\* Something will call back for client k.
Trying(k) ==
  clients[k].lookup \/ clients[k].sock \in {"opening", "open", "closing"} \/ clients[k].expire

\* The pool is never forgotten, whatever the donation does: unless libuv refuses
\* it at once, an attempt, a connection or a retry is pending.
PoolNeverStranded ==
  ~stopped /\ ~fault /\ "pool" \notin Refusable => Trying("pool")

\* The donation goes on in turns: a running one has a timer that ends it, and
\* without a timer the donation client is trying to log in.
DonationCycleGoesOn ==
  ~stopped /\ ~fault =>
    timer \/ (~donating /\ (Trying("donor") \/ "donor" \in Refusable))

\* Only suspend(), which does not cancel a lookup, or a donation connection that
\* outlives the pause can lead to a lookup request reused in flight or a live
\* socket deleted; the client of the pool is never affected.
UndefinedOnlyWithStrays ==
  (fault => strays # {}) /\ ("pool" \in strays => stopped)

\* A pool that is active is mined again at the latest when the donation ends.
PoolIsMinedAgain ==
  (active /\ miner.paused) ~> (~miner.paused \/ ~active \/ stopped \/ fault)

\* donate.h: "Switching is instant, and only happens after a successful
\* connection, so you never loose any hashes": with a pool, the miner works.
NeverLooseHashes == active /\ ~stopped => ~miner.paused

\* The clients, the donation and the miner are well formed (in particular the miner is
\* paused without a job), and undefined uses have the one cause above (Network.cpp,
\* onPause, setJob; Client.cpp, resolve, connect).
NetworkInvariant == TypeOK /\ UndefinedOnlyWithStrays
=============================================================================
