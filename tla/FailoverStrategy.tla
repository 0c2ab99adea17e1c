-------------------------- MODULE FailoverStrategy --------------------------
(***************************************************************************)
(* Several pools in order of preference (src/net/strategies/               *)
(* FailoverStrategy.cpp) with their clients, and the part of Network.cpp   *)
(* that drives the miner, in a configuration without a donation client     *)
(* (every algorithm but cryptonight: see DonateStrategy's constructor).    *)
(*                                                                         *)
(* All of it runs on the event loop: one callback at a time.  A callback   *)
(* for received data handles several lines in a row (variable reading).    *)
(***************************************************************************)
EXTENDS Client

CONSTANTS
  Count,         \* number of pools
  Unresolvable,  \* pools whose name uv_getaddrinfo() refuses at once
  Unroutable,    \* pools whose address uv_tcp_connect() may refuse at once
  Reliable,      \* pools that never fail; used to state liveness
  Chatty,        \* pools that send lines nobody asked for
  LongLogins     \* pools whose login may be too long for the send buffer

Pools == 0 .. Count - 1

ASSUME FailoverAssumption ==
  /\ Count \in Nat \ {0}
  /\ Unresolvable \subseteq Pools /\ Unroutable \subseteq Pools
  /\ Reliable \subseteq Pools \ (Unresolvable \cup Unroutable \cup LongLogins)

VARIABLES
  pools,    \* m_pools
  m_active, m_index,
  miner,    \* what Workers was last told: the job, and whether to pause
  reading,  \* the client whose onRead() is running, -1 if none
  closing,  \* the event loop is running the close callbacks
  stopped,  \* stop() has been called
  fault,    \* an operation the language leaves undefined has been executed
  strays    \* history: clients that disconnect() left with a lookup in flight,
            \* or that connect() found with a socket

vars == <<pools, m_active, m_index, miner, reading, closing, stopped, fault, strays>>

PoolJob == Pools \X JobIds

TypeOK ==
  /\ pools \in [Pools -> Client]
  /\ m_active \in Pools \cup {-1}
  /\ m_index \in Pools
  /\ miner \in [job : PoolJob \cup {NoJob}, paused : BOOLEAN]
  /\ reading \in Pools \cup {-1}
  /\ closing \in BOOLEAN /\ stopped \in BOOLEAN
  /\ fault \in {"none", "client", "submit"}
  /\ strays \in SUBSET Pools

Started(i) == i \notin Unresolvable

\* FailoverStrategy() and Network::connect(): only the first pool is tried.
Init ==
  /\ pools = [i \in Pools |-> IF i = 0 THEN connect(NewClient, Started(0)) ELSE NewClient]
  /\ m_active = -1 /\ m_index = 0
  /\ miner = [job |-> NoJob, paused |-> TRUE]
  /\ reading = -1 /\ closing = FALSE /\ stopped = FALSE /\ fault = "none" /\ strays = {}

\* The event loop is free to run a callback.
Free == reading = -1 /\ ~closing /\ ~stopped /\ fault = "none"

Set(i, c) == pools' = [pools EXCEPT ![i] = c]

-----------------------------------------------------------------------------
(* The listener's side: FailoverStrategy and Network.                      *)

\* FailoverStrategy::onClose() moves on to the next pool: at once, except that
\* the first pool is retried a few times.
MovesOn(i, failures) ==
  /\ m_index # 0 \/ failures >= Retries
  /\ m_index = i
  /\ i < Count - 1

\* Client::reconnect() of client i, whose record is c by now.  onClose() for a
\* client that was disconnected on purpose does nothing.
Reconnect(i, c) ==
  LET lost   == c.failures # -1
      active == lost /\ m_active = i
      next   == IF lost /\ MovesOn(i, LostFailures(c)) THEN {i + 1} ELSE {} IN
  /\ m_active' = IF active THEN -1 ELSE m_active
  /\ miner' = IF active THEN [miner EXCEPT !.paused = TRUE] ELSE miner
  /\ m_index' = IF next = {} THEN m_index ELSE i + 1
  /\ fault' = IF \A k \in next : ConnectIsDefined(pools[k]) THEN fault ELSE "client"
  /\ pools' = [k \in Pools |->
                 IF k = i THEN reconnect(c)
                 ELSE IF k \in next THEN connect(pools[k], Started(k))
                 ELSE pools[k]]
  /\ strays' = {k \in strays : k \notin next \/ pools[k].lookup}
                  \cup {k \in next : pools[k].sock # "none"}

\* Mutant: whoever logs in is elected.
ElectedMutant(i) == i

\* FailoverStrategy::onLoginSuccess(): the first pool always wins, any other
\* only if none is active; the other backups are disconnected.
Elected(i) == IF i = 0 \/ m_active = -1 THEN i ELSE m_active

\* Mutant: the loop does not spare the elected pool.
DroppedMutant(i) == Pools \ {0}

Dropped(i) == (Pools \ {0}) \ {Elected(i)}

OnLoginSuccess(i, c) ==
  /\ pools' = [k \in Pools |->
                 LET client == IF k = i THEN c ELSE pools[k] IN
                 IF k \in Dropped(i) THEN disconnect(client) ELSE client]
  /\ strays' = (strays \ Dropped(i)) \cup {k \in Dropped(i) : pools[k].lookup}
  /\ m_active' = Elected(i)
  /\ m_index' = IF Elected(i) # m_active THEN Elected(i) ELSE m_index

\* Mutant: the job of any pool is passed on.
OnJobReceivedMutant(i, active, job) == miner' = [job |-> <<i, job>>, paused |-> FALSE]

\* FailoverStrategy::onJobReceived(), Network::onJob(), setJob(), and
\* Workers::setJob(): only the active pool is mined.
OnJobReceived(i, active, job) ==
  miner' = IF active = i THEN [job |-> <<i, job>>, paused |-> FALSE] ELSE miner

-----------------------------------------------------------------------------
(* Callbacks of libuv for client i.                                        *)

OnResolved(i) ==
  /\ Free /\ pools[i].lookup
  /\ \E accepted \in BOOLEAN :
       /\ i \notin Unroutable => accepted
       /\ Set(i, openSocket(pools[i], accepted))
  /\ fault' = IF OpenIsDefined(pools[i]) THEN fault ELSE "client"
  /\ UNCHANGED <<m_active, m_index, miner, reading, closing, stopped, strays>>

\* onResolved() with an error or without an address.
OnResolveError(i) ==
  /\ Free /\ pools[i].lookup /\ i \notin Reliable
  /\ Reconnect(i, lookupFailed(pools[i]))
  /\ UNCHANGED <<reading, closing, stopped>>

OnConnect(i) ==
  /\ Free /\ pools[i].sock = "opening"
  /\ \E fits, written \in BOOLEAN :
       /\ i \in LongLogins \/ fits
       /\ i \in Reliable => written
       /\ Set(i, login(pools[i], fits, written))
  /\ UNCHANGED <<m_active, m_index, miner, reading, closing, stopped, fault, strays>>

OnConnectError(i) ==
  /\ Free /\ pools[i].sock = "opening" /\ i \notin Reliable
  /\ Set(i, close(pools[i]))
  /\ UNCHANGED <<m_active, m_index, miner, reading, closing, stopped, fault, strays>>

\* onRead() with an error, the end of the stream, or too much data.
OnReadError(i) ==
  /\ Free /\ pools[i].sock = "open" /\ i \notin Reliable
  /\ Set(i, close(pools[i]))
  /\ UNCHANGED <<m_active, m_index, miner, reading, closing, stopped, fault, strays>>

\* What the pools may send.
Sends(i, line) ==
  /\ line.type \in {"other", "job"} => i \in Chatty \/ i = m_active
  /\ i \in Reliable => IsNews(pools[i], line)

\* One round of the loop in onRead(): it goes on with the lines that came in
\* the same read even if a line before them has closed the connection.
OnReadLine(i, line) ==
  /\ reading = i \/ (Free /\ pools[i].sock = "open")
  /\ Sends(i, line)
  /\ reading' = i
  /\ LET c == parse(pools[i], line) IN
     IF IsNews(pools[i], line) /\ line.type = "login"
     THEN OnLoginSuccess(i, c) /\ OnJobReceived(i, Elected(i), line.job)
     ELSE /\ Set(i, c)
          /\ IF IsNews(pools[i], line)
             THEN OnJobReceived(i, m_active, line.job)
             ELSE UNCHANGED miner
          /\ UNCHANGED <<m_active, m_index, strays>>
  /\ UNCHANGED <<closing, stopped, fault>>

\* onRead() returns.
OnReadEnd ==
  /\ reading # -1
  /\ reading' = -1
  /\ UNCHANGED <<pools, m_active, m_index, miner, closing, stopped, fault, strays>>

\* The close callbacks run one after the other, at the end of the iteration of
\* the event loop that closed the sockets, before any other callback.
OnClose(i) ==
  /\ reading = -1 /\ fault = "none"
  /\ pools[i].sock = "closing"
  /\ closing' = \E k \in Pools \ {i} : pools[k].sock = "closing"
  /\ Reconnect(i, socketClosed(pools[i]))
  /\ UNCHANGED <<reading, stopped>>

-----------------------------------------------------------------------------
(* Timers, shares, and the end.                                            *)

\* Network::tick(), FailoverStrategy::tick() for a client whose deadline has
\* passed.  The clients do not touch each other here, so the loop over them is
\* the same as its rounds one by one.
Tick(i) ==
  /\ Free /\ pools[i].expire
  /\ i \in Reliable => pools[i].state # "connected"
  /\ Set(i, expired(pools[i], Started(i)))
  /\ fault' = IF pools[i].state = "connecting" /\ ~ConnectIsDefined(pools[i])
              THEN "client" ELSE fault
  /\ UNCHANGED <<m_active, m_index, miner, reading, closing, stopped, strays>>

\* The keep-alive timer of a connected client.
Ping(i) ==
  /\ Free /\ pools[i].sock = "open"
  /\ \E written \in BOOLEAN :
       /\ i \in Reliable => written
       /\ Set(i, send(pools[i], written))
  /\ UNCHANGED <<m_active, m_index, miner, reading, closing, stopped, fault, strays>>

\* Network::onJobResult(), FailoverStrategy::submit(): a share that the thread
\* pool has verified, of whatever job was mined when it was found, goes to the
\* pool that is active now; m_pools[-1] does not exist.
Submit ==
  /\ Free /\ miner.job # NoJob
  /\ IF m_active = -1
     THEN fault' = "submit" /\ UNCHANGED pools
     ELSE /\ \E written \in BOOLEAN :
               /\ m_active \in Reliable => written
               /\ Set(m_active, send(pools[m_active], written))
          /\ UNCHANGED fault
  /\ UNCHANGED <<m_active, m_index, miner, reading, closing, stopped, strays>>

\* Mutant: m_index = -1.
StopMutant ==
  /\ Free
  /\ stopped' = TRUE
  /\ pools' = [i \in Pools |-> disconnect(pools[i])]
  /\ m_index' = -1 /\ m_active' = -1
  /\ miner' = [miner EXCEPT !.paused = TRUE]
  /\ strays' = {i \in Pools : pools[i].lookup}
  /\ UNCHANGED <<reading, closing, fault>>

\* Network::stop(), FailoverStrategy::stop(): the process is about to exit.
Stop ==
  /\ Free
  /\ stopped' = TRUE
  /\ pools' = [i \in Pools |-> disconnect(pools[i])]
  /\ m_index' = 0 /\ m_active' = -1
  /\ miner' = [miner EXCEPT !.paused = TRUE]
  /\ strays' = {i \in Pools : pools[i].lookup}
  /\ UNCHANGED <<reading, closing, fault>>

Halted == (stopped \/ fault # "none") /\ UNCHANGED vars

-----------------------------------------------------------------------------
ClientStep(i) ==
  \/ OnResolved(i) \/ OnResolveError(i)
  \/ OnConnect(i) \/ OnConnectError(i)
  \/ OnReadError(i) \/ \E line \in Line : OnReadLine(i, line)
  \/ OnClose(i) \/ Tick(i) \/ Ping(i)

Next ==
  \/ \E i \in Pools : ClientStep(i)
  \/ OnReadEnd \/ Submit \/ Stop \/ Halted

\* A lookup or a connection attempt ends one way or the other, a closed handle
\* is reported, time passes, and a reliable pool answers a login.  Each poll of
\* the event loop serves every handle that is ready, so none is starved by the
\* callbacks of the others: strong fairness.
Fairness ==
  /\ WF_vars(OnReadEnd)
  /\ \A i \in Pools :
       /\ SF_vars(OnResolved(i) \/ OnResolveError(i))
       /\ SF_vars(OnConnect(i) \/ OnConnectError(i))
       /\ SF_vars(Tick(i))
       /\ WF_vars(OnClose(i))
  /\ \A i \in Reliable :
       SF_vars(m_active # i /\ \E line \in Line : line.type = "login" /\ OnReadLine(i, line))

Spec == Init /\ [][Next]_vars /\ Fairness

-----------------------------------------------------------------------------
(* Properties.                                                             *)

\* The miner works on the latest job of the active pool, and is paused exactly
\* while no pool is active: no callback order leaves it on the job of a pool
\* that was given up, or idle beside a usable pool.
MinerFollowsActivePool ==
  IF m_active = -1
  THEN miner.paused
  ELSE miner = [job |-> <<m_active, pools[m_active].job>>, paused |-> FALSE]

\* The active pool has a connection, or one whose close callback is still to
\* come and will be counted as a failure: a dead pool cannot stay active.
ActivePoolIsConnected ==
  m_active # -1 /\ fault # "client" =>
    /\ pools[m_active].sock \in {"open", "closing"}
    /\ pools[m_active].failures # -1
    /\ m_index = m_active

\* Something will call back for client i.
Trying(i) ==
  pools[i].lookup \/ pools[i].sock \in {"opening", "open", "closing"} \/ pools[i].expire

\* The first pool and the pool at m_index are never forgotten: neither ends up
\* disconnected without a retry (unless libuv refuses its name or its address
\* at once, which resolve() and connect() do not handle).
NeverStranded ==
  ~stopped /\ fault # "client" =>
    \A i \in {0, m_index} : Trying(i) \/ i \in Unresolvable \cup Unroutable

\* A lookup request in flight is reused, or a live socket deleted, only after
\* disconnect() found a client in a lookup, which it does not cancel, or
\* onClose() moved on to a client whose socket is not gone yet.
UndefinedOnlyWithStrays == fault = "client" => strays # {}

\* Backups after the one in use stay at rest: they were never started, or they
\* have been disconnected and will not retry, except for the stray ones.
LaterBackupsRest ==
  \A k \in Pools \ strays :
    k > m_index /\ fault # "client" =>
      /\ ~pools[k].lookup /\ ~pools[k].expire
      /\ pools[k].sock \in {"none", "closing"}
      /\ pools[k].state = "unconnected" \/ pools[k].failures = -1

Selector == INSTANCE PoolSelector WITH active <- m_active

\* Seen from the miner, all of the above is a selector of pools: every callback
\* in any order chooses a pool by preference, renews the work of the chosen one
\* with a job it does not have yet, pauses when that pool is lost, or is
\* invisible.
ImplementsPoolSelector == Selector!SelectorSpec

\* With a reliable pool in the list and pools that do not chat, the miner gets
\* an active pool whenever it has none.
SomePoolBecomesActive ==
  (m_active = -1) ~> (m_active # -1 \/ stopped \/ fault # "none")
=============================================================================
