--------------------------- MODULE FailoverProofs ---------------------------
(***************************************************************************)
(* Proofs about FailoverStrategy, for any number of pools and retries.     *)
(***************************************************************************)
EXTENDS FailoverStrategy, ClientProofs, TLAPS

Defined == fault # "client"

\* What holds of the record c of every client k, stray or not.
ClientOK(k, c) ==
  /\ c.state = "unconnected" => c.sock = "none" /\ ~c.lookup /\ ~c.expire
  /\ c.state = "closing" => c.sock = "closing"
  /\ c.sock = "refused" => k \in Unroutable
  /\ c.failures # -1 =>
       \/ c.lookup \/ c.sock # "none" \/ c.expire
       \/ k \in Unresolvable \/ c.state = "unconnected"

\* A client that is not a stray runs one attempt at a time.
Sane(c) ==
  /\ c.lookup => c.state = "lookup" /\ c.sock = "none" /\ ~c.expire
  /\ c.state = "connecting" /\ c.expire => c.sock = "none"

\* A backup after the one in use, unless it is a stray.
Resting(c) ==
  /\ ~c.lookup /\ ~c.expire
  /\ c.sock \in {"none", "closing"}
  /\ c.state = "unconnected" \/ c.failures = -1

ClientsInv ==
  Defined =>
    \A k \in Pools :
      /\ ClientOK(k, pools[k])
      /\ k \notin strays => Sane(pools[k]) /\ (k > m_index => Resting(pools[k]))

\* Only a connection with a socket can deliver lines.
ReadInv ==
  reading # -1 => fault = "none" /\ pools[reading].sock \in {"open", "closing"}

\* The pool in use and the first pool are never given up.
IndexInv ==
  /\ m_active # -1 => m_index = m_active
  /\ Defined /\ ~stopped =>
       \A i \in {0, m_index} : pools[i].failures # -1 /\ pools[i].state # "unconnected"

FailoverInv ==
  /\ TypeOK /\ ClientsInv /\ ReadInv /\ IndexInv
  /\ ActivePoolIsConnected /\ MinerFollowsActivePool /\ UndefinedOnlyWithStrays

-----------------------------------------------------------------------------
(* The invariant holds initially and is kept by every step.                *)

\* The constructor and the first connect() establish the invariant.
LEMMA FailoverInit == Init => FailoverInv
  <1> SUFFICES ASSUME Init PROVE FailoverInv
    OBVIOUS
  <1> DEFINE first == connect(NewClient, Started(0))
  <1>1. NewClient \in Client /\ Started(0) \in BOOLEAN /\ 0 \in Pools
    <2>1. 0 \in -1 .. Retries
      BY ClientAssumption
    <2> QED
      BY <2>1, FailoverAssumption DEF NewClient, Client, JobOrNone, Started, Pools
  <1>2. /\ NewClient.state = "unconnected" /\ NewClient.sock = "none"
        /\ ~NewClient.lookup /\ ~NewClient.expire
    BY DEF NewClient
  <1>3. /\ first \in Client /\ first.state = "lookup" /\ first.lookup = Started(0)
        /\ ~first.expire /\ first.failures # -1 /\ first.sock = "none"
    BY <1>1, <1>2, ConnectFacts
  <1> HIDE DEF first
  <1>4. /\ pools[0] = first /\ m_index = 0 /\ m_active = -1
        /\ \A k \in Pools : k # 0 => pools[k] = NewClient
        /\ strays = {} /\ fault = "none" /\ reading = -1
    BY <1>1 DEF Init, first
  <1>5. TypeOK
    <2>1. pools \in [Pools -> Client]
      BY <1>1, <1>3 DEF Init, first
    <2> QED
      BY <2>1, <1>1 DEF Init, TypeOK
  <1>6. ClientsInv
    <2>1. ClientOK(0, first) /\ Sane(first)
      BY <1>3 DEF ClientOK, Sane, Started
    <2>2. \A k \in Pools : ClientOK(k, NewClient) /\ Sane(NewClient) /\ Resting(NewClient)
      BY <1>2 DEF ClientOK, Sane, Resting
    <2> QED
      BY <1>1, <1>4, <2>1, <2>2 DEF ClientsInv
  <1>7. MinerFollowsActivePool
    BY DEF Init, MinerFollowsActivePool
  <1> QED
    BY <1>3, <1>4, <1>5, <1>6, <1>7
    DEF FailoverInv, ReadInv, IndexInv, ActivePoolIsConnected, UndefinedOnlyWithStrays

\* A step that changes the record of one client only.
LEMMA OneClient ==
  ASSUME FailoverInv, TypeOK', NEW i \in Pools, NEW c \in Client,
         Set(i, c), fault = "none",
         UNCHANGED <<m_active, m_index, stopped, strays>>,
         Defined' => /\ ClientOK(i, c)
                     /\ i \notin strays => Sane(c) /\ (i > m_index => Resting(c)),
         Defined' /\ pools[i].failures # -1 => c.failures # -1,
         Defined' /\ pools[i].state # "unconnected" => c.state # "unconnected",
         Defined' /\ pools[i].sock \in {"open", "closing"} => c.sock \in {"open", "closing"},
         reading' # -1 => reading' = i /\ fault' = "none" /\ c.sock \in {"open", "closing"},
         ~Defined' => strays # {},
         MinerFollowsActivePool'
  PROVE  FailoverInv'
  <1> USE DEF FailoverInv
  <1>1. /\ pools' \in [Pools -> Client] /\ pools \in [Pools -> Client]
        /\ pools'[i] = c /\ \A k \in Pools : k # i => pools'[k] = pools[k]
        /\ m_index \in Pools /\ 0 \in Pools /\ m_active \in Pools \cup {-1}
    BY FailoverAssumption DEF TypeOK, Set, Pools
  <1>2. Defined
    BY DEF Defined
  <1>3. ClientsInv'
    BY <1>1, <1>2 DEF ClientsInv
  <1>4. ReadInv'
    BY <1>1 DEF ReadInv
  <1>5. IndexInv'
    BY <1>1, <1>2 DEF IndexInv
  <1>6. ActivePoolIsConnected'
    BY <1>1, <1>2 DEF ActivePoolIsConnected, Defined
  <1>7. UndefinedOnlyWithStrays'
    BY DEF UndefinedOnlyWithStrays, Defined
  <1> QED
    BY <1>3, <1>4, <1>5, <1>6, <1>7


\* What a step lemma may use about client i.
About(i) ==
  /\ pools[i] \in Client /\ Started(i) \in BOOLEAN /\ ClientOK(i, pools[i])
  /\ i \notin strays => Sane(pools[i]) /\ (i > m_index => Resting(pools[i]))

\* The invariant, as the callbacks of one client need it.
LEMMA AboutClient ==
  ASSUME FailoverInv, fault = "none", NEW i \in Pools
  PROVE  About(i)
  BY DEF FailoverInv, TypeOK, ClientsInv, Defined, Started, About

\* The invariant for the new record c of client i.
Good(i, c) ==
  /\ ClientOK(i, c)
  /\ i \notin strays => Sane(c) /\ (i > m_index => Resting(c))
  /\ pools[i].failures # -1 => c.failures # -1
  /\ c.state # "unconnected"
  /\ pools[i].sock \in {"open", "closing"} => c.sock \in {"open", "closing"}

\* A callback that changes one record, but not the job in it.
LEMMA OneCallback ==
  ASSUME FailoverInv, NEW i \in Pools, NEW c \in Client, Set(i, c),
         fault = "none", reading' = -1, c.job = pools[i].job,
         UNCHANGED <<m_active, m_index, miner, closing, stopped, strays>>,
         fault' \in {"none", "client"}, fault' = "client" => strays # {},
         fault' = "none" => Good(i, c)
  PROVE  FailoverInv'
  <1>1. TypeOK'
    BY DEF FailoverInv, TypeOK, Set
  <1>2. MinerFollowsActivePool'
    BY DEF FailoverInv, MinerFollowsActivePool, TypeOK, Set
  <1> QED
    BY <1>1, <1>2, OneClient DEF Good, Defined

\* onResolved() with an address keeps the invariant.
LEMMA OnResolvedStep ==
  ASSUME FailoverInv, NEW i \in Pools, OnResolved(i)
  PROVE  FailoverInv'
  <1>1. /\ fault = "none" /\ pools[i].lookup /\ reading' = -1
        /\ fault' = IF OpenIsDefined(pools[i]) THEN fault ELSE "client"
        /\ UNCHANGED <<m_active, m_index, miner, closing, stopped, strays>>
    BY DEF OnResolved, Free
  <1>2. PICK accepted \in BOOLEAN :
          (i \notin Unroutable => accepted) /\ Set(i, openSocket(pools[i], accepted))
    BY DEF OnResolved
  <1> DEFINE c == openSocket(pools[i], accepted)
  <1>3. About(i)
    BY <1>1, AboutClient
  <1>4. /\ c \in Client /\ c.state = "connecting" /\ c.sock \in {"opening", "refused"}
        /\ c.sock = "refused" => i \in Unroutable
        /\ ~c.lookup /\ c.failures = pools[i].failures /\ c.expire = pools[i].expire
        /\ c.job = pools[i].job
    BY <1>2, <1>3, OpenFacts DEF About
  <1> HIDE DEF c
  <1>5. fault' = "client" => i \in strays
    BY <1>1, <1>3 DEF OpenIsDefined, About, Sane
  <1>6. fault' = "none" => Good(i, c)
    BY <1>1, <1>3, <1>4 DEF OpenIsDefined, About, Good, ClientOK, Sane, Resting
  <1> QED
    BY <1>1, <1>2, <1>4, <1>5, <1>6, OneCallback DEF c

\* onConnect() with success keeps the invariant.
LEMMA OnConnectStep ==
  ASSUME FailoverInv, NEW i \in Pools, OnConnect(i)
  PROVE  FailoverInv'
  <1>1. /\ fault = "none" /\ pools[i].sock = "opening" /\ reading' = -1
        /\ UNCHANGED <<m_active, m_index, miner, closing, stopped, strays, fault>>
    BY DEF OnConnect, Free
  <1>2. PICK fits \in BOOLEAN, written \in BOOLEAN : Set(i, login(pools[i], fits, written))
    BY DEF OnConnect
  <1> DEFINE c == login(pools[i], fits, written)
  <1>3. About(i)
    BY <1>1, AboutClient
  <1>4. /\ c \in Client /\ c.lookup = pools[i].lookup /\ c.failures = pools[i].failures
        /\ c.job = pools[i].job
        /\ \/ c.state = "connected" /\ c.sock = "open"
           \/ c.state = "closing" /\ c.sock = "closing"
    <2>1. pools[i] \in Client
      BY <1>3 DEF About
    <2> QED
      BY <2>1, LoginFacts
  <1> HIDE DEF c
  <1>5. Good(i, c)
    BY <1>1, <1>3, <1>4 DEF About, Good, ClientOK, Sane, Resting
  <1> QED
    BY <1>1, <1>2, <1>4, <1>5, OneCallback DEF c

\* OnConnectError and OnReadError close a socket that is in use.
LEMMA CloseStep ==
  ASSUME FailoverInv, NEW i \in Pools, OnConnectError(i) \/ OnReadError(i)
  PROVE  FailoverInv'
  <1> DEFINE c == close(pools[i])
  <1>1. /\ fault = "none" /\ pools[i].sock \in {"opening", "open"} /\ reading' = -1 /\ Set(i, c)
        /\ UNCHANGED <<m_active, m_index, miner, closing, stopped, strays, fault>>
    BY DEF OnConnectError, OnReadError, Free
  <1>2. About(i)
    BY <1>1, AboutClient
  <1>3. /\ c \in Client /\ c.lookup = pools[i].lookup /\ c.failures = pools[i].failures
        /\ c.job = pools[i].job /\ c.state = "closing" /\ c.sock = "closing"
    BY <1>1, <1>2, CloseFacts DEF About, ClientOK
  <1> HIDE DEF c
  <1>4. Good(i, c)
    BY <1>1, <1>2, <1>3 DEF About, Good, ClientOK, Sane, Resting
  <1> QED
    BY <1>1, <1>3, <1>4, OneCallback

\* Ping and Submit write to a socket.
LEMMA WriteStep ==
  ASSUME FailoverInv, NEW i \in Pools, NEW written \in BOOLEAN,
         Set(i, send(pools[i], written)),
         pools[i].sock = "open" \/ (i = m_index /\ pools[i].sock = "closing"),
         fault = "none", reading' = -1,
         UNCHANGED <<m_active, m_index, miner, closing, stopped, strays, fault>>
  PROVE  FailoverInv'
  <1> DEFINE c == send(pools[i], written)
  <1>1. About(i)
    BY AboutClient
  <1>2. /\ c \in Client /\ c.lookup = pools[i].lookup /\ c.failures = pools[i].failures
        /\ c.job = pools[i].job
        /\ \/ c = pools[i]
           \/ pools[i].state = "connected" /\ c.state = "connected" /\ c.sock = pools[i].sock
           \/ pools[i].state = "connected" /\ c.state = "closing" /\ c.sock = "closing"
    BY <1>1, SendFacts DEF About
  <1>3. m_index \in Pools
    BY DEF FailoverInv, TypeOK
  <1> HIDE DEF c
  <1>4. Good(i, c)
    BY <1>1, <1>2, <1>3 DEF About, Good, ClientOK, Sane, Resting, Pools
  <1> QED
    BY <1>2, <1>4, OneCallback DEF c

\* FailoverStrategy::submit() keeps the invariant, even without an active pool.
LEMMA SubmitStep ==
  ASSUME FailoverInv, Submit
  PROVE  FailoverInv'
  <1>1. /\ fault = "none" /\ reading = -1 /\ reading' = -1
        /\ UNCHANGED <<m_active, m_index, miner, closing, stopped, strays>>
    BY DEF Submit, Free
  <1>2. CASE m_active = -1
    <2>1. UNCHANGED pools /\ fault' = "submit"
      BY <1>2 DEF Submit
    <2> QED
      BY <1>1, <1>2, <2>1
      DEF FailoverInv, TypeOK, ClientsInv, Defined, ReadInv, IndexInv, MinerFollowsActivePool,
          ActivePoolIsConnected, UndefinedOnlyWithStrays
  <1>3. CASE m_active # -1
    <2>1. /\ m_active \in Pools /\ m_active = m_index
          /\ pools[m_active].sock \in {"open", "closing"}
      BY <1>1, <1>3 DEF FailoverInv, TypeOK, ActivePoolIsConnected
    <2>2. PICK written \in BOOLEAN : Set(m_active, send(pools[m_active], written))
      BY <1>3 DEF Submit
    <2>3. UNCHANGED fault
      BY <1>3 DEF Submit
    <2> QED
      BY <1>1, <2>1, <2>2, <2>3, WriteStep
  <1> QED
    BY <1>2, <1>3

\* Client::tick() keeps the invariant.
LEMMA TickStep ==
  ASSUME FailoverInv, NEW i \in Pools, Tick(i)
  PROVE  FailoverInv'
  <1> DEFINE c == expired(pools[i], Started(i))
  <1>1. /\ fault = "none" /\ pools[i].expire /\ reading' = -1 /\ Set(i, c)
        /\ fault' = IF pools[i].state = "connecting" /\ ~ConnectIsDefined(pools[i])
                    THEN "client" ELSE fault
        /\ UNCHANGED <<m_active, m_index, miner, closing, stopped, strays>>
    BY DEF Tick, Free
  <1>2. About(i)
    BY <1>1, AboutClient
  <1>3. c \in Client /\ c.job = pools[i].job
    BY <1>2, ExpiredFacts DEF About
  <1>4. fault' = "client" => i \in strays
    BY <1>1, <1>2 DEF ConnectIsDefined, About, Sane
  <1>5. ASSUME fault' = "none" PROVE Good(i, c)
    <2>1. CASE pools[i].state = "connecting"
      <3>1. /\ c.state = "lookup" /\ c.lookup = Started(i) /\ ~c.expire
            /\ c.failures # -1 /\ c.sock = pools[i].sock
        BY <1>2, <2>1, ExpiredFacts, ConnectFacts DEF About
      <3> HIDE DEF c
      <3> QED
        BY <1>1, <1>2, <2>1, <3>1 DEF About, Good, ClientOK, Sane, Resting, Started
    <2>2. CASE pools[i].state = "connected"
      <3>1. /\ c.lookup = pools[i].lookup /\ c.expire /\ c.failures = pools[i].failures
            /\ \/ c.state = "connected" /\ c.sock = pools[i].sock
               \/ c.state = "closing" /\ c.sock = "closing"
            /\ pools[i].sock = "none" => c.sock = "none"
        BY <1>1, <1>2, <2>2, ExpiredFacts, CloseFacts DEF About
      <3> HIDE DEF c
      <3> QED
        BY <1>1, <1>2, <2>2, <3>1 DEF About, Good, ClientOK, Sane, Resting
    <2>3. CASE pools[i].state \notin {"connected", "connecting"}
      <3>1. c = pools[i]
        BY <1>2, <2>3, ExpiredFacts DEF About
      <3> HIDE DEF c
      <3> QED
        BY <1>1, <1>2, <2>3, <3>1 DEF About, Good, ClientOK, Sane, Resting
    <2> QED
      BY <2>1, <2>2, <2>3
  <1> HIDE DEF c
  <1> QED
    BY <1>1, <1>3, <1>4, <1>5, OneCallback

\* FailoverStrategy::stop() keeps the invariant.
LEMMA StopStep ==
  ASSUME FailoverInv, Stop
  PROVE  FailoverInv'
  <1>1. /\ fault = "none" /\ reading = -1 /\ UNCHANGED <<reading, closing, fault>>
        /\ stopped' = TRUE /\ m_index' = 0 /\ m_active' = -1
        /\ miner' = [miner EXCEPT !.paused = TRUE]
        /\ strays' = {i \in Pools : pools[i].lookup}
    BY DEF Stop, Free
  <1>2. ASSUME NEW k \in Pools
        PROVE  /\ pools'[k] = disconnect(pools[k]) /\ disconnect(pools[k]) \in Client
               /\ ClientOK(k, pools'[k])
               /\ k \notin strays' => Sane(pools'[k]) /\ Resting(pools'[k])
    <2> DEFINE c == disconnect(pools[k])
    <2>1. About(k)
      BY <1>1, AboutClient
    <2>2. pools'[k] = c
      BY DEF Stop
    <2>3. /\ c \in Client /\ c.failures = -1 /\ ~c.expire /\ c.lookup = pools[k].lookup
          /\ \/ /\ pools[k].state \in {"unconnected", "closing"} \/ pools[k].sock = "none"
                /\ c.state = pools[k].state /\ c.sock = pools[k].sock
             \/ c.state = "closing" /\ c.sock = "closing"
      BY <2>1, DisconnectFacts DEF About
    <2> HIDE DEF c
    <2>4. ClientOK(k, c)
      BY <2>1, <2>3 DEF About, ClientOK
    <2>5. k \notin strays' => Sane(c) /\ Resting(c)
      BY <1>1, <2>1, <2>3 DEF About, ClientOK, Sane, Resting
    <2> QED
      BY <2>2, <2>3, <2>4, <2>5 DEF c
  <1>3. TypeOK'
    <2>1. pools' \in [Pools -> Client]
      BY <1>2 DEF Stop
    <2>2. 0 \in Pools
      BY FailoverAssumption DEF Pools
    <2> QED
      BY <1>1, <2>1, <2>2 DEF FailoverInv, TypeOK
  <1>4. ClientsInv'
    BY <1>2 DEF ClientsInv
  <1>5. MinerFollowsActivePool'
    BY <1>1 DEF MinerFollowsActivePool, FailoverInv, TypeOK
  <1> QED
    BY <1>1, <1>3, <1>4, <1>5
    DEF FailoverInv, ReadInv, IndexInv, ActivePoolIsConnected, UndefinedOnlyWithStrays, Defined

\* OnClose and OnResolveError end in reconnect() and in the listener's onClose().
LEMMA ReconnectStep ==
  ASSUME FailoverInv, NEW i \in Pools, NEW c \in Client, Reconnect(i, c),
         fault = "none", reading = -1, reading' = -1, closing' \in BOOLEAN, UNCHANGED stopped,
         c.failures = pools[i].failures, c.expire = pools[i].expire, c.job = pools[i].job,
         pools[i].state # "unconnected",
         c.sock \in {"none", pools[i].sock},
         i \notin strays => ~c.lookup /\ c.sock = "none"
  PROVE  FailoverInv'
  <1> DEFINE moved == c.failures # -1 /\ MovesOn(i, LostFailures(c))
             next  == IF moved THEN {i + 1} ELSE {}
  <1>1. /\ i \in Int /\ m_index \in Pools /\ 0 \in Pools /\ m_active \in Pools \cup {-1}
        /\ \A k \in Pools : k \in Int /\ pools[k] \in Client
    BY FailoverAssumption DEF FailoverInv, TypeOK, Pools
  <1>2. /\ m_active' = IF c.failures # -1 /\ m_active = i THEN -1 ELSE m_active
        /\ miner' = IF c.failures # -1 /\ m_active = i
                    THEN [miner EXCEPT !.paused = TRUE] ELSE miner
        /\ m_index' = IF moved THEN i + 1 ELSE m_index
        /\ fault' = IF \A k \in next : ConnectIsDefined(pools[k]) THEN fault ELSE "client"
        /\ strays' = {k \in strays : k \notin next \/ pools[k].lookup}
                        \cup {k \in next : pools[k].sock # "none"}
    BY DEF Reconnect
  <1>3. moved => m_index = i /\ i + 1 \in Pools
    BY <1>1, FailoverAssumption DEF MovesOn, Pools
  <1>4. /\ pools'[i] = reconnect(c)
        /\ \A k \in Pools : k # i /\ k \notin next => pools'[k] = pools[k]
        /\ \A k \in next : k \in Pools /\ k # i /\ pools'[k] = connect(pools[k], Started(k))
    BY <1>1, <1>3 DEF Reconnect
  <1>5. /\ reconnect(c) \in Client /\ reconnect(c).state = "connecting"
        /\ reconnect(c).sock = c.sock /\ reconnect(c).lookup = c.lookup
        /\ reconnect(c).job = pools[i].job
        /\ c.failures = -1 =>
             reconnect(c).failures = -1 /\ reconnect(c).expire = pools[i].expire
        /\ c.failures # -1 => reconnect(c).failures # -1 /\ reconnect(c).expire
    BY ReconnectFacts
  <1>6. ASSUME NEW k \in next
        PROVE  /\ pools'[k] \in Client /\ pools'[k].state = "lookup"
               /\ pools'[k].lookup = Started(k) /\ ~pools'[k].expire
               /\ pools'[k].failures # -1 /\ pools'[k].sock = pools[k].sock
               /\ pools'[k].job = pools[k].job
    <2>1. Started(k) \in BOOLEAN
      BY DEF Started
    <2> QED
      BY <1>1, <1>4, <2>1, ConnectFacts
  <1>7. About(i) /\ \A k \in Pools : About(k)
    BY AboutClient
  <1>8. fault' = "client" => strays' # {}
    <2> SUFFICES ASSUME fault' = "client" PROVE strays' # {}
      OBVIOUS
    <2>1. PICK k \in next : pools[k].lookup
      BY <1>2 DEF ConnectIsDefined
    <2>2. k \in Pools /\ k > m_index
      BY <1>1, <1>3, <1>4
    <2>3. k \in strays
      BY <1>7, <2>1, <2>2 DEF About, Resting
    <2> QED
      BY <1>2, <2>1, <2>3
  <1> HIDE DEF next
  <1>9. \A k \in next : moved /\ k = i + 1
    BY DEF next
  <1> HIDE DEF moved
  <1>10. TypeOK'
    <2>1. \A k \in Pools : pools'[k] \in Client
      BY <1>1, <1>4, <1>5, <1>6
    <2>2. pools' \in [Pools -> Client]
      BY <2>1 DEF Reconnect
    <2>3. strays' \in SUBSET Pools
      BY <1>2, <1>4 DEF FailoverInv, TypeOK
    <2> QED
      BY <1>2, <1>3, <2>2, <2>3 DEF FailoverInv, TypeOK
  <1>11. MinerFollowsActivePool'
    <2>1. \A k \in Pools : pools'[k].job = pools[k].job
      BY <1>4, <1>5, <1>6
    <2> QED
      BY <1>1, <1>2, <2>1 DEF MinerFollowsActivePool, FailoverInv, TypeOK
  <1>12. ClientsInv'
    <2> SUFFICES ASSUME NEW k \in Pools
                 PROVE  /\ ClientOK(k, pools'[k])
                        /\ k \notin strays' =>
                             Sane(pools'[k]) /\ (k > m_index' => Resting(pools'[k]))
      BY DEF ClientsInv
    <2>1. CASE k = i
      <3>1. ClientOK(k, pools'[k])
        BY <1>4, <1>5, <1>7, <2>1 DEF About, ClientOK
      <3>2. k \notin strays' => k \notin strays
        BY <1>2, <1>4, <2>1
      <3>3. k \notin strays' => Sane(pools'[k])
        BY <1>4, <1>5, <2>1, <3>2 DEF Sane
      <3>4. k > m_index' => k > m_index
        BY <1>1, <1>2, <1>3, <2>1
      <3>5. k \notin strays' /\ k > m_index' => Resting(pools'[k])
        BY <1>4, <1>5, <1>7, <2>1, <3>2, <3>4 DEF About, Resting
      <3> QED
        BY <3>1, <3>3, <3>5
    <2>2. CASE k \in next
      <3>1. ClientOK(k, pools'[k])
        BY <1>6, <1>7, <2>2 DEF About, ClientOK, Started
      <3>2. k \notin strays' => Sane(pools'[k])
        BY <1>2, <1>6, <2>2 DEF Sane
      <3>3. ~(k > m_index')
        BY <1>1, <1>2, <1>9, <2>2
      <3> QED
        BY <3>1, <3>2, <3>3
    <2>3. CASE k # i /\ k \notin next
      <3>1. pools'[k] = pools[k] /\ (k \notin strays' => k \notin strays)
        BY <1>2, <1>4, <2>3
      <3>2. k > m_index' => k > m_index
        BY <1>1, <1>2, <1>3
      <3> QED
        BY <1>7, <3>1, <3>2 DEF About
    <2> QED
      BY <2>1, <2>2, <2>3
  <1>13. IndexInv'
    <2>1. m_active' # -1 => m_index' = m_active'
      BY <1>1, <1>2, <1>3 DEF FailoverInv, IndexInv, moved
    <2>2. ASSUME ~stopped, NEW k \in Pools, k = 0 \/ k = m_index'
          PROVE  pools'[k].failures # -1 /\ pools'[k].state # "unconnected"
      <3>1. CASE k \in next
        BY <1>6, <3>1
      <3>2. CASE k \notin next
        <4>1. k = 0 \/ k = m_index
          BY <1>2, <2>2, <3>2 DEF next
        <4>2. pools[k].failures # -1 /\ pools[k].state # "unconnected"
          BY <2>2, <4>1 DEF FailoverInv, IndexInv, Defined
        <4> QED
          BY <1>4, <1>5, <3>2, <4>2
      <3> QED
        BY <3>1, <3>2
    <2>3. m_index' \in Pools
      BY <1>10 DEF TypeOK
    <2> QED
      BY <1>1, <2>1, <2>2, <2>3 DEF IndexInv
  <1>14. ActivePoolIsConnected'
    <2> SUFFICES ASSUME m_active' # -1
                 PROVE  /\ pools'[m_active'].sock \in {"open", "closing"}
                        /\ pools'[m_active'].failures # -1
                        /\ m_index' = m_active'
      BY DEF ActivePoolIsConnected
    <2>1. /\ m_active' = m_active /\ m_active \in Pools /\ m_index = m_active
          /\ pools[m_active].sock \in {"open", "closing"} /\ pools[m_active].failures # -1
      BY <1>1, <1>2 DEF FailoverInv, ActivePoolIsConnected
    <2>2. m_active # i
      BY <1>1, <1>2, <2>1
    <2>3. m_active \notin next
      BY <1>3, <1>9, <2>1, <2>2
    <2> QED
      BY <1>4, <1>13, <2>1, <2>2, <2>3 DEF IndexInv
  <1> QED
    BY <1>8, <1>10, <1>11, <1>12, <1>13, <1>14
    DEF FailoverInv, ReadInv, UndefinedOnlyWithStrays

\* onResolved() with an error keeps the invariant.
LEMMA OnResolveErrorStep ==
  ASSUME FailoverInv, NEW i \in Pools, OnResolveError(i)
  PROVE  FailoverInv'
  <1> DEFINE c == lookupFailed(pools[i])
  <1>1. /\ fault = "none" /\ reading = -1 /\ pools[i].lookup /\ Reconnect(i, c)
        /\ UNCHANGED <<reading, closing, stopped>> /\ closing \in BOOLEAN
    BY DEF OnResolveError, Free, FailoverInv, TypeOK
  <1>2. About(i)
    BY <1>1, AboutClient
  <1>3. /\ c \in Client /\ ~c.lookup /\ c.sock = pools[i].sock
        /\ c.expire = pools[i].expire /\ c.failures = pools[i].failures
        /\ c.job = pools[i].job
    BY <1>2, LostFacts DEF About
  <1> HIDE DEF c
  <1>4. i \notin strays => c.sock = "none"
    BY <1>1, <1>2, <1>3 DEF About, Sane
  <1>5. pools[i].state # "unconnected"
    BY <1>1, <1>2 DEF About, ClientOK
  <1> QED
    BY <1>1, <1>3, <1>4, <1>5, ReconnectStep

\* Client::onClose() keeps the invariant.
LEMMA OnCloseStep ==
  ASSUME FailoverInv, NEW i \in Pools, OnClose(i)
  PROVE  FailoverInv'
  <1> DEFINE c == socketClosed(pools[i])
  <1>1. /\ fault = "none" /\ reading = -1 /\ pools[i].sock = "closing" /\ Reconnect(i, c)
        /\ UNCHANGED <<reading, stopped>> /\ closing' \in BOOLEAN
    BY DEF OnClose
  <1>2. About(i)
    BY <1>1, AboutClient
  <1>3. /\ c \in Client /\ c.sock = "none" /\ c.lookup = pools[i].lookup
        /\ c.expire = pools[i].expire /\ c.failures = pools[i].failures
        /\ c.job = pools[i].job
    BY <1>2, LostFacts DEF About
  <1> HIDE DEF c
  <1>4. i \notin strays => ~c.lookup
    BY <1>1, <1>2, <1>3 DEF About, Sane
  <1>5. pools[i].state # "unconnected"
    BY <1>1, <1>2 DEF About, ClientOK
  <1> QED
    BY <1>1, <1>3, <1>4, <1>5, ReconnectStep

\* A line that is not the answer to a login with a new job.
LEMMA PlainLineStep ==
  ASSUME FailoverInv, NEW i \in Pools, NEW line \in Line, OnReadLine(i, line),
         ~(IsNews(pools[i], line) /\ line.type = "login")
  PROVE  FailoverInv'
  <1> DEFINE c == parse(pools[i], line)
  <1>0. i # -1
    BY FailoverAssumption DEF Pools
  <1>1. fault = "none" /\ pools[i].sock \in {"open", "closing"}
    BY <1>0 DEF OnReadLine, Free, FailoverInv, ReadInv
  <1>2. /\ reading' = i /\ Set(i, c)
        /\ UNCHANGED <<m_active, m_index, strays, closing, stopped, fault>>
        /\ miner' = IF IsNews(pools[i], line) /\ m_active = i
                    THEN [job |-> <<i, line.job>>, paused |-> FALSE] ELSE miner
    BY DEF OnReadLine, OnJobReceived
  <1>3. About(i)
    BY <1>1, AboutClient
  <1>4. /\ c \in Client /\ c.lookup = pools[i].lookup /\ ~c.expire
        /\ c.job = IF IsNews(pools[i], line) THEN line.job ELSE pools[i].job
        /\ c.failures = pools[i].failures
        /\ \/ c.state = pools[i].state /\ c.sock = pools[i].sock
           \/ c.state = "closing" /\ c.sock = "closing"
    BY <1>3, ParseFacts DEF About
  <1> HIDE DEF c
  <1>5. line.job \in JobIds
    BY DEF Line
  <1>6. Good(i, c)
    BY <1>1, <1>3, <1>4 DEF About, Good, ClientOK, Sane, Resting
  <1>7. TypeOK'
    BY <1>2, <1>4, <1>5 DEF FailoverInv, TypeOK, Set, PoolJob
  <1>8. MinerFollowsActivePool'
    <2>1. /\ pools'[i] = c /\ \A k \in Pools : k # i => pools'[k] = pools[k]
          /\ m_active \in Pools \cup {-1}
      BY <1>2 DEF FailoverInv, TypeOK, Set
    <2>2. CASE m_active = i
      BY <1>0, <1>2, <1>4, <2>1, <2>2 DEF FailoverInv, MinerFollowsActivePool
    <2>3. CASE m_active # i
      BY <1>2, <2>1, <2>3 DEF FailoverInv, MinerFollowsActivePool
    <2> QED
      BY <2>2, <2>3
  <1>9. c.sock \in {"open", "closing"}
    BY <1>1, <1>4
  <1> QED
    BY <1>1, <1>2, <1>4, <1>6, <1>7, <1>8, <1>9, OneClient DEF Good, Defined

\* The answer to a login: a pool is elected and the other backups disconnected.
LEMMA LoginLineStep ==
  ASSUME FailoverInv, NEW i \in Pools, NEW line \in Line, OnReadLine(i, line),
         IsNews(pools[i], line), line.type = "login"
  PROVE  FailoverInv'
  <1> DEFINE c == parse(pools[i], line)
             e == Elected(i)
             mine(k) == IF k = i THEN c ELSE pools[k]
  <1>0. i # -1
    BY FailoverAssumption DEF Pools
  <1>1. fault = "none" /\ pools[i].sock \in {"open", "closing"}
    BY <1>0 DEF OnReadLine, Free, FailoverInv, ReadInv
  <1>2. /\ reading' = i /\ UNCHANGED <<closing, stopped, fault>>
        /\ OnLoginSuccess(i, c) /\ OnJobReceived(i, e, line.job)
    BY DEF OnReadLine
  <1>3. /\ m_active' = e /\ m_index' = IF e # m_active THEN e ELSE m_index
        /\ strays' = (strays \ Dropped(i)) \cup {k \in Dropped(i) : pools[k].lookup}
        /\ miner' = IF e = i THEN [job |-> <<i, line.job>>, paused |-> FALSE] ELSE miner
        /\ pools' = [k \in Pools |-> IF k \in Dropped(i) THEN disconnect(mine(k)) ELSE mine(k)]
    BY <1>2 DEF OnLoginSuccess, OnJobReceived
  <1>4. /\ e \in Pools /\ (e = i \/ (e = m_active /\ i # 0))
        /\ Dropped(i) = (Pools \ {0}) \ {e}
        /\ 0 \in Pools /\ m_active \in Pools \cup {-1} /\ m_index \in Pools
        /\ m_active # -1 => m_index = m_active
        /\ -1 \notin Pools /\ \A k \in Pools : k \in Int
    <2>1. 0 \in Pools /\ -1 \notin Pools /\ \A k \in Pools : k \in Int
      BY FailoverAssumption DEF Pools
    <2>2. m_active \in Pools \cup {-1} /\ m_index \in Pools /\ (m_active # -1 => m_index = m_active)
      BY DEF FailoverInv, TypeOK, IndexInv
    <2>3. Dropped(i) = (Pools \ {0}) \ {e}
      BY DEF Dropped
    <2> QED
      BY <2>1, <2>2, <2>3 DEF Elected
  <1>5. m_index' = e
    BY <1>3, <1>4
  <1>6. \A k \in Pools : About(k)
    BY <1>1, AboutClient
  <1>7. /\ c \in Client /\ c.lookup = pools[i].lookup /\ ~c.expire /\ c.job = line.job
        /\ c.failures = 0
        /\ \/ c.state = pools[i].state /\ c.sock = pools[i].sock
           \/ c.state = "closing" /\ c.sock = "closing"
    BY <1>6, ParseFacts DEF About
  <1>8. line.job \in JobIds
    BY DEF Line
  <1> HIDE DEF c, e
  <1>9. \A k \in Pools : mine(k) \in Client /\ mine(k).lookup = pools[k].lookup
    BY <1>6, <1>7 DEF About
  <1>10. ASSUME NEW k \in Dropped(i)
         PROVE  /\ k \in Pools /\ pools'[k] = disconnect(mine(k))
                /\ pools'[k] \in Client /\ pools'[k].failures = -1 /\ ~pools'[k].expire
                /\ pools'[k].lookup = pools[k].lookup
                /\ \/ /\ mine(k).state \in {"unconnected", "closing"} \/ mine(k).sock = "none"
                      /\ pools'[k].state = mine(k).state /\ pools'[k].sock = mine(k).sock
                   \/ pools'[k].state = "closing" /\ pools'[k].sock = "closing"
    <2>1. k \in Pools /\ pools'[k] = disconnect(mine(k))
      BY <1>3, <1>4
    <2> HIDE DEF mine
    <2> QED
      BY <1>9, <2>1, DisconnectFacts
  <1>11. \A k \in Pools \ Dropped(i) : pools'[k] = mine(k)
    BY <1>3
  <1>12. \A k \in Pools : k \notin strays' =>
           IF k \in Dropped(i) THEN ~pools[k].lookup ELSE k \notin strays
    BY <1>3
  <1>13. TypeOK'
    <2>1. \A k \in Pools : pools'[k] \in Client
      BY <1>9, <1>10, <1>11
    <2>2. pools' \in [Pools -> Client]
      BY <1>3, <2>1
    <2>3. strays' \in SUBSET Pools
      BY <1>3, <1>4 DEF FailoverInv, TypeOK
    <2>4. miner' \in [job : PoolJob \cup {NoJob}, paused : BOOLEAN]
      BY <1>3, <1>8 DEF FailoverInv, TypeOK, PoolJob
    <2> QED
      BY <1>2, <1>3, <1>4, <1>5, <2>2, <2>3, <2>4 DEF FailoverInv, TypeOK
  <1>14. pools'[e] = mine(e) /\ pools'[0] = mine(0)
    BY <1>4, <1>11
  <1>15. e # i => e = m_active /\ e # -1
    BY <1>4 DEF Pools
  <1>16. MinerFollowsActivePool'
    <2>1. CASE e = i
      BY <1>0, <1>3, <1>7, <1>14, <2>1 DEF MinerFollowsActivePool
    <2>2. CASE e # i
      BY <1>3, <1>14, <1>15, <2>2 DEF MinerFollowsActivePool, FailoverInv
    <2> QED
      BY <2>1, <2>2
  <1>17. ClientsInv'
    <2> SUFFICES ASSUME NEW k \in Pools
                 PROVE  /\ ClientOK(k, pools'[k])
                        /\ k \notin strays' =>
                             Sane(pools'[k]) /\ (k > m_index' => Resting(pools'[k]))
      BY DEF ClientsInv
    <2>1. ClientOK(k, mine(k))
      <3>1. CASE k = i
        BY <1>1, <1>6, <1>7, <3>1 DEF About, ClientOK
      <3>2. CASE k # i
        BY <1>6, <3>2 DEF About
      <3> QED
        BY <3>1, <3>2
    <2>2. CASE k \in Dropped(i)
      <3> HIDE DEF mine
      <3>1. ClientOK(k, pools'[k])
        BY <1>9, <1>10, <2>1, <2>2 DEF ClientOK
      <3>2. k \notin strays' => Sane(pools'[k])
        BY <1>10, <1>12, <2>2 DEF Sane
      <3>3. k \notin strays' => Resting(pools'[k])
        <4>1. mine(k).state = "unconnected" => mine(k).sock = "none"
          BY <2>1 DEF ClientOK
        <4>2. mine(k).state = "closing" => mine(k).sock = "closing"
          BY <2>1 DEF ClientOK
        <4> QED
          BY <1>10, <1>12, <2>2, <4>1, <4>2 DEF Resting
      <3> QED
        BY <3>1, <3>2, <3>3
    <2>3. CASE k \notin Dropped(i)
      <3>1. ~(k > m_index')
        <4>1. k = 0 \/ k = e
          BY <1>4, <2>3
        <4> QED
          BY <1>4, <1>5, <4>1, FailoverAssumption DEF Pools
      <3>2. k \notin strays => Sane(mine(k))
        <4>1. CASE k = i
          BY <1>1, <1>6, <1>7, <4>1 DEF About, Sane
        <4>2. CASE k # i
          BY <1>6, <4>2 DEF About
        <4> QED
          BY <4>1, <4>2
      <3> HIDE DEF mine
      <3> QED
        BY <1>11, <1>12, <2>1, <2>3, <3>1, <3>2
    <2> QED
      BY <2>2, <2>3
  <1>18. pools[i].state # "unconnected"
    BY <1>1, <1>6 DEF About, ClientOK
  <1>19. IndexInv'
    <2>1. ASSUME ~stopped, NEW k \in {0, e}
          PROVE  mine(k).failures # -1 /\ mine(k).state # "unconnected"
      <3>1. CASE k = i
        BY <1>7, <1>18, <3>1
      <3>2. CASE k # i
        BY <1>1, <1>4, <1>15, <2>1, <3>2 DEF FailoverInv, IndexInv, Defined
      <3> QED
        BY <3>1, <3>2
    <2> HIDE DEF mine
    <2> QED
      BY <1>2, <1>3, <1>5, <1>14, <2>1 DEF IndexInv
  <1>20. ActivePoolIsConnected'
    <2>1. mine(e).sock \in {"open", "closing"} /\ mine(e).failures # -1
      <3>1. CASE e = i
        BY <1>1, <1>7, <3>1
      <3>2. CASE e # i
        BY <1>1, <1>15, <3>2 DEF FailoverInv, ActivePoolIsConnected
      <3> QED
        BY <3>1, <3>2
    <2> HIDE DEF mine
    <2> QED
      BY <1>3, <1>5, <1>14, <2>1 DEF ActivePoolIsConnected
  <1>21. ReadInv'
    <2>1. mine(i).sock \in {"open", "closing"} /\ mine(i).state # "unconnected"
      BY <1>1, <1>7, <1>18
    <2> HIDE DEF mine
    <2>2. pools'[i].sock \in {"open", "closing"}
      BY <1>10, <1>11, <2>1
    <2> QED
      BY <1>1, <1>2, <2>2 DEF ReadInv
  <1> QED
    BY <1>1, <1>2, <1>13, <1>16, <1>17, <1>19, <1>20, <1>21
    DEF FailoverInv, UndefinedOnlyWithStrays

\* Every step keeps the invariant.
LEMMA FailoverNext == FailoverInv /\ [Next]_vars => FailoverInv'
  <1> SUFFICES ASSUME FailoverInv, [Next]_vars PROVE FailoverInv'
    OBVIOUS
  <1>1. ASSUME NEW i \in Pools, OnResolved(i) PROVE FailoverInv'
    BY <1>1, OnResolvedStep
  <1>2. ASSUME NEW i \in Pools, OnResolveError(i) PROVE FailoverInv'
    BY <1>2, OnResolveErrorStep
  <1>3. ASSUME NEW i \in Pools, OnConnect(i) PROVE FailoverInv'
    BY <1>3, OnConnectStep
  <1>4. ASSUME NEW i \in Pools, OnConnectError(i) \/ OnReadError(i) PROVE FailoverInv'
    BY <1>4, CloseStep
  <1>5. ASSUME NEW i \in Pools, NEW line \in Line, OnReadLine(i, line) PROVE FailoverInv'
    BY <1>5, PlainLineStep, LoginLineStep
  <1>6. ASSUME NEW i \in Pools, OnClose(i) PROVE FailoverInv'
    BY <1>6, OnCloseStep
  <1>7. ASSUME NEW i \in Pools, Tick(i) PROVE FailoverInv'
    BY <1>7, TickStep
  <1>8. ASSUME NEW i \in Pools, Ping(i) PROVE FailoverInv'
    <2>1. /\ fault = "none" /\ pools[i].sock = "open" /\ reading' = -1
          /\ UNCHANGED <<m_active, m_index, miner, closing, stopped, strays, fault>>
      BY <1>8 DEF Ping, Free
    <2>2. PICK written \in BOOLEAN : Set(i, send(pools[i], written))
      BY <1>8 DEF Ping
    <2> QED
      BY <2>1, <2>2, WriteStep
  <1>9. CASE OnReadEnd
    BY <1>9
    DEF OnReadEnd, FailoverInv, TypeOK, ClientsInv, Defined, ReadInv, IndexInv,
        MinerFollowsActivePool, ActivePoolIsConnected, UndefinedOnlyWithStrays
  <1>10. CASE Submit
    BY <1>10, SubmitStep
  <1>11. CASE Stop
    BY <1>11, StopStep
  <1>12. CASE UNCHANGED vars
    BY <1>12
    DEF vars, FailoverInv, TypeOK, ClientsInv, Defined, ReadInv, IndexInv,
        MinerFollowsActivePool, ActivePoolIsConnected, UndefinedOnlyWithStrays
  <1>13. ASSUME NEW i \in Pools, ClientStep(i) PROVE FailoverInv'
    BY <1>1, <1>2, <1>3, <1>4, <1>5, <1>6, <1>7, <1>8, <1>13 DEF ClientStep
  <1> QED
    BY <1>9, <1>10, <1>11, <1>12, <1>13 DEF Next, Halted

-----------------------------------------------------------------------------
(* Theorems.                                                               *)

\* Whatever the pools do and in whatever order libuv calls back, the clients,
\* the strategy and the miner keep the relations of FailoverInv.
THEOREM FailoverInvariant == Spec => []FailoverInv
  BY FailoverInit, FailoverNext, PTL DEF Spec

\* m_active and m_index stay within the list of pools (onClose() never moves on
\* past the last one), and the record of every client stays well formed.
THEOREM FailoverTypeCorrect == Spec => []TypeOK
  <1>1. FailoverInv => TypeOK
    BY DEF FailoverInv
  <1> QED
    BY <1>1, FailoverInvariant, PTL

\* The workers mine the latest job of the active pool and are paused exactly
\* while there is none, for any list of pools (onJobReceived(), onLoginSuccess(),
\* onClose() and Network's callbacks).
THEOREM MinerFollowsActivePoolHolds == Spec => []MinerFollowsActivePool
  <1>1. FailoverInv => MinerFollowsActivePool
    BY DEF FailoverInv
  <1> QED
    BY <1>1, FailoverInvariant, PTL

\* The active pool is connected or about to be reported closed: onLoginSuccess()
\* and disconnect() never take the connection of the pool they keep.
THEOREM ActivePoolIsConnectedHolds == Spec => []ActivePoolIsConnected
  <1>1. FailoverInv => ActivePoolIsConnected
    BY DEF FailoverInv
  <1> QED
    BY <1>1, FailoverInvariant, PTL

\* The first pool and the pool at m_index always have a lookup, a socket or a
\* retry pending: the chain of reconnect() and tick() is never broken.
THEOREM NeverStrandedHolds == Spec => []NeverStranded
  <1>1. FailoverInv => NeverStranded
    <2> SUFFICES ASSUME FailoverInv, ~stopped, Defined, NEW i \in {0, m_index}
                 PROVE  Trying(i) \/ i \in Unresolvable \cup Unroutable
      BY DEF NeverStranded, Defined
    <2>1. i \in Pools
      BY FailoverAssumption DEF FailoverInv, TypeOK, Pools
    <2>2. pools[i].failures # -1 /\ pools[i].state # "unconnected"
      BY DEF FailoverInv, IndexInv
    <2>3. ClientOK(i, pools[i])
      BY <2>1 DEF FailoverInv, ClientsInv
    <2>4. pools[i].sock \in {"none", "opening", "refused", "open", "closing"}
      BY <2>1 DEF FailoverInv, TypeOK, Client
    <2> QED
      BY <2>2, <2>3, <2>4 DEF ClientOK, Trying
  <1> QED
    BY <1>1, FailoverInvariant, PTL

\* resolve() reuses a request in flight, or onResolved() deletes a socket that
\* libuv still knows, only after disconnect() or onClose() made a stray.
THEOREM UndefinedOnlyWithStraysHolds == Spec => []UndefinedOnlyWithStrays
  <1>1. FailoverInv => UndefinedOnlyWithStrays
    BY DEF FailoverInv
  <1> QED
    BY <1>1, FailoverInvariant, PTL

\* Backups after the one in use do nothing until onClose() reaches them, unless
\* disconnect() left them with a lookup.
THEOREM LaterBackupsRestHolds == Spec => []LaterBackupsRest
  <1>1. FailoverInv => LaterBackupsRest
    BY DEF FailoverInv, ClientsInv, Defined, Resting, LaterBackupsRest
  <1> QED
    BY <1>1, FailoverInvariant, PTL

-----------------------------------------------------------------------------
(* The pools, as the miner sees them, are the selector of PoolSelector.    *)

\* reconnect() of any client: the active pool is lost, or nothing is visible.
LEMMA ReconnectIsLose ==
  ASSUME FailoverInv, NEW i \in Pools, NEW c, Reconnect(i, c)
  PROVE  Selector!Lose \/ UNCHANGED <<m_active, miner>>
  <1>1. CASE c.failures # -1 /\ m_active = i
    <2>1. m_active # -1 /\ m_active' = -1 /\ miner' = [miner EXCEPT !.paused = TRUE]
      BY <1>1, FailoverAssumption DEF Reconnect, Pools
    <2> QED
      BY <2>1 DEF Selector!Lose
  <1>2. CASE ~(c.failures # -1 /\ m_active = i)
    BY <1>2 DEF Reconnect
  <1> QED
    BY <1>1, <1>2

\* Network::stop(): a lost pool, or a miner that is paused already.
LEMMA StopIsLose ==
  ASSUME FailoverInv, Stop
  PROVE  Selector!Lose \/ UNCHANGED <<m_active, miner>>
  <1>1. m_active' = -1 /\ miner' = [miner EXCEPT !.paused = TRUE]
    BY DEF Stop
  <1>2. CASE m_active # -1
    BY <1>1, <1>2 DEF Selector!Lose
  <1>3. CASE m_active = -1
    <2>1. miner.paused = TRUE /\ miner \in [job : PoolJob \cup {NoJob}, paused : BOOLEAN]
      BY <1>3 DEF FailoverInv, TypeOK, MinerFollowsActivePool
    <2>2. miner' = miner
      BY <1>1, <2>1
    <2> QED
      BY <1>1, <1>3, <2>2
  <1> QED
    BY <1>2, <1>3

\* The work of the active pool is renewed only with a job that is not mined yet.
LEMMA NewsIsRenewal ==
  ASSUME FailoverInv, NEW i \in Pools, NEW line \in Line, m_active = i, IsNews(pools[i], line),
         m_active' = m_active, miner' = [job |-> <<i, line.job>>, paused |-> FALSE]
  PROVE  Selector!SelectorNext
  <1>1. m_active # -1 /\ line.job \in JobIds /\ line.job # pools[i].job
    BY FailoverAssumption DEF Pools, IsNews, Line
  <1>2. miner.job = <<i, pools[i].job>>
    BY <1>1 DEF FailoverInv, MinerFollowsActivePool
  <1>3. <<m_active, line.job>> # miner.job
    BY <1>1, <1>2
  <1>4. Selector!Renew(line.job)
    BY <1>1, <1>3 DEF Selector!Renew, Selector!Work
  <1> QED
    BY <1>1, <1>4 DEF Selector!SelectorNext

\* A line: a pool is chosen, the work of the chosen one renewed, or nothing.
LEMMA LineIsChoice ==
  ASSUME FailoverInv, NEW i \in Pools, NEW line \in Line, OnReadLine(i, line)
  PROVE  Selector!SelectorNext \/ UNCHANGED <<m_active, miner>>
  <1>1. CASE IsNews(pools[i], line) /\ line.type = "login"
    <2>1. /\ m_active' = Elected(i)
          /\ miner' = IF Elected(i) = i THEN [job |-> <<i, line.job>>, paused |-> FALSE] ELSE miner
      BY <1>1 DEF OnReadLine, OnLoginSuccess, OnJobReceived
    <2>2. CASE i = 0 \/ m_active = -1
      <3>1. line.job \in JobIds /\ i \in 0 .. Count - 1
        BY DEF Line, Pools
      <3>2. Selector!Choose(i, line.job)
        BY <2>1, <2>2 DEF Elected, Selector!Choose, Selector!Work
      <3> QED
        BY <3>1, <3>2 DEF Selector!SelectorNext
    <2>3. CASE i # 0 /\ m_active # -1 /\ m_active = i
      BY <1>1, <2>1, <2>3, NewsIsRenewal DEF Elected
    <2>4. CASE i # 0 /\ m_active # -1 /\ m_active # i
      BY <2>1, <2>4 DEF Elected
    <2> QED
      BY <2>2, <2>3, <2>4
  <1>2. CASE ~(IsNews(pools[i], line) /\ line.type = "login")
    <2>1. /\ m_active' = m_active
          /\ miner' = IF IsNews(pools[i], line) /\ m_active = i
                      THEN [job |-> <<i, line.job>>, paused |-> FALSE] ELSE miner
      BY <1>2 DEF OnReadLine, OnJobReceived
    <2> QED
      BY <2>1, NewsIsRenewal
  <1> QED
    BY <1>1, <1>2

\* Every callback, in any order, is a step of the selector or invisible.
LEMMA SelectorStep ==
  FailoverInv /\ [Next]_vars => [Selector!SelectorNext]_(Selector!selectorVars)
  <1> SUFFICES ASSUME FailoverInv, [Next]_vars
               PROVE  Selector!SelectorNext \/ UNCHANGED <<m_active, miner>>
    BY DEF Selector!selectorVars
  <1>1. Selector!Lose => Selector!SelectorNext
    BY DEF Selector!SelectorNext
  <1>2. ASSUME NEW i \in Pools, OnResolveError(i) \/ OnClose(i)
        PROVE  Selector!SelectorNext \/ UNCHANGED <<m_active, miner>>
    BY <1>1, <1>2, ReconnectIsLose DEF OnResolveError, OnClose
  <1>3. ASSUME NEW i \in Pools, NEW line \in Line, OnReadLine(i, line)
        PROVE  Selector!SelectorNext \/ UNCHANGED <<m_active, miner>>
    BY <1>3, LineIsChoice
  <1>4. ASSUME NEW i \in Pools, OnResolved(i) \/ OnConnect(i) \/ OnConnectError(i)
                                 \/ OnReadError(i) \/ Tick(i) \/ Ping(i)
        PROVE  UNCHANGED <<m_active, miner>>
    BY <1>4 DEF OnResolved, OnConnect, OnConnectError, OnReadError, Tick, Ping
  <1>5. CASE Stop
    BY <1>1, <1>5, StopIsLose
  <1>6. CASE OnReadEnd \/ Submit \/ Halted \/ UNCHANGED vars
    BY <1>6 DEF OnReadEnd, Submit, Halted, vars
  <1> QED
    BY <1>2, <1>3, <1>4, <1>5, <1>6 DEF Next, ClientStep

\* For any list of pools, the strategy with its clients implements the selector:
\* a backup is chosen only if no pool is active, the first pool whenever it
\* offers itself, and the miner pauses exactly when the active pool is lost.
THEOREM ImplementsPoolSelectorHolds == Spec => ImplementsPoolSelector
  <1>1. Init => Selector!SelectorInit
    BY DEF Init, Selector!SelectorInit
  <1> QED
    BY <1>1, SelectorStep, FailoverInvariant, PTL
       DEF Spec, ImplementsPoolSelector, Selector!SelectorSpec
=============================================================================
