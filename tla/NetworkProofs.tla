--------------------------- MODULE NetworkProofs ---------------------------
(***************************************************************************)
(* Proofs about Network, for any jobs, retries and servers.                *)
(***************************************************************************)
EXTENDS Network, ClientProofs, TLAPS

\* What holds of the record c of client k, stray or not.
RecordOK(k, c) ==
  /\ c.state # "unconnected"
  /\ c.state = "closing" => c.sock = "closing"
  /\ c.sock = "refused" => k \in Refusable
  /\ c.failures # -1 => c.lookup \/ c.sock # "none" \/ c.expire \/ k \in Refusable

\* A client that is not a stray runs one attempt at a time.
Sane(c) ==
  /\ c.lookup => c.state = "lookup" /\ c.sock = "none" /\ ~c.expire
  /\ c.state = "connecting" /\ c.expire => c.sock = "none"

RecordsInv ==
  \A k \in Ids : RecordOK(k, clients[k]) /\ (k \notin strays => Sane(clients[k]))

\* Only a connection with a socket can deliver lines.
ReadInv ==
  reading # "none" =>
    ~fault /\ ~stopped /\ clients[reading].sock \in {"open", "closing"}

\* The pool is retried for ever; the donation has a timer or a retry.
TurnsInv ==
  ~stopped => /\ clients["pool"].failures # -1
              /\ timer \/ (~donating /\ clients["donor"].failures # -1)

\* An active pool has given a job, and it is mined unless there is a donation.
MinerInv ==
  active => /\ clients["pool"].job \in JobIds
            /\ ~donating => miner = [job |-> clients["pool"].job, paused |-> FALSE]

\* A client that was disconnected: nothing but a close callback is to come.
Resting(c) ==
  c.failures = -1 /\ ~c.lookup /\ ~c.expire /\ c.sock \in {"none", "closing"}

\* Between two donations the client of the donation rests, unless it is a stray.
RestInv ==
  timer /\ ~donating /\ "donor" \notin strays =>
    Resting(clients["donor"]) /\ reading # "donor"

NetworkInv ==
  /\ TypeOK /\ RecordsInv /\ ReadInv /\ TurnsInv /\ RestInv /\ MinerInv
  /\ UndefinedOnlyWithStrays

-----------------------------------------------------------------------------
(* The invariant holds initially and is kept by every step.                *)

\* DonateStrategy() and Network::connect() establish the invariant.
LEMMA NetworkInit == Init => NetworkInv
  <1> SUFFICES ASSUME Init PROVE NetworkInv
    OBVIOUS
  <1>1. PICK started \in [Ids -> BOOLEAN] :
          /\ \A k \in Ids : Accepts(k, started[k])
          /\ clients = [k \in Ids |-> connect(NewClient, started[k])]
    BY DEF Init
  <1>2. NewClient \in Client /\ NewClient.sock = "none"
    <2>1. 0 \in -1 .. Retries
      BY ClientAssumption
    <2> QED
      BY <2>1 DEF NewClient, Client, JobOrNone
  <1>3. ASSUME NEW k \in Ids
        PROVE  /\ clients[k] \in Client /\ clients[k].state = "lookup"
               /\ clients[k].lookup = started[k] /\ ~clients[k].expire
               /\ clients[k].failures # -1 /\ clients[k].sock = "none"
    BY <1>1, <1>2, ConnectFacts
  <1>4. /\ active = FALSE /\ donating = FALSE /\ reading = "none" /\ fault = FALSE
        /\ strays = {} /\ timer = FALSE /\ stopped = FALSE /\ closing = FALSE
        /\ miner = [job |-> NoJob, paused |-> TRUE]
    BY DEF Init
  <1>5. TypeOK
    BY <1>1, <1>3, <1>4 DEF TypeOK
  <1>6. RecordsInv
    BY <1>1, <1>3 DEF RecordsInv, RecordOK, Sane, Accepts
  <1>7. "pool" \in Ids /\ "donor" \in Ids
    BY DEF Ids
  <1> QED
    BY <1>3, <1>4, <1>5, <1>6, <1>7
    DEF NetworkInv, ReadInv, TurnsInv, RestInv, MinerInv, UndefinedOnlyWithStrays

\* The invariant, as the callbacks of client k need it.
About(k) ==
  /\ clients[k] \in Client
  /\ RecordOK(k, clients[k])
  /\ k \notin strays => Sane(clients[k])

\* The invariant gives what the callbacks of client k need.
LEMMA AboutClient ==
  ASSUME NetworkInv, NEW k \in Ids
  PROVE  About(k)
  BY DEF NetworkInv, TypeOK, RecordsInv, About

\* Setting the record of one client leaves the other one alone.
LEMMA SetFacts ==
  ASSUME NetworkInv, NEW k \in Ids, NEW c \in Client, Set(k, c)
  PROVE  /\ clients' \in [Ids -> Client]
         /\ clients'[k] = c /\ \A j \in Ids : j # k => clients'[j] = clients[j]
         /\ "pool" \in Ids /\ "donor" \in Ids
  BY DEF NetworkInv, TypeOK, Set, Ids

\* The new record c of client k keeps what concerns the records.
Good(k, c) ==
  /\ c \in Client
  /\ RecordOK(k, c)
  /\ k \notin strays => Sane(c)

\* Records that are well formed one by one are so together.
LEMMA OneRecord ==
  ASSUME NetworkInv, NEW k \in Ids, NEW c, Set(k, c), Good(k, c), strays \subseteq strays'
  PROVE  RecordsInv'
  BY SetFacts DEF Good, NetworkInv, RecordsInv

\* A callback that changes the record of a client that does not rest, but neither
\* the job in it nor its retries.
LEMMA OneCallback ==
  ASSUME NetworkInv, NEW k \in Ids, NEW c, Set(k, c), Good(k, c),
         c.job = clients[k].job, clients[k].failures # -1 => c.failures # -1,
         k = "pool" \/ ~Resting(clients[k]),
         reading' = "none", fault' \in BOOLEAN, fault' => strays # {},
         UNCHANGED <<active, donating, timer, miner, closing, stopped, strays>>
  PROVE  NetworkInv'
  <1>1. /\ clients' \in [Ids -> Client]
        /\ clients'[k] = c /\ \A j \in Ids : j # k => clients'[j] = clients[j]
        /\ "pool" \in Ids /\ "donor" \in Ids
    BY SetFacts DEF Good
  <1>2. RecordsInv'
    BY OneRecord
  <1>3. TypeOK'
    BY <1>1 DEF NetworkInv, TypeOK
  <1>4. TurnsInv'
    BY <1>1 DEF NetworkInv, TurnsInv
  <1>5. MinerInv'
    BY <1>1 DEF NetworkInv, MinerInv
  <1>6. RestInv'
    BY <1>1 DEF NetworkInv, RestInv, Ids
  <1> QED
    BY <1>2, <1>3, <1>4, <1>5, <1>6 DEF NetworkInv, ReadInv, UndefinedOnlyWithStrays

\* onResolved() with an address keeps the invariant.
LEMMA OnResolvedStep ==
  ASSUME NetworkInv, NEW k \in Ids, OnResolved(k)
  PROVE  NetworkInv'
  <1>1. /\ clients[k].lookup /\ reading' = "none" /\ fault' = ~OpenIsDefined(clients[k])
        /\ UNCHANGED <<active, donating, timer, miner, closing, stopped, strays>>
    BY DEF OnResolved, Free
  <1>2. PICK accepted \in BOOLEAN :
          Accepts(k, accepted) /\ Set(k, openSocket(clients[k], accepted))
    BY DEF OnResolved
  <1> DEFINE c == openSocket(clients[k], accepted)
  <1>3. About(k)
    BY AboutClient
  <1>4. /\ c \in Client /\ c.state = "connecting" /\ c.sock \in {"opening", "refused"}
        /\ c.sock = "refused" => k \in Refusable
        /\ ~c.lookup /\ c.failures = clients[k].failures /\ c.expire = clients[k].expire
        /\ c.job = clients[k].job
    BY <1>2, <1>3, OpenFacts DEF About, Accepts
  <1> HIDE DEF c
  <1>5. fault' => k \in strays
    BY <1>1, <1>3 DEF OpenIsDefined, About, Sane
  <1>6. Good(k, c)
    BY <1>1, <1>3, <1>4 DEF About, Good, RecordOK, Sane
  <1>7. fault' \in BOOLEAN
    BY <1>1
  <1> QED
    BY <1>1, <1>2, <1>4, <1>5, <1>6, <1>7, OneCallback DEF c, Resting

\* onConnect() with success keeps the invariant.
LEMMA OnConnectStep ==
  ASSUME NetworkInv, NEW k \in Ids, OnConnect(k)
  PROVE  NetworkInv'
  <1>1. /\ clients[k].sock = "opening" /\ reading' = "none" /\ ~fault'
        /\ UNCHANGED <<active, donating, timer, miner, closing, stopped, strays>>
        /\ fault' \in BOOLEAN
    BY DEF OnConnect, Free, NetworkInv, TypeOK
  <1>2. PICK fits \in BOOLEAN, written \in BOOLEAN : Set(k, login(clients[k], fits, written))
    BY DEF OnConnect
  <1> DEFINE c == login(clients[k], fits, written)
  <1>3. About(k)
    BY AboutClient
  <1>4. /\ c \in Client /\ c.lookup = clients[k].lookup /\ c.failures = clients[k].failures
        /\ c.job = clients[k].job
        /\ \/ c.state = "connected" /\ c.sock = "open"
           \/ c.state = "closing" /\ c.sock = "closing"
    BY <1>3, LoginFacts DEF About
  <1> HIDE DEF c
  <1>5. Good(k, c)
    BY <1>1, <1>3, <1>4 DEF About, Good, RecordOK, Sane
  <1> QED
    BY <1>1, <1>2, <1>4, <1>5, OneCallback DEF c, Resting

\* An error of onConnect() or onRead() closes a socket that is in use.
LEMMA OnSocketErrorStep ==
  ASSUME NetworkInv, NEW k \in Ids, OnSocketError(k)
  PROVE  NetworkInv'
  <1> DEFINE c == close(clients[k])
  <1>1. /\ clients[k].sock \in {"opening", "open"} /\ reading' = "none" /\ ~fault'
        /\ Set(k, c) /\ fault' \in BOOLEAN
        /\ UNCHANGED <<active, donating, timer, miner, closing, stopped, strays>>
    BY DEF OnSocketError, Free, NetworkInv, TypeOK
  <1>2. About(k)
    BY AboutClient
  <1>3. /\ c \in Client /\ c.lookup = clients[k].lookup /\ c.failures = clients[k].failures
        /\ c.job = clients[k].job /\ c.state = "closing" /\ c.sock = "closing"
    BY <1>1, <1>2, CloseFacts DEF About, RecordOK
  <1> HIDE DEF c
  <1>4. Good(k, c)
    BY <1>1, <1>2, <1>3 DEF About, Good, RecordOK, Sane
  <1> QED
    BY <1>1, <1>3, <1>4, OneCallback DEF Resting

\* A write keeps the invariant: a ping, or a share whatever the pool's client does.
LEMMA WriteStep ==
  ASSUME NetworkInv, NEW k \in Ids, NEW written \in BOOLEAN,
         Set(k, send(clients[k], written)), k = "pool" \/ clients[k].sock = "open", Free, UNCHANGED <<reading, fault>>,
         UNCHANGED <<active, donating, timer, miner, closing, stopped, strays>>
  PROVE  NetworkInv'
  <1> DEFINE c == send(clients[k], written)
  <1>1. About(k)
    BY AboutClient
  <1>2. /\ c \in Client /\ c.lookup = clients[k].lookup /\ c.failures = clients[k].failures
        /\ c.job = clients[k].job
        /\ \/ c = clients[k]
           \/ /\ clients[k].state = "connected" /\ c.state = "connected"
              /\ c.sock = clients[k].sock /\ c.expire
           \/ clients[k].state = "connected" /\ c.state = "closing" /\ c.sock = "closing"
    BY <1>1, SendFacts DEF About
  <1>3. reading' = "none" /\ ~fault' /\ fault' \in BOOLEAN
    BY DEF Free, NetworkInv, TypeOK
  <1> HIDE DEF c
  <1>4. Good(k, c)
    BY <1>1, <1>2 DEF About, Good, RecordOK, Sane
  <1> QED
    BY <1>2, <1>3, <1>4, OneCallback DEF c, Resting

\* Client::tick() keeps the invariant.
LEMMA TickStep ==
  ASSUME NetworkInv, NEW k \in Ids, Tick(k)
  PROVE  NetworkInv'
  <1>1. /\ clients[k].expire /\ reading' = "none"
        /\ fault' = (clients[k].state = "connecting" /\ ~ConnectIsDefined(clients[k]))
        /\ UNCHANGED <<active, donating, timer, miner, closing, stopped, strays>>
    BY DEF Tick, Free
  <1>2. PICK started \in BOOLEAN :
          Accepts(k, started) /\ Set(k, expired(clients[k], started))
    BY DEF Tick
  <1> DEFINE c == expired(clients[k], started)
  <1>3. About(k)
    BY AboutClient
  <1>4. c \in Client /\ c.job = clients[k].job
    BY <1>3, ExpiredFacts DEF About
  <1>5. fault' => k \in strays
    BY <1>1, <1>3 DEF ConnectIsDefined, About, Sane
  <1>6. Good(k, c) /\ (clients[k].failures # -1 => c.failures # -1)
    <2>1. CASE clients[k].state = "connecting"
      <3>1. /\ c.state = "lookup" /\ c.lookup = started /\ ~c.expire
            /\ c.failures # -1 /\ c.sock = clients[k].sock
        BY <1>3, <2>1, ExpiredFacts, ConnectFacts DEF About
      <3> HIDE DEF c
      <3> QED
        BY <1>1, <1>2, <1>3, <1>4, <2>1, <3>1 DEF About, Good, RecordOK, Sane, Accepts
    <2>2. CASE clients[k].state = "connected"
      <3>1. /\ c.lookup = clients[k].lookup /\ c.expire /\ c.failures = clients[k].failures
            /\ \/ c.state = "connected" /\ c.sock = clients[k].sock
               \/ c.state = "closing" /\ c.sock = "closing"
        BY <1>1, <1>3, <2>2, ExpiredFacts, CloseFacts DEF About
      <3> HIDE DEF c
      <3> QED
        BY <1>3, <1>4, <2>2, <3>1 DEF About, Good, RecordOK, Sane
    <2>3. CASE clients[k].state \notin {"connected", "connecting"}
      <3>1. c = clients[k]
        BY <1>3, <2>3, ExpiredFacts DEF About
      <3> HIDE DEF c
      <3> QED
        BY <1>3, <3>1 DEF About, Good
    <2> QED
      BY <2>1, <2>2, <2>3
  <1> HIDE DEF c
  <1>7. fault' \in BOOLEAN
    BY <1>1
  <1> QED
    BY <1>1, <1>2, <1>4, <1>5, <1>6, <1>7, OneCallback DEF c, Resting

\* onClose() and a failed lookup end in reconnect() and in the listener's onClose().
LEMMA ReconnectStep ==
  ASSUME NetworkInv, NEW k \in Ids, NEW c \in Client, Reconnect(k, c),
         reading' = "none", closing' \in BOOLEAN, UNCHANGED stopped,
         c.failures = clients[k].failures, c.expire = clients[k].expire,
         c.job = clients[k].job, c.sock \in {"none", clients[k].sock},
         k \notin strays => ~c.lookup /\ c.sock = "none"
  PROVE  NetworkInv'
  <1> DEFINE d == reconnect(c)
  <1>1. /\ Set(k, d) /\ UNCHANGED <<donating, timer, fault, strays>>
        /\ active' = (active /\ ~(k = "pool" /\ active))
        /\ miner' = IF k = "pool" /\ active THEN paused(miner) ELSE miner
    BY DEF Reconnect
  <1>2. /\ d \in Client /\ d.state = "connecting" /\ d.sock = c.sock /\ d.lookup = c.lookup
        /\ d.job = clients[k].job
        /\ c.failures = -1 => d.failures = -1 /\ d.expire = c.expire
        /\ c.failures # -1 => d.failures # -1 /\ d.expire
    BY ReconnectFacts
  <1> HIDE DEF d
  <1>3. About(k)
    BY AboutClient
  <1>4. Good(k, d)
    BY <1>2, <1>3 DEF About, Good, RecordOK, Sane
  <1>5. RecordsInv'
    BY <1>1, <1>4, OneRecord
  <1>6. /\ clients' \in [Ids -> Client]
        /\ clients'[k] = d /\ \A j \in Ids : j # k => clients'[j] = clients[j]
        /\ "pool" \in Ids /\ "donor" \in Ids
    BY <1>1, <1>2, SetFacts
  <1>7. TypeOK'
    <2>1. paused(miner) \in [job : JobIds, paused : BOOLEAN] \cup [job : {NoJob}, paused : {TRUE}]
      BY DEF NetworkInv, TypeOK, paused
    <2> QED
      BY <1>1, <1>6, <2>1 DEF NetworkInv, TypeOK
  <1>8. TurnsInv'
    BY <1>1, <1>2, <1>6 DEF NetworkInv, TurnsInv
  <1>9. MinerInv'
    BY <1>1, <1>2, <1>6 DEF NetworkInv, MinerInv
  <1>10. RestInv'
    <2>1. CASE k = "pool"
      BY <1>1, <1>6, <2>1 DEF NetworkInv, RestInv
    <2>2. CASE k = "donor"
      BY <1>1, <1>2, <1>6, <2>2 DEF NetworkInv, RestInv, Resting
    <2> QED
      BY <2>1, <2>2 DEF Ids
  <1> QED
    BY <1>1, <1>5, <1>7, <1>8, <1>9, <1>10 DEF NetworkInv, ReadInv, UndefinedOnlyWithStrays

\* A closed socket or a failed lookup keeps the invariant.
LEMMA LossStep ==
  ASSUME NetworkInv, NEW k \in Ids, OnResolveError(k) \/ OnClose(k)
  PROVE  NetworkInv'
  <1>1. About(k)
    BY AboutClient
  <1>2. CASE OnResolveError(k)
    <2> DEFINE c == lookupFailed(clients[k])
    <2>1. /\ clients[k].lookup /\ reading' = "none" /\ UNCHANGED <<closing, stopped>>
          /\ Reconnect(k, c) /\ closing' \in BOOLEAN
      BY <1>2 DEF OnResolveError, Free, NetworkInv, TypeOK
    <2>2. /\ c \in Client /\ ~c.lookup /\ c.sock = clients[k].sock
          /\ c.failures = clients[k].failures /\ c.expire = clients[k].expire
          /\ c.job = clients[k].job
      BY <1>1, LostFacts DEF About
    <2> HIDE DEF c
    <2>3. k \notin strays => c.sock = "none"
      BY <1>1, <2>1, <2>2 DEF About, Sane
    <2> QED
      BY <2>1, <2>2, <2>3, ReconnectStep
  <1>3. CASE OnClose(k)
    <2> DEFINE c == socketClosed(clients[k])
    <2>1. /\ clients[k].sock = "closing" /\ reading' = "none" /\ UNCHANGED stopped
          /\ Reconnect(k, c) /\ closing' \in BOOLEAN
      BY <1>3 DEF OnClose
    <2>2. /\ c \in Client /\ c.lookup = clients[k].lookup /\ c.sock = "none"
          /\ c.failures = clients[k].failures /\ c.expire = clients[k].expire
          /\ c.job = clients[k].job
      BY <1>1, LostFacts DEF About
    <2> HIDE DEF c
    <2>3. k \notin strays => ~c.lookup
      BY <1>1, <2>1, <2>2 DEF About, Sane
    <2> QED
      BY <2>1, <2>2, <2>3, ReconnectStep
  <1> QED
    BY <1>2, <1>3

\* A line of the pool or of the donation server keeps the invariant.
LEMMA OnReadLineStep ==
  ASSUME NetworkInv, NEW k \in Ids, NEW line \in Line, OnReadLine(k, line)
  PROVE  NetworkInv'
  <1> DEFINE c == parse(clients[k], line)
             news == IsNews(clients[k], line)
             logged == news /\ line.type = "login"
  <1>1. ~fault /\ ~stopped /\ clients[k].sock \in {"open", "closing"}
    BY DEF OnReadLine, Free, NetworkInv, ReadInv, Ids
  <1>2. /\ reading' = k /\ Set(k, c) /\ UNCHANGED <<closing, stopped, fault, strays>>
        /\ IF logged
           THEN /\ active' = (active \/ k = "pool") /\ donating' = (donating \/ k = "donor")
                /\ timer' = (timer \/ (k = "donor" /\ ~donating))
           ELSE UNCHANGED <<active, donating, timer>>
        /\ miner' = IF news /\ k = "pool" /\ ~donating'
                    THEN [job |-> line.job, paused |-> FALSE] ELSE miner
    BY DEF OnReadLine, OnLoginSuccess, OnJob, SetJob
  <1>3. About(k)
    BY AboutClient
  <1>4. /\ c \in Client /\ c.lookup = clients[k].lookup /\ ~c.expire
        /\ c.job = IF news THEN line.job ELSE clients[k].job
        /\ c.failures = IF logged THEN 0 ELSE clients[k].failures
        /\ \/ c.state = clients[k].state /\ c.sock = clients[k].sock
           \/ c.state = "closing" /\ c.sock = "closing"
    BY <1>3, ParseFacts DEF About
  <1>5. line.job \in JobIds
    BY DEF Line
  <1> HIDE DEF c, news, logged
  <1>6. Good(k, c)
    BY <1>1, <1>3, <1>4 DEF About, Good, RecordOK, Sane
  <1>7. RecordsInv'
    BY <1>2, <1>6, OneRecord
  <1>8. /\ clients' \in [Ids -> Client]
        /\ clients'[k] = c /\ \A j \in Ids : j # k => clients'[j] = clients[j]
        /\ "pool" \in Ids /\ "donor" \in Ids
    BY <1>2, <1>4, SetFacts
  <1>9. active' \in BOOLEAN /\ donating' \in BOOLEAN /\ timer' \in BOOLEAN
    BY <1>2 DEF NetworkInv, TypeOK
  <1>10. miner' \in [job : JobIds, paused : BOOLEAN] \cup [job : {NoJob}, paused : {TRUE}]
    BY <1>2, <1>5 DEF NetworkInv, TypeOK
  <1>11. TypeOK'
    BY <1>2, <1>8, <1>9, <1>10 DEF NetworkInv, TypeOK
  <1>12. TurnsInv'
    <2>1. k = "pool" => c.failures # -1
      BY <1>1, <1>4 DEF NetworkInv, TurnsInv
    <2>2. timer' \/ (~donating' /\ clients["donor"].failures # -1)
      BY <1>1, <1>2 DEF NetworkInv, TurnsInv
    <2>3. c.failures = clients[k].failures \/ c.failures = 0
      BY <1>4
    <2>4. clients["donor"].failures # -1 => clients'["donor"].failures # -1
      BY <1>8, <2>3
    <2>5. clients'["pool"].failures # -1
      BY <1>1, <1>8, <2>1 DEF NetworkInv, TurnsInv
    <2> QED
      BY <2>2, <2>4, <2>5 DEF TurnsInv
  <1>13. MinerInv'
    <2>1. CASE k = "pool"
      BY <1>2, <1>4, <1>5, <1>8, <2>1 DEF NetworkInv, MinerInv, logged
    <2>2. CASE k = "donor"
      BY <1>2, <1>8, <2>2 DEF NetworkInv, MinerInv
    <2> QED
      BY <2>1, <2>2 DEF Ids
  <1>14. ReadInv'
    BY <1>1, <1>2, <1>4, <1>8 DEF ReadInv
  <1>15. RestInv'
    <2>1. CASE k = "pool"
      BY <1>2, <1>8, <2>1 DEF NetworkInv, RestInv
    <2>2. CASE k = "donor"
      <3>1. timer /\ ~donating => "donor" \in strays
        BY <2>2 DEF NetworkInv, RestInv, Resting, OnReadLine
      <3> QED
        BY <1>2, <2>2, <3>1 DEF RestInv
    <2> QED
      BY <2>1, <2>2 DEF Ids
  <1> QED
    BY <1>2, <1>7, <1>11, <1>12, <1>13, <1>14, <1>15 DEF NetworkInv, UndefinedOnlyWithStrays

\* What disconnect() leaves behind is well formed; a lookup in flight is a stray.
LEMMA DisconnectRecord ==
  ASSUME NetworkInv, NEW k \in Ids
  PROVE  /\ disconnect(clients[k]) \in Client /\ RecordOK(k, disconnect(clients[k]))
         /\ disconnect(clients[k]).job = clients[k].job
         /\ ~clients[k].lookup => Sane(disconnect(clients[k])) /\ Resting(disconnect(clients[k]))
  <1> DEFINE c == disconnect(clients[k])
  <1>1. About(k)
    BY AboutClient
  <1>2. /\ c \in Client /\ c.failures = -1 /\ ~c.expire /\ c.lookup = clients[k].lookup
        /\ c.job = clients[k].job
        /\ \/ /\ clients[k].state \in {"unconnected", "closing"} \/ clients[k].sock = "none"
              /\ c.state = clients[k].state /\ c.sock = clients[k].sock
           \/ c.state = "closing" /\ c.sock = "closing"
    BY <1>1, DisconnectFacts DEF About
  <1> HIDE DEF c
  <1>3. RecordOK(k, c) /\ (~clients[k].lookup => Sane(c) /\ Resting(c))
    BY <1>1, <1>2 DEF About, RecordOK, Sane, Resting
  <1> QED
    BY <1>2, <1>3 DEF c

\* DonateStrategy::suspend() with Network::onPause() keeps the invariant.
LEMMA SuspendStep ==
  ASSUME NetworkInv, Suspend
  PROVE  NetworkInv'
  <1> DEFINE c == disconnect(clients["donor"])
  <1>0. "donor" \in Ids /\ "pool" \in Ids
    BY DEF Ids
  <1>1. /\ reading' = "none" /\ ~fault /\ ~stopped /\ Set("donor", c)
        /\ donating' = FALSE /\ timer' = TRUE /\ UNCHANGED <<active, closing, stopped, fault>>
        /\ miner' = IF active THEN resumed ELSE paused(miner)
        /\ strays' = strays \cup {k \in {"donor"} : clients[k].lookup}
    BY DEF Suspend, Free
  <1>2. /\ c \in Client /\ RecordOK("donor", c)
        /\ ~clients["donor"].lookup => Sane(c) /\ Resting(c)
    BY <1>0, DisconnectRecord
  <1> HIDE DEF c
  <1>3. /\ clients' \in [Ids -> Client] /\ clients'["donor"] = c
        /\ clients'["pool"] = clients["pool"]
    BY <1>0, <1>1, <1>2, SetFacts
  <1>4. RecordsInv'
    BY <1>1, <1>2, <1>3 DEF NetworkInv, RecordsInv, Ids
  <1>5. miner' \in [job : JobIds, paused : BOOLEAN] \cup [job : {NoJob}, paused : {TRUE}]
    <2>1. CASE active
      BY <1>1, <2>1 DEF NetworkInv, MinerInv, resumed
    <2>2. CASE ~active
      BY <1>1, <2>2 DEF NetworkInv, TypeOK, paused
    <2> QED
      BY <2>1, <2>2
  <1>6. strays' \in SUBSET Ids
    BY <1>0, <1>1 DEF NetworkInv, TypeOK
  <1>7. TypeOK'
    BY <1>1, <1>3, <1>5, <1>6 DEF NetworkInv, TypeOK
  <1>8. TurnsInv'
    BY <1>1, <1>3 DEF NetworkInv, TurnsInv
  <1>9. MinerInv'
    BY <1>1, <1>3 DEF NetworkInv, MinerInv, resumed
  <1>10. RestInv'
    BY <1>1, <1>2, <1>3 DEF RestInv
  <1> QED
    BY <1>1, <1>4, <1>7, <1>8, <1>9, <1>10 DEF NetworkInv, ReadInv, UndefinedOnlyWithStrays

\* The start of the next donation keeps the invariant.
LEMMA DonateStep ==
  ASSUME NetworkInv, Donate
  PROVE  NetworkInv'
  <1>0. "donor" \in Ids /\ "pool" \in Ids
    BY DEF Ids
  <1>1. /\ reading' = "none" /\ ~fault /\ ~stopped /\ ~donating /\ timer
        /\ timer' = FALSE /\ fault' = ~ConnectIsDefined(clients["donor"])
        /\ strays' = strays \cup {k \in {"donor"} : clients[k].sock # "none"}
        /\ UNCHANGED <<active, donating, miner, closing, stopped>>
    BY DEF Donate, Free
  <1>2. PICK started \in BOOLEAN :
          Accepts("donor", started) /\ Set("donor", connect(clients["donor"], started))
    BY DEF Donate
  <1> DEFINE c == connect(clients["donor"], started)
  <1>3. About("donor")
    BY <1>0, AboutClient
  <1>4. /\ c \in Client /\ c.state = "lookup" /\ c.lookup = started /\ ~c.expire
        /\ c.failures # -1 /\ c.sock = clients["donor"].sock
    BY <1>3, ConnectFacts DEF About
  <1> HIDE DEF c
  <1>5. RecordOK("donor", c) /\ ("donor" \notin strays' => Sane(c))
    BY <1>1, <1>2, <1>3, <1>4 DEF About, RecordOK, Sane, Accepts
  <1>6. /\ clients' \in [Ids -> Client] /\ clients'["donor"] = c
        /\ clients'["pool"] = clients["pool"]
    BY <1>0, <1>2, <1>4, SetFacts DEF c
  <1>7. RecordsInv'
    BY <1>1, <1>5, <1>6 DEF NetworkInv, RecordsInv, Ids
  <1>8. fault' \in BOOLEAN /\ strays' \in SUBSET Ids
    BY <1>0, <1>1 DEF NetworkInv, TypeOK
  <1>9. fault' => "donor" \in strays'
    BY <1>1 DEF ConnectIsDefined, NetworkInv, RestInv, Resting
  <1>10. TypeOK'
    BY <1>1, <1>6, <1>8 DEF NetworkInv, TypeOK
  <1>11. TurnsInv'
    BY <1>1, <1>4, <1>6 DEF NetworkInv, TurnsInv
  <1>12. MinerInv'
    BY <1>1, <1>6 DEF NetworkInv, MinerInv
  <1> QED
    BY <1>1, <1>7, <1>9, <1>10, <1>11, <1>12
    DEF NetworkInv, ReadInv, RestInv, UndefinedOnlyWithStrays

\* Network::stop() keeps the invariant.
LEMMA StopStep ==
  ASSUME NetworkInv, Stop
  PROVE  NetworkInv'
  <1>0. "donor" \in Ids /\ "pool" \in Ids
    BY DEF Ids
  <1>1. /\ reading' = "none" /\ ~fault /\ stopped' = TRUE /\ timer' = FALSE
        /\ clients' = [k \in Ids |-> disconnect(clients[k])]
        /\ strays' = strays \cup {k \in Ids : clients[k].lookup}
        /\ UNCHANGED <<active, donating, miner, closing, fault>>
    BY DEF Stop, Free
  <1>2. \A k \in Ids :
          /\ clients'[k] \in Client /\ RecordOK(k, clients'[k])
          /\ clients'[k].job = clients[k].job
          /\ ~clients[k].lookup => Sane(clients'[k])
    BY <1>1, DisconnectRecord
  <1>3. RecordsInv'
    BY <1>1, <1>2 DEF RecordsInv
  <1>4. clients' \in [Ids -> Client] /\ strays' \in SUBSET Ids
    BY <1>1, <1>2 DEF NetworkInv, TypeOK
  <1>5. TypeOK'
    BY <1>1, <1>4 DEF NetworkInv, TypeOK
  <1>6. MinerInv'
    BY <1>0, <1>1, <1>2 DEF NetworkInv, MinerInv
  <1> QED
    BY <1>1, <1>3, <1>5, <1>6 DEF NetworkInv, ReadInv, TurnsInv, RestInv, UndefinedOnlyWithStrays

\* Every step keeps the invariant.
LEMMA NetworkStep == NetworkInv /\ [Next]_vars => NetworkInv'
  <1> SUFFICES ASSUME NetworkInv, [Next]_vars PROVE NetworkInv'
    OBVIOUS
  <1>1. ASSUME NEW k \in Ids, ClientStep(k) PROVE NetworkInv'
    <2>1. CASE OnResolved(k)
      BY <2>1, OnResolvedStep
    <2>2. CASE OnResolveError(k) \/ OnClose(k)
      BY <2>2, LossStep
    <2>3. CASE OnConnect(k)
      BY <2>3, OnConnectStep
    <2>4. CASE OnSocketError(k)
      BY <2>4, OnSocketErrorStep
    <2>5. CASE \E line \in Line : OnReadLine(k, line)
      BY <2>5, OnReadLineStep
    <2>6. CASE Tick(k)
      BY <2>6, TickStep
    <2>7. CASE Ping(k)
      BY <2>7, WriteStep DEF Ping
    <2> QED
      BY <1>1, <2>1, <2>2, <2>3, <2>4, <2>5, <2>6, <2>7 DEF ClientStep
  <1>2. CASE Submit
    <2>1. "pool" \in Ids
      BY DEF Ids
    <2> QED
      BY <1>2, <2>1, WriteStep DEF Submit
  <1>3. ASSUME UNCHANGED <<clients, active, donating, timer, miner, closing, stopped, fault, strays>>,
               reading' \in {reading, "none"}
        PROVE  NetworkInv'
    <2>1. TypeOK' /\ RecordsInv' /\ TurnsInv' /\ MinerInv' /\ UndefinedOnlyWithStrays'
      BY <1>3 DEF NetworkInv, TypeOK, RecordsInv, TurnsInv, MinerInv, UndefinedOnlyWithStrays
    <2>2. ReadInv' /\ RestInv'
      BY <1>3 DEF NetworkInv, ReadInv, RestInv
    <2> QED
      BY <2>1, <2>2 DEF NetworkInv
  <1>4. CASE OnReadEnd \/ Halted \/ UNCHANGED vars
    BY <1>3, <1>4 DEF OnReadEnd, Halted, vars
  <1> QED
    BY <1>1, <1>2, <1>4, SuspendStep, DonateStep, StopStep DEF Next

-----------------------------------------------------------------------------
(* Theorems.                                                               *)

\* Whatever the pool and the donation server do and in whatever order libuv
\* calls back, the two clients, the strategies and the miner keep NetworkInv.
THEOREM NetworkInductive == Spec => []NetworkInv
  BY NetworkInit, NetworkStep, PTL DEF Spec

\* The records and flags are well formed; a request in flight is reused, or a live
\* socket deleted, only after suspend() or connect() made the donation client a
\* stray, and never by the client of the pool.
THEOREM NetworkInvariantHolds == Spec => []NetworkInvariant
  <1>1. NetworkInv => NetworkInvariant
    BY DEF NetworkInv, NetworkInvariant
  <1> QED
    BY <1>1, NetworkInductive, PTL

\* Unless libuv refuses it at once, the pool always has a lookup, a socket or a
\* retry pending, whatever the donation does.
THEOREM PoolNeverStrandedHolds == Spec => []PoolNeverStranded
  <1>1. NetworkInv => PoolNeverStranded
    <2>1. "pool" \in Ids
      BY DEF Ids
    <2>2. NetworkInv => clients["pool"].sock \in {"none", "opening", "refused", "open", "closing"}
      BY <2>1 DEF NetworkInv, TypeOK, Client
    <2> QED
      BY <2>1, <2>2
      DEF NetworkInv, RecordsInv, RecordOK, TurnsInv, PoolNeverStranded, Trying
  <1> QED
    BY <1>1, NetworkInductive, PTL

\* DonateStrategy's timer and the retries of its client never both run out: the
\* donation ends by a timer, and without one its client is trying to log in.
THEOREM DonationCycleGoesOnHolds == Spec => []DonationCycleGoesOn
  <1>1. NetworkInv => DonationCycleGoesOn
    <2>1. "donor" \in Ids
      BY DEF Ids
    <2>2. NetworkInv => clients["donor"].sock \in {"none", "opening", "refused", "open", "closing"}
      BY <2>1 DEF NetworkInv, TypeOK, Client
    <2> QED
      BY <2>1, <2>2
      DEF NetworkInv, RecordsInv, RecordOK, TurnsInv, DonationCycleGoesOn, Trying
  <1> QED
    BY <1>1, NetworkInductive, PTL

\* Outside a donation the miner works on the latest job of the pool and is paused
\* exactly while the pool is not active, if the pool sends no job before the
\* answer to a login (SinglePoolStrategy::onJobReceived() does not look at
\* m_active, so such a job would be mined).
THEOREM MinerFollowsPoolHolds ==
  ASSUME "pool" \notin Chatty
  PROVE  Spec => []MinerFollowsPool
  <1> DEFINE Calm == ~active => miner.paused
  <1>1. Init => Calm
    BY DEF Init
  <1>2. NetworkInv /\ Calm /\ [Next]_vars => Calm'
    <2> SUFFICES ASSUME NetworkInv, Calm, [Next]_vars PROVE Calm'
      OBVIOUS
    <2>0. paused(miner).paused = TRUE
      BY DEF NetworkInv, TypeOK, paused
    <2>1. ASSUME NEW k \in Ids, OnResolveError(k) \/ OnClose(k) PROVE Calm'
      BY <2>0, <2>1 DEF OnResolveError, OnClose, Reconnect
    <2>2. ASSUME NEW k \in Ids, NEW line \in Line, OnReadLine(k, line) PROVE Calm'
      <3>1. CASE k = "pool" /\ IsNews(clients[k], line)
        <4>1. active'
          BY <2>2, <3>1 DEF OnReadLine, OnLoginSuccess, Sends, IsNews
        <4> QED
          BY <4>1
      <3>2. CASE ~(k = "pool" /\ IsNews(clients[k], line))
        <4>1. miner' = miner /\ (active => active')
          BY <2>2, <3>2 DEF OnReadLine, OnLoginSuccess, OnJob, SetJob
        <4> QED
          BY <4>1
      <3> QED
        BY <3>1, <3>2
    <2>3. CASE Suspend
      BY <2>0, <2>3 DEF Suspend
    <2>4. CASE \/ UNCHANGED <<active, miner>>
      BY <2>4
    <2>5. ASSUME NEW k \in Ids, OnResolved(k) \/ OnConnect(k) \/ OnSocketError(k) \/ Tick(k) \/ Ping(k)
          PROVE  UNCHANGED <<active, miner>>
      BY <2>5 DEF OnResolved, OnConnect, OnSocketError, Tick, Ping
    <2>6. OnReadEnd \/ Donate \/ Submit \/ Stop \/ Halted \/ UNCHANGED vars
            => UNCHANGED <<active, miner>>
      BY DEF OnReadEnd, Donate, Submit, Stop, Halted, vars
    <2> QED
      BY <2>1, <2>2, <2>3, <2>4, <2>5, <2>6 DEF Next, ClientStep
  <1>3. NetworkInv /\ Calm => MinerFollowsPool
    BY DEF NetworkInv, MinerInv, MinerFollowsPool
  <1> QED
    BY <1>1, <1>2, <1>3, NetworkInductive, PTL DEF Spec
=============================================================================
