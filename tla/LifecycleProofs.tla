-------------------------- MODULE LifecycleProofs --------------------------
(***************************************************************************)
(* Proofs about Lifecycle, for any GPUs, threads, signals and bounds.      *)
(***************************************************************************)
EXTENDS Lifecycle, FiniteSetTheorems, SequenceTheorems, TLAPS

\* The types in the form in which the steps keep them.
MainPlaces ==
  {"httpd", "workers", "handles", "loop", "lock", "tick", "adl", "rates", "store", "poll",
   "closing", "left", "return", "deleted", "exit"}
HttpPlaces ==
  {"idle", "auth", "get", "miner", "gpus", "adapter", "status", "profile", "results",
   "connection"}
Faults == {"", "httpd", "options", "adl", "adapter", "gpus", "close"}

Walks == [visited : SUBSET Gpus, gpu : Gpus \cup {None}, held : Nat, torn : BOOLEAN,
          early : BOOLEAN]
Seens == [totals : Nat, threads : SUBSET Nat, results : Nat, connection : Nat]
Pipes == [waiting : Seq(Signals), sent : SUBSET Signals, count : Nat]

PlaceTypes ==
  /\ main \in MainPlaces /\ fault \in Faults
  /\ http \in HttpPlaces
  /\ m_httpd \in {"none", "live", "freed"} /\ m_mutex \in {"free", "main", "http"}
  /\ inserting \in {"no", "key", "handle"}

FlagTypes ==
  /\ adl \in BOOLEAN /\ options \in BOOLEAN /\ stopped \in BOOLEAN
  /\ closes \in Nat
  /\ watched \in SUBSET Signals

\* What Workers and Adl know of the GPUs.
GpuTypes ==
  /\ m_gpus \in SUBSET Gpus /\ handles \in Nat /\ handles <= Len(Threads)
  /\ inserting # "no" => handles < Len(Threads) /\ main \in {"handles", "exit"}
  /\ listed \in SUBSET Gpus /\ adapters \in SUBSET Gpus /\ listed \subseteq adapters
  /\ swept \in SUBSET Gpus

StateTypes ==
  /\ m_network \in [1 .. 2 -> Nat] /\ m_hashrate \in [1 .. 2 -> Nat]
  /\ tables \in [Gpus -> Nat] /\ buffers \in [Gpus -> SUBSET Nat]
  /\ walk \in Walks /\ seen \in Seens

TypesInv ==
  /\ PlaceTypes /\ FlagTypes /\ StateTypes
  /\ keys \in [waiting : Nat, pressed : Nat]
  /\ pipe \in Pipes /\ batch \in Seq(Signals)

\* The HTTP thread is between the lock and the unlock of Api::get(), and in getGpus().
Locked == {"miner", "gpus", "adapter", "status", "profile", "results", "connection"}
InGpus == {"gpus", "adapter", "status", "profile"}

\* Api::m_mutex, and what holds of the statistics outside Api::tick().
MutexInv ==
  /\ http \in Locked => m_mutex = "http"
  /\ main \in {"tick", "store"} => m_mutex = "main"
  /\ main \notin {"tick", "exit"} => m_network[1] = m_network[2]
  /\ main \notin {"store", "exit"} => m_hashrate[1] = m_hashrate[2]

\* What the thread that holds the mutex has seen of the statistics.
SeenInv ==
  /\ http = "connection" => seen.results = m_network[1]
  /\ http # "connection" => seen.results = seen.connection
  /\ http \in {"auth", "get", "miner"} => seen.threads = {}
  /\ http \in InGpus => seen.totals = m_hashrate[2]
  /\ seen.threads \subseteq {seen.totals}

\* Every call of close() has used up a key or the handle of a signal.
ClosesInv ==
  /\ closes + keys.waiting = keys.pressed + Cardinality(Signals \ watched)
  /\ ToSet(pipe.waiting) \cup ToSet(batch) \cup (Signals \ watched) \subseteq pipe.sent

\* What exec() has set up when it enters the loop, and has not torn down yet.
SetUpInv ==
  /\ InLoop => adl /\ options /\ m_httpd # "freed"
  /\ main \in {"httpd", "workers", "handles"} => ~adl /\ options /\ m_httpd # "freed"

\* Adl: a pointer is null or leads to a table that was not freed; and a request that
\* goes on has a GPU, an Adl to ask and, behind the status, a table in its hands.
TablesInv ==
  /\ \A g \in Gpus : tables[g] = 0 \/ tables[g] \in buffers[g]
  /\ \A g \in listed : tables[g] # 0

HandsInv ==
  /\ http \in {"adapter", "status", "profile"} => walk.gpu \in Gpus
  /\ (http \in {"status", "profile"} /\ fault = "") => adl
  /\ (http = "profile" /\ fault = "") => walk.held \in buffers[walk.gpu]

LifecycleInv ==
  /\ TypesInv /\ GpuTypes /\ MutexInv /\ SeenInv /\ ClosesInv /\ SetUpInv /\ TablesInv
  /\ HandsInv

-----------------------------------------------------------------------------
(* The actions, in groups that touch the same variables.                   *)

StartUp ==
  HttpdStart \/ WorkersStart \/ Insert \/ InsertKey \/ InsertHandle \/ AdlStart
Ticks ==
  \/ Tick \/ TickLock \/ TickEnd \/ WorkersTick \/ (\E g \in Gpus : AdlTick(g)) \/ AdlTickEnd
  \/ RatesLock \/ RatesEnd
Polling  == Poll \/ ReadKey \/ ReadPipe \/ OnSignal \/ Closed \/ PollEnd
TearDown == Release \/ Delete \/ Exit
Outside  == Key \/ \E s \in Signals : Signal(s)

\* Every step belongs to one of the groups.
LEMMA Groups ==
  [Next]_vars => StartUp \/ Ticks \/ Polling \/ TearDown \/ Serve \/ Request \/ Outside
                   \/ UNCHANGED vars
  BY DEF Next, Main, StartUp, Ticks, Polling, TearDown, Outside

\* The threads, the keys and the signals leave the flags in their types.
LEMMA FlagTypesStep == FlagTypes /\ [Next]_vars => FlagTypes'
  <1> SUFFICES ASSUME FlagTypes, [Next]_vars PROVE FlagTypes'
    OBVIOUS
  <1> USE DEF FlagTypes, gpuVars, adlVars, mainVars, loopVars, apiVars, httpVars
  <1>1. CASE StartUp
    BY <1>1 DEF StartUp, HttpdStart, WorkersStart, Insert, InsertKey, InsertHandle, AdlStart
  <1>2. CASE Ticks
    BY <1>2 DEF Ticks, Tick, TickLock, TickEnd, WorkersTick, AdlTick, AdlTickEnd, RatesLock,
                RatesEnd
  <1>3. CASE Polling
    <2>1. CASE Poll \/ ReadPipe \/ Closed \/ PollEnd
      BY <2>1 DEF Poll, ReadPipe, Closed, PollEnd
    <2>2. CASE ReadKey
      BY <2>2 DEF ReadKey, Close
    <2>3. CASE OnSignal
      BY <2>3 DEF OnSignal, Unwatch, Close
    <2> QED
      BY <1>3, <2>1, <2>2, <2>3 DEF Polling
  <1>4. CASE TearDown
    BY <1>4 DEF TearDown, Release, Delete, Exit
  <1>5. CASE Serve \/ Request
    BY <1>5 DEF Serve, Request, Auth, Get, GetMiner, GetGpu, GetAdapter, GetStatus, GetProfile,
                GetGpusEnd, GetResults, GetConnection, Risk
  <1>6. CASE Outside
    BY <1>6 DEF Outside, Key, Signal
  <1>7. CASE UNCHANGED vars
    BY <1>7 DEF vars
  <1> QED
    BY <1>1, <1>2, <1>3, <1>4, <1>5, <1>6, <1>7, Groups

\* The main thread and the HTTP thread go from one of their places to another.
LEMMA PlaceTypesStep == PlaceTypes /\ [Next]_vars => PlaceTypes'
  <1> SUFFICES ASSUME PlaceTypes, [Next]_vars PROVE PlaceTypes'
    OBVIOUS
  <1> USE DEF PlaceTypes, MainPlaces, HttpPlaces, Faults, gpuVars, adlVars, mainVars, loopVars, apiVars, httpVars
  <1>1. CASE StartUp
    BY <1>1 DEF StartUp, HttpdStart, WorkersStart, Insert, InsertKey, InsertHandle, AdlStart
  <1>2. CASE Ticks
    BY <1>2 DEF Ticks, Tick, TickLock, TickEnd, WorkersTick, AdlTick, AdlTickEnd, RatesLock,
                RatesEnd
  <1>3. CASE Polling
    BY <1>3 DEF Polling, Poll, ReadKey, ReadPipe, OnSignal, Closed, PollEnd, Close
  <1>4. CASE TearDown
    BY <1>4 DEF TearDown, Release, Delete, Exit
  <1>5. CASE Serve \/ Request
    BY <1>5 DEF Serve, Request, Auth, Get, GetMiner, GetGpu, GetAdapter, GetStatus, GetProfile,
                GetGpusEnd, GetResults, GetConnection, Risk
  <1>6. CASE Outside
    BY <1>6 DEF Outside, Key, Signal
  <1>7. CASE UNCHANGED vars
    <2>1. UNCHANGED <<main, fault, http, m_httpd, m_mutex, inserting>>
      BY <1>7 DEF vars
    <2> HIDE DEF MainPlaces, HttpPlaces, Faults
    <2> QED
      BY <2>1
  <1> QED
    BY <1>1, <1>2, <1>3, <1>4, <1>5, <1>6, <1>7, Groups

\* Who writes the records (the statistics, the tables, the request, the keys, the
\* signals) and who calls App::close().
LEMMA Writers ==
  ASSUME [Next]_vars
  PROVE  /\ TickLock \/ TickEnd \/ UNCHANGED m_network
         /\ RatesLock \/ RatesEnd \/ UNCHANGED m_hashrate
         /\ AdlStart \/ (\E g \in Gpus : AdlTick(g)) \/ UNCHANGED <<tables, buffers, listed>>
         /\ Serve \/ Request \/ UNCHANGED <<http, walk, seen>>
         /\ Key \/ ReadKey \/ UNCHANGED keys
         /\ ReadPipe \/ OnSignal \/ (\E s \in Signals : Signal(s)) \/ UNCHANGED <<pipe, batch>>
         /\ ReadKey \/ OnSignal \/ UNCHANGED <<watched, closes>>
  <1> USE DEF gpuVars, adlVars, mainVars, loopVars, apiVars, httpVars
  <1>1. CASE StartUp
    BY <1>1 DEF StartUp, HttpdStart, WorkersStart, Insert, InsertKey, InsertHandle, AdlStart
  <1>2. CASE Ticks
    BY <1>2 DEF Ticks, Tick, TickLock, TickEnd, WorkersTick, AdlTick, AdlTickEnd, RatesLock,
                RatesEnd
  <1>3. CASE Polling
    BY <1>3 DEF Polling, Poll, ReadKey, ReadPipe, OnSignal, Closed, PollEnd, Close
  <1>4. CASE TearDown
    BY <1>4 DEF TearDown, Release, Delete, Exit
  <1>5. CASE Serve \/ Request
    BY <1>5 DEF Serve, Request, Auth, Get, GetMiner, GetGpu, GetAdapter, GetStatus, GetProfile,
                GetGpusEnd, GetResults, GetConnection, Risk
  <1>6. CASE Outside
    BY <1>6 DEF Outside, Key, Signal
  <1>7. CASE UNCHANGED vars
    BY <1>7 DEF vars
  <1> QED
    BY <1>1, <1>2, <1>3, <1>4, <1>5, <1>6, <1>7, Groups

\* Workers::start() takes the threads one by one, and requests only add to adapters.
LEMMA GpuTypesStep ==
  ASSUME GpuTypes, PlaceTypes, walk \in Walks, HandsInv, [Next]_vars
  PROVE  GpuTypes'
  <1> USE DEF GpuTypes, Alive, gpuVars, adlVars, mainVars, loopVars, apiVars, httpVars
  <1>0. Len(Threads) \in Nat /\ \A i \in 1 .. Len(Threads) : Threads[i] \in Gpus
    BY LifecycleAssumption
  <1>1. CASE StartUp
    <2>1. CASE HttpdStart \/ WorkersStart
      BY <2>1 DEF HttpdStart, WorkersStart
    <2>2. CASE Insert
      BY <2>2 DEF Insert
    <2>3. CASE InsertKey
      <3>0. handles \in Nat /\ handles < Len(Threads)
        BY <2>3 DEF InsertKey
      <3>1. handles + 1 \in 1 .. Len(Threads)
        BY <1>0, <3>0
      <3>2. Bus \in Gpus
        BY <1>0, <3>1 DEF Bus
      <3> QED
        BY <2>3, <3>2 DEF InsertKey
    <2>4. CASE InsertHandle
      <3>0. handles \in Nat /\ handles < Len(Threads)
        BY <2>4 DEF InsertHandle
      <3>1. handles + 1 \in Nat /\ handles + 1 <= Len(Threads)
        BY <1>0, <3>0
      <3>2. /\ handles' = handles + 1 /\ inserting' = "no"
            /\ UNCHANGED <<m_gpus, listed, adapters, swept>>
        BY <2>4 DEF InsertHandle
      <3> QED
        BY <3>1, <3>2
    <2>5. CASE AdlStart
      BY <2>5 DEF AdlStart
    <2> QED
      BY <1>1, <2>1, <2>2, <2>3, <2>4, <2>5 DEF StartUp
  <1>2. CASE Ticks
    BY <1>2 DEF Ticks, Tick, TickLock, TickEnd, WorkersTick, AdlTick, AdlTickEnd, RatesLock,
                RatesEnd
  <1>3. CASE Polling
    BY <1>3 DEF Polling, Poll, ReadKey, ReadPipe, OnSignal, Closed, PollEnd, Close
  <1>4. CASE TearDown
    BY <1>4 DEF TearDown, Release, Delete, Exit
  <1>5. CASE Serve \/ Request
    <2>1. CASE GetAdapter
      BY <2>1 DEF GetAdapter, HandsInv
    <2>2. CASE ~GetAdapter
      BY <1>5, <2>2 DEF Serve, Request, Auth, Get, GetMiner, GetGpu, GetStatus, GetProfile,
                        GetGpusEnd, GetResults, GetConnection
    <2> QED
      BY <2>1, <2>2
  <1>6. CASE Outside
    BY <1>6 DEF Outside, Key, Signal
  <1>7. CASE UNCHANGED vars
    BY <1>7 DEF vars
  <1> QED
    BY <1>1, <1>2, <1>3, <1>4, <1>5, <1>6, <1>7, Groups

\* Console: a key is counted once when it is pressed and once when it is read.
LEMMA KeysStep ==
  ASSUME keys \in [waiting : Nat, pressed : Nat], [Next]_vars
  PROVE  keys' \in [waiting : Nat, pressed : Nat]
  <1>1. CASE Key
    BY <1>1 DEF Key
  <1>2. CASE ReadKey
    <2>1. CASE keys.waiting > 0
      <3>1. keys' = [keys EXCEPT !.waiting = @ - 1]
        BY <1>2, <2>1 DEF ReadKey
      <3> QED
        BY <2>1, <3>1
    <2>2. CASE ~(keys.waiting > 0)
      BY <1>2, <2>2 DEF ReadKey
    <2> QED
      BY <2>1, <2>2
  <1> QED
    BY <1>1, <1>2, Writers

\* Signals go through the pipe of libuv and are dispatched from a copy of it.
LEMMA PipeStep ==
  ASSUME pipe \in Pipes, batch \in Seq(Signals), [Next]_vars
  PROVE  pipe' \in Pipes /\ batch' \in Seq(Signals)
  <1> USE DEF Pipes
  <1>1. CASE ReadPipe
    <2> DEFINE none == <<>>
    <2>1. none \in Seq(Signals)
      OBVIOUS
    <2>2. pipe' = [pipe EXCEPT !.waiting = none] /\ batch' = pipe.waiting
      BY <1>1 DEF ReadPipe
    <2> HIDE DEF none
    <2> QED
      BY <2>1, <2>2
  <1>2. CASE OnSignal
    BY <1>2 DEF OnSignal
  <1>3. ASSUME NEW s \in Signals, Signal(s)
        PROVE  pipe' \in Pipes /\ UNCHANGED batch
    <2>1. Append(pipe.waiting, s) \in Seq(Signals)
      OBVIOUS
    <2>2. PICK w \in Seq(Signals) :
            pipe' = [waiting |-> w, sent |-> pipe.sent \cup {s}, count |-> pipe.count + 1]
      BY <1>3, <2>1 DEF Signal
    <2> QED
      BY <1>3, <2>2 DEF Signal
  <1> QED
    BY <1>1, <1>2, <1>3, Writers

\* The statistics and the tables keep their types.
LEMMA StateStep ==
  ASSUME StateTypes, [Next]_vars
  PROVE  /\ m_network' \in [1 .. 2 -> Nat] /\ m_hashrate' \in [1 .. 2 -> Nat]
         /\ tables' \in [Gpus -> Nat] /\ buffers' \in [Gpus -> SUBSET Nat]
  <1> USE DEF StateTypes
  <1>1. m_network' \in [1 .. 2 -> Nat]
    BY Writers DEF TickLock, TickEnd
  <1>2. m_hashrate' \in [1 .. 2 -> Nat]
    BY Writers DEF RatesLock, RatesEnd
  <1>3. CASE AdlStart
    BY <1>1, <1>2, <1>3 DEF AdlStart
  <1>4. ASSUME NEW g \in Gpus, AdlTick(g)
        PROVE  tables' \in [Gpus -> Nat] /\ buffers' \in [Gpus -> SUBSET Nat]
    BY <1>4 DEF AdlTick
  <1> QED
    BY <1>1, <1>2, <1>3, <1>4, Writers

\* The walk over the GPUs keeps its types.
LEMMA WalkStep ==
  ASSUME StateTypes, PlaceTypes, HandsInv, [Next]_vars
  PROVE  walk' \in Walks
  <1> USE DEF StateTypes, Walks
  <1>0. NoWalk \in Walks
    BY DEF NoWalk
  <1>1. CASE GetMiner
    <2> DEFINE b == handles < Len(Threads)
    <2>0. b \in BOOLEAN
      OBVIOUS
    <2>1. walk' = [NoWalk EXCEPT !.early = b]
      BY <1>1 DEF GetMiner
    <2> HIDE DEF b
    <2> QED
      BY <1>0, <2>0, <2>1
  <1>2. ASSUME NEW g \in Gpus, GetGpu(g) PROVE walk' \in Walks
    <2>1. PICK b \in BOOLEAN :
            walk' = [walk EXCEPT !.visited = @ \cup {g}, !.gpu = g, !.torn = b]
      BY <1>2, Zenon DEF GetGpu, Tearing
    <2> DEFINE w == [walk EXCEPT !.visited = @ \cup {g}]
               v == [w EXCEPT !.gpu = g]
    <2>2. w \in Walks
      OBVIOUS
    <2>3. v \in Walks
      BY <2>2
    <2>4. walk' = [v EXCEPT !.torn = b]
      BY <2>1
    <2> HIDE DEF w, v
    <2> QED
      BY <2>3, <2>4
  <1>3. CASE GetStatus
    <2>1. walk.gpu \in Gpus
      BY <1>3 DEF GetStatus, HandsInv
    <2>2. tables[walk.gpu] \in Nat
      BY <2>1
    <2> QED
      BY <1>3, <2>2 DEF GetStatus
  <1>4. CASE GetGpusEnd
    BY <1>0, <1>4 DEF GetGpusEnd
  <1>5. CASE UNCHANGED walk
    BY <1>5
  <1> QED
    BY <1>1, <1>2, <1>3, <1>4, <1>5, Writers DEF Serve, Request, Auth, Get, GetAdapter,
       GetProfile, GetResults, GetConnection

\* What the request has read keeps its types.
LEMMA SeenTypesStep ==
  ASSUME StateTypes, [Next]_vars
  PROVE  seen' \in Seens
  <1> USE DEF StateTypes, Seens
  <1>0. \A i \in 1 .. 2 : m_network[i] \in Nat /\ m_hashrate[i] \in Nat
    OBVIOUS
  <1>1. CASE Request
    BY <1>1 DEF Request, Nothing
  <1>2. CASE GetMiner
    BY <1>0, <1>2 DEF GetMiner
  <1>3. CASE GetProfile
    BY <1>0, <1>3 DEF GetProfile
  <1>4. CASE GetResults
    BY <1>0, <1>4 DEF GetResults
  <1>5. CASE GetConnection
    BY <1>0, <1>5 DEF GetConnection
  <1>6. CASE UNCHANGED seen
    BY <1>6
  <1> QED
    BY <1>1, <1>2, <1>3, <1>4, <1>5, <1>6, Writers DEF Serve, Auth, Get, GetGpu, GetAdapter,
       GetStatus, GetGpusEnd

\* No step of the main thread, of the HTTP thread or of the user leaves the types.
LEMMA TypesStep ==
  TypesInv /\ HandsInv /\ [Next]_vars => TypesInv'
  <1> SUFFICES ASSUME TypesInv, HandsInv, [Next]_vars PROVE TypesInv'
    OBVIOUS
  <1>1. PlaceTypes' /\ FlagTypes' /\ (keys \in [waiting : Nat, pressed : Nat])'
    BY PlaceTypesStep, FlagTypesStep, KeysStep DEF TypesInv
  <1>2. (pipe \in Pipes /\ batch \in Seq(Signals))'
    BY PipeStep DEF TypesInv
  <1>3. StateTypes'
    BY StateStep, WalkStep, SeenTypesStep DEF TypesInv, StateTypes
  <1> QED
    BY <1>1, <1>2, <1>3 DEF TypesInv

\* Api::tick() and Api::get() exclude each other.
LEMMA MutexStep ==
  ASSUME StateTypes, PlaceTypes, MutexInv, [Next]_vars
  PROVE  MutexInv'
  <1> USE DEF MutexInv, Locked, Alive, gpuVars, adlVars, mainVars, loopVars, apiVars, httpVars
  <1>1. CASE StartUp
    BY <1>1 DEF StartUp, HttpdStart, WorkersStart, Insert, InsertKey, InsertHandle, AdlStart
  <1>2. CASE Ticks
    <2>1. CASE Tick \/ WorkersTick \/ AdlTickEnd \/ \E g \in Gpus : AdlTick(g)
      BY <2>1 DEF Tick, WorkersTick, AdlTickEnd, AdlTick
    <2>2. CASE TickLock \/ RatesLock
      BY <2>2 DEF TickLock, RatesLock
    <2>3. CASE TickEnd
      <3>1. m_network' = [m_network EXCEPT ![2] = m_network[1]] /\ m_network \in [1 .. 2 -> Nat]
        BY <2>3 DEF TickEnd, StateTypes
      <3>2. m_network'[1] = m_network'[2]
        BY <3>1
      <3> QED
        BY <2>3, <3>2 DEF TickEnd
    <2>4. CASE RatesEnd
      <3>1. m_hashrate' = [m_hashrate EXCEPT ![2] = m_hashrate[1]] /\ m_hashrate \in [1 .. 2 -> Nat]
        BY <2>4 DEF RatesEnd, StateTypes
      <3>2. m_hashrate'[1] = m_hashrate'[2]
        BY <3>1
      <3> QED
        BY <2>4, <3>2 DEF RatesEnd
    <2> QED
      BY <1>2, <2>1, <2>2, <2>3, <2>4 DEF Ticks
  <1>3. CASE Polling
    BY <1>3 DEF Polling, Poll, ReadKey, ReadPipe, OnSignal, Closed, PollEnd, Close
  <1>4. CASE TearDown
    BY <1>4 DEF TearDown, Release, Delete, Exit
  <1>5. CASE Serve \/ Request
    BY <1>5 DEF Serve, Request, Auth, Get, GetMiner, GetGpu, GetAdapter, GetStatus, GetProfile,
                GetGpusEnd, GetResults, GetConnection, Risk
  <1>6. CASE Outside
    BY <1>6 DEF Outside, Key, Signal
  <1>7. CASE UNCHANGED vars
    BY <1>7 DEF vars
  <1> QED
    BY <1>1, <1>2, <1>3, <1>4, <1>5, <1>6, <1>7, Groups

\* Under the lock a request reads one state of the statistics.
LEMMA SeenStep ==
  ASSUME StateTypes, PlaceTypes, MutexInv, SeenInv, [Next]_vars
  PROVE  SeenInv'
  <1> USE DEF SeenInv, InGpus
  <1>0. seen \in Seens
    BY DEF StateTypes
  <1>1. CASE UNCHANGED <<http, walk, seen>>
    <2>1. http = "connection" => m_network'[1] = m_network[1]
      <3>1. TickLock \/ TickEnd => m_mutex # "http"
        BY DEF TickLock, TickEnd, MutexInv
      <3> QED
        BY <3>1, Writers DEF MutexInv, Locked
    <2>2. http \in InGpus => m_hashrate'[2] = m_hashrate[2]
      <3>1. RatesLock \/ RatesEnd => m_mutex # "http"
        BY DEF RatesLock, RatesEnd, MutexInv
      <3> QED
        BY <3>1, Writers DEF MutexInv, Locked
    <2> QED
      BY <1>1, <2>1, <2>2
  <1>2. CASE Request
    BY <1>2 DEF Request, Nothing
  <1>3. CASE Auth \/ Get \/ GetAdapter \/ GetStatus \/ GetGpusEnd \/ \E g \in Gpus : GetGpu(g)
    BY <1>3 DEF Auth, Get, GetAdapter, GetStatus, GetGpusEnd, GetGpu, apiVars
  <1>4. CASE GetMiner
    <2>1. seen' = [seen EXCEPT !.totals = m_hashrate[2]] /\ http = "miner" /\ http' = "gpus"
          /\ UNCHANGED m_hashrate
      BY <1>4 DEF GetMiner, apiVars
    <2> QED
      BY <1>0, <2>1 DEF Seens
  <1>5. CASE GetProfile
    <2>1. seen' = [seen EXCEPT !.threads = @ \cup {m_hashrate[1]}] /\ http = "profile"
          /\ http' = "gpus" /\ UNCHANGED m_hashrate
      BY <1>5 DEF GetProfile, apiVars
    <2>2. m_hashrate[1] = m_hashrate[2]
      BY <1>5, <2>1 DEF GetProfile, Alive, MutexInv, Locked
    <2> QED
      BY <1>0, <2>1, <2>2 DEF Seens
  <1>6. CASE GetResults
    <2>1. seen' = [seen EXCEPT !.results = m_network[1]] /\ http' = "connection"
          /\ UNCHANGED m_network
      BY <1>6 DEF GetResults, apiVars
    <2> QED
      BY <1>0, <2>1 DEF Seens
  <1>7. CASE GetConnection
    <2>1. seen' = [seen EXCEPT !.connection = m_network[2]] /\ http = "connection"
          /\ http' = "idle"
      BY <1>7 DEF GetConnection
    <2>2. m_network[1] = m_network[2]
      BY <1>7, <2>1 DEF GetConnection, Alive, MutexInv, Locked
    <2> QED
      BY <1>0, <2>1, <2>2 DEF Seens
  <1> QED
    BY <1>1, <1>2, <1>3, <1>4, <1>5, <1>6, <1>7, Writers DEF Serve

\* What a request reads is there from the first iteration of the loop to the last.
LEMMA SetUpStep ==
  ASSUME PlaceTypes, SetUpInv, [Next]_vars
  PROVE  SetUpInv'
  <1> USE DEF SetUpInv, InLoop, Alive, gpuVars, adlVars, mainVars, loopVars, apiVars, httpVars
  <1>1. CASE StartUp
    <2>1. CASE HttpdStart
      BY <2>1 DEF HttpdStart
    <2>2. CASE WorkersStart
      BY <2>2 DEF WorkersStart
    <2>3. CASE Insert \/ InsertKey \/ InsertHandle
      <3>1. UNCHANGED <<main, adl, options, m_httpd>>
        BY <2>3 DEF Insert, InsertKey, InsertHandle
      <3> QED
        BY <3>1
    <2>4. CASE AdlStart
      BY <2>4 DEF AdlStart
    <2> QED
      BY <1>1, <2>1, <2>2, <2>3, <2>4 DEF StartUp
  <1>2. CASE Ticks
    BY <1>2 DEF Ticks, Tick, TickLock, TickEnd, WorkersTick, AdlTick, AdlTickEnd, RatesLock,
                RatesEnd
  <1>3. CASE Polling
    BY <1>3 DEF Polling, Poll, ReadKey, ReadPipe, OnSignal, Closed, PollEnd, Close
  <1>4. CASE TearDown
    BY <1>4 DEF TearDown, Release, Delete, Exit
  <1>5. CASE Serve \/ Request
    <2>1. UNCHANGED <<main, adl, options, m_httpd>>
      BY <1>5 DEF Serve, Request, Auth, Get, GetMiner, GetGpu, GetAdapter, GetStatus,
                  GetProfile, GetGpusEnd, GetResults, GetConnection
    <2> QED
      BY <2>1
  <1>6. CASE Outside
    <2>1. UNCHANGED <<adl, options, m_httpd>> /\ (UNCHANGED main \/ main' = "exit")
      BY <1>6 DEF Outside, Key, Signal
    <2> QED
      BY <2>1
  <1>7. CASE UNCHANGED vars
    BY <1>7 DEF vars
  <1> QED
    BY <1>1, <1>2, <1>3, <1>4, <1>5, <1>6, <1>7, Groups

\* Adl::tick() puts a table that exists in the place of another, and frees none.
LEMMA TablesStep ==
  ASSUME StateTypes, GpuTypes, SetUpInv, TablesInv, HandsInv, [Next]_vars
  PROVE  /\ TablesInv'
         /\ \A g \in Gpus : adl => buffers[g] \subseteq buffers'[g]
  <1> USE DEF TablesInv
  <1>1. CASE UNCHANGED <<tables, buffers, listed>>
    BY <1>1
  <1>2. CASE AdlStart
    <2>1. ~adl
      BY <1>2 DEF AdlStart, SetUpInv
    <2> QED
      BY <1>2, <2>1 DEF AdlStart
  <1>3. ASSUME NEW g \in Gpus, AdlTick(g)
        PROVE  TablesInv' /\ \A h \in Gpus : buffers[h] \subseteq buffers'[h]
    <2>1. /\ tables' = [tables EXCEPT ![g] = @ + 1] /\ UNCHANGED listed
          /\ buffers' = [buffers EXCEPT ![g] = @ \cup {tables[g] + 1}]
          /\ tables \in [Gpus -> Nat] /\ buffers \in [Gpus -> SUBSET Nat]
          /\ listed \subseteq Gpus
      BY <1>3 DEF AdlTick, StateTypes, GpuTypes
    <2>2. /\ tables'[g] = tables[g] + 1 /\ tables'[g] # 0
          /\ buffers'[g] = buffers[g] \cup {tables[g] + 1}
      BY <2>1
    <2>3. ASSUME NEW h \in Gpus, h # g
          PROVE  tables'[h] = tables[h] /\ buffers'[h] = buffers[h]
      BY <2>1, <2>3
    <2> QED
      BY <2>1, <2>2, <2>3
  <1> QED
    BY <1>1, <1>2, <1>3, Writers

\* What a request has in its hands stays there while the others work.
LEMMA HandsStep ==
  ASSUME StateTypes, PlaceTypes, GpuTypes, SetUpInv, TablesInv, HandsInv, [Next]_vars
  PROVE  HandsInv'
  <1> USE DEF HandsInv
  <1>0. walk \in Walks
    BY DEF StateTypes
  <1>1. /\ adl => adl'
        /\ fault' = "" => fault = ""
    <2> USE DEF gpuVars, adlVars, mainVars, loopVars, apiVars, httpVars, Alive
    <2>1. CASE StartUp
      BY <2>1 DEF StartUp, HttpdStart, WorkersStart, Insert, InsertKey, InsertHandle, AdlStart
    <2>2. CASE Ticks
      BY <2>2 DEF Ticks, Tick, TickLock, TickEnd, WorkersTick, AdlTick, AdlTickEnd, RatesLock,
                  RatesEnd
    <2>3. CASE Polling
      BY <2>3 DEF Polling, Poll, ReadKey, ReadPipe, OnSignal, Closed, PollEnd, Close
    <2>4. CASE TearDown
      BY <2>4 DEF TearDown, Release, Delete, Exit
    <2>5. CASE Serve \/ Request
      BY <2>5 DEF Serve, Request, Auth, Get, GetMiner, GetGpu, GetAdapter, GetStatus, GetProfile,
                  GetGpusEnd, GetResults, GetConnection, Risk
    <2>6. CASE Outside
      BY <2>6 DEF Outside, Key, Signal
    <2>7. CASE UNCHANGED vars
      BY <2>7 DEF vars
    <2> QED
      BY <2>1, <2>2, <2>3, <2>4, <2>5, <2>6, <2>7, Groups
  <1>2. CASE UNCHANGED <<http, walk, seen>>
    BY <1>1, <1>2, TablesStep
  <1>3. CASE Request \/ Auth \/ Get \/ GetMiner \/ GetProfile \/ GetGpusEnd \/ GetResults
               \/ GetConnection
    BY <1>3 DEF Request, Auth, Get, GetMiner, GetProfile, GetGpusEnd, GetResults, GetConnection
  <1>4. ASSUME NEW g \in Gpus, GetGpu(g) PROVE HandsInv'
    <2>1. http' = "adapter" /\ walk'.gpu = g
      BY <1>0, <1>4 DEF GetGpu, Walks
    <2> QED
      BY <2>1
  <1>5. CASE GetAdapter
    <2>1. http' = "status" /\ UNCHANGED walk /\ http = "adapter" /\ (fault' = "" => adl)
      BY <1>5 DEF GetAdapter
    <2> QED
      BY <1>1, <2>1
  <1>6. CASE GetStatus
    <2>1. /\ http = "status" /\ http' = "profile" /\ walk'.gpu = walk.gpu
          /\ walk'.held = tables[walk.gpu] /\ walk.gpu \in Gpus
          /\ fault' = "" => tables[walk.gpu] # 0
          /\ UNCHANGED buffers /\ fault = ""
      BY <1>0, <1>6 DEF GetStatus, Walks, Alive, mainVars, adlVars
    <2> QED
      BY <1>1, <2>1 DEF TablesInv
  <1> QED
    BY <1>2, <1>3, <1>4, <1>5, <1>6, Writers DEF Serve

\* Taking a signal out of the watched ones adds it to those whose handle is used up.
LEMMA UnwatchFacts ==
  ASSUME watched \in SUBSET Signals, NEW s \in watched
  PROVE  /\ Signals \ Unwatch(s) = (Signals \ watched) \cup {s}
         /\ Cardinality(Signals \ Unwatch(s)) = Cardinality(Signals \ watched) + 1
         /\ Cardinality(Signals \ watched) \in Nat
  <1>1. Signals \ Unwatch(s) = (Signals \ watched) \cup {s}
    BY DEF Unwatch
  <1>2. IsFiniteSet(Signals \ watched)
    BY LifecycleAssumption, FS_Difference
  <1>3. Cardinality((Signals \ watched) \cup {s}) = Cardinality(Signals \ watched) + 1
    BY <1>2, FS_AddElement
  <1> QED
    BY <1>1, <1>2, <1>3, FS_CardinalityType

\* What the sequences of signals hold, step by step.
LEMMA SignalSets ==
  /\ \A q \in Seq(Signals), s \in Signals : ToSet(Append(q, s)) = ToSet(q) \cup {s}
  /\ \A q \in Seq(Signals) :
       q # <<>> => Head(q) \in ToSet(q) /\ ToSet(Tail(q)) \subseteq ToSet(q)
  /\ ToSet(<<>>) = {}
  /\ \A q \in Seq(Signals) : ToSet(q) \subseteq Signals
  <1>1. ASSUME NEW q \in Seq(Signals), NEW s \in Signals
        PROVE  ToSet(Append(q, s)) = ToSet(q) \cup {s}
    <2>1. /\ Append(q, s) \in Seq(Signals) /\ Len(Append(q, s)) = Len(q) + 1
          /\ \A i \in 1 .. Len(q) : Append(q, s)[i] = q[i]
          /\ Append(q, s)[Len(q) + 1] = s
      OBVIOUS
    <2>2. \A r \in Seq(Signals) : ToSet(r) = {r[i] : i \in 1 .. Len(r)}
      BY DEF ToSet
    <2>3. 1 .. Len(q) + 1 = (1 .. Len(q)) \cup {Len(q) + 1}
      OBVIOUS
    <2>4. ASSUME NEW x \in ToSet(Append(q, s)) PROVE x \in ToSet(q) \cup {s}
      <3>0. ToSet(Append(q, s)) = {Append(q, s)[i] : i \in 1 .. Len(q) + 1}
        BY <2>1, <2>2
      <3>1. PICK i \in 1 .. Len(q) + 1 : x = Append(q, s)[i]
        BY <3>0
      <3>2. CASE i \in 1 .. Len(q)
        BY <2>1, <2>2, <3>1, <3>2
      <3>3. CASE i = Len(q) + 1
        BY <2>1, <3>1, <3>3
      <3> QED
        BY <2>3, <3>1, <3>2, <3>3
    <2>5. ASSUME NEW x \in ToSet(q) \cup {s} PROVE x \in ToSet(Append(q, s))
      <3>1. PICK i \in 1 .. Len(q) + 1 : x = Append(q, s)[i]
        BY <2>1, <2>2, <2>3
      <3> QED
        BY <2>1, <2>2, <3>1
    <2> QED
      BY <2>4, <2>5
  <1>2. ASSUME NEW q \in Seq(Signals), q # <<>>
        PROVE  Head(q) \in ToSet(q) /\ ToSet(Tail(q)) \subseteq ToSet(q)
    BY <1>2 DEF ToSet
  <1>3. ToSet(<<>>) = {} /\ \A q \in Seq(Signals) : ToSet(q) \subseteq Signals
    BY DEF ToSet
  <1> QED
    BY <1>1, <1>2, <1>3

\* The handles that are used up, and the steps that do not use one up.
Used == Cardinality(Signals \ watched)

\* App::close() runs once for a key and once for a handle: every call has used up
\* one of them (Console.cpp, onRead; App.cpp, onSignal).
LEMMA ClosesStep ==
  ASSUME TypesInv, closes + keys.waiting = keys.pressed + Used, [Next]_vars
  PROVE  closes' + keys'.waiting = keys'.pressed + Used'
  <1>0. /\ watched \in SUBSET Signals /\ closes \in Nat
        /\ keys \in [waiting : Nat, pressed : Nat]
    BY DEF TypesInv, FlagTypes
  <1>1. Used \in Nat
    BY <1>0, LifecycleAssumption, FS_Difference, FS_CardinalityType DEF Used
  <1>2. UNCHANGED watched => UNCHANGED Used
    BY DEF Used
  <1>3. CASE UNCHANGED <<closes, keys, watched>>
    BY <1>2, <1>3
  <1>4. CASE Key
    <2>1. keys'.waiting = keys.waiting + 1 /\ keys'.pressed = keys.pressed + 1
      BY <1>4 DEF Key
    <2>2. UNCHANGED <<closes, watched>>
      BY <1>4 DEF Key
    <2> QED
      BY <1>0, <1>1, <1>2, <2>1, <2>2
  <1>5. CASE ReadKey
    <2>1. UNCHANGED watched
      BY <1>5 DEF ReadKey
    <2>2. CASE keys.waiting > 0
      <3>1. keys' = [keys EXCEPT !.waiting = @ - 1] /\ closes' = closes + 1
        BY <1>5, <2>2 DEF ReadKey, Close
      <3>2. keys'.waiting = keys.waiting - 1 /\ keys'.pressed = keys.pressed
        BY <1>0, <3>1
      <3> QED
        BY <1>0, <1>1, <1>2, <2>1, <3>1, <3>2
    <2>3. CASE ~(keys.waiting > 0)
      <3>1. UNCHANGED <<closes, keys>>
        BY <1>5, <2>3 DEF ReadKey
      <3> QED
        BY <1>2, <2>1, <3>1
    <2> QED
      BY <2>2, <2>3
  <1>6. CASE OnSignal
    <2>1. UNCHANGED keys
      BY <1>6 DEF OnSignal
    <2>2. CASE Head(batch) \in watched
      <3>1. watched' = Unwatch(Head(batch)) /\ closes' = closes + 1
        BY <1>6, <2>2 DEF OnSignal, Close
      <3>2. Used' = Used + 1
        BY <1>0, <2>2, <3>1, UnwatchFacts DEF Used
      <3> QED
        BY <1>0, <1>1, <2>1, <3>1, <3>2
    <2>3. CASE Head(batch) \notin watched
      <3>1. UNCHANGED <<closes, watched>>
        BY <1>6, <2>3 DEF OnSignal
      <3> QED
        BY <1>2, <2>1, <3>1
    <2> QED
      BY <2>2, <2>3
  <1> QED
    BY <1>3, <1>4, <1>5, <1>6, Writers

\* Every signal whose handle is used up, or that is on its way to the handle, was sent.
LEMMA HeardStep ==
  ASSUME TypesInv, [Next]_vars,
         ToSet(pipe.waiting) \cup ToSet(batch) \cup (Signals \ watched) \subseteq pipe.sent
  PROVE  ToSet(pipe'.waiting) \cup ToSet(batch') \cup (Signals \ watched') \subseteq pipe'.sent
  <1>0. watched \in SUBSET Signals /\ batch \in Seq(Signals) /\ pipe \in Pipes
    BY DEF TypesInv, FlagTypes
  <1>1. CASE UNCHANGED <<watched, pipe, batch>>
    BY <1>1
  <1>2. ASSUME NEW s \in Signals, Signal(s)
        PROVE  ToSet(pipe'.waiting) \cup ToSet(batch') \cup (Signals \ watched') \subseteq pipe'.sent
    <2>1. UNCHANGED <<watched, batch>>
      BY <1>2 DEF Signal
    <2>2. /\ pipe'.sent = pipe.sent \cup {s}
          /\ pipe'.waiting = Append(pipe.waiting, s) \/ pipe'.waiting = pipe.waiting
      BY <1>2 DEF Signal
    <2>3. ToSet(Append(pipe.waiting, s)) = ToSet(pipe.waiting) \cup {s}
      BY <1>0, SignalSets DEF Pipes
    <2> QED
      BY <2>1, <2>2, <2>3
  <1>3. CASE ReadPipe
    <2>1. UNCHANGED watched
      BY <1>3 DEF ReadPipe
    <2>2. batch' = pipe.waiting /\ pipe'.waiting = <<>> /\ pipe'.sent = pipe.sent
      BY <1>0, <1>3 DEF ReadPipe, Pipes
    <2> QED
      BY <2>1, <2>2, SignalSets
  <1>4. CASE OnSignal
    <2>1. UNCHANGED pipe /\ batch # <<>> /\ batch' = Tail(batch)
      BY <1>4 DEF OnSignal
    <2>2. Head(batch) \in ToSet(batch) /\ ToSet(batch') \subseteq ToSet(batch)
      BY <1>0, <2>1, SignalSets
    <2>3. Signals \ watched' \subseteq (Signals \ watched) \cup {Head(batch)}
      BY <1>4 DEF OnSignal, Unwatch
    <2> QED
      BY <2>1, <2>2, <2>3
  <1>5. CASE ReadKey
    BY <1>1, <1>5 DEF ReadKey
  <1> QED
    BY <1>1, <1>2, <1>3, <1>4, <1>5, Writers

\* The process starts in LifecycleInv.
LEMMA LifecycleInit == Init => LifecycleInv
  <1> SUFFICES ASSUME Init PROVE LifecycleInv
    OBVIOUS
  <1>1. PlaceTypes /\ FlagTypes
    BY DEF Init, PlaceTypes, FlagTypes, MainPlaces, HttpPlaces, Faults
  <1>2. GpuTypes
    <2>1. Len(Threads) \in Nat
      BY LifecycleAssumption
    <2>2. /\ m_gpus = {} /\ handles = 0 /\ inserting = "no" /\ listed = {} /\ adapters = {}
          /\ swept = {}
      BY DEF Init
    <2> QED
      BY <2>1, <2>2 DEF GpuTypes
  <1>3. StateTypes /\ keys \in [waiting : Nat, pressed : Nat]
    <2>1. m_network = <<0, 0>> /\ m_hashrate = <<0, 0>> /\ keys = [waiting |-> 0, pressed |-> 0]
      BY DEF Init
    <2>2. <<0, 0>> \in [1 .. 2 -> Nat]
      OBVIOUS
    <2>3. walk \in Walks /\ seen \in Seens
      BY DEF Init, NoWalk, Nothing, Walks, Seens
    <2>4. tables \in [Gpus -> Nat] /\ buffers \in [Gpus -> SUBSET Nat]
      BY DEF Init
    <2> QED
      BY <2>1, <2>2, <2>3, <2>4 DEF StateTypes
  <1>4. pipe \in Pipes /\ batch \in Seq(Signals)
    <2> DEFINE none == <<>>
    <2>1. none \in Seq(Signals)
      OBVIOUS
    <2>2. pipe = [waiting |-> none, sent |-> {}, count |-> 0] /\ batch = none
      BY DEF Init
    <2> HIDE DEF none
    <2> QED
      BY <2>1, <2>2 DEF Pipes
  <1>5. MutexInv /\ SeenInv /\ SetUpInv /\ TablesInv /\ HandsInv
    BY DEF Init, Nothing, NoWalk, MutexInv, SeenInv, SetUpInv, InLoop, TablesInv, HandsInv,
           Locked, InGpus
  <1>6. ClosesInv
    <2>1. Signals \ watched = {} /\ closes = 0 /\ keys.waiting = 0 /\ keys.pressed = 0
      BY DEF Init
    <2>2. pipe.waiting = <<>> /\ pipe.sent = {} /\ batch = <<>>
      BY DEF Init
    <2> QED
      BY <2>1, <2>2, FS_EmptySet, SignalSets DEF ClosesInv
  <1> QED
    BY <1>1, <1>2, <1>3, <1>4, <1>5, <1>6 DEF LifecycleInv, TypesInv

\* LifecycleInv is an inductive invariant of the process.
THEOREM LifecycleInductive == Spec => []LifecycleInv
  <1>1. LifecycleInv /\ [Next]_vars => LifecycleInv'
    <2> SUFFICES ASSUME LifecycleInv, [Next]_vars PROVE LifecycleInv'
      OBVIOUS
    <2>1. ClosesInv'
      BY ClosesStep, HeardStep DEF LifecycleInv, ClosesInv, Used
    <2>2. /\ TypesInv /\ PlaceTypes /\ FlagTypes /\ StateTypes /\ walk \in Walks /\ GpuTypes
          /\ MutexInv /\ SeenInv /\ SetUpInv /\ TablesInv /\ HandsInv
      BY DEF LifecycleInv, TypesInv, StateTypes
    <2>3. TypesInv' /\ GpuTypes'
      BY <2>2, TypesStep, GpuTypesStep
    <2>4. MutexInv' /\ SeenInv' /\ SetUpInv'
      BY <2>2, MutexStep, SeenStep, SetUpStep
    <2>5. TablesInv' /\ HandsInv'
      BY <2>2, TablesStep, HandsStep
    <2> QED
      BY <2>1, <2>3, <2>4, <2>5 DEF LifecycleInv
  <1> QED
    BY <1>1, LifecycleInit, PTL DEF Spec

\* Whatever the threads, the keys and the signals do: a response shows one state of
\* the network and one of the hashrates, and App::close() has not run more often than
\* keys were pressed and different signals sent (Api.cpp, get, tick; App.cpp, onSignal,
\* close).
THEOREM LifecycleInvariantHolds == Spec => []LifecycleInvariant
  <1>1. LifecycleInv => LifecycleInvariant
    <2> SUFFICES ASSUME LifecycleInv PROVE LifecycleInvariant
      OBVIOUS
    <2>1. handles \in 0 .. Len(Threads)
      BY LifecycleAssumption DEF LifecycleInv, GpuTypes
    <2>2. PlaceTypes /\ FlagTypes /\ StateTypes /\ GpuTypes
      BY DEF LifecycleInv, TypesInv
    <2>3. keys \in [waiting : Nat, pressed : Nat] /\ pipe \in Pipes /\ batch \in Seq(Signals)
      BY DEF LifecycleInv, TypesInv
    <2>4. TypeOK
      BY <2>1, <2>2, <2>3 DEF PlaceTypes, FlagTypes, StateTypes, GpuTypes, MainPlaces, Faults,
                              HttpPlaces, Walks, Seens, Pipes, TypeOK
    <2>5. ResponseIsOneSnapshot
      BY DEF LifecycleInv, SeenInv, ResponseIsOneSnapshot
    <2>6. RepeatedSignalClosesOnce
      <3>1. IsFiniteSet(pipe.sent)
        BY <2>3, LifecycleAssumption, FS_Subset DEF Pipes
      <3>2. /\ Cardinality(Signals \ watched) <= Cardinality(pipe.sent)
            /\ Cardinality(Signals \ watched) \in Nat
            /\ Cardinality(pipe.sent) \in Nat
        BY <3>1, FS_Subset, FS_CardinalityType DEF LifecycleInv, ClosesInv
      <3>3. closes \in Nat /\ keys.waiting \in Nat /\ keys.pressed \in Nat
        BY <2>2, <2>3 DEF FlagTypes
      <3> QED
        BY <3>2, <3>3 DEF LifecycleInv, ClosesInv, RepeatedSignalClosesOnce
    <2> QED
      BY <2>4, <2>5, <2>6 DEF LifecycleInvariant
  <1> QED
    BY <1>1, LifecycleInductive, PTL

\* While the loop runs and ADL knows the GPUs, the only step that can bring the process
\* down is a second App::close(), or a request that copied handles just when they were
\* inserted: everything else that Httpd, Api and ApiState read for a request is there,
\* also while Adl::tick() replaces it (App.cpp, exec; ApiState.cpp, getGpus; Adl.cpp,
\* tick).
THEOREM RequestsAreSafeInTheLoopHolds == Spec => RequestsAreSafeInTheLoop
  <1> DEFINE Safe == (InLoop /\ listed = Gpus /\ ~walk.torn) => fault' \in {"", "close"}
  <1>1. ASSUME LifecycleInv, [Next]_vars PROVE [Safe]_vars
    <2> SUFFICES ASSUME InLoop, listed = Gpus, ~walk.torn, Next PROVE fault' \in {"", "close"}
      BY <1>1
    <2>0. /\ PlaceTypes /\ StateTypes /\ GpuTypes /\ TablesInv /\ HandsInv
          /\ adl /\ options /\ m_httpd # "freed"
      BY <1>1 DEF LifecycleInv, TypesInv, SetUpInv
    <2>1. fault = ""
      BY DEF Next, Main, Serve, Alive, HttpdStart, WorkersStart, Insert, InsertKey,
             InsertHandle, AdlStart, Tick, TickLock, TickEnd, WorkersTick, AdlTick, AdlTickEnd,
             RatesLock, RatesEnd, Poll, ReadKey, ReadPipe, OnSignal, Closed, PollEnd, Release,
             Delete, Exit, Auth, Get, GetMiner, GetGpu, GetAdapter, GetStatus, GetProfile,
             GetGpusEnd, GetResults, GetConnection, Request, Key, Signal
    <2>2. inserting = "no"
      BY <2>0 DEF InLoop, GpuTypes, PlaceTypes
    <2>3. http \in {"adapter", "status", "profile"} => walk.gpu \in Gpus /\ ~Growing
      BY <2>0 DEF HandsInv, Growing, GpuTypes
    <2>4. CASE Main
      BY <2>1, <2>4 DEF Main, HttpdStart, WorkersStart, Insert, InsertKey, InsertHandle,
                        AdlStart, Tick, TickLock, TickEnd, WorkersTick, AdlTick, AdlTickEnd,
                        RatesLock, RatesEnd, Poll, ReadKey, ReadPipe, OnSignal, Close, Closed,
                        PollEnd, Release, Delete, Exit
    <2>5. CASE Serve
      <3>1. CASE Auth \/ GetMiner \/ GetGpusEnd
        BY <2>0, <2>2, <3>1 DEF Auth, GetMiner, GetGpusEnd, Risk
      <3>2. ASSUME NEW g \in Gpus, GetGpu(g) PROVE fault' \in {"", "close"}
        BY <2>2, <3>2 DEF GetGpu, Tearing, Risk
      <3>3. CASE GetAdapter
        BY <2>0, <2>3, <3>3 DEF GetAdapter, Risk
      <3>4. CASE GetStatus
        <4>1. tables[walk.gpu] # 0 /\ ~Growing
          BY <2>0, <2>3, <3>4 DEF GetStatus, TablesInv
        <4> QED
          BY <3>4, <4>1 DEF GetStatus, Risk
      <3>5. CASE GetProfile
        <4>1. walk.gpu \in Gpus /\ ~Growing /\ walk.held \in buffers[walk.gpu]
          BY <2>0, <2>1, <2>3, <3>5 DEF GetProfile, HandsInv
        <4>2. tables[walk.gpu] \in buffers[walk.gpu]
          BY <2>0, <4>1 DEF TablesInv
        <4> QED
          BY <3>5, <4>1, <4>2 DEF GetProfile, Risk
      <3>6. CASE Get \/ GetResults \/ GetConnection
        BY <2>1, <3>6 DEF Get, GetResults, GetConnection
      <3> QED
        BY <2>5, <3>1, <3>2, <3>3, <3>4, <3>5, <3>6 DEF Serve
    <2>6. CASE Request \/ Key \/ \E s \in Signals : Signal(s)
      BY <2>1, <2>6 DEF Request, Key, Signal
    <2> QED
      BY <2>4, <2>5, <2>6 DEF Next
  <1>2. LifecycleInv /\ [Next]_vars => [Safe]_vars
    BY <1>1
  <1> QED
    BY <1>2, LifecycleInductive, PTL DEF Spec, RequestsAreSafeInTheLoop
=============================================================================
