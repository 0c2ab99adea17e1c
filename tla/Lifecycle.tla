----------------------------- MODULE Lifecycle -----------------------------
(***************************************************************************)
(* The life of the process: App::exec() starting the parts one after the   *)
(* other, the event loop with its ticks, keys and signals, App::close()    *)
(* and the tear-down, beside the HTTP thread (Httpd, Api, ApiState), which *)
(* serves requests from its start to the end of the process and reads the  *)
(* GPUs, Adl and Options without a lock of theirs.                         *)
(*                                                                         *)
(* Adl keeps pointers to the tables of a GPU in maps.  In the loop tick()  *)
(* replaces them while a request may read them: a data race, in which one  *)
(* word is stored and loaded, so that the reader gets the old table or the *)
(* new one.  A map that grows while the other thread uses it can do        *)
(* anything.  The tables of one GPU, read together, are one here.          *)
(*                                                                         *)
(* A fault is undefined behaviour or an abort; it ends the process.  That  *)
(* the GPU threads end when they are asked to is the subject of Workers.   *)
(***************************************************************************)
EXTENDS Integers, Sequences, FiniteSets, SequencesExt

CONSTANTS
  Gpus,       \* the bus ids of the GPUs in use
  Threads,    \* the GPU of each configured thread
  Signals,    \* SIGHUP, SIGINT, SIGTERM
  None,
  MaxTicks,   \* bounds: updates of each of the statistics,
  MaxAsked    \* and keys pressed and signals sent

ASSUME LifecycleAssumption ==
  /\ Threads \in Seq(Gpus) /\ ToSet(Threads) = Gpus /\ None \notin Gpus
  /\ IsFiniteSet(Signals)
  /\ MaxTicks \in Nat /\ MaxAsked \in Nat

VARIABLES
  main,       \* where the main thread is
  m_httpd,    \* "none", "live" or "freed"
  m_gpus,     \* Workers::m_gpus: its keys,
  handles,    \* how many threads have their handle in it,
  inserting,  \* and whether a key or a handle is being inserted
  adl,        \* Adl::m_self is set
  listed,     \* the GPUs that the ADL library knew
  adapters,   \* Adl::adapters: its keys
  tables,     \* of each GPU: the table that Adl has, 0 for a null pointer,
  buffers,    \* and the tables that were allocated and not freed
  swept,      \* the adapters that Adl::tick() has been to
  options,    \* Options::m_self is live
  m_network,  \* ApiState::m_network: which update its first and last part are of
  m_hashrate, \* ApiState::m_hashrate and m_totalHashrate, of which update
  m_mutex,    \* Api::m_mutex: "free", "main" or "http"
  http,       \* where the HTTP thread is
  walk,       \* how far it is in m_gpus, and whether it met an insertion there
  seen,       \* of which updates the parts of its response are
  keys,       \* Ctrl+C keys in the terminal, and how many were pressed in all
  pipe,       \* signals in the pipe of libuv, and which and how many were sent
  watched,    \* signals whose handle is started
  ready,      \* what the current poll still has to look at
  batch,      \* signals read from the pipe and not dispatched
  stopped,    \* uv_stop() was called
  closes,     \* calls of App::close()
  fault

gpuVars == <<m_gpus, handles, inserting>>
adlVars == <<adl, listed, adapters, tables, buffers, swept>>
mainVars == <<gpuVars, adlVars, options, m_httpd>>
loopVars == <<keys, pipe, watched, ready, batch, stopped, closes>>
apiVars == <<m_network, m_hashrate, m_mutex>>
httpVars == <<http, walk, seen>>
vars == <<main, mainVars, loopVars, apiVars, httpVars, fault>>

Alive == fault = "" /\ main # "exit"

-----------------------------------------------------------------------------
(* App::exec() up to the event loop.  Api::start() comes before and is part  *)
(* of the initial state, as are the signal handles.                          *)

\* Httpd::start(); without a port or without a socket there is no daemon.
HttpdStart ==
  /\ Alive /\ main = "httpd"
  /\ m_httpd' \in {"none", "live"}
  /\ main' = "workers"
  /\ UNCHANGED <<gpuVars, adlVars, options, loopVars, apiVars, httpVars, fault>>

\* Workers::start() up to InitOpenCL(); without threads or devices exec() returns.
WorkersStart ==
  /\ Alive /\ main = "workers"
  /\ main' \in {"handles", "return"}
  /\ UNCHANGED <<mainVars, loopVars, apiVars, httpVars, fault>>

\* Workers::start(), the loop over the threads: m_gpus[busId] makes the key if there
\* is none, with an empty vector, and push_back() adds the handle to the vector.
Bus == Threads[handles + 1]

Insert ==
  /\ Alive /\ main = "handles" /\ inserting = "no" /\ handles < Len(Threads)
  /\ inserting' = IF Bus \in m_gpus THEN "handle" ELSE "key"
  /\ UNCHANGED <<main, m_gpus, handles, adlVars, options, m_httpd, loopVars, apiVars, httpVars, fault>>

InsertKey ==
  /\ Alive /\ inserting = "key"
  /\ m_gpus' = m_gpus \cup {Bus}
  /\ inserting' = "handle"
  /\ UNCHANGED <<main, handles, adlVars, options, m_httpd, loopVars, apiVars, httpVars, fault>>

InsertHandle ==
  /\ Alive /\ inserting = "handle"
  /\ handles' = handles + 1
  /\ inserting' = "no"
  /\ UNCHANGED <<main, m_gpus, adlVars, options, m_httpd, loopVars, apiVars, httpVars, fault>>

\* Adl::start() at the end of Workers::start(): the adapters are those of the library
\* among the GPUs, and the constructor has read their tables.  Then Network::connect().
AdlStart ==
  /\ Alive /\ main = "handles" /\ inserting = "no" /\ handles = Len(Threads)
  /\ adl' = TRUE
  /\ listed' \in SUBSET Gpus /\ adapters' = listed'
  /\ tables' = [g \in Gpus |-> IF g \in listed' THEN 1 ELSE 0]
  /\ buffers' = [g \in Gpus |-> IF g \in listed' THEN {1} ELSE {}]
  /\ main' = "loop"
  /\ UNCHANGED <<gpuVars, swept, options, m_httpd, loopVars, apiVars, httpVars, fault>>

-----------------------------------------------------------------------------
(* The event loop.                                                           *)

\* Network::onTick().
Tick ==
  /\ Alive /\ main = "loop" /\ m_network[1] < MaxTicks
  /\ main' = "lock"
  /\ UNCHANGED <<mainVars, loopVars, apiVars, httpVars, fault>>

\* Mutant: Api::tick() does not take the lock.
TickLockMutant ==
  /\ Alive /\ main = "lock"
  /\ m_network' = [m_network EXCEPT ![1] = @ + 1]
  /\ main' = "tick"
  /\ UNCHANGED <<m_hashrate, m_mutex, mainVars, loopVars, httpVars, fault>>

\* Network::tick() and Api::tick(): the loop waits for the lock, and copies the
\* state part by part.
TickLock ==
  /\ Alive /\ main = "lock"
  /\ m_mutex = "free" /\ m_mutex' = "main"
  /\ m_network' = [m_network EXCEPT ![1] = @ + 1]
  /\ main' = "tick"
  /\ UNCHANGED <<m_hashrate, mainVars, loopVars, httpVars, fault>>

TickEnd ==
  /\ Alive /\ main = "tick"
  /\ m_network' = [m_network EXCEPT ![2] = m_network[1]]
  /\ m_mutex' = "free"
  /\ main' = "loop"
  /\ UNCHANGED <<m_hashrate, mainVars, loopVars, httpVars, fault>>

\* Workers::onTick(), when all workers are there: every sixteenth time Adl::tick()
\* comes first, without the lock.
WorkersTick ==
  /\ Alive /\ main = "loop" /\ m_hashrate[1] < MaxTicks
  /\ main' \in {"adl", "rates"}
  /\ UNCHANGED <<mainVars, loopVars, apiVars, httpVars, fault>>

\* Mutant: the table that is replaced is freed.
AdlTickMutant(g) ==
  /\ Alive /\ main = "adl" /\ g \in adapters \ swept
  /\ tables' = [tables EXCEPT ![g] = @ + 1]
  /\ buffers' = [buffers EXCEPT ![g] = {tables[g] + 1}]
  /\ swept' = swept \cup {g}
  /\ UNCHANGED <<main, gpuVars, adl, listed, adapters, options, m_httpd, loopVars, apiVars,
                 httpVars, fault>>

\* Adl::tick(), one round of the loop over adapters: a new table is allocated, read
\* and entered into the map.  The one before is not freed.
AdlTick(g) ==
  /\ Alive /\ main = "adl" /\ g \in adapters \ swept
  /\ tables' = [tables EXCEPT ![g] = @ + 1]
  /\ buffers' = [buffers EXCEPT ![g] = @ \cup {tables[g] + 1}]
  /\ swept' = swept \cup {g}
  /\ UNCHANGED <<main, gpuVars, adl, listed, adapters, options, m_httpd, loopVars, apiVars,
                 httpVars, fault>>

\* The end of the loop; a key that a request has added behind it is not seen.
AdlTickEnd ==
  /\ Alive /\ main = "adl" /\ listed \subseteq swept
  /\ main' = "rates"
  /\ swept' = {}
  /\ UNCHANGED <<gpuVars, adl, listed, adapters, tables, buffers, options, m_httpd, loopVars,
                 apiVars, httpVars, fault>>

\* Api::tick() again: the hashrates of the threads, then the totals.
RatesLock ==
  /\ Alive /\ main = "rates"
  /\ m_mutex = "free" /\ m_mutex' = "main"
  /\ m_hashrate' = [m_hashrate EXCEPT ![1] = @ + 1]
  /\ main' = "store"
  /\ UNCHANGED <<m_network, mainVars, loopVars, httpVars, fault>>

RatesEnd ==
  /\ Alive /\ main = "store"
  /\ m_hashrate' = [m_hashrate EXCEPT ![2] = m_hashrate[1]]
  /\ m_mutex' = "free"
  /\ main' = "loop"
  /\ UNCHANGED <<m_network, mainVars, loopVars, httpVars, fault>>

\* The bound on the keys and signals.
MayAsk == keys.pressed + pipe.count < MaxAsked

\* A key is pressed: the terminal is in raw mode, so that Ctrl+C is no signal.
Key ==
  /\ Alive /\ MayAsk
  /\ keys' = [waiting |-> keys.waiting + 1, pressed |-> keys.pressed + 1]
  /\ UNCHANGED <<main, mainVars, pipe, watched, ready, batch, stopped, closes, apiVars,
                 httpVars, fault>>

\* A signal is sent.  One without a started handle has its default action again.
Signal(s) ==
  /\ Alive /\ MayAsk
  /\ pipe' = [waiting |-> IF s \in watched THEN Append(pipe.waiting, s) ELSE pipe.waiting,
              sent |-> pipe.sent \cup {s}, count |-> pipe.count + 1]
  /\ main' = IF s \in watched THEN main ELSE "exit"
  /\ UNCHANGED <<mainVars, keys, watched, ready, batch, stopped, closes, apiVars, httpVars, fault>>

\* The poll of uv_run(): terminal first, the signal pipe last.
Poll ==
  /\ Alive /\ main = "loop"
  /\ ready' = {e \in {"tty", "signal"} : IF e = "tty" THEN keys.waiting > 0
                                          ELSE pipe.waiting # <<>>}
  /\ ready' # {}
  /\ main' = "poll"
  /\ UNCHANGED <<mainVars, keys, pipe, watched, batch, stopped, closes, apiVars, httpVars, fault>>

\* App::close(): Network::stop(), then Workers::stop(), which closes m_async and
\* joins the threads.  The second time m_async is closing already.
Close ==
  /\ closes' = closes + 1
  /\ main' = "closing"
  /\ fault' = IF closes > 0 THEN "close" ELSE fault

\* Console::onRead(): the buffer holds one character, so libuv reads again until
\* the terminal has none, also one that was pressed during the last close().
ReadKey ==
  /\ Alive /\ main = "poll" /\ "tty" \in ready
  /\ IF keys.waiting > 0
     THEN /\ keys' = [keys EXCEPT !.waiting = @ - 1]
          /\ Close
          /\ UNCHANGED ready
     ELSE /\ ready' = ready \ {"tty"}
          /\ UNCHANGED <<keys, main, closes, fault>>
  /\ UNCHANGED <<mainVars, pipe, watched, batch, stopped, apiVars, httpVars>>

\* The whole pipe is read at once.
ReadPipe ==
  /\ Alive /\ main = "poll" /\ ready = {"signal"}
  /\ batch' = pipe.waiting
  /\ pipe' = [pipe EXCEPT !.waiting = <<>>]
  /\ ready' = {}
  /\ UNCHANGED <<main, mainVars, keys, watched, stopped, closes, apiVars, httpVars, fault>>

\* uv_signal_stop() in App::onSignal().
Unwatch(s) == watched \ {s}

\* App::onSignal(); a message for a handle that is stopped is dropped.
OnSignal ==
  /\ Alive /\ main = "poll" /\ ready = {} /\ batch # <<>>
  /\ batch' = Tail(batch)
  /\ IF Head(batch) \in watched
     THEN watched' = Unwatch(Head(batch)) /\ Close
     ELSE UNCHANGED <<watched, main, closes, fault>>
  /\ UNCHANGED <<mainVars, keys, pipe, ready, stopped, apiVars, httpVars>>

\* Mutant: App::close() does not stop the loop.
ClosedMutant ==
  /\ Alive /\ main = "closing"
  /\ main' = "poll"
  /\ UNCHANGED <<mainVars, loopVars, apiVars, httpVars, fault>>

\* The threads have been joined and close() calls uv_stop().
Closed ==
  /\ Alive /\ main = "closing"
  /\ stopped' = TRUE
  /\ main' = "poll"
  /\ UNCHANGED <<mainVars, keys, pipe, watched, ready, batch, closes, apiVars, httpVars, fault>>

\* uv_run() looks at the flag when the poll is over.
PollEnd ==
  /\ Alive /\ main = "poll" /\ ready = {} /\ batch = <<>>
  /\ main' = IF stopped THEN "left" ELSE "loop"
  /\ UNCHANGED <<mainVars, loopVars, apiVars, httpVars, fault>>

-----------------------------------------------------------------------------
(* The end of App::exec() and of main().                                     *)

\* delete m_network, Options::release(), Platform::release().
Release ==
  /\ Alive /\ main = "left"
  /\ options' = FALSE
  /\ main' = "return"
  /\ UNCHANGED <<gpuVars, adlVars, m_httpd, loopVars, apiVars, httpVars, fault>>

\* App::~App(): the Httpd object goes, its daemon stays.
Delete ==
  /\ Alive /\ main = "return"
  /\ m_httpd' = IF m_httpd = "live" THEN "freed" ELSE m_httpd
  /\ main' = "deleted"
  /\ UNCHANGED <<gpuVars, adlVars, options, loopVars, apiVars, httpVars, fault>>

Exit ==
  /\ Alive /\ main = "deleted"
  /\ main' = "exit"
  /\ UNCHANGED <<mainVars, loopVars, apiVars, httpVars, fault>>

-----------------------------------------------------------------------------
(* The HTTP thread.                                                          *)

\* A read of something that may be gone: the process dies or goes on.
Risk(bad, what) == fault' \in IF bad THEN {"", what} ELSE {""}

Nothing == [totals |-> 0, threads |-> {}, results |-> 0, connection |-> 0]

\* A request arrives.
Request ==
  /\ Alive /\ http = "idle" /\ m_httpd # "none"
  /\ http' = "auth"
  /\ seen' = Nothing
  /\ UNCHANGED <<main, mainVars, loopVars, apiVars, walk, fault>>

\* Httpd::handler(): answered without data (another method, no or a wrong token),
\* or taken to Api::get().
Auth ==
  /\ Alive /\ http = "auth"
  /\ http' \in {"idle", "get"}
  /\ Risk(m_httpd = "freed", "httpd")
  /\ UNCHANGED <<main, mainVars, loopVars, apiVars, walk, seen>>

\* Api::get() takes the lock.
Get ==
  /\ Alive /\ http = "get" /\ m_mutex = "free"
  /\ m_mutex' = "http"
  /\ http' = "miner"
  /\ UNCHANGED <<main, mainVars, loopVars, m_network, m_hashrate, walk, seen, fault>>

NoWalk == [visited |-> {}, gpu |-> None, held |-> 0, torn |-> FALSE, early |-> FALSE]

\* ApiState::getMiner() asks Options for the algorithm, getHashrate() takes the totals,
\* and getGpus() begins its walk, perhaps before all threads have their handles.
GetMiner ==
  /\ Alive /\ http = "miner"
  /\ http' = "gpus"
  /\ walk' = [NoWalk EXCEPT !.early = handles < Len(Threads)]
  /\ seen' = [seen EXCEPT !.totals = m_hashrate[2]]
  /\ Risk(~options, "options")
  /\ UNCHANGED <<main, mainVars, loopVars, apiVars>>

\* The main thread is changing m_gpus where the walk is.
Tearing(g) == inserting = "key" \/ (inserting = "handle" /\ Bus = g)

\* ApiState::getGpus(), the next GPU: its vector of handles is copied.  A copy made
\* while the vector was filled is empty or worse.
GetGpu(g) ==
  /\ Alive /\ http = "gpus" /\ g \in m_gpus \ walk.visited
  /\ http' = "adapter"
  /\ walk' = [walk EXCEPT !.visited = @ \cup {g}, !.gpu = g, !.torn = @ \/ Tearing(g)]
  /\ Risk(walk.torn \/ Tearing(g), "gpus")
  /\ UNCHANGED <<main, mainVars, loopVars, apiVars, seen>>

\* Adl::tick() walks over a map that grows, or adds keys to the others.
Growing == main = "adl" /\ (adapters # listed \/ walk.gpu \notin listed)

\* The copy is used, and so is Adl::i(), for the index and the temperature: operator[]
\* makes a key for a GPU that is not among the adapters, with index 0.
GetAdapter ==
  /\ Alive /\ http = "adapter"
  /\ http' = "status"
  /\ adapters' = IF adl THEN adapters \cup {walk.gpu} ELSE adapters
  /\ IF adl THEN Risk(walk.torn \/ Growing, "gpus") ELSE fault' = "adl"
  /\ UNCHANGED <<main, gpuVars, adl, listed, tables, buffers, swept, options, m_httpd, loopVars,
                 apiVars, walk, seen>>

\* The tables for status, fan and power are looked up and used.
GetStatus ==
  /\ Alive /\ http = "status"
  /\ http' = "profile"
  /\ walk' = [walk EXCEPT !.held = tables[walk.gpu]]
  /\ IF tables[walk.gpu] = 0 THEN fault' = "adapter"
     ELSE Risk(walk.torn \/ Growing, "gpus")
  /\ UNCHANGED <<main, mainVars, loopVars, apiVars, seen>>

\* Those of the clocks are looked up and used, and those of before once more; then the
\* hashrates of the GPU's threads are added.
GetProfile ==
  /\ Alive /\ http = "profile"
  /\ http' = "gpus"
  /\ seen' = [seen EXCEPT !.threads = @ \cup {m_hashrate[1]}]
  /\ Risk(\/ walk.torn \/ Growing
          \/ ~({walk.held, tables[walk.gpu]} \subseteq buffers[walk.gpu]), "gpus")
  /\ UNCHANGED <<main, mainVars, loopVars, apiVars, walk>>

\* The end of the walk.  Keys that were inserted behind it are not visited.
GetGpusEnd ==
  /\ Alive /\ http = "gpus"
  /\ m_gpus \subseteq walk.visited \/ walk.early
  /\ http' = "results"
  /\ walk' = NoWalk
  /\ Risk(walk.torn \/ inserting = "key", "gpus")
  /\ UNCHANGED <<main, mainVars, loopVars, apiVars, seen>>

\* ApiState::getResults() and getConnection() read m_network.
GetResults ==
  /\ Alive /\ http = "results"
  /\ http' = "connection"
  /\ seen' = [seen EXCEPT !.results = m_network[1]]
  /\ UNCHANGED <<main, mainVars, loopVars, apiVars, walk, fault>>

GetConnection ==
  /\ Alive /\ http = "connection"
  /\ http' = "idle"
  /\ seen' = [seen EXCEPT !.connection = m_network[2]]
  /\ m_mutex' = "free"
  /\ UNCHANGED <<main, mainVars, loopVars, m_network, m_hashrate, walk, fault>>

-----------------------------------------------------------------------------
Init ==
  /\ main = "httpd" /\ m_httpd = "none" /\ options = TRUE
  /\ m_gpus = {} /\ handles = 0 /\ inserting = "no"
  /\ adl = FALSE /\ listed = {} /\ adapters = {} /\ swept = {}
  /\ tables = [g \in Gpus |-> 0] /\ buffers = [g \in Gpus |-> {}]
  /\ m_network = <<0, 0>> /\ m_hashrate = <<0, 0>> /\ m_mutex = "free"
  /\ http = "idle"
  /\ walk = NoWalk
  /\ seen = Nothing
  /\ keys = [waiting |-> 0, pressed |-> 0]
  /\ pipe = [waiting |-> <<>>, sent |-> {}, count |-> 0]
  /\ watched = Signals /\ ready = {} /\ batch = <<>> /\ stopped = FALSE /\ closes = 0
  /\ fault = ""

Main ==
  \/ HttpdStart \/ WorkersStart \/ Insert \/ InsertKey \/ InsertHandle \/ AdlStart
  \/ Tick \/ TickLock \/ TickEnd
  \/ WorkersTick \/ (\E g \in Gpus : AdlTick(g)) \/ AdlTickEnd \/ RatesLock \/ RatesEnd
  \/ Poll \/ ReadKey \/ ReadPipe \/ OnSignal \/ Closed \/ PollEnd
  \/ Release \/ Delete \/ Exit

Serve ==
  \/ Auth \/ Get \/ GetMiner
  \/ (\E g \in Gpus : GetGpu(g)) \/ GetAdapter \/ GetStatus \/ GetProfile \/ GetGpusEnd
  \/ GetResults \/ GetConnection

Next ==
  \/ Main \/ Serve \/ Request
  \/ Key \/ \E s \in Signals : Signal(s)

Spec == Init /\ [][Next]_vars

\* The main thread and the HTTP thread run, every iteration of uv_run() polls, and
\* a thread that waits for Api::m_mutex gets it in the end, although the HTTP
\* thread may take it again and again (it waits for a request in between).
FairSpec ==
  Spec /\ WF_vars(Main) /\ WF_vars(Serve) /\ SF_vars(Poll) /\ SF_vars(TickLock) /\ SF_vars(RatesLock)

-----------------------------------------------------------------------------
\* Every variable has its type; no key is read that was not pressed (App.cpp,
\* Api.cpp, Httpd.cpp, Console.cpp).
TypeOK ==
  /\ main \in {"httpd", "workers", "handles", "loop", "lock", "tick", "adl", "rates", "store",
               "poll", "closing", "left", "return", "deleted", "exit"}
  /\ m_httpd \in {"none", "live", "freed"} /\ m_mutex \in {"free", "main", "http"}
  /\ m_gpus \subseteq Gpus /\ handles \in 0 .. Len(Threads)
  /\ inserting \in {"no", "key", "handle"}
  /\ listed \subseteq adapters /\ adapters \subseteq Gpus /\ swept \subseteq Gpus
  /\ tables \in [Gpus -> Nat] /\ buffers \in [Gpus -> SUBSET Nat]
  /\ {adl, options, stopped} \subseteq BOOLEAN
  /\ {m_network, m_hashrate} \subseteq [1 .. 2 -> Nat] /\ closes \in Nat
  /\ http \in {"idle", "auth", "get", "miner", "gpus", "adapter", "status", "profile", "results",
               "connection"}
  /\ walk \in [visited : SUBSET Gpus, gpu : Gpus \cup {None}, held : Nat, torn : BOOLEAN,
               early : BOOLEAN]
  /\ seen \in [totals : Nat, threads : SUBSET Nat, results : Nat, connection : Nat]
  /\ keys \in [waiting : Nat, pressed : Nat]
  /\ pipe \in [waiting : Seq(Signals), sent : SUBSET Signals, count : Nat]
  /\ batch \in Seq(Signals) /\ watched \subseteq Signals
  /\ fault \in {"", "httpd", "options", "adl", "adapter", "gpus", "close"}

\* The event loop runs.
InLoop == main \in {"loop", "lock", "tick", "adl", "rates", "store", "poll", "closing"}

\* From the first iteration of the loop to the last no request can bring the miner
\* down, as long as ADL knows every GPU: whenever Adl::tick() replaces the tables that
\* a request is looking at, those it has and those it gets exist.  This holds also for
\* a request that arrived during the start, unless it was reading m_gpus just where
\* Workers::start() was changing it: it may use what it copied then at any time.
\* Before and after the loop the objects that a request reads are not there (App.cpp,
\* exec; ApiState.cpp, getGpus; Adl.cpp, tick).
RequestsAreSafeInTheLoop ==
  [][(InLoop /\ listed = Gpus /\ ~walk.torn) => fault' \in {"", "close"}]_vars

\* A response shows one state of the network and one of the hashrates: what it says of
\* the shares and of the connection is of the same tick, and so are the totals and the
\* rates of the threads (Api.cpp, get, tick).
ResponseIsOneSnapshot ==
  http = "idle" => seen.results = seen.connection /\ seen.threads \subseteq {seen.totals}

\* A signal that is sent again while the first is waiting or being handled does
\* not close a second time: every call of close() has a key or a signal of its own
\* (App.cpp, onSignal).
RepeatedSignalClosesOnce ==
  closes <= keys.pressed + Cardinality(pipe.sent)

\* A key or a signal ends the process, whatever the HTTP thread does and whenever
\* it comes: during the start, in the loop or at the end (App.cpp, exec, close).
CloseEndsTheProcess == (keys.waiting > 0 \/ pipe.waiting # <<>>) ~> ~Alive

\* In every state of the process: responses show one state of the statistics, and
\* close() has not run more often than it was asked to (Api.cpp, get; App.cpp, close).
LifecycleInvariant == TypeOK /\ ResponseIsOneSnapshot /\ RepeatedSignalClosesOnce
=============================================================================
