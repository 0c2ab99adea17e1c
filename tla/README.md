# xrig in TLA+

xrig is a GPU miner: a libuv event loop on the main thread talks to the pools,
one `OclWorker` thread per GPU thread runs the kernels, libuv's thread pool checks
results on the CPU, and an HTTP thread reports. This directory models the parts of
it whose correctness depends on the order in which those actors take their steps,
and the arithmetic and bookkeeping those steps rest on.

## 1. Inventory

| Component | State | Operations | Talks to |
|---|---|---|---|
| `Workers` | `m_active`, `m_enabled`, `m_job` (rwlock), atomics `m_paused`, `m_sequence`, `m_queue` (mutex), `m_async`, batons | `start`, `setJob`, `pause`, `setEnabled`, `stop`, `job`, `submit`, `onResult`, `onTick` | called by Network (jobs, pause), App (console, signals), OclWorker (polling, submit) |
| `OclWorker` | `m_job`, `m_sequence`, nonce, GPU buffers, `m_pausedJob` | `start` (the polling loop), `consumeJob`, `save`, `resume`, `setJob` | Workers, OclGPU |
| `Client` | `m_state`, `m_socket`, `m_resolver`, `m_failures`, `m_expire`, `m_job`, `m_results` | `connect`, `disconnect`, `submit`, `tick`, libuv callbacks | one listener (a strategy), libuv |
| `FailoverStrategy` | `m_pools`, `m_active`, `m_index` | `connect`, `stop`, `tick`, `submit`, `onClose`, `onLoginSuccess`, `onJobReceived` | its clients, Network |
| `SinglePoolStrategy` | one client, `m_active` | the same | Network |
| `DonateStrategy` | one client, `m_active`, `m_timer` | `connect`, `suspend`, `idle`, `onTimer`, listener callbacks | Network |
| `Network` | a strategy, the donation, `m_state` | `onJob`, `setJob`, `onPause`, `onJobResult`, `onResultAccepted`, `tick`, `stop` | strategies, Workers |
| `NetworkState` | counters, total, ten best results, latency samples, pool | `add`, `setPool`, `stop` | Network, Api |
| `Hashrate` | a ring of samples per thread | `add`, `calc` | Workers (`onTick`), Api |
| `Job`, `Url`, `Options` | blob, target, id; pools; numbers and threads | parsing, `setBlob`, `setTarget`, `oclInit` | Client, App, OclCLI |
| `App` | console, signals | `exec`, `close`, `onConsoleCommand`, `onSignal` | Network, Workers |
| `OclGPU`, `OclCLI`, `Adl` | device contexts, clocks | `InitOpenCL`, `XMRSetJob`, `XMRRunJob`, `tick` | OclWorker, Workers |
| `Api`, `Httpd` | a JSON snapshot | `tick`, request handler | Workers, Network |

What is hard here:

* threads poll `m_paused` and `m_sequence` without a lock while the main thread
  publishes a job in three separate writes (`Workers`, `OclWorker`);
* shares cross three threads and come back by a signal that coalesces;
* callbacks of several connections interleave, lines are parsed after their
  connection was closed, close callbacks come late, `disconnect()` does not cancel
  a lookup, and retries hang on one deadline per client;
* the donation and the pool compete for the miner;
* answers to shares come late, twice or never, and a share may be verified when its
  pool is no longer the active one;
* the HTTP thread serves requests from before the GPUs exist until after the
  objects it reads are gone, and signals and keys arrive during all of it;
* fixed sizes: the receive buffer, the blob, the ring of samples, the nonce range,
  the table of performance levels; conversions that lose something: targets, ports,
  free memory;
* library calls (libuv, OpenCL, ADL) that fail without anyone looking.

The hazards, each at its line, are in `PROJECT.json`, with the properties that watch
over them.

## 2. Modules

| Module | Models | State and actions |
|---|---|---|
| `Workers` | `workers/Workers.*`, `workers/OclWorker.cpp` | Every access to an atomic or a lock is one action. `SetJob`, `SetJobSequence`, `SetJobResume` are the three writes of `setJob()`; `Pause`/`SetEnabled` end in `Bump`; `Stop`, `StopSequence`, `Join` are `stop()`. `Loop` ... `SubmitSend` are the program points of a thread (`pc`), `OnAsync`, `OnResult`, `Verify`, `AfterWork` the way back of a share |
| `Client` | `net/Client.*` | A record per client and one operator per member function; libuv's answers are arguments |
| `FailoverStrategy` | `net/strategies/FailoverStrategy.cpp`, Network's part of it | One action per libuv callback of a client, with the listener's reaction in the same step (`Reconnect`, `OnLoginSuccess`, `OnJobReceived`), `Tick`, `Ping`, `Submit`, `Stop` |
| `Network` | `net/Network.cpp`, `SinglePoolStrategy.cpp`, `DonateStrategy.cpp` | The same callbacks for the two clients of the default set-up, and the donation's timer (`Suspend`, `Donate`) |
| `Submission`, `NetworkState` | `Client::submit`, `send`, `parseResponse`, `tick`; `Network::onResultAccepted`, `api/NetworkState.cpp` | `m_results` per client, the shared message number, the deadline, and the statistics (operators on a record). Shares are found (`Find`), verified late (`Submit`), answered by any line a pool may send (`Error`, `Accepted`, `Login`, `NewJob`, `BadJob`, `Other`), or not (`Timeout`) |
| `RecvBuffer` | `Client::onAllocBuffer`, `onRead` | The bytes held in `m_buf`; `OnRead` takes any number of bytes with any newlines among them, `Reconnect` starts a new connection. A byte is its position in the stream |
| `JobData` | `Client::parseLogin`, `parseJob`, `parseExtensions`, `net/Job.cpp`, `XMRSetJob`'s size test | Decoding of targets digit by digit with parameters for base and width; blobs by length; what the GPU ends up with |
| `Nonces` | `OclWorker::consumeJob`, `XMRRunJob` | Per thread the job, the nonce and the GPU's input; `Publish`, `ConsumeJob`, `Run`, `RunFails` |
| `Hashrate` | `OclWorker::storeStats`, `Workers::onTick`, `workers/Hashrate.cpp` | The two atomics of a thread, stored and loaded one at a time, the rings, and `calc` as an operator |
| `Options` | `Options.cpp`, `net/Url.cpp`, `OclCLI::autoConf` | One action per kind of argument, files as inputs, then `OclInit` |
| `Adl` | `amd/Adl.cpp` | The constructor's steps per adapter, each library call succeeding or failing, and `tick()` |
| `Lifecycle` | `App.cpp`, `xrig.cpp`, `Console.cpp`, `api/*.cpp`, `Workers::start`, `onTick`, `Adl::tick` | The main thread's program point, the HTTP thread's, the lock between them, keys and signals on their way through libuv. `m_gpus` is filled key by key and handle by handle (`Insert`, `InsertKey`, `InsertHandle`); `WorkersTick` and `AdlTick` replace Adl's tables without the lock; `GetGpu`, `GetAdapter`, `GetStatus` and `GetProfile` are the rounds of `getGpus()`, cut at every place where it reads what the main thread writes |
| `PoolSelector` | | Abstract: the miner has no pool, or one pool whose latest job it works on. `FailoverStrategy` implements it (`ImplementsPoolSelector`) |
| `ShareChannel` | | Abstract: a share enters once and leaves once, as delivered or refused. `Workers` implements it (`ImplementsShareChannel`) |
| `WorkersProofs`, `FailoverProofs`, `NetworkProofs`, `LifecycleProofs`, `SubmissionProofs` | | Inductive invariant and theorems of the module each is named after |
| `ClientProofs` | | What the operators of `Client` return, for `FailoverProofs` and `NetworkProofs` |
| `InputProofs` | | Induction and recursion on numbers; the proofs about `RecvBuffer`, `JobData` and `Options` |
| `GpuProofs` | | The proofs about `Nonces`, `Hashrate` and `Adl` |
| `MCWorkers`, `MCFailover`, `MCNetwork`, `MCSubmission`, `MCLifecycle` | | Instances and symmetry sets for TLC |
| `MCJobData`, `MCOptions`, `MCAdl` | | Inputs for TLC: targets and blobs, URLs and files and GPUs, tables and profiles |
| `MCComponents` | | The disjoint union of `RecvBuffer`, `JobData`, `Options`, `Adl`, `Hashrate` and `Nonces`: `part` is chosen in the initial state, only that component moves, and the others stay where they start. Their definitions have different names for this reason (`RecvInit`, `JobNext`, ...) |

How the modules fit together: `FailoverStrategy` and `Network` use the operators of
`Client`. `Submission` takes the connections with less detail (any client may connect
at any time) and adds the shares; `Workers` ends where `Submission` begins, with
`Network::onJobResult()`. `RecvBuffer` produces the lines and `JobData` the jobs that
`Client` takes as inputs. `Nonces` and `Hashrate` take the hand-off of `Workers` as one
step. `Options` and `Adl` run before all of this, and `Lifecycle` around it.

Abstractions, and why they are sound:

* A job is an opaque value (`operator==` is all the modelled code asks of it). A line
  from a server is what `parse()` makes of it: a login answer, a job, an error that
  closes the connection, or anything else.
* Time is not measured: a deadline is armed or not, and once armed it may pass at any
  moment. Failure counts beyond `Retries` are alike.
* `OclWorker`'s loads are `memory_order_relaxed`; the model keeps them in program
  order, which x86 does (the CPU check uses SSE intrinsics, so there is no other
  target), and so do the compilers used.
* What the GPU does is a free choice: no result, results, a wrong result, or a job
  that was not loaded.
* A read delivers several lines; `reading` keeps the callback going over the rounds of
  the loop in `onRead()`. Close callbacks run in any order (libuv runs them last in,
  first out), before any other callback once the first has run.
* Uses that C++ or libuv leave undefined (a request reused in flight, a live handle
  deleted, `m_pools[-1]`) set `fault` and end the behaviour.
* `Submission`: a share's difficulty is its `diff` and `actualDiff`; a sample of
  the latency is the pool whose answer gave it. Pools send any line with any number in it.
* `RecvBuffer`: `memcpy()` on overlapping memory yields what an ascending or a
  descending copy yields; the module shows that nothing else disturbs the lines.
* `JobData`: base 4 and one byte per word instead of 16 and four; the divisions and
  the order of bytes are the code's. Bytes behind a short target are any bytes.
* `Options`: a URL is already split; the user stands for password, keepalive and
  nicehash, which go the same way. `Hashrate`: counts are in runs of the GPU; fresh
  memory holds any of `Leftovers`.
* `Adl`: system and memory clocks are one table, as the same code sets both.
* `Lifecycle`: of the console's keys only Ctrl+C; GPU threads end when asked (that is
  the subject of `Workers`, whose `stop` run shows when they do not). Reads of freed
  objects may or may not end the process; null pointers do. `Adl::tick()` and a request
  race for the pointers to the tables of a GPU: they are words, so that the reader gets
  the old table or the new one; a map that grows while the other thread is in it can do
  anything. The tables of one GPU are replaced together.
* `FailoverStrategy` and `Network`: nothing but close callbacks follows `stop()`. A
  lookup that ends in the same poll as the signal would still be reported, to a client
  that is then given up with the process.
* A login that is too long for the send buffer is not sent. Its length depends on the
  user name alone, while the model lets it change between connections of the pools in
  `LongLogins`, so that one run covers both cases.
* History variables (`tornJob`, `tornWake`, `strays`, `settled`, `delivered`) are read
  by properties only.

## 3. Runs

| Run | Instance | What it shows |
|---|---|---|
| `handoff` | 2 threads, 2 jobs, 2 publications and a stop | Which job threads mine, that a pause or a stop reaches them outside the two windows named in the properties, that threads catch up and end |
| `shares` | 2 threads, 2 shares | No share is lost, copied, unsignalled or wrong; the path is a `ShareChannel` |
| `shares_live` | 2 threads, 1 share | Shares arrive |
| `stop` (violation) | 1 thread | `stop()` can hang in `join()` |
| `failover` | 3 pools, 2 retries, 2 jobs, the second pool unroutable, the first chatty, the third with a login that may be too long | The strategy's safety, and that it is a `PoolSelector` |
| `failover_live` | 2 pools, the backup reliable | The miner gets a pool again |
| `network` | one pool, whose login may be too long, and the donation, whose client may be refused and chatty | Job routing around donations; a donation gives the pool back |
| `donate` (violation) | the same, with a well-behaved donation server | The promise in `donate.h` does not hold |
| `submission` | 2 pools, 2 shares, 2 difficulties, 3 messages | Each share is counted at most once, for what was sent; the statistics are those of the pool in use and match their definition; shares reach another pool only after a switch; a silent pool is closed |
| `lifecycle` | 2 GPUs, 3 threads, 2 signals, 3 keys or signals in all, a tick of each kind | Requests are safe inside the loop, also beside `Adl::tick()`, show one state, a repeated signal closes once, and a key or signal ends the process |
| `components` | see below | The six components of `MCComponents` |
| `job_size` (violation) | `JobData` alone | The limit in `Job.h` is not kept |

`components` checks one invariant per component, a conjunction of named parts
(`RecvInvariant`, `JobInvariant`, ...; `lifecycle`, `submission` and `network` have such
conjunctions too), each in its own part of the state space: that `parse()` gets
exactly the stream's lines and a pool whose lines fit is kept (buffer of 8 bytes, 11
bytes of stream, so that every place in the buffer can be the end of a read); that
target and difficulty are the pool's for every 32-bit target; that pools and users are
those given, in order, on command lines of up to three arguments with files of up to
two pools; that automatic threads fit their GPU; that profiles are applied and voltages stay near with two known adapters of three
and two levels; that the speed is the one all samples give (a ring of 4, two threads of
which the first is stuck and the second starts with garbage); that no nonce is hashed
twice and the reserved byte is kept (16 nonces, 2 threads, 4 publications), up to the
exceptions the properties name. Deadlock is not checked in it, nor in `lifecycle` and
`job_size`: configuration, start-up and process really end.

Bounds. `MaxSequence` lets two threads meet a job, its successor and a pause or a
stop, which is all the windows in `consumeJob()` and `start()` are about; two shares
are the fewest that can be confused or coalesced. Three pools are the fewest with
a pool on either side of a backup in use; two retries distinguish "not yet" from
"move on". Two jobs distinguish a new job from a repeated one. Three messages are a
login and two shares, the fewest that can be answered in the wrong order. With two
shares and a list of the two best results every order of arrival is sorted, but no result
is ever dropped from the list; the theorem covers lists of any size. Three keys and
signals let the same signal come again with another signal or a key beside it. Three
threads on two GPUs put two handles into one vector. One tick of Adl is enough to take
the table of the set-up away from a request that holds it. A GPU whose runs fail stores
many counts in one millisecond; `MaxCount` bounds how many. A login that is not sent uses
up no number, so that nothing would bound the connections of such a pool in `submission`:
its run has none (`LongLogins` is empty), the theorems about it cover any. The theorems of
section 5 hold without these bounds.

Fairness. In `Workers`: each thread, the event loop and the thread pool keep running
(the OS schedules them, sleeps end); nothing obliges pools, users or hardware. In
`FailoverStrategy` and `Network`: a read returns, a closed handle is reported, a
lookup or connection attempt ends in success or failure, and time passes. These are
strong because each poll of the event loop serves every handle that is ready. Only a
pool in `Reliable` is assumed to answer. In `Submission`: a read ends (weak), and the
timer callback runs between the reads of a pool that talks all the time (strong). In
`Lifecycle`: both threads run; every iteration of `uv_run()` polls (strong); a main
thread that in either tick waits for `Api::m_mutex` gets it although the HTTP thread takes it again
and again (strong: the HTTP thread waits for the next request without the lock). No
fairness makes a pool fail or a user act.

`Halted` and `Exited` are stuttering steps for a process that has ended, so deadlock
checking stays on there.

## 4. Findings

* `stop`: `App::close()` calls `Workers::stop()`. A thread between its wake-up check
  (`OclWorker.cpp:68`) and the second load of `consumeJob()` (line 111), or on its first
  pass with `m_sequence` 0, ends up with sequence 0; `isOutdated(0)` is then false for
  ever and `join()` waits for ever, though App has logged that it exits.
  `OnlyTornThreadsSurviveStop` shows that these are the only windows.
* `donate`: `Network::onJob()` drops the pool's jobs while the donation is active and
  `setJob()` drops the donation's always. When the donation logs in first, the miner is
  paused beside an active pool for the length of the donation. `PoolIsMinedAgain` shows
  that it is not for longer. `MinerFollowsPool` shows that outside a donation nothing
  of this is left.

* `job_size`: `Job.h:83` gives 84 bytes as the largest blob. `setBlob()` accepts up to
  95, `XMRSetJob()` refuses more than 84, and nobody looks at its result: the GPU goes
  on with the job before under the name of the new one.

More weaknesses are visible in the models without a run of their own; where a property
would meet one, its exception names it:

* with a synchronous error of `uv_getaddrinfo()` or `uv_tcp_connect()` a client is stuck
  (`NeverStranded` excepts the pools in `Unresolvable` and `Unroutable`);
* a share verified after the active pool is gone indexes `m_pools[-1]` (`fault`), and one
  verified after a switch goes to the wrong pool (`MisroutedOnlyAfterSwitch`);
* a thread that found a share starts its nonces again when the same job is published
  again, and nothing keeps it out of its neighbour's range (`excused` in `Nonces`);
* the rings of all threads but the first start with what the memory held (`Cleared`);
* a read of the ADL tables that fails leads to clocks and voltages of zero being written
  back (`misread`), and a profile with one level too many reaches behind the table;
* a request during start-up or after the loop meets null or freed objects, and a
  GPU that ADL does not list is dereferenced at any time (`fault` in `Lifecycle`);
  `getAdapterIndex()` makes a key for it, with index 0, which `Adl::tick()` then serves
  as if it were the first adapter;
  a request that copied handles while `Workers::start()` was inserting may use the torn
  copy in the loop (`walk.torn`);
  a second, different signal or a second Ctrl+C runs `close()` twice;
* `Adl::tick()` never frees the tables it replaces. This leaks memory, and it is what
  keeps requests safe: freeing them there, without the lock, would be a use after free
  (the mutant of `RequestsAreSafeInTheLoop`). A response may show clocks of one tick beside
  the fan of another;
* a login that is too long is dropped without a word: no deadline is armed, the connection
  stays open until the server ends it, and if nothing was sent before, the first share
  gets number 1, whose answer is taken for the login's (`LongLogins` in `ResultsWereSent`);
* a server whose login answer repeats the job of the last connection is closed, again and
  again (`parse` in `Client`);
* `--variant` has no effect (`ArgVariant`): its value goes to `parseArg(int, int64_t)`,
  which has no such case, although the usage text names the option; `--platform-index`
  is overwritten by `autoConf()` (`OclInit`); `"intensity"` of the sample configuration in
  the repository's README is not among `config_options`; a positive `power_limit` is
  ignored (`LoadFile`);
* `DonateStrategy::stop()` stops a timer that is uninitialised without a donation client,
  and a pool that sends jobs before its login is mined without being active (the pool is
  not in `Chatty` for `MinerFollowsPool`).

## 5. Proofs

Every safety property of the passing runs, and both refinements, are theorems: they hold
for any number of threads, pools, retries, jobs, shares, levels and samples and for every
size and width the models have as a parameter. All rest on an inductive invariant, named
`...Inv` and proved by one lemma per action or group of actions; a theorem
`Spec => []...Inv` comes first and the properties follow from it. What the invariant adds
to the properties is what a reader of the code would have to know:

| Module | Inductive invariant | Why the properties alone are not inductive |
|---|---|---|
| `Workers` | `HandOffInv`, `SharesInv`, `RealInv` | Which job a thread mines depends on what it read at earlier program points: the main thread's flags at each of its points (`MainInv`), that a thread's sequence was published (`SequenceInv`), what it holds in the window of `consumeJob()` (`JobInv`), where it can be after a pause (`PauseInv`) or a stop (`StopInv`). For shares: identities in use are below `found`, and no thread gets past its first sleep before there is a job |
| `FailoverStrategy` | `FailoverInv` | A client that still has retries has something pending (`ClientOK`), one that is not a stray runs one attempt at a time (`Sane`), backups behind `m_index` rest (`Resting`), lines come from a socket (`ReadInv`), the first pool and the one in use are never disconnected (`IndexInv`) |
| `Network` | `NetworkInv` | The same of the two clients (`RecordsInv`, `ReadInv`); the pool is retried for ever, and the donation has its timer or is trying (`TurnsInv`); between donations its client rests unless it is a stray (`RestInv`); an active pool has given a job, and it is mined outside a donation (`MinerInv`) |
| `Lifecycle` | `LifecycleInv` | Who holds `Api::m_mutex` at which program point (`MutexInv`) and what the request in progress has seen of network and hashrates (`SeenInv`); each `close()` has used up a key or the handle of a signal (`ClosesInv`, a count); what `exec()` has set up at each point (`SetUpInv`); every table that Adl has is allocated (`TablesInv`), and so is the one a request holds across its lookups (`HandsInv`) |
| `Submission` | `SubmissionInv` | A share waits, is in one list under one number, or is counted, and only one of these (`PlaceInv`, `CountInv`); only the active pool can answer a share (`HolderInv`), because only backups that are not active are disconnected (`PurposeInv`) and a login that was sent has used up number 1 (`NumberInv`); `Workers` has the job of the active pool or none (`RouteInv`). `RightInv` relates counters, total and list to the answers |
| `RecvBuffer` | `RecvInv` | The lines handed out and the bytes held make up the stream (`LinesAreThoseOfTheStream`); why a connection was closed is remembered (`ClosedInv`) |
| `JobData` | `JobInvariant` itself | Inductive as it stands; the work is in the lemmas on digits |
| `Options` | `OptionsInv` | While arguments are read, the list of pools is the valid URLs in order and its last entry the one that a user or a file can still change (`PoolState`) |
| `Nonces` | `NoncesInv` | What was hashed of a job lies in the regions of the threads and below their next nonces, unless the job is `excused` (`JobInv`) |
| `Hashrate` | `HashrateInv` | The ring holds the last samples of the log (`RingInv`), samples are in order although count and time are stored and read one at a time (`OrderInv`), and a value read half-way lies between the last sample and the present (`HalfInv`) |
| `Adl` | `AdlInv` | How far the profile is applied to each level at each step (`LevelInv`), and that voltages stay near whatever fails (`NearInv`) |

The refinements: `ImplementsShareChannelHolds` maps each step of `Workers` to a step of
`ShareChannel` or to a stutter, using `SharesInv` to show that a share that leaves is one
that entered and did not leave; `ImplementsPoolSelectorHolds` does it for
`FailoverStrategy` and `PoolSelector`, using that the active pool's job is the miner's.

Induction over data. The induction theorems of the library take an operator as parameter
and cannot be cited. `InputProofs` takes their place with two lemmas on sets and functions: `SetInduction`
(from the least element of a set of numbers, `WFMin`) and `Recursion` (a function that
satisfies a recursion exists and has the type of its values). With them it is proved that

* `onRead()` splits a read at its newlines, for any number of them, and that `memcpy()`
  without overlap keeps the bytes that are left (`RecvInvariantHolds`), so that a pool
  whose lines fit is not dropped (`FittingPoolIsNotDroppedHolds`);
* reading hexadecimal digits inverts writing them, and a target of one word, widened by
  the two divisions of `setTarget()`, admits every hash the pool takes and has the pool's
  difficulty, for every base and width; a target of two words is taken as it is (`JobInvariantHolds`);
* the arguments, the configuration files and `autoConf()` keep or build the lists of
  pools and threads as promised, for files with any number of pools and any number of GPUs
  (`OptionsInvariantHolds`).

`SubmissionProofs` does without induction over the answers: the total and the number of
results of at least `v` are followed along the behaviour, and `OrderExists` shows that a
sorted list with one new element can be sorted again, by inserting it. `Descending`
chooses an order, as `std::sort` does, so that nothing depends on the algorithm.
`GpuProofs` finds the place at which `calc()` stops looking back as the least of a set (`MinFacts`).

Assumptions. Each module names what it assumes of its constants (`ConstantsAssumption`,
`ClientAssumption`, `FailoverAssumption`, `NetworkAssumption`, `LifecycleAssumption`,
`TopSizeAssumption`, `SubmissionAssumption`, `RecvBufferAssumption`, `WidthAssumption`,
`InputAssumption`, `OptionsAssumption`, `NoncesAssumption`, `HashrateAssumption`,
`AdlAssumption`), and TLC evaluates all of them. They are types, that a size is not zero,
and three facts of the code: the slack of the receive buffer is less than the buffer
(`RecvBufferAssumption`); the largest blob is below the array's size (`WidthAssumption`); there are fewer threads
than nonces in the block of a nicehash pool, and that block lies in the space
(`NoncesAssumption`). One theorem has a hypothesis of its own: `MinerFollowsPoolHolds`
assumes that the pool sends no job before its login (`"pool" \notin Chatty`); section 4
says what happens otherwise.

Only model-checked: the liveness properties (`EveryThreadCatchesUp`,
`StopEndsUntornThreads`, `EveryShareIsSettled`, `SomePoolBecomesActive`,
`PoolIsMinedAgain`, `SilentPoolIsGivenUp`, `CloseEndsTheProcess`), since fairness and
`ENABLED` are out of the prover's reach; and the three violations, which are
counterexamples.

## 6. Not modelled, and the plan

Not modelled:

* CryptoNight hashing and the OpenCL kernels: bit-level arithmetic, out of TLC's reach;
* device set-up, kernel compilation and buffers in `OclGPU.cpp`: a sequence of library
  calls without state shared with anyone, whose outcome is a free choice here;
* logging, summary, platform, CPU and memory queries: input and output;
* JSON text, characters of URLs, user names and tokens;
* Windows variants of App and Platform, and the background mode;
* the vendored code (rapidjson, getopt, and 26 copies of the header of libmicrohttpd),
  which is more than nine tenths of the repository's lines.

Every part of the program that keeps state of its own between events has a module; what
`PROJECT.json` calls "partly" modelled lacks only the items that its note lists.

Next:

1. Theorems that connect modules: that the hand-off `Nonces` and `Hashrate` take as one
   step is what `Workers` does outside its two windows, and that `Submission` sees of a
   connection what `Client` lets happen.
2. Action properties for the counters that only grow (`m_sequence`, the statistics, the
   rings), from the invariants that are proved.
3. Shorter proofs where several actions repeat the same argument (`SubmissionProofs`,
   `InputProofs`).
