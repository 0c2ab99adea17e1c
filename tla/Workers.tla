------------------------------ MODULE Workers ------------------------------
(***************************************************************************)
(* The hand-off of jobs from the event loop to the GPU threads and of      *)
(* shares back (src/workers/Workers.cpp, Workers.h, OclWorker.cpp).        *)
(*                                                                         *)
(* The main thread publishes a job with a few separate writes: the job     *)
(* itself under a lock, then the atomics m_sequence and m_paused.  Every   *)
(* OclWorker polls those atomics without a lock.  The writes are seq_cst;  *)
(* the loads are relaxed, but x86, the only target (the hashing uses SSE   *)
(* intrinsics), keeps loads in order.  So each access is one step, and the *)
(* steps of the threads interleave freely.                                 *)
(* Shares go back through a mutex-protected list and a libuv async handle, *)
(* are verified by the libuv thread pool and delivered by the event loop.  *)
(***************************************************************************)
EXTENDS Naturals, FiniteSets

CONSTANTS
  Threads,     \* the OclWorker threads
  Jobs,        \* jobs of a pool (poolId >= 0: Network::setJob drops others)
  NoJob,       \* the default-constructed Job; also a garbage GPU result
  MaxSequence, \* bound: publications (increments of m_sequence) explored
  MaxShares    \* bound: shares found in a behaviour

ASSUME ConstantsAssumption ==
  /\ NoJob \notin Jobs
  /\ MaxSequence \in Nat
  /\ MaxShares \in Nat

VARIABLES
  \* Shared state, class Workers.
  m_active, m_enabled, m_job,
  m_paused,    \* the atomic m_paused = 1
  m_sequence,
  m_queue,     \* the list of found shares (order is not observed)
  async,       \* m_async has been signalled and not yet handled
  closed,      \* m_async has been closed by stop()
  batons,      \* JobBatons in the thread pool or waiting for after-work
  mpc,         \* where the main thread is inside a Workers function
  \* State of each OclWorker thread.
  pc, wjob, wseq,
  local,       \* the local variable job of consumeJob(), NoJob outside it
  dirty,       \* a found nonce has been written into the blob of m_job
  gpu,         \* the job that XMRSetJob last loaded into the GPU
  \* History.
  found,       \* number of shares found so far, which names them
  settled,     \* shares whose result reached the listener or was refused
  delivered,   \* the ones handed to IJobResultListener::onJobResult
  tornJob,     \* a publication fell between the two loads of consumeJob()
  tornWake     \* a publication fell in the unchecked window after a wake-up

mainVars    == <<m_active, m_enabled, m_job, m_paused, m_sequence>>
shareVars   == <<m_queue, async, closed, batons, found, settled, delivered>>
workerVars  == <<pc, wjob, wseq, local, dirty, gpu>>
historyVars == <<tornJob, tornWake>>
vars == <<mainVars, shareVars, mpc, workerVars, historyVars>>

JobOrNone == Jobs \cup {NoJob}

\* A share as submit() copies it: the job it names, and the job whose hash
\* the GPU really computed (NoJob: a miscomputed result).
Share == [id : Nat, job : JobOrNone, on : JobOrNone]

Baton == [jobs : SUBSET Share, verified : BOOLEAN]

MainPc   == {"idle", "setJob.sequence", "setJob.resume", "bump", "drain",
             "stop.sequence", "join", "done"}
WorkerPc == {"loop", "ifPaused", "sleep", "awake", "readJob1", "readSeq1",
             "mine", "push", "send", "readJob2", "readSeq2", "exit"}

TypeOK ==
  /\ m_active \in BOOLEAN /\ m_enabled \in BOOLEAN /\ m_paused \in BOOLEAN
  /\ m_job \in JobOrNone
  /\ m_sequence \in Nat
  /\ m_queue \in SUBSET Share
  /\ async \in BOOLEAN /\ closed \in BOOLEAN
  /\ batons \in SUBSET Baton
  /\ mpc \in MainPc
  /\ pc \in [Threads -> WorkerPc]
  /\ wjob \in [Threads -> JobOrNone]
  /\ wseq \in [Threads -> Nat]
  /\ local \in [Threads -> JobOrNone]
  /\ dirty \in [Threads -> BOOLEAN]
  /\ gpu \in [Threads -> JobOrNone]
  /\ found \in Nat
  /\ settled \in SUBSET Nat
  /\ delivered \in SUBSET Share
  /\ tornJob \in [Threads -> BOOLEAN]
  /\ tornWake \in [Threads -> BOOLEAN]

\* Workers::start(): the atomics are set before any thread is created.
Init ==
  /\ m_active = FALSE /\ m_enabled = TRUE
  /\ m_job = NoJob
  /\ m_paused = TRUE /\ m_sequence = 1
  /\ m_queue = {} /\ async = FALSE /\ closed = FALSE /\ batons = {}
  /\ mpc = "idle"
  /\ pc = [w \in Threads |-> "loop"]
  /\ wjob = [w \in Threads |-> NoJob]
  /\ wseq = [w \in Threads |-> 0]
  /\ local = [w \in Threads |-> NoJob]
  /\ dirty = [w \in Threads |-> FALSE]
  /\ gpu = [w \in Threads |-> NoJob]
  /\ found = 0 /\ settled = {} /\ delivered = {}
  /\ tornJob = [w \in Threads |-> FALSE]
  /\ tornWake = [w \in Threads |-> FALSE]

-----------------------------------------------------------------------------
(* The inline accessors of Workers.h that the threads poll.                *)

\* Mutant: only an older sequence counts as outdated.
isOutdatedMutant(sequence) == m_sequence < sequence

isOutdated(sequence) == m_sequence # sequence
isPaused == m_paused

\* History: every write to m_sequence marks the threads it takes by surprise.
\* After its wake-up a thread reads m_sequence once, then loads the job and
\* mines without looking at m_paused again; a thread that has never loaded a
\* job (wseq = 0) has the same window on its first pass through the loop.
InWakeWindow(w) ==
  \/ pc[w] \in {"awake", "readJob1", "readSeq1"}
  \/ pc[w] \in {"ifPaused", "mine"} /\ wseq[w] = 0

MarkTorn ==
  /\ tornJob'  = [w \in Threads |->
                    tornJob[w] \/ pc[w] \in {"readSeq1", "readSeq2"}]
  /\ tornWake' = [w \in Threads |-> tornWake[w] \/ InWakeWindow(w)]

-----------------------------------------------------------------------------
(* The main thread.  Its functions run to completion on the event loop, so *)
(* they never overlap each other, only the other threads.                  *)

Main(from, to) == mpc = from /\ mpc' = to

\* Workers::setJob(): m_job under the write lock, then ++m_sequence, then
\* m_paused = 0.  While the user has paused the miner only the job is stored.
SetJob(job) ==
  /\ Main("idle", IF m_enabled THEN "setJob.sequence" ELSE "idle")
  /\ m_sequence < MaxSequence
  /\ m_job' = job
  /\ m_active' = TRUE
  /\ UNCHANGED <<m_enabled, m_paused, m_sequence, shareVars, workerVars, historyVars>>

\* Mutant: ++m_sequence forgotten.
SetJobSequenceMutant ==
  /\ Main("setJob.sequence", "setJob.resume")
  /\ UNCHANGED <<mainVars, shareVars, workerVars, historyVars>>

SetJobSequence ==
  /\ Main("setJob.sequence", "setJob.resume")
  /\ m_sequence' = m_sequence + 1
  /\ MarkTorn
  /\ UNCHANGED <<m_active, m_enabled, m_job, m_paused, shareVars, workerVars>>

SetJobResume ==
  /\ Main("setJob.resume", "idle")
  /\ m_paused' = FALSE
  /\ UNCHANGED <<m_active, m_enabled, m_job, m_sequence, shareVars, workerVars, historyVars>>

\* Mutant: pause() without ++m_sequence.
PauseMutant ==
  /\ Main("idle", "idle")
  /\ m_active' = FALSE
  /\ m_paused' = TRUE
  /\ UNCHANGED <<m_enabled, m_job, m_sequence, shareVars, workerVars, historyVars>>

\* Workers::pause(): m_paused = 1 before ++m_sequence.
Pause ==
  /\ Main("idle", "bump")
  /\ m_sequence < MaxSequence
  /\ m_active' = FALSE
  /\ m_paused' = TRUE
  /\ UNCHANGED <<m_enabled, m_job, m_sequence, shareVars, workerVars, historyVars>>

\* Mutant: setEnabled() without the early return while there is no job.
SetEnabledMutant(enabled) ==
  /\ Main("idle", "bump")
  /\ m_sequence < MaxSequence
  /\ m_enabled # enabled
  /\ m_enabled' = enabled
  /\ m_paused' = ~enabled
  /\ UNCHANGED <<m_active, m_job, m_sequence, shareVars, workerVars, historyVars>>

\* Workers::setEnabled(), from the console: m_paused, then ++m_sequence, and
\* neither of them while no pool has provided a job.
SetEnabled(enabled) ==
  /\ Main("idle", IF m_active THEN "bump" ELSE "idle")
  /\ m_sequence < MaxSequence
  /\ m_enabled # enabled
  /\ m_enabled' = enabled
  /\ m_paused' = IF m_active THEN ~enabled ELSE m_paused
  /\ UNCHANGED <<m_active, m_job, m_sequence, shareVars, workerVars, historyVars>>

\* Mutant: --m_sequence.
BumpMutant ==
  /\ Main("bump", "idle")
  /\ m_sequence' = m_sequence - 1
  /\ UNCHANGED <<m_active, m_enabled, m_job, m_paused, shareVars, workerVars, historyVars>>

\* The last statement of pause() and of setEnabled().
Bump ==
  /\ Main("bump", "idle")
  /\ m_sequence' = m_sequence + 1
  /\ MarkTorn
  /\ UNCHANGED <<m_active, m_enabled, m_job, m_paused, shareVars, workerVars>>

\* Workers::stop(): close the async handle, wake the sleepers, then clear the
\* sequence, which is what ends the threads; then join them.
Stop ==
  /\ Main("idle", "stop.sequence")
  /\ closed' = TRUE
  /\ m_paused' = FALSE
  /\ UNCHANGED <<m_active, m_enabled, m_job, m_sequence, m_queue, async, batons, found,
                 settled, delivered, workerVars, historyVars>>

StopSequence ==
  /\ Main("stop.sequence", "join")
  /\ m_sequence' = 0
  /\ MarkTorn
  /\ UNCHANGED <<m_active, m_enabled, m_job, m_paused, shareVars, workerVars>>

Join ==
  /\ Main("join", "done")
  /\ \A w \in Threads : pc[w] = "exit"
  /\ UNCHANGED <<mainVars, shareVars, workerVars, historyVars>>

\* libuv clears the handle's pending flag and then calls Workers::onResult().
OnAsync ==
  /\ Main("idle", "drain")
  /\ async /\ ~closed
  /\ async' = FALSE
  /\ UNCHANGED <<mainVars, m_queue, closed, batons, found, settled, delivered, workerVars,
                 historyVars>>

\* Mutant: front() without pop_front().
OnResultMutant ==
  /\ Main("drain", "idle")
  /\ batons' = batons \cup {[jobs |-> m_queue, verified |-> FALSE]}
  /\ UNCHANGED <<mainVars, m_queue, async, closed, found, settled, delivered, workerVars,
                 historyVars>>

\* Workers::onResult(): move the whole queue, under the mutex, into a baton.
OnResult ==
  /\ Main("drain", "idle")
  /\ batons' = batons \cup {[jobs |-> m_queue, verified |-> FALSE]}
  /\ m_queue' = {}
  /\ UNCHANGED <<mainVars, async, closed, found, settled, delivered, workerVars, historyVars>>

\* The work callback, in the thread pool: every job is hashed on the CPU.
Verify(b) ==
  /\ ~b.verified
  /\ batons' = (batons \ {b}) \cup {[b EXCEPT !.verified = TRUE]}
  /\ UNCHANGED <<mainVars, m_queue, async, closed, found, settled, delivered, mpc, workerVars,
                 historyVars>>

\* Mutant: the result of the CPU check is ignored.
ValidMutant(share) == TRUE

\* CryptoNight::hash() accepts a nonce only if it solves the job named.
Valid(share) == share.on = share.job

\* The after-work callback, on the event loop: the results go to the listener.
\* It may still run in the loop iteration in which close() stopped the loop.
AfterWork(b) ==
  /\ mpc \in {"idle", "done"}
  /\ b.verified
  /\ batons' = batons \ {b}
  /\ delivered' = delivered \cup {s \in b.jobs : Valid(s)}
  /\ settled' = settled \cup {s.id : s \in b.jobs}
  /\ UNCHANGED <<mainVars, m_queue, async, closed, found, mpc, workerVars, historyVars>>

-----------------------------------------------------------------------------
(* An OclWorker thread, OclWorker::start().                                *)

Goto(w, from, to) == pc[w] = from /\ pc' = [pc EXCEPT ![w] = to]

\* Mutant: the outer loop does not look at the sequence.
LoopMutant(w) ==
  /\ Goto(w, "loop", "ifPaused")
  /\ UNCHANGED <<mainVars, shareVars, mpc, wjob, wseq, local, dirty, gpu, historyVars>>

\* while (Workers::sequence() > 0)
Loop(w) ==
  /\ Goto(w, "loop", IF m_sequence > 0 THEN "ifPaused" ELSE "exit")
  /\ UNCHANGED <<mainVars, shareVars, mpc, wjob, wseq, local, dirty, gpu, historyVars>>

\* if (Workers::isPaused())
IfPaused(w) ==
  /\ Goto(w, "ifPaused", IF isPaused THEN "sleep" ELSE "mine")
  /\ UNCHANGED <<mainVars, shareVars, mpc, wjob, wseq, local, dirty, gpu, historyVars>>

\* do sleep while (Workers::isPaused()): the rounds that stay are stuttering.
Wake(w) ==
  /\ Goto(w, "sleep", "awake")
  /\ ~isPaused
  /\ tornWake' = [tornWake EXCEPT ![w] = FALSE]
  /\ UNCHANGED <<mainVars, shareVars, mpc, wjob, wseq, local, dirty, gpu, tornJob>>

\* if (Workers::sequence() == 0) break;
Awake(w) ==
  /\ Goto(w, "awake", IF m_sequence = 0 THEN "exit" ELSE "readJob1")
  /\ UNCHANGED <<mainVars, shareVars, mpc, wjob, wseq, local, dirty, gpu, historyVars>>

\* consumeJob(), first load: Workers::job() under the read lock.  It is called
\* after a wake-up (1) and at the end of the outer loop (2).
ReadJob(w) ==
  /\ \/ Goto(w, "readJob1", "readSeq1") /\ UNCHANGED tornWake
     \/ /\ Goto(w, "readJob2", "readSeq2")
        /\ tornWake' = [tornWake EXCEPT ![w] = FALSE]
  /\ local' = [local EXCEPT ![w] = m_job]
  /\ tornJob' = [tornJob EXCEPT ![w] = FALSE]
  /\ UNCHANGED <<mainVars, shareVars, mpc, wjob, wseq, dirty, gpu>>

\* consumeJob(), second load and the rest: the sequence, an early return if
\* the job is the one already mined, else the job and the GPU's copy of it,
\* which a failing XMRSetJob leaves as it was.
ReadSequence(w) ==
  /\ Goto(w, "readSeq1", "mine") \/ Goto(w, "readSeq2", "loop")
  /\ wseq' = [wseq EXCEPT ![w] = m_sequence]
  /\ IF wjob[w] = local[w] /\ ~dirty[w]
     THEN UNCHANGED <<wjob, dirty, gpu>>
     ELSE /\ wjob' = [wjob EXCEPT ![w] = local[w]]
          /\ dirty' = [dirty EXCEPT ![w] = FALSE]
          /\ \E loaded \in {local[w], gpu[w]} : gpu' = [gpu EXCEPT ![w] = loaded]
  /\ local' = [local EXCEPT ![w] = NoJob]
  /\ UNCHANGED <<mainVars, shareVars, mpc, historyVars>>

\* while (!Workers::isOutdated(m_sequence)): leave the mining loop.
Outdated(w) ==
  /\ Goto(w, "mine", "readJob2")
  /\ isOutdated(wseq[w])
  /\ UNCHANGED <<mainVars, shareVars, mpc, wjob, wseq, local, dirty, gpu, historyVars>>

\* XMRRunJob() without a result.
RunEmpty(w) ==
  /\ pc[w] = "mine" /\ ~isOutdated(wseq[w])
  /\ UNCHANGED vars

\* XMRRunJob() with at least one result.
RunFound(w) ==
  /\ Goto(w, "mine", "push")
  /\ ~isOutdated(wseq[w])
  /\ found < MaxShares
  /\ UNCHANGED <<mainVars, shareVars, mpc, wjob, wseq, local, dirty, gpu, historyVars>>

\* The nonce is written into m_job and submit() pushes a copy under the mutex.
SubmitPush(w) ==
  /\ Goto(w, "push", "send")
  /\ \E on \in {gpu[w], NoJob} :
       m_queue' = m_queue \cup {[id |-> found, job |-> wjob[w], on |-> on]}
  /\ found' = found + 1
  /\ dirty' = [dirty EXCEPT ![w] = TRUE]
  /\ UNCHANGED <<mainVars, async, closed, batons, settled, delivered, mpc, wjob, wseq, local,
                 gpu, historyVars>>

\* Mutant: uv_async_send() forgotten.
SubmitSendMutant(w) ==
  /\ Goto(w, "send", "mine")
  /\ UNCHANGED <<mainVars, shareVars, mpc, wjob, wseq, local, dirty, gpu, historyVars>>

\* The rest of submit(), uv_async_send(); then the next result of this run of
\* the GPU, if there is one, without another look at the sequence.
SubmitSend(w) ==
  /\ \/ Goto(w, "send", "mine")
     \/ Goto(w, "send", "push") /\ found < MaxShares
  /\ async' = TRUE
  /\ UNCHANGED <<mainVars, m_queue, closed, batons, found, settled, delivered, mpc, wjob, wseq,
                 local, dirty, gpu, historyVars>>

-----------------------------------------------------------------------------
Worker(w) ==
  \/ Loop(w) \/ IfPaused(w) \/ Wake(w) \/ Awake(w)
  \/ ReadJob(w) \/ ReadSequence(w)
  \/ Outdated(w) \/ RunEmpty(w) \/ RunFound(w)
  \/ SubmitPush(w) \/ SubmitSend(w)

\* What the main thread does on its own once it is inside a function.
MainContinues ==
  \/ SetJobSequence \/ SetJobResume \/ Bump
  \/ StopSequence \/ Join
  \/ OnAsync \/ OnResult

\* What the pools, the console and the signals make it do.
Request ==
  \/ \E job \in Jobs : SetJob(job)
  \/ Pause
  \/ \E enabled \in BOOLEAN : SetEnabled(enabled)
  \/ Stop

\* uv_stop(): the event loop is left and the process returns from main().
Exited == mpc = "done" /\ UNCHANGED vars

Next ==
  \/ Request
  \/ Exited
  \/ MainContinues
  \/ \E b \in batons : Verify(b) \/ AfterWork(b)
  \/ \E w \in Threads : Worker(w)

\* The OS schedules every thread, the sleep of a thread ends, the event loop
\* serves a signalled handle and finished work.  Nothing obliges a pool, the
\* user or the hardware to ask for anything or to find a share.
Fairness ==
  /\ \A w \in Threads : WF_vars(Worker(w))
  /\ WF_vars(MainContinues)
  /\ WF_vars(\E b \in batons : Verify(b))
  /\ WF_vars(mpc = "idle" /\ \E b \in batons : AfterWork(b))

Spec == Init /\ [][Next]_vars /\ Fairness

-----------------------------------------------------------------------------
(* Properties.                                                             *)

\* The main thread is between two functions of Workers that publish, and the
\* process is not shutting down: what the threads can see is consistent.
Quiescent == mpc \in {"idle", "drain"}

\* The thread runs the GPU and will go on until m_sequence changes.
Mining(w) == pc[w] \in {"mine", "push", "send"} /\ ~isOutdated(wseq[w])

\* setJob(), pause() and setEnabled(), called in any order by the pools and the
\* console, keep m_paused equal to "no job, or paused by the user".
PausedIffNothingToMine ==
  Quiescent => (m_paused <=> ~(m_active /\ m_enabled))

\* A thread that goes on mining mines the published job, never the one before,
\* unless a publication fell exactly between the two loads of consumeJob().
MinesPublishedJob ==
  \A w \in Threads :
    Quiescent /\ ~m_paused /\ Mining(w) /\ ~tornJob[w] => wjob[w] = m_job

\* Once pause() or setEnabled(false) has returned, no thread goes on mining,
\* unless the call fell into the window after that thread's wake-up in which
\* start() does not look at m_paused again.
PausedThreadsDoNotMine ==
  \A w \in Threads :
    Quiescent /\ m_paused /\ ~tornWake[w] => ~Mining(w)

\* Once stop() has cleared m_sequence, a thread that still runs the GPU, and so
\* never ends, is one whose wake-up (or first pass) raced with stop().
OnlyTornThreadsSurviveStop ==
  \A w \in Threads :
    mpc \in {"join", "done"} /\ Mining(w) => tornWake[w]

\* No lost wake-up between submit() and onResult(): a queued share has a signal
\* pending, a thread about to signal, or the event loop about to drain.
QueuedShareIsSignalled ==
  m_queue # {} =>
    async \/ closed \/ mpc = "drain" \/ \E w \in Threads : pc[w] = "send"

QueuedIds  == {s.id : s \in m_queue}
BatonIds(b) == {s.id : s \in b.jobs}

\* Every share found is in exactly one place: the queue, one baton, or settled.
\* None is dropped or delivered twice on its way through three threads.
EachShareInOnePlace ==
  /\ \A i \in 0 .. found - 1 :
       i \in QueuedIds \/ i \in settled \/ \E b \in batons : i \in BatonIds(b)
  /\ QueuedIds \cap settled = {}
  /\ \A b \in batons : BatonIds(b) \cap (QueuedIds \cup settled) = {}
  /\ \A b, c \in batons : b # c => BatonIds(b) \cap BatonIds(c) = {}

\* What is on its way: in the queue or in a baton.
Inside == m_queue \cup UNION {b.jobs : b \in batons}

Channel == INSTANCE ShareChannel WITH Named <- JobOrNone, inside <- Inside

\* The queue, the signal, the batons and the after-work callback, with whatever
\* the other threads do in between, are a channel: a share enters once, leaves
\* once, and only what has entered is delivered.
ImplementsShareChannel == Channel!ChannelSpec

\* What reaches the pool names a job a pool really sent and is a hash of that
\* job, although the GPU may hold another job and a thread starts with none.
DeliveredSharesAreReal ==
  \A s \in delivered : s.job \in Jobs /\ s.on = s.job

\* Every share found reaches the listener or is refused by the CPU, unless the
\* miner is stopped first.
EveryShareIsSettled ==
  \A i \in 0 .. MaxShares - 1 : (i < found) ~> (i \in settled \/ closed)

\* When nothing is published for long enough, every thread has taken over the
\* last publication.
EveryThreadCatchesUp ==
  \A n \in 1 .. MaxSequence :
    (m_sequence = n /\ ~m_paused) ~>
      (m_sequence # n \/ m_paused \/ \A w \in Threads : wseq[w] = n)

\* stop() ends every thread that did not race with it.
StopEndsUntornThreads ==
  \A w \in Threads : (mpc = "join") ~> (pc[w] = "exit" \/ tornWake[w])

\* App.cpp logs "SIGTERM received, exiting" and calls stop(): every thread ends
\* and the join in stop() returns.
StopEndsEveryThread ==
  (mpc = "join") ~> (mpc = "done")
=============================================================================
