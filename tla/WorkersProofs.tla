--------------------------- MODULE WorkersProofs ---------------------------
(***************************************************************************)
(* Proofs about Workers, for any set of threads and jobs and any bounds.   *)
(***************************************************************************)
EXTENDS Workers, TLAPS

Stopped == mpc \in {"join", "done"}

\* What the main thread knows: the flags it alone writes, by program point.
MainInv ==
  /\ mpc \in {"idle", "drain", "bump"} => (m_paused <=> ~(m_active /\ m_enabled))
  /\ mpc \in {"setJob.sequence", "setJob.resume"} => m_active /\ m_enabled
  /\ closed <=> mpc \in {"stop.sequence", "join", "done"}
  /\ Stopped <=> m_sequence = 0

\* The sequence a thread holds was published, and it holds one when it runs.
SequenceInv ==
  \A w \in Threads :
    /\ ~Stopped => wseq[w] <= m_sequence
    /\ ~Stopped /\ pc[w] \in {"push", "send"} => wseq[w] > 0

\* The window in which consumeJob() can only be handed the published job.
JobInv ==
  \A w \in Threads :
    (mpc = "setJob.resume" \/ (Quiescent /\ ~m_paused)) /\ ~tornJob[w] =>
      /\ pc[w] \in {"readSeq1", "readSeq2"} => local[w] = m_job
      /\ pc[w] \in {"loop", "ifPaused", "mine", "push", "send"} /\ wseq[w] = m_sequence
           => wjob[w] = m_job

\* A paused thread that was not taken by surprise is on its way to sleep.
PauseInv ==
  \A w \in Threads :
    Quiescent /\ m_paused /\ ~tornWake[w] =>
      /\ pc[w] \notin {"awake", "readJob1", "readSeq1"}
      /\ pc[w] \in {"mine", "push", "send"} => wseq[w] # m_sequence

\* After stop() a thread that was not taken by surprise is on its way out.
StopInv ==
  \A w \in Threads :
    Stopped /\ ~tornWake[w] =>
      /\ pc[w] \notin {"readJob1", "readSeq1"}
      /\ pc[w] \in {"ifPaused", "mine", "push", "send"} => wseq[w] > 0

\* The inductive invariant of the hand-off of jobs.
HandOffInv ==
  TypeOK /\ MainInv /\ SequenceInv /\ JobInv /\ PauseInv /\ StopInv

\* Until the first job, every thread is fresh and cannot get past its sleep.
FirstJobInv ==
  m_job = NoJob =>
    /\ ~m_active
    /\ ~closed => /\ m_paused
                  /\ \A w \in Threads : pc[w] \in {"loop", "ifPaused", "sleep"} /\ wseq[w] = 0

\* From then on, whatever a thread holds came from a pool.
RealJobInv ==
  ~closed =>
    /\ \A w \in Threads :
         /\ pc[w] \in {"readSeq1", "readSeq2"} => local[w] \in Jobs
         /\ wseq[w] > 0 => wjob[w] \in Jobs
    /\ \A s \in m_queue : s.job \in Jobs

RealShareInv ==
  /\ \A b \in batons : \A s \in b.jobs : s.job \in Jobs
  /\ DeliveredSharesAreReal

\* The shares that exist are the ones found.
KnownIdsInv ==
  /\ \A s \in m_queue : s.id < found
  /\ \A b \in batons : \A s \in b.jobs : s.id < found
  /\ \A i \in settled : i < found

-----------------------------------------------------------------------------
(* Type correctness.                                                       *)

\* Workers::start() leaves every variable in its type.
LEMMA TypeInit == Init => TypeOK
  <1> SUFFICES ASSUME Init PROVE TypeOK
    OBVIOUS
  <1>1. /\ m_active \in BOOLEAN /\ m_enabled \in BOOLEAN /\ m_paused \in BOOLEAN
        /\ async \in BOOLEAN /\ closed \in BOOLEAN
        /\ m_job \in JobOrNone /\ m_sequence \in Nat /\ found \in Nat
        /\ mpc \in MainPc
    BY DEF Init, MainPc, JobOrNone
  <1>2. /\ m_queue \in SUBSET Share /\ batons \in SUBSET Baton
        /\ settled \in SUBSET Nat /\ delivered \in SUBSET Share
    BY DEF Init
  <1>3. /\ pc \in [Threads -> WorkerPc] /\ wseq \in [Threads -> Nat]
        /\ wjob \in [Threads -> JobOrNone] /\ local \in [Threads -> JobOrNone]
        /\ gpu \in [Threads -> JobOrNone]
    BY DEF Init, WorkerPc, JobOrNone
  <1>4. /\ dirty \in [Threads -> BOOLEAN] /\ tornJob \in [Threads -> BOOLEAN]
        /\ tornWake \in [Threads -> BOOLEAN]
    BY DEF Init
  <1> QED
    BY <1>1, <1>2, <1>3, <1>4 DEF TypeOK

\* No step of the main loop, of a worker or of the thread pool leaves the types.
LEMMA TypeStep == TypeOK /\ [Next]_vars => TypeOK'
  <1> SUFFICES ASSUME TypeOK, [Next]_vars PROVE TypeOK'
    OBVIOUS
  <1> USE DEF TypeOK, vars, mainVars, shareVars, workerVars, historyVars
  <1>1. CASE Request
    BY <1>1 DEF Request, SetJob, Pause, SetEnabled, Stop, Main, MainPc, JobOrNone
  <1>2. CASE MainContinues
    <2>1. CASE SetJobSequence
      BY <2>1 DEF SetJobSequence, Main, MainPc, MarkTorn
    <2>2. CASE Bump
      BY <2>2 DEF Bump, Main, MainPc, MarkTorn
    <2>3. CASE StopSequence
      BY <2>3 DEF StopSequence, Main, MainPc, MarkTorn
    <2>4. CASE SetJobResume \/ Join \/ OnAsync
      BY <2>4 DEF SetJobResume, Join, OnAsync, Main, MainPc
    <2>5. CASE OnResult
      <3>1. [jobs |-> m_queue, verified |-> FALSE] \in Baton
        BY DEF Baton
      <3> QED
        BY <2>5, <3>1 DEF OnResult, Main, MainPc
    <2> QED
      BY <1>2, <2>1, <2>2, <2>3, <2>4, <2>5 DEF MainContinues
  <1>3. CASE Exited \/ UNCHANGED vars
    BY <1>3 DEF Exited
  <1>4. ASSUME NEW b \in batons, Verify(b) PROVE TypeOK'
    <2>1. [b EXCEPT !.verified = TRUE] \in Baton
      BY DEF Baton
    <2> QED
      BY <1>4, <2>1 DEF Verify
  <1>5. ASSUME NEW b \in batons, AfterWork(b) PROVE TypeOK'
    <2>1. b.jobs \in SUBSET Share
      BY DEF Baton
    <2>2. {s.id : s \in b.jobs} \in SUBSET Nat
      BY <2>1 DEF Share
    <2> QED
      BY <1>5, <2>1, <2>2 DEF AfterWork
  <1>6. ASSUME NEW w \in Threads, Worker(w) PROVE TypeOK'
    <2>0. pc' \in [Threads -> WorkerPc]
      <3>1. PICK to \in WorkerPc : pc' = [pc EXCEPT ![w] = to] \/ pc' = pc
        BY <1>6 DEF Worker, Loop, IfPaused, Wake, Awake, ReadJob, ReadSequence, Outdated, RunEmpty,
                    RunFound, SubmitPush, SubmitSend, Goto, WorkerPc
      <3> QED
        BY <3>1
    <2>1. CASE Loop(w) \/ IfPaused(w) \/ Awake(w) \/ Outdated(w)
      BY <2>0, <2>1 DEF Loop, IfPaused, Awake, Outdated
    <2>2. CASE RunEmpty(w) \/ RunFound(w)
      BY <2>0, <2>2 DEF RunEmpty, RunFound
    <2>3. CASE Wake(w)
      BY <2>0, <2>3 DEF Wake
    <2>4. CASE ReadJob(w)
      BY <2>0, <2>4 DEF ReadJob
    <2>5. CASE ReadSequence(w)
      BY <2>0, <2>5 DEF ReadSequence, JobOrNone
    <2>6. CASE SubmitPush(w)
      <3>1. \A on \in {gpu[w], NoJob} : [id |-> found, job |-> wjob[w], on |-> on] \in Share
        BY DEF Share, JobOrNone
      <3> QED
        BY <2>0, <2>6, <3>1 DEF SubmitPush
    <2>7. CASE SubmitSend(w)
      BY <2>0, <2>7 DEF SubmitSend
    <2> QED
      BY <1>6, <2>1, <2>2, <2>3, <2>4, <2>5, <2>6, <2>7 DEF Worker
  <1> QED
    BY <1>1, <1>2, <1>3, <1>4, <1>5, <1>6 DEF Next

\* Every variable of the hand-off keeps its type in every reachable state.
THEOREM TypeCorrect == Spec => []TypeOK
  BY TypeInit, TypeStep, PTL DEF Spec

-----------------------------------------------------------------------------
(* The hand-off of jobs.                                                   *)

\* What the main thread alone maintains: m_paused follows m_enabled and m_active.
LEMMA MainStep == TypeOK /\ MainInv /\ [Next]_vars => MainInv'
  <1> SUFFICES ASSUME TypeOK, MainInv, [Next]_vars PROVE MainInv'
    OBVIOUS
  <1> USE DEF TypeOK, MainInv, Stopped, vars, mainVars, shareVars, MainPc
  <1>1. CASE Request
    BY <1>1 DEF Request, SetJob, Pause, SetEnabled, Stop, Main
  <1>2. CASE MainContinues
    BY <1>2 DEF MainContinues, SetJobSequence, SetJobResume, Bump, StopSequence, Join, OnAsync,
                OnResult, Main
  <1>3. CASE Exited \/ UNCHANGED vars
    BY <1>3 DEF Exited
  <1>4. ASSUME NEW b \in batons, Verify(b) \/ AfterWork(b) PROVE MainInv'
    BY <1>4 DEF Verify, AfterWork
  <1>5. ASSUME NEW w \in Threads, Worker(w) PROVE MainInv'
    BY <1>5 DEF Worker, Loop, IfPaused, Wake, Awake, Outdated, RunEmpty, ReadJob, ReadSequence,
                RunFound, SubmitPush, SubmitSend
  <1> QED
    BY <1>1, <1>2, <1>3, <1>4, <1>5 DEF Next

HandOffPerThread == SequenceInv /\ JobInv /\ PauseInv /\ StopInv

\* Each worker's position, local sequence and local job keep fitting together.
LEMMA ThreadStep == HandOffInv /\ [Next]_vars => HandOffPerThread'
  <1> SUFFICES ASSUME HandOffInv, [Next]_vars, NEW v \in Threads
               PROVE  /\ ~Stopped' => wseq'[v] <= m_sequence'
                      /\ ~Stopped' /\ pc'[v] \in {"push", "send"} => wseq'[v] > 0
                      /\ (mpc' = "setJob.resume" \/ (Quiescent' /\ ~m_paused')) /\ ~tornJob'[v] =>
                           /\ pc'[v] \in {"readSeq1", "readSeq2"} => local'[v] = m_job'
                           /\ pc'[v] \in {"loop", "ifPaused", "mine", "push", "send"}
                                /\ wseq'[v] = m_sequence' => wjob'[v] = m_job'
                      /\ Quiescent' /\ m_paused' /\ ~tornWake'[v] =>
                           /\ pc'[v] \notin {"awake", "readJob1", "readSeq1"}
                           /\ pc'[v] \in {"mine", "push", "send"} => wseq'[v] # m_sequence'
                      /\ Stopped' /\ ~tornWake'[v] =>
                           /\ pc'[v] \notin {"readJob1", "readSeq1"}
                           /\ pc'[v] \in {"ifPaused", "mine", "push", "send"} => wseq'[v] > 0
    BY DEF HandOffPerThread, SequenceInv, JobInv, PauseInv, StopInv
  <1> USE DEF HandOffInv, TypeOK, MainInv, SequenceInv, JobInv, PauseInv, StopInv, Stopped,
              Quiescent, vars, mainVars, shareVars, workerVars, historyVars, MainPc, WorkerPc
  <1>1. CASE Request
    BY <1>1 DEF Request, SetJob, Pause, SetEnabled, Stop, Main
  <1>2. CASE MainContinues
    <2>1. CASE SetJobSequence \/ Bump \/ StopSequence
      BY <2>1 DEF SetJobSequence, Bump, StopSequence, Main, MarkTorn, InWakeWindow
    <2>2. CASE SetJobResume \/ Join \/ OnAsync \/ OnResult
      BY <2>2 DEF SetJobResume, Join, OnAsync, OnResult, Main
    <2> QED
      BY <1>2, <2>1, <2>2 DEF MainContinues
  <1>3. CASE Exited \/ UNCHANGED vars
    BY <1>3 DEF Exited
  <1>4. CASE \E b \in batons : Verify(b) \/ AfterWork(b)
    BY <1>4 DEF Verify, AfterWork
  <1>5. CASE \E w \in Threads : Worker(w)
    <2> PICK w \in Threads : Worker(w)
      BY <1>5
    <2>1. CASE Loop(w) \/ IfPaused(w) \/ Wake(w) \/ Awake(w) \/ Outdated(w) \/ RunEmpty(w)
      BY <2>1 DEF Loop, IfPaused, Wake, Awake, Outdated, RunEmpty, Goto, isPaused, isOutdated
    <2>2. CASE ReadJob(w) \/ ReadSequence(w)
      BY <2>2 DEF ReadJob, ReadSequence, Goto
    <2>3. CASE RunFound(w) \/ SubmitPush(w) \/ SubmitSend(w)
      BY <2>3 DEF RunFound, SubmitPush, SubmitSend, Goto, isOutdated
    <2> QED
      BY <2>1, <2>2, <2>3 DEF Worker
  <1> QED
    BY <1>1, <1>2, <1>3, <1>4, <1>5 DEF Next

\* The hand-off invariant holds when the first worker thread starts.
LEMMA HandOffInit == Init => HandOffInv
  <1> SUFFICES ASSUME Init PROVE HandOffInv
    OBVIOUS
  <1>1. MainInv /\ SequenceInv /\ JobInv /\ PauseInv /\ StopInv
    BY DEF Init, MainInv, SequenceInv, JobInv, PauseInv, StopInv, Stopped, Quiescent
  <1> QED
    BY <1>1, TypeInit DEF HandOffInv

\* Between OclWorker::start()'s unsynchronised reads and Workers' writes, every
\* thread stays in one of the situations HandOffInv lists.
THEOREM HandOffInvariant == Spec => []HandOffInv
  <1>1. HandOffInv /\ [Next]_vars => HandOffInv'
    BY TypeStep, MainStep, ThreadStep DEF HandOffInv, HandOffPerThread
  <1> QED
    BY HandOffInit, <1>1, PTL DEF Spec

\* setJob(), pause() and setEnabled() keep m_paused in step with m_active and
\* m_enabled, however the pools and the console interleave.
THEOREM PausedIffNothingToMineHolds == Spec => []PausedIffNothingToMine
  <1>1. HandOffInv => PausedIffNothingToMine
    BY DEF HandOffInv, MainInv, PausedIffNothingToMine, Quiescent
  <1> QED
    BY HandOffInvariant, <1>1, PTL

\* Outside the race between the two loads of consumeJob(), any number of
\* threads mine the published job and no other.
THEOREM MinesPublishedJobHolds == Spec => []MinesPublishedJob
  <1>1. HandOffInv => MinesPublishedJob
    BY DEF HandOffInv, JobInv, MinesPublishedJob, Mining, isOutdated
  <1> QED
    BY HandOffInvariant, <1>1, PTL

\* Outside the unchecked window after a wake-up, no thread goes on mining once
\* pause() or setEnabled(false) has returned.
THEOREM PausedThreadsDoNotMineHolds == Spec => []PausedThreadsDoNotMine
  <1>1. HandOffInv => PausedThreadsDoNotMine
    BY DEF HandOffInv, PauseInv, PausedThreadsDoNotMine, Mining, isOutdated
  <1> QED
    BY HandOffInvariant, <1>1, PTL

\* The only threads stop() cannot end are those whose wake-up or first pass
\* through the loop raced with it.
THEOREM OnlyTornThreadsSurviveStopHolds == Spec => []OnlyTornThreadsSurviveStop
  <1>1. HandOffInv => OnlyTornThreadsSurviveStop
    BY DEF HandOffInv, TypeOK, MainInv, StopInv, Stopped, OnlyTornThreadsSurviveStop, Mining,
           isOutdated
  <1> QED
    BY HandOffInvariant, <1>1, PTL

-----------------------------------------------------------------------------
(* The way of the shares back to the event loop.                           *)

\* No share waits in the queue without a wake-up under way.
THEOREM QueuedShareIsSignalledHolds == Spec => []QueuedShareIsSignalled
  <1>1. Init => QueuedShareIsSignalled
    BY DEF Init, QueuedShareIsSignalled
  <1>2. TypeOK /\ QueuedShareIsSignalled /\ [Next]_vars => QueuedShareIsSignalled'
    <2> SUFFICES ASSUME TypeOK, QueuedShareIsSignalled, [Next]_vars
                 PROVE  QueuedShareIsSignalled'
      OBVIOUS
    <2> USE DEF TypeOK, QueuedShareIsSignalled, vars, mainVars, shareVars, workerVars, Main, Goto
    <2>1. CASE Request \/ MainContinues
      BY <2>1 DEF Request, SetJob, Pause, SetEnabled, Stop, MainContinues, SetJobSequence,
                  SetJobResume, Bump, StopSequence, Join, OnAsync, OnResult
    <2>2. CASE Exited \/ UNCHANGED vars \/ \E b \in batons : Verify(b) \/ AfterWork(b)
      BY <2>2 DEF Exited, Verify, AfterWork
    <2>3. ASSUME NEW w \in Threads, Worker(w) PROVE QueuedShareIsSignalled'
      BY <2>3 DEF Worker, Loop, IfPaused, Wake, Awake, Outdated, RunEmpty, ReadJob, ReadSequence,
                  RunFound, SubmitPush, SubmitSend
    <2> QED
      BY <2>1, <2>2, <2>3 DEF Next
  <1> QED
    BY <1>1, <1>2, TypeCorrect, PTL DEF Spec

\* Only these five actions move shares; the rest leaves them where they are.
LEMMA ShareMoves ==
  ASSUME [Next]_vars
  PROVE  \/ UNCHANGED <<m_queue, batons, found, settled, delivered>>
         \/ OnResult
         \/ \E b \in batons : Verify(b) \/ AfterWork(b)
         \/ \E w \in Threads : SubmitPush(w)
  BY DEF Next, Request, SetJob, Pause, SetEnabled, Stop, MainContinues, SetJobSequence,
         SetJobResume, Bump, StopSequence, Join, OnAsync, Exited, Worker, Loop, IfPaused, Wake,
         Awake, Outdated, RunEmpty, ReadJob, ReadSequence, RunFound, SubmitSend, vars, mainVars,
         shareVars, workerVars

SharesInv == KnownIdsInv /\ EachShareInOnePlace

\* Shares on their way from submit() to the listener are neither lost nor copied.
LEMMA SharesStep == TypeOK /\ SharesInv /\ [Next]_vars => SharesInv'
  <1> SUFFICES ASSUME TypeOK, SharesInv, [Next]_vars PROVE SharesInv'
    OBVIOUS
  <1> USE DEF SharesInv, KnownIdsInv, EachShareInOnePlace, QueuedIds, BatonIds
  <1>1. CASE UNCHANGED <<m_queue, batons, found, settled, delivered>>
    BY <1>1
  <1>2. CASE OnResult
    <2> DEFINE fresh == [jobs |-> m_queue, verified |-> FALSE]
    <2>1. /\ fresh.jobs = m_queue
          /\ m_queue' = {} /\ batons' = batons \cup {fresh}
          /\ UNCHANGED <<found, settled>>
      BY <1>2 DEF OnResult
    <2> HIDE DEF fresh
    <2>2. KnownIdsInv'
      BY <2>1
    <2>3. BatonIds(fresh) = QueuedIds /\ QueuedIds' = {}
      BY <2>1
    <2>4. EachShareInOnePlace'
      <3> HIDE DEF QueuedIds, BatonIds, KnownIdsInv
      <3> QED
        BY <2>1, <2>3
    <2> QED
      BY <2>2, <2>4
  <1>3. ASSUME NEW b \in batons, Verify(b) PROVE SharesInv'
    <2>1. [b EXCEPT !.verified = TRUE].jobs = b.jobs
      BY DEF TypeOK, Baton
    <2> QED
      BY <1>3, <2>1 DEF Verify
  <1>4. ASSUME NEW b \in batons, AfterWork(b) PROVE SharesInv'
    <2>1. /\ batons' = batons \ {b}
          /\ settled' = settled \cup BatonIds(b)
          /\ UNCHANGED <<m_queue, found>>
      BY <1>4 DEF AfterWork
    <2>2. \A i \in BatonIds(b) : i < found
      OBVIOUS
    <2>3. KnownIdsInv'
      BY <2>1, <2>2
    <2>4. EachShareInOnePlace'
      BY <2>1
    <2> QED
      BY <2>3, <2>4
  <1>5. ASSUME NEW w \in Threads, SubmitPush(w) PROVE SharesInv'
    <2>1. PICK s : /\ s.id = found
                   /\ m_queue' = m_queue \cup {s}
                   /\ found' = found + 1 /\ UNCHANGED <<batons, settled>>
      BY <1>5 DEF SubmitPush
    <2>2. /\ found \in Nat
          /\ \A t \in m_queue : t.id \in Nat
          /\ \A b \in batons : \A t \in b.jobs : t.id \in Nat
          /\ \A i \in settled : i \in Nat
      BY DEF TypeOK, Baton, Share
    <2>3. KnownIdsInv'
      BY <2>1, <2>2
    <2>4. QueuedIds' = QueuedIds \cup {found}
      BY <2>1
    <2>5. found \notin settled /\ \A b \in batons : found \notin BatonIds(b)
      BY <2>2
    <2>6. \A i \in 0 .. found' - 1 : i = found \/ i \in 0 .. found - 1
      BY <2>1, <2>2
    <2>7. \A b \in batons' : BatonIds(b)' = BatonIds(b)
      BY <2>1
    <2>8. EachShareInOnePlace'
      <3> HIDE DEF QueuedIds, BatonIds, KnownIdsInv
      <3> QED
        BY <2>1, <2>4, <2>5, <2>6, <2>7
    <2> QED
      BY <2>3, <2>8
  <1> QED
    BY ShareMoves, <1>1, <1>2, <1>3, <1>4, <1>5

\* When the threads start there is no share.
LEMMA SharesInit == Init => SharesInv
  BY DEF Init, SharesInv, KnownIdsInv, EachShareInOnePlace, QueuedIds, BatonIds

\* Every share found is in exactly one place until it is settled, whatever the
\* number of threads, shares and batons.
THEOREM EachShareInOnePlaceHolds == Spec => []EachShareInOnePlace
  <1>1. SharesInv => EachShareInOnePlace
    BY DEF SharesInv
  <1> QED
    BY <1>1, SharesInit, SharesStep, TypeCorrect, PTL DEF Spec

RealInv == FirstJobInv /\ RealJobInv /\ RealShareInv

\* A share carries the job and the sequence that its worker really mined.
LEMMA RealStep == HandOffInv /\ RealInv /\ [Next]_vars => RealInv'
  <1> SUFFICES ASSUME HandOffInv, RealInv, [Next]_vars PROVE RealInv'
    OBVIOUS
  <1> USE ConstantsAssumption
      DEF RealInv, HandOffInv, TypeOK, MainInv, SequenceInv, Stopped, JobOrNone, vars, mainVars,
          shareVars, workerVars, MainPc, WorkerPc, Main, Goto
  <1>1. FirstJobInv'
    <2> USE DEF FirstJobInv
    <2>1. CASE Request \/ MainContinues
      BY <2>1 DEF Request, SetJob, Pause, SetEnabled, Stop, MainContinues, SetJobSequence,
                  SetJobResume, Bump, StopSequence, Join, OnAsync, OnResult
    <2>2. CASE Exited \/ UNCHANGED vars \/ \E b \in batons : Verify(b) \/ AfterWork(b)
      BY <2>2 DEF Exited, Verify, AfterWork
    <2>3. ASSUME NEW w \in Threads, Worker(w) PROVE FirstJobInv'
      BY <2>3 DEF Worker, Loop, IfPaused, Wake, Awake, Outdated, RunEmpty, ReadJob, ReadSequence,
                  RunFound, SubmitPush, SubmitSend, isPaused
    <2> QED
      BY <2>1, <2>2, <2>3 DEF Next
  <1>2. RealJobInv'
    <2> USE DEF RealJobInv, FirstJobInv
    <2>1. CASE Request \/ MainContinues
      BY <2>1 DEF Request, SetJob, Pause, SetEnabled, Stop, MainContinues, SetJobSequence,
                  SetJobResume, Bump, StopSequence, Join, OnAsync, OnResult
    <2>2. CASE Exited \/ UNCHANGED vars \/ \E b \in batons : Verify(b) \/ AfterWork(b)
      BY <2>2 DEF Exited, Verify, AfterWork
    <2>3. ASSUME NEW w \in Threads, Worker(w) PROVE RealJobInv'
      <3>1. CASE ReadJob(w)
        BY <3>1 DEF ReadJob
      <3>2. CASE ReadSequence(w)
        BY <3>2 DEF ReadSequence
      <3>3. CASE SubmitPush(w)
        BY <3>3 DEF SubmitPush
      <3> QED
        BY <2>3, <3>1, <3>2, <3>3
           DEF Worker, Loop, IfPaused, Wake, Awake, Outdated, RunEmpty, RunFound, SubmitSend
    <2> QED
      BY <2>1, <2>2, <2>3 DEF Next
  <1>3. RealShareInv'
    <2> USE DEF RealShareInv, DeliveredSharesAreReal
    <2>1. CASE UNCHANGED <<m_queue, batons, found, settled, delivered>>
      BY <2>1
    <2>2. CASE OnResult
      BY <2>2 DEF OnResult, RealJobInv
    <2>3. ASSUME NEW b \in batons, Verify(b) PROVE RealShareInv'
      <3>1. [b EXCEPT !.verified = TRUE].jobs = b.jobs
        BY DEF Baton
      <3> QED
        BY <2>3, <3>1 DEF Verify
    <2>4. ASSUME NEW b \in batons, AfterWork(b) PROVE RealShareInv'
      BY <2>4 DEF AfterWork, Valid
    <2>5. ASSUME NEW w \in Threads, SubmitPush(w) PROVE RealShareInv'
      BY <2>5 DEF SubmitPush
    <2> QED
      BY ShareMoves, <2>1, <2>2, <2>3, <2>4, <2>5
  <1> QED
    BY <1>1, <1>2, <1>3

\* Whatever reaches the listener is a hash the GPU really computed for the job
\* it names, and that job was sent by a pool.
THEOREM DeliveredSharesAreRealHolds == Spec => []DeliveredSharesAreReal
  <1>1. Init => RealInv
    BY DEF Init, RealInv, FirstJobInv, RealJobInv, RealShareInv, DeliveredSharesAreReal
  <1>2. RealInv => DeliveredSharesAreReal
    BY DEF RealInv, RealShareInv
  <1> QED
    BY <1>1, <1>2, RealStep, HandOffInvariant, PTL DEF Spec

-----------------------------------------------------------------------------
(* The way of the shares is the channel of ShareChannel.                   *)

\* A step of any thread enters one share, lets one group out, or is invisible
\* in the channel: moving the queue into a baton and hashing it are invisible.
LEMMA ChannelStep ==
  TypeOK /\ SharesInv /\ [Next]_vars => [Channel!ChannelNext]_(Channel!channelVars)
  <1> SUFFICES ASSUME TypeOK, SharesInv, [Next]_vars
               PROVE  Channel!ChannelNext \/ UNCHANGED Channel!channelVars
    OBVIOUS
  <1> USE DEF Channel!channelVars
  <1>1. CASE UNCHANGED <<m_queue, batons, found, settled, delivered>>
    BY <1>1 DEF Inside
  <1>2. CASE OnResult
    <2>1. PICK fresh : /\ fresh.jobs = m_queue
                       /\ m_queue' = {} /\ batons' = batons \cup {fresh}
                       /\ UNCHANGED <<found, settled, delivered>>
      BY <1>2 DEF OnResult
    <2>2. Inside' = Inside
      BY <2>1 DEF Inside
    <2> QED
      BY <2>1, <2>2
  <1>3. ASSUME NEW b \in batons, Verify(b) PROVE UNCHANGED Channel!channelVars
    <2>1. PICK c : /\ c.jobs = b.jobs
                   /\ batons' = (batons \ {b}) \cup {c}
                   /\ UNCHANGED <<m_queue, found, settled, delivered>>
      BY <1>3 DEF Verify, TypeOK, Baton
    <2>2. Inside' = Inside
      BY <2>1 DEF Inside
    <2> QED
      BY <2>1, <2>2
  <1>4. ASSUME NEW b \in batons, AfterWork(b) PROVE Channel!ChannelNext
    <2> DEFINE good == {s \in b.jobs : Valid(s)}
    <2>1. /\ batons' = batons \ {b} /\ delivered' = delivered \cup good
          /\ settled' = settled \cup {s.id : s \in b.jobs}
          /\ UNCHANGED <<m_queue, found>>
      BY <1>4 DEF AfterWork
    <2>2. b.jobs \in SUBSET Inside /\ good \in SUBSET b.jobs
      BY DEF Inside
    <2>3. \A s \in b.jobs : /\ s.id \notin settled
                            /\ s \notin m_queue
                            /\ \A c \in batons' : s \notin c.jobs
      BY <2>1 DEF SharesInv, EachShareInOnePlace, QueuedIds, BatonIds
    <2>4. Inside' = Inside \ b.jobs
      BY <2>1, <2>3 DEF Inside
    <2>5. Channel!Leave(b.jobs, good)
      BY <2>1, <2>3, <2>4 DEF Channel!Leave
    <2> QED
      BY <2>2, <2>5 DEF Channel!ChannelNext
  <1>5. ASSUME NEW w \in Threads, SubmitPush(w) PROVE Channel!ChannelNext
    <2>1. PICK on \in {gpu[w], NoJob} :
            /\ m_queue' = m_queue \cup {[id |-> found, job |-> wjob[w], on |-> on]}
            /\ found' = found + 1
            /\ UNCHANGED <<batons, settled, delivered>>
      BY <1>5 DEF SubmitPush
    <2>2. on \in JobOrNone /\ wjob[w] \in JobOrNone
      BY DEF TypeOK, JobOrNone
    <2>3. Inside' = Inside \cup {[id |-> found, job |-> wjob[w], on |-> on]}
      BY <2>1 DEF Inside
    <2>4. Channel!Enter(wjob[w], on)
      BY <2>1, <2>3 DEF Channel!Enter
    <2> QED
      BY <2>2, <2>4 DEF Channel!ChannelNext
  <1> QED
    BY ShareMoves, <1>1, <1>2, <1>3, <1>4, <1>5

\* The queue, the signal, the batons and the after-work callback implement the
\* channel, for any number of threads and shares: a share enters once and
\* leaves once, and only what has entered is delivered.
THEOREM ImplementsShareChannelHolds == Spec => ImplementsShareChannel
  <1>1. Init => Channel!ChannelInit
    BY DEF Init, Channel!ChannelInit, Inside
  <1> QED
    BY <1>1, SharesInit, SharesStep, ChannelStep, TypeCorrect, PTL
       DEF Spec, ImplementsShareChannel, Channel!ChannelSpec

=============================================================================
