------------------------------- MODULE Nonces -------------------------------
(***************************************************************************)
(* Which nonces the GPU threads try (OclWorker::consumeJob() and start()   *)
(* in src/workers/OclWorker.cpp, XMRSetJob() and XMRRunJob() in            *)
(* src/amd/OclGPU.cpp).  Every thread begins at its own place in the space *)
(* of nonces and goes on in steps of its intensity; nothing stops it at    *)
(* the beginning of its neighbour.                                         *)
(*                                                                         *)
(* When a thread reads what has been published is the subject of Workers;  *)
(* here consumeJob() is one step.                                          *)
(***************************************************************************)
EXTENDS Integers, FiniteSets

CONSTANTS
  Count,         \* m_threads; a thread is named by its m_id
  Space,         \* 2^32, the number of nonces
  Block,         \* 2^24, the nonces of a nicehash miner
  Prefix,        \* the byte a nicehash pool has put into the nonce
  Intensity,     \* rawIntensity: nonces per run of the GPU
  Jobs,
  Nicehash,      \* the jobs whose upper nonce byte belongs to the pool
  NoJob,
  MaxPublished,  \* bound: publications
  MaxRuns        \* bound: runs of a thread on one load of a job

Threads == 0 .. Count - 1

ASSUME NoncesAssumption ==
  /\ Count \in Nat \ {0} /\ Intensity \in Nat \ {0}
  /\ Block \in Nat \ {0} /\ Space \in Nat \ {0} /\ Prefix \in Nat
  /\ Block * (Prefix + 1) <= Space
  /\ Count < Block
  /\ Nicehash \subseteq Jobs /\ NoJob \notin Jobs
  /\ MaxPublished \in Nat \ {0} /\ MaxRuns \in Nat

VARIABLES
  published, m_sequence,  \* Workers: m_job, the published job, and its number
  wjob,      \* of each thread: m_job
  wseq,      \* of each thread: m_sequence
  dirty,     \* of each thread: a found nonce has been written into m_job
  gpu,       \* of each thread: the job in the GPU's input buffer
  nonce,     \* of each thread: ctx->Nonce
  \* History.
  had,       \* of each thread: the jobs that its GPU has been given
  runs,      \* of each thread: successful runs since the nonce was set
  tried,     \* of each job: the nonces that have been hashed
  repeated,  \* the jobs of which a nonce has been hashed twice
  excused    \* the jobs that lost the order of their nonces, see below

noncesVars == <<published, m_sequence, wjob, wseq, dirty, gpu, nonce, had, runs, tried,
                repeated, excused>>

JobOrNone == Jobs \cup {NoJob}

NoncesTypeOK ==
  /\ published \in JobOrNone /\ m_sequence \in 1 .. MaxPublished
  /\ wjob \in [Threads -> JobOrNone] /\ gpu \in [Threads -> JobOrNone]
  /\ wseq \in [Threads -> 0 .. MaxPublished]
  /\ dirty \in [Threads -> BOOLEAN]
  /\ nonce \in [Threads -> 0 .. Space - 1]
  /\ had \in [Threads -> SUBSET Jobs]
  /\ runs \in [Threads -> 0 .. MaxRuns]
  /\ tried \in [Jobs -> SUBSET (0 .. Space - 1)]
  /\ repeated \subseteq Jobs /\ excused \subseteq Jobs

NoncesInit ==
  /\ published = NoJob /\ m_sequence = 1
  /\ wjob = [t \in Threads |-> NoJob] /\ gpu = [t \in Threads |-> NoJob]
  /\ wseq = [t \in Threads |-> 0]
  /\ dirty = [t \in Threads |-> FALSE]
  /\ nonce = [t \in Threads |-> 0] /\ runs = [t \in Threads |-> 0]
  /\ had = [t \in Threads |-> {}]
  /\ tried = [j \in Jobs |-> {}] /\ repeated = {} /\ excused = {}

-----------------------------------------------------------------------------
\* Where thread t begins with a job: its share of 2^32 - 1, or of 2^24 - 1 above
\* the reserved byte.
Start(t, job) ==
  IF job \in Nicehash THEN Prefix * Block + ((Block - 1) \div Count) * t
                      ELSE ((Space - 1) \div Count) * t

\* The nonces of one run; the last kernel's numbers are cut to 32 bits.
Batch(t) == {(nonce[t] + k) % Space : k \in 0 .. Intensity - 1}

\* How many nonces there are for each thread.
Quota(job) == (IF job \in Nicehash THEN Block - 1 ELSE Space - 1) \div Count

-----------------------------------------------------------------------------
\* Workers::setJob() with the next job, or with the same one again after
\* setEnabled(): the threads see another m_sequence.
Publish(job) ==
  /\ m_sequence < MaxPublished
  /\ published' = job
  /\ m_sequence' = m_sequence + 1
  /\ UNCHANGED <<wjob, wseq, dirty, gpu, nonce, had, runs, tried, repeated,
                 excused>>

\* A load of the job loses the order of the nonces of job j if thread t has had
\* it before and begins again (after a share, or after another job), or if
\* XMRSetJob() fails and the GPU keeps its old input with a new nonce.
Disorder(t, loaded) ==
  {j \in {loaded} \cap had[t] : loaded # published \/ dirty[t] \/ wjob[t] # j}

\* Mutant: the comparison of the jobs forgotten.
ConsumeJobMutant(t) ==
  /\ wseq[t] # m_sequence /\ published # NoJob
  /\ wseq' = [wseq EXCEPT ![t] = m_sequence]
  /\ wjob' = [wjob EXCEPT ![t] = published]
  /\ dirty' = [dirty EXCEPT ![t] = FALSE]
  /\ nonce' = [nonce EXCEPT ![t] = Start(t, published)]
  /\ runs' = [runs EXCEPT ![t] = 0]
  /\ \E loaded \in {published, gpu[t]} :
       /\ gpu' = [gpu EXCEPT ![t] = loaded]
       /\ had' = [had EXCEPT ![t] = @ \cup ({loaded} \ {NoJob})]
       /\ excused' = excused \cup Disorder(t, loaded)
  /\ UNCHANGED <<published, m_sequence, tried, repeated>>

\* OclWorker::consumeJob(): nothing changes for the job it has already, unless a
\* found nonce has made m_job differ from it.  save() and resume() are for jobs
\* of the donation, which Network::setJob() never publishes.
ConsumeJob(t) ==
  /\ wseq[t] # m_sequence /\ published # NoJob
  /\ wseq' = [wseq EXCEPT ![t] = m_sequence]
  /\ IF wjob[t] = published /\ ~dirty[t]
     THEN UNCHANGED <<wjob, dirty, nonce, runs, gpu, had, excused>>
     ELSE /\ wjob' = [wjob EXCEPT ![t] = published]
          /\ dirty' = [dirty EXCEPT ![t] = FALSE]
          /\ nonce' = [nonce EXCEPT ![t] = Start(t, published)]
          /\ runs' = [runs EXCEPT ![t] = 0]
          /\ \E loaded \in {published, gpu[t]} :
               /\ gpu' = [gpu EXCEPT ![t] = loaded]
               /\ had' = [had EXCEPT ![t] = @ \cup ({loaded} \ {NoJob})]
               /\ excused' = excused \cup Disorder(t, loaded)
  /\ UNCHANGED <<published, m_sequence, tried, repeated>>

Mining(t) == wseq[t] = m_sequence /\ gpu[t] # NoJob

\* ctx->Nonce += (uint32_t) g_intensity
NextNonce(n) == (n + Intensity) % Space

\* XMRRunJob(): Intensity nonces are hashed and ctx->Nonce moves on, beyond the
\* thread's quota too; found results are written into m_job.
Run(t) ==
  /\ Mining(t) /\ runs[t] < MaxRuns
  /\ nonce' = [nonce EXCEPT ![t] = NextNonce(@)]
  /\ tried' = [tried EXCEPT ![gpu[t]] = @ \cup Batch(t)]
  /\ repeated' = repeated \cup {j \in {gpu[t]} : tried[j] \cap Batch(t) # {}}
  /\ excused' = excused \cup
       {j \in {gpu[t]} : (runs[t] + 1) * Intensity > Quota(j)}
  /\ runs' = [runs EXCEPT ![t] = @ + 1]
  /\ \E found \in BOOLEAN : dirty' = [dirty EXCEPT ![t] = @ \/ found]
  /\ UNCHANGED <<published, m_sequence, wjob, wseq, gpu, had>>

\* XMRRunJob() fails: no nonce is tried and the next run tries the same ones
\* (start() counts them as hashes all the same).
RunFails(t) == wseq[t] = m_sequence /\ UNCHANGED noncesVars

NoncesNext ==
  \/ \E job \in Jobs : Publish(job)
  \/ \E t \in Threads : ConsumeJob(t) \/ Run(t) \/ RunFails(t)

NoncesSpec == NoncesInit /\ [][NoncesNext]_noncesVars

-----------------------------------------------------------------------------
(* Properties.                                                             *)

\* No thread hashes a nonce of a job that it or another thread has hashed, as
\* long as no thread of the job has gone beyond its quota, begun again with the
\* job (a share found before a pause and a resume makes it), or been given a
\* new nonce over an old input.
NoNonceTwice == repeated \subseteq excused

\* A nicehash pool's byte of the nonce is left alone until a thread exceeds its
\* quota or the GPU holds another job than the thread.
ReservedByteIsKept ==
  \A j \in Nicehash \ excused : \A n \in tried[j] : n \div Block = Prefix

\* Nonces stay within 32 bits, none is hashed twice, and a pool's byte is kept
\* (OclWorker.cpp, consumeJob; OclGPU.cpp, XMRRunJob).
NoncesInvariant == NoncesTypeOK /\ NoNonceTwice /\ ReservedByteIsKept
=============================================================================
