------------------------------ MODULE Hashrate ------------------------------
(***************************************************************************)
(* The measured speed: each GPU thread stores its count of hashes and a    *)
(* time stamp (OclWorker::storeStats()), the event loop samples both       *)
(* (Workers::onTick()) into a ring for each thread, and the speed over a   *)
(* window of time is computed from the ring (src/workers/Hashrate.cpp).    *)
(*                                                                         *)
(* The two values of a thread are separate atomics, and the order in which *)
(* onTick() reads them, as arguments of one call, is unspecified.  Counts  *)
(* are in runs of the GPU; the clock does not go back.                     *)
(***************************************************************************)
EXTENDS Integers, Sequences, FiniteSets, FiniteSetsExt

CONSTANTS
  ThreadCount,    \* number of threads, named by threadId()
  BucketSize,     \* kBucketSize, 4096 in the code
  Window,   \* the ms of calc()
  Stuck,    \* threads whose GPU never finishes a run
  Leftovers,  \* what fresh memory may hold
  MaxNow,   \* bound: the last moment
  MaxCount, \* bound: runs of a thread
  MaxTicks  \* bound: samples of a thread

ThreadIds == 0 .. ThreadCount - 1

ASSUME HashrateAssumption ==
  /\ ThreadCount \in Nat \ {0} /\ BucketSize \in Nat \ {0, 1} /\ Window \in Nat
  /\ MaxNow \in Nat \ {0} /\ MaxCount \in Nat /\ MaxTicks \in Nat
  /\ Stuck \subseteq ThreadIds /\ 0 \in Leftovers /\ Leftovers \subseteq Nat

VARIABLES
  now,
  m_count,                    \* of each thread: hashes done
  m_hashCount, m_timestamp,   \* of each thread: the atomics
  stamping,                   \* of each thread: the stamp about to be stored, or 0
  ready,                      \* of each thread: handle->worker() is set
  ring, m_top,                \* m_counts and m_timestamps
  sampling,                   \* the thread onTick() is at, -1 outside it
  half,                       \* which value it has read, and what it was
  log                         \* history: the samples of each thread

hashrateVars == <<now, m_count, m_hashCount, m_timestamp, stamping, ready, ring, m_top,
                  sampling, half, log>>

Sample == [count : Nat, stamp : Nat]
Nothing == [of |-> "none", value |-> 0]

HashrateTypeOK ==
  /\ now \in 1 .. MaxNow
  /\ m_count \in [ThreadIds -> Nat] /\ m_hashCount \in [ThreadIds -> Nat]
  /\ m_timestamp \in [ThreadIds -> 0 .. MaxNow] /\ stamping \in [ThreadIds -> 0 .. MaxNow]
  /\ ready \in [ThreadIds -> BOOLEAN]
  /\ ring \in [ThreadIds -> [0 .. BucketSize - 1 -> Sample]]
  /\ m_top \in [ThreadIds -> 0 .. BucketSize - 1]
  /\ sampling \in ThreadIds \cup {-1}
  /\ half \in [of : {"count", "stamp"}, value : Nat] \cup {Nothing}
  /\ log \in [ThreadIds -> Seq(Sample)]

\* Hashrate(): memset() is called on the first ring only, in every round.
Cleared == {0}

HashrateInit ==
  /\ now = 1
  /\ m_count = [t \in ThreadIds |-> 0] /\ m_hashCount = [t \in ThreadIds |-> 0]
  /\ m_timestamp = [t \in ThreadIds |-> 0] /\ stamping = [t \in ThreadIds |-> 0]
  /\ ready = [t \in ThreadIds |-> FALSE]
  /\ \E fill \in [ThreadIds -> Leftovers] :
       /\ \A t \in Cleared : fill[t] = 0
       /\ ring = [t \in ThreadIds |-> [i \in 0 .. BucketSize - 1 |-> [count |-> fill[t], stamp |-> fill[t]]]]
  /\ m_top = [t \in ThreadIds |-> 0]
  /\ sampling = -1 /\ half = Nothing /\ log = [t \in ThreadIds |-> <<>>]

-----------------------------------------------------------------------------
(* The GPU threads.                                                        *)

Time ==
  /\ now < MaxNow
  /\ now' = now + 1
  /\ UNCHANGED <<m_count, m_hashCount, m_timestamp, stamping, ready, ring, m_top, sampling, half,
                 log>>

\* Workers::onReady(): the thread has created its worker.
OnReady(t) ==
  /\ ~ready[t]
  /\ ready' = [ready EXCEPT ![t] = TRUE]
  /\ UNCHANGED <<now, m_count, m_hashCount, m_timestamp, stamping, ring, m_top, sampling, half, log>>

\* m_count += m_ctx->rawIntensity, in 64 bits
Counted(n) == n + 1

\* A run of the GPU ends, or fails at once, and storeStats() stores the count.
StoreCount(t) ==
  /\ ready[t] /\ t \notin Stuck /\ stamping[t] = 0 /\ m_count[t] < MaxCount
  /\ m_count' = [m_count EXCEPT ![t] = Counted(@)]
  /\ m_hashCount' = [m_hashCount EXCEPT ![t] = m_count'[t]]
  /\ stamping' = [stamping EXCEPT ![t] = now]
  /\ UNCHANGED <<now, m_timestamp, ready, ring, m_top, sampling, half, log>>

StoreStamp(t) ==
  /\ stamping[t] # 0
  /\ m_timestamp' = [m_timestamp EXCEPT ![t] = stamping[t]]
  /\ stamping' = [stamping EXCEPT ![t] = 0]
  /\ UNCHANGED <<now, m_count, m_hashCount, ready, ring, m_top, sampling, half, log>>

-----------------------------------------------------------------------------
(* Workers::onTick().                                                      *)

OnTick ==
  /\ sampling = -1 /\ Len(log[0]) < MaxTicks
  /\ sampling' = 0
  /\ UNCHANGED <<now, m_count, m_hashCount, m_timestamp, stamping, ready, ring, m_top, half, log>>

\* A thread that is not ready ends the callback, with the threads before it
\* sampled and those behind it not.
NotReady ==
  /\ sampling # -1 /\ ~ready[sampling]
  /\ sampling' = -1
  /\ UNCHANGED <<now, m_count, m_hashCount, m_timestamp, stamping, ready, ring, m_top, half, log>>

\* One of the two loads.
ReadFirst ==
  /\ sampling # -1 /\ ready[sampling] /\ half = Nothing
  /\ \/ half' = [of |-> "count", value |-> m_hashCount[sampling]]
     \/ half' = [of |-> "stamp", value |-> m_timestamp[sampling]]
  /\ UNCHANGED <<now, m_count, m_hashCount, m_timestamp, stamping, ready, ring, m_top, sampling,
                 log>>

\* m_top[threadId] = (top + 1) & kBucketMask
Advanced(top) == (top + 1) % BucketSize

\* Hashrate::add()
Add(t, sample) ==
  /\ ring' = [ring EXCEPT ![t][m_top[t]] = sample]
  /\ m_top' = [m_top EXCEPT ![t] = Advanced(@)]
  /\ log' = [log EXCEPT ![t] = Append(@, sample)]

\* The other load, add(), and on to the next thread.
ReadSecond ==
  /\ half # Nothing
  /\ Add(sampling, IF half.of = "count"
                   THEN [count |-> half.value, stamp |-> m_timestamp[sampling]]
                   ELSE [count |-> m_hashCount[sampling], stamp |-> half.value])
  /\ half' = Nothing
  /\ sampling' = IF sampling = ThreadCount - 1 THEN -1 ELSE sampling + 1
  /\ UNCHANGED <<now, m_count, m_hashCount, m_timestamp, stamping, ready>>

Over == now = MaxNow /\ Len(log[0]) = MaxTicks /\ sampling = -1 /\ UNCHANGED hashrateVars

HashrateNext ==
  \/ Time \/ OnTick \/ NotReady \/ ReadFirst \/ ReadSecond \/ Over
  \/ \E t \in ThreadIds : OnReady(t) \/ StoreCount(t) \/ StoreStamp(t)

HashrateSpec == HashrateInit /\ [][HashrateNext]_hashrateVars

-----------------------------------------------------------------------------
(* Hashrate::calc(threadId, ms).                                           *)

\* The i-th sample before m_top.
Back(t, i) == ring[t][(m_top[t] - i) % BucketSize]

\* now - stamp is unsigned: a stamp of the future is very old.
Old(stamp) == stamp > now \/ now - stamp > Window

\* Mutant: a speed is computed without a sample older than the window.
FullMutant(t, i) == i <= BucketSize

\* The loop was ended by a sample that is too old, not by an empty place or by
\* the last place of the ring.
Full(t, i) == i < BucketSize /\ Back(t, i).stamp # 0

\* Nan, or the hashes and the time between the first and the last sample in the
\* window.
Nan == <<>>

calc(t) ==
  LET stops == {i \in 1 .. BucketSize - 1 : Back(t, i).stamp = 0 \/ Old(Back(t, i).stamp)}
      stop  == Min(stops \cup {BucketSize})
      last  == Back(t, 1)
      first == Back(t, stop - 1) IN
  IF Full(t, stop) /\ stop > 1 /\ last.stamp # first.stamp
  THEN <<last.count - first.count, last.stamp - first.stamp>>
  ELSE Nan

-----------------------------------------------------------------------------
(* Properties.                                                             *)

\* Every place calc() looks at has been written: thread 0, or one full round.
RingIsKnown(t) == t \in Cleared \/ Len(log[t]) >= BucketSize - 1

\* What the speed should be, from all samples ever taken: the hashes between the
\* first and the last one in the window, if there is also an older one.
Reference(t) ==
  LET taken  == {k \in DOMAIN log[t] : log[t][k].stamp # 0}
      inside == {k \in taken : now - log[t][k].stamp <= Window} IN
  IF inside = {} \/ inside = taken THEN Nan
  ELSE LET last == log[t][Max(inside)]
           first == log[t][Min(inside)] IN
       IF last.stamp = first.stamp THEN Nan
       ELSE <<last.count - first.count, last.stamp - first.stamp>>

\* The window holds no more samples than the ring gives back.
WindowFits(t) ==
  Cardinality({k \in DOMAIN log[t] : now - log[t][k].stamp <= Window}) < BucketSize - 1

\* The ring gives the speed that all samples ever taken give, at every moment
\* and for any interleaving of the stores and the loads, once it is known what
\* is in the ring: the rings of all threads but the first start with whatever
\* the memory holds.
SpeedIsRight == \A t \in ThreadIds : RingIsKnown(t) /\ WindowFits(t) => calc(t) = Reference(t)

\* A speed is never negative, not even from samples whose two halves come from
\* different runs.
SpeedIsNotNegative ==
  \A t \in ThreadIds : RingIsKnown(t) /\ calc(t) # Nan => calc(t)[1] >= 0 /\ calc(t)[2] > 0

\* The ring is used within its bounds, and the speeds are right and not negative
\* (Hashrate.cpp, add, calc; Workers.cpp, onTick).
HashrateInvariant == HashrateTypeOK /\ SpeedIsRight /\ SpeedIsNotNegative
=============================================================================
