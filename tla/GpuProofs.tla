------------------------------ MODULE GpuProofs ------------------------------
(***************************************************************************)
(* Proofs about the GPUs: what their threads hash (Nonces), how it is      *)
(* measured (Hashrate) and how their clocks are set and set back (Adl),    *)
(* for any number of threads, any size of the space of nonces, any         *)
(* intensity, any size of the ring, any window, and any adapters, tables,  *)
(* profiles and settings.                                                  *)
(***************************************************************************)
EXTENDS Nonces, Hashrate, Adl, FiniteSetTheorems, WellFoundedInduction, TLAPS

-----------------------------------------------------------------------------
(* Nonces.                                                                 *)

\* The nonces that thread t may hash of a job before it exceeds its quota.
Region(t, j) == Start(t, j) .. Start(t, j) + Quota(j) - 1

\* What has been hashed of a job that is not excused: nonces of the threads' regions,
\* none of the region of a thread that has not had the job, and of the thread that has
\* it in its GPU those below the thread's next one.
JobInv(j) ==
  /\ \A n \in tried[j] : \E t \in Threads : n \in Region(t, j)
  /\ \A t \in Threads :
       /\ j \notin had[t] => \A n \in tried[j] : n \notin Region(t, j)
       /\ gpu[t] = j =>
            /\ nonce[t] = Start(t, j) + runs[t] * Intensity
            /\ runs[t] * Intensity <= Quota(j)
            /\ \A n \in tried[j] : n \in Region(t, j) => n < nonce[t]

NoncesInv ==
  /\ NoncesTypeOK
  /\ \A t \in Threads : gpu[t] # NoJob => gpu[t] \in had[t]
  /\ \A j \in Jobs \ excused : JobInv(j)
  /\ NoNonceTwice

-----------------------------------------------------------------------------
\* A product grows with its factors.
LEMMA ProductGrows == \A a, b, c \in Nat : a <= b => c * a <= c * b
  OBVIOUS

\* A quotient with a positive divisor.
LEMMA Quotient ==
  \A a \in Nat, c \in Nat \ {0} : a \div c \in Nat /\ c * (a \div c) <= a /\ a < c * ((a \div c) + 1)
  OBVIOUS

\* A number in the q-th block of a size has q as its quotient.
LEMMA QuotientIs ==
  ASSUME NEW n \in Nat, NEW c \in Nat \ {0}, NEW q \in Nat, q * c <= n, n < q * c + c
  PROVE  n \div c = q
  <1> DEFINE d == n \div c
  <1>1. d \in Nat /\ c * d <= n /\ n < c * (d + 1)
    BY Quotient
  <1> HIDE DEF d
  <1>2. ~(d + 1 <= q)
    <2>1. d + 1 <= q => c * (d + 1) <= c * q
      BY <1>1, ProductGrows
    <2> QED
      BY <1>1, <2>1
  <1>3. ~(q + 1 <= d)
    <2>1. q + 1 <= d => c * (q + 1) <= c * d
      BY <1>1, ProductGrows
    <2> QED
      BY <1>1, <2>1
  <1>4. d = q
    BY <1>1, <1>2, <1>3
  <1> QED
    BY <1>4 DEF d

-----------------------------------------------------------------------------
\* The quotas of all threads together fit above the place where thread 0 begins.
LEMMA QuotaFacts ==
  ASSUME NEW j \in Jobs
  PROVE  /\ Quota(j) \in Nat
         /\ j \in Nicehash => Count * Quota(j) <= Block - 1
         /\ j \notin Nicehash => Count * Quota(j) <= Space - 1
  <1>1. Block - 1 \in Nat /\ Space - 1 \in Nat /\ Count \in Nat \ {0}
    BY NoncesAssumption
  <1> QED
    BY <1>1, Quotient DEF Quota

\* Threads begin a quota apart from each other.
LEMMA StartIs ==
  ASSUME NEW j \in Jobs
  PROVE  \E base \in Nat :
           /\ j \in Nicehash => base = Prefix * Block
           /\ j \notin Nicehash => base = 0
           /\ \A t \in Threads : Start(t, j) = base + Quota(j) * t
  <1>1. CASE j \in Nicehash
    <2>1. Prefix * Block \in Nat
      BY NoncesAssumption
    <2>2. \A t \in Threads : Start(t, j) = Prefix * Block + Quota(j) * t
      BY <1>1 DEF Start, Quota
    <2> QED
      BY <1>1, <2>1, <2>2
  <1>2. CASE j \notin Nicehash
    <2>1. \A t \in Threads : Quota(j) * t \in Nat /\ Start(t, j) = Quota(j) * t
      BY <1>2, QuotaFacts, NoncesAssumption DEF Start, Quota, Threads
    <2>2. \A t \in Threads : Start(t, j) = 0 + Quota(j) * t
      BY <2>1
    <2> QED
      BY <1>2, <2>2
  <1> QED
    BY <1>1, <1>2

\* A thread's nonces are numbers of 32 bits, with the byte of a nicehash pool.
LEMMA RegionFacts ==
  ASSUME NEW t \in Threads, NEW j \in Jobs
  PROVE  /\ Start(t, j) \in Nat /\ Start(t, j) + Quota(j) <= Space - 1
         /\ j \in Nicehash => /\ Prefix * Block <= Start(t, j)
                              /\ Start(t, j) + Quota(j) < Prefix * Block + Block
  <1>1. PICK base \in Nat :
          /\ j \in Nicehash => base = Prefix * Block
          /\ j \notin Nicehash => base = 0
          /\ \A u \in Threads : Start(u, j) = base + Quota(j) * u
    BY StartIs
  <1> DEFINE q == Quota(j)
  <1>2. q \in Nat /\ t \in Nat /\ t + 1 <= Count /\ Count \in Nat
    BY QuotaFacts, NoncesAssumption DEF Threads
  <1>3. Start(t, j) = base + q * t
    BY <1>1
  <1>4. Count * q <= (IF j \in Nicehash THEN Block - 1 ELSE Space - 1)
    BY QuotaFacts
  <1> HIDE DEF q
  <1>5. q * (t + 1) <= q * Count
    BY <1>2, ProductGrows
  <1>6. q * (t + 1) = q * t + q /\ q * Count = Count * q /\ q * t \in Nat
    BY <1>2
  <1>7. Start(t, j) \in Nat /\ Start(t, j) + q <= base + Count * q
    BY <1>2, <1>3, <1>5, <1>6
  <1>8. Block * (Prefix + 1) = Prefix * Block + Block /\ Prefix * Block \in Nat
    BY NoncesAssumption
  <1>9. CASE j \in Nicehash
    <2>1. Start(t, j) + q <= Prefix * Block + (Block - 1)
      BY <1>1, <1>2, <1>4, <1>7, <1>8, <1>9, NoncesAssumption
    <2> QED
      BY <1>1, <1>2, <1>3, <1>6, <1>7, <1>8, <1>9, <2>1, NoncesAssumption DEF q
  <1>10. CASE j \notin Nicehash
    BY <1>1, <1>2, <1>4, <1>7, <1>10, NoncesAssumption DEF q
  <1> QED
    BY <1>9, <1>10

\* Two threads have no nonce in common.
LEMMA RegionsApart ==
  ASSUME NEW t \in Threads, NEW u \in Threads, t # u, NEW j \in Jobs
  PROVE  \A n \in Region(t, j) : n \notin Region(u, j)
  <1>1. PICK base \in Nat : \A v \in Threads : Start(v, j) = base + Quota(j) * v
    BY StartIs
  <1> DEFINE q == Quota(j)
  <1>2. q \in Nat /\ t \in Nat /\ u \in Nat
    BY QuotaFacts DEF Threads
  <1>3. Start(t, j) = base + q * t /\ Start(u, j) = base + q * u
    BY <1>1
  <1> HIDE DEF q
  <1>4. q * (t + 1) = q * t + q /\ q * (u + 1) = q * u + q /\ q * t \in Nat /\ q * u \in Nat
    BY <1>2
  <1>5. CASE t + 1 <= u
    <2>1. q * (t + 1) <= q * u
      BY <1>2, <1>5, ProductGrows
    <2> QED
      BY <1>2, <1>3, <1>4, <2>1 DEF Region, q
  <1>6. CASE u + 1 <= t
    <2>1. q * (u + 1) <= q * t
      BY <1>2, <1>6, ProductGrows
    <2> QED
      BY <1>2, <1>3, <1>4, <2>1 DEF Region, q
  <1> QED
    BY <1>2, <1>5, <1>6

-----------------------------------------------------------------------------
\* Workers::setJob() hashes nothing.
LEMMA PublishStep ==
  ASSUME NoncesInv, NEW job \in Jobs, Publish(job)
  PROVE  NoncesInv'
  <1>1. /\ published' = job /\ m_sequence' = m_sequence + 1 /\ m_sequence < MaxPublished
        /\ wjob' = wjob /\ wseq' = wseq /\ dirty' = dirty /\ gpu' = gpu /\ nonce' = nonce
        /\ had' = had /\ runs' = runs /\ tried' = tried /\ repeated' = repeated
        /\ excused' = excused
    BY DEF Publish
  <1>2. NoncesTypeOK'
    BY <1>1, NoncesAssumption DEF NoncesInv, NoncesTypeOK, JobOrNone
  <1>3. \A j \in Jobs \ excused' : JobInv(j)'
    BY <1>1 DEF NoncesInv, JobInv
  <1> QED
    BY <1>1, <1>2, <1>3 DEF NoncesInv, NoNonceTwice

\* consumeJob() with the job that the thread has already.
LEMMA SameJobStep ==
  ASSUME NoncesInv, NEW t \in Threads, ConsumeJob(t), wjob[t] = published, ~dirty[t]
  PROVE  NoncesInv'
  <1>1. /\ wseq' = [wseq EXCEPT ![t] = m_sequence]
        /\ published' = published /\ m_sequence' = m_sequence
        /\ wjob' = wjob /\ dirty' = dirty /\ gpu' = gpu /\ nonce' = nonce
        /\ had' = had /\ runs' = runs /\ tried' = tried /\ repeated' = repeated
        /\ excused' = excused
    BY DEF ConsumeJob
  <1>2. wseq' \in [Threads -> 0 .. MaxPublished]
    BY <1>1, NoncesAssumption DEF NoncesInv, NoncesTypeOK
  <1>3. NoncesTypeOK'
    BY <1>1, <1>2 DEF NoncesInv, NoncesTypeOK
  <1>4. \A j \in Jobs \ excused' : JobInv(j)'
    BY <1>1 DEF NoncesInv, JobInv
  <1> QED
    BY <1>1, <1>3, <1>4 DEF NoncesInv, NoNonceTwice

\* consumeJob() with another job, or with the same one after a share: a job that the
\* thread has had, or that stays in the GPU under a new nonce, is excused.
LEMMA NewJobStep ==
  ASSUME NoncesInv, NEW t \in Threads, ConsumeJob(t), ~(wjob[t] = published /\ ~dirty[t])
  PROVE  NoncesInv'
  <1>0. NoncesTypeOK /\ published \in Jobs /\ gpu[t] \in JobOrNone
    BY DEF NoncesInv, NoncesTypeOK, ConsumeJob, JobOrNone
  <1>1. /\ wseq' = [wseq EXCEPT ![t] = m_sequence]
        /\ wjob' = [wjob EXCEPT ![t] = published]
        /\ dirty' = [dirty EXCEPT ![t] = FALSE]
        /\ nonce' = [nonce EXCEPT ![t] = Start(t, published)]
        /\ runs' = [runs EXCEPT ![t] = 0]
        /\ published' = published /\ m_sequence' = m_sequence /\ tried' = tried
        /\ repeated' = repeated
    BY DEF ConsumeJob
  <1>2. PICK loaded \in {published, gpu[t]} :
          /\ gpu' = [gpu EXCEPT ![t] = loaded]
          /\ had' = [had EXCEPT ![t] = @ \cup ({loaded} \ {NoJob})]
          /\ excused' = excused \cup Disorder(t, loaded)
    BY DEF ConsumeJob
  <1>3. loaded \in JobOrNone
    BY <1>0 DEF JobOrNone
  <1>4. Start(t, published) \in 0 .. Space - 1
    BY <1>0, RegionFacts, QuotaFacts, NoncesAssumption
  <1>5. had[t] \in SUBSET Jobs /\ Disorder(t, loaded) \subseteq Jobs
    BY <1>0 DEF NoncesTypeOK, Disorder
  <1>6. NoncesTypeOK'
    <2>1. /\ wseq' \in [Threads -> 0 .. MaxPublished] /\ runs' \in [Threads -> 0 .. MaxRuns]
          /\ nonce' \in [Threads -> 0 .. Space - 1]
      BY <1>0, <1>1, <1>4, NoncesAssumption DEF NoncesTypeOK
    <2>2. /\ wjob' \in [Threads -> JobOrNone] /\ gpu' \in [Threads -> JobOrNone]
          /\ dirty' \in [Threads -> BOOLEAN]
      BY <1>0, <1>1, <1>2, <1>3 DEF NoncesTypeOK, JobOrNone
    <2>3. had' \in [Threads -> SUBSET Jobs] /\ excused' \subseteq Jobs
      BY <1>0, <1>2, <1>3, <1>5 DEF NoncesTypeOK, JobOrNone
    <2> QED
      BY <1>0, <1>1, <2>1, <2>2, <2>3 DEF NoncesTypeOK
  <1>7. /\ gpu'[t] = loaded /\ had'[t] = had[t] \cup ({loaded} \ {NoJob})
        /\ nonce'[t] = Start(t, published) /\ runs'[t] = 0
        /\ \A u \in Threads \ {t} : /\ gpu'[u] = gpu[u] /\ had'[u] = had[u]
                                    /\ nonce'[u] = nonce[u] /\ runs'[u] = runs[u]
    BY <1>0, <1>1, <1>2 DEF NoncesTypeOK
  <1>8. \A u \in Threads : gpu'[u] # NoJob => gpu'[u] \in had'[u]
    BY <1>7 DEF NoncesInv
  <1>9. ASSUME NEW j \in Jobs \ excused'
        PROVE  JobInv(j)'
    <2>1. JobInv(j) /\ j \notin Disorder(t, loaded)
      BY <1>2, <1>9 DEF NoncesInv
    <2>2. \A n \in tried'[j] : \E u \in Threads : n \in Region(u, j)
      BY <1>1, <2>1 DEF JobInv
    <2>3. ASSUME NEW u \in Threads
          PROVE  /\ j \notin had'[u] => \A n \in tried'[j] : n \notin Region(u, j)
                 /\ gpu'[u] = j =>
                      /\ nonce'[u] = Start(u, j) + runs'[u] * Intensity
                      /\ runs'[u] * Intensity <= Quota(j)
                      /\ \A n \in tried'[j] : n \in Region(u, j) => n < nonce'[u]
      <3>1. CASE u # t
        BY <1>1, <1>7, <2>1, <3>1 DEF JobInv
      <3>2. CASE u = t /\ loaded # j
        BY <1>1, <1>7, <2>1, <3>2 DEF JobInv
      <3>3. CASE u = t /\ loaded = j
        <4>1. j \notin had[t]
          <5>1. j \in had[t] => loaded # published \/ dirty[t] \/ wjob[t] # j
            BY <3>3
          <5> QED
            BY <2>1, <3>3, <5>1 DEF Disorder
        <4>2. loaded = published
          BY <3>3, <4>1, NoncesAssumption DEF NoncesInv
        <4>3. \A n \in tried[j] : n \notin Region(t, j)
          BY <2>1, <4>1 DEF JobInv
        <4>4. /\ 0 * Intensity = 0 /\ Quota(j) \in Nat /\ Start(t, j) \in Nat
          BY QuotaFacts, RegionFacts, NoncesAssumption
        <4>5. /\ nonce'[t] = Start(t, j) + runs'[t] * Intensity
              /\ runs'[t] * Intensity <= Quota(j)
          BY <1>7, <3>3, <4>2, <4>4
        <4>6. j \in had'[t]
          BY <1>7, <3>3, NoncesAssumption
        <4> QED
          BY <1>1, <3>3, <4>3, <4>5, <4>6
      <3> QED
        BY <3>1, <3>2, <3>3
    <2> QED
      BY <2>2, <2>3 DEF JobInv, Region, Start, Quota
  <1>10. NoNonceTwice'
    BY <1>1, <1>2 DEF NoncesInv, NoNonceTwice
  <1> QED
    BY <1>6, <1>8, <1>9, <1>10 DEF NoncesInv

\* The nonces of a run within the quota: the next ones of the thread's region.
LEMMA BatchFacts ==
  ASSUME NoncesInv, NEW t \in Threads, NEW j \in Jobs \ excused, gpu[t] = j,
         (runs[t] + 1) * Intensity <= Quota(j)
  PROVE  /\ Batch(t) = nonce[t] .. nonce[t] + Intensity - 1
         /\ Batch(t) \subseteq Region(t, j)
         /\ NextNonce(nonce[t]) = nonce[t] + Intensity
         /\ nonce[t] + Intensity = Start(t, j) + (runs[t] + 1) * Intensity
         /\ \A n \in tried[j] : n \notin Batch(t)
  <1>1. /\ nonce[t] = Start(t, j) + runs[t] * Intensity
        /\ \A n \in tried[j] : n \in Region(t, j) => n < nonce[t]
    BY DEF NoncesInv, JobInv
  <1>2. /\ Start(t, j) \in Nat /\ Start(t, j) + Quota(j) <= Space - 1 /\ Quota(j) \in Nat
        /\ runs[t] \in Nat /\ Intensity \in Nat \ {0} /\ Space \in Nat /\ nonce[t] \in Nat
    BY RegionFacts, QuotaFacts, NoncesAssumption DEF NoncesInv, NoncesTypeOK
  <1>3. (runs[t] + 1) * Intensity = runs[t] * Intensity + Intensity /\ runs[t] * Intensity \in Nat
    BY <1>2
  <1>4. nonce[t] + Intensity = Start(t, j) + (runs[t] + 1) * Intensity
    BY <1>1, <1>2, <1>3
  <1>5. nonce[t] + Intensity <= Start(t, j) + Quota(j)
    BY <1>2, <1>3, <1>4
  <1>6. \A n \in Nat : n <= nonce[t] + Intensity => n % Space = n
    BY <1>2, <1>5
  <1>7. Batch(t) = nonce[t] .. nonce[t] + Intensity - 1
    <2>1. \A k \in 0 .. Intensity - 1 : (nonce[t] + k) % Space = nonce[t] + k
      BY <1>2, <1>6
    <2>2. \A n \in nonce[t] .. nonce[t] + Intensity - 1 :
            n - nonce[t] \in 0 .. Intensity - 1 /\ nonce[t] + (n - nonce[t]) = n
      BY <1>2
    <2> QED
      BY <1>2, <2>1, <2>2 DEF Batch
  <1>8. Batch(t) \subseteq Region(t, j)
    <2>1. Start(t, j) <= nonce[t]
      BY <1>1, <1>2, <1>3
    <2>2. \A n \in Batch(t) : n \in Int /\ nonce[t] <= n /\ n <= nonce[t] + Intensity - 1
      BY <1>2, <1>7
    <2> QED
      BY <1>2, <1>5, <2>1, <2>2 DEF Region
  <1>9. \A n \in tried[j] : n \notin Batch(t)
    <2> SUFFICES ASSUME NEW n \in tried[j], n \in Batch(t) PROVE FALSE
      OBVIOUS
    <2>1. n \in Region(t, j) /\ n \in nonce[t] .. nonce[t] + Intensity - 1
      BY <1>7, <1>8
    <2>2. n < nonce[t]
      BY <1>1, <2>1
    <2>3. nonce[t] <= n /\ n \in Int
      BY <2>1
    <2> QED
      BY <1>2, <2>2, <2>3
  <1>10. NextNonce(nonce[t]) = nonce[t] + Intensity
    BY <1>2, <1>6 DEF NextNonce
  <1> QED
    BY <1>4, <1>7, <1>8, <1>9, <1>10

\* XMRRunJob() on a GPU with a job that stays unexcused.
LEMMA RunKeepsJobInv ==
  ASSUME NoncesInv, NEW t \in Threads, Run(t), NEW j \in Jobs \ excused'
  PROVE  JobInv(j)' /\ (j \in repeated' => j \in repeated)
  <1>0. NoncesTypeOK
    BY DEF NoncesInv
  <1>1. /\ gpu[t] \in Jobs /\ gpu' = gpu /\ had' = had
        /\ nonce' = [nonce EXCEPT ![t] = NextNonce(@)]
        /\ runs' = [runs EXCEPT ![t] = @ + 1]
        /\ tried' = [tried EXCEPT ![gpu[t]] = @ \cup Batch(t)]
        /\ repeated' = repeated \cup {k \in {gpu[t]} : tried[k] \cap Batch(t) # {}}
        /\ excused' = excused \cup {k \in {gpu[t]} : (runs[t] + 1) * Intensity > Quota(k)}
    BY <1>0 DEF Run, Mining, NoncesTypeOK, JobOrNone
  <1>2. j \in Jobs \ excused /\ JobInv(j)
    BY <1>1 DEF NoncesInv
  <1>3. /\ nonce'[t] = NextNonce(nonce[t]) /\ runs'[t] = runs[t] + 1
        /\ \A u \in Threads \ {t} : nonce'[u] = nonce[u] /\ runs'[u] = runs[u]
        /\ tried'[gpu[t]] = tried[gpu[t]] \cup Batch(t)
        /\ \A k \in Jobs \ {gpu[t]} : tried'[k] = tried[k]
    BY <1>0, <1>1 DEF NoncesTypeOK
  <1>4. CASE gpu[t] # j
    <2>1. tried'[j] = tried[j]
      BY <1>2, <1>3, <1>4
    <2>2. \A n \in tried'[j] : \E u \in Threads : n \in Region(u, j)
      BY <1>2, <2>1 DEF JobInv
    <2>3. ASSUME NEW u \in Threads
          PROVE  /\ j \notin had'[u] => \A n \in tried'[j] : n \notin Region(u, j)
                 /\ gpu'[u] = j =>
                      /\ nonce'[u] = Start(u, j) + runs'[u] * Intensity
                      /\ runs'[u] * Intensity <= Quota(j)
                      /\ \A n \in tried'[j] : n \in Region(u, j) => n < nonce'[u]
      <3>1. gpu'[u] = j => u # t
        BY <1>1, <1>4
      <3> QED
        BY <1>1, <1>2, <1>3, <2>1, <3>1 DEF JobInv
    <2>4. JobInv(j)'
      BY <2>2, <2>3 DEF JobInv, Region, Start, Quota
    <2> QED
      BY <1>1, <1>4, <2>4
  <1>5. CASE gpu[t] = j
    <2>0. /\ runs[t] \in Nat /\ Intensity \in Nat /\ Quota(j) \in Nat
          /\ (runs[t] + 1) * Intensity \in Nat
      BY <1>0, QuotaFacts, NoncesAssumption DEF NoncesTypeOK
    <2>1. (runs[t] + 1) * Intensity <= Quota(j)
      BY <1>1, <1>5, <2>0
    <2>2. /\ Batch(t) = nonce[t] .. nonce[t] + Intensity - 1
          /\ Batch(t) \subseteq Region(t, j)
          /\ NextNonce(nonce[t]) = nonce[t] + Intensity
          /\ nonce[t] + Intensity = Start(t, j) + (runs[t] + 1) * Intensity
          /\ \A n \in tried[j] : n \notin Batch(t)
      BY <1>2, <1>5, <2>1, BatchFacts
    <2>3. tried'[j] = tried[j] \cup Batch(t)
      BY <1>3, <1>5
    <2>4. \A n \in tried'[j] : \E u \in Threads : n \in Region(u, j)
      BY <1>2, <2>2, <2>3 DEF JobInv
    <2>5. \A u \in Threads \ {t} : \A n \in Batch(t) : n \notin Region(u, j)
      BY <1>2, <2>2, RegionsApart
    <2>6. ASSUME NEW u \in Threads
          PROVE  /\ j \notin had'[u] => \A n \in tried'[j] : n \notin Region(u, j)
                 /\ gpu'[u] = j =>
                      /\ nonce'[u] = Start(u, j) + runs'[u] * Intensity
                      /\ runs'[u] * Intensity <= Quota(j)
                      /\ \A n \in tried'[j] : n \in Region(u, j) => n < nonce'[u]
      <3>1. CASE u # t
        BY <1>1, <1>2, <1>3, <2>3, <2>5, <3>1 DEF JobInv
      <3>2. CASE u = t
        <4>1. j \in had'[t]
          BY <1>1, <1>2, <1>5, NoncesAssumption DEF NoncesInv
        <4>2. /\ nonce'[t] = Start(t, j) + runs'[t] * Intensity
              /\ runs'[t] * Intensity <= Quota(j)
          BY <1>3, <2>1, <2>2
        <4>3. nonce[t] \in Nat /\ nonce'[t] = nonce[t] + Intensity /\ tried[j] \subseteq Nat
          BY <1>0, <1>2, <1>3, <2>2, NoncesAssumption DEF NoncesTypeOK
        <4>4. \A n \in tried[j] : n \in Region(t, j) => n < nonce'[t]
          <5>1. \A n \in tried[j] : n \in Region(t, j) => n < nonce[t]
            BY <1>2, <1>5 DEF JobInv
          <5> QED
            BY <2>0, <4>3, <5>1
        <4>5. \A n \in Batch(t) : n < nonce'[t]
          BY <2>0, <2>2, <4>3
        <4> QED
          BY <2>3, <3>2, <4>1, <4>2, <4>4, <4>5
      <3> QED
        BY <3>1, <3>2
    <2>7. JobInv(j)'
      BY <2>4, <2>6 DEF JobInv, Region, Start, Quota
    <2>8. tried[j] \cap Batch(t) = {}
      BY <2>2
    <2> QED
      BY <1>1, <1>5, <2>7, <2>8
  <1> QED
    BY <1>4, <1>5

\* XMRRunJob() that hashes.
LEMMA RunStep ==
  ASSUME NoncesInv, NEW t \in Threads, Run(t)
  PROVE  NoncesInv'
  <1>0. NoncesTypeOK
    BY DEF NoncesInv
  <1>1. /\ gpu[t] \in Jobs /\ gpu' = gpu /\ had' = had /\ runs[t] < MaxRuns
        /\ nonce' = [nonce EXCEPT ![t] = NextNonce(@)]
        /\ runs' = [runs EXCEPT ![t] = @ + 1]
        /\ tried' = [tried EXCEPT ![gpu[t]] = @ \cup Batch(t)]
        /\ repeated' = repeated \cup {k \in {gpu[t]} : tried[k] \cap Batch(t) # {}}
        /\ excused' = excused \cup {k \in {gpu[t]} : (runs[t] + 1) * Intensity > Quota(k)}
        /\ published' = published /\ m_sequence' = m_sequence /\ wjob' = wjob /\ wseq' = wseq
    BY <1>0 DEF Run, Mining, NoncesTypeOK, JobOrNone
  <1>2. PICK found \in BOOLEAN : dirty' = [dirty EXCEPT ![t] = @ \/ found]
    BY DEF Run
  <1>3. dirty' \in [Threads -> BOOLEAN]
    BY <1>0, <1>2 DEF NoncesTypeOK
  <1>4. \A n \in Nat : n % Space \in 0 .. Space - 1
    BY NoncesAssumption
  <1>5. nonce' \in [Threads -> 0 .. Space - 1]
    <2>1. NextNonce(nonce[t]) \in 0 .. Space - 1
      BY <1>0, <1>4, NoncesAssumption DEF NextNonce, NoncesTypeOK
    <2> QED
      BY <1>0, <1>1, <2>1 DEF NoncesTypeOK
  <1>6. tried' \in [Jobs -> SUBSET (0 .. Space - 1)]
    <2>1. \A k \in 0 .. Intensity - 1 : nonce[t] + k \in Nat
      BY <1>0, NoncesAssumption DEF NoncesTypeOK
    <2>2. Batch(t) \subseteq 0 .. Space - 1
      BY <1>4, <2>1 DEF Batch
    <2> QED
      BY <1>0, <1>1, <2>2 DEF NoncesTypeOK
  <1>7. runs' \in [Threads -> 0 .. MaxRuns]
    BY <1>0, <1>1, NoncesAssumption DEF NoncesTypeOK
  <1>8. NoncesTypeOK'
    BY <1>0, <1>1, <1>3, <1>5, <1>6, <1>7 DEF NoncesTypeOK
  <1>9. \A j \in Jobs \ excused' : JobInv(j)'
    BY RunKeepsJobInv
  <1>10. NoNonceTwice'
    <2>1. repeated' \subseteq Jobs /\ repeated \subseteq excused /\ excused \subseteq excused'
      BY <1>1, <1>8 DEF NoncesInv, NoNonceTwice, NoncesTypeOK
    <2>2. ASSUME NEW j \in repeated', j \notin excused' PROVE FALSE
      BY <2>1, <2>2, RunKeepsJobInv
    <2> QED
      BY <2>2 DEF NoNonceTwice
  <1>11. \A u \in Threads : gpu'[u] # NoJob => gpu'[u] \in had'[u]
    BY <1>1 DEF NoncesInv
  <1> QED
    BY <1>8, <1>9, <1>10, <1>11 DEF NoncesInv

\* The invariant holds before a job is published.
LEMMA NoncesBegin == NoncesInit => NoncesInv
  <1> SUFFICES ASSUME NoncesInit PROVE NoncesInv
    OBVIOUS
  <1>1. /\ m_sequence \in 1 .. MaxPublished /\ nonce \in [Threads -> 0 .. Space - 1]
        /\ runs \in [Threads -> 0 .. MaxRuns] /\ wseq \in [Threads -> 0 .. MaxPublished]
    BY NoncesAssumption DEF NoncesInit
  <1>2. NoncesTypeOK
    BY <1>1 DEF NoncesInit, NoncesTypeOK, JobOrNone
  <1>3. ASSUME NEW j \in Jobs PROVE JobInv(j)
    <2>1. tried[j] = {} /\ \A t \in Threads : gpu[t] # j
      BY NoncesAssumption DEF NoncesInit
    <2> QED
      BY <2>1 DEF JobInv
  <1> QED
    BY <1>2, <1>3 DEF NoncesInit, NoncesInv, NoNonceTwice

\* The invariant is kept by publications, by consumeJob() and by runs of the GPU.
THEOREM NoncesInductive == NoncesSpec => []NoncesInv
  <1>1. NoncesInv /\ [NoncesNext]_noncesVars => NoncesInv'
    <2> SUFFICES ASSUME NoncesInv, [NoncesNext]_noncesVars PROVE NoncesInv'
      OBVIOUS
    <2>1. ASSUME NEW job \in Jobs, Publish(job) PROVE NoncesInv'
      BY <2>1, PublishStep
    <2>2. ASSUME NEW t \in Threads, ConsumeJob(t) PROVE NoncesInv'
      BY <2>2, SameJobStep, NewJobStep
    <2>3. ASSUME NEW t \in Threads, Run(t) PROVE NoncesInv'
      BY <2>3, RunStep
    <2>4. CASE UNCHANGED noncesVars
      BY <2>4 DEF noncesVars, NoncesInv, NoncesTypeOK, JobInv, NoNonceTwice
    <2>5. ASSUME NEW t \in Threads, RunFails(t) PROVE NoncesInv'
      BY <2>4, <2>5 DEF RunFails
    <2> QED
      BY <2>1, <2>2, <2>3, <2>4, <2>5 DEF NoncesNext
  <1> QED
    BY <1>1, NoncesBegin, PTL DEF NoncesSpec

\* No nonce of a job is hashed twice, by no two threads, and the pool's byte is kept,
\* until a thread exceeds its quota or begins again with the job
\* (OclWorker.cpp, consumeJob; OclGPU.cpp, XMRRunJob).
THEOREM NoncesInvariantHolds == NoncesSpec => []NoncesInvariant
  <1>1. NoncesInv => NoncesInvariant
    <2> SUFFICES ASSUME NoncesInv PROVE ReservedByteIsKept
      BY DEF NoncesInv, NoncesInvariant
    <2> SUFFICES ASSUME NEW j \in Nicehash \ excused, NEW n \in tried[j]
                 PROVE  n \div Block = Prefix
      BY DEF ReservedByteIsKept
    <2>1. j \in Jobs \ excused /\ n \in Nat
      BY NoncesAssumption DEF NoncesInv, NoncesTypeOK
    <2>2. PICK t \in Threads : n \in Region(t, j)
      BY <2>1 DEF NoncesInv, JobInv
    <2>3. /\ Prefix * Block <= Start(t, j) /\ Start(t, j) \in Nat /\ Quota(j) \in Nat
          /\ Start(t, j) + Quota(j) < Prefix * Block + Block
      BY <2>1, RegionFacts, QuotaFacts
    <2>4. Prefix * Block \in Nat /\ Block \in Nat \ {0} /\ Prefix \in Nat
      BY NoncesAssumption
    <2>5. Prefix * Block <= n /\ n < Prefix * Block + Block
      BY <2>1, <2>2, <2>3, <2>4 DEF Region
    <2> QED
      BY <2>1, <2>4, <2>5, QuotientIs
  <1> QED
    BY <1>1, NoncesInductive, PTL

-----------------------------------------------------------------------------
(* Hashrate.                                                               *)

\* The i-th sample before m_top is the i-th last one ever taken; in the ring that was
\* cleared there is nothing before the first one.
RingInv(t) ==
  \A i \in 1 .. BucketSize - 1 :
    /\ i <= Len(log[t]) => Back(t, i) = log[t][Len(log[t]) + 1 - i]
    /\ (t \in Cleared /\ i > Len(log[t])) => Back(t, i).stamp = 0

\* Neither counts nor stamps go back, from one sample to the next, to what the thread has
\* stored, and to now.
OrderInv(t) ==
  /\ m_hashCount[t] = m_count[t]
  /\ m_timestamp[t] <= now /\ stamping[t] <= now
  /\ stamping[t] # 0 => m_timestamp[t] <= stamping[t]
  /\ \A k \in DOMAIN log[t] :
       /\ log[t][k].count <= m_hashCount[t] /\ log[t][k].stamp <= m_timestamp[t]
       /\ \A l \in DOMAIN log[t] :
            k <= l => log[t][k].count <= log[t][l].count /\ log[t][k].stamp <= log[t][l].stamp

\* A value that onTick() has read is between the last sample and what is stored now.
HalfInv ==
  half # Nothing =>
    /\ sampling \in ThreadIds /\ ready[sampling]
    /\ half.of = "count" =>
         /\ half.value <= m_hashCount[sampling]
         /\ \A k \in DOMAIN log[sampling] : log[sampling][k].count <= half.value
    /\ half.of = "stamp" =>
         /\ half.value <= m_timestamp[sampling]
         /\ \A k \in DOMAIN log[sampling] : log[sampling][k].stamp <= half.value

HashrateInv ==
  /\ HashrateTypeOK
  /\ \A t \in ThreadIds : RingInv(t) /\ OrderInv(t)
  /\ HalfInv

-----------------------------------------------------------------------------
\* A set of numbers that is not empty has a smallest one, the one that Min chooses.
LEMMA MinFacts ==
  ASSUME NEW S, S \subseteq Nat, S # {}
  PROVE  Min(S) \in S /\ \A y \in S : Min(S) <= y
  <1>1. PICK x \in S : \A y \in S : ~(<<y, x>> \in OpToRel(<, Nat))
    BY WFMin, NatLessThanWellFounded
  <1>2. \A y \in S : ~(y < x)
    BY <1>1 DEF OpToRel
  <1>3. \A y \in S : x <= y
    BY <1>2
  <1> QED
    BY <1>3 DEF Min

\* The smallest number of a set is the one that is not larger than the others.
LEMMA MinIs ==
  ASSUME NEW S, S \subseteq Nat, NEW m \in S, \A y \in S : m <= y
  PROVE  Min(S) = m
  <1>1. Min(S) \in S /\ \A y \in S : Min(S) <= y
    BY MinFacts
  <1>2. Min(S) \in Nat /\ m \in Nat /\ Min(S) <= m /\ m <= Min(S)
    BY <1>1
  <1> QED
    BY <1>2

\* The same for the largest one.
LEMMA MaxIs ==
  ASSUME NEW S, S \subseteq Nat, NEW m \in S, \A y \in S : y <= m
  PROVE  Max(S) = m
  <1>1. \E x \in S : \A y \in S : x >= y
    OBVIOUS
  <1>2. Max(S) \in S /\ \A y \in S : Max(S) >= y
    BY <1>1 DEF Max
  <1>3. Max(S) \in Nat /\ m \in Nat /\ Max(S) <= m /\ m <= Max(S)
    BY <1>2
  <1> QED
    BY <1>3

\* Places of the ring: one back from the next top is the old one, and one more back
\* from there is one more back from here.
LEMMA PlaceFacts ==
  ASSUME NEW top \in 0 .. BucketSize - 1
  PROVE  /\ Advanced(top) \in 0 .. BucketSize - 1
         /\ (Advanced(top) - 1) % BucketSize = top
         /\ \A i \in 1 .. BucketSize - 1 :
              /\ (top - i) % BucketSize \in 0 .. BucketSize - 1
              /\ (top - i) % BucketSize # top
              /\ i > 1 => (Advanced(top) - i) % BucketSize = (top - (i - 1)) % BucketSize
  <1>0. BucketSize \in Nat /\ BucketSize > 1
    BY HashrateAssumption
  <1>1. \A x \in 0 .. BucketSize - 1 : x % BucketSize = x
    BY <1>0
  <1>2. \A x \in -BucketSize .. -1 : x % BucketSize = x + BucketSize
    BY <1>0
  <1>3. Advanced(top) = IF top = BucketSize - 1 THEN 0 ELSE top + 1
    <2>1. BucketSize % BucketSize = 0
      BY <1>0
    <2> QED
      BY <1>0, <1>1, <2>1 DEF Advanced
  <1>4. (Advanced(top) - 1) % BucketSize = top
    BY <1>0, <1>1, <1>2, <1>3
  <1>5. \A i \in 1 .. BucketSize - 1 :
          (top - i) % BucketSize = IF i <= top THEN top - i ELSE top - i + BucketSize
    BY <1>0, <1>1, <1>2
  <1>6. \A i \in 1 .. BucketSize - 1 :
          (Advanced(top) - i) % BucketSize =
             IF i <= Advanced(top) THEN Advanced(top) - i ELSE Advanced(top) - i + BucketSize
    BY <1>0, <1>1, <1>2, <1>3
  <1> QED
    <2>1. Advanced(top) \in 0 .. BucketSize - 1
      BY <1>0, <1>3
    <2>2. ASSUME NEW i \in 1 .. BucketSize - 1
          PROVE  /\ (top - i) % BucketSize \in 0 .. BucketSize - 1
                 /\ (top - i) % BucketSize # top
      BY <1>0, <1>5
    <2>3. ASSUME NEW i \in 1 .. BucketSize - 1, i > 1
          PROVE  (Advanced(top) - i) % BucketSize = (top - (i - 1)) % BucketSize
      <3>1. i - 1 \in 1 .. BucketSize - 1
        BY <1>0, <2>3
      <3>2. (top - (i - 1)) % BucketSize =
               IF i - 1 <= top THEN top - (i - 1) ELSE top - (i - 1) + BucketSize
        BY <1>5, <3>1
      <3> QED
        BY <1>0, <1>3, <1>6, <2>3, <3>2
    <2> QED
      BY <1>4, <2>1, <2>2, <2>3

-----------------------------------------------------------------------------
\* Hashrate::add() for one thread.
LEMMA AddFacts ==
  ASSUME HashrateTypeOK, NEW t \in ThreadIds, NEW sample \in Sample, Add(t, sample)
  PROVE  /\ ring' \in [ThreadIds -> [0 .. BucketSize - 1 -> Sample]]
         /\ m_top' \in [ThreadIds -> 0 .. BucketSize - 1]
         /\ log' \in [ThreadIds -> Seq(Sample)]
         /\ \A u \in ThreadIds \ {t} : ring'[u] = ring[u] /\ m_top'[u] = m_top[u] /\ log'[u] = log[u]
         /\ m_top'[t] = Advanced(m_top[t])
         /\ ring'[t][m_top[t]] = sample
         /\ \A p \in 0 .. BucketSize - 1 : p # m_top[t] => ring'[t][p] = ring[t][p]
         /\ DOMAIN log'[t] = 1 .. Len(log[t]) + 1 /\ Len(log'[t]) = Len(log[t]) + 1
         /\ DOMAIN log[t] = 1 .. Len(log[t]) /\ Len(log[t]) \in Nat
         /\ log'[t][Len(log[t]) + 1] = sample
         /\ \A k \in 1 .. Len(log[t]) : log'[t][k] = log[t][k]
  <1>0. /\ ring \in [ThreadIds -> [0 .. BucketSize - 1 -> Sample]]
        /\ m_top \in [ThreadIds -> 0 .. BucketSize - 1]
        /\ log \in [ThreadIds -> Seq(Sample)]
        /\ m_top[t] \in 0 .. BucketSize - 1
    BY DEF HashrateTypeOK
  <1>1. /\ ring' = [ring EXCEPT ![t][m_top[t]] = sample]
        /\ m_top' = [m_top EXCEPT ![t] = Advanced(m_top[t])]
        /\ log' = [log EXCEPT ![t] = Append(log[t], sample)]
    BY DEF Add
  <1>2. Advanced(m_top[t]) \in 0 .. BucketSize - 1
    BY <1>0, PlaceFacts
  <1> HIDE DEF Sample
  <1>3. /\ ring' \in [ThreadIds -> [0 .. BucketSize - 1 -> Sample]]
        /\ ring'[t][m_top[t]] = sample
        /\ \A p \in 0 .. BucketSize - 1 : p # m_top[t] => ring'[t][p] = ring[t][p]
        /\ \A u \in ThreadIds \ {t} : ring'[u] = ring[u]
    BY <1>0, <1>1
  <1>4. /\ m_top' \in [ThreadIds -> 0 .. BucketSize - 1] /\ m_top'[t] = Advanced(m_top[t])
        /\ \A u \in ThreadIds \ {t} : m_top'[u] = m_top[u]
    BY <1>0, <1>1, <1>2
  <1>5. log[t] \in Seq(Sample) /\ Append(log[t], sample) \in Seq(Sample)
    BY <1>0
  <1>6. /\ log' \in [ThreadIds -> Seq(Sample)] /\ log'[t] = Append(log[t], sample)
        /\ \A u \in ThreadIds \ {t} : log'[u] = log[u]
    BY <1>0, <1>1, <1>5
  <1>7. /\ DOMAIN log'[t] = 1 .. Len(log[t]) + 1 /\ Len(log'[t]) = Len(log[t]) + 1
        /\ DOMAIN log[t] = 1 .. Len(log[t]) /\ Len(log[t]) \in Nat
        /\ log'[t][Len(log[t]) + 1] = sample
        /\ \A k \in 1 .. Len(log[t]) : log'[t][k] = log[t][k]
    BY <1>5, <1>6
  <1> QED
    BY <1>3, <1>4, <1>6, <1>7

\* The ring and the log stay in step.
LEMMA AddKeepsRing ==
  ASSUME HashrateTypeOK, NEW t \in ThreadIds, NEW sample \in Sample, Add(t, sample), RingInv(t)
  PROVE  RingInv(t)'
  <1> DEFINE n == Len(log[t])
             top == m_top[t]
  <1>0. top \in 0 .. BucketSize - 1 /\ n \in Nat /\ BucketSize \in Nat
    BY AddFacts, HashrateAssumption DEF HashrateTypeOK
  <1>1. /\ m_top'[t] = Advanced(top) /\ ring'[t][top] = sample
        /\ \A p \in 0 .. BucketSize - 1 : p # top => ring'[t][p] = ring[t][p]
        /\ Len(log'[t]) = n + 1 /\ log'[t][n + 1] = sample
        /\ \A k \in 1 .. n : log'[t][k] = log[t][k]
    BY AddFacts
  <1>2. /\ (Advanced(top) - 1) % BucketSize = top
        /\ \A i \in 1 .. BucketSize - 1 :
              /\ (top - i) % BucketSize \in 0 .. BucketSize - 1
              /\ (top - i) % BucketSize # top
              /\ i > 1 => (Advanced(top) - i) % BucketSize = (top - (i - 1)) % BucketSize
    BY <1>0, PlaceFacts
  <1> SUFFICES ASSUME NEW i \in 1 .. BucketSize - 1
               PROVE  /\ i <= Len(log'[t]) =>
                           ring'[t][(m_top'[t] - i) % BucketSize] = log'[t][Len(log'[t]) + 1 - i]
                      /\ (t \in Cleared /\ i > Len(log'[t])) =>
                           ring'[t][(m_top'[t] - i) % BucketSize].stamp = 0
    BY DEF RingInv, Back, Cleared
  <1> SUFFICES /\ i <= n + 1 => ring'[t][(Advanced(top) - i) % BucketSize] = log'[t][n + 2 - i]
               /\ (t \in Cleared /\ i > n + 1) =>
                    ring'[t][(Advanced(top) - i) % BucketSize].stamp = 0
    <2>1. n + 1 + 1 - i = n + 2 - i
      BY <1>0
    <2> HIDE DEF n, top
    <2> QED
      BY <1>1, <2>1
  <1> HIDE DEF n, top
  <1>3. CASE i = 1
    <2>1. n + 2 - i = n + 1 /\ ~(i > n + 1)
      BY <1>0, <1>3
    <2> QED
      BY <1>1, <1>2, <1>3, <2>1
  <1>4. CASE i > 1
    <2>1. i - 1 \in 1 .. BucketSize - 1 /\ n + 1 - (i - 1) = n + 2 - i
      BY <1>0, <1>4
    <2>2. ring'[t][(Advanced(top) - i) % BucketSize] = ring[t][(top - (i - 1)) % BucketSize]
      BY <1>1, <1>2, <1>4, <2>1
    <2>3. ring[t][(top - (i - 1)) % BucketSize] = Back(t, i - 1)
      BY DEF Back, top
    <2>4. /\ i - 1 <= n => Back(t, i - 1) = log[t][n + 2 - i]
          /\ (t \in Cleared /\ i - 1 > n) => Back(t, i - 1).stamp = 0
      BY <2>1 DEF RingInv, n
    <2>5. /\ i <= n + 1 => i - 1 <= n /\ n + 2 - i \in 1 .. n
          /\ i > n + 1 => i - 1 > n
      BY <1>0, <1>4
    <2> QED
      BY <1>1, <2>2, <2>3, <2>4, <2>5
  <1> QED
    BY <1>3, <1>4

\* Steps that leave the samples alone and store what is not smaller.
LEMMA NoSample ==
  ASSUME HashrateInv, HashrateTypeOK', ring' = ring, m_top' = m_top, log' = log,
         \A t \in ThreadIds :
           /\ m_hashCount'[t] = m_count'[t] /\ m_hashCount[t] <= m_hashCount'[t]
           /\ m_timestamp[t] <= m_timestamp'[t] /\ m_timestamp'[t] <= now' /\ stamping'[t] <= now'
           /\ stamping'[t] # 0 => m_timestamp'[t] <= stamping'[t]
  PROVE  \A t \in ThreadIds : RingInv(t)' /\ OrderInv(t)'
  <1> SUFFICES ASSUME NEW t \in ThreadIds PROVE RingInv(t)' /\ OrderInv(t)'
    OBVIOUS
  <1>1. RingInv(t)'
    BY DEF HashrateInv, RingInv, Back, Cleared
  <1>2. log[t] \in Seq(Sample) /\ \A k \in DOMAIN log[t] : log[t][k] \in Sample
    BY DEF HashrateInv, HashrateTypeOK
  <1>3. /\ m_hashCount[t] \in Nat /\ m_hashCount'[t] \in Nat
        /\ m_timestamp[t] \in Nat /\ m_timestamp'[t] \in Nat
    BY DEF HashrateInv, HashrateTypeOK
  <1>4. \A k \in DOMAIN log[t] : log[t][k].count \in Nat /\ log[t][k].stamp \in Nat
    BY <1>2 DEF Sample
  <1>5. OrderInv(t)
    BY DEF HashrateInv
  <1>6. \A k \in DOMAIN log[t] :
          log[t][k].count <= m_hashCount'[t] /\ log[t][k].stamp <= m_timestamp'[t]
    BY <1>3, <1>4, <1>5 DEF OrderInv
  <1>7. OrderInv(t)'
    BY <1>5, <1>6 DEF OrderInv
  <1> QED
    BY <1>1, <1>7

\* What the invariant says of the stores of a thread.
LEMMA StoreFacts ==
  ASSUME HashrateInv, NEW t \in ThreadIds
  PROVE  /\ now \in Nat /\ m_hashCount[t] = m_count[t] /\ m_count[t] \in Nat
         /\ m_timestamp[t] \in Nat /\ stamping[t] \in Nat
         /\ m_timestamp[t] <= now /\ stamping[t] <= now
         /\ stamping[t] # 0 => m_timestamp[t] <= stamping[t]
  BY DEF HashrateInv, HashrateTypeOK, OrderInv

\* The clock.
LEMMA TimeStep ==
  ASSUME HashrateInv, Time
  PROVE  HashrateInv'
  <1>1. /\ now' = now + 1 /\ now < MaxNow /\ m_count' = m_count /\ m_hashCount' = m_hashCount
        /\ m_timestamp' = m_timestamp /\ stamping' = stamping /\ ready' = ready /\ ring' = ring
        /\ m_top' = m_top /\ sampling' = sampling /\ half' = half /\ log' = log
    BY DEF Time
  <1>2. now' \in 1 .. MaxNow
    BY <1>1, HashrateAssumption DEF HashrateInv, HashrateTypeOK
  <1>3. HashrateTypeOK'
    BY <1>1, <1>2 DEF HashrateInv, HashrateTypeOK
  <1>4. \A t \in ThreadIds : RingInv(t)' /\ OrderInv(t)'
    <2>1. ASSUME NEW t \in ThreadIds
          PROVE  /\ m_hashCount'[t] = m_count'[t] /\ m_hashCount[t] <= m_hashCount'[t]
                 /\ m_timestamp[t] <= m_timestamp'[t] /\ m_timestamp'[t] <= now' /\ stamping'[t] <= now'
                 /\ stamping'[t] # 0 => m_timestamp'[t] <= stamping'[t]
      BY <1>1, StoreFacts
    <2> QED
      BY <1>1, <1>3, <2>1, NoSample
  <1>5. HalfInv'
    BY <1>1 DEF HashrateInv, HalfInv
  <1> QED
    BY <1>3, <1>4, <1>5 DEF HashrateInv

\* Workers::onReady(), and the steps of onTick() between two samples.
LEMMA TickSteps ==
  ASSUME HashrateInv,
         NotReady \/ OnTick \/ ReadFirst \/ (\E t \in ThreadIds : OnReady(t))
  PROVE  HashrateInv'
  <1>0. HashrateTypeOK /\ HalfInv
    BY DEF HashrateInv
  <1>1. /\ now' = now /\ m_count' = m_count /\ m_hashCount' = m_hashCount
        /\ m_timestamp' = m_timestamp /\ stamping' = stamping /\ ring' = ring
        /\ m_top' = m_top /\ log' = log
    BY DEF NotReady, OnTick, ReadFirst, OnReady
  <1>2. /\ ready' \in [ThreadIds -> BOOLEAN]
        /\ \A t \in ThreadIds : ready[t] => ready'[t]
    <2>1. CASE \E t \in ThreadIds : OnReady(t)
      BY <1>0, <2>1 DEF OnReady, HashrateTypeOK
    <2>2. CASE ready' = ready
      BY <1>0, <2>2 DEF HashrateTypeOK
    <2> QED
      BY <2>1, <2>2 DEF NotReady, OnTick, ReadFirst
  <1>3. sampling' \in ThreadIds \cup {-1}
    <2>1. 0 \in ThreadIds
      BY HashrateAssumption DEF ThreadIds
    <2> QED
      BY <1>0, <2>1 DEF HashrateTypeOK, NotReady, OnTick, ReadFirst, OnReady
  <1>4. half' \in [of : {"count", "stamp"}, value : Nat] \cup {Nothing} /\ HalfInv'
    <2>1. CASE half' = half /\ (half # Nothing => sampling' = sampling)
      <3>1. half' \in [of : {"count", "stamp"}, value : Nat] \cup {Nothing}
        BY <1>0, <2>1 DEF HashrateTypeOK
      <3>2. HalfInv'
        BY <1>0, <1>1, <1>2, <2>1 DEF HalfInv, Nothing
      <3> QED
        BY <3>1, <3>2
    <2>2. CASE ReadFirst
      <3>1. sampling \in ThreadIds /\ ready[sampling] /\ sampling' = sampling
        BY <1>0, <2>2 DEF ReadFirst, HashrateTypeOK
      <3>2. PICK t \in ThreadIds : t = sampling
        BY <3>1
      <3>3. OrderInv(t) /\ m_hashCount[t] \in Nat /\ m_timestamp[t] \in Nat
        BY <1>0 DEF HashrateInv, HashrateTypeOK
      <3>4. CASE half' = [of |-> "count", value |-> m_hashCount[sampling]]
        <4>1. half'.of = "count" /\ half'.value = m_hashCount[t]
          BY <3>2, <3>4
        <4>2. half' \in [of : {"count", "stamp"}, value : Nat]
          BY <3>2, <3>3, <3>4
        <4>3. /\ m_hashCount[t] <= m_hashCount[t]
              /\ \A k \in DOMAIN log[t] : log[t][k].count <= m_hashCount[t]
          BY <3>3 DEF OrderInv
        <4>4. HalfInv'
          BY <1>1, <1>2, <3>1, <3>2, <4>1, <4>3 DEF HalfInv
        <4> QED
          BY <4>2, <4>4
      <3>5. CASE half' = [of |-> "stamp", value |-> m_timestamp[sampling]]
        <4>1. half'.of = "stamp" /\ half'.value = m_timestamp[t]
          BY <3>2, <3>5
        <4>2. half' \in [of : {"count", "stamp"}, value : Nat]
          BY <3>2, <3>3, <3>5
        <4>3. /\ m_timestamp[t] <= m_timestamp[t]
              /\ \A k \in DOMAIN log[t] : log[t][k].stamp <= m_timestamp[t]
          BY <3>3 DEF OrderInv
        <4>4. HalfInv'
          BY <1>1, <1>2, <3>1, <3>2, <4>1, <4>3 DEF HalfInv
        <4> QED
          BY <4>2, <4>4
      <3> QED
        BY <2>2, <3>4, <3>5 DEF ReadFirst
    <2>3. -1 \notin ThreadIds
      BY HashrateAssumption DEF ThreadIds
    <2>4. NotReady => half' = half /\ half = Nothing
      BY <1>0 DEF NotReady, HalfInv
    <2>5. OnTick => half' = half /\ half = Nothing
      BY <1>0, <2>3 DEF OnTick, HalfInv
    <2>6. (\E t \in ThreadIds : OnReady(t)) => half' = half /\ sampling' = sampling
      BY DEF OnReady
    <2> QED
      BY <2>1, <2>2, <2>4, <2>5, <2>6
  <1>5. HashrateTypeOK'
    BY <1>0, <1>1, <1>2, <1>3, <1>4 DEF HashrateTypeOK
  <1>6. \A t \in ThreadIds : RingInv(t)' /\ OrderInv(t)'
    BY <1>1 DEF HashrateInv, RingInv, OrderInv, Back, Cleared
  <1> QED
    BY <1>4, <1>5, <1>6 DEF HashrateInv

\* OclWorker::storeStats(), its first store.
LEMMA StoreCountStep ==
  ASSUME HashrateInv, NEW t \in ThreadIds, StoreCount(t)
  PROVE  HashrateInv'
  <1>0. HashrateTypeOK /\ HalfInv /\ m_count[t] \in Nat /\ now \in 1 .. MaxNow
    BY DEF HashrateInv, HashrateTypeOK
  <1>1. /\ m_count' = [m_count EXCEPT ![t] = m_count[t] + 1]
        /\ m_hashCount' = [m_hashCount EXCEPT ![t] = m_count'[t]]
        /\ stamping' = [stamping EXCEPT ![t] = now]
        /\ now' = now /\ m_timestamp' = m_timestamp /\ ready' = ready /\ ring' = ring
        /\ m_top' = m_top /\ sampling' = sampling /\ half' = half /\ log' = log
    BY DEF StoreCount, Counted
  <1>2. /\ m_count' \in [ThreadIds -> Nat] /\ m_hashCount' \in [ThreadIds -> Nat]
        /\ stamping' \in [ThreadIds -> 0 .. MaxNow]
        /\ m_count'[t] = m_count[t] + 1 /\ m_hashCount'[t] = m_count[t] + 1 /\ stamping'[t] = now
        /\ \A u \in ThreadIds \ {t} : /\ m_count'[u] = m_count[u] /\ m_hashCount'[u] = m_hashCount[u]
                                      /\ stamping'[u] = stamping[u]
    BY <1>0, <1>1, HashrateAssumption DEF HashrateTypeOK
  <1>3. HashrateTypeOK'
    BY <1>0, <1>1, <1>2 DEF HashrateTypeOK
  <1>4. ASSUME NEW u \in ThreadIds
        PROVE  /\ m_hashCount'[u] = m_count'[u] /\ m_hashCount[u] <= m_hashCount'[u]
               /\ m_timestamp[u] <= m_timestamp'[u] /\ m_timestamp'[u] <= now' /\ stamping'[u] <= now'
               /\ stamping'[u] # 0 => m_timestamp'[u] <= stamping'[u]
    BY <1>1, <1>2, StoreFacts
  <1>5. \A u \in ThreadIds : RingInv(u)' /\ OrderInv(u)'
    BY <1>1, <1>3, <1>4, NoSample
  <1>6. HalfInv'
    <2> SUFFICES ASSUME half # Nothing
                 PROVE  half.of = "count" => half.value <= m_hashCount'[sampling]
      BY <1>0, <1>1 DEF HalfInv
    <2>1. PICK u \in ThreadIds : u = sampling
      BY <1>0 DEF HalfInv
    <2>2. half.value \in Nat /\ m_hashCount[u] \in Nat /\ m_hashCount'[u] \in Nat
      BY <1>0, <1>3 DEF HashrateTypeOK
    <2>3. half.of = "count" => half.value <= m_hashCount[u]
      BY <1>0, <2>1 DEF HalfInv
    <2> QED
      BY <1>4, <2>1, <2>2, <2>3
  <1> QED
    BY <1>3, <1>5, <1>6 DEF HashrateInv

\* Its second one.
LEMMA StoreStampStep ==
  ASSUME HashrateInv, NEW t \in ThreadIds, StoreStamp(t)
  PROVE  HashrateInv'
  <1>0. HashrateTypeOK /\ HalfInv /\ stamping[t] \in 0 .. MaxNow
    BY DEF HashrateInv, HashrateTypeOK
  <1>1. /\ stamping[t] # 0
        /\ m_timestamp' = [m_timestamp EXCEPT ![t] = stamping[t]]
        /\ stamping' = [stamping EXCEPT ![t] = 0]
        /\ now' = now /\ m_count' = m_count /\ m_hashCount' = m_hashCount /\ ready' = ready
        /\ ring' = ring /\ m_top' = m_top /\ sampling' = sampling /\ half' = half /\ log' = log
    BY DEF StoreStamp
  <1>2. /\ m_timestamp' \in [ThreadIds -> 0 .. MaxNow]
        /\ stamping' \in [ThreadIds -> 0 .. MaxNow]
        /\ m_timestamp'[t] = stamping[t] /\ stamping'[t] = 0
        /\ \A u \in ThreadIds \ {t} : m_timestamp'[u] = m_timestamp[u] /\ stamping'[u] = stamping[u]
    BY <1>0, <1>1, HashrateAssumption DEF HashrateTypeOK
  <1>3. HashrateTypeOK'
    BY <1>0, <1>1, <1>2 DEF HashrateTypeOK
  <1>4. ASSUME NEW u \in ThreadIds
        PROVE  /\ m_hashCount'[u] = m_count'[u] /\ m_hashCount[u] <= m_hashCount'[u]
               /\ m_timestamp[u] <= m_timestamp'[u] /\ m_timestamp'[u] <= now' /\ stamping'[u] <= now'
               /\ stamping'[u] # 0 => m_timestamp'[u] <= stamping'[u]
    BY <1>1, <1>2, StoreFacts
  <1>5. \A u \in ThreadIds : RingInv(u)' /\ OrderInv(u)'
    BY <1>1, <1>3, <1>4, NoSample
  <1>6. HalfInv'
    <2> SUFFICES ASSUME half # Nothing
                 PROVE  half.of = "stamp" => half.value <= m_timestamp'[sampling]
      BY <1>0, <1>1 DEF HalfInv
    <2>1. PICK u \in ThreadIds : u = sampling
      BY <1>0 DEF HalfInv
    <2>2. half.value \in Nat /\ m_timestamp[u] \in Nat /\ m_timestamp'[u] \in Nat
      BY <1>0, <1>3 DEF HashrateTypeOK
    <2>3. half.of = "stamp" => half.value <= m_timestamp[u]
      BY <1>0, <2>1 DEF HalfInv
    <2> QED
      BY <1>4, <2>1, <2>2, <2>3
  <1> QED
    BY <1>3, <1>5, <1>6 DEF HashrateInv

\* A sample whose halves may come from two runs is not behind the one before it, and not
\* ahead of what is stored.
LEMMA AddKeepsOrder ==
  ASSUME HashrateInv, NEW t \in ThreadIds, NEW sample \in Sample, Add(t, sample),
         sample.count <= m_hashCount[t], sample.stamp <= m_timestamp[t],
         \A k \in DOMAIN log[t] : log[t][k].count <= sample.count /\ log[t][k].stamp <= sample.stamp,
         now' = now, m_count' = m_count, m_hashCount' = m_hashCount, m_timestamp' = m_timestamp,
         stamping' = stamping
  PROVE  OrderInv(t)'
  <1> DEFINE n == Len(log[t])
  <1>1. /\ n \in Nat /\ DOMAIN log[t] = 1 .. n /\ DOMAIN log'[t] = 1 .. n + 1
        /\ log'[t][n + 1] = sample /\ \A k \in 1 .. n : log'[t][k] = log[t][k]
    BY AddFacts DEF HashrateInv
  <1> HIDE DEF n
  <1>2. OrderInv(t)
    BY DEF HashrateInv
  <1>3. sample.count \in Nat /\ sample.stamp \in Nat
    BY DEF Sample
  <1>4. \A k \in 1 .. n + 1 : k \in 1 .. n \/ k = n + 1
    BY <1>1
  <1>5. \A k \in 1 .. n + 1 :
          log'[t][k].count <= m_hashCount[t] /\ log'[t][k].stamp <= m_timestamp[t]
    BY <1>1, <1>2, <1>4 DEF OrderInv
  <1>6. ASSUME NEW k \in 1 .. n + 1, NEW l \in 1 .. n + 1, k <= l
        PROVE  log'[t][k].count <= log'[t][l].count /\ log'[t][k].stamp <= log'[t][l].stamp
    <2>1. CASE l = n + 1 /\ k = n + 1
      BY <1>1, <1>3, <2>1
    <2>2. CASE l = n + 1 /\ k \in 1 .. n
      BY <1>1, <2>2
    <2>3. CASE l \in 1 .. n
      <3>1. k \in 1 .. n
        BY <1>1, <1>6, <2>3
      <3> QED
        BY <1>1, <1>2, <1>6, <2>3, <3>1 DEF OrderInv
    <2> QED
      BY <1>4, <2>1, <2>2, <2>3
  <1> QED
    BY <1>1, <1>2, <1>5, <1>6 DEF OrderInv

\* The second load of onTick(), and Hashrate::add().
LEMMA ReadSecondStep ==
  ASSUME HashrateInv, ReadSecond
  PROVE  HashrateInv'
  <1>0. HashrateTypeOK /\ HalfInv /\ half # Nothing
    BY DEF HashrateInv, ReadSecond
  <1>1. PICK t \in ThreadIds : t = sampling
    BY <1>0 DEF HalfInv
  <1> DEFINE sample == IF half.of = "count" THEN [count |-> half.value, stamp |-> m_timestamp[t]]
                                            ELSE [count |-> m_hashCount[t], stamp |-> half.value]
  <1>2. /\ Add(t, sample) /\ half' = Nothing
        /\ sampling' = IF sampling = ThreadCount - 1 THEN -1 ELSE sampling + 1
        /\ now' = now /\ m_count' = m_count /\ m_hashCount' = m_hashCount
        /\ m_timestamp' = m_timestamp /\ stamping' = stamping /\ ready' = ready
    BY <1>1 DEF ReadSecond
  <1>3. /\ half.of \in {"count", "stamp"} /\ half.value \in Nat
        /\ m_hashCount[t] \in Nat /\ m_timestamp[t] \in Nat
    BY <1>0 DEF HashrateTypeOK
  <1>4. OrderInv(t) /\ RingInv(t)
    BY DEF HashrateInv
  <1>5. sample \in Sample
    BY <1>3 DEF Sample
  <1>6. /\ sample.count <= m_hashCount[t] /\ sample.stamp <= m_timestamp[t]
        /\ \A k \in DOMAIN log[t] :
             log[t][k].count <= sample.count /\ log[t][k].stamp <= sample.stamp
    <2>1. CASE half.of = "count"
      <3>1. sample.count = half.value /\ sample.stamp = m_timestamp[t]
        BY <2>1
      <3> QED
        BY <1>0, <1>1, <1>3, <1>4, <2>1, <3>1 DEF HalfInv, OrderInv
    <2>2. CASE half.of = "stamp"
      <3>1. sample.count = m_hashCount[t] /\ sample.stamp = half.value
        BY <2>2
      <3> QED
        BY <1>0, <1>1, <1>3, <1>4, <2>2, <3>1 DEF HalfInv, OrderInv
    <2> QED
      BY <1>3, <2>1, <2>2
  <1> HIDE DEF sample
  <1>7. sampling' \in ThreadIds \cup {-1}
    <2>1. t \in 0 .. ThreadCount - 1 /\ ThreadCount \in Nat
      BY HashrateAssumption DEF ThreadIds
    <2>2. t # ThreadCount - 1 => t + 1 \in 0 .. ThreadCount - 1
      BY <2>1
    <2> QED
      BY <1>1, <1>2, <2>2 DEF ThreadIds
  <1>8. /\ ring' \in [ThreadIds -> [0 .. BucketSize - 1 -> Sample]]
        /\ m_top' \in [ThreadIds -> 0 .. BucketSize - 1] /\ log' \in [ThreadIds -> Seq(Sample)]
        /\ \A u \in ThreadIds \ {t} : ring'[u] = ring[u] /\ m_top'[u] = m_top[u] /\ log'[u] = log[u]
    BY <1>0, <1>2, <1>5, AddFacts
  <1>9. HashrateTypeOK'
    BY <1>0, <1>2, <1>7, <1>8 DEF HashrateTypeOK
  <1>10. RingInv(t)' /\ OrderInv(t)'
    BY <1>0, <1>2, <1>4, <1>5, <1>6, AddKeepsRing, AddKeepsOrder
  <1>11. ASSUME NEW u \in ThreadIds \ {t} PROVE RingInv(u)' /\ OrderInv(u)'
    <2>1. ring'[u] = ring[u] /\ m_top'[u] = m_top[u] /\ log'[u] = log[u]
      BY <1>8
    <2>2. RingInv(u) /\ OrderInv(u)
      BY DEF HashrateInv
    <2>3. RingInv(u)'
      BY <2>1, <2>2 DEF RingInv, Back, Cleared
    <2>4. OrderInv(u)'
      BY <1>2, <2>1, <2>2 DEF OrderInv
    <2> QED
      BY <2>3, <2>4
  <1>12. HalfInv'
    BY <1>2 DEF HalfInv, Nothing
  <1> QED
    BY <1>9, <1>10, <1>11, <1>12 DEF HashrateInv

\* The invariant holds when the rings are made.
LEMMA HashrateBegins == HashrateInit => HashrateInv
  <1> SUFFICES ASSUME HashrateInit PROVE HashrateInv
    OBVIOUS
  <1>0. /\ BucketSize \in Nat /\ BucketSize > 1 /\ MaxNow \in Nat \ {0} /\ 0 \in Leftovers
        /\ Leftovers \subseteq Nat
    BY HashrateAssumption
  <1>1. PICK fill \in [ThreadIds -> Leftovers] :
          /\ \A t \in Cleared : fill[t] = 0
          /\ ring = [t \in ThreadIds |-> [i \in 0 .. BucketSize - 1 |->
                                           [count |-> fill[t], stamp |-> fill[t]]]]
    BY DEF HashrateInit
  <1>2. ring \in [ThreadIds -> [0 .. BucketSize - 1 -> Sample]]
    BY <1>0, <1>1 DEF Sample
  <1>3. /\ now \in 1 .. MaxNow /\ m_top \in [ThreadIds -> 0 .. BucketSize - 1]
        /\ m_timestamp \in [ThreadIds -> 0 .. MaxNow] /\ stamping \in [ThreadIds -> 0 .. MaxNow]
    BY <1>0 DEF HashrateInit
  <1>4. log \in [ThreadIds -> Seq(Sample)] /\ \A t \in ThreadIds : log[t] = <<>>
    BY DEF HashrateInit
  <1>5. HashrateTypeOK
    BY <1>2, <1>3, <1>4 DEF HashrateInit, HashrateTypeOK
  <1>6. ASSUME NEW t \in ThreadIds PROVE RingInv(t) /\ OrderInv(t)
    <2>1. log[t] = <<>> /\ Len(log[t]) = 0 /\ m_top[t] = 0
      BY <1>4 DEF HashrateInit
    <2>2. OrderInv(t)
      BY <2>1 DEF HashrateInit, OrderInv
    <2>3. ASSUME NEW i \in 1 .. BucketSize - 1, t \in Cleared PROVE Back(t, i).stamp = 0
      <3>1. (m_top[t] - i) % BucketSize \in 0 .. BucketSize - 1
        BY <1>3, PlaceFacts
      <3>2. ring[t][(m_top[t] - i) % BucketSize] = [count |-> 0, stamp |-> 0]
        BY <1>1, <2>3, <3>1
      <3> QED
        BY <3>2 DEF Back
    <2> QED
      BY <2>1, <2>2, <2>3 DEF RingInv
  <1>7. HalfInv
    BY DEF HashrateInit, HalfInv
  <1> QED
    BY <1>5, <1>6, <1>7 DEF HashrateInv

\* The invariant is kept by the stores of the threads, by the clock and by onTick().
THEOREM HashrateInductive == HashrateSpec => []HashrateInv
  <1>1. HashrateInv /\ [HashrateNext]_hashrateVars => HashrateInv'
    <2> SUFFICES ASSUME HashrateInv, [HashrateNext]_hashrateVars PROVE HashrateInv'
      OBVIOUS
    <2>1. CASE UNCHANGED hashrateVars
      <3>1. HashrateTypeOK' /\ HalfInv'
        BY <2>1 DEF hashrateVars, HashrateInv, HashrateTypeOK, HalfInv
      <3>2. \A t \in ThreadIds : RingInv(t)' /\ OrderInv(t)'
        BY <2>1 DEF hashrateVars, HashrateInv, RingInv, OrderInv, Back, Cleared
      <3> QED
        BY <3>1, <3>2 DEF HashrateInv
    <2>2. ASSUME NEW t \in ThreadIds, OnReady(t) PROVE HashrateInv'
      BY <2>2, TickSteps
    <2>3. ASSUME NEW t \in ThreadIds, StoreCount(t) \/ StoreStamp(t) PROVE HashrateInv'
      BY <2>3, StoreCountStep, StoreStampStep
    <2>4. CASE NotReady \/ OnTick \/ ReadFirst
      BY <2>4, TickSteps
    <2>5. CASE Over
      BY <2>1, <2>5 DEF Over
    <2> QED
      BY <2>1, <2>2, <2>3, <2>4, <2>5, TimeStep, ReadSecondStep DEF HashrateNext
  <1> QED
    BY <1>1, HashrateBegins, PTL DEF HashrateSpec

-----------------------------------------------------------------------------
\* Where the loop of calc() ends.
Stops(t) == {i \in 1 .. BucketSize - 1 : Back(t, i).stamp = 0 \/ Old(Back(t, i).stamp)}

StopAt(t) == Min(Stops(t) \cup {BucketSize})

\* The number of samples, and the log in the terms of numbers.
LEMMA LogFacts ==
  ASSUME HashrateInv, NEW t \in ThreadIds
  PROVE  /\ Len(log[t]) \in Nat /\ DOMAIN log[t] = 1 .. Len(log[t])
         /\ now \in Nat
         /\ \A k \in 1 .. Len(log[t]) :
              /\ log[t][k].count \in Nat /\ log[t][k].stamp \in Nat /\ log[t][k].stamp <= now
              /\ Old(log[t][k].stamp) <=> now - log[t][k].stamp > Window
         /\ \A k, l \in 1 .. Len(log[t]) :
              k <= l => log[t][k].count <= log[t][l].count /\ log[t][k].stamp <= log[t][l].stamp
  <1>1. log[t] \in Seq(Sample) /\ now \in Nat /\ m_timestamp[t] \in Nat /\ OrderInv(t)
    BY DEF HashrateInv, HashrateTypeOK
  <1>2. Len(log[t]) \in Nat /\ DOMAIN log[t] = 1 .. Len(log[t])
    BY <1>1
  <1>3. \A k \in 1 .. Len(log[t]) : log[t][k] \in Sample
    BY <1>1
  <1>4. \A k \in 1 .. Len(log[t]) : log[t][k].count \in Nat /\ log[t][k].stamp \in Nat
    BY <1>3 DEF Sample
  <1>5. \A k \in 1 .. Len(log[t]) : log[t][k].stamp <= now
    <2>1. m_timestamp[t] <= now /\ \A k \in DOMAIN log[t] : log[t][k].stamp <= m_timestamp[t]
      BY <1>1 DEF OrderInv
    <2> QED
      BY <1>1, <1>2, <1>4, <2>1
  <1>6. \A k \in 1 .. Len(log[t]) : Old(log[t][k].stamp) <=> now - log[t][k].stamp > Window
    BY <1>1, <1>4, <1>5 DEF Old
  <1> QED
    BY <1>1, <1>2, <1>4, <1>5, <1>6 DEF OrderInv

\* The loop of calc() ends within the ring or behind it, at the first place it may.
LEMMA StopFacts ==
  ASSUME NEW t \in ThreadIds
  PROVE  /\ StopAt(t) \in 1 .. BucketSize
         /\ StopAt(t) # BucketSize => StopAt(t) \in Stops(t)
         /\ \A i \in 1 .. StopAt(t) - 1 : i \in 1 .. BucketSize - 1 /\ i \notin Stops(t)
  <1> DEFINE S == Stops(t) \cup {BucketSize}
  <1>0. BucketSize \in Nat /\ BucketSize > 1
    BY HashrateAssumption
  <1>1. S \subseteq 1 .. BucketSize /\ S \subseteq Nat /\ S # {}
    BY <1>0 DEF Stops
  <1>2. Min(S) \in S /\ \A y \in S : Min(S) <= y
    BY <1>1, MinFacts
  <1>3. StopAt(t) = Min(S)
    BY DEF StopAt
  <1>4. StopAt(t) \in 1 .. BucketSize
    BY <1>1, <1>2, <1>3
  <1>5. StopAt(t) # BucketSize => StopAt(t) \in Stops(t)
    BY <1>2, <1>3
  <1>6. ASSUME NEW i \in 1 .. StopAt(t) - 1 PROVE i \in 1 .. BucketSize - 1 /\ i \notin Stops(t)
    <2>1. i \in 1 .. BucketSize - 1 /\ ~(StopAt(t) <= i)
      BY <1>0, <1>4
    <2> QED
      BY <1>2, <1>3, <2>1
  <1> QED
    BY <1>4, <1>5, <1>6

\* The loop ends at i if it does not end before i, and must at i.
LEMMA StopIs ==
  ASSUME NEW t \in ThreadIds, NEW i \in Stops(t), \A k \in 1 .. i - 1 : k \notin Stops(t)
  PROVE  StopAt(t) = i
  <1>0. BucketSize \in Nat /\ i \in 1 .. BucketSize - 1
    BY HashrateAssumption DEF Stops
  <1>1. StopAt(t) \in 1 .. BucketSize /\ (StopAt(t) # BucketSize => StopAt(t) \in Stops(t))
    BY StopFacts
  <1>2. ~(i < StopAt(t))
    BY <1>0, <1>1, StopFacts
  <1>3. ~(StopAt(t) < i)
    BY <1>0, <1>1
  <1> QED
    BY <1>0, <1>1, <1>2, <1>3

\* calc() in these terms.
LEMMA CalcIs ==
  ASSUME NEW t \in ThreadIds
  PROVE  calc(t) = IF /\ Full(t, StopAt(t)) /\ StopAt(t) > 1
                      /\ Back(t, 1).stamp # Back(t, StopAt(t) - 1).stamp
                   THEN <<Back(t, 1).count - Back(t, StopAt(t) - 1).count,
                          Back(t, 1).stamp - Back(t, StopAt(t) - 1).stamp>>
                   ELSE Nan
  BY DEF calc, StopAt, Stops

\* A speed is never negative (Hashrate.cpp, calc).
LEMMA SpeedIsNotNegativeNow == HashrateInv => SpeedIsNotNegative
  <1> SUFFICES ASSUME HashrateInv, NEW t \in ThreadIds, RingIsKnown(t), calc(t) # Nan
               PROVE  calc(t)[1] >= 0 /\ calc(t)[2] > 0
    BY DEF SpeedIsNotNegative
  <1> DEFINE n == Len(log[t])
             s == StopAt(t)
  <1>0. BucketSize \in Nat /\ BucketSize > 1 /\ n \in Nat
    BY HashrateAssumption, LogFacts
  <1>1. /\ Full(t, s) /\ s > 1 /\ Back(t, 1).stamp # Back(t, s - 1).stamp
        /\ calc(t) = <<Back(t, 1).count - Back(t, s - 1).count,
                       Back(t, 1).stamp - Back(t, s - 1).stamp>>
    BY CalcIs
  <1>2. s \in 2 .. BucketSize - 1
    BY <1>0, <1>1, StopFacts DEF Full
  <1>3. s - 1 \in 1 .. BucketSize - 1 /\ s - 1 \notin Stops(t)
    BY <1>0, <1>2, StopFacts
  <1>4. Back(t, s - 1).stamp # 0
    BY <1>3 DEF Stops
  <1> HIDE DEF s
  <1>5. s - 1 <= n
    <2>1. CASE t \in Cleared
      <3>1. s - 1 > n => Back(t, s - 1).stamp = 0
        BY <1>3, <2>1 DEF HashrateInv, RingInv
      <3> QED
        BY <1>0, <1>2, <1>4, <3>1
    <2>2. CASE n >= BucketSize - 1
      BY <1>0, <1>2, <2>2
    <2> QED
      BY <2>1, <2>2 DEF RingIsKnown
  <1>6. 1 \in 1 .. BucketSize - 1 /\ n \in 1 .. n /\ n + 1 - (s - 1) \in 1 .. n /\ n + 1 - 1 = n
    BY <1>0, <1>2, <1>5
  <1>7. Back(t, 1) = log[t][n] /\ Back(t, s - 1) = log[t][n + 1 - (s - 1)]
    <2>1. 1 <= n
      BY <1>6
    <2> QED
      BY <1>3, <1>5, <1>6, <2>1 DEF HashrateInv, RingInv
  <1>8. n + 1 - (s - 1) <= n
    BY <1>6
  <1>9. /\ log[t][n].count \in Nat /\ log[t][n].stamp \in Nat
        /\ Back(t, s - 1).count \in Nat /\ Back(t, s - 1).stamp \in Nat
        /\ Back(t, s - 1).count <= log[t][n].count /\ Back(t, s - 1).stamp <= log[t][n].stamp
    BY <1>6, <1>7, <1>8, LogFacts
  <1> QED
    BY <1>1, <1>7, <1>9

\* The samples ever taken of a thread that has hashed, and those of the window.
Taken(t) == {k \in DOMAIN log[t] : log[t][k].stamp # 0}

Inside(t) == {k \in Taken(t) : now - log[t][k].stamp <= Window}

\* Reference() in these terms.
LEMMA ReferenceIs ==
  ASSUME NEW t \in ThreadIds
  PROVE  /\ (Inside(t) = {} \/ Inside(t) = Taken(t)) => Reference(t) = Nan
         /\ (Inside(t) # {} /\ Inside(t) # Taken(t)) =>
              LET newest == log[t][Max(Inside(t))]
                  oldest == log[t][Min(Inside(t))] IN
              Reference(t) = IF newest.stamp = oldest.stamp THEN Nan
                             ELSE <<newest.count - oldest.count, newest.stamp - oldest.stamp>>
  BY DEF Reference, Inside, Taken

\* A sample in the window does not end the loop of calc(), any other one does.
LEMMA StopsOrInside ==
  ASSUME HashrateInv, NEW t \in ThreadIds, NEW i \in 1 .. BucketSize - 1, i <= Len(log[t])
  PROVE  i \in Stops(t) <=> Len(log[t]) + 1 - i \notin Inside(t)
  <1> DEFINE k == Len(log[t]) + 1 - i
  <1>1. Back(t, i) = log[t][k]
    BY DEF HashrateInv, RingInv
  <1>2. k \in 1 .. Len(log[t]) /\ k \in DOMAIN log[t]
    BY LogFacts
  <1> HIDE DEF k
  <1>3. /\ Old(log[t][k].stamp) <=> now - log[t][k].stamp > Window
        /\ now \in Nat /\ log[t][k].stamp \in Nat /\ Window \in Nat
    BY <1>2, LogFacts, HashrateAssumption
  <1>4. i \in Stops(t) <=> (log[t][k].stamp = 0 \/ now - log[t][k].stamp > Window)
    BY <1>1, <1>3 DEF Stops
  <1>5. k \in Inside(t) <=> (log[t][k].stamp # 0 /\ now - log[t][k].stamp <= Window)
    BY <1>2 DEF Inside, Taken
  <1> QED
    BY <1>3, <1>4, <1>5 DEF k

\* The samples of the window are the last ones.
LEMMA InsideIsASuffix ==
  ASSUME HashrateInv, NEW t \in ThreadIds, Inside(t) # {}
  PROVE  \E m \in 1 .. Len(log[t]) :
           Inside(t) = m .. Len(log[t]) /\ Min(Inside(t)) = m /\ Max(Inside(t)) = Len(log[t])
  <1> DEFINE n == Len(log[t])
             m == Min(Inside(t))
  <1>1. n \in Nat /\ Inside(t) \subseteq 1 .. n /\ Inside(t) \subseteq Nat
    BY LogFacts DEF Inside, Taken
  <1>2. m \in Inside(t) /\ \A y \in Inside(t) : m <= y
    BY <1>1, MinFacts
  <1> HIDE DEF m
  <1>3. m \in 1 .. n
    BY <1>1, <1>2
  <1>4. ASSUME NEW k \in m .. n PROVE k \in Inside(t)
    <2>1. k \in 1 .. n /\ m <= k
      BY <1>1, <1>3
    <2>2. log[t][m].stamp <= log[t][k].stamp /\ log[t][m].stamp \in Nat /\ log[t][k].stamp \in Nat
      BY <1>3, <2>1, LogFacts
    <2>3. now \in Nat /\ Window \in Nat /\ k \in DOMAIN log[t]
      BY <2>1, LogFacts, HashrateAssumption
    <2>4. log[t][m].stamp # 0 /\ now - log[t][m].stamp <= Window
      BY <1>2 DEF Inside, Taken
    <2>5. log[t][k].stamp # 0 /\ now - log[t][k].stamp <= Window
      BY <2>2, <2>3, <2>4
    <2> QED
      BY <2>3, <2>5 DEF Inside, Taken
  <1>5. \A k \in Inside(t) : k \in m .. n
    BY <1>1, <1>2, <1>3
  <1>6. Inside(t) = m .. n
    BY <1>4, <1>5
  <1>7. n \in Inside(t) /\ \A y \in Inside(t) : y <= n
    BY <1>1, <1>3, <1>6
  <1>8. Max(Inside(t)) = n
    BY <1>1, <1>7, MaxIs
  <1> QED
    BY <1>3, <1>6, <1>8 DEF m

\* Without a sample in the window there is no speed.
LEMMA NoSpeed ==
  ASSUME HashrateInv, NEW t \in ThreadIds, RingIsKnown(t), Inside(t) = {}
  PROVE  calc(t) = Reference(t)
  <1>0. BucketSize \in Nat /\ BucketSize > 1 /\ Len(log[t]) \in Nat
    BY HashrateAssumption, LogFacts
  <1>1. 1 \in 1 .. BucketSize - 1
    BY <1>0
  <1>2. 1 \in Stops(t)
    <2>1. CASE 1 <= Len(log[t])
      BY <1>1, <2>1, StopsOrInside
    <2>2. CASE ~(1 <= Len(log[t]))
      <3>1. t \in Cleared /\ 1 > Len(log[t])
        BY <1>0, <2>2 DEF RingIsKnown
      <3> QED
        BY <1>1, <3>1 DEF HashrateInv, RingInv, Stops
    <2> QED
      BY <2>1, <2>2
  <1>3. StopAt(t) = 1
    BY <1>2, StopIs
  <1> QED
    BY <1>3, CalcIs, ReferenceIs

\* Fewer samples than the ring gives back are in a window that fits.
LEMMA SuffixFits ==
  ASSUME HashrateInv, NEW t \in ThreadIds, WindowFits(t), NEW m \in 1 .. Len(log[t]),
         Inside(t) = m .. Len(log[t])
  PROVE  Len(log[t]) + 1 - m < BucketSize - 1
  <1> DEFINE W == {k \in DOMAIN log[t] : now - log[t][k].stamp <= Window}
  <1>0. Len(log[t]) \in Nat /\ DOMAIN log[t] = 1 .. Len(log[t])
    BY LogFacts
  <1>1. IsFiniteSet(1 .. Len(log[t])) /\ W \subseteq 1 .. Len(log[t])
    <2>1. PICK n \in Nat : n = Len(log[t])
      BY <1>0
    <2>2. 1 \in Int /\ n \in Int
      OBVIOUS
    <2>3. IsFiniteSet(1 .. n)
      BY <2>2, FS_Interval
    <2> QED
      BY <1>0, <2>1, <2>3
  <1>2. IsFiniteSet(W)
    BY <1>1, FS_Subset
  <1>3. m .. Len(log[t]) \subseteq W
    BY DEF Inside, Taken
  <1>4. Cardinality(W) < BucketSize - 1
    BY DEF WindowFits
  <1> HIDE DEF W
  <1>5. Cardinality(m .. Len(log[t])) <= Cardinality(W) /\ Cardinality(W) \in Nat
    BY <1>2, <1>3, FS_Subset, FS_CardinalityType
  <1>6. Cardinality(m .. Len(log[t])) = Len(log[t]) - m + 1
    BY <1>0, FS_Interval
  <1> QED
    BY <1>0, <1>4, <1>5, <1>6, HashrateAssumption

\* With samples in the window, the loop ends one place behind the first of them.
LEMMA SomeSpeed ==
  ASSUME HashrateInv, NEW t \in ThreadIds, RingIsKnown(t), WindowFits(t), Inside(t) # {}
  PROVE  calc(t) = Reference(t)
  <1> DEFINE n == Len(log[t])
  <1>1. PICK m \in 1 .. n : Inside(t) = m .. n /\ Min(Inside(t)) = m /\ Max(Inside(t)) = n
    BY InsideIsASuffix
  <1> DEFINE s == n + 2 - m
  <1>0. BucketSize \in Nat /\ n \in Nat /\ DOMAIN log[t] = 1 .. n
    BY HashrateAssumption, LogFacts
  <1>2. n + 1 - m < BucketSize - 1
    BY <1>1, SuffixFits
  <1>3. s \in 2 .. BucketSize - 1 /\ s \in 1 .. BucketSize - 1 /\ s - 1 \in 1 .. BucketSize - 1
    BY <1>0, <1>2
  <1>4. ASSUME NEW i \in 1 .. s - 1 PROVE i \notin Stops(t)
    <2>1. i \in 1 .. BucketSize - 1 /\ i <= n /\ n + 1 - i \in m .. n
      BY <1>0, <1>3
    <2> QED
      BY <1>1, <2>1, StopsOrInside
  <1>5. CASE m = 1
    <2>1. s = n + 1 /\ n < BucketSize - 1
      BY <1>0, <1>2, <1>5
    <2>2. t \in Cleared /\ s > n
      BY <1>0, <2>1 DEF RingIsKnown
    <2>3. Back(t, s).stamp = 0
      BY <1>3, <2>2 DEF HashrateInv, RingInv
    <2>4. StopAt(t) = s
      BY <1>3, <1>4, <2>3, StopIs DEF Stops
    <2>5. calc(t) = Nan
      BY <2>3, <2>4, CalcIs DEF Full
    <2>6. Inside(t) = Taken(t)
      BY <1>0, <1>1, <1>5 DEF Inside, Taken
    <2> QED
      BY <2>5, <2>6, ReferenceIs
  <1>6. CASE m > 1
    <2>1. s <= n /\ n + 1 - s = m - 1 /\ m - 1 \in 1 .. n /\ m - 1 \notin m .. n
      BY <1>0, <1>6
    <2>2. s \in Stops(t)
      BY <1>1, <1>3, <2>1, StopsOrInside
    <2>3. StopAt(t) = s
      BY <1>4, <2>2, StopIs
    <2>4. /\ Back(t, s) = log[t][m - 1]
      BY <1>3, <2>1 DEF HashrateInv, RingInv
    <2>5. Back(t, 1) = log[t][n] /\ Back(t, s - 1) = log[t][m]
      <3>1. /\ 1 \in 1 .. BucketSize - 1 /\ 1 <= n /\ n + 1 - 1 = n
            /\ s - 1 <= n /\ n + 1 - (s - 1) = m
        BY <1>0, <1>3
      <3> QED
        BY <1>3, <3>1 DEF HashrateInv, RingInv
    <2>6. Full(t, s) <=> log[t][m - 1].stamp # 0
      BY <1>0, <1>3, <2>4 DEF Full
    <2>7. Full(t, s) <=> Inside(t) # Taken(t)
      <3>1. CASE log[t][m - 1].stamp # 0
        <4>1. m - 1 \in Taken(t) /\ m - 1 \notin Inside(t)
          BY <1>0, <1>1, <2>1, <3>1 DEF Taken
        <4> QED
          BY <2>6, <3>1, <4>1
      <3>2. CASE log[t][m - 1].stamp = 0
        <4>1. ASSUME NEW k \in Taken(t) PROVE k \in Inside(t)
          <5>1. k \in 1 .. n /\ log[t][k].stamp # 0 /\ log[t][k].stamp \in Nat
            BY <1>0, LogFacts DEF Taken
          <5>2. k <= m - 1 => log[t][k].stamp <= log[t][m - 1].stamp
            BY <2>1, <5>1, LogFacts
          <5>3. ~(k <= m - 1)
            BY <3>2, <5>1, <5>2
          <5> QED
            BY <1>0, <1>1, <5>1, <5>3
        <4>2. Inside(t) = Taken(t)
          BY <4>1 DEF Inside
        <4> QED
          BY <2>6, <3>2, <4>2
      <3> QED
        BY <3>1, <3>2
    <2>8. s > 1
      BY <1>3
    <2> HIDE DEF s
    <2>9. calc(t) = IF Full(t, s) /\ log[t][n].stamp # log[t][m].stamp
                    THEN <<log[t][n].count - log[t][m].count, log[t][n].stamp - log[t][m].stamp>>
                    ELSE Nan
      BY <2>3, <2>5, <2>8, CalcIs
    <2> QED
      BY <1>1, <2>7, <2>9, ReferenceIs
  <1> QED
    BY <1>0, <1>5, <1>6

\* The ring is used within its bounds; the speed is the one that all samples ever taken
\* give, and never negative, whatever the interleaving of the stores of a thread with the
\* loads of onTick() (Hashrate.cpp, add, calc; Workers.cpp, onTick).
THEOREM HashrateInvariantHolds == HashrateSpec => []HashrateInvariant
  <1>1. HashrateInv => HashrateInvariant
    <2> SUFFICES ASSUME HashrateInv PROVE SpeedIsRight
      BY SpeedIsNotNegativeNow DEF HashrateInvariant, HashrateInv
    <2> QED
      BY NoSpeed, SomeSpeed DEF SpeedIsRight
  <1> QED
    BY <1>1, HashrateInductive, PTL

-----------------------------------------------------------------------------
(* Adl.                                                                    *)

Row == [enabled : BOOLEAN, clock : Nat, vddc : Nat]
Table == [0 .. Top -> Row]
Adapter == [table : Table, temperature : Nat, power : Int]

AdlTypes ==
  /\ profile \in Seq([clock : Nat, vddc : Nat]) /\ settings \in [temperature : Nat, power : Int]
  /\ driver \in [Busses -> Adapter]
  /\ first \in [Busses -> Table] /\ cached \in [Busses -> Table]
  /\ step \in [Busses -> 0 .. Len(profile) + 5]
  /\ failed \in SUBSET Known /\ misread \in SUBSET failed /\ fault \in BOOLEAN

\* What is enabled stays so; the voltage of the highest level is moved at most by one
\* if it was read and the profile does not reach it.
NearInv(b) ==
  /\ \A l \in 0 .. Top : driver[b].table[l].enabled = first[b][l].enabled
  /\ step[b] = 0 => driver[b].table = first[b]
  /\ (b \notin misread /\ step[b] < Len(profile) + 5) => cached[b] = first[b]
  /\ (b \notin misread /\ Len(profile) < Levels) =>
       first[b][Top].vddc - 1 <= driver[b].table[Top].vddc
         /\ driver[b].table[Top].vddc <= first[b][Top].vddc + 1

\* How far a level of an adapter without a failed call is.
LevelInv(b, l) ==
  LET row == driver[b].table[l] IN
  /\ step[b] <= 1 => row = first[b][l]
  /\ step[b] = 2 =>
       /\ row.enabled = first[b][l].enabled /\ row.clock = first[b][l].clock
       /\ row = first[b][l] \/ (l = Top /\ first[b][l].enabled)
  /\ step[b] >= 3 =>
       IF first[b][l].enabled /\ l + 1 <= Len(profile) /\ l + 4 <= step[b]
       THEN row.clock = profile[l + 1].clock /\ row.vddc = profile[l + 1].vddc
       ELSE row = first[b][l]

AdlInv ==
  /\ AdlTypes
  /\ \A b \in Known : NearInv(b)
  /\ \A b \in Known \ failed : \A l \in 0 .. Top : LevelInv(b, l)
  /\ OutsideOnlyWithLongProfile

-----------------------------------------------------------------------------
\* Two rows with the same three values are the same.
LEMMA SameRow ==
  \A r, q \in Row : r.enabled = q.enabled /\ r.clock = q.clock /\ r.vddc = q.vddc => r = q
  BY DEF Row

\* A table has a highest level, and a level behind it that is not one.
LEMMA TopFacts == Top \in Nat /\ Top \in 0 .. Top /\ Top < Levels /\ Levels = Top + 1
  BY AdlAssumption DEF Top

\* The tables after a write of setSystemClock().
Written(b, level, clock, vddc) ==
  [driver EXCEPT ![b].table[level].clock = clock, ![b].table[level].vddc = vddc]

\* A write of setSystemClock(): one level of one adapter.
LEMMA WriteFacts ==
  ASSUME driver \in [Busses -> Adapter], NEW b \in Busses, NEW level \in 0 .. Top,
         NEW clock \in Nat, NEW vddc \in Nat, driver' = Written(b, level, clock, vddc)
  PROVE  /\ driver' \in [Busses -> Adapter]
         /\ \A c \in Busses \ {b} : driver'[c] = driver[c]
         /\ \A l \in 0 .. Top \ {level} : driver'[b].table[l] = driver[b].table[l]
         /\ driver'[b].table[level].enabled = driver[b].table[level].enabled
         /\ driver'[b].table[level].clock = clock /\ driver'[b].table[level].vddc = vddc
  <1> DEFINE table == driver[b].table
             row == [table[level] EXCEPT !.clock = clock, !.vddc = vddc]
             after == [table EXCEPT ![level] = row]
             adapter == [driver[b] EXCEPT !.table = after]
  <1>1. driver[b] \in Adapter /\ table \in Table /\ table[level] \in Row
    BY DEF Adapter, Table
  <1>2. /\ row \in Row /\ row.enabled = table[level].enabled
        /\ row.clock = clock /\ row.vddc = vddc
    BY <1>1 DEF Row
  <1>3. driver' = [driver EXCEPT ![b] = adapter]
    BY <1>1 DEF Adapter, Table, Row, Written
  <1> HIDE DEF row
  <1>4. after \in Table /\ after[level] = row /\ \A l \in 0 .. Top \ {level} : after[l] = table[l]
    BY <1>1, <1>2 DEF Table
  <1> HIDE DEF after
  <1>5. adapter \in Adapter /\ adapter.table = after
    BY <1>1, <1>4 DEF Adapter
  <1> HIDE DEF adapter
  <1>6. /\ driver' \in [Busses -> Adapter] /\ driver'[b] = adapter
        /\ \A c \in Busses \ {b} : driver'[c] = driver[c]
    BY <1>3, <1>5
  <1> QED
    BY <1>2, <1>4, <1>5, <1>6

\* Adl::setSystemClock(), setMemoryClock(): one level of one adapter, if it is enabled;
\* without a failure the level has the values afterwards.
LEMMA SetClockFacts ==
  ASSUME AdlTypes, NEW b \in Known, NEW level \in Nat, NEW clock \in Nat, NEW vddc \in Nat,
         setClock(b, level, clock, vddc)
  PROVE  /\ driver' \in [Busses -> Adapter]
         /\ \A c \in Busses \ {b} : driver'[c] = driver[c]
         /\ \A l \in 0 .. Top \ {level} : driver'[b].table[l] = driver[b].table[l]
         /\ level \in 0 .. Top =>
              /\ driver'[b].table[level].enabled = driver[b].table[level].enabled
              /\ \/ driver'[b].table[level] = driver[b].table[level]
                 \/ driver'[b].table[level].clock = clock /\ driver'[b].table[level].vddc = vddc
              /\ ~driver[b].table[level].enabled =>
                   driver'[b].table[level] = driver[b].table[level]
              /\ (driver[b].table[level].enabled /\ b \notin failed') =>
                   driver'[b].table[level].clock = clock /\ driver'[b].table[level].vddc = vddc
         /\ failed \subseteq failed' /\ failed' \subseteq failed \cup {b}
         /\ fault' = (fault \/ level = Levels)
  <1>0. b \in Busses /\ driver \in [Busses -> Adapter] /\ Levels = Top + 1 /\ Top \in Nat
    BY AdlAssumption, TopFacts DEF AdlTypes
  <1>1. PICK read \in BOOLEAN, accepted \in BOOLEAN :
          LET table == IF read THEN driver[b].table ELSE Zeros
              writes == level < Levels /\ table[level].enabled
          IN  /\ driver' = IF writes /\ accepted
                           THEN [driver EXCEPT ![b].table[level].clock = clock,
                                               ![b].table[level].vddc = vddc]
                           ELSE driver
              /\ failed' = IF ~read \/ (writes /\ ~accepted) THEN failed \cup {b} ELSE failed
              /\ fault' = (fault \/ level = Levels)
    BY DEF setClock
  <1> DEFINE writes == level < Levels /\ (IF read THEN driver[b].table ELSE Zeros)[level].enabled
             on == driver[b].table[level].enabled
  <1>2. /\ driver' = IF writes /\ accepted
                     THEN [driver EXCEPT ![b].table[level].clock = clock,
                                         ![b].table[level].vddc = vddc]
                     ELSE driver
        /\ failed' = IF ~read \/ (writes /\ ~accepted) THEN failed \cup {b} ELSE failed
        /\ fault' = (fault \/ level = Levels)
    BY <1>1
  <1>3. level < Levels <=> level \in 0 .. Top
    BY <1>0
  <1>4. ~read => ~writes
    BY <1>3 DEF Zeros
  <1>5. read => (writes <=> level \in 0 .. Top /\ on)
    BY <1>3
  <1> HIDE DEF writes
  <1>6. failed \subseteq failed' /\ failed' \subseteq failed \cup {b}
    BY <1>2
  <1>7. CASE writes /\ accepted
    <2>1. level \in 0 .. Top /\ on
      BY <1>4, <1>5, <1>7
    <2>2. driver' = Written(b, level, clock, vddc)
      BY <1>2, <1>7 DEF Written
    <2>3. /\ driver' \in [Busses -> Adapter]
          /\ \A c \in Busses \ {b} : driver'[c] = driver[c]
          /\ \A l \in 0 .. Top \ {level} : driver'[b].table[l] = driver[b].table[l]
          /\ driver'[b].table[level].enabled = driver[b].table[level].enabled
          /\ driver'[b].table[level].clock = clock /\ driver'[b].table[level].vddc = vddc
      BY <1>0, <2>1, <2>2, WriteFacts
    <2> QED
      BY <1>2, <1>6, <2>1, <2>3
  <1>8. CASE ~(writes /\ accepted)
    <2>1. driver' = driver
      BY <1>2, <1>8
    <2>2. ASSUME level \in 0 .. Top, on PROVE b \in failed'
      <3>1. CASE read
        <4>1. writes /\ ~accepted
          BY <1>5, <1>8, <2>2, <3>1
        <4> QED
          BY <1>2, <4>1
      <3>2. CASE ~read
        BY <1>2, <3>2
      <3> QED
        BY <3>1, <3>2
    <2> QED
      BY <1>0, <1>2, <1>6, <2>1, <2>2
  <1> QED
    BY <1>7, <1>8

\* The three kinds of writes of the constructor, in one form: Toggle, Restore, ApplyLevel.
Writes(b, level, clock, vddc) ==
  /\ setClock(b, level, clock, vddc)
  /\ step' = [step EXCEPT ![b] = step[b] + 1]
  /\ UNCHANGED <<config, cached, misread>>

\* What the constructor writes is a clock and a voltage.
LEMMA WritesFacts ==
  ASSUME AdlTypes, NEW b \in Known
  PROVE  /\ Toggle(b) => /\ step[b] = 1
                         /\ Writes(b, Top, cached[b][Top].clock, Moved(cached[b][Top].vddc))
         /\ Restore(b) => /\ step[b] = 2
                          /\ Writes(b, Top, cached[b][Top].clock, cached[b][Top].vddc)
         /\ \A k \in DOMAIN profile : ApplyLevel(b, k) =>
              step[b] = k + 2 /\ Writes(b, k - 1, profile[k].clock, profile[k].vddc)
         /\ cached[b][Top].clock \in Nat /\ cached[b][Top].vddc \in Nat
         /\ Moved(cached[b][Top].vddc) \in Nat
         /\ cached[b][Top].vddc - 1 <= Moved(cached[b][Top].vddc)
         /\ Moved(cached[b][Top].vddc) <= cached[b][Top].vddc + 1
         /\ \A k \in DOMAIN profile :
              /\ k - 1 \in Nat /\ k \in 1 .. Len(profile)
              /\ profile[k].clock \in Nat /\ profile[k].vddc \in Nat
  <1>0. b \in Busses /\ step[b] \in Nat
    BY AdlAssumption DEF AdlTypes
  <1>1. cached[b][Top] \in Row
    BY <1>0, TopFacts DEF AdlTypes, Table
  <1>2. cached[b][Top].clock \in Nat /\ cached[b][Top].vddc \in Nat
    BY <1>1 DEF Row
  <1>3. /\ Moved(cached[b][Top].vddc) \in Nat
        /\ cached[b][Top].vddc - 1 <= Moved(cached[b][Top].vddc)
        /\ Moved(cached[b][Top].vddc) <= cached[b][Top].vddc + 1
    BY <1>2, AdlAssumption DEF Moved
  <1>4. \A k \in DOMAIN profile :
          /\ k - 1 \in Nat /\ k \in 1 .. Len(profile)
          /\ profile[k].clock \in Nat /\ profile[k].vddc \in Nat
    <2> SUFFICES ASSUME NEW k \in DOMAIN profile
                 PROVE  /\ k - 1 \in Nat /\ k \in 1 .. Len(profile)
                        /\ profile[k].clock \in Nat /\ profile[k].vddc \in Nat
      OBVIOUS
    <2> DEFINE Setting == [clock : Nat, vddc : Nat]
    <2>1. profile \in Seq(Setting)
      BY DEF AdlTypes
    <2> HIDE DEF Setting
    <2>2. k \in 1 .. Len(profile) /\ Len(profile) \in Nat
      BY <2>1
    <2>3. profile[k] \in Setting
      BY <2>1, <2>2
    <2> QED
      BY <2>2, <2>3 DEF Setting
  <1>5. Toggle(b) => /\ step[b] = 1
                     /\ Writes(b, Top, cached[b][Top].clock, Moved(cached[b][Top].vddc))
    BY DEF Toggle, Turn, Writes
  <1>6. Restore(b) => /\ step[b] = 2
                      /\ Writes(b, Top, cached[b][Top].clock, cached[b][Top].vddc)
    BY DEF Restore, Restored, Turn, Writes
  <1>7. \A k \in DOMAIN profile : ApplyLevel(b, k) =>
          step[b] = k + 2 /\ Writes(b, k - 1, profile[k].clock, profile[k].vddc)
    <2> SUFFICES ASSUME NEW k \in DOMAIN profile, ApplyLevel(b, k)
                 PROVE  step[b] = k + 2 /\ Writes(b, k - 1, profile[k].clock, profile[k].vddc)
      OBVIOUS
    <2>1. /\ step[b] = k + 2 /\ step' = [step EXCEPT ![b] = k + 3]
          /\ setClock(b, Level(k), profile[k].clock, profile[k].vddc)
          /\ UNCHANGED <<config, cached, misread>>
      BY DEF ApplyLevel, Turn
    <2>2. step[b] + 1 = k + 3
      BY <1>4, <2>1
    <2> QED
      BY <2>1, <2>2 DEF Level, Writes
  <1> QED
    BY <1>2, <1>3, <1>4, <1>5, <1>6, <1>7

\* The types and the order of the steps after a write of the constructor.
LEMMA WritesTypes ==
  ASSUME AdlTypes, NEW b \in Known, NEW level \in Nat, NEW clock \in Nat, NEW vddc \in Nat,
         step[b] < Len(profile) + 5, Writes(b, level, clock, vddc)
  PROVE  /\ AdlTypes' /\ step'[b] = step[b] + 1
         /\ \A c \in Known \ {b} : step'[c] = step[c]
  <1>1. /\ driver' \in [Busses -> Adapter]
        /\ failed \subseteq failed' /\ failed' \subseteq failed \cup {b}
        /\ fault' = (fault \/ level = Levels)
    BY SetClockFacts DEF Writes
  <1>2. /\ step' = [step EXCEPT ![b] = step[b] + 1] /\ cached' = cached /\ misread' = misread
        /\ profile' = profile /\ settings' = settings /\ first' = first
    BY DEF Writes, config
  <1>3. Known \subseteq Busses /\ Len(profile) \in Nat
    BY AdlAssumption DEF AdlTypes
  <1>4. step' \in [Busses -> 0 .. Len(profile) + 5]
    BY <1>2, <1>3 DEF AdlTypes
  <1>5. /\ step'[b] = step[b] + 1
        /\ \A c \in Known \ {b} : step'[c] = step[c]
    BY <1>2, <1>3 DEF AdlTypes
  <1>6. failed' \in SUBSET Known /\ misread' \in SUBSET failed' /\ fault' \in BOOLEAN
    BY <1>1, <1>2 DEF AdlTypes
  <1> QED
    BY <1>1, <1>2, <1>4, <1>5, <1>6 DEF AdlTypes

\* An adapter that a step leaves alone keeps its facts.
LEMMA OtherAdapter ==
  ASSUME NEW c \in Known, NearInv(c), c \in Known \ failed => \A l \in 0 .. Top : LevelInv(c, l),
         driver'[c].table = driver[c].table, first' = first, cached'[c] = cached[c],
         step'[c] = step[c], profile' = profile,
         c \in misread' <=> c \in misread, failed \subseteq failed'
  PROVE  /\ NearInv(c)'
         /\ c \in Known \ failed' => \A l \in 0 .. Top : LevelInv(c, l)'
  <1>1. NearInv(c)'
    BY DEF NearInv
  <1>2. c \in Known \ failed' => \A l \in 0 .. Top : LevelInv(c, l)'
    BY DEF LevelInv
  <1> QED
    BY <1>1, <1>2

\* Where a write leaves the other adapters and the other levels of its own.
LEMMA WritesElsewhere ==
  ASSUME AdlInv, NEW b \in Known, NEW level \in Nat, NEW clock \in Nat, NEW vddc \in Nat,
         step[b] < Len(profile) + 5, Writes(b, level, clock, vddc)
  PROVE  \A c \in Known \ {b} : /\ NearInv(c)'
                                /\ c \in Known \ failed' => \A l \in 0 .. Top : LevelInv(c, l)'
  <1> SUFFICES ASSUME NEW c \in Known \ {b}
               PROVE  /\ NearInv(c)'
                      /\ c \in Known \ failed' => \A l \in 0 .. Top : LevelInv(c, l)'
    OBVIOUS
  <1>1. c \in Busses \ {b}
    BY AdlAssumption
  <1>2. driver'[c] = driver[c] /\ failed \subseteq failed'
    BY <1>1, SetClockFacts DEF Writes, AdlInv
  <1>3. step'[c] = step[c]
    BY WritesTypes DEF AdlInv
  <1>4. first' = first /\ cached' = cached /\ misread' = misread /\ profile' = profile
    BY DEF Writes, config
  <1>5. NearInv(c) /\ (c \in Known \ failed => \A l \in 0 .. Top : LevelInv(c, l))
    BY DEF AdlInv
  <1> QED
    BY <1>2, <1>3, <1>4, <1>5, OtherAdapter

\* What a write does to the voltage of the highest level: it stays where it was, or is
\* the one written.
LEMMA WritesNear ==
  ASSUME AdlInv, NEW b \in Known, NEW level \in Nat, NEW clock \in Nat, NEW vddc \in Nat,
         step[b] < Len(profile) + 5, Writes(b, level, clock, vddc),
         (level = Top /\ b \notin misread /\ Len(profile) < Levels) =>
           first[b][Top].vddc - 1 <= vddc /\ vddc <= first[b][Top].vddc + 1
  PROVE  NearInv(b)'
  <1>1. /\ \A l \in 0 .. Top \ {level} : driver'[b].table[l] = driver[b].table[l]
        /\ level \in 0 .. Top =>
             /\ driver'[b].table[level].enabled = driver[b].table[level].enabled
             /\ \/ driver'[b].table[level] = driver[b].table[level]
                \/ driver'[b].table[level].vddc = vddc
    BY SetClockFacts DEF Writes, AdlInv
  <1>2. /\ first' = first /\ cached' = cached /\ misread' = misread /\ profile' = profile
    BY DEF Writes, config
  <1>3. step'[b] = step[b] + 1 /\ step[b] \in Nat
    BY WritesTypes, AdlAssumption DEF AdlInv, AdlTypes
  <1>4. NearInv(b)
    BY DEF AdlInv
  <1>5. \A l \in 0 .. Top : driver'[b].table[l].enabled = first[b][l].enabled
    BY <1>1, <1>4 DEF NearInv
  <1>6. (b \notin misread /\ Len(profile) < Levels) =>
          first[b][Top].vddc - 1 <= driver'[b].table[Top].vddc
            /\ driver'[b].table[Top].vddc <= first[b][Top].vddc + 1
    <2>1. CASE level = Top
      BY <1>1, <1>4, <2>1, TopFacts DEF NearInv
    <2>2. CASE level # Top
      BY <1>1, <1>4, <2>2, TopFacts DEF NearInv
    <2> QED
      BY <2>1, <2>2
  <1>7. (b \notin misread /\ step[b] < Len(profile) + 5) => cached[b] = first[b]
    BY <1>4 DEF NearInv
  <1>8. step'[b] # 0
    BY <1>3
  <1> QED
    BY <1>2, <1>5, <1>6, <1>7, <1>8 DEF NearInv

\* The rows of an adapter and of its beginnings are rows.
LEMMA RowFacts ==
  ASSUME AdlTypes, NEW b \in Known, NEW l \in 0 .. Top
  PROVE  driver[b].table[l] \in Row /\ first[b][l] \in Row /\ cached[b][l] \in Row
  <1>1. b \in Busses /\ driver[b] \in Adapter /\ first[b] \in Table /\ cached[b] \in Table
    BY AdlAssumption DEF AdlTypes
  <1>2. driver[b].table \in Table
    BY <1>1 DEF Adapter
  <1> QED
    BY <1>1, <1>2 DEF Table

\* The move of the highest voltage.
LEMMA ToggleStep ==
  ASSUME AdlInv, NEW b \in Known, Toggle(b)
  PROVE  AdlInv'
  <1> DEFINE clock == cached[b][Top].clock
             vddc == Moved(cached[b][Top].vddc)
  <1>0. AdlTypes /\ NearInv(b) /\ Top \in Nat /\ Top # Levels /\ Len(profile) \in Nat
    BY TopFacts DEF AdlInv, AdlTypes
  <1>1. /\ step[b] = 1 /\ Writes(b, Top, clock, vddc) /\ clock \in Nat /\ vddc \in Nat
        /\ cached[b][Top].vddc - 1 <= vddc /\ vddc <= cached[b][Top].vddc + 1
    BY <1>0, WritesFacts
  <1>2. step[b] < Len(profile) + 5
    BY <1>0, <1>1
  <1>3. b \notin misread => cached[b] = first[b]
    BY <1>0, <1>2 DEF NearInv
  <1> HIDE DEF vddc, clock
  <1>4. AdlTypes' /\ step'[b] = step[b] + 1
    BY <1>0, <1>1, <1>2, WritesTypes
  <1>5. NearInv(b)'
    BY <1>0, <1>1, <1>2, <1>3, WritesNear
  <1>6. ASSUME b \notin failed', NEW l \in 0 .. Top
        PROVE  LevelInv(b, l)'
    <2>1. /\ l # Top => driver'[b].table[l] = driver[b].table[l]
          /\ driver'[b].table[Top].enabled = driver[b].table[Top].enabled
          /\ ~driver[b].table[Top].enabled => driver'[b].table[Top] = driver[b].table[Top]
          /\ driver[b].table[Top].enabled => /\ driver'[b].table[Top].clock = clock
                                             /\ driver'[b].table[Top].vddc = vddc
          /\ failed \subseteq failed'
      BY <1>0, <1>1, <1>6, SetClockFacts, TopFacts DEF Writes
    <2>2. b \in Known \ failed /\ b \notin misread
      BY <1>0, <1>6, <2>1 DEF AdlTypes
    <2>3. driver[b].table[l] = first[b][l]
      BY <1>1, <2>2 DEF AdlInv, LevelInv
    <2>4. clock = first[b][Top].clock
      BY <1>3, <2>2 DEF clock
    <2>5. first' = first /\ profile' = profile /\ step'[b] = 2
      BY <1>1, <1>4 DEF Writes, config
    <2> QED
      BY <2>1, <2>3, <2>4, <2>5, TopFacts DEF LevelInv
  <1>7. \A c \in Known \ {b} : /\ NearInv(c)'
                               /\ c \in Known \ failed' => \A l \in 0 .. Top : LevelInv(c, l)'
    BY <1>0, <1>1, <1>2, WritesElsewhere
  <1>8. OutsideOnlyWithLongProfile'
    <2>1. fault' = (fault \/ Top = Levels) /\ profile' = profile
      BY <1>0, <1>1, SetClockFacts DEF Writes, config
    <2> QED
      BY <1>0, <2>1 DEF AdlInv, OutsideOnlyWithLongProfile
  <1> QED
    BY <1>4, <1>5, <1>6, <1>7, <1>8 DEF AdlInv

\* The voltage is moved back: an enabled highest level is what it was.
LEMMA RestoreStep ==
  ASSUME AdlInv, NEW b \in Known, Restore(b)
  PROVE  AdlInv'
  <1> DEFINE clock == cached[b][Top].clock
             vddc == cached[b][Top].vddc
  <1>0. AdlTypes /\ NearInv(b) /\ Top \in Nat /\ Top # Levels /\ Len(profile) \in Nat
    BY TopFacts DEF AdlInv, AdlTypes
  <1>1. step[b] = 2 /\ Writes(b, Top, clock, vddc) /\ clock \in Nat /\ vddc \in Nat
    BY <1>0, WritesFacts
  <1>2. step[b] < Len(profile) + 5
    BY <1>0, <1>1
  <1>3. b \notin misread => clock = first[b][Top].clock /\ vddc = first[b][Top].vddc
    BY <1>0, <1>2 DEF NearInv
  <1> HIDE DEF vddc, clock
  <1>4. AdlTypes' /\ step'[b] = step[b] + 1
    BY <1>0, <1>1, <1>2, WritesTypes
  <1>5. NearInv(b)'
    BY <1>0, <1>1, <1>2, <1>3, WritesNear
  <1>6. ASSUME b \notin failed', NEW l \in 0 .. Top
        PROVE  LevelInv(b, l)'
    <2>1. /\ l # Top => driver'[b].table[l] = driver[b].table[l]
          /\ driver'[b].table[Top].enabled = driver[b].table[Top].enabled
          /\ ~driver[b].table[Top].enabled => driver'[b].table[Top] = driver[b].table[Top]
          /\ driver[b].table[Top].enabled => /\ driver'[b].table[Top].clock = clock
                                             /\ driver'[b].table[Top].vddc = vddc
          /\ failed \subseteq failed'
      BY <1>0, <1>1, <1>6, SetClockFacts, TopFacts DEF Writes
    <2>2. b \in Known \ failed /\ b \notin misread
      BY <1>0, <1>6, <2>1 DEF AdlTypes
    <2>3. /\ driver[b].table[l].enabled = first[b][l].enabled
          /\ driver[b].table[l] = first[b][l] \/ (l = Top /\ first[b][l].enabled)
      BY <1>1, <2>2 DEF AdlInv, LevelInv
    <2>4. /\ first' = first /\ profile' = profile /\ step'[b] = 3
      BY <1>1, <1>4 DEF Writes, config
    <2>5. driver'[b].table[l] \in Row /\ first[b][l] \in Row
      <3>1. b \in Busses /\ driver' \in [Busses -> Adapter] /\ first \in [Busses -> Table]
        BY <1>0, <1>4, AdlAssumption DEF AdlTypes
      <3>2. driver'[b] \in Adapter /\ first[b] \in Table
        BY <3>1
      <3>3. driver'[b].table \in Table
        BY <3>2 DEF Adapter
      <3> QED
        BY <3>2, <3>3 DEF Table
    <2>6. driver'[b].table[l] = first[b][l]
      <3>1. CASE l # Top
        BY <2>1, <2>3, <3>1
      <3>2. CASE l = Top /\ ~driver[b].table[l].enabled
        BY <2>1, <2>3, <3>2
      <3>3. CASE l = Top /\ driver[b].table[l].enabled
        BY <1>3, <2>1, <2>2, <2>3, <2>5, <3>3, SameRow
      <3> QED
        BY <3>1, <3>2, <3>3
    <2>7. ~(l + 4 <= step'[b])
      BY <2>4
    <2> QED
      BY <2>4, <2>6, <2>7 DEF LevelInv
  <1>7. \A c \in Known \ {b} : /\ NearInv(c)'
                               /\ c \in Known \ failed' => \A l \in 0 .. Top : LevelInv(c, l)'
    BY <1>0, <1>1, <1>2, WritesElsewhere
  <1>8. OutsideOnlyWithLongProfile'
    <2>1. fault' = (fault \/ Top = Levels) /\ profile' = profile
      BY <1>0, <1>1, SetClockFacts DEF Writes, config
    <2> QED
      BY <1>0, <2>1 DEF AdlInv, OutsideOnlyWithLongProfile
  <1> QED
    BY <1>4, <1>5, <1>6, <1>7, <1>8 DEF AdlInv

\* A level of the profile.
LEMMA ApplyLevelStep ==
  ASSUME AdlInv, NEW b \in Known, NEW k \in DOMAIN profile, ApplyLevel(b, k)
  PROVE  AdlInv'
  <1> DEFINE level == k - 1
             clock == profile[k].clock
             vddc == profile[k].vddc
  <1>0. AdlTypes /\ NearInv(b) /\ Top \in Nat /\ Levels = Top + 1 /\ Len(profile) \in Nat
    BY TopFacts DEF AdlInv, AdlTypes
  <1>1. /\ step[b] = k + 2 /\ Writes(b, level, clock, vddc) /\ clock \in Nat /\ vddc \in Nat
        /\ level \in Nat /\ k \in 1 .. Len(profile)
    BY <1>0, WritesFacts
  <1>2. step[b] < Len(profile) + 5
    BY <1>0, <1>1
  <1>3. ~(level = Top /\ Len(profile) < Levels) /\ (level = Levels => Len(profile) > Levels)
    BY <1>0, <1>1
  <1>k. k = level + 1 /\ k \in Nat
    BY <1>1
  <1> HIDE DEF vddc, clock, level
  <1>4. AdlTypes' /\ step'[b] = step[b] + 1
    BY <1>0, <1>1, <1>2, WritesTypes
  <1>5. NearInv(b)'
    BY <1>0, <1>1, <1>2, <1>3, WritesNear
  <1>6. ASSUME b \notin failed', NEW l \in 0 .. Top
        PROVE  LevelInv(b, l)'
    <2>0. /\ \A m \in 0 .. Top \ {level} : driver'[b].table[m] = driver[b].table[m]
          /\ level \in 0 .. Top =>
               /\ ~driver[b].table[level].enabled =>
                    driver'[b].table[level] = driver[b].table[level]
               /\ (driver[b].table[level].enabled /\ b \notin failed') =>
                    driver'[b].table[level].clock = clock /\ driver'[b].table[level].vddc = vddc
          /\ failed \subseteq failed'
      <3>1. setClock(b, level, clock, vddc) /\ AdlTypes
        BY <1>0, <1>1 DEF Writes
      <3> QED
        BY <1>1, <3>1, SetClockFacts
    <2>1. /\ l # level => driver'[b].table[l] = driver[b].table[l]
          /\ l = level =>
              /\ ~driver[b].table[l].enabled => driver'[b].table[l] = driver[b].table[l]
              /\ driver[b].table[l].enabled => /\ driver'[b].table[l].clock = clock
                                               /\ driver'[b].table[l].vddc = vddc
          /\ failed \subseteq failed'
      BY <1>6, <2>0
    <2>2. b \in Known \ failed
      BY <1>6, <2>1
    <2>3. /\ driver[b].table[l].enabled = first[b][l].enabled
          /\ IF first[b][l].enabled /\ l + 1 <= Len(profile) /\ l + 4 <= step[b]
             THEN driver[b].table[l].clock = profile[l + 1].clock
                    /\ driver[b].table[l].vddc = profile[l + 1].vddc
             ELSE driver[b].table[l] = first[b][l]
      <3>1. step[b] >= 3
        BY <1>1
      <3> QED
        BY <1>0, <2>2, <3>1 DEF AdlInv, LevelInv, NearInv
    <2>4. first' = first /\ profile' = profile /\ step'[b] = k + 3
      BY <1>1, <1>4 DEF Writes, config
    <2>5. IF first[b][l].enabled /\ l + 1 <= Len(profile) /\ l + 4 <= k + 3
          THEN driver'[b].table[l].clock = profile[l + 1].clock
                 /\ driver'[b].table[l].vddc = profile[l + 1].vddc
          ELSE driver'[b].table[l] = first[b][l]
      <3>1. CASE l # level
        <4>1. l + 4 <= k + 3 <=> l + 4 <= step[b]
          BY <1>1, <1>k, <3>1
        <4> QED
          BY <2>1, <2>3, <3>1, <4>1
      <3>2. CASE l = level
        <4>1. l + 1 <= Len(profile) /\ l + 4 <= k + 3 /\ ~(l + 4 <= step[b]) /\ profile[l + 1] = profile[k]
          BY <1>0, <1>1, <1>k, <3>2
        <4> QED
          BY <2>1, <2>3, <3>2, <4>1 DEF clock, vddc
      <3> QED
        BY <3>1, <3>2
    <2>6. ~(step'[b] <= 1) /\ step'[b] # 2
      BY <1>k, <2>4
    <2> QED
      BY <2>4, <2>5, <2>6 DEF LevelInv
  <1>7. \A c \in Known \ {b} : /\ NearInv(c)'
                               /\ c \in Known \ failed' => \A l \in 0 .. Top : LevelInv(c, l)'
    BY <1>0, <1>1, <1>2, WritesElsewhere
  <1>8. OutsideOnlyWithLongProfile'
    <2>1. fault' = (fault \/ level = Levels) /\ profile' = profile
      BY <1>0, <1>1, SetClockFacts DEF Writes, config
    <2> QED
      BY <1>3, <2>1 DEF AdlInv, OutsideOnlyWithLongProfile
  <1> QED
    BY <1>4, <1>5, <1>6, <1>7, <1>8 DEF AdlInv

\* The tables are read.
LEMMA ReadTablesStep ==
  ASSUME AdlInv, NEW b \in Known, ReadTables(b)
  PROVE  AdlInv'
  <1>0. /\ AdlTypes /\ NearInv(b) /\ Len(profile) \in Nat /\ b \in Busses /\ Known \subseteq Busses
        /\ step[b] = 0 /\ step' = [step EXCEPT ![b] = 1] /\ driver' = driver /\ fault' = fault
        /\ profile' = profile /\ settings' = settings /\ first' = first
    BY AdlAssumption DEF AdlInv, AdlTypes, ReadTables, Turn, config
  <1>1. /\ step' \in [Busses -> 0 .. Len(profile) + 5] /\ step'[b] = 1
        /\ \A c \in Known \ {b} : step'[c] = step[c]
    BY <1>0 DEF AdlTypes
  <1>2. Zeros \in Table /\ driver[b].table \in Table /\ driver[b].table = first[b]
    BY <1>0 DEF Zeros, Table, Row, AdlTypes, Adapter, NearInv
  <1>3. \/ /\ cached' = [cached EXCEPT ![b] = driver[b].table]
           /\ failed' = failed /\ misread' = misread
        \/ /\ cached' = [cached EXCEPT ![b] = Zeros]
           /\ failed' = failed \cup {b} /\ misread' = misread \cup {b}
    BY DEF ReadTables
  <1> HIDE DEF Zeros
  <1>4. /\ cached' \in [Busses -> Table] /\ \A c \in Known \ {b} : cached'[c] = cached[c]
        /\ b \notin misread' => cached'[b] = first[b]
    BY <1>0, <1>2, <1>3 DEF AdlTypes
  <1>5. /\ failed' \in SUBSET Known /\ misread' \in SUBSET failed' /\ failed \subseteq failed'
        /\ misread \subseteq misread' /\ \A c \in Known \ {b} : c \in misread' <=> c \in misread
    BY <1>0, <1>3 DEF AdlTypes
  <1>6. AdlTypes'
    BY <1>0, <1>1, <1>4, <1>5 DEF AdlTypes
  <1>7. ASSUME NEW c \in Known \ {b}
        PROVE  /\ NearInv(c)'
               /\ c \in Known \ failed' => \A l \in 0 .. Top : LevelInv(c, l)'
    <2>1. NearInv(c) /\ (c \in Known \ failed => \A l \in 0 .. Top : LevelInv(c, l))
      BY DEF AdlInv
    <2> QED
      BY <1>0, <1>1, <1>4, <1>5, <2>1, OtherAdapter
  <1>8. NearInv(b)'
    BY <1>0, <1>1, <1>4, <1>5 DEF NearInv
  <1>9. b \in Known \ failed' => \A l \in 0 .. Top : LevelInv(b, l)'
    BY <1>0, <1>1, <1>2 DEF LevelInv
  <1>10. OutsideOnlyWithLongProfile'
    BY <1>0 DEF AdlInv, OutsideOnlyWithLongProfile
  <1> QED
    BY <1>6, <1>7, <1>8, <1>9, <1>10 DEF AdlInv

\* The fan and the power limit: the tables are left alone.
LEMMA ApplyFacts ==
  ASSUME AdlInv, NEW b \in Known, NEW key \in {"temperature", "power"}, Apply(b, key)
  PROVE  /\ driver' \in [Busses -> Adapter]
         /\ \A c \in Busses : driver'[c].table = driver[c].table
  <1>0. /\ driver \in [Busses -> Adapter] /\ b \in Busses
        /\ settings \in [temperature : Nat, power : Int]
    BY AdlAssumption DEF AdlInv, AdlTypes
  <1>1. driver' = driver \/ driver' = [driver EXCEPT ![b][key] = settings[key]]
    BY DEF Apply
  <1> DEFINE adapter == [driver[b] EXCEPT ![key] = settings[key]]
  <1>2. adapter \in Adapter /\ adapter.table = driver[b].table
    <2>1. driver[b] \in Adapter
      BY <1>0
    <2>2. CASE key = "temperature"
      BY <1>0, <2>1, <2>2 DEF Adapter
    <2>3. CASE key = "power"
      BY <1>0, <2>1, <2>3 DEF Adapter
    <2> QED
      BY <2>2, <2>3
  <1>3. driver' = driver \/ driver' = [driver EXCEPT ![b] = adapter]
    BY <1>0, <1>1
  <1> HIDE DEF adapter
  <1> QED
    BY <1>0, <1>2, <1>3

\* setFanControl() and setPowerLimit().
LEMMA ApplyStep ==
  ASSUME AdlInv, NEW b \in Known, NEW key \in {"temperature", "power"}, Apply(b, key)
  PROVE  AdlInv'
  <1>0. /\ AdlTypes /\ NearInv(b) /\ Len(profile) \in Nat /\ b \in Busses /\ Known \subseteq Busses
    BY AdlAssumption DEF AdlInv, AdlTypes
  <1>1. /\ step[b] \in {Len(profile) + 3, Len(profile) + 4}
        /\ step' = [step EXCEPT ![b] = step[b] + 1] /\ fault' = fault /\ misread' = misread
        /\ profile' = profile /\ settings' = settings /\ first' = first /\ cached' = cached
    BY DEF Apply, Turn, config
  <1>2. failed \subseteq failed' /\ failed' \subseteq failed \cup {b}
    BY DEF Apply
  <1>3. driver' \in [Busses -> Adapter] /\ \A c \in Known : driver'[c].table = driver[c].table
    BY <1>0, ApplyFacts
  <1>4. /\ step' \in [Busses -> 0 .. Len(profile) + 5] /\ step'[b] = step[b] + 1
        /\ \A c \in Known \ {b} : step'[c] = step[c]
    BY <1>0, <1>1 DEF AdlTypes
  <1>5. AdlTypes'
    BY <1>0, <1>1, <1>2, <1>3, <1>4 DEF AdlTypes
  <1>6. ASSUME NEW c \in Known \ {b}
        PROVE  /\ NearInv(c)'
               /\ c \in Known \ failed' => \A l \in 0 .. Top : LevelInv(c, l)'
    <2>1. NearInv(c) /\ (c \in Known \ failed => \A l \in 0 .. Top : LevelInv(c, l))
      BY DEF AdlInv
    <2> QED
      BY <1>1, <1>2, <1>3, <1>4, <2>1, OtherAdapter
  <1>7. NearInv(b)'
    <2>1. step'[b] # 0 /\ step[b] < Len(profile) + 5
      BY <1>0, <1>1, <1>4
    <2> QED
      BY <1>0, <1>1, <1>3, <2>1 DEF NearInv
  <1>8. ASSUME b \in Known \ failed', NEW l \in 0 .. Top
        PROVE  LevelInv(b, l)'
    <2>1. LevelInv(b, l)
      BY <1>2, <1>8 DEF AdlInv
    <2>2. /\ step[b] >= 3 /\ ~(step'[b] <= 1) /\ step'[b] # 2
          /\ l + 1 <= Len(profile) => l + 4 <= step[b] /\ l + 4 <= step'[b]
      BY <1>0, <1>1, <1>4
    <2> QED
      BY <1>1, <1>3, <2>1, <2>2 DEF LevelInv
  <1>9. OutsideOnlyWithLongProfile'
    BY <1>1 DEF AdlInv, OutsideOnlyWithLongProfile
  <1> QED
    BY <1>5, <1>6, <1>7, <1>8, <1>9 DEF AdlInv

\* tick() only changes what the HTTP API shows.
LEMMA TickStep ==
  ASSUME AdlInv, Tick
  PROVE  AdlInv'
  <1>0. /\ AdlTypes /\ Len(profile) \in Nat /\ Known \subseteq Busses
    BY AdlAssumption DEF AdlInv, AdlTypes
  <1>1. /\ driver' = driver /\ step' = step /\ failed' = failed /\ misread' = misread
        /\ fault' = fault /\ profile' = profile /\ settings' = settings /\ first' = first
        /\ \A b \in Known : step[b] = Len(profile) + 5
    BY DEF Tick, AllSet, config
  <1>2. PICK readable \in SUBSET Known :
          cached' = [b \in Busses |-> IF b \notin Known THEN cached[b]
                                      ELSE IF b \in readable THEN driver[b].table ELSE Zeros]
    BY DEF Tick
  <1>3. Zeros \in Table /\ \A b \in Busses : driver[b].table \in Table /\ cached[b] \in Table
    BY <1>0 DEF Zeros, Table, Row, AdlTypes, Adapter
  <1> HIDE DEF Zeros
  <1>4. cached' \in [Busses -> Table]
    BY <1>2, <1>3
  <1>5. AdlTypes'
    BY <1>0, <1>1, <1>4 DEF AdlTypes
  <1>6. \A b \in Known : NearInv(b)'
    BY <1>0, <1>1 DEF AdlInv, NearInv
  <1>7. \A b \in Known \ failed' : \A l \in 0 .. Top : LevelInv(b, l)'
    BY <1>1 DEF AdlInv, LevelInv
  <1>8. OutsideOnlyWithLongProfile'
    BY <1>1 DEF AdlInv, OutsideOnlyWithLongProfile
  <1> QED
    BY <1>5, <1>6, <1>7, <1>8 DEF AdlInv

\* The invariant holds before the constructor begins.
LEMMA AdlBegins == AdlInit => AdlInv
  <1> SUFFICES ASSUME AdlInit PROVE AdlInv
    OBVIOUS
  <1>0. Tables \subseteq Table /\ Known \subseteq Busses
    BY AdlAssumption DEF Table, Row, Top
  <1>1. /\ profile \in Seq([clock : Nat, vddc : Nat])
        /\ settings \in [temperature : Nat, power : Int]
    BY AdlAssumption DEF AdlInit
  <1>2. Len(profile) \in Nat
    BY <1>1
  <1>3. driver \in [Busses -> Adapter]
    BY <1>0 DEF AdlInit, Adapter
  <1>4. \A b \in Busses : driver[b].table \in Table
    BY <1>3 DEF Adapter
  <1>5. /\ first \in [Busses -> Table] /\ cached = first
        /\ \A b \in Busses : driver[b].table = first[b] /\ step[b] = 0
    BY <1>4 DEF AdlInit
  <1>6. step \in [Busses -> 0 .. Len(profile) + 5]
    BY <1>2 DEF AdlInit
  <1>7. AdlTypes
    BY <1>1, <1>3, <1>5, <1>6 DEF AdlTypes, AdlInit
  <1>8. ASSUME NEW b \in Known PROVE NearInv(b)
    <2>1. first[b] \in Table /\ first[b][Top] \in Row
      BY <1>0, <1>5, TopFacts DEF Table
    <2>2. first[b][Top].vddc \in Nat
      BY <2>1 DEF Row
    <2> QED
      BY <1>0, <1>5, <2>2 DEF NearInv
  <1>9. ASSUME NEW b \in Known, NEW l \in 0 .. Top PROVE LevelInv(b, l)
    BY <1>0, <1>5 DEF LevelInv
  <1>10. OutsideOnlyWithLongProfile
    BY DEF AdlInit, OutsideOnlyWithLongProfile
  <1> QED
    BY <1>7, <1>8, <1>9, <1>10 DEF AdlInv

\* What the invariant says of a set-up that is over, and on the way.
LEMMA AdlInvImplies == AdlInv => AdlInvariant
  <1> SUFFICES ASSUME AdlInv PROVE AdlInvariant
    OBVIOUS
  <1>0. AdlTypes /\ Len(profile) \in Nat /\ Known \subseteq Busses /\ OutsideOnlyWithLongProfile
    BY AdlAssumption DEF AdlInv, AdlTypes
  <1>1. AdlTypeOK
    BY <1>0 DEF AdlTypes, AdlTypeOK, Adapter, Table, Row
  <1>2. VoltageStaysNear
    BY DEF AdlInv, NearInv, VoltageStaysNear
  <1>3. ProfileIsApplied
    <2> SUFFICES ASSUME AllSet, NEW b \in Known \ failed, NEW l \in 0 .. Top
                 PROVE  IF first[b][l].enabled /\ l + 1 \in DOMAIN profile
                        THEN /\ driver[b].table[l].clock = profile[l + 1].clock
                             /\ driver[b].table[l].vddc = profile[l + 1].vddc
                        ELSE driver[b].table[l] = first[b][l]
      BY DEF ProfileIsApplied
    <2>1. LevelInv(b, l) /\ step[b] = Len(profile) + 5
      BY DEF AdlInv, AllSet
    <2>2. DOMAIN profile = 1 .. Len(profile)
      BY <1>0 DEF AdlTypes
    <2>3. /\ l + 1 \in DOMAIN profile <=> (l + 1 <= Len(profile) /\ l + 4 <= step[b])
          /\ step[b] >= 3
      BY <1>0, <2>1, <2>2
    <2> QED
      BY <2>1, <2>3 DEF LevelInv
  <1> QED
    BY <1>0, <1>1, <1>2, <1>3 DEF AdlInvariant

\* The invariant is kept by every step of the constructor and by tick().
THEOREM AdlInductive == AdlSpec => []AdlInv
  <1>1. AdlInit => AdlInv
    BY AdlBegins
  <1>2. AdlInv /\ [AdlNext]_adlVars => AdlInv'
    <2> SUFFICES ASSUME AdlInv, [AdlNext]_adlVars PROVE AdlInv'
      OBVIOUS
    <2>1. ASSUME NEW b \in Busses, ReadTables(b) PROVE AdlInv'
      <3>1. b \in Known
        BY <2>1 DEF ReadTables, Turn
      <3> QED
        BY <2>1, <3>1, ReadTablesStep
    <2>2. ASSUME NEW b \in Busses, Toggle(b) PROVE AdlInv'
      <3>1. b \in Known
        BY <2>2 DEF Toggle, Turn
      <3> QED
        BY <2>2, <3>1, ToggleStep
    <2>3. ASSUME NEW b \in Busses, Restore(b) PROVE AdlInv'
      <3>1. b \in Known
        BY <2>3 DEF Restore, Turn
      <3> QED
        BY <2>3, <3>1, RestoreStep
    <2>4. ASSUME NEW b \in Busses, NEW k \in DOMAIN profile, ApplyLevel(b, k) PROVE AdlInv'
      <3>1. b \in Known
        BY <2>4 DEF ApplyLevel, Turn
      <3> QED
        BY <2>4, <3>1, ApplyLevelStep
    <2>5. ASSUME NEW b \in Busses, NEW key \in {"temperature", "power"}, Apply(b, key)
          PROVE  AdlInv'
      <3>1. b \in Known
        BY <2>5 DEF Apply, Turn
      <3> QED
        BY <2>5, <3>1, ApplyStep
    <2>6. CASE Tick
      BY <2>6, TickStep
    <2>7. CASE UNCHANGED adlVars
      <3>1. AdlTypes' /\ OutsideOnlyWithLongProfile'
        BY <2>7 DEF adlVars, AdlInv, AdlTypes, OutsideOnlyWithLongProfile
      <3>2. \A b \in Known : NearInv(b)'
        BY <2>7 DEF adlVars, AdlInv, NearInv
      <3>3. \A b \in Known \ failed' : \A l \in 0 .. Top : LevelInv(b, l)'
        BY <2>7 DEF adlVars, AdlInv, LevelInv
      <3> QED
        BY <3>1, <3>2, <3>3 DEF AdlInv
    <2> QED
      BY <2>1, <2>2, <2>3, <2>4, <2>5, <2>6, <2>7 DEF AdlNext
  <1> QED
    BY <1>1, <1>2, PTL DEF AdlSpec

\* The profile if no call fails, a voltage near its own otherwise, and no access behind
\* the table of a fitting profile (Adl.cpp, constructor, setSystemClock, setMemoryClock).
THEOREM AdlInvariantHolds == AdlSpec => []AdlInvariant
  BY AdlInductive, AdlInvImplies, PTL
=============================================================================
