----------------------------- MODULE Submission -----------------------------
(***************************************************************************)
(* What becomes of a verified share: it is sent to a pool under a number,  *)
(* remembered in m_results until the pool answers, and counted             *)
(* (src/net/Client.cpp, FailoverStrategy.cpp, Network.cpp, NetworkState).  *)
(*                                                                         *)
(* The connections are those of FailoverStrategy with less detail: any     *)
(* client without a connection may get one at any time.  The servers may   *)
(* send any line at any time, with any number in it.  The GPU threads are  *)
(* those of Workers with less detail: they find shares of the published    *)
(* job, and of the jobs before it until they have caught up.               *)
(***************************************************************************)
EXTENDS NetworkState, Integers, FiniteSets

CONSTANTS
  Count,        \* number of pools
  Diffs,        \* what results are worth, actualDiff >= diff
  LongLogins,   \* pools whose login may be too long for the send buffer
  MaxSequence,  \* bound: numbers given to messages
  MaxShares     \* bound: shares found

Pools == 0 .. Count - 1

ASSUME SubmissionAssumption ==
  /\ Count \in Nat \ {0} /\ MaxSequence \in Nat /\ MaxShares \in Nat
  /\ Diffs \subseteq Nat

VARIABLES
  state,       \* of the connection; "down" is everything without a socket
  m_results,   \* of each client: submitted shares by number
  m_sequence,  \* static, so all clients draw their numbers from it
  expire,      \* m_expire is armed for an answer
  purpose,     \* m_failures = -1: disconnect() was called
  m_active,    \* FailoverStrategy
  stats,       \* Network::m_state
  reading,     \* the client whose onRead() is running, -1 if none
  published,   \* the pool whose job Workers has, -1 while it is paused
  mined,       \* the pools whose jobs some GPU thread may still work on
  pending,     \* verified shares that wait for Network::onJobResult()
  \* History.
  found,       \* shares found so far
  written,     \* of each client: what has been sent on this connection
  heard,       \* of each client: a line has come since the last message
  outcomes,    \* every call of NetworkState::add()
  switches,    \* how often m_active has changed
  mixed,       \* the first pool took over from a backup that was in use
  misrouted,   \* shares sent to another pool than the one they solve
  fault        \* m_pools[-1] has been used

connVars    == <<state, m_results, m_sequence, expire, purpose, written, heard>>
poolVars    == <<m_active, stats, switches, mixed>>
minerVars   == <<published, mined, pending, found>>
historyVars == <<outcomes, misrouted, fault>>
vars == <<connVars, poolVars, minerVars, historyVars, reading>>

\* A share with what JobResult carries; late: found by a thread behind time.
Share ==
  [n : Nat, pool : Pools, diff : Diffs, actualDiff : Diffs, when : Nat, late : BOOLEAN]

Result  == [seq : Nat, share : Share]
Message == [seq : Nat, kind : {"login", "ping"}] \cup [seq : Nat, kind : {"share"}, share : Share]

TypeOK ==
  /\ state \in [Pools -> {"down", "connected", "closing"}]
  /\ \A i \in Pools : m_results[i] \subseteq Result /\ written[i] \subseteq Message
  /\ m_sequence \in 1 .. MaxSequence + 1
  /\ expire \in [Pools -> BOOLEAN] /\ purpose \in [Pools -> BOOLEAN]
  /\ heard \in [Pools -> BOOLEAN]
  /\ m_active \in Pools \cup {-1} /\ reading \in Pools \cup {-1}
  /\ published \in Pools \cup {-1} /\ mined \subseteq Pools
  /\ pending \subseteq Share /\ misrouted \subseteq Share
  /\ found \in 0 .. MaxShares /\ switches \in Nat
  /\ mixed \in BOOLEAN /\ fault \in BOOLEAN

\* int64_t Client::m_sequence
FirstSequence == 1

Init ==
  /\ state = [i \in Pools |-> "down"]
  /\ m_results = [i \in Pools |-> {}] /\ written = [i \in Pools |-> {}]
  /\ m_sequence = FirstSequence
  /\ expire = [i \in Pools |-> FALSE] /\ purpose = [i \in Pools |-> FALSE]
  /\ heard = [i \in Pools |-> FALSE]
  /\ m_active = -1 /\ stats = NewState /\ reading = -1
  /\ published = -1 /\ mined = {} /\ pending = {} /\ found = 0
  /\ outcomes = <<>> /\ switches = 0 /\ mixed = FALSE /\ misrouted = {} /\ fault = FALSE

Free == reading = -1 /\ ~fault

-----------------------------------------------------------------------------
(* Messages to a pool.                                                     *)

\* close(), with what the event loop does on its own: nothing more is read.
closed(i) == state' = [state EXCEPT ![i] = IF @ = "connected" THEN "closing" ELSE @]

\* Mutant: the deadline forgotten.
sendMutant(i, now, message, ok) ==
  IF now # "connected" THEN UNCHANGED <<state, m_sequence, expire, heard, written>>
  ELSE IF ok
  THEN /\ state' = [state EXCEPT ![i] = now]
       /\ m_sequence' = m_sequence + 1
       /\ written' = [written EXCEPT ![i] =
                        (IF message.kind = "login" THEN {} ELSE @) \cup {message}]
       /\ heard' = [heard EXCEPT ![i] = FALSE]
       /\ UNCHANGED expire
  ELSE /\ state' = [state EXCEPT ![i] = "closing"]
       /\ UNCHANGED <<m_sequence, expire, heard, written>>

\* send(): now is the state of the connection, ok what uv_try_write() says (a
\* partial write counts as success).  The number is used up only on success.
send(i, now, message, ok) ==
  IF now # "connected" THEN UNCHANGED <<state, m_sequence, expire, heard, written>>
  ELSE IF ok
  THEN /\ state' = [state EXCEPT ![i] = now]
       /\ m_sequence' = m_sequence + 1
       /\ written' = [written EXCEPT ![i] =
                        (IF message.kind = "login" THEN {} ELSE @) \cup {message}]
       /\ expire' = [expire EXCEPT ![i] = TRUE]
       /\ heard' = [heard EXCEPT ![i] = FALSE]
  ELSE /\ state' = [state EXCEPT ![i] = "closing"]
       /\ UNCHANGED <<m_sequence, expire, heard, written>>

\* Mutant: login() without m_results.clear().
ConnectMutant(i) ==
  /\ Free /\ state[i] = "down" /\ m_sequence <= MaxSequence
  /\ purpose' = [purpose EXCEPT ![i] = FALSE]
  /\ \E ok \in BOOLEAN : send(i, "connected", [seq |-> 1, kind |-> "login"], ok)
  /\ UNCHANGED <<m_results, poolVars, minerVars, historyVars, reading>>

\* login(): a message that names itself 1, but uses up a number like any other.  One
\* that does not fit into the buffer is not sent: no number is used up, no deadline
\* armed.
login(i, fits, ok) ==
  IF fits THEN send(i, "connected", [seq |-> 1, kind |-> "login"], ok)
  ELSE /\ state' = [state EXCEPT ![i] = "connected"]
       /\ written' = [written EXCEPT ![i] = {}]
       /\ UNCHANGED <<m_sequence, expire, heard>>

\* onConnect(), login(): the results of the last connection are forgotten.
Connect(i) ==
  /\ Free /\ state[i] = "down" /\ m_sequence <= MaxSequence
  /\ m_results' = [m_results EXCEPT ![i] = {}]
  /\ purpose' = [purpose EXCEPT ![i] = FALSE]
  /\ \E fits, ok \in BOOLEAN : (i \in LongLogins \/ fits) /\ login(i, fits, ok)
  /\ UNCHANGED <<poolVars, minerVars, historyVars, reading>>

\* The keep-alive timer, ping().
Ping(i) ==
  /\ Free /\ state[i] = "connected" /\ m_sequence <= MaxSequence
  /\ \E ok \in BOOLEAN : send(i, state[i], [seq |-> m_sequence, kind |-> "ping"], ok)
  /\ UNCHANGED <<m_results, purpose, poolVars, minerVars, historyVars, reading>>

\* m_results[m_sequence] = SubmitResult(...)
Remember(i, share) ==
  m_results' = [m_results EXCEPT ![i] =
                  {r \in @ : r.seq # m_sequence} \cup {[seq |-> m_sequence, share |-> share]}]

\* Network::onJobResult(), FailoverStrategy::submit(), Client::submit(): the
\* share goes to the pool that is active now, and is remembered before send()
\* finds out whether there is a connection.
Submit(share) ==
  /\ Free /\ m_sequence <= MaxSequence
  /\ pending' = pending \ {share}
  /\ IF m_active = -1
     THEN fault' = TRUE /\ UNCHANGED <<m_results, state, m_sequence, expire, heard, written, misrouted>>
     ELSE /\ Remember(m_active, share)
          /\ \E ok \in BOOLEAN :
               send(m_active, state[m_active],
                    [seq |-> m_sequence, kind |-> "share", share |-> share], ok)
          /\ misrouted' = IF share.pool = m_active THEN misrouted ELSE misrouted \cup {share}
          /\ UNCHANGED fault
  /\ UNCHANGED <<purpose, poolVars, published, mined, found, outcomes, reading>>

-----------------------------------------------------------------------------
(* Lines from a pool.                                                      *)

\* onRead() hands client i a line; lines of the same read come even after one
\* of them has closed the connection.  parse() disarms the deadline first.
Line(i, disarmed) ==
  /\ reading = i \/ (Free /\ state[i] = "connected")
  /\ reading' = i
  /\ expire' = [k \in Pools |-> expire[k] /\ k \notin disarmed]
  /\ heard' = [heard EXCEPT ![i] = TRUE]
  /\ UNCHANGED <<m_sequence, written, pending, found, fault, misrouted>>

Known(i, seq) == {r \in m_results[i] : r.seq = seq}

\* Mutant: the result is not erased.
AnsweredMutant(i, seq, error) ==
  /\ UNCHANGED m_results
  /\ \/ /\ Known(i, seq) = {}
        /\ UNCHANGED <<stats, outcomes>>
     \/ \E r \in Known(i, seq) :
          /\ stats' = add(stats, r.share, error, i)
          /\ outcomes' = Append(outcomes, [share |-> r.share, error |-> error, by |-> i])

\* The part of parseResponse() that looks the number up in m_results, and
\* Network::onResultAccepted().
Answered(i, seq, error) ==
  /\ m_results' = [m_results EXCEPT ![i] = @ \ Known(i, seq)]
  /\ \/ /\ Known(i, seq) = {}
        /\ UNCHANGED <<stats, outcomes>>
     \/ \E r \in Known(i, seq) :
          /\ stats' = add(stats, r.share, error, i)
          /\ outcomes' = Append(outcomes, [share |-> r.share, error |-> error, by |-> i])

\* parseResponse() with an error: a refused login or a critical one closes.
Error(i, seq, critical) ==
  /\ Line(i, {i})
  /\ Answered(i, seq, TRUE)
  /\ IF seq = 1 \/ critical THEN closed(i) ELSE UNCHANGED state
  /\ UNCHANGED <<purpose, m_active, switches, mixed, published, mined>>

\* parseResponse() with a result, whatever it says.
Accepted(i, seq) ==
  /\ Line(i, {i}) /\ seq # 1
  /\ Answered(i, seq, FALSE)
  /\ UNCHANGED <<state, purpose, m_active, switches, mixed, published, mined>>

\* Mutant: the job of every pool is passed on.
OnJobReceivedMutant(i, active) ==
  /\ published' = i
  /\ mined' = mined \cup {i}

\* FailoverStrategy::onJobReceived(): the job of the active pool is published.
OnJobReceived(i, active) ==
  /\ published' = IF active = i THEN i ELSE published
  /\ mined' = IF active = i THEN mined \cup {i} ELSE mined

\* parseJob() with a new job, and with one that closes the connection.
NewJob(i) ==
  /\ Line(i, {i})
  /\ OnJobReceived(i, m_active)
  /\ UNCHANGED <<state, m_results, purpose, poolVars, outcomes>>

BadJob(i) ==
  /\ Line(i, {i})
  /\ closed(i)
  /\ UNCHANGED <<m_results, purpose, poolVars, published, mined, outcomes>>

\* Anything else: undecodable, unsupported, an answer that says nothing.
Other(i) ==
  /\ Line(i, {i})
  /\ UNCHANGED <<state, m_results, purpose, poolVars, published, mined, outcomes>>

Elected(i) == IF i = 0 \/ m_active = -1 THEN i ELSE m_active

\* A login answer: FailoverStrategy::onLoginSuccess() elects, disconnects the
\* other backups, and tells Network::onActive() of a change; then the job.
Login(i) ==
  LET dropped == (Pools \ {0}) \ {Elected(i)}
      change  == Elected(i) # m_active IN
  /\ Line(i, {i} \cup dropped)
  /\ state' = [k \in Pools |-> IF k \in dropped /\ state[k] = "connected" THEN "closing"
                                                                         ELSE state[k]]
  /\ purpose' = [k \in Pools |-> purpose[k] \/ k \in dropped]
  /\ m_active' = Elected(i)
  /\ switches' = IF change THEN switches + 1 ELSE switches
  /\ stats' = IF change THEN setPool(stats) ELSE stats
  /\ mixed' = (mixed \/ (change /\ m_active # -1))
  /\ OnJobReceived(i, Elected(i))
  /\ UNCHANGED <<m_results, outcomes>>

OnReadEnd ==
  /\ reading # -1
  /\ reading' = -1
  /\ UNCHANGED <<connVars, poolVars, minerVars, historyVars>>

-----------------------------------------------------------------------------
(* The end of a connection, and the GPU threads.                           *)

\* onRead() with an error or at the end of the stream.
ReadError(i) ==
  /\ Free /\ state[i] = "connected"
  /\ closed(i)
  /\ UNCHANGED <<m_results, m_sequence, expire, purpose, written, heard, poolVars, minerVars,
                 historyVars, reading>>

\* tick() after the deadline.
Timeout(i) ==
  /\ Free /\ state[i] = "connected" /\ expire[i]
  /\ closed(i)
  /\ UNCHANGED <<m_results, m_sequence, expire, purpose, written, heard, poolVars, minerVars,
                 historyVars, reading>>

\* Mutant: FailoverStrategy::onClose() without onPause().
OnCloseMutant(i) ==
  /\ Free /\ state[i] = "closing"
  /\ state' = [state EXCEPT ![i] = "down"]
  /\ m_active' = IF m_active = i /\ ~purpose[i] THEN -1 ELSE m_active
  /\ UNCHANGED <<stats, published, mixed, switches, m_results, m_sequence, expire, purpose,
                 written, heard, mined, pending, found, historyVars, reading>>

\* onClose(), FailoverStrategy::onClose(), Network::onPause(): without a pool
\* the miner is paused.
OnClose(i) ==
  LET lost == m_active = i /\ ~purpose[i] IN
  /\ Free /\ state[i] = "closing"
  /\ state' = [state EXCEPT ![i] = "down"]
  /\ expire' = [expire EXCEPT ![i] = FALSE]
  /\ m_active' = IF lost THEN -1 ELSE m_active
  /\ switches' = IF lost THEN switches + 1 ELSE switches
  /\ stats' = IF lost THEN stop(stats) ELSE stats
  /\ mixed' = (mixed /\ ~lost)
  /\ published' = IF lost THEN -1 ELSE published
  /\ UNCHANGED <<m_results, m_sequence, purpose, written, heard, mined, pending, found,
                 historyVars, reading>>

\* A GPU thread finds a share, and the thread pool verifies it.
Find(pool, diff, actualDiff) ==
  /\ ~fault /\ found < MaxShares
  /\ actualDiff >= diff
  /\ pool \in mined
  /\ pending' = pending \cup
       {[n |-> found, pool |-> pool, diff |-> diff, actualDiff |-> actualDiff,
         when |-> switches, late |-> pool # published]}
  /\ found' = found + 1
  /\ UNCHANGED <<connVars, poolVars, published, mined, historyVars, reading>>

\* Every GPU thread has taken over what was published last.
CatchUp ==
  /\ ~fault /\ mined # {published} \ {-1}
  /\ mined' = {published} \ {-1}
  /\ UNCHANGED <<connVars, poolVars, published, pending, found, historyVars, reading>>

Halted == (fault \/ m_sequence > MaxSequence) /\ UNCHANGED vars

-----------------------------------------------------------------------------
Received(i) ==
  \/ \E seq \in 1 .. m_sequence :
       \/ \E critical \in BOOLEAN : Error(i, seq, critical)
       \/ Accepted(i, seq)
  \/ Login(i) \/ NewJob(i) \/ BadJob(i) \/ Other(i)

Next ==
  \/ \E i \in Pools :
       Connect(i) \/ Ping(i) \/ Received(i) \/ ReadError(i) \/ Timeout(i) \/ OnClose(i)
  \/ \E share \in pending : Submit(share)
  \/ \E pool \in Pools, diff, actualDiff \in Diffs : Find(pool, diff, actualDiff)
  \/ OnReadEnd \/ CatchUp \/ Halted

\* Time passes and a read ends; nothing obliges a pool to say anything.  tick()
\* runs between the reads, however many of them another pool causes.
Fairness ==
  /\ WF_vars(OnReadEnd)
  /\ \A i \in Pools : SF_vars(Timeout(i))

Spec == Init /\ [][Next]_vars /\ Fairness

-----------------------------------------------------------------------------
(* Properties.                                                             *)

Calls(n) == {k \in DOMAIN outcomes : outcomes[k].share.n = n}

\* A share is counted at most once, whatever the pools answer: two answers, an
\* answer and an error, answers after a reconnection, on another connection.
CountedOnce == \A n \in 0 .. found - 1 : Cardinality(Calls(n)) <= 1

\* While a pool can be heard, what m_results holds was really sent to it, on
\* this connection, under this number: an answer to a ping, to the login or to
\* a message of another client is never taken for the answer to a share, a share
\* whose sending failed is never counted, and an answer to a share is never
\* taken for the one to the login, which is number 1.  The last needs a login
\* that was sent: if it is too long, number 1 is left for the first share.
ResultsWereSent ==
  \A i \in Pools : state[i] = "connected" \/ reading = i =>
    \A r \in m_results[i] :
      /\ [seq |-> r.seq, kind |-> "share", share |-> r.share] \in written[i]
      /\ i \notin LongLogins => r.seq # 1

\* The answers that accepted a share, what the shares were worth together, and how
\* many of them were worth v at least.
Accepts == {k \in DOMAIN outcomes : ~outcomes[k].error}

Total ==
  LET sum[k \in 0 .. Len(outcomes)] ==
        IF k = 0 THEN 0
        ELSE sum[k - 1] + (IF outcomes[k].error THEN 0 ELSE outcomes[k].share.diff)
  IN  sum[Len(outcomes)]

AtLeast(v) == Cardinality({k \in Accepts : outcomes[k].share.actualDiff >= v})

\* The counters agree with what was answered, and the list of the best results is
\* sorted and misses none: as many places hold v or more as there are such results,
\* or all places do.
StatsAreRight ==
  /\ stats.accepted = Cardinality(Accepts)
  /\ stats.rejected = Len(outcomes) - Cardinality(Accepts)
  /\ stats.total = Total
  /\ stats.topDiff \in [1 .. TopSize -> Diffs \cup {0}]
  /\ \A j, k \in 1 .. TopSize : j < k => stats.topDiff[j] >= stats.topDiff[k]
  /\ \A v \in Diffs \ {0} :
       Cardinality({k \in 1 .. TopSize : stats.topDiff[k] >= v}) =
         IF AtLeast(v) < TopSize THEN AtLeast(v) ELSE TopSize

\* The statistics show a connection exactly while a pool is in use, and their
\* samples of the latency come from that pool alone, unless the first pool took
\* over from a backup in use: onActive() does not clear them, so that avgTime()
\* divides the time with the new pool by the answers of both.
StatsFollowPool ==
  /\ stats.active <=> m_active # -1
  /\ ~mixed => \A k \in DOMAIN stats.latency : stats.latency[k] = m_active

\* A share goes to another pool than the one whose job it solves, or to no pool
\* at all (m_pools[-1]), only if the active pool has changed since it was found,
\* or a GPU thread found it before it noticed the change.
MisroutedOnlyAfterSwitch ==
  /\ \A share \in misrouted : share.late \/ share.when < switches
  /\ m_active = -1 => \A share \in pending : share.late \/ share.when < switches

\* A share that the pool does not answer ends with the connection: a silent
\* pool is given up.  Any line, not only the answer, puts this off.
SilentPoolIsGivenUp ==
  \A i \in Pools :
    (m_results[i] # {} /\ state[i] = "connected") ~>
      (m_results[i] = {} \/ state[i] # "connected" \/ heard[i])

\* The clients' lists are well formed and hold what was sent (Client.cpp, submit,
\* login, parseResponse).
ResultsInvariant == TypeOK /\ ResultsWereSent

\* The statistics are those of the answers and of the pool in use (NetworkState.cpp,
\* add, setPool, stop; Network.cpp, onActive, onPause).
StatisticsInvariant == StatsAreRight /\ StatsFollowPool
=============================================================================
