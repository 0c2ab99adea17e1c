-------------------------- MODULE SubmissionProofs --------------------------
(***************************************************************************)
(* Proofs about Submission, for any number of pools, shares and messages.  *)
(***************************************************************************)
EXTENDS Submission, FiniteSetTheorems, FunctionTheorems, WellFoundedInduction, TLAPS

\* A call of onResultAccepted(), as the history keeps it.
Outcome == [share : Share, error : BOOLEAN, by : Pools]

\* The types in the form in which the steps keep them.
ConnTypes ==
  /\ state \in [Pools -> {"down", "connected", "closing"}]
  /\ m_results \in [Pools -> SUBSET Result] /\ written \in [Pools -> SUBSET Message]
  /\ m_sequence \in 1 .. MaxSequence + 1
  /\ expire \in [Pools -> BOOLEAN] /\ purpose \in [Pools -> BOOLEAN]
  /\ heard \in [Pools -> BOOLEAN]

MinerTypes ==
  /\ m_active \in Pools \cup {-1} /\ reading \in Pools \cup {-1}
  /\ published \in Pools \cup {-1} /\ mined \in SUBSET Pools
  /\ switches \in Nat /\ mixed \in BOOLEAN /\ fault \in BOOLEAN
  /\ found \in 0 .. MaxShares
  /\ pending \in SUBSET Share /\ misrouted \in SUBSET Share
  /\ outcomes \in Seq(Outcome)

Types == ConnTypes /\ MinerTypes

\* The pool can be heard: connected, or in the middle of a read.
Readable(i) == state[i] = "connected" \/ reading = i

\* The login of the first connection has used up number 1, if it was sent.
NumberInv == \A i \in Pools \ LongLogins : state[i] = "connected" => m_sequence > 1

\* A share is in one place: waiting for submit(), in one list of results under one
\* number, or counted once.
PlaceInv ==
  /\ \A s \in pending : s.n < found
  /\ \A s, t \in pending : s.n = t.n => s = t
  /\ \A i \in Pools : \A r \in m_results[i] :
       r.share.n < found /\ \A s \in pending : s.n # r.share.n
  /\ \A i, j \in Pools : \A r \in m_results[i], q \in m_results[j] :
       r.share.n = q.share.n => i = j /\ r = q

\* A share that is counted is nowhere else, and counted once.
CountInv ==
  /\ \A k \in DOMAIN outcomes :
       /\ outcomes[k].share.n < found
       /\ \A s \in pending : s.n # outcomes[k].share.n
       /\ \A i \in Pools : \A r \in m_results[i] : r.share.n # outcomes[k].share.n
  /\ \A k, l \in DOMAIN outcomes : outcomes[k].share.n = outcomes[l].share.n => k = l

\* Workers has the job of the active pool or none, so that a share that was found in
\* time belongs to the active pool until this one changes.
RouteInv ==
  /\ published \in {-1, m_active}
  /\ \A s \in pending :
       s.late \/ s.when < switches \/ (s.when = switches /\ s.pool = m_active)
  /\ \A s \in misrouted : s.late \/ s.when < switches

\* disconnect() was called for backups only, never for the active one.
PurposeInv ==
  \A i \in Pools : purpose[i] =>
    i # 0 /\ state[i] # "connected" /\ i # m_active /\ (reading = i => m_active # -1)

\* Only the active pool can answer a share.
HolderInv == \A i \in Pools : Readable(i) /\ m_results[i] # {} => m_active = i

-----------------------------------------------------------------------------
(* What the helpers do.                                                    *)

\* Client::send(): nothing without a connection; on success one more number is used,
\* the message is written after what was written before (a login begins anew); on
\* failure the connection closes.
LEMMA SendFacts ==
  ASSUME ConnTypes, m_sequence <= MaxSequence, NEW i \in Pools, NEW now, NEW message \in Message,
         NEW ok \in BOOLEAN, now = "connected" \/ now = state[i], send(i, now, message, ok)
  PROVE  /\ state' \in [Pools -> {"down", "connected", "closing"}]
         /\ written' \in [Pools -> SUBSET Message]
         /\ m_sequence' \in 1 .. MaxSequence + 1 /\ m_sequence' >= m_sequence
         /\ expire' \in [Pools -> BOOLEAN] /\ heard' \in [Pools -> BOOLEAN]
         /\ \A k \in Pools \ {i} : state'[k] = state[k] /\ written'[k] = written[k]
         /\ state'[i] = "connected" =>
              /\ now = "connected" /\ message \in written'[i] /\ m_sequence' = m_sequence + 1
              /\ message.kind # "login" => written[i] \subseteq written'[i]
  <1>0. m_sequence \in Nat /\ MaxSequence \in Nat
    BY SubmissionAssumption DEF ConnTypes
  <1>1. CASE now # "connected"
    <2>1. UNCHANGED <<state, m_sequence, expire, heard, written>>
      BY <1>1 DEF send
    <2> QED
      BY <1>0, <1>1, <2>1 DEF ConnTypes
  <1>2. CASE now = "connected" /\ ok
    <2> DEFINE before == IF message.kind = "login" THEN {} ELSE written[i]
    <2>1. /\ state' = [state EXCEPT ![i] = now] /\ m_sequence' = m_sequence + 1
          /\ written' = [written EXCEPT ![i] = before \cup {message}]
          /\ expire' = [expire EXCEPT ![i] = TRUE] /\ heard' = [heard EXCEPT ![i] = FALSE]
      BY <1>2 DEF send, ConnTypes
    <2>2. before \cup {message} \in SUBSET Message
      BY DEF ConnTypes
    <2>3. message.kind # "login" => before = written[i]
      OBVIOUS
    <2> HIDE DEF before
    <2>4. /\ written' \in [Pools -> SUBSET Message] /\ written'[i] = before \cup {message}
          /\ \A k \in Pools \ {i} : written'[k] = written[k]
      BY <2>1, <2>2 DEF ConnTypes
    <2> QED
      BY <1>0, <1>2, <2>1, <2>3, <2>4 DEF ConnTypes
  <1>3. CASE now = "connected" /\ ~ok
    <2>1. state' = [state EXCEPT ![i] = "closing"] /\ UNCHANGED <<m_sequence, expire, heard, written>>
      BY <1>3 DEF send
    <2> QED
      BY <1>0, <2>1 DEF ConnTypes
  <1> QED
    BY <1>1, <1>2, <1>3

\* Client::close() touches one connection, which is not connected afterwards.
LEMMA ClosedFacts ==
  ASSUME ConnTypes, NEW i \in Pools, closed(i)
  PROVE  /\ state' \in [Pools -> {"down", "connected", "closing"}]
         /\ state'[i] # "connected"
         /\ \A k \in Pools \ {i} : state'[k] = state[k]
  BY DEF ConnTypes, closed

\* parse(): whose line it is, and what it leaves alone.
LEMMA LineFacts ==
  ASSUME ConnTypes, NEW i \in Pools, NEW disarmed, Line(i, disarmed)
  PROVE  /\ Readable(i) /\ reading \in {-1, i} /\ reading' = i
         /\ expire' \in [Pools -> BOOLEAN] /\ heard' \in [Pools -> BOOLEAN]
         /\ UNCHANGED <<m_sequence, written, pending, found, fault, misrouted>>
  BY DEF ConnTypes, Line, Free, Readable

\* The messages that are sent are messages.
LEMMA MessageTypes ==
  /\ [seq |-> 1, kind |-> "login"] \in Message
  /\ \A n \in Nat : [seq |-> n, kind |-> "ping"] \in Message
  /\ \A n \in Nat, s \in Share : [seq |-> n, kind |-> "share", share |-> s] \in Message
  BY DEF Message

\* m_results[m_sequence] = ...: an entry of that number is replaced, others stay.
LEMMA RememberFacts ==
  ASSUME ConnTypes, NEW i \in Pools, NEW share \in Share, Remember(i, share)
  PROVE  /\ m_results' \in [Pools -> SUBSET Result]
         /\ \A k \in Pools \ {i} : m_results'[k] = m_results[k]
         /\ \A r \in m_results'[i] :
              r \in m_results[i] \/ r = [seq |-> m_sequence, share |-> share]
  <1> DEFINE entry == [seq |-> m_sequence, share |-> share]
             after == {r \in m_results[i] : r.seq # m_sequence} \cup {entry}
  <1>1. entry \in Result
    BY DEF Result, ConnTypes
  <1>2. m_results' = [m_results EXCEPT ![i] = after]
    BY DEF Remember, ConnTypes
  <1> HIDE DEF entry
  <1>3. after \in SUBSET Result
    BY <1>1 DEF ConnTypes
  <1>4. \A r \in after : r \in m_results[i] \/ r = entry
    OBVIOUS
  <1> HIDE DEF after
  <1>5. /\ m_results' \in [Pools -> SUBSET Result] /\ m_results'[i] = after
        /\ \A k \in Pools \ {i} : m_results'[k] = m_results[k]
    BY <1>2, <1>3 DEF ConnTypes
  <1> QED
    BY <1>4, <1>5 DEF entry

\* An answer removes entries, and counts one of them if there were any.
LEMMA AnsweredFacts ==
  ASSUME Types, NEW i \in Pools, NEW seq, NEW error \in BOOLEAN, Answered(i, seq, error)
  PROVE  /\ m_results' \in [Pools -> SUBSET Result] /\ outcomes' \in Seq(Outcome)
         /\ \A k \in Pools : m_results'[k] \subseteq m_results[k]
         /\ \/ UNCHANGED <<stats, outcomes>>
            \/ \E r \in m_results[i] :
                 /\ r \notin m_results'[i] /\ r.share \in Share
                 /\ stats' = add(stats, r.share, error, i)
                 /\ outcomes' = Append(outcomes, [share |-> r.share, error |-> error, by |-> i])
  <1>1. Known(i, seq) \subseteq m_results[i]
    BY DEF Known
  <1>2. m_results' = [m_results EXCEPT ![i] = m_results[i] \ Known(i, seq)]
    BY DEF Answered, Types, ConnTypes
  <1>3. /\ m_results' \in [Pools -> SUBSET Result] /\ m_results'[i] = m_results[i] \ Known(i, seq)
        /\ \A k \in Pools \ {i} : m_results'[k] = m_results[k]
    BY <1>2 DEF Types, ConnTypes
  <1>4. \A k \in Pools : m_results'[k] \subseteq m_results[k]
    BY <1>3
  <1>5. CASE UNCHANGED <<stats, outcomes>>
    BY <1>3, <1>4, <1>5 DEF Types, MinerTypes
  <1>6. CASE \E r \in Known(i, seq) :
               /\ stats' = add(stats, r.share, error, i)
               /\ outcomes' = Append(outcomes, [share |-> r.share, error |-> error, by |-> i])
    <2>1. PICK r \in Known(i, seq) :
            /\ stats' = add(stats, r.share, error, i)
            /\ outcomes' = Append(outcomes, [share |-> r.share, error |-> error, by |-> i])
      BY <1>6
    <2>2. r \in m_results[i] /\ r \notin m_results'[i] /\ r.share \in Share
      BY <1>1, <1>3 DEF Types, ConnTypes, Result
    <2>3. [share |-> r.share, error |-> error, by |-> i] \in Outcome
      BY <2>2 DEF Outcome
    <2>4. outcomes' \in Seq(Outcome)
      BY <2>1, <2>3 DEF Types, MinerTypes
    <2> QED
      BY <1>3, <1>4, <2>1, <2>2, <2>4
  <1> QED
    BY <1>5, <1>6 DEF Answered

\* The answers, with and without an error.
Answers(i) ==
  \E seq \in 1 .. m_sequence :
    \/ \E critical \in BOOLEAN : Error(i, seq, critical)
    \/ Accepted(i, seq)

\* Every step is one of these.
LEMMA Steps ==
  ASSUME [Next]_vars
  PROVE  \/ \E i \in Pools :
              \/ Connect(i) \/ Ping(i) \/ Answers(i) \/ Login(i) \/ NewJob(i) \/ BadJob(i)
              \/ Other(i) \/ ReadError(i) \/ Timeout(i) \/ OnClose(i)
         \/ \E share \in pending : Submit(share)
         \/ \E pool \in Pools, diff, actualDiff \in Diffs : Find(pool, diff, actualDiff)
         \/ OnReadEnd \/ CatchUp \/ UNCHANGED vars
  BY DEF Next, Received, Answers, Halted

\* A step of Submit with an active pool: the share is remembered, then sent.
LEMMA SubmitFacts ==
  ASSUME Types, NEW share \in pending, Submit(share)
  PROVE  /\ share \in Share /\ reading = -1 /\ pending' = pending \ {share}
         /\ UNCHANGED <<purpose, poolVars, published, mined, found, outcomes, reading>>
         /\ \/ /\ m_active = -1 /\ fault' = TRUE
               /\ UNCHANGED <<m_results, state, m_sequence, expire, heard, written, misrouted>>
            \/ /\ m_active \in Pools /\ Remember(m_active, share) /\ UNCHANGED fault
               /\ misrouted' = IF share.pool = m_active THEN misrouted ELSE misrouted \cup {share}
               /\ m_sequence <= MaxSequence
               /\ [seq |-> m_sequence, kind |-> "share", share |-> share] \in Message
               /\ \E ok \in BOOLEAN :
                    send(m_active, state[m_active],
                         [seq |-> m_sequence, kind |-> "share", share |-> share], ok)
  <1>1. share \in Share /\ m_sequence \in Nat
    BY DEF Types, MinerTypes, ConnTypes
  <1>2. [seq |-> m_sequence, kind |-> "share", share |-> share] \in Message
    BY <1>1, MessageTypes
  <1>3. m_active = -1 \/ m_active \in Pools
    BY DEF Types, MinerTypes
  <1>4. CASE m_active = -1
    BY <1>1, <1>4 DEF Submit, Free
  <1>5. CASE m_active # -1
    BY <1>1, <1>2, <1>3, <1>5 DEF Submit, Free
  <1> QED
    BY <1>4, <1>5

\* The connections keep their types.
LEMMA ConnTypesStep == Types /\ [Next]_vars => ConnTypes'
  <1> SUFFICES ASSUME Types, [Next]_vars PROVE ConnTypes'
    OBVIOUS
  <1>0. ConnTypes /\ m_sequence \in Nat /\ 0 \in Nat
    BY DEF Types, ConnTypes
  <1> USE DEF poolVars, minerVars, historyVars
  <1>1. ASSUME NEW i \in Pools, Connect(i) PROVE ConnTypes'
    <2>2. /\ state' \in [Pools -> {"down", "connected", "closing"}]
          /\ written' \in [Pools -> SUBSET Message] /\ m_sequence' \in 1 .. MaxSequence + 1
          /\ expire' \in [Pools -> BOOLEAN] /\ heard' \in [Pools -> BOOLEAN]
      <3>1. PICK fits \in BOOLEAN, ok \in BOOLEAN : login(i, fits, ok)
        BY <1>1 DEF Connect
      <3>2. CASE ~fits
        BY <1>0, <3>1, <3>2 DEF login, ConnTypes
      <3>3. CASE fits
        <4>1. send(i, "connected", [seq |-> 1, kind |-> "login"], ok)
          BY <3>1, <3>3 DEF login
        <4> QED
          BY <1>0, <1>1, <4>1, MessageTypes, SendFacts DEF Connect
      <3> QED
        BY <3>2, <3>3
    <2>3. m_results' \in [Pools -> SUBSET Result] /\ purpose' \in [Pools -> BOOLEAN]
      BY <1>0, <1>1 DEF Connect, ConnTypes
    <2> QED
      BY <2>2, <2>3 DEF ConnTypes
  <1>2. ASSUME NEW i \in Pools, Ping(i) PROVE ConnTypes'
    <2>1. PICK ok \in BOOLEAN : send(i, state[i], [seq |-> m_sequence, kind |-> "ping"], ok)
      BY <1>2 DEF Ping
    <2>2. /\ state' \in [Pools -> {"down", "connected", "closing"}]
          /\ written' \in [Pools -> SUBSET Message] /\ m_sequence' \in 1 .. MaxSequence + 1
          /\ expire' \in [Pools -> BOOLEAN] /\ heard' \in [Pools -> BOOLEAN]
      BY <1>0, <1>2, <2>1, MessageTypes, SendFacts DEF Ping
    <2> QED
      BY <1>0, <1>2, <2>2 DEF ConnTypes, Ping
  <1>3. ASSUME NEW share \in pending, Submit(share) PROVE ConnTypes'
    <2>1. CASE m_active = -1
      BY <1>0, <1>3, <2>1 DEF Submit, ConnTypes
    <2>2. CASE m_active # -1
      <3>1. PICK ok \in BOOLEAN :
              send(m_active, state[m_active],
                   [seq |-> m_sequence, kind |-> "share", share |-> share], ok)
        BY <1>3, <2>2, SubmitFacts
      <3>2. /\ state' \in [Pools -> {"down", "connected", "closing"}]
            /\ written' \in [Pools -> SUBSET Message] /\ m_sequence' \in 1 .. MaxSequence + 1
            /\ expire' \in [Pools -> BOOLEAN] /\ heard' \in [Pools -> BOOLEAN]
        <4>1. /\ m_active \in Pools /\ m_sequence <= MaxSequence
              /\ [seq |-> m_sequence, kind |-> "share", share |-> share] \in Message
          BY <1>3, <2>2, SubmitFacts
        <4> QED
          BY <1>0, <3>1, <4>1, SendFacts
      <3>3. m_results' \in [Pools -> SUBSET Result]
        BY <1>0, <1>3, <2>2, SubmitFacts, RememberFacts
      <3>4. UNCHANGED purpose
        BY <1>3, SubmitFacts
      <3> QED
        BY <1>0, <3>2, <3>3, <3>4 DEF ConnTypes
    <2> QED
      BY <2>1, <2>2
  <1>4. ASSUME NEW i \in Pools, Answers(i) PROVE ConnTypes'
    <2>1. PICK seq \in 1 .. m_sequence, error \in BOOLEAN :
            /\ Line(i, {i}) /\ Answered(i, seq, error) /\ (closed(i) \/ UNCHANGED state)
            /\ UNCHANGED purpose
      BY <1>4 DEF Answers, Error, Accepted
    <2>2. /\ expire' \in [Pools -> BOOLEAN] /\ heard' \in [Pools -> BOOLEAN]
          /\ UNCHANGED <<m_sequence, written>>
      BY <1>0, <2>1, LineFacts
    <2>3. m_results' \in [Pools -> SUBSET Result]
      BY <2>1, AnsweredFacts
    <2>4. state' \in [Pools -> {"down", "connected", "closing"}]
      BY <1>0, <2>1, ClosedFacts DEF ConnTypes
    <2> QED
      BY <1>0, <2>1, <2>2, <2>3, <2>4 DEF ConnTypes
  <1>5. ASSUME NEW i \in Pools, Login(i) PROVE ConnTypes'
    <2>1. /\ expire' \in [Pools -> BOOLEAN] /\ heard' \in [Pools -> BOOLEAN]
          /\ UNCHANGED <<m_sequence, written>>
      BY <1>0, <1>5, LineFacts DEF Login
    <2>2. UNCHANGED m_results /\ purpose' \in [Pools -> BOOLEAN]
      BY <1>0, <1>5 DEF Login, ConnTypes
    <2>3. state' \in [Pools -> {"down", "connected", "closing"}]
      BY <1>0, <1>5 DEF Login, ConnTypes
    <2> QED
      BY <1>0, <2>1, <2>2, <2>3 DEF ConnTypes
  <1>6. ASSUME NEW i \in Pools, NewJob(i) \/ BadJob(i) \/ Other(i) PROVE ConnTypes'
    <2>1. Line(i, {i}) /\ UNCHANGED <<m_results, purpose>> /\ (closed(i) \/ UNCHANGED state)
      BY <1>6 DEF NewJob, BadJob, Other
    <2>2. /\ expire' \in [Pools -> BOOLEAN] /\ heard' \in [Pools -> BOOLEAN]
          /\ UNCHANGED <<m_sequence, written>>
      BY <1>0, <2>1, LineFacts
    <2>3. state' \in [Pools -> {"down", "connected", "closing"}]
      BY <1>0, <2>1, ClosedFacts DEF ConnTypes
    <2> QED
      BY <1>0, <2>1, <2>2, <2>3 DEF ConnTypes
  <1>7. ASSUME NEW i \in Pools, ReadError(i) \/ Timeout(i) PROVE ConnTypes'
    <2>1. closed(i) /\ UNCHANGED <<m_results, m_sequence, expire, purpose, written, heard>>
      BY <1>7 DEF ReadError, Timeout
    <2> QED
      BY <1>0, <2>1, ClosedFacts DEF ConnTypes
  <1>8. ASSUME NEW i \in Pools, OnClose(i) PROVE ConnTypes'
    BY <1>0, <1>8 DEF OnClose, ConnTypes
  <1>9. CASE UNCHANGED connVars
    BY <1>0, <1>9 DEF connVars, ConnTypes
  <1>10. (\E pool \in Pools, diff, actualDiff \in Diffs : Find(pool, diff, actualDiff))
           \/ OnReadEnd \/ CatchUp \/ UNCHANGED vars => UNCHANGED connVars
    BY DEF Find, OnReadEnd, CatchUp, vars
  <1> QED
    BY <1>1, <1>2, <1>3, <1>4, <1>5, <1>6, <1>7, <1>8, <1>9, <1>10, Steps

\* The miner's side keeps its types.
LEMMA MinerTypesStep == Types /\ [Next]_vars => MinerTypes'
  <1> SUFFICES ASSUME Types, [Next]_vars PROVE MinerTypes'
    OBVIOUS
  <1>0. ConnTypes /\ MinerTypes
    BY DEF Types
  <1> USE DEF poolVars, minerVars, historyVars
  <1>1. ASSUME NEW i \in Pools,
               Connect(i) \/ Ping(i) \/ ReadError(i) \/ Timeout(i) PROVE MinerTypes'
    BY <1>0, <1>1 DEF Connect, Ping, ReadError, Timeout, MinerTypes
  <1>2. ASSUME NEW share \in pending, Submit(share) PROVE MinerTypes'
    <2>1. /\ pending' \in SUBSET Share /\ misrouted' \in SUBSET Share /\ fault' \in BOOLEAN
          /\ UNCHANGED <<m_active, reading, published, mined, switches, mixed, found, outcomes>>
      BY <1>0, <1>2, SubmitFacts DEF MinerTypes
    <2> QED
      BY <1>0, <2>1 DEF MinerTypes
  <1>3. ASSUME NEW i \in Pools, Answers(i) PROVE MinerTypes'
    <2>1. PICK seq \in 1 .. m_sequence, error \in BOOLEAN :
            /\ Line(i, {i}) /\ Answered(i, seq, error)
            /\ UNCHANGED <<m_active, switches, mixed, published, mined>>
      BY <1>3 DEF Answers, Error, Accepted
    <2>2. reading' = i /\ UNCHANGED <<pending, found, fault, misrouted>>
      BY <1>0, <2>1, LineFacts
    <2>3. outcomes' \in Seq(Outcome)
      BY <2>1, AnsweredFacts
    <2> QED
      BY <1>0, <2>1, <2>2, <2>3 DEF MinerTypes
  <1>4. ASSUME NEW i \in Pools, Login(i) PROVE MinerTypes'
    <2>1. reading' = i /\ UNCHANGED <<pending, found, fault, misrouted, outcomes>>
      BY <1>0, <1>4, LineFacts DEF Login
    <2>2. Elected(i) \in Pools \cup {-1} /\ m_active' = Elected(i)
      BY <1>0, <1>4 DEF Login, Elected, MinerTypes
    <2>3. switches' \in Nat /\ mixed' \in BOOLEAN
      BY <1>0, <1>4 DEF Login, MinerTypes
    <2>4. published' \in Pools \cup {-1} /\ mined' \in SUBSET Pools
      BY <1>0, <1>4 DEF Login, OnJobReceived, MinerTypes
    <2> QED
      BY <1>0, <2>1, <2>2, <2>3, <2>4 DEF MinerTypes
  <1>5. ASSUME NEW i \in Pools, NewJob(i) \/ BadJob(i) \/ Other(i) PROVE MinerTypes'
    <2>1. reading' = i /\ UNCHANGED <<pending, found, fault, misrouted>>
      BY <1>0, <1>5, LineFacts DEF NewJob, BadJob, Other
    <2>2. UNCHANGED <<m_active, switches, mixed, outcomes>>
      BY <1>5 DEF NewJob, BadJob, Other
    <2>3. published' \in Pools \cup {-1} /\ mined' \in SUBSET Pools
      BY <1>0, <1>5 DEF NewJob, BadJob, Other, OnJobReceived, MinerTypes
    <2> QED
      BY <1>0, <2>1, <2>2, <2>3 DEF MinerTypes
  <1>6. ASSUME NEW i \in Pools, OnClose(i) PROVE MinerTypes'
    BY <1>0, <1>6 DEF OnClose, MinerTypes
  <1>7. ASSUME NEW pool \in Pools, NEW diff \in Diffs, NEW actualDiff \in Diffs,
               Find(pool, diff, actualDiff) PROVE MinerTypes'
    <2> DEFINE share == [n |-> found, pool |-> pool, diff |-> diff, actualDiff |-> actualDiff,
                         when |-> switches, late |-> pool # published]
    <2>1. share \in Share
      BY <1>0 DEF Share, MinerTypes
    <2>2. found' \in 0 .. MaxShares
      BY <1>0, <1>7, SubmissionAssumption DEF Find, MinerTypes
    <2>3. pending' = pending \cup {share}
      BY <1>7 DEF Find
    <2> HIDE DEF share
    <2>4. pending' \in SUBSET Share
      BY <1>0, <2>1, <2>3 DEF MinerTypes
    <2> QED
      BY <1>0, <1>7, <2>2, <2>4 DEF Find, MinerTypes
  <1>8. CASE OnReadEnd \/ CatchUp
    BY <1>0, <1>8 DEF OnReadEnd, CatchUp, MinerTypes
  <1>9. CASE UNCHANGED vars
    BY <1>0, <1>9 DEF vars, MinerTypes
  <1> QED
    BY <1>1, <1>2, <1>3, <1>4, <1>5, <1>6, <1>7, <1>8, <1>9, Steps

\* No step of a pool, of a client or of the miner leaves the types.
LEMMA TypesStep == Types /\ [Next]_vars => Types'
  BY ConnTypesStep, MinerTypesStep DEF Types

-----------------------------------------------------------------------------
(* Where the shares are.                                                   *)

\* The steps that move a share: login() forgets the old ones, submit() remembers
\* one, an answer takes one out, a GPU thread finds one.
LEMMA Moves ==
  ASSUME Types, [Next]_vars
  PROVE  \/ UNCHANGED <<pending, found, m_results, outcomes>>
         \/ \E i \in Pools : Connect(i)
         \/ \E share \in pending : Submit(share)
         \/ \E i \in Pools, seq \in 1 .. m_sequence, error \in BOOLEAN :
              Answered(i, seq, error) /\ UNCHANGED <<pending, found>>
         \/ \E pool \in Pools, diff, actualDiff \in Diffs : Find(pool, diff, actualDiff)
  <1> USE DEF connVars, minerVars, historyVars
  <1>0. ConnTypes
    BY DEF Types
  <1>1. ASSUME NEW i \in Pools, Answers(i)
        PROVE  \E seq \in 1 .. m_sequence, error \in BOOLEAN :
                 Answered(i, seq, error) /\ UNCHANGED <<pending, found>>
    BY <1>1 DEF Answers, Error, Accepted, Line
  <1>2. ASSUME NEW i \in Pools,
               \/ Ping(i) \/ Login(i) \/ NewJob(i) \/ BadJob(i) \/ Other(i)
               \/ ReadError(i) \/ Timeout(i) \/ OnClose(i)
        PROVE  UNCHANGED <<pending, found, m_results, outcomes>>
    BY <1>2 DEF Ping, Login, NewJob, BadJob, Other, ReadError, Timeout, OnClose, Line
  <1>3. OnReadEnd \/ CatchUp \/ UNCHANGED vars => UNCHANGED <<pending, found, m_results, outcomes>>
    BY DEF OnReadEnd, CatchUp, vars
  <1> QED
    BY <1>1, <1>2, <1>3, Steps

\* Client::login() empties the list of this client.
LEMMA ConnectFacts ==
  ASSUME Types, NEW i \in Pools, Connect(i)
  PROVE  /\ m_results'[i] = {} /\ \A k \in Pools \ {i} : m_results'[k] = m_results[k]
         /\ ~purpose'[i] /\ \A k \in Pools \ {i} : purpose'[k] = purpose[k]
         /\ UNCHANGED <<m_active, stats, switches, mixed, published, pending, found, outcomes,
                        misrouted, reading>>
         /\ reading = -1 /\ state[i] # "connected"
         /\ \A k \in Pools \ {i} : state'[k] = state[k] /\ written'[k] = written[k]
         /\ m_sequence' >= m_sequence
         /\ state'[i] = "connected" /\ i \notin LongLogins => m_sequence' = m_sequence + 1
  <1>2. /\ \A k \in Pools \ {i} : state'[k] = state[k] /\ written'[k] = written[k]
        /\ m_sequence' >= m_sequence
        /\ state'[i] = "connected" /\ i \notin LongLogins => m_sequence' = m_sequence + 1
    <2>1. ConnTypes /\ m_sequence <= MaxSequence
      BY DEF Types, Connect
    <2>2. PICK fits \in BOOLEAN, ok \in BOOLEAN : (i \in LongLogins \/ fits) /\ login(i, fits, ok)
      BY DEF Connect
    <2>3. CASE ~fits
      BY <2>1, <2>2, <2>3 DEF login, ConnTypes
    <2>4. CASE fits
      <3> DEFINE message == [seq |-> 1, kind |-> "login"]
      <3>1. send(i, "connected", message, ok) /\ message \in Message
        BY <2>2, <2>4, MessageTypes DEF login
      <3> HIDE DEF message
      <3>2. /\ \A k \in Pools \ {i} : state'[k] = state[k] /\ written'[k] = written[k]
            /\ m_sequence' >= m_sequence
            /\ state'[i] = "connected" => m_sequence' = m_sequence + 1
        BY <2>1, <3>1, SendFacts
      <3> QED
        BY <3>2
    <2> QED
      BY <2>3, <2>4
  <1>3. /\ m_results'[i] = {} /\ \A k \in Pools \ {i} : m_results'[k] = m_results[k]
        /\ ~purpose'[i] /\ \A k \in Pools \ {i} : purpose'[k] = purpose[k]
    BY DEF Types, ConnTypes, Connect
  <1> QED
    BY <1>2, <1>3 DEF Connect, Free, poolVars, minerVars, historyVars

\* Client::ping() adds to what was written on this connection.
LEMMA PingFacts ==
  ASSUME Types, NEW i \in Pools, Ping(i)
  PROVE  /\ \A k \in Pools \ {i} : state'[k] = state[k] /\ written'[k] = written[k]
         /\ m_sequence' >= m_sequence
         /\ state'[i] = "connected" => state[i] = "connected" /\ written[i] \subseteq written'[i]
  <1> DEFINE ping == [seq |-> m_sequence, kind |-> "ping"]
  <1>1. ConnTypes /\ m_sequence \in Nat /\ state[i] = "connected"
    BY DEF Types, ConnTypes, Ping
  <1>2. PICK ok \in BOOLEAN : send(i, state[i], ping, ok)
    BY DEF Ping
  <1>3. ping.kind # "login"
    OBVIOUS
  <1> HIDE DEF ping
  <1>4. CASE ok
    <2>1. /\ state' = [state EXCEPT ![i] = state[i]] /\ m_sequence' = m_sequence + 1
          /\ written' = [written EXCEPT ![i] = written[i] \cup {ping}]
      BY <1>1, <1>2, <1>3, <1>4 DEF send, ConnTypes
    <2> QED
      BY <1>1, <2>1 DEF ConnTypes
  <1>5. CASE ~ok
    <2>1. state' = [state EXCEPT ![i] = "closing"] /\ UNCHANGED <<m_sequence, written>>
      BY <1>1, <1>2, <1>5 DEF send
    <2> QED
      BY <1>1, <2>1 DEF ConnTypes
  <1> QED
    BY <1>4, <1>5

\* Client::submit(): what the list and the connection of the active pool look like
\* afterwards; the others are as they were.
LEMMA SubmitEffect ==
  ASSUME Types, NEW share \in pending, Submit(share), m_active # -1
  PROVE  LET message == [seq |-> m_sequence, kind |-> "share", share |-> share] IN
         /\ m_active \in Pools
         /\ \A k \in Pools \ {m_active} :
              state'[k] = state[k] /\ written'[k] = written[k] /\ m_results'[k] = m_results[k]
         /\ \A r \in m_results'[m_active] :
              r \in m_results[m_active] \/ r = [seq |-> m_sequence, share |-> share]
         /\ m_sequence' >= m_sequence
         /\ state'[m_active] = "connected" =>
              /\ state[m_active] = "connected" /\ message \in written'[m_active]
              /\ written[m_active] \subseteq written'[m_active]
  <1> DEFINE message == [seq |-> m_sequence, kind |-> "share", share |-> share]
  <1>1. /\ m_active \in Pools /\ m_sequence <= MaxSequence /\ message \in Message
        /\ Remember(m_active, share) /\ share \in Share
        /\ \E ok \in BOOLEAN : send(m_active, state[m_active], message, ok)
    BY SubmitFacts
  <1>2. PICK ok \in BOOLEAN : send(m_active, state[m_active], message, ok)
    BY <1>1
  <1>3. message.kind # "login"
    OBVIOUS
  <1> HIDE DEF message
  <1>4. /\ \A k \in Pools \ {m_active} : state'[k] = state[k] /\ written'[k] = written[k]
        /\ m_sequence' >= m_sequence
        /\ state'[m_active] = "connected" =>
             /\ state[m_active] = "connected" /\ message \in written'[m_active]
             /\ written[m_active] \subseteq written'[m_active]
    <2>1. ConnTypes
      BY DEF Types
    <2>2. PICK now : now = state[m_active]
      OBVIOUS
    <2>3. PICK i \in Pools : i = m_active
      BY <1>1
    <2>4. send(i, now, message, ok)
      BY <1>2, <2>2, <2>3
    <2>5. /\ \A k \in Pools \ {i} : state'[k] = state[k] /\ written'[k] = written[k]
          /\ m_sequence' >= m_sequence
          /\ state'[i] = "connected" =>
               /\ now = "connected" /\ message \in written'[i]
               /\ written[i] \subseteq written'[i]
      BY <1>1, <1>3, <2>1, <2>2, <2>3, <2>4, SendFacts
    <2> QED
      BY <2>2, <2>3, <2>5
  <1>5. /\ \A k \in Pools \ {m_active} : m_results'[k] = m_results[k]
        /\ \A r \in m_results'[m_active] :
             r \in m_results[m_active] \/ r = [seq |-> m_sequence, share |-> share]
    BY <1>1, RememberFacts DEF Types
  <1> QED
    BY <1>1, <1>4, <1>5 DEF message

\* A GPU thread gives a new share a number of its own.
LEMMA FindFacts ==
  ASSUME Types, NEW pool \in Pools, NEW diff \in Diffs, NEW actualDiff \in Diffs,
         Find(pool, diff, actualDiff)
  PROVE  /\ found \in Nat /\ found' = found + 1
         /\ UNCHANGED <<m_results, outcomes, misrouted, published, m_active, switches>>
         /\ \E share \in Share :
              /\ share.n = found /\ share.when = switches /\ share.pool = pool
              /\ share.late = (pool # published)
              /\ pending' = pending \cup {share}
  <1> DEFINE share == [n |-> found, pool |-> pool, diff |-> diff, actualDiff |-> actualDiff,
                       when |-> switches, late |-> pool # published]
  <1>1. share \in Share /\ found \in Nat
    BY DEF Share, Types, MinerTypes
  <1>2. pending' = pending \cup {share} /\ found' = found + 1
    BY DEF Find
  <1>3. UNCHANGED <<m_results, outcomes, misrouted, published, m_active, switches>>
    BY DEF Find, connVars, poolVars, historyVars
  <1>4. /\ share.n = found /\ share.when = switches /\ share.pool = pool
        /\ share.late = (pool # published)
    OBVIOUS
  <1> HIDE DEF share
  <1> QED
    BY <1>1, <1>2, <1>3, <1>4

\* submit(), login(), an answer: a share moves, it is never in two places
\* (Client.cpp, submit, login, parseResponse).
LEMMA PlaceStep == Types /\ PlaceInv /\ [Next]_vars => PlaceInv'
  <1> SUFFICES ASSUME Types, PlaceInv, [Next]_vars PROVE PlaceInv'
    OBVIOUS
  <1>1. CASE UNCHANGED <<pending, found, m_results, outcomes>>
    BY <1>1 DEF PlaceInv
  <1>2. ASSUME \A k \in Pools : m_results'[k] \subseteq m_results[k],
               UNCHANGED <<pending, found>>
        PROVE  PlaceInv'
    BY <1>2 DEF PlaceInv
  <1>3. ASSUME NEW i \in Pools, Connect(i) PROVE PlaceInv'
    <2>1. m_results'[i] = {} /\ \A k \in Pools \ {i} : m_results'[k] = m_results[k]
      BY <1>3, ConnectFacts
    <2>2. \A k \in Pools : m_results'[k] \subseteq m_results[k]
      BY <2>1
    <2>3. UNCHANGED <<pending, found>>
      BY <1>3, ConnectFacts
    <2> QED
      BY <1>2, <2>2, <2>3
  <1>4. ASSUME NEW share \in pending, Submit(share) PROVE PlaceInv'
    <2>1. pending' = pending \ {share} /\ UNCHANGED found
      BY <1>4, SubmitFacts
    <2>2. CASE m_active = -1
      <3>1. UNCHANGED m_results
        BY <1>4, <2>2 DEF Submit
      <3> QED
        BY <2>1, <3>1 DEF PlaceInv
    <2>3. CASE m_active # -1
      <3>1. PICK a \in Pools : a = m_active
        BY <1>4, <2>3, SubmitEffect
      <3>2. /\ \A k \in Pools \ {a} : m_results'[k] = m_results[k]
            /\ \A r \in m_results'[a] :
                 r \in m_results[a] \/ r = [seq |-> m_sequence, share |-> share]
        BY <1>4, <2>3, <3>1, SubmitEffect
      <3>3. \A k \in Pools : \A r \in m_results'[k] :
              r \in m_results[k] \/ (k = a /\ r = [seq |-> m_sequence, share |-> share])
        BY <3>2
      <3>4. \A k \in Pools : \A r \in m_results'[k] :
              r.share.n < found /\ \A t \in pending' : t.n # r.share.n
        BY <2>1, <3>3 DEF PlaceInv
      <3>5. ASSUME NEW i \in Pools, NEW j \in Pools, NEW r \in m_results'[i],
                   NEW q \in m_results'[j], r.share.n = q.share.n
            PROVE  i = j /\ r = q
        BY <3>3, <3>5 DEF PlaceInv
      <3> QED
        BY <2>1, <3>4, <3>5 DEF PlaceInv
    <2> QED
      BY <2>2, <2>3
  <1>5. ASSUME NEW i \in Pools, NEW seq, NEW error \in BOOLEAN,
               Answered(i, seq, error), UNCHANGED <<pending, found>>
        PROVE  PlaceInv'
    BY <1>2, <1>5, AnsweredFacts
  <1>6. ASSUME NEW pool \in Pools, NEW diff \in Diffs, NEW actualDiff \in Diffs,
               Find(pool, diff, actualDiff) PROVE PlaceInv'
    <2>1. found \in Nat /\ found' = found + 1 /\ UNCHANGED m_results
      BY <1>6, FindFacts
    <2>2. PICK share \in Share : share.n = found /\ pending' = pending \cup {share}
      BY <1>6, FindFacts
    <2>3. /\ \A t \in pending : t.n \in Nat
          /\ \A k \in Pools : \A r \in m_results[k] : r.share.n \in Nat
      BY DEF Types, ConnTypes, MinerTypes, Share, Result
    <2>4. \A t \in pending' : t.n < found'
      BY <2>1, <2>2, <2>3 DEF PlaceInv
    <2>5. \A t, u \in pending' : t.n = u.n => t = u
      BY <2>1, <2>2, <2>3 DEF PlaceInv
    <2>6. \A k \in Pools : \A r \in m_results'[k] :
            r.share.n < found' /\ \A t \in pending' : t.n # r.share.n
      BY <2>1, <2>2, <2>3 DEF PlaceInv
    <2> QED
      BY <2>1, <2>4, <2>5, <2>6 DEF PlaceInv
  <1> QED
    BY <1>1, <1>3, <1>4, <1>5, <1>6, Moves

\* A share that was counted is in no list any more, so that it is not counted again.
LEMMA CountStep == Types /\ PlaceInv /\ CountInv /\ [Next]_vars => CountInv'
  <1> SUFFICES ASSUME Types, PlaceInv, CountInv, [Next]_vars PROVE CountInv'
    OBVIOUS
  <1>1. CASE UNCHANGED <<pending, found, m_results, outcomes>>
    BY <1>1 DEF CountInv
  <1>2. ASSUME \A k \in Pools : m_results'[k] \subseteq m_results[k], pending' \subseteq pending,
               UNCHANGED <<found, outcomes>>
        PROVE  CountInv'
    BY <1>2 DEF CountInv
  <1>3. ASSUME NEW i \in Pools, Connect(i) PROVE CountInv'
    <2>1. m_results'[i] = {} /\ \A k \in Pools \ {i} : m_results'[k] = m_results[k]
      BY <1>3, ConnectFacts
    <2>2. \A k \in Pools : m_results'[k] \subseteq m_results[k]
      BY <2>1
    <2>3. UNCHANGED <<pending, found, outcomes>>
      BY <1>3, ConnectFacts
    <2> QED
      BY <1>2, <2>2, <2>3
  <1>4. ASSUME NEW share \in pending, Submit(share) PROVE CountInv'
    <2>1. pending' = pending \ {share} /\ UNCHANGED <<found, outcomes>>
      BY <1>4, SubmitFacts
    <2>2. CASE m_active = -1
      <3>1. UNCHANGED m_results
        BY <1>4, <2>2 DEF Submit
      <3> QED
        BY <2>1, <3>1 DEF CountInv
    <2>3. CASE m_active # -1
      <3>1. PICK a \in Pools : a = m_active
        BY <1>4, <2>3, SubmitEffect
      <3>2. /\ \A k \in Pools \ {a} : m_results'[k] = m_results[k]
            /\ \A r \in m_results'[a] :
                 r \in m_results[a] \/ r = [seq |-> m_sequence, share |-> share]
        BY <1>4, <2>3, <3>1, SubmitEffect
      <3>3. \A k \in Pools : \A r \in m_results'[k] :
              r \in m_results[k] \/ r.share = share
        BY <3>2
      <3> QED
        BY <2>1, <3>3 DEF CountInv
    <2> QED
      BY <2>2, <2>3
  <1>5. ASSUME NEW i \in Pools, NEW seq, NEW error \in BOOLEAN,
               Answered(i, seq, error), UNCHANGED <<pending, found>>
        PROVE  CountInv'
    <2>1. CASE UNCHANGED outcomes
      BY <1>2, <1>5, <2>1, AnsweredFacts
    <2>2. CASE ~UNCHANGED outcomes
      <3>1. \A k \in Pools : m_results'[k] \subseteq m_results[k]
        BY <1>5, AnsweredFacts
      <3>2. PICK r \in m_results[i] :
              /\ r \notin m_results'[i]
              /\ outcomes' = Append(outcomes, [share |-> r.share, error |-> error, by |-> i])
        BY <1>5, <2>2, AnsweredFacts
      <3>3. outcomes \in Seq(Outcome) /\ outcomes' \in Seq(Outcome)
        BY <1>5, AnsweredFacts DEF Types, MinerTypes
      <3>4. /\ Len(outcomes) \in Nat /\ DOMAIN outcomes = 1 .. Len(outcomes)
            /\ DOMAIN outcomes' = 1 .. Len(outcomes) + 1
            /\ \A k \in 1 .. Len(outcomes) : outcomes'[k] = outcomes[k]
            /\ outcomes'[Len(outcomes) + 1].share = r.share
        BY <3>2, <3>3
      <3>5. /\ r.share.n < found /\ \A s \in pending : s.n # r.share.n
            /\ \A k \in Pools : \A q \in m_results'[k] : q.share.n # r.share.n
        BY <3>1, <3>2 DEF PlaceInv
      <3>6. \A k \in 1 .. Len(outcomes) : outcomes[k].share.n # r.share.n
        BY <3>4 DEF CountInv
      <3>7. ASSUME NEW k \in DOMAIN outcomes'
            PROVE  /\ outcomes'[k].share.n < found
                   /\ \A s \in pending : s.n # outcomes'[k].share.n
                   /\ \A j \in Pools : \A q \in m_results'[j] : q.share.n # outcomes'[k].share.n
        <4>1. CASE k \in 1 .. Len(outcomes)
          BY <3>1, <3>4, <4>1 DEF CountInv
        <4>2. CASE k = Len(outcomes) + 1
          BY <3>4, <3>5, <4>2
        <4> QED
          BY <3>4, <4>1, <4>2
      <3>8. ASSUME NEW k \in DOMAIN outcomes', NEW l \in DOMAIN outcomes',
                   outcomes'[k].share.n = outcomes'[l].share.n
            PROVE  k = l
        <4>1. CASE k \in 1 .. Len(outcomes) /\ l \in 1 .. Len(outcomes)
          BY <3>4, <3>8, <4>1 DEF CountInv
        <4>2. CASE ~(k \in 1 .. Len(outcomes) /\ l \in 1 .. Len(outcomes))
          BY <3>4, <3>6, <3>8, <4>2
        <4> QED
          BY <4>1, <4>2
      <3> QED
        BY <1>5, <3>7, <3>8 DEF CountInv
    <2> QED
      BY <2>1, <2>2
  <1>6. ASSUME NEW pool \in Pools, NEW diff \in Diffs, NEW actualDiff \in Diffs,
               Find(pool, diff, actualDiff) PROVE CountInv'
    <2>1. found \in Nat /\ found' = found + 1 /\ UNCHANGED <<m_results, outcomes>>
      BY <1>6, FindFacts
    <2>2. PICK share \in Share : share.n = found /\ pending' = pending \cup {share}
      BY <1>6, FindFacts
    <2>3. \A k \in DOMAIN outcomes : outcomes[k].share.n \in Nat
      <3>1. \A k \in DOMAIN outcomes : outcomes[k] \in Outcome
        BY DEF Types, MinerTypes
      <3> QED
        BY <3>1 DEF Outcome, Share
    <2> QED
      BY <2>1, <2>2, <2>3 DEF CountInv
  <1> QED
    BY <1>1, <1>3, <1>4, <1>5, <1>6, Moves

-----------------------------------------------------------------------------
(* What was sent, and to whom.                                             *)

\* A list of results that can be answered holds what was written on this connection
\* (Client.cpp, submit, send, login).
LEMMA SentStep ==
  Types /\ NumberInv /\ ResultsWereSent /\ [Next]_vars => NumberInv' /\ ResultsWereSent'
  <1> SUFFICES ASSUME Types, NumberInv, ResultsWereSent, [Next]_vars
               PROVE  NumberInv' /\ ResultsWereSent'
    OBVIOUS
  <1>0. ConnTypes /\ m_sequence \in Nat
    BY DEF Types, ConnTypes
  <1> DEFINE Sent(i, r) == /\ [seq |-> r.seq, kind |-> "share", share |-> r.share] \in written[i]
                           /\ i \notin LongLogins => r.seq # 1
  <1>a. \A i \in Pools : Readable(i) => \A r \in m_results[i] : Sent(i, r)
    BY DEF ResultsWereSent, Readable
  <1>b. ASSUME \A i \in Pools : Readable(i)' => \A r \in m_results'[i] : Sent(i, r)'
        PROVE  ResultsWereSent'
    BY <1>b DEF ResultsWereSent, Readable
  <1> HIDE DEF Sent
  <1>c. UNCHANGED written => \A i : \A r : Sent(i, r)' = Sent(i, r)
    BY DEF Sent
  <1>1. ASSUME UNCHANGED <<written, m_sequence>>,
               \A k \in Pools : m_results'[k] \subseteq m_results[k],
               \A k \in Pools : state'[k] = "connected" => state[k] = "connected",
               \A k \in Pools : Readable(k)' => Readable(k)
        PROVE  NumberInv' /\ ResultsWereSent'
    <2>1. NumberInv'
      BY <1>1 DEF NumberInv
    <2>2. ASSUME NEW k \in Pools, Readable(k)', NEW r \in m_results'[k] PROVE Sent(k, r)'
      BY <1>1, <1>a, <1>c, <2>2
    <2> QED
      BY <1>b, <2>1, <2>2
  <1>2. ASSUME NEW i \in Pools, Connect(i) PROVE NumberInv' /\ ResultsWereSent'
    <2>1. /\ m_results'[i] = {} /\ \A k \in Pools \ {i} : m_results'[k] = m_results[k]
          /\ reading = -1 /\ UNCHANGED reading
          /\ \A k \in Pools \ {i} : state'[k] = state[k] /\ written'[k] = written[k]
          /\ m_sequence' >= m_sequence
          /\ state'[i] = "connected" /\ i \notin LongLogins => m_sequence' = m_sequence + 1
      BY <1>2, ConnectFacts
    <2>2. m_sequence >= 1 /\ m_sequence' \in Nat
      BY <1>0, ConnTypesStep DEF ConnTypes
    <2>3. NumberInv'
      BY <1>0, <2>1, <2>2 DEF NumberInv
    <2>4. ASSUME NEW k \in Pools, Readable(k)', NEW r \in m_results'[k] PROVE Sent(k, r)'
      <3>1. k # i
        BY <2>1, <2>4
      <3>2. Readable(k) /\ r \in m_results[k]
        BY <2>1, <2>4, <3>1 DEF Readable
      <3> QED
        BY <1>a, <2>1, <3>1, <3>2 DEF Sent
    <2> QED
      BY <1>b, <2>3, <2>4
  <1>3. ASSUME NEW i \in Pools, Ping(i) PROVE NumberInv' /\ ResultsWereSent'
    <2>5. /\ \A k \in Pools \ {i} : state'[k] = state[k] /\ written'[k] = written[k]
          /\ m_sequence' >= m_sequence
          /\ state'[i] = "connected" => state[i] = "connected" /\ written[i] \subseteq written'[i]
      BY <1>3, PingFacts
    <2>6. reading = -1 /\ UNCHANGED <<reading, m_results>>
      BY <1>3 DEF Ping, Free
    <2>7. NumberInv'
      <3>1. m_sequence' \in Nat
        BY ConnTypesStep DEF ConnTypes
      <3> QED
        BY <1>0, <2>5, <3>1 DEF NumberInv
    <2>8. ASSUME NEW k \in Pools, Readable(k)', NEW r \in m_results'[k] PROVE Sent(k, r)'
      <3>1. k # -1
        BY DEF Pools
      <3>2. state'[k] = "connected" /\ state[k] = "connected" /\ r \in m_results[k]
        BY <2>5, <2>6, <2>8, <3>1 DEF Readable
      <3>3. written[k] \subseteq written'[k] /\ Sent(k, r)
        BY <1>a, <2>5, <3>2 DEF Readable
      <3> QED
        BY <3>3 DEF Sent
    <2> QED
      BY <1>b, <2>7, <2>8
  <1>4. ASSUME NEW share \in pending, Submit(share) PROVE NumberInv' /\ ResultsWereSent'
    <2>1. CASE m_active = -1
      <3>1. UNCHANGED <<m_results, state, m_sequence, written, reading>>
        BY <1>4, <2>1 DEF Submit
      <3> QED
        BY <1>1, <3>1 DEF Readable
    <2>2. CASE m_active # -1
      <3>1. PICK a \in Pools : a = m_active
        BY <1>4, <2>2, SubmitEffect
      <3>2. /\ \A k \in Pools \ {a} :
                 state'[k] = state[k] /\ written'[k] = written[k] /\ m_results'[k] = m_results[k]
            /\ \A r \in m_results'[a] :
                 r \in m_results[a] \/ r = [seq |-> m_sequence, share |-> share]
            /\ m_sequence' >= m_sequence
            /\ state'[a] = "connected" =>
                 /\ state[a] = "connected"
                 /\ [seq |-> m_sequence, kind |-> "share", share |-> share] \in written'[a]
                 /\ written[a] \subseteq written'[a]
        BY <1>4, <2>2, <3>1, SubmitEffect
      <3>3. reading = -1 /\ UNCHANGED reading
        BY <1>4, SubmitFacts
      <3>4. m_sequence' \in Nat
        BY ConnTypesStep DEF ConnTypes
      <3>5. NumberInv'
        BY <1>0, <3>2, <3>4 DEF NumberInv
      <3>6. ASSUME NEW k \in Pools, Readable(k)', NEW r \in m_results'[k] PROVE Sent(k, r)'
        <4>1. k # -1
          BY DEF Pools
        <4>2. state'[k] = "connected" /\ state[k] = "connected"
          BY <3>2, <3>3, <3>6, <4>1 DEF Readable
        <4>3. written[k] \subseteq written'[k]
          BY <3>2, <4>2
        <4>4. CASE r \in m_results[k]
          BY <1>a, <4>2, <4>3, <4>4 DEF Sent, Readable
        <4>5. CASE r \notin m_results[k]
          <5>1. k = a /\ r = [seq |-> m_sequence, share |-> share]
            BY <3>2, <3>6, <4>5
          <5>2. k \notin LongLogins => m_sequence # 1
            BY <4>2 DEF NumberInv
          <5> QED
            BY <3>2, <4>2, <5>1, <5>2 DEF Sent
        <4> QED
          BY <4>4, <4>5
      <3> QED
        BY <1>b, <3>5, <3>6
    <2> QED
      BY <2>1, <2>2
  <1>5. ASSUME NEW i \in Pools, Answers(i) PROVE NumberInv' /\ ResultsWereSent'
    <2>1. PICK seq \in 1 .. m_sequence, error \in BOOLEAN :
            /\ Line(i, {i}) /\ Answered(i, seq, error) /\ (closed(i) \/ UNCHANGED state)
      BY <1>5 DEF Answers, Error, Accepted
    <2>2. Readable(i) /\ reading' = i /\ UNCHANGED <<m_sequence, written>>
      BY <1>0, <2>1, LineFacts
    <2>3. \A k \in Pools : m_results'[k] \subseteq m_results[k]
      BY <2>1, AnsweredFacts
    <2>4. \A k \in Pools : state'[k] = "connected" => state[k] = "connected"
      BY <1>0, <2>1, ClosedFacts
    <2> QED
      BY <1>1, <2>2, <2>3, <2>4 DEF Readable
  <1>6. ASSUME NEW i \in Pools, Login(i) \/ NewJob(i) \/ BadJob(i) \/ Other(i)
        PROVE  NumberInv' /\ ResultsWereSent'
    <2>1. /\ \E disarmed : Line(i, disarmed)
          /\ UNCHANGED m_results
      BY <1>6 DEF Login, NewJob, BadJob, Other
    <2>2. Readable(i) /\ reading' = i /\ UNCHANGED <<m_sequence, written>>
      BY <1>0, <2>1, LineFacts
    <2>3. \A k \in Pools : state'[k] = "connected" => state[k] = "connected"
      <3>1. CASE Login(i)
        BY <3>1 DEF Login
      <3>2. CASE NewJob(i) \/ BadJob(i) \/ Other(i)
        BY <1>0, <3>2, ClosedFacts DEF NewJob, BadJob, Other
      <3> QED
        BY <1>6, <3>1, <3>2
    <2> QED
      BY <1>1, <2>1, <2>2, <2>3 DEF Readable
  <1>7. ASSUME NEW i \in Pools, ReadError(i) \/ Timeout(i) \/ OnClose(i)
        PROVE  NumberInv' /\ ResultsWereSent'
    <2>1. UNCHANGED <<m_results, m_sequence, written, reading>>
      BY <1>7 DEF ReadError, Timeout, OnClose
    <2>2. \A k \in Pools : state'[k] = "connected" => state[k] = "connected"
      <3>1. CASE OnClose(i)
        BY <1>0, <3>1 DEF OnClose, ConnTypes
      <3>2. CASE ReadError(i) \/ Timeout(i)
        BY <1>0, <3>2, ClosedFacts DEF ReadError, Timeout
      <3> QED
        BY <1>7, <3>1, <3>2
    <2> QED
      BY <1>1, <2>1, <2>2 DEF Readable
  <1>8. CASE \/ \E pool \in Pools, diff, actualDiff \in Diffs : Find(pool, diff, actualDiff)
             \/ OnReadEnd \/ CatchUp \/ UNCHANGED vars
    <2>1. UNCHANGED connVars /\ reading' \in {reading, -1}
      BY <1>8 DEF Find, OnReadEnd, CatchUp, vars
    <2>2. \A k \in Pools : k # -1
      BY DEF Pools
    <2> QED
      BY <1>1, <2>1, <2>2 DEF connVars, Readable
  <1> QED
    BY <1>2, <1>3, <1>4, <1>5, <1>6, <1>7, <1>8, Steps

\* The active pool changes only with the counter of the changes, and the published job
\* with it (FailoverStrategy.cpp, onLoginSuccess, onJobReceived, onClose).
LEMMA ActiveStep ==
  ASSUME Types, published \in {-1, m_active}, [Next]_vars
  PROVE  /\ published' \in {-1, m_active'}
         /\ switches' \in Nat /\ switches' >= switches
         /\ switches' = switches => UNCHANGED m_active
  <1>0. ConnTypes /\ switches \in Nat
    BY DEF Types, MinerTypes
  <1> USE DEF poolVars, minerVars, historyVars
  <1>1. CASE UNCHANGED <<published, m_active, switches>>
    BY <1>0, <1>1
  <1>2. ASSUME NEW i \in Pools, Login(i)
        PROVE  /\ published' \in {-1, m_active'}
               /\ switches' \in Nat /\ switches' >= switches
               /\ switches' = switches => UNCHANGED m_active
    <2>1. /\ m_active' = Elected(i)
          /\ switches' = IF Elected(i) # m_active THEN switches + 1 ELSE switches
          /\ published' = IF Elected(i) = i THEN i ELSE published
      BY <1>2 DEF Login, OnJobReceived
    <2>2. Elected(i) = i \/ Elected(i) = m_active
      BY DEF Elected
    <2> QED
      BY <1>0, <2>1, <2>2
  <1>3. ASSUME NEW i \in Pools, NewJob(i)
        PROVE  published' \in {-1, m_active'} /\ UNCHANGED <<m_active, switches>>
    BY <1>3 DEF NewJob, OnJobReceived
  <1>4. ASSUME NEW i \in Pools, OnClose(i)
        PROVE  /\ published' \in {-1, m_active'}
               /\ switches' \in Nat /\ switches' >= switches
               /\ switches' = switches => UNCHANGED m_active
    BY <1>0, <1>4 DEF OnClose
  <1>5. ASSUME NEW i \in Pools,
               \/ Connect(i) \/ Ping(i) \/ Answers(i) \/ BadJob(i) \/ Other(i)
               \/ ReadError(i) \/ Timeout(i)
        PROVE  UNCHANGED <<published, m_active, switches>>
    BY <1>5 DEF Connect, Ping, Answers, Error, Accepted, BadJob, Other, ReadError, Timeout
  <1>6. ASSUME NEW share \in pending, Submit(share)
        PROVE  UNCHANGED <<published, m_active, switches>>
    BY <1>6 DEF Submit
  <1>7. CASE \/ \E pool \in Pools, diff, actualDiff \in Diffs : Find(pool, diff, actualDiff)
             \/ OnReadEnd \/ CatchUp \/ UNCHANGED vars
    BY <1>1, <1>7 DEF Find, OnReadEnd, CatchUp, vars
  <1> QED
    BY <1>0, <1>1, <1>2, <1>3, <1>4, <1>5, <1>6, <1>7, Steps

\* A share belongs to the active pool, or the pool has changed since it was found, or a
\* thread that had not noticed the change found it.
LEMMA RouteStep == Types /\ RouteInv /\ [Next]_vars => RouteInv'
  <1> SUFFICES ASSUME Types, RouteInv, [Next]_vars PROVE RouteInv'
    OBVIOUS
  <1> DEFINE InTime(s) == s.late \/ s.when < switches \/ (s.when = switches /\ s.pool = m_active)
             Excused(s) == s.late \/ s.when < switches
  <1>0. switches \in Nat /\ m_active \in Pools \cup {-1}
    BY DEF Types, MinerTypes
  <1>1. /\ published' \in {-1, m_active'}
        /\ switches' \in Nat /\ switches' >= switches
        /\ switches' = switches => UNCHANGED m_active
    BY ActiveStep DEF RouteInv
  <1>2. \A s \in Share : (InTime(s) => InTime(s)') /\ (Excused(s) => Excused(s)')
    BY <1>0, <1>1 DEF Share
  <1>3. /\ \A s \in pending : InTime(s) /\ s \in Share
        /\ \A s \in misrouted : Excused(s) /\ s \in Share
    BY DEF RouteInv, Types, MinerTypes
  <1>4. ASSUME \A s \in pending' : InTime(s)', \A s \in misrouted' : Excused(s)' PROVE RouteInv'
    BY <1>1, <1>4 DEF RouteInv
  <1>5. ASSUME NEW share \in pending, Submit(share) PROVE RouteInv'
    <2>1. pending' \subseteq pending
      BY <1>5 DEF Submit
    <2>2. ASSUME NEW s \in misrouted' PROVE Excused(s)'
      <3>1. s \in misrouted \/ (s = share /\ share.pool # m_active)
        BY <1>5 DEF Submit
      <3>2. s \in Share /\ Excused(s)
        BY <1>3, <3>1
      <3> QED
        BY <1>2, <3>2
    <2>3. \A s \in pending' : InTime(s)'
      BY <1>2, <1>3, <2>1
    <2> HIDE DEF InTime, Excused
    <2> QED
      BY <1>4, <2>2, <2>3
  <1>6. ASSUME NEW pool \in Pools, NEW diff \in Diffs, NEW actualDiff \in Diffs,
               Find(pool, diff, actualDiff) PROVE RouteInv'
    <2>1. UNCHANGED <<misrouted, switches, m_active>>
      BY <1>6, FindFacts
    <2>2. PICK share \in Share :
            /\ share.when = switches /\ share.pool = pool /\ share.late = (pool # published)
            /\ pending' = pending \cup {share}
      BY <1>6, FindFacts
    <2>3. pool # -1
      BY DEF Pools
    <2>4. InTime(share)'
      BY <2>1, <2>2, <2>3 DEF RouteInv
    <2>5. \A s \in pending' : InTime(s)'
      <3> HIDE DEF InTime
      <3> QED
        BY <1>2, <1>3, <2>2, <2>4
    <2>6. \A s \in misrouted' : Excused(s)'
      BY <1>2, <1>3, <2>1
    <2> HIDE DEF InTime, Excused
    <2> QED
      BY <1>4, <2>5, <2>6
  <1>7. CASE UNCHANGED <<pending, misrouted>>
    <2> HIDE DEF InTime, Excused
    <2> QED
      BY <1>2, <1>3, <1>4, <1>7
  <1>8. ASSUME NEW i \in Pools,
               \/ Connect(i) \/ Ping(i) \/ Answers(i) \/ Login(i) \/ NewJob(i) \/ BadJob(i)
               \/ Other(i) \/ ReadError(i) \/ Timeout(i) \/ OnClose(i)
        PROVE  UNCHANGED <<pending, misrouted>>
    BY <1>8 DEF Connect, Ping, Answers, Error, Accepted, Login, NewJob, BadJob, Other, Line,
                ReadError, Timeout, OnClose, minerVars, historyVars
  <1>9. OnReadEnd \/ CatchUp \/ UNCHANGED vars => UNCHANGED <<pending, misrouted>>
    BY DEF OnReadEnd, CatchUp, vars, minerVars, historyVars
  <1> QED
    BY <1>5, <1>6, <1>7, <1>8, <1>9, Steps

\* What a line of pool i does to the clients: only a login disconnects others, and none
\* of them is the active pool or the one that is read (FailoverStrategy.cpp,
\* onLoginSuccess).
LEMMA LoginFacts ==
  ASSUME Types, NEW i \in Pools, Login(i)
  PROVE  /\ Readable(i) /\ reading \in {-1, i} /\ reading' = i
         /\ UNCHANGED <<m_results, outcomes>>
         /\ m_active' = Elected(i) /\ Elected(i) \in Pools
         /\ \A k \in Pools :
              /\ state'[k] = "connected" => state[k] = "connected" /\ k \in {0, m_active'}
              /\ purpose'[k] => purpose[k] \/ (k # 0 /\ k # m_active' /\ state'[k] # "connected")
  <1>1. Readable(i) /\ reading \in {-1, i} /\ reading' = i
    BY LineFacts DEF Login, Types
  <1>2. m_active' = Elected(i) /\ Elected(i) \in Pools
    BY DEF Login, Elected, Types, MinerTypes
  <1>3. ASSUME NEW k \in Pools
        PROVE  /\ state'[k] = "connected" => state[k] = "connected" /\ k \in {0, m_active'}
               /\ purpose'[k] => purpose[k] \/ (k # 0 /\ k # m_active' /\ state'[k] # "connected")
    BY <1>2 DEF Login
  <1> QED
    BY <1>1, <1>2, <1>3 DEF Login

\* disconnect() never hits the active pool: a backup that has been told to go away is
\* not elected by what it still sends in the same read (FailoverStrategy.cpp).
LEMMA PurposeStep == Types /\ PurposeInv /\ [Next]_vars => PurposeInv'
  <1> SUFFICES ASSUME Types, PurposeInv, [Next]_vars PROVE PurposeInv'
    OBVIOUS
  <1>0. ConnTypes /\ \A k \in Pools : k # -1
    BY DEF Types, Pools
  <1> USE DEF poolVars, minerVars, historyVars
  <1>1. ASSUME UNCHANGED <<purpose, m_active>>,
               \A k \in Pools : state'[k] = "connected" => state[k] = "connected",
               \A k \in Pools : reading' = k => reading = k \/ state[k] = "connected"
        PROVE  PurposeInv'
    BY <1>1 DEF PurposeInv
  <1>2. ASSUME NEW i \in Pools, Connect(i) PROVE PurposeInv'
    <2>1. /\ ~purpose'[i] /\ \A k \in Pools \ {i} : purpose'[k] = purpose[k]
          /\ UNCHANGED <<m_active, reading>>
          /\ \A k \in Pools \ {i} : state'[k] = state[k]
      BY <1>2, ConnectFacts
    <2> QED
      BY <2>1 DEF PurposeInv
  <1>3. ASSUME NEW i \in Pools, Ping(i) PROVE PurposeInv'
    <2>1. \A k \in Pools : state'[k] = "connected" => state[k] = "connected"
      BY <1>3, PingFacts
    <2> QED
      BY <1>1, <1>3, <2>1 DEF Ping
  <1>4. ASSUME NEW share \in pending, Submit(share) PROVE PurposeInv'
    <2>1. UNCHANGED <<purpose, m_active, reading>>
      BY <1>4 DEF Submit
    <2>2. CASE m_active = -1
      <3>1. UNCHANGED state
        BY <1>4, <2>2 DEF Submit
      <3> QED
        BY <1>1, <2>1, <3>1
    <2>3. CASE m_active # -1
      <3>1. \A k \in Pools : state'[k] = "connected" => state[k] = "connected"
        BY <1>4, <2>3, SubmitEffect
      <3> QED
        BY <1>1, <2>1, <3>1
    <2> QED
      BY <2>2, <2>3
  <1>5. ASSUME NEW i \in Pools, Answers(i) \/ NewJob(i) \/ BadJob(i) \/ Other(i)
        PROVE  PurposeInv'
    <2>1. /\ Line(i, {i}) /\ UNCHANGED <<purpose, m_active>>
          /\ closed(i) \/ UNCHANGED state
      BY <1>5 DEF Answers, Error, Accepted, NewJob, BadJob, Other
    <2>2. Readable(i) /\ reading' = i
      BY <1>0, <2>1, LineFacts
    <2>3. \A k \in Pools : state'[k] = "connected" => state[k] = "connected"
      BY <1>0, <2>1, ClosedFacts
    <2> QED
      BY <1>1, <2>1, <2>2, <2>3 DEF Readable
  <1>6. ASSUME NEW i \in Pools, Login(i) PROVE PurposeInv'
    <2>1. /\ Readable(i) /\ reading \in {-1, i} /\ reading' = i
          /\ m_active' = Elected(i) /\ Elected(i) \in Pools
          /\ \A k \in Pools :
               /\ state'[k] = "connected" => state[k] = "connected"
               /\ purpose'[k] => purpose[k] \/ (k # 0 /\ k # m_active' /\ state'[k] # "connected")
      BY <1>6, LoginFacts
    <2>2. ASSUME NEW k \in Pools, purpose'[k]
          PROVE  k # 0 /\ state'[k] # "connected" /\ k # m_active'
      <3>1. CASE ~purpose[k]
        BY <2>1, <2>2, <3>1
      <3>2. CASE purpose[k]
        <4>1. k # 0 /\ state[k] # "connected" /\ k # m_active /\ (reading = k => m_active # -1)
          BY <3>2 DEF PurposeInv
        <4>2. k # Elected(i)
          BY <2>1, <4>1 DEF Elected, Readable
        <4> QED
          BY <2>1, <4>1, <4>2
      <3> QED
        BY <3>1, <3>2
    <2> QED
      BY <1>0, <2>1, <2>2 DEF PurposeInv
  <1>7. ASSUME NEW i \in Pools, ReadError(i) \/ Timeout(i) PROVE PurposeInv'
    <2>1. \A k \in Pools : state'[k] = "connected" => state[k] = "connected"
      BY <1>0, <1>7, ClosedFacts DEF ReadError, Timeout
    <2> QED
      BY <1>1, <1>7, <2>1 DEF ReadError, Timeout
  <1>8. ASSUME NEW i \in Pools, OnClose(i) PROVE PurposeInv'
    <2>1. /\ reading = -1 /\ UNCHANGED <<reading, purpose>>
          /\ m_active' \in {-1, m_active}
      BY <1>8 DEF OnClose, Free
    <2>2. \A k \in Pools : state'[k] = "connected" => state[k] = "connected"
      BY <1>0, <1>8 DEF OnClose, ConnTypes
    <2> QED
      BY <1>0, <2>1, <2>2 DEF PurposeInv
  <1>9. CASE \/ \E pool \in Pools, diff, actualDiff \in Diffs : Find(pool, diff, actualDiff)
             \/ OnReadEnd \/ CatchUp \/ UNCHANGED vars
    <2>1. UNCHANGED <<connVars, m_active>> /\ reading' \in {reading, -1}
      BY <1>9 DEF Find, OnReadEnd, CatchUp, vars
    <2> QED
      BY <1>0, <1>1, <2>1 DEF connVars
  <1> QED
    BY <1>2, <1>3, <1>4, <1>5, <1>6, <1>7, <1>8, <1>9, Steps

\* A list that can be answered belongs to the active pool: the others are empty, or
\* their connection has been closed (FailoverStrategy.cpp; Client.cpp, login).
LEMMA HolderStep == Types /\ HolderInv /\ [Next]_vars => HolderInv'
  <1> SUFFICES ASSUME Types, HolderInv, [Next]_vars PROVE HolderInv'
    OBVIOUS
  <1>0. ConnTypes /\ \A k \in Pools : k # -1
    BY DEF Types, Pools
  <1> USE DEF poolVars, minerVars, historyVars
  <1>1. ASSUME UNCHANGED m_active,
               \A k \in Pools : m_results'[k] \subseteq m_results[k],
               \A k \in Pools : Readable(k)' => Readable(k)
        PROVE  HolderInv'
    BY <1>1 DEF HolderInv
  <1>2. ASSUME NEW i \in Pools, Connect(i) PROVE HolderInv'
    <2>1. /\ m_results'[i] = {} /\ \A k \in Pools \ {i} : m_results'[k] = m_results[k]
          /\ UNCHANGED <<m_active, reading>>
          /\ \A k \in Pools \ {i} : state'[k] = state[k]
      BY <1>2, ConnectFacts
    <2> QED
      BY <2>1 DEF HolderInv, Readable
  <1>3. ASSUME NEW i \in Pools, Ping(i) PROVE HolderInv'
    <2>1. \A k \in Pools : state'[k] = "connected" => state[k] = "connected"
      BY <1>3, PingFacts
    <2>2. UNCHANGED <<m_results, m_active, reading>>
      BY <1>3 DEF Ping
    <2> QED
      BY <1>1, <2>1, <2>2 DEF Readable
  <1>4. ASSUME NEW share \in pending, Submit(share) PROVE HolderInv'
    <2>1. UNCHANGED <<m_active, reading>>
      BY <1>4 DEF Submit
    <2>2. CASE m_active = -1
      <3>1. UNCHANGED <<state, m_results>>
        BY <1>4, <2>2 DEF Submit
      <3> QED
        BY <1>1, <2>1, <3>1 DEF Readable
    <2>3. CASE m_active # -1
      <3>1. \A k \in Pools \ {m_active} : state'[k] = state[k] /\ m_results'[k] = m_results[k]
        BY <1>4, <2>3, SubmitEffect
      <3> QED
        BY <2>1, <3>1 DEF HolderInv, Readable
    <2> QED
      BY <2>2, <2>3
  <1>5. ASSUME NEW i \in Pools, Answers(i) PROVE HolderInv'
    <2>1. PICK seq \in 1 .. m_sequence, error \in BOOLEAN :
            /\ Line(i, {i}) /\ Answered(i, seq, error) /\ (closed(i) \/ UNCHANGED state)
            /\ UNCHANGED m_active
      BY <1>5 DEF Answers, Error, Accepted
    <2>2. Readable(i) /\ reading' = i
      BY <1>0, <2>1, LineFacts
    <2>3. \A k \in Pools : m_results'[k] \subseteq m_results[k]
      BY <2>1, AnsweredFacts
    <2>4. \A k \in Pools : state'[k] = "connected" => state[k] = "connected"
      BY <1>0, <2>1, ClosedFacts
    <2> QED
      BY <1>1, <2>1, <2>2, <2>3, <2>4 DEF Readable
  <1>6. ASSUME NEW i \in Pools, NewJob(i) \/ BadJob(i) \/ Other(i) PROVE HolderInv'
    <2>1. /\ Line(i, {i}) /\ UNCHANGED <<m_results, m_active>>
          /\ closed(i) \/ UNCHANGED state
      BY <1>6 DEF NewJob, BadJob, Other
    <2>2. Readable(i) /\ reading' = i
      BY <1>0, <2>1, LineFacts
    <2>3. \A k \in Pools : state'[k] = "connected" => state[k] = "connected"
      BY <1>0, <2>1, ClosedFacts
    <2> QED
      BY <1>1, <2>1, <2>2, <2>3 DEF Readable
  <1>7. ASSUME NEW i \in Pools, Login(i) PROVE HolderInv'
    <2>1. /\ Readable(i) /\ reading \in {-1, i} /\ reading' = i
          /\ UNCHANGED m_results
          /\ m_active' = Elected(i)
          /\ \A k \in Pools :
               state'[k] = "connected" => state[k] = "connected" /\ k \in {0, m_active'}
      BY <1>7, LoginFacts
    <2>2. ASSUME NEW k \in Pools, Readable(k)', m_results'[k] # {} PROVE m_active' = k
      <3>1. Readable(k) /\ m_results[k] # {} /\ (k = i \/ k \in {0, m_active'})
        BY <2>1, <2>2 DEF Readable
      <3>2. m_active = k
        BY <3>1 DEF HolderInv
      <3> QED
        BY <1>0, <2>1, <3>1, <3>2 DEF Elected
    <2> QED
      BY <2>2 DEF HolderInv
  <1>8. ASSUME NEW i \in Pools, ReadError(i) \/ Timeout(i) PROVE HolderInv'
    <2>1. \A k \in Pools : state'[k] = "connected" => state[k] = "connected"
      BY <1>0, <1>8, ClosedFacts DEF ReadError, Timeout
    <2>2. UNCHANGED <<m_results, m_active, reading>>
      BY <1>8 DEF ReadError, Timeout
    <2> QED
      BY <1>1, <2>1, <2>2 DEF Readable
  <1>9. ASSUME NEW i \in Pools, OnClose(i) PROVE HolderInv'
    <2>1. /\ reading = -1 /\ UNCHANGED <<reading, m_results>> /\ state[i] = "closing"
          /\ m_active' = m_active \/ m_active = i
      BY <1>9 DEF OnClose, Free
    <2>2. \A k \in Pools : state'[k] = "connected" => state[k] = "connected" /\ k # i
      BY <1>0, <1>9 DEF OnClose, ConnTypes
    <2> QED
      BY <1>0, <2>1, <2>2 DEF HolderInv, Readable
  <1>10. CASE \/ \E pool \in Pools, diff, actualDiff \in Diffs : Find(pool, diff, actualDiff)
              \/ OnReadEnd \/ CatchUp \/ UNCHANGED vars
    <2>1. UNCHANGED <<connVars, m_active>> /\ reading' \in {reading, -1}
      BY <1>10 DEF Find, OnReadEnd, CatchUp, vars
    <2> QED
      BY <1>0, <1>1, <2>1 DEF connVars, Readable
  <1> QED
    BY <1>2, <1>3, <1>4, <1>5, <1>6, <1>7, <1>8, <1>9, <1>10, Steps

-----------------------------------------------------------------------------
(* The statistics.                                                         *)

\* NetworkState, with any list of the best results.
StatsType ==
  stats \in [active : BOOLEAN, accepted : Nat, rejected : Nat, failures : Nat, total : Nat,
             topDiff : {stats.topDiff}, latency : Seq(Pools)]

\* The connection that is shown, where the samples of the latency come from, and that
\* no answer is lost to the counters.
StatsInv ==
  /\ stats.active <=> m_active # -1
  /\ ~mixed => \A k \in DOMAIN stats.latency : stats.latency[k] = m_active
  /\ m_active = -1 => stats.latency = <<>>
  /\ stats.accepted + stats.rejected = Len(outcomes)

\* NetworkState::add(): one of the counters, and a sample for what was accepted.
LEMMA AddFacts ==
  ASSUME StatsType, NEW share \in Share, NEW error \in BOOLEAN, NEW i \in Pools,
         stats' = add(stats, share, error, i)
  PROVE  /\ StatsType' /\ stats'.active = stats.active
         /\ stats'.accepted + stats'.rejected = stats.accepted + stats.rejected + 1
         /\ stats'.latency = stats.latency \/ stats'.latency = Append(stats.latency, i)
         /\ error => /\ stats'.accepted = stats.accepted /\ stats'.total = stats.total
                     /\ stats'.topDiff = stats.topDiff
         /\ ~error => /\ stats'.accepted = stats.accepted + 1
                      /\ stats'.total = stats.total + share.diff
                      /\ stats'.topDiff = topped(stats.topDiff, share.actualDiff)
  <1>0. share.diff \in Nat
    BY SubmissionAssumption DEF Share
  <1>1. CASE error
    <2>1. stats' = [stats EXCEPT !.rejected = stats.rejected + 1]
      BY <1>1 DEF add, StatsType
    <2>2. /\ StatsType' /\ stats'.active = stats.active
          /\ stats'.accepted + stats'.rejected = stats.accepted + stats.rejected + 1
          /\ stats'.latency = stats.latency
      BY <2>1 DEF StatsType
    <2>3. /\ stats'.accepted = stats.accepted /\ stats'.total = stats.total
          /\ stats'.topDiff = stats.topDiff
      BY <2>1 DEF StatsType
    <2> QED
      BY <1>1, <2>2, <2>3
  <1>2. CASE ~error
    <2> DEFINE top == topped(stats.topDiff, share.actualDiff)
               sample == Append(stats.latency, i)
    <2>1. stats' = [stats EXCEPT !.accepted = stats.accepted + 1,
                                 !.total = stats.total + share.diff,
                                 !.topDiff = top, !.latency = sample]
      BY <1>2 DEF add, StatsType
    <2>2. sample \in Seq(Pools)
      BY DEF StatsType
    <2> HIDE DEF top, sample
    <2>3. /\ stats'.active = stats.active /\ stats'.accepted = stats.accepted + 1
          /\ stats'.rejected = stats.rejected /\ stats'.latency = sample
          /\ stats'.topDiff = top /\ stats'.total = stats.total + share.diff
      BY <2>1 DEF StatsType
    <2>4. stats' \in [active : BOOLEAN, accepted : Nat, rejected : Nat, failures : Nat,
                      total : Nat, topDiff : {top}, latency : Seq(Pools)]
      <3> DEFINE Stats(t) == [active : BOOLEAN, accepted : Nat, rejected : Nat, failures : Nat,
                              total : Nat, topDiff : {t}, latency : Seq(Pools)]
                 a == [stats EXCEPT !.accepted = stats.accepted + 1]
                 b == [a EXCEPT !.total = stats.total + share.diff]
                 c == [b EXCEPT !.topDiff = top]
      <3>1. stats \in Stats(stats.topDiff) /\ stats.total + share.diff \in Nat
        BY <1>0 DEF StatsType
      <3>2. a \in Stats(stats.topDiff)
        BY <3>1
      <3> HIDE DEF a
      <3>3. b \in Stats(stats.topDiff)
        BY <3>1, <3>2
      <3> HIDE DEF b
      <3>4. c \in Stats(top)
        BY <3>3
      <3>5. stats' = [c EXCEPT !.latency = sample]
        BY <2>1 DEF a, b
      <3> HIDE DEF c
      <3> QED
        BY <2>2, <3>4, <3>5
    <2> QED
      BY <1>2, <2>3, <2>4 DEF StatsType, sample, top
  <1> QED
    BY <1>1, <1>2

\* NetworkState::setPool() and stop().
LEMMA SetPoolFacts ==
  ASSUME StatsType
  PROVE  /\ stats' = setPool(stats) =>
              /\ StatsType' /\ stats'.active
              /\ stats'.latency = stats.latency
              /\ stats'.accepted = stats.accepted /\ stats'.rejected = stats.rejected
              /\ stats'.total = stats.total /\ stats'.topDiff = stats.topDiff
         /\ stats' = stop(stats) =>
              /\ StatsType' /\ ~stats'.active /\ stats'.latency = <<>>
              /\ stats'.accepted = stats.accepted /\ stats'.rejected = stats.rejected
              /\ stats'.total = stats.total /\ stats'.topDiff = stats.topDiff
  <1>1. ASSUME stats' = setPool(stats)
        PROVE  /\ StatsType' /\ stats'.active
               /\ stats'.latency = stats.latency
               /\ stats'.accepted = stats.accepted /\ stats'.rejected = stats.rejected
               /\ stats'.total = stats.total /\ stats'.topDiff = stats.topDiff
    BY <1>1 DEF setPool, StatsType
  <1>2. ASSUME stats' = stop(stats)
        PROVE  /\ StatsType' /\ ~stats'.active /\ stats'.latency = <<>>
               /\ stats'.accepted = stats.accepted /\ stats'.rejected = stats.rejected
               /\ stats'.total = stats.total /\ stats'.topDiff = stats.topDiff
    <2> DEFINE none == <<>>
    <2>1. none \in Seq(Pools)
      OBVIOUS
    <2>2. stats' = [stats EXCEPT !.active = FALSE, !.failures = stats.failures + 1,
                                 !.latency = none]
      BY <1>2 DEF stop, StatsType
    <2>3. none = <<>>
      OBVIOUS
    <2> HIDE DEF none
    <2>4. /\ ~stats'.active /\ stats'.latency = none /\ stats'.topDiff = stats.topDiff
          /\ stats'.total = stats.total
          /\ stats'.accepted = stats.accepted /\ stats'.rejected = stats.rejected
      BY <2>2 DEF StatsType
    <2>5. stats' \in [active : BOOLEAN, accepted : Nat, rejected : Nat, failures : Nat,
                      total : Nat, topDiff : {stats.topDiff}, latency : Seq(Pools)]
      <3> DEFINE Stats == [active : BOOLEAN, accepted : Nat, rejected : Nat, failures : Nat,
                           total : Nat, topDiff : {stats.topDiff}, latency : Seq(Pools)]
                 a == [stats EXCEPT !.active = FALSE]
                 b == [a EXCEPT !.failures = stats.failures + 1]
      <3>1. stats \in Stats
        BY DEF StatsType
      <3>2. a \in Stats
        BY <3>1
      <3>3. stats' = [b EXCEPT !.latency = none] /\ stats.failures + 1 \in Nat
        BY <2>2 DEF StatsType
      <3> HIDE DEF a
      <3>4. b \in Stats
        BY <3>2, <3>3
      <3> HIDE DEF b
      <3> QED
        BY <2>1, <3>3, <3>4
    <2> QED
      BY <2>3, <2>4, <2>5 DEF StatsType
  <1> QED
    BY <1>1, <1>2

\* The steps that touch the statistics or what they are about.
LEMMA StatsMoves ==
  ASSUME Types, [Next]_vars
  PROVE  \/ UNCHANGED <<stats, m_active, mixed, outcomes>>
         \/ \E i \in Pools, seq \in 1 .. m_sequence, error \in BOOLEAN :
              /\ Readable(i) /\ Answered(i, seq, error)
              /\ UNCHANGED <<m_active, mixed>>
         \/ \E i \in Pools : Login(i) \/ OnClose(i)
  <1> USE DEF connVars, poolVars, historyVars
  <1>0. ConnTypes
    BY DEF Types
  <1>1. ASSUME NEW i \in Pools, Answers(i)
        PROVE  \E seq \in 1 .. m_sequence, error \in BOOLEAN :
                 /\ Readable(i) /\ Answered(i, seq, error)
                 /\ UNCHANGED <<m_active, mixed>>
    <2>1. PICK seq \in 1 .. m_sequence, error \in BOOLEAN :
            Line(i, {i}) /\ Answered(i, seq, error) /\ UNCHANGED <<m_active, mixed>>
      BY <1>1 DEF Answers, Error, Accepted
    <2>2. Readable(i)
      BY <1>0, <2>1, LineFacts
    <2> QED
      BY <2>1, <2>2
  <1>2. ASSUME NEW i \in Pools,
               Connect(i) \/ Ping(i) \/ NewJob(i) \/ BadJob(i) \/ Other(i) \/ ReadError(i)
                 \/ Timeout(i)
        PROVE  UNCHANGED <<stats, m_active, mixed, outcomes>>
    BY <1>2 DEF Connect, Ping, NewJob, BadJob, Other, ReadError, Timeout
  <1>3. ASSUME NEW share \in pending, Submit(share)
        PROVE  UNCHANGED <<stats, m_active, mixed, outcomes>>
    BY <1>3 DEF Submit
  <1>4. \/ \E pool \in Pools, diff, actualDiff \in Diffs : Find(pool, diff, actualDiff)
        \/ OnReadEnd \/ CatchUp \/ UNCHANGED vars
        => UNCHANGED <<stats, m_active, mixed, outcomes>>
    BY DEF Find, OnReadEnd, CatchUp, vars
  <1> QED
    BY <1>1, <1>2, <1>3, <1>4, Steps

\* The statistics follow the pool in use (NetworkState.cpp; Network.cpp, onActive,
\* onPause, onResultAccepted).
LEMMA StatsStep ==
  Types /\ HolderInv /\ StatsType /\ StatsInv /\ [Next]_vars => StatsType' /\ StatsInv'
  <1> SUFFICES ASSUME Types, HolderInv, StatsType, StatsInv, [Next]_vars
               PROVE  StatsType' /\ StatsInv'
    OBVIOUS
  <1>0. /\ \A k \in Pools : k # -1
        /\ stats.latency \in Seq(Pools) /\ outcomes \in Seq(Outcome)
        /\ stats.accepted \in Nat /\ stats.rejected \in Nat
        /\ m_active \in Pools \cup {-1} /\ mixed \in BOOLEAN
    BY DEF Types, MinerTypes, Pools, StatsType
  <1>1. CASE UNCHANGED <<stats, m_active, mixed, outcomes>>
    BY <1>1 DEF StatsType, StatsInv
  <1>2. ASSUME NEW i \in Pools, NEW seq, NEW error \in BOOLEAN, Readable(i),
               Answered(i, seq, error), UNCHANGED <<m_active, mixed>>
        PROVE  StatsType' /\ StatsInv'
    <2>1. CASE UNCHANGED <<stats, outcomes>>
      BY <1>1, <1>2, <2>1
    <2>2. CASE ~UNCHANGED <<stats, outcomes>>
      <3>1. PICK r \in m_results[i] :
              /\ r.share \in Share /\ stats' = add(stats, r.share, error, i)
              /\ outcomes' = Append(outcomes, [share |-> r.share, error |-> error, by |-> i])
        BY <1>2, <2>2, AnsweredFacts
      <3>2. m_active = i
        BY <1>2, <3>1 DEF HolderInv
      <3>3. /\ StatsType' /\ stats'.active = stats.active
            /\ stats'.accepted + stats'.rejected = stats.accepted + stats.rejected + 1
            /\ stats'.latency = stats.latency \/ stats'.latency = Append(stats.latency, i)
        BY <3>1, AddFacts
      <3>4. Len(outcomes') = Len(outcomes) + 1
        BY <1>0, <3>1
      <3>5. ~mixed => \A k \in DOMAIN stats'.latency : stats'.latency[k] = i
        <4> SUFFICES ASSUME ~mixed PROVE \A k \in DOMAIN stats'.latency : stats'.latency[k] = i
          OBVIOUS
        <4>1. \A k \in DOMAIN stats.latency : stats.latency[k] = i
          BY <3>2 DEF StatsInv
        <4>2. CASE stats'.latency = Append(stats.latency, i)
          <5>1. PICK q \in Seq(Pools) : q = stats.latency
            BY <1>0
          <5>2. \A k \in DOMAIN Append(q, i) : Append(q, i)[k] = i
            BY <4>1, <5>1
          <5> QED
            BY <4>2, <5>1, <5>2
        <4> QED
          BY <3>3, <4>1, <4>2
      <3>6. m_active' # -1 /\ stats'.active
        BY <1>0, <1>2, <3>2, <3>3 DEF StatsInv
      <3>7. stats'.accepted + stats'.rejected = Len(outcomes')
        BY <3>3, <3>4 DEF StatsInv
      <3> QED
        BY <1>2, <3>2, <3>3, <3>5, <3>6, <3>7 DEF StatsInv
    <2> QED
      BY <2>1, <2>2
  <1>3. ASSUME NEW i \in Pools, Login(i) PROVE StatsType' /\ StatsInv'
    <2>1. /\ m_active' = Elected(i) /\ UNCHANGED outcomes
          /\ stats' = IF Elected(i) # m_active THEN setPool(stats) ELSE stats
          /\ mixed' = (mixed \/ (Elected(i) # m_active /\ m_active # -1))
      BY <1>3 DEF Login
    <2>2. CASE Elected(i) = m_active
      BY <1>0, <1>1, <2>1, <2>2
    <2>3. CASE Elected(i) # m_active
      <3>1. Elected(i) = i
        BY <2>3 DEF Elected
      <3>2. /\ StatsType' /\ stats'.active /\ stats'.latency = stats.latency
            /\ stats'.accepted = stats.accepted /\ stats'.rejected = stats.rejected
        BY <2>1, <2>3, SetPoolFacts
      <3>3. m_active' # -1
        BY <1>0, <2>1, <3>1
      <3>4. ~mixed' => \A k \in DOMAIN stats'.latency : stats'.latency[k] = m_active'
        <4>1. CASE m_active = -1
          <5>1. stats'.latency = <<>>
            BY <3>2, <4>1 DEF StatsInv
          <5> QED
            BY <5>1
        <4>2. CASE m_active # -1
          BY <2>1, <2>3, <4>2
        <4> QED
          BY <4>1, <4>2
      <3> QED
        BY <2>1, <3>2, <3>3, <3>4 DEF StatsInv
    <2> QED
      BY <2>2, <2>3
  <1>4. ASSUME NEW i \in Pools, OnClose(i) PROVE StatsType' /\ StatsInv'
    <2> DEFINE lost == m_active = i /\ ~purpose[i]
    <2>1. /\ m_active' = IF lost THEN -1 ELSE m_active
          /\ stats' = IF lost THEN stop(stats) ELSE stats
          /\ mixed' = (mixed /\ ~lost) /\ UNCHANGED outcomes
      BY <1>4 DEF OnClose, historyVars
    <2> HIDE DEF lost
    <2>2. CASE ~lost
      BY <1>0, <1>1, <2>1, <2>2
    <2>3. CASE lost
      <3>1. /\ StatsType' /\ ~stats'.active /\ stats'.latency = <<>>
            /\ stats'.accepted = stats.accepted /\ stats'.rejected = stats.rejected
        BY <2>1, <2>3, SetPoolFacts
      <3>2. \A k \in DOMAIN stats'.latency : FALSE
        BY <3>1
      <3> QED
        BY <2>1, <2>3, <3>1, <3>2 DEF StatsInv
    <2> QED
      BY <2>2, <2>3
  <1> QED
    BY <1>1, <1>2, <1>3, <1>4, StatsMoves

-----------------------------------------------------------------------------
(* The counters and the list of the best results.                          *)

\* A set of natural numbers that is not empty has a least element.
LEMMA LeastNumber ==
  ASSUME NEW S, S \subseteq Nat, S # {}
  PROVE  \E x \in S : \A y \in S : x <= y
  <1>1. PICK x \in S : \A y \in S : ~(<<y, x>> \in OpToRel(<, Nat))
    BY WFMin, NatLessThanWellFounded
  <1>2. \A y \in S : ~(y < x)
    BY <1>1 DEF OpToRel
  <1> QED
    BY <1>2

\* A list of n numbers from the largest to the smallest.
Sorted(t, n) == \A j, k \in 1 .. n : j < k => t[j] >= t[k]

\* The places of list s in the order of their numbers.
Order(p, s, n) ==
  /\ p \in [1 .. n -> 1 .. n]
  /\ \A j, k \in 1 .. n : p[j] = p[k] => j = k
  /\ \A k \in 1 .. n : \E j \in 1 .. n : p[j] = k
  /\ \A j, k \in 1 .. n : j < k => s[p[j]] >= s[p[k]]

\* List s is t with a in its last place.
Replaced(s, t, n, a) == s[n] = a /\ \A k \in 1 .. n : k # n => s[k] = t[k]

\* Where place k comes from when the last place n goes to x and those behind x move on.
Inserted(k, from, x, n) ==
  /\ k < x => from = k /\ k < n
  /\ k = x => from = n
  /\ x < k => from = k - 1 /\ x <= k - 1 /\ k - 1 < n

\* No place goes to two.
LEMMA InsertedOnce ==
  ASSUME NEW j \in Int, NEW k \in Int, NEW from \in Int, NEW x \in Int, NEW n \in Int,
         Inserted(j, from, x, n), Inserted(k, from, x, n)
  PROVE  j = k
  BY DEF Inserted

\* There is an order for a sorted list whose last number was replaced by a larger one.
LEMMA OrderExists ==
  ASSUME NEW n \in Nat \ {0}, NEW t \in [1 .. n -> Nat], Sorted(t, n),
         NEW a \in Nat, a > t[n], NEW s \in [1 .. n -> Nat], Replaced(s, t, n, a)
  PROVE  \E p : Order(p, s, n)
  <1>0. s[n] = a /\ \A k \in 1 .. n : k # n => s[k] = t[k]
    BY DEF Replaced
  <1> DEFINE S == {k \in 1 .. n : t[k] < a}
  <1>1. n \in S /\ S \subseteq Nat
    OBVIOUS
  <1>2. PICK x \in S : \A y \in S : x <= y
    BY <1>1, LeastNumber
  <1>3. x \in 1 .. n /\ t[x] < a /\ \A k \in 1 .. n : t[k] < a => x <= k
    BY <1>2
  <1>4. \A k \in 1 .. n : k < x => t[k] >= a
    <2> SUFFICES ASSUME NEW k \in 1 .. n, k < x PROVE t[k] >= a
      OBVIOUS
    <2>1. ~(x <= k) /\ t[k] \in Nat
      BY <1>3
    <2> QED
      BY <1>3, <2>1
  <1>5. \A k \in 1 .. n : x <= k => t[k] < a
    <2> SUFFICES ASSUME NEW k \in 1 .. n, x <= k PROVE t[k] < a
      OBVIOUS
    <2>1. t[x] \in Nat /\ t[k] \in Nat
      BY <1>3
    <2>2. CASE k = x
      BY <1>3, <2>2
    <2>3. CASE k # x
      <3>1. t[x] >= t[k]
        BY <1>3, <2>3 DEF Sorted
      <3> QED
        BY <1>3, <2>1, <3>1
    <2> QED
      BY <2>2, <2>3
  <1> HIDE DEF S
  <1> DEFINE p == [k \in 1 .. n |-> IF k < x THEN k ELSE IF k = x THEN n ELSE k - 1]
  <1>6. /\ \A k \in 1 .. n : k < x => p[k] = k
        /\ p[x] = n
        /\ \A k \in 1 .. n : x < k => p[k] = k - 1
    BY <1>3
  <1>7. p \in [1 .. n -> 1 .. n]
    BY <1>3
  <1> HIDE DEF p
  <1>8. \A j, k \in 1 .. n : p[j] = p[k] => j = k
    <2> SUFFICES ASSUME NEW j \in 1 .. n, NEW k \in 1 .. n, p[j] = p[k] PROVE j = k
      OBVIOUS
    <2>1. PICK y, z \in Int : y = p[j] /\ z = p[k]
      BY <1>7
    <2>2. ASSUME NEW i \in 1 .. n PROVE Inserted(i, p[i], x, n)
      <3>1. CASE i < x
        BY <1>3, <1>6, <3>1 DEF Inserted
      <3>2. CASE i = x
        BY <1>3, <1>6, <3>2 DEF Inserted
      <3>3. CASE x < i
        BY <1>3, <1>6, <3>3 DEF Inserted
      <3> QED
        BY <1>3, <3>1, <3>2, <3>3
    <2>3. x \in Int /\ j \in Int /\ k \in Int /\ n \in Int /\ y = z
      BY <1>3, <2>1
    <2> QED
      BY <2>1, <2>2, <2>3, InsertedOnce
  <1>9. ASSUME NEW k \in 1 .. n PROVE \E j \in 1 .. n : p[j] = k
    <2>1. CASE k = n
      BY <1>3, <1>6, <2>1
    <2>2. CASE k # n /\ k < x
      BY <1>6, <2>2
    <2>3. CASE k # n /\ x <= k
      <3>1. k + 1 \in 1 .. n /\ x < k + 1 /\ (k + 1) - 1 = k
        BY <1>3, <2>3
      <3> QED
        BY <1>6, <3>1
    <2> QED
      BY <1>3, <2>1, <2>2, <2>3
  <1>10. ASSUME NEW k \in 1 .. n
         PROVE  /\ k < x => s[p[k]] = t[k]
                /\ k = x => s[p[k]] = a
                /\ x < k => s[p[k]] = t[k - 1]
    <2>1. CASE k < x
      <3>1. k # n
        BY <1>3, <2>1
      <3> QED
        BY <1>0, <1>6, <2>1, <3>1
    <2>2. CASE k = x
      BY <1>0, <1>6, <2>2
    <2>3. CASE x < k
      <3>1. k - 1 \in 1 .. n /\ k - 1 # n
        BY <1>3, <2>3
      <3> QED
        BY <1>0, <1>6, <2>3, <3>1
    <2> QED
      BY <1>3, <2>1, <2>2, <2>3
  <1>11. ASSUME NEW j \in 1 .. n, NEW k \in 1 .. n, j < k PROVE s[p[j]] >= s[p[k]]
    <2>0. t[j] \in Nat /\ t[k] \in Nat
      OBVIOUS
    <2>1. CASE k < x
      <3>1. j < x /\ t[j] >= t[k]
        BY <1>3, <1>11, <2>1 DEF Sorted
      <3> QED
        BY <1>10, <2>1, <3>1
    <2>2. CASE k = x
      <3>1. j < x /\ t[j] >= a
        BY <1>4, <1>11, <2>2
      <3> QED
        BY <1>10, <2>2, <3>1
    <2>3. CASE x < k
      <3>1. k - 1 \in 1 .. n /\ x <= k - 1
        BY <1>3, <2>3
      <3>2. t[k - 1] \in Nat /\ t[k - 1] < a /\ s[p[k]] = t[k - 1]
        BY <1>5, <1>10, <2>3, <3>1
      <3>3. CASE j = x
        BY <1>10, <3>2, <3>3
      <3>4. CASE j < x
        BY <1>4, <1>10, <2>0, <3>2, <3>4
      <3>5. CASE x < j
        <4>1. j - 1 \in 1 .. n /\ j - 1 < k - 1
          BY <1>3, <1>11, <3>5
        <4>2. t[j - 1] >= t[k - 1]
          BY <3>1, <4>1 DEF Sorted
        <4> QED
          BY <1>10, <3>2, <3>5, <4>2
      <3> QED
        BY <1>3, <3>3, <3>4, <3>5
    <2> QED
      BY <1>3, <2>1, <2>2, <2>3
  <1>12. Order(p, s, n)
    BY <1>7, <1>8, <1>9, <1>11 DEF Order
  <1> QED
    BY <1>12

\* The places with v or more.
Places(t, n, v) == {k \in 1 .. n : t[k] >= v}

\* List r is s in that order.
Moved(r, s, p, n) == Order(p, s, n) /\ \A k \in 1 .. n : r[k] = s[p[k]]

\* An order moves as many numbers of v or more as there are.
LEMMA SamePlaces ==
  ASSUME NEW n \in Nat, NEW s \in [1 .. n -> Nat], NEW p,
         NEW r \in [1 .. n -> Nat], Moved(r, s, p, n), NEW v \in Nat
  PROVE  Cardinality(Places(r, n, v)) = Cardinality(Places(s, n, v))
  <1> DEFINE F == [k \in Places(r, n, v) |-> p[k]]
  <1>1. /\ p \in [1 .. n -> 1 .. n]
        /\ \A j, k \in 1 .. n : p[j] = p[k] => j = k
        /\ \A k \in 1 .. n : \E j \in 1 .. n : p[j] = k
        /\ \A k \in 1 .. n : r[k] = s[p[k]]
    BY DEF Moved, Order
  <1>2. \A k \in 1 .. n : k \in Places(r, n, v) <=> p[k] \in Places(s, n, v)
    BY <1>1 DEF Places
  <1>3. Places(r, n, v) \subseteq 1 .. n /\ Places(s, n, v) \subseteq 1 .. n
    BY DEF Places
  <1>4. F \in [Places(r, n, v) -> Places(s, n, v)]
    BY <1>2, <1>3
  <1>5. \A j, k \in Places(r, n, v) : F[j] = F[k] => j = k
    BY <1>1, <1>3
  <1>6. \A k \in Places(s, n, v) : \E j \in Places(r, n, v) : F[j] = k
    <2> SUFFICES ASSUME NEW k \in Places(s, n, v) PROVE \E j \in Places(r, n, v) : F[j] = k
      OBVIOUS
    <2>1. PICK j \in 1 .. n : p[j] = k
      BY <1>1, <1>3
    <2>2. j \in Places(r, n, v)
      BY <1>2, <2>1
    <2> QED
      BY <2>1, <2>2
  <1> HIDE DEF F
  <1>7. F \in Bijection(Places(r, n, v), Places(s, n, v))
    BY <1>4, <1>5, <1>6, Fun_IsBij
  <1>8. ExistsBijection(Places(r, n, v), Places(s, n, v))
    BY <1>7 DEF ExistsBijection
  <1>9. IsFiniteSet(1 .. n)
    BY FS_Interval
  <1>10. IsFiniteSet(Places(r, n, v))
    BY <1>3, <1>9, FS_Subset
  <1> QED
    BY <1>8, <1>10, FS_Bijection

\* For a result a, list s has one more place with v or more than t, unless all were.
Grows(t, s, n, a, v) ==
  LET before == Cardinality(Places(t, n, v))
  IN  /\ before \in 0 .. n
      /\ Cardinality(Places(s, n, v)) = IF v <= a /\ before < n THEN before + 1 ELSE before

\* A result a that enters the list pushes out the last one: the places with v or more
\* become one more, unless all were.
LEMMA OneMorePlace ==
  ASSUME NEW n \in Nat \ {0}, NEW t \in [1 .. n -> Nat], Sorted(t, n),
         NEW a \in Nat, a > t[n], NEW s \in [1 .. n -> Nat], Replaced(s, t, n, a), NEW v \in Nat
  PROVE  Grows(t, s, n, a, v)
  <1>1. IsFiniteSet(1 .. n) /\ Cardinality(1 .. n) = n
    BY FS_Interval
  <1>2. Places(t, n, v) \subseteq 1 .. n
    BY DEF Places
  <1>3. /\ IsFiniteSet(Places(t, n, v)) /\ Cardinality(Places(t, n, v)) <= n
        /\ Cardinality(Places(t, n, v)) = n => Places(t, n, v) = 1 .. n
    BY <1>1, <1>2, FS_Subset
  <1>4. Cardinality(Places(t, n, v)) \in Nat
    BY <1>3, FS_CardinalityType
  <1>5. /\ n \in 1 .. n /\ t[n] \in Nat
        /\ s[n] = a /\ \A k \in 1 .. n : k # n => s[k] = t[k]
    BY DEF Replaced
  <1>6. CASE a < v
    <2>1. Places(s, n, v) = Places(t, n, v)
      <3> SUFFICES ASSUME NEW k \in 1 .. n PROVE s[k] >= v <=> t[k] >= v
        BY DEF Places
      <3>1. CASE k = n
        BY <1>5, <1>6, <3>1
      <3> QED
        BY <1>5, <3>1
    <2> QED
      BY <1>3, <1>4, <1>6, <2>1 DEF Grows
  <1>7. CASE v <= a /\ t[n] >= v
    <2>1. \A k \in 1 .. n : t[k] >= v /\ s[k] >= v
      <3> SUFFICES ASSUME NEW k \in 1 .. n PROVE t[k] >= v /\ s[k] >= v
        OBVIOUS
      <3>1. CASE k = n
        BY <1>5, <1>7, <3>1
      <3>2. CASE k # n
        <4>1. t[k] >= t[n] /\ t[k] \in Nat
          BY <1>5, <3>2 DEF Sorted
        <4> QED
          BY <1>5, <1>7, <3>2, <4>1
      <3> QED
        BY <3>1, <3>2
    <2>2. Places(t, n, v) = 1 .. n /\ Places(s, n, v) = 1 .. n
      BY <2>1 DEF Places
    <2> QED
      BY <1>1, <1>3, <1>4, <2>2 DEF Grows
  <1>8. CASE v <= a /\ ~(t[n] >= v)
    <2>1. n \notin Places(t, n, v)
      BY <1>8 DEF Places
    <2>2. Places(s, n, v) = Places(t, n, v) \cup {n}
      <3>1. \A k \in 1 .. n : s[k] >= v <=> (t[k] >= v \/ k = n)
        BY <1>5, <1>8
      <3> QED
        BY <1>5, <3>1 DEF Places
    <2>3. Cardinality(Places(s, n, v)) = Cardinality(Places(t, n, v)) + 1
      BY <1>3, <2>1, <2>2, FS_AddElement
    <2>4. Cardinality(Places(t, n, v)) # n
      BY <1>3, <1>5, <2>1
    <2> QED
      BY <1>3, <1>4, <1>8, <2>3, <2>4 DEF Grows
  <1> QED
    BY <1>5, <1>6, <1>7, <1>8

\* The list of the best results after one more: sorted, of the same numbers and the new
\* one, and with one more place of v or more for it, as far as there are places.
LEMMA ToppedFacts ==
  ASSUME NEW D, D \subseteq Nat, 0 \in D, NEW t \in [1 .. TopSize -> D], Sorted(t, TopSize),
         NEW a \in D
  PROVE  LET r == topped(t, a)
         IN  /\ r \in [1 .. TopSize -> D] /\ Sorted(r, TopSize)
             /\ \A v \in Nat : Grows(t, r, TopSize, a, v)
  <1>0. PICK n \in Nat \ {0} : n = TopSize
    BY TopSizeAssumption
  <1>1. t \in [1 .. n -> D] /\ t \in [1 .. n -> Nat] /\ Sorted(t, n) /\ a \in Nat /\ n \in 1 .. n
    <2>1. t \in [1 .. n -> D] /\ Sorted(t, n) /\ a \in Nat /\ n \in 1 .. n
      BY <1>0
    <2>2. \A k \in 1 .. n : t[k] \in Nat
      BY <2>1
    <2> QED
      BY <2>1, <2>2
  <1>2. CASE a > t[n]
    <2>1. PICK s : s = [t EXCEPT ![n] = a]
      OBVIOUS
    <2>2. /\ s \in [1 .. n -> D] /\ s \in [1 .. n -> Nat] /\ s[n] = a
          /\ \A k \in 1 .. n : k # n => s[k] = t[k]
      BY <1>1, <2>1
    <2>3. DOMAIN s = 1 .. n /\ Replaced(s, t, n, a)
      BY <2>2 DEF Replaced
    <2> DEFINE Good(p) == /\ p \in Bijection(1 .. n, 1 .. n)
                          /\ \A j, k \in 1 .. n : j < k => s[p[j]] >= s[p[k]]
    <2>4. PICK q : Order(q, s, n)
      BY <1>1, <1>2, <2>2, <2>3, OrderExists
    <2>5. q \in Bijection(1 .. n, 1 .. n)
      BY <2>4, Fun_IsBij DEF Order
    <2>6. Good(q)
      BY <2>4, <2>5 DEF Order
    <2>7. Good(CHOOSE p : Good(p))
      BY <2>6
    <2>8. PICK place : Good(place) /\ Descending(s) = [k \in 1 .. n |-> s[place[k]]]
      <3> DEFINE first == CHOOSE p : Good(p)
      <3>1. Descending(s) = [k \in 1 .. n |-> s[first[k]]]
        BY <2>3 DEF Descending
      <3> QED
        BY <2>7, <3>1
    <2>9. place \in Bijection(1 .. n, 1 .. n)
      BY <2>8
    <2>10. Order(place, s, n)
      <3>1. /\ place \in [1 .. n -> 1 .. n]
            /\ \A j, k \in 1 .. n : place[j] = place[k] => j = k
        BY <2>9 DEF Bijection, Injection, IsInjective
      <3>2. \A k \in 1 .. n : \E j \in 1 .. n : place[j] = k
        BY <2>9 DEF Bijection, Surjection
      <3> QED
        BY <2>8, <3>1, <3>2 DEF Order
    <2>11. PICK r : r = [k \in 1 .. n |-> s[place[k]]]
      OBVIOUS
    <2>12. r \in [1 .. n -> D] /\ r \in [1 .. n -> Nat] /\ \A k \in 1 .. n : r[k] = s[place[k]]
      BY <2>2, <2>10, <2>11 DEF Order
    <2>13. Sorted(r, n)
      <3>1. \A j, k \in 1 .. n : j < k => s[place[j]] >= s[place[k]]
        BY <2>8
      <3> QED
        BY <2>12, <3>1 DEF Sorted
    <2>14. topped(t, a) = r
      BY <1>0, <1>2, <2>1, <2>8, <2>11 DEF topped
    <2>15. ASSUME NEW v \in Nat PROVE Grows(t, r, n, a, v)
      <3>1. Cardinality(Places(r, n, v)) = Cardinality(Places(s, n, v))
        <4>1. Moved(r, s, place, n)
          BY <2>10, <2>12 DEF Moved
        <4>2. s \in [1 .. n -> Nat] /\ r \in [1 .. n -> Nat]
          BY <2>2, <2>12
        <4> QED
          BY <4>1, <4>2, SamePlaces
      <3>2. Grows(t, s, n, a, v)
        BY <1>1, <1>2, <2>2, <2>3, OneMorePlace
      <3> QED
        BY <3>1, <3>2 DEF Grows
    <2> QED
      BY <1>0, <2>12, <2>13, <2>14, <2>15
  <1>3. CASE ~(a > t[n])
    <2>1. topped(t, a) = t
      BY <1>0, <1>3 DEF topped
    <2>2. ASSUME NEW v \in Nat PROVE Grows(t, t, n, a, v)
      <3>1. IsFiniteSet(1 .. n) /\ Cardinality(1 .. n) = n
        BY FS_Interval
      <3>2. Places(t, n, v) \subseteq 1 .. n
        BY DEF Places
      <3>3. IsFiniteSet(Places(t, n, v)) /\ Cardinality(Places(t, n, v)) <= n
        BY <3>1, <3>2, FS_Subset
      <3>4. Cardinality(Places(t, n, v)) \in Nat
        BY <3>3, FS_CardinalityType
      <3>5. ASSUME v <= a PROVE Places(t, n, v) = 1 .. n
        <4> SUFFICES ASSUME NEW k \in 1 .. n PROVE t[k] >= v
          BY DEF Places
        <4>1. t[k] \in Nat /\ t[n] \in Nat
          BY <1>1
        <4>2. t[k] >= t[n]
          <5>1. CASE k = n
            BY <4>1, <5>1
          <5>2. CASE k # n
            BY <1>1, <5>2 DEF Sorted
          <5> QED
            BY <5>1, <5>2
        <4> QED
          BY <1>1, <1>3, <3>5, <4>1, <4>2
      <3> QED
        BY <3>1, <3>3, <3>4, <3>5 DEF Grows
    <2> QED
      BY <1>0, <1>1, <2>1, <2>2
  <1> QED
    BY <1>2, <1>3

\* What an answer adds to the total, and the totals after each answer.
Worth(call) == IF call.error THEN 0 ELSE call.share.diff

Sums(f, calls) ==
  f = [k \in 0 .. Len(calls) |->
         IF k = 0 THEN 0
         ELSE f[k - 1] + (IF calls[k].error THEN 0 ELSE calls[k].share.diff)]

\* One more answer: the totals go on.
LEMMA SumsGrow ==
  ASSUME NEW calls \in Seq(Outcome), NEW o \in Outcome
  PROVE  /\ \A f : Sums(f, calls) => \E g : Sums(g, Append(calls, o))
         /\ \A g : Sums(g, Append(calls, o)) =>
              \E f : /\ Sums(f, calls)
                     /\ g[Len(calls) + 1] = f[Len(calls)] + Worth(o)
  <1>0. PICK n \in Nat : n = Len(calls)
    OBVIOUS
  <1>1. PICK more : n = Len(calls) /\ more = Append(calls, o)
    BY <1>0
  <1>2. /\ Len(more) = n + 1 /\ more[n + 1] = o
        /\ \A k \in 1 .. n : more[k] = calls[k]
    BY <1>1
  <1> DEFINE W(k) == IF more[k].error THEN 0 ELSE more[k].share.diff
  <1>3. W(n + 1) = Worth(o)
    BY <1>2 DEF Worth
  <1>4. \A k \in 1 .. n : W(k) = IF calls[k].error THEN 0 ELSE calls[k].share.diff
    BY <1>2
  <1> HIDE DEF W
  <1>5. \A f : Sums(f, calls) <=>
          f = [k \in 0 .. n |-> IF k = 0 THEN 0 ELSE f[k - 1] + W(k)]
    <2> SUFFICES ASSUME NEW f
                 PROVE  [k \in 0 .. n |-> IF k = 0 THEN 0 ELSE f[k - 1] + W(k)]
                        = [k \in 0 .. n |-> IF k = 0 THEN 0
                             ELSE f[k - 1] + (IF calls[k].error THEN 0 ELSE calls[k].share.diff)]
      BY <1>1 DEF Sums
    <2>1. \A k \in 0 .. n : k # 0 => k \in 1 .. n
      OBVIOUS
    <2> QED
      BY <1>4, <2>1
  <1>6. \A g : Sums(g, more) <=>
          g = [k \in 0 .. n + 1 |-> IF k = 0 THEN 0 ELSE g[k - 1] + W(k)]
    BY <1>2 DEF Sums, W
  <1>7. ASSUME NEW f, Sums(f, calls) PROVE \E g : Sums(g, more)
    <2>1. f = [k \in 0 .. n |-> IF k = 0 THEN 0 ELSE f[k - 1] + W(k)]
      BY <1>5, <1>7
    <2>2. \A k \in 0 .. n : f[k] = IF k = 0 THEN 0 ELSE f[k - 1] + W(k)
      BY <2>1
    <2> DEFINE g == [k \in 0 .. n + 1 |-> IF k = n + 1 THEN f[n] + W(k) ELSE f[k]]
    <2>3. g[n + 1] = f[n] + W(n + 1) /\ \A k \in 0 .. n : g[k] = f[k]
      OBVIOUS
    <2>4. g = [k \in 0 .. n + 1 |-> g[k]]
      OBVIOUS
    <2> HIDE DEF g
    <2>5. ASSUME NEW k \in 0 .. n + 1
          PROVE  g[k] = IF k = 0 THEN 0 ELSE g[k - 1] + W(k)
      <3>1. CASE k = n + 1
        <4>1. k - 1 = n /\ n \in 0 .. n /\ k # 0
          BY <3>1
        <4> QED
          BY <2>3, <3>1, <4>1
      <3>2. CASE k = 0
        <4>1. 0 \in 0 .. n
          OBVIOUS
        <4> QED
          BY <2>2, <2>3, <3>2, <4>1
      <3>3. CASE k # n + 1 /\ k # 0
        <4>1. k \in 0 .. n /\ k - 1 \in 0 .. n
          BY <3>3
        <4> QED
          BY <2>2, <2>3, <3>3, <4>1
      <3> QED
        BY <3>1, <3>2, <3>3
    <2>6. Sums(g, more)
      BY <1>6, <2>4, <2>5
    <2> QED
      BY <2>6
  <1>8. ASSUME NEW g, Sums(g, more)
        PROVE  \E f : Sums(f, calls) /\ g[n + 1] = f[n] + Worth(o)
    <2>1. g = [k \in 0 .. n + 1 |-> IF k = 0 THEN 0 ELSE g[k - 1] + W(k)]
      BY <1>6, <1>8
    <2>2. \A k \in 0 .. n + 1 : g[k] = IF k = 0 THEN 0 ELSE g[k - 1] + W(k)
      BY <2>1
    <2> DEFINE f == [k \in 0 .. n |-> g[k]]
    <2>3. \A k \in 0 .. n : f[k] = g[k]
      OBVIOUS
    <2>4. f = [k \in 0 .. n |-> f[k]]
      OBVIOUS
    <2> HIDE DEF f
    <2>5. ASSUME NEW k \in 0 .. n
          PROVE  f[k] = IF k = 0 THEN 0 ELSE f[k - 1] + W(k)
      <3>1. CASE k = 0
        BY <2>2, <2>3, <3>1
      <3>2. CASE k # 0
        <4>1. k - 1 \in 0 .. n /\ k \in 0 .. n + 1
          BY <3>2
        <4> QED
          BY <2>2, <2>3, <3>2, <4>1
      <3> QED
        BY <3>1, <3>2
    <2>6. Sums(f, calls)
      BY <1>5, <2>4, <2>5
    <2>7. g[n + 1] = g[n] + W(n + 1)
      <3>1. n + 1 \in 0 .. n + 1 /\ n + 1 # 0 /\ (n + 1) - 1 = n
        OBVIOUS
      <3> QED
        BY <2>2, <3>1
    <2>8. f[n] = g[n]
      BY <2>3
    <2> QED
      BY <1>3, <2>6, <2>7, <2>8
  <1> QED
    BY <1>1, <1>7, <1>8

\* The answers that accepted a share, and those for a result of v at least.
Taken(calls) == {k \in DOMAIN calls : ~calls[k].error}
Better(calls, v) == {k \in DOMAIN calls : ~calls[k].error /\ calls[k].share.actualDiff >= v}

\* One more answer adds itself to them or nothing.
LEMMA GoodGrow ==
  ASSUME NEW calls \in Seq(Outcome), NEW o \in Outcome, NEW v \in Nat
  PROVE  /\ Cardinality(Taken(calls)) \in Nat /\ Cardinality(Better(calls, v)) \in Nat
         /\ Cardinality(Taken(Append(calls, o))) =
              IF o.error THEN Cardinality(Taken(calls)) ELSE Cardinality(Taken(calls)) + 1
         /\ Cardinality(Better(Append(calls, o), v)) =
              IF ~o.error /\ o.share.actualDiff >= v THEN Cardinality(Better(calls, v)) + 1
              ELSE Cardinality(Better(calls, v))
  <1>0. PICK n \in Nat : n = Len(calls)
    OBVIOUS
  <1>1. PICK more : n = Len(calls) /\ more = Append(calls, o)
    BY <1>0
  <1>2. /\ DOMAIN calls = 1 .. n /\ DOMAIN more = 1 .. n + 1 /\ more[n + 1] = o
        /\ \A k \in 1 .. n : more[k] = calls[k]
    BY <1>1
  <1>3. n + 1 \notin 1 .. n /\ \A k \in 1 .. n + 1 : k \in 1 .. n \/ k = n + 1
    OBVIOUS
  <1>4. IsFiniteSet(1 .. n)
    BY FS_Interval
  <1>5. Taken(calls) \subseteq 1 .. n /\ Better(calls, v) \subseteq 1 .. n
    BY <1>2 DEF Taken, Better
  <1>6. IsFiniteSet(Taken(calls)) /\ IsFiniteSet(Better(calls, v))
    BY <1>4, <1>5, FS_Subset
  <1>7. Cardinality(Taken(calls)) \in Nat /\ Cardinality(Better(calls, v)) \in Nat
    BY <1>6, FS_CardinalityType
  <1>8. n + 1 \notin Taken(calls) /\ n + 1 \notin Better(calls, v)
    BY <1>3, <1>5
  <1>9. Taken(more) = IF o.error THEN Taken(calls) ELSE Taken(calls) \cup {n + 1}
    <2>1. \A k \in 1 .. n + 1 : k \in Taken(more) <=> (k \in Taken(calls) \/ (k = n + 1 /\ ~o.error))
      BY <1>2, <1>3 DEF Taken
    <2>2. Taken(more) \subseteq 1 .. n + 1 /\ Taken(calls) \subseteq 1 .. n + 1
      BY <1>2 DEF Taken
    <2>3. n + 1 \in 1 .. n + 1
      OBVIOUS
    <2>4. CASE o.error
      BY <2>1, <2>2, <2>4
    <2>5. CASE ~o.error
      BY <2>1, <2>2, <2>3, <2>5
    <2> QED
      BY <2>4, <2>5
  <1>10. Better(more, v) = IF ~o.error /\ o.share.actualDiff >= v
                           THEN Better(calls, v) \cup {n + 1} ELSE Better(calls, v)
    <2>1. \A k \in 1 .. n + 1 : k \in Better(more, v) <=>
            (k \in Better(calls, v) \/ (k = n + 1 /\ ~o.error /\ o.share.actualDiff >= v))
      BY <1>2, <1>3 DEF Better
    <2>2. Better(more, v) \subseteq 1 .. n + 1 /\ Better(calls, v) \subseteq 1 .. n + 1
      BY <1>2 DEF Better
    <2>3. n + 1 \in 1 .. n + 1
      OBVIOUS
    <2>4. CASE ~(~o.error /\ o.share.actualDiff >= v)
      BY <2>1, <2>2, <2>4
    <2>5. CASE ~o.error /\ o.share.actualDiff >= v
      BY <2>1, <2>2, <2>3, <2>5
    <2> QED
      BY <2>4, <2>5
  <1>11. /\ Cardinality(Taken(calls) \cup {n + 1}) = Cardinality(Taken(calls)) + 1
         /\ Cardinality(Better(calls, v) \cup {n + 1}) = Cardinality(Better(calls, v)) + 1
    BY <1>6, <1>8, FS_AddElement
  <1> QED
    BY <1>1, <1>7, <1>9, <1>10, <1>11

\* As many places as there are results, as far as there are places.
Filled(places, results) == places = IF results < TopSize THEN results ELSE TopSize

\* The counter of the accepted results is their number.
CountersInv == stats.accepted = Cardinality(Taken(outcomes))

\* Totals along the answers exist, and the last of any such totals is the one kept.
TotalInv ==
  /\ \E f : Sums(f, outcomes)
  /\ \A f : Sums(f, outcomes) => f[Len(outcomes)] = stats.total

\* The list of the best results is sorted, and has as many places of v or more as there
\* are results of v or more, as far as there are places.
TopInv ==
  /\ stats.topDiff \in [1 .. TopSize -> Diffs \cup {0}] /\ Sorted(stats.topDiff, TopSize)
  /\ \A v \in Diffs \ {0} :
       Filled(Cardinality(Places(stats.topDiff, TopSize, v)), Cardinality(Better(outcomes, v)))

\* The statistics are those of the answers.
RightInv == CountersInv /\ TotalInv /\ TopInv

\* An answer keeps the list right.
LEMMA TopKeeps ==
  ASSUME TopInv, outcomes \in Seq(Outcome), NEW o \in Outcome,
         outcomes' = Append(outcomes, o),
         stats'.topDiff = IF o.error THEN stats.topDiff
                          ELSE topped(stats.topDiff, o.share.actualDiff)
  PROVE  TopInv'
  <1>1. PICK t, calls, more :
          t = stats.topDiff /\ calls = outcomes /\ more = Append(calls, o)
    OBVIOUS
  <1>2. PICK D : D = Diffs \cup {0}
    OBVIOUS
  <1>3. D \subseteq Nat /\ 0 \in D
    BY <1>2, SubmissionAssumption
  <1>4. /\ t \in [1 .. TopSize -> D] /\ Sorted(t, TopSize) /\ calls \in Seq(Outcome)
        /\ \A v \in Diffs \ {0} :
             Filled(Cardinality(Places(t, TopSize, v)), Cardinality(Better(calls, v)))
    BY <1>1, <1>2 DEF TopInv
  <1>5. PICK a \in D : a = o.share.actualDiff
    BY <1>2 DEF Outcome, Share
  <1>6. PICK r : r = stats'.topDiff
    OBVIOUS
  <1>7. CASE o.error
    <2>1. r = t
      BY <1>1, <1>6, <1>7
    <2>2. ASSUME NEW v \in Diffs \ {0}
          PROVE  Filled(Cardinality(Places(r, TopSize, v)), Cardinality(Better(more, v)))
      <3>1. v \in Nat
        BY SubmissionAssumption
      <3>2. Cardinality(Better(more, v)) = Cardinality(Better(calls, v))
        BY <1>1, <1>4, <1>7, <3>1, GoodGrow
      <3> QED
        BY <1>4, <2>1, <3>2
    <2> QED
      BY <1>1, <1>2, <1>4, <1>6, <2>1, <2>2 DEF TopInv
  <1>8. CASE ~o.error
    <2>1. r = topped(t, a)
      BY <1>1, <1>5, <1>6, <1>8
    <2>2. /\ r \in [1 .. TopSize -> D] /\ Sorted(r, TopSize)
          /\ \A v \in Nat : Grows(t, r, TopSize, a, v)
      BY <1>3, <1>4, <2>1, ToppedFacts
    <2>3. ASSUME NEW v \in Diffs \ {0}
          PROVE  Filled(Cardinality(Places(r, TopSize, v)), Cardinality(Better(more, v)))
      <3>1. v \in Nat /\ a \in Nat /\ TopSize \in Nat
        BY <1>3, SubmissionAssumption, TopSizeAssumption
      <3>2. PICK c \in Nat : c = Cardinality(Better(calls, v))
        BY <1>4, <3>1, GoodGrow
      <3>3. PICK d : d = Cardinality(Better(more, v))
        OBVIOUS
      <3>4. d = IF a >= v THEN c + 1 ELSE c
        BY <1>1, <1>4, <1>5, <1>8, <3>1, <3>2, <3>3, GoodGrow
      <3>5. PICK b, e : /\ b = Cardinality(Places(t, TopSize, v))
                        /\ e = Cardinality(Places(r, TopSize, v))
        OBVIOUS
      <3>6. b \in 0 .. TopSize /\ e = IF v <= a /\ b < TopSize THEN b + 1 ELSE b
        BY <2>2, <3>1, <3>5 DEF Grows
      <3>7. b = IF c < TopSize THEN c ELSE TopSize
        BY <1>4, <3>2, <3>5 DEF Filled
      <3>8. e = IF d < TopSize THEN d ELSE TopSize
        BY <3>1, <3>4, <3>6, <3>7
      <3> QED
        BY <3>3, <3>5, <3>8 DEF Filled
    <2> QED
      BY <1>1, <1>2, <1>6, <2>2, <2>3 DEF TopInv
  <1> QED
    BY <1>7, <1>8

\* An answer keeps the counters and the total right.
LEMMA CountersKeep ==
  ASSUME CountersInv, TotalInv, outcomes \in Seq(Outcome), NEW o \in Outcome,
         outcomes' = Append(outcomes, o), stats.total \in Nat,
         stats'.accepted = (IF o.error THEN stats.accepted ELSE stats.accepted + 1),
         stats'.total = (IF o.error THEN stats.total ELSE stats.total + o.share.diff)
  PROVE  CountersInv' /\ TotalInv'
  <1>1. PICK calls, more : calls = outcomes /\ more = Append(calls, o)
    OBVIOUS
  <1>2. CountersInv'
    BY <1>1, GoodGrow DEF CountersInv
  <1>3. PICK total \in Nat : total = stats.total
    OBVIOUS
  <1>4. o.share.diff \in Nat
    BY SubmissionAssumption DEF Outcome, Share
  <1>5. stats'.total = total + Worth(o)
    BY <1>3, <1>4 DEF Worth
  <1>6. /\ \E f : Sums(f, calls)
        /\ \A f : Sums(f, calls) => f[Len(calls)] = total
    BY <1>1, <1>3 DEF TotalInv
  <1>7. calls \in Seq(Outcome) /\ Len(more) = Len(calls) + 1
    BY <1>1
  <1>8. \E g : Sums(g, more)
    BY <1>1, <1>6, <1>7, SumsGrow
  <1>9. ASSUME NEW g, Sums(g, more) PROVE g[Len(more)] = stats'.total
    <2>1. PICK f : Sums(f, calls) /\ g[Len(calls) + 1] = f[Len(calls)] + Worth(o)
      BY <1>1, <1>7, <1>9, SumsGrow
    <2> QED
      BY <1>5, <1>6, <1>7, <2>1
  <1>10. TotalInv'
    BY <1>1, <1>8, <1>9 DEF TotalInv
  <1> QED
    BY <1>2, <1>10

\* Whatever happens, counters, total and list stay right (NetworkState.cpp, add).
LEMMA RightStep ==
  Types /\ StatsType /\ RightInv /\ [Next]_vars => RightInv'
  <1> SUFFICES ASSUME Types, StatsType, RightInv, [Next]_vars
               PROVE  RightInv'
    OBVIOUS
  <1>0. outcomes \in Seq(Outcome) /\ stats.total \in Nat
    BY DEF Types, MinerTypes, StatsType
  <1>1. ASSUME outcomes' = outcomes, stats'.accepted = stats.accepted,
               stats'.total = stats.total, stats'.topDiff = stats.topDiff
        PROVE  RightInv'
    BY <1>1 DEF RightInv, CountersInv, TotalInv, TopInv
  <1>2. CASE UNCHANGED <<stats, m_active, mixed, outcomes>>
    BY <1>1, <1>2
  <1>3. ASSUME NEW i \in Pools, NEW seq, NEW error \in BOOLEAN, Readable(i),
               Answered(i, seq, error), UNCHANGED <<m_active, mixed>>
        PROVE  RightInv'
    <2>1. CASE UNCHANGED <<stats, outcomes>>
      BY <1>1, <2>1
    <2>2. CASE ~UNCHANGED <<stats, outcomes>>
      <3>1. PICK r \in m_results[i] :
              /\ r.share \in Share /\ stats' = add(stats, r.share, error, i)
              /\ outcomes' = Append(outcomes, [share |-> r.share, error |-> error, by |-> i])
        BY <1>3, <2>2, AnsweredFacts
      <3>2. PICK share \in Share : share = r.share
        BY <3>1
      <3>3. PICK o : o = [share |-> share, error |-> error, by |-> i]
        OBVIOUS
      <3>4. o \in Outcome /\ o.share = share /\ o.error = error
        BY <3>3 DEF Outcome
      <3>5. /\ error => /\ stats'.accepted = stats.accepted /\ stats'.total = stats.total
                        /\ stats'.topDiff = stats.topDiff
            /\ ~error => /\ stats'.accepted = stats.accepted + 1
                         /\ stats'.total = stats.total + share.diff
                         /\ stats'.topDiff = topped(stats.topDiff, share.actualDiff)
        BY <3>1, <3>2, AddFacts
      <3>6. outcomes' = Append(outcomes, o)
        BY <3>1, <3>2, <3>3
      <3>7. TopInv'
        <4>1. stats'.topDiff = IF o.error THEN stats.topDiff
                               ELSE topped(stats.topDiff, o.share.actualDiff)
          BY <3>4, <3>5
        <4> QED
          BY <1>0, <3>4, <3>6, <4>1, TopKeeps DEF RightInv
      <3>8. CountersInv' /\ TotalInv'
        <4>1. /\ stats'.accepted = (IF o.error THEN stats.accepted ELSE stats.accepted + 1)
              /\ stats'.total = (IF o.error THEN stats.total ELSE stats.total + o.share.diff)
          BY <3>4, <3>5
        <4> QED
          BY <1>0, <3>4, <3>6, <4>1, CountersKeep DEF RightInv
      <3> QED
        BY <3>7, <3>8 DEF RightInv
    <2> QED
      BY <2>1, <2>2
  <1>4. ASSUME NEW i \in Pools, Login(i) PROVE RightInv'
    <2>1. /\ UNCHANGED outcomes
          /\ stats' = setPool(stats) \/ stats' = stats
      BY <1>4 DEF Login
    <2>2. /\ stats'.accepted = stats.accepted /\ stats'.total = stats.total
          /\ stats'.topDiff = stats.topDiff
      BY <2>1, SetPoolFacts
    <2> QED
      BY <1>1, <2>1, <2>2
  <1>5. ASSUME NEW i \in Pools, OnClose(i) PROVE RightInv'
    <2>1. /\ UNCHANGED outcomes
          /\ stats' = stop(stats) \/ stats' = stats
      BY <1>5 DEF OnClose, historyVars
    <2>2. /\ stats'.accepted = stats.accepted /\ stats'.total = stats.total
          /\ stats'.topDiff = stats.topDiff
      BY <2>1, SetPoolFacts
    <2> QED
      BY <1>1, <2>1, <2>2
  <1> QED
    BY <1>2, <1>3, <1>4, <1>5, StatsMoves

\* At the start there are no answers, and the list holds zeros.
LEMMA RightInit == Init => RightInv
  <1> SUFFICES ASSUME Init PROVE RightInv
    OBVIOUS
  <1>0. PICK n \in Nat \ {0} : n = TopSize
    BY TopSizeAssumption
  <1>1. PICK calls : calls = << >>
    OBVIOUS
  <1>2. Len(calls) = 0 /\ DOMAIN calls = {} /\ outcomes = calls
    BY <1>1 DEF Init
  <1>3. PICK t : t = [k \in 1 .. n |-> 0]
    OBVIOUS
  <1>4. stats.topDiff = t /\ stats.accepted = 0 /\ stats.total = 0
    BY <1>0, <1>3 DEF Init, NewState
  <1>5. /\ Taken(calls) = {} /\ \A v : Better(calls, v) = {}
        /\ Cardinality({}) = 0
    BY <1>2, FS_EmptySet DEF Taken, Better
  <1>6. CountersInv
    BY <1>2, <1>4, <1>5 DEF CountersInv
  <1>7. TotalInv
    <2>1. \A f : Sums(f, calls) <=> f = [k \in 0 .. 0 |-> 0]
      <3> SUFFICES ASSUME NEW f
                   PROVE  [k \in 0 .. 0 |->
                             IF k = 0 THEN 0
                             ELSE f[k - 1] + (IF calls[k].error THEN 0 ELSE calls[k].share.diff)]
                          = [k \in 0 .. 0 |-> 0]
        BY <1>2 DEF Sums
      <3>1. \A k \in 0 .. 0 : k = 0
        OBVIOUS
      <3> QED
        BY <3>1
    <2>2. [k \in 0 .. 0 |-> 0][0] = 0
      OBVIOUS
    <2> QED
      BY <1>2, <1>4, <2>1, <2>2 DEF TotalInv
  <1>8. TopInv
    <2>1. t \in [1 .. n -> Diffs \cup {0}] /\ Sorted(t, n)
      BY <1>3 DEF Sorted
    <2>2. ASSUME NEW v \in Diffs \ {0} PROVE Filled(Cardinality(Places(t, n, v)), 0)
      <3>1. v \in Nat /\ ~(0 >= v)
        BY SubmissionAssumption
      <3>2. Places(t, n, v) = {}
        BY <1>3, <3>1 DEF Places
      <3> QED
        BY <1>0, <1>5, <3>2 DEF Filled
    <2> QED
      BY <1>0, <1>2, <1>4, <1>5, <2>1, <2>2 DEF TopInv
  <1> QED
    BY <1>6, <1>7, <1>8 DEF RightInv

\* What the invariant says of the total.
LEMMA RightTotal == RightInv => stats.total = Total
  <1> SUFFICES ASSUME RightInv PROVE stats.total = Total
    OBVIOUS
  <1> DEFINE f == CHOOSE f : Sums(f, outcomes)
  <1>1. Sums(f, outcomes)
    BY DEF RightInv, TotalInv
  <1>2. Total = f[Len(outcomes)]
    BY DEF Total, Sums
  <1> QED
    BY <1>1, <1>2 DEF RightInv, TotalInv

-----------------------------------------------------------------------------
(* The results.                                                            *)

\* The inductive invariant.
SubmissionInv ==
  /\ Types /\ NumberInv /\ ResultsWereSent /\ PlaceInv /\ CountInv /\ RouteInv
  /\ PurposeInv /\ HolderInv /\ StatsType /\ StatsInv /\ RightInv

\* The miner starts in SubmissionInv: nothing found, nothing sent, no connection.
LEMMA SubmissionInit == Init => SubmissionInv
  <1> SUFFICES ASSUME Init PROVE SubmissionInv
    OBVIOUS
  <1> DEFINE none == <<>>
  <1>0. /\ none \in Seq(Outcome) /\ none \in Seq(Pools) /\ DOMAIN none = {} /\ Len(none) = 0
        /\ none = <<>>
    OBVIOUS
  <1>a. outcomes = none /\ stats.latency = none
    BY DEF Init, NewState
  <1>1. ConnTypes
    BY SubmissionAssumption DEF Init, ConnTypes, FirstSequence
  <1> HIDE DEF none
  <1>2. MinerTypes
    <2>1. outcomes \in Seq(Outcome)
      BY <1>0, <1>a
    <2>2. /\ m_active = -1 /\ reading = -1 /\ published = -1 /\ mined = {} /\ pending = {}
          /\ found = 0 /\ switches = 0 /\ mixed = FALSE /\ misrouted = {} /\ fault = FALSE
      BY DEF Init
    <2>3. 0 \in 0 .. MaxShares /\ 0 \in Nat
      BY SubmissionAssumption
    <2>4. m_active \in Pools \cup {-1} /\ reading \in Pools \cup {-1} /\ published \in Pools \cup {-1}
      BY <2>2
    <2>5. mined \in SUBSET Pools /\ pending \in SUBSET Share /\ misrouted \in SUBSET Share
      BY <2>2
    <2> QED
      BY <2>1, <2>2, <2>3, <2>4, <2>5 DEF MinerTypes
  <1>3. NumberInv /\ PlaceInv /\ RouteInv /\ PurposeInv /\ HolderInv /\ ResultsWereSent
    BY DEF Init, NumberInv, PlaceInv, RouteInv, PurposeInv, HolderInv, ResultsWereSent, Readable
  <1>4. CountInv
    BY <1>0, <1>a DEF CountInv
  <1>5. StatsType
    <2> DEFINE top == [k \in 1 .. TopSize |-> 0]
    <2>1. stats = [active |-> FALSE, accepted |-> 0, rejected |-> 0, failures |-> 0, total |-> 0,
                   topDiff |-> top, latency |-> none]
      BY DEF Init, NewState, none
    <2> HIDE DEF top
    <2>2. stats.topDiff = top
      BY <2>1
    <2>3. stats \in [active : BOOLEAN, accepted : Nat, rejected : Nat, failures : Nat,
                     total : Nat, topDiff : {top}, latency : Seq(Pools)]
      BY <1>0, <2>1
    <2> QED
      BY <2>2, <2>3 DEF StatsType
  <1>6. StatsInv
    <2>1. m_active = -1 /\ ~stats.active /\ stats.accepted = 0 /\ stats.rejected = 0
      BY DEF Init, NewState
    <2> QED
      BY <1>0, <1>a, <2>1 DEF StatsInv
  <1> QED
    BY <1>1, <1>2, <1>3, <1>4, <1>5, <1>6, RightInit DEF SubmissionInv, Types

\* SubmissionInv is an inductive invariant of the way of a share.
THEOREM SubmissionInductive == Spec => []SubmissionInv
  <1>1. SubmissionInv /\ [Next]_vars => SubmissionInv'
    BY TypesStep, SentStep, PlaceStep, CountStep, RouteStep, PurposeStep, HolderStep, StatsStep,
       RightStep DEF SubmissionInv
  <1> QED
    BY <1>1, SubmissionInit, PTL DEF Spec

\* Whatever the pools answer, and however often, on any number of connections, a share
\* is counted at most once (Client.cpp, parseResponse, login, submit).
THEOREM CountedOnceHolds == Spec => []CountedOnce
  <1>1. SubmissionInv => CountedOnce
    <2> SUFFICES ASSUME SubmissionInv, NEW n \in 0 .. found - 1
                 PROVE  Cardinality(Calls(n)) <= 1
      BY DEF CountedOnce
    <2>1. \A k, l \in Calls(n) : k = l
      BY DEF SubmissionInv, CountInv, Calls
    <2>2. CASE Calls(n) = {}
      BY <2>2, FS_EmptySet
    <2>3. CASE Calls(n) # {}
      <3>1. PICK k : Calls(n) = {k}
        BY <2>1, <2>3
      <3>2. Cardinality({k}) = 1
        BY FS_Singleton
      <3> QED
        BY <3>1, <3>2
    <2> QED
      BY <2>2, <2>3
  <1> QED
    BY <1>1, SubmissionInductive, PTL

\* The list of a client that can be answered holds shares that were written on this
\* connection under this number, which is never the number of the login (Client.cpp,
\* submit, send, login).
THEOREM ResultsInvariantHolds == Spec => []ResultsInvariant
  <1>1. SubmissionInv => ResultsInvariant
    BY DEF SubmissionInv, Types, ConnTypes, MinerTypes, ResultsInvariant, TypeOK
  <1> QED
    BY <1>1, SubmissionInductive, PTL

\* A share goes to a pool that did not ask for it, or to m_pools[-1], only after the
\* active pool has changed (Network.cpp, onJobResult; FailoverStrategy.cpp, submit).
THEOREM MisroutedOnlyAfterSwitchHolds == Spec => []MisroutedOnlyAfterSwitch
  <1>1. SubmissionInv => MisroutedOnlyAfterSwitch
    <2> SUFFICES ASSUME SubmissionInv PROVE MisroutedOnlyAfterSwitch
      OBVIOUS
    <2>1. ASSUME m_active = -1, NEW s \in pending PROVE s.late \/ s.when < switches
      <3>1. s \in Share
        BY DEF SubmissionInv, Types, MinerTypes
      <3>2. s.pool # -1
        BY <3>1 DEF Share, Pools
      <3> QED
        BY <2>1, <3>2 DEF SubmissionInv, RouteInv
    <2> QED
      BY <2>1 DEF SubmissionInv, RouteInv, MisroutedOnlyAfterSwitch
  <1> QED
    BY <1>1, SubmissionInductive, PTL

\* The statistics show a connection exactly while a pool is in use, and unless the first
\* pool took over from a backup their samples of the latency are all of that pool; their
\* counters and their total are those of the answers, and their list is that of the best
\* results, sorted (NetworkState.cpp, add, setPool, stop).
THEOREM StatisticsInvariantHolds == Spec => []StatisticsInvariant
  <1>1. SubmissionInv => StatisticsInvariant
    <2> SUFFICES ASSUME SubmissionInv PROVE StatisticsInvariant
      OBVIOUS
    <2>1. StatsFollowPool
      BY DEF SubmissionInv, StatsInv, StatsFollowPool
    <2>2. RightInv /\ StatsType /\ stats.accepted + stats.rejected = Len(outcomes)
      BY DEF SubmissionInv, StatsInv
    <2>3. Accepts = Taken(outcomes)
      BY DEF Accepts, Taken
    <2>4. \A v : AtLeast(v) = Cardinality(Better(outcomes, v))
      <3> SUFFICES ASSUME NEW v
                   PROVE  {k \in Accepts : outcomes[k].share.actualDiff >= v} = Better(outcomes, v)
        BY DEF AtLeast
      <3> QED
        BY DEF Accepts, Better
    <2>5. stats.accepted = Cardinality(Accepts)
      BY <2>2, <2>3 DEF RightInv, CountersInv
    <2>6. stats.rejected = Len(outcomes) - Cardinality(Accepts)
      <3>1. PICK a, b \in Nat : a = stats.accepted /\ b = stats.rejected
        BY <2>2 DEF StatsType
      <3>2. a + b = Len(outcomes) /\ a = Cardinality(Accepts)
        BY <2>2, <2>5, <3>1
      <3>3. Len(outcomes) - a = b
        BY <3>2
      <3> QED
        BY <3>1, <3>2, <3>3
    <2>7. stats.total = Total
      BY <2>2, RightTotal
    <2>8. /\ stats.topDiff \in [1 .. TopSize -> Diffs \cup {0}]
          /\ \A j, k \in 1 .. TopSize : j < k => stats.topDiff[j] >= stats.topDiff[k]
      BY <2>2 DEF RightInv, TopInv, Sorted
    <2>9. ASSUME NEW v \in Diffs \ {0}
          PROVE  Cardinality({k \in 1 .. TopSize : stats.topDiff[k] >= v}) =
                   IF AtLeast(v) < TopSize THEN AtLeast(v) ELSE TopSize
      BY <2>2, <2>4 DEF RightInv, TopInv, Filled, Places
    <2> QED
      BY <2>1, <2>5, <2>6, <2>7, <2>8, <2>9 DEF StatisticsInvariant, StatsAreRight
  <1> QED
    BY <1>1, SubmissionInductive, PTL

\* The strategy never disconnects the pool it works for: FailoverStrategy::onClose()
\* would not notice the end of such a connection, because disconnect() sets m_failures
\* to -1, and m_active would stay on a pool without a connection.
THEOREM ActiveIsNotDismissed == Spec => [](\A i \in Pools : purpose[i] => m_active # i)
  <1>1. SubmissionInv => \A i \in Pools : purpose[i] => m_active # i
    BY DEF SubmissionInv, PurposeInv
  <1> QED
    BY <1>1, SubmissionInductive, PTL
=============================================================================
