---------------------------- MODULE ClientProofs ----------------------------
(***************************************************************************)
(* What the operations of Client do to the record of a client, for any set *)
(* of jobs and any number of retries.  The proofs about the strategies and *)
(* about Network cite these lemmas instead of the definitions.             *)
(***************************************************************************)
EXTENDS Client, TLAPS

\* A closed client differs from the client before it in state and socket only.
LEMMA CloseFacts ==
  ASSUME NEW c \in Client
  PROVE  /\ close(c) \in Client
         /\ close(c).lookup = c.lookup /\ close(c).failures = c.failures
         /\ close(c).expire = c.expire /\ close(c).job = c.job
         /\ \/ /\ c.state \in {"unconnected", "closing"} \/ c.sock = "none"
               /\ close(c).state = c.state /\ close(c).sock = c.sock
            \/ /\ c.state \notin {"unconnected", "closing"} /\ c.sock # "none"
               /\ close(c).state = "closing" /\ close(c).sock = "closing"
  BY DEF close, Client

\* disconnect(): no deadline, no more retries, and the socket closed if there is one.
LEMMA DisconnectFacts ==
  ASSUME NEW c \in Client
  PROVE  /\ disconnect(c) \in Client
         /\ disconnect(c).failures = -1 /\ ~disconnect(c).expire
         /\ disconnect(c).lookup = c.lookup /\ disconnect(c).job = c.job
         /\ \/ /\ c.state \in {"unconnected", "closing"} \/ c.sock = "none"
               /\ disconnect(c).state = c.state /\ disconnect(c).sock = c.sock
            \/ /\ c.state \notin {"unconnected", "closing"} /\ c.sock # "none"
               /\ disconnect(c).state = "closing" /\ disconnect(c).sock = "closing"
  <1> DEFINE d == [c EXCEPT !.expire = FALSE, !.failures = -1]
  <1>0. -1 \in -1 .. Retries
    BY ClientAssumption
  <1>1. /\ d \in Client
        /\ ~d.expire /\ d.failures = -1 /\ d.lookup = c.lookup /\ d.job = c.job
        /\ d.state = c.state /\ d.sock = c.sock
    BY <1>0 DEF Client
  <1>2. disconnect(c) = close(d)
    BY DEF disconnect
  <1> HIDE DEF d
  <1> QED
    BY <1>1, <1>2, CloseFacts

\* connect(): a lookup begins (if uv_getaddrinfo() takes the name), retries are on.
LEMMA ConnectFacts ==
  ASSUME NEW c \in Client, NEW started \in BOOLEAN
  PROVE  /\ connect(c, started) \in Client
         /\ connect(c, started).state = "lookup" /\ connect(c, started).lookup = started
         /\ ~connect(c, started).expire /\ connect(c, started).failures # -1
         /\ connect(c, started).sock = c.sock /\ connect(c, started).job = c.job
  <1>1. 0 \in -1 .. Retries /\ 0 # -1
    BY ClientAssumption
  <1>2. CASE c.failures = -1
    <2>1. connect(c, started) = [c EXCEPT !.state = "lookup", !.lookup = started,
                                          !.expire = FALSE, !.failures = 0]
      BY <1>2 DEF connect, Client
    <2> QED
      BY <1>1, <2>1 DEF Client
  <1>3. CASE c.failures # -1
    <2>1. connect(c, started) = [c EXCEPT !.state = "lookup", !.lookup = started,
                                          !.expire = FALSE]
      BY <1>3 DEF connect, Client
    <2> QED
      BY <1>3, <2>1 DEF Client
  <1> QED
    BY <1>2, <1>3

\* onResolved() with an address: a socket that connects, or is refused at once.
LEMMA OpenFacts ==
  ASSUME NEW c \in Client, NEW accepted \in BOOLEAN
  PROVE  /\ openSocket(c, accepted) \in Client
         /\ openSocket(c, accepted).state = "connecting"
         /\ openSocket(c, accepted).sock = IF accepted THEN "opening" ELSE "refused"
         /\ ~openSocket(c, accepted).lookup
         /\ openSocket(c, accepted).failures = c.failures
         /\ openSocket(c, accepted).expire = c.expire
         /\ openSocket(c, accepted).job = c.job
  BY DEF openSocket, Client

\* Sending arms the deadline, closes, or does nothing.
LEMMA SendFacts ==
  ASSUME NEW c \in Client, NEW written \in BOOLEAN
  PROVE  /\ send(c, written) \in Client
         /\ send(c, written).lookup = c.lookup /\ send(c, written).failures = c.failures
         /\ send(c, written).job = c.job
         /\ \/ send(c, written) = c
            \/ /\ c.state = "connected" /\ send(c, written).state = "connected"
               /\ send(c, written).sock = c.sock /\ send(c, written).expire
            \/ /\ c.state = "connected" /\ c.sock # "none" /\ send(c, written).state = "closing"
               /\ send(c, written).sock = "closing" /\ send(c, written).expire = c.expire
  <1>1. CASE c.state = "connected" /\ written
    BY <1>1 DEF send, Client
  <1>2. CASE c.state = "connected" /\ ~written
    <2>1. send(c, written) = close(c)
      BY <1>2 DEF send
    <2> QED
      BY <1>2, <2>1, CloseFacts DEF close
  <1>3. CASE c.state # "connected"
    BY <1>3 DEF send
  <1> QED
    BY <1>1, <1>2, <1>3

\* onConnect(): connected, as a rule waiting for the login answer, or closing.
LEMMA LoginFacts ==
  ASSUME NEW c \in Client, NEW fits \in BOOLEAN, NEW written \in BOOLEAN,
         NEW e, e = login(c, fits, written)
  PROVE  /\ e \in Client
         /\ e.lookup = c.lookup /\ e.failures = c.failures /\ e.job = c.job
         /\ \/ e.state = "connected" /\ e.sock = "open"
            \/ e.state = "closing" /\ e.sock = "closing"
  <1> DEFINE d == [c EXCEPT !.state = "connected", !.sock = "open"]
  <1>1. /\ d \in Client /\ d.lookup = c.lookup /\ d.failures = c.failures /\ d.job = c.job
        /\ d.state = "connected" /\ d.sock = "open"
    BY DEF Client
  <1>2. e = d \/ e = send(d, written)
    BY DEF login
  <1> HIDE DEF d
  <1> QED
    BY <1>1, <1>2, SendFacts

\* A line disarms the deadline and may close; only news changes the job, and
\* only a login answer with news the failures.
LEMMA ParseFacts ==
  ASSUME NEW c \in Client, NEW line \in Line
  PROVE  /\ parse(c, line) \in Client
         /\ parse(c, line).lookup = c.lookup /\ ~parse(c, line).expire
         /\ parse(c, line).job = IF IsNews(c, line) THEN line.job ELSE c.job
         /\ parse(c, line).failures =
              IF IsNews(c, line) /\ line.type = "login" THEN 0 ELSE c.failures
         /\ \/ parse(c, line).state = c.state /\ parse(c, line).sock = c.sock
            \/ /\ c.state \notin {"unconnected", "closing"} /\ c.sock # "none"
               /\ parse(c, line).state = "closing" /\ parse(c, line).sock = "closing"
  <1> DEFINE q == [c EXCEPT !.expire = FALSE]
  <1>1. /\ q \in Client /\ ~q.expire /\ q.lookup = c.lookup /\ q.failures = c.failures
        /\ q.job = c.job /\ q.state = c.state /\ q.sock = c.sock
    BY DEF Client
  <1>2. CASE line.type = "other"
    BY <1>1, <1>2 DEF parse, IsNews
  <1>3. CASE line.type = "error" \/ (line.type \in {"login", "job"} /\ ~IsNews(c, line))
    <2>1. parse(c, line) = close(q)
      BY <1>3 DEF parse, IsNews
    <2>2. ~IsNews(c, line)
      BY <1>3 DEF IsNews
    <2> HIDE DEF q
    <2> QED
      BY <1>1, <2>1, <2>2, CloseFacts
  <1>4. CASE line.type = "job" /\ IsNews(c, line)
    <2>1. parse(c, line) = [q EXCEPT !.job = line.job]
      BY <1>4 DEF parse
    <2> QED
      BY <1>1, <1>4, <2>1 DEF Client, Line, JobOrNone
  <1>5. CASE line.type = "login" /\ IsNews(c, line)
    <2>1. parse(c, line) = [q EXCEPT !.job = line.job, !.failures = 0]
      BY <1>5 DEF parse
    <2>2. 0 \in -1 .. Retries
      BY ClientAssumption
    <2> QED
      BY <1>1, <1>5, <2>1, <2>2 DEF Client, Line, JobOrNone
  <1> QED
    BY <1>2, <1>3, <1>4, <1>5 DEF Line

\* reconnect(): a deadline for the next attempt, unless the client was disconnected.
LEMMA ReconnectFacts ==
  ASSUME NEW c \in Client
  PROVE  /\ reconnect(c) \in Client
         /\ reconnect(c).state = "connecting"
         /\ reconnect(c).sock = c.sock /\ reconnect(c).lookup = c.lookup
         /\ reconnect(c).job = c.job
         /\ c.failures = -1 => reconnect(c).failures = -1 /\ reconnect(c).expire = c.expire
         /\ c.failures # -1 => reconnect(c).failures # -1 /\ reconnect(c).expire
  <1>1. /\ LostFailures(c) \in -1 .. Retries
        /\ LostFailures(c) = -1 <=> c.failures = -1
    <2>1. c.failures \in -1 .. Retries
      BY DEF Client
    <2> QED
      BY <2>1, ClientAssumption DEF LostFailures
  <1>2. CASE c.failures = -1
    <2>1. reconnect(c) = [c EXCEPT !.state = "connecting", !.failures = LostFailures(c)]
      BY <1>2 DEF reconnect, Client
    <2> QED
      BY <1>1, <1>2, <2>1 DEF Client
  <1>3. CASE c.failures # -1
    <2>1. reconnect(c) = [c EXCEPT !.state = "connecting", !.failures = LostFailures(c),
                                   !.expire = TRUE]
      BY <1>3 DEF reconnect, Client
    <2> QED
      BY <1>1, <1>3, <2>1 DEF Client
  <1> QED
    BY <1>2, <1>3

\* What is left of a client when its lookup has failed or its socket is closed.
LEMMA LostFacts ==
  ASSUME NEW c \in Client
  PROVE  /\ lookupFailed(c) \in Client /\ ~lookupFailed(c).lookup
         /\ lookupFailed(c).state = c.state /\ lookupFailed(c).sock = c.sock
         /\ lookupFailed(c).expire = c.expire /\ lookupFailed(c).failures = c.failures
         /\ lookupFailed(c).job = c.job
         /\ socketClosed(c) \in Client /\ socketClosed(c).sock = "none"
         /\ socketClosed(c).state = c.state /\ socketClosed(c).lookup = c.lookup
         /\ socketClosed(c).expire = c.expire /\ socketClosed(c).failures = c.failures
         /\ socketClosed(c).job = c.job
  BY DEF lookupFailed, socketClosed, Client

\* tick() after the deadline: connect again, close, or nothing, by state.
LEMMA ExpiredFacts ==
  ASSUME NEW c \in Client, NEW started \in BOOLEAN
  PROVE  /\ expired(c, started) \in Client /\ expired(c, started).job = c.job
         /\ c.state = "connecting" => expired(c, started) = connect(c, started)
         /\ c.state = "connected" => expired(c, started) = close(c)
         /\ c.state \notin {"connected", "connecting"} => expired(c, started) = c
  <1>1. close(c).state # "connecting" \/ c.state # "connected"
    BY CloseFacts
  <1> QED
    BY <1>1, CloseFacts, ConnectFacts DEF expired
=============================================================================
