------------------------------- MODULE Client -------------------------------
(***************************************************************************)
(* The Stratum client of one pool (src/net/Client.cpp) as operators on a   *)
(* record, so that the strategies can own one client or several.           *)
(*                                                                         *)
(* libuv is the environment: a name lookup or a socket that has been       *)
(* started answers later, by a callback on the event loop.                 *)
(***************************************************************************)
EXTENDS Integers

CONSTANTS
  JobIds,  \* what distinguishes the jobs of a pool (id and blob)
  NoJob,   \* the default-constructed Job
  Retries  \* Options::retries(); larger failure counts are all alike

ASSUME ClientAssumption == NoJob \notin JobIds /\ Retries \in Nat \ {0}

JobOrNone == JobIds \cup {NoJob}

Client ==
  [state    : {"unconnected", "lookup", "connecting", "connected", "closing"},
   sock     : {"none", "opening", "refused", "open", "closing"}, \* m_socket
   lookup   : BOOLEAN,          \* m_resolver is in use by libuv
   failures : -1 .. Retries,    \* m_failures; -1 after disconnect()
   expire   : BOOLEAN,          \* m_expire # 0
   job      : JobOrNone]        \* m_job, kept over reconnections

\* A line that onRead() cuts out of the stream, by what parse() makes of it:
\* a login answer with a job, a job notification, an error that closes the
\* connection (refused or unusable login, critical error), or anything else
\* (undecodable, unsupported, the answer to a share or to a ping).
Line == [type : {"login", "job", "error", "other"}, job : JobIds]

NewClient ==
  [state |-> "unconnected", sock |-> "none", lookup |-> FALSE, failures |-> 0,
   expire |-> FALSE, job |-> NoJob]

\* close(): nothing without a socket, in particular during a lookup.
close(c) ==
  IF c.state \in {"unconnected", "closing"} \/ c.sock = "none"
  THEN c
  ELSE [c EXCEPT !.state = "closing", !.sock = "closing"]

\* Mutant: m_failures = -1 forgotten, so the client reconnects.
disconnectMutant(c) == close([c EXCEPT !.expire = FALSE])

\* disconnect(): close on purpose, without a retry.
disconnect(c) == close([c EXCEPT !.expire = FALSE, !.failures = -1])

\* connect(), resolve(): started says whether uv_getaddrinfo() took the name.
\* The request m_resolver is reused; it must not be in flight (undefined).
ConnectIsDefined(c) == ~c.lookup

\* Mutant: m_expire = 0 forgotten.
connectMutant(c, started) ==
  [c EXCEPT !.state = "lookup", !.lookup = started, !.failures = IF @ = -1 THEN 0 ELSE @]

connect(c, started) ==
  [c EXCEPT !.state = "lookup",
            !.lookup = started,
            !.expire = FALSE,
            !.failures = IF @ = -1 THEN 0 ELSE @]

\* onResolved() with an address: a new socket starts to connect.  The old one
\* is deleted; libuv must not know it any more (undefined).  The result of
\* uv_tcp_connect() is ignored: if it refuses (no route), no callback follows.
OpenIsDefined(c) == c.sock = "none"

openSocket(c, accepted) ==
  [c EXCEPT !.state = "connecting",
            !.sock = IF accepted THEN "opening" ELSE "refused",
            !.lookup = FALSE]

\* send(): arms the response timeout, or closes if the write fails.
send(c, written) ==
  IF c.state # "connected" THEN c
  ELSE IF written THEN [c EXCEPT !.expire = TRUE]
  ELSE close(c)

\* onConnect() with success: start reading and send the login.  One that does not
\* fit into the buffer (a very long user name) is not sent, and nobody is told.
login(c, fits, written) ==
  LET up == [c EXCEPT !.state = "connected", !.sock = "open"] IN
  IF fits THEN send(up, written) ELSE up

\* parseJob() has a new job, which goes on to the listener.
IsNews(c, line) == line.type \in {"login", "job"} /\ line.job # c.job

\* parse(): every line disarms the timeout; a job that is already known closes
\* the connection; a login answer clears the failures.
parse(c, line) ==
  LET quiet == [c EXCEPT !.expire = FALSE] IN
  CASE line.type = "other" -> quiet
    [] line.type = "error" -> close(quiet)
    [] line.type \in {"login", "job"} /\ ~IsNews(c, line) -> close(quiet)
    [] line.type = "job" /\ IsNews(c, line) -> [quiet EXCEPT !.job = line.job]
    [] line.type = "login" /\ IsNews(c, line) ->
         [quiet EXCEPT !.job = line.job, !.failures = 0]

\* tick() once the deadline has passed.
expired(c, started) ==
  LET late == IF c.state = "connected" THEN close(c) ELSE c IN
  IF late.state = "connecting" THEN connect(late, started) ELSE late

\* Mutant: m_failures++ forgotten.
LostFailuresMutant(c) == c.failures

\* reconnect() counts a lost connection, unless disconnect() was called.
LostFailures(c) == IF c.failures \in {-1, Retries} THEN c.failures ELSE c.failures + 1

\* Mutant: the deadline of the next attempt forgotten.
reconnectMutant(c) == [c EXCEPT !.state = "connecting", !.failures = LostFailures(c)]

\* reconnect(): wait for the next attempt.  The listener's onClose() runs before
\* the deadline is set.
reconnect(c) ==
  [c EXCEPT !.state = "connecting",
            !.failures = LostFailures(c),
            !.expire = IF c.failures = -1 THEN @ ELSE TRUE]

\* onResolved() with an error and onClose() both end in reconnect().
lookupFailed(c) == [c EXCEPT !.lookup = FALSE]
socketClosed(c) == [c EXCEPT !.sock = "none"]
=============================================================================
