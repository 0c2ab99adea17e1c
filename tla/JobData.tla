------------------------------ MODULE JobData ------------------------------
(***************************************************************************)
(* How the JSON of a job becomes a Job: Client::parseLogin() and           *)
(* parseJob(), the setters of class Job (Job.cpp), and the job's arrival   *)
(* on the GPU through OclWorker::setJob() and XMRSetJob().                 *)
(*                                                                         *)
(* A hexadecimal string is a sequence of digits; a target is decoded digit *)
(* by digit, with the widths of the code as parameters (Base = 16 and      *)
(* Bytes = 4 there).  Of a blob only its length, whether it is hexadecimal *)
(* and whether its nonce field is zero matter.                             *)
(***************************************************************************)
EXTENDS Integers, Sequences

CONSTANTS
  Base,       \* values of a hexadecimal digit (code: 16)
  Bytes,      \* bytes of a 32-bit word (code: 4); a 64-bit word has twice as many
  MinSize,    \* smallest blob, in bytes (code: 76)
  Capacity,   \* sizeof(m_blob) (code: 96)
  MaxSize,    \* what XMRSetJob() takes (code: 84)
  Ids,        \* job ids a pool may use
  LongId,     \* an id of 64 characters or more, one of Ids
  NotHex,     \* a character that is no hexadecimal digit
  Blobs,      \* blobs a pool may send: characters, all of them hexadecimal or not,
              \* nonce field not zero
  Targets,    \* targets a pool may send
  Garbage,    \* what the stack may hold behind a target that is too short
  UrlNicehash,\* Url::isNicehash()
  Missing

ASSUME WidthAssumption ==
  /\ Base \in Nat \ {0, 1} /\ Bytes \in Nat \ {0}
  /\ MinSize \in Nat /\ MaxSize \in Nat /\ Capacity \in Nat
  /\ MinSize <= MaxSize /\ MaxSize < Capacity

ASSUME InputAssumption ==
  /\ Blobs \subseteq [chars : Nat, hex : BOOLEAN, nonce : BOOLEAN]
  /\ UrlNicehash \in BOOLEAN /\ LongId \in Ids
  /\ Targets \subseteq Seq((0 .. Base - 1) \cup {NotHex})
  /\ Garbage \subseteq [1 .. 4 * Bytes -> (0 .. Base - 1) \cup {NotHex}]

VARIABLES
  m_job,       \* Client::m_job, with the target it was given (sent) and the bytes
               \* of stack that were decoded with it (stray)
  m_nicehash,  \* Client::m_nicehash
  code,        \* the error code of the last parse, 0 if none
  device       \* what the GPU works on: "none", m_job or a "stale" job

jobVars == <<m_job, m_nicehash, code, device>>

-----------------------------------------------------------------------------
\* The number of values of a word of n bytes.
Values(n) ==
  LET power[i \in 0 .. n] == IF i = 0 THEN 1 ELSE Base * Base * power[i - 1]
  IN  power[n]

Word32 == Values(Bytes)

Max64 == Values(2 * Bytes) - 1

\* Job::fromHex() into an integer of a little-endian machine: the first byte is
\* the lowest, and within a byte the first digit is the higher one.
IsHex(s) == \A k \in 1 .. Len(s) : s[k] # NotHex

Byte(s, i) == s[2 * i - 1] * Base + s[2 * i]

\* The word of n bytes whose i-th byte, from the lowest, is byte[i].
Word(byte, n) ==
  LET value[i \in 0 .. n] ==
        IF i = 0 THEN 0 ELSE value[i - 1] + byte[i] * Values(i - 1)
  IN  value[n]

\* Mutant: the bytes are read in the order of a big-endian machine.
fromHexMutant(s) ==
  LET n == Len(s) \div 2 IN Word([i \in 1 .. n |-> Byte(s, n + 1 - i)], n)

fromHex(s) ==
  LET n == Len(s) \div 2 IN Word([i \in 1 .. n |-> Byte(s, i)], n)

\* Job::toHex() of a word of n bytes.
toHex(w, n) ==
  LET byte(i) == (w \div Values(i - 1)) % Values(1)
  IN  [k \in 1 .. 2 * n |->
         IF k % 2 = 1 THEN byte((k + 1) \div 2) \div Base ELSE byte(k \div 2) % Base]

\* The characters of a target copied into an array of n on the stack: a shorter
\* one leaves the end of the array as it was.
Padded(t, n, stack) == [k \in 1 .. n |-> IF k <= Len(t) THEN t[k] ELSE stack[k]]

\* The 64-bit target for a 32-bit one.
Target64(w) == Max64 \div ((Word32 - 1) \div w)

toDiff(target) == Max64 \div target

\* Job::setTarget(): the 64-bit target, 0 if it refuses.
setTarget(t, stack) ==
  LET n == IF Len(t) <= 2 * Bytes THEN 2 * Bytes ELSE 4 * Bytes
      s == Padded(t, n, stack)
      word == IF IsHex(s) THEN fromHex(s) ELSE 0
  IN  IF Len(t) > 4 * Bytes \/ word = 0 THEN 0
      ELSE IF n = 2 * Bytes THEN Target64(word) ELSE word

\* Job::setBlob(): the sizes it accepts.
SizeIsRight(chars) ==
  chars % 2 = 0 /\ chars \div 2 >= MinSize /\ chars \div 2 < Capacity

-----------------------------------------------------------------------------
\* The parameters of a job notification.  A member that is missing or null
\* reaches the setters as a null pointer.
Params ==
  [job_id : Ids \cup {Missing}, blob : Blobs \cup {Missing}, target : Targets \cup {Missing}]

NewJob(p, nicehash, stack) ==
  [id |-> p.job_id, size |-> p.blob.chars \div 2, nonce |-> p.blob.nonce,
   nicehash |-> nicehash \/ p.blob.nonce, target |-> setTarget(p.target, stack),
   diff |-> toDiff(setTarget(p.target, stack)), sent |-> p.target,
   stray |-> Len(p.target) \notin {2 * Bytes, 4 * Bytes}]

\* The error code of parseJob() for an object of parameters, 0 if there is none.
Code(p, stack) ==
  CASE p.job_id \in {Missing, LongId} -> 3
    [] p.blob = Missing \/ ~SizeIsRight(p.blob.chars) \/ ~p.blob.hex -> 4
    [] p.target = Missing \/ setTarget(p.target, stack) = 0 -> 5
    [] OTHER -> 0

\* Job::operator==(): the id and the bytes of the blob.
Same(p) ==
  m_job # Missing /\ m_job.id = p.job_id /\ m_job.size = p.blob.chars \div 2
               /\ m_job.nonce = p.blob.nonce

\* XMRSetJob() through Workers and OclWorker: a blob it refuses leaves the GPU
\* with the job it had, and nobody looks at the result.
Load(job) ==
  device' = IF job.size <= MaxSize THEN "m_job"
            ELSE IF device = "none" THEN "none" ELSE "stale"

\* Client::parseJob(); with the same blob and id as before the connection is
\* closed as a duplicate and m_job kept, whatever the target says.
parseJob(p, nicehash) ==
  \E stack \in Garbage :
     /\ code' = Code(p, stack)
     /\ IF Code(p, stack) # 0 \/ Same(p)
        THEN UNCHANGED <<m_job, device>>
        ELSE LET job == NewJob(p, nicehash, stack) IN m_job' = job /\ Load(job)

\* A notification "job" whose params are no object.
NoObject == code' = 2 /\ UNCHANGED <<m_job, m_nicehash, device>>

OnNotification(p) == parseJob(p, m_nicehash) /\ UNCHANGED m_nicehash

\* Client::parseLogin() and parseExtensions(): the flag is that of the URL until
\* the pool lists the extension (ext).
parseExtensions(ext) == UrlNicehash \/ ext

\* A login answer.  parseResponse() closes the connection if there is an error.
OnLogin(p, ext) ==
  /\ m_nicehash' = parseExtensions(ext)
  /\ parseJob(p, m_nicehash')

\* One whose job is no object: the flag has been set already.
OnLoginNoObject(ext) ==
  /\ m_nicehash' = parseExtensions(ext)
  /\ code' = 2 /\ UNCHANGED <<m_job, device>>

\* A login answer without an id for the session.
OnLoginWithoutId == code' = 1 /\ UNCHANGED <<m_job, m_nicehash, device>>

JobInit ==
  /\ m_job = Missing /\ device = "none"
  /\ m_nicehash = FALSE
  /\ code = 0

JobNext ==
  \/ \E p \in Params : OnNotification(p)
  \/ \E p \in Params, ext \in BOOLEAN : OnLogin(p, ext)
  \/ \E ext \in BOOLEAN : OnLoginNoObject(ext)
  \/ OnLoginWithoutId
  \/ NoObject

JobSpec == JobInit /\ [][JobNext]_jobVars

-----------------------------------------------------------------------------
Job ==
  [id : Ids \ {LongId}, size : MinSize .. Capacity - 1, nonce : BOOLEAN,
   nicehash : BOOLEAN, target : 1 .. Max64, diff : 1 .. Max64,
   sent : Targets, stray : BOOLEAN]

\* Every variable has its type; in particular the blob's size stays inside
\* m_blob, whose last byte setBlob() leaves free, and neither the target nor the
\* difficulty of a job is zero (Job.cpp, setBlob, setTarget).
JobTypeOK ==
  /\ m_job \in Job \cup {Missing}
  /\ device \in {"none", "m_job", "stale"}
  /\ m_nicehash \in BOOLEAN
  /\ code \in 0 .. 5

\* The miner's idea of a job is the pool's.  If the pool encoded the 32-bit
\* target w (as Job::toHex() would), it takes the hashes below w * 2^32: all of
\* them are below m_target, and the difficulty that is shown and counted is the
\* pool's (2^32 - 1) / w, although it is computed back from the 64-bit target.  A
\* 64-bit target is taken as it is (Job.cpp, setTarget, fromHex, toDiff).  A
\* target of another length is decoded with bytes of the stack and means nothing.
TargetIsThePools ==
  (m_job # Missing /\ ~m_job.stray) =>
     /\ \A w \in 1 .. Word32 - 1 : m_job.sent = toHex(w, Bytes) =>
          m_job.target >= w * Word32 /\ m_job.diff = (Word32 - 1) \div w
     /\ \A w \in 1 .. Max64 : m_job.sent = toHex(w, 2 * Bytes) => m_job.target = w

\* A job that the client takes has a blob inside m_blob, a target that is not zero,
\* and the pool's idea of both (Job.cpp; Client.cpp, parseJob).
JobInvariant == JobTypeOK /\ TargetIsThePools

\* A blob has at most 84 bytes (the comment on Job::m_blob), so that the GPU can
\* take every job that the client accepts.
MaxBlobSizeIsKept == m_job # Missing => device = "m_job"
=============================================================================
