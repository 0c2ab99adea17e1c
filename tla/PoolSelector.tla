---------------------------- MODULE PoolSelector ----------------------------
(***************************************************************************)
(* What the list of pools promises the miner, without sockets, lookups,    *)
(* timers or retries: which pool it works for, and on which job.  The      *)
(* specification FailoverStrategy implements this one.                     *)
(***************************************************************************)
EXTENDS Integers

CONSTANTS
  Count,   \* number of pools, in order of preference
  JobIds,  \* the jobs of a pool
  NoJob

VARIABLES
  active,  \* the pool the miner works for, -1 if none
  miner    \* the job the miner was given last, and whether it is paused

selectorVars == <<active, miner>>

SelectorInit ==
  /\ active = -1
  /\ miner = [job |-> NoJob, paused |-> TRUE]

Work(i, job) == miner' = [job |-> <<i, job>>, paused |-> FALSE]

\* A pool is chosen together with its job.  The first pool is taken whenever it
\* offers itself, a backup only if there is no pool at all.
Choose(i, job) ==
  /\ i = 0 \/ active = -1
  /\ active' = i
  /\ Work(i, job)

\* The active pool has new work, which is never what the miner has already.
Renew(job) ==
  /\ active # -1
  /\ <<active, job>> # miner.job
  /\ Work(active, job)
  /\ UNCHANGED active

\* The active pool is lost, or the miner stops: it pauses, and keeps its job.
Lose ==
  /\ active # -1
  /\ active' = -1
  /\ miner' = [miner EXCEPT !.paused = TRUE]

SelectorNext ==
  \/ \E i \in 0 .. Count - 1, job \in JobIds : Choose(i, job)
  \/ \E job \in JobIds : Renew(job)
  \/ Lose

SelectorSpec == SelectorInit /\ [][SelectorNext]_selectorVars
=============================================================================
