---------------------------- MODULE ShareChannel ----------------------------
(***************************************************************************)
(* What the way of a share from a GPU thread to the listener promises,     *)
(* without queue, signal, batons and threads: shares get in one by one,    *)
(* get out in any order and in groups, each of them once, and only a share *)
(* that has got in gets out.  Workers implements this specification.       *)
(***************************************************************************)
EXTENDS Naturals

CONSTANTS Named  \* the jobs a share may name or may be a solution of

VARIABLES
  found,     \* how many shares have been found; they are numbered from 0
  inside,    \* the shares on their way
  settled,   \* the numbers of the ones that got out
  delivered  \* the ones the listener was given

channelVars == <<found, inside, settled, delivered>>

ChannelInit == found = 0 /\ inside = {} /\ settled = {} /\ delivered = {}

Enter(job, on) ==
  /\ inside' = inside \cup {[id |-> found, job |-> job, on |-> on]}
  /\ found' = found + 1
  /\ UNCHANGED <<settled, delivered>>

\* A group gets out: some of it is delivered, the rest is refused.
Leave(group, good) ==
  /\ \A s \in group : s.id \notin settled
  /\ inside' = inside \ group
  /\ settled' = settled \cup {s.id : s \in group}
  /\ delivered' = delivered \cup good
  /\ UNCHANGED found

ChannelNext ==
  \/ \E job, on \in Named : Enter(job, on)
  \/ \E group \in SUBSET inside : \E good \in SUBSET group : Leave(group, good)

ChannelSpec == ChannelInit /\ [][ChannelNext]_channelVars
=============================================================================
