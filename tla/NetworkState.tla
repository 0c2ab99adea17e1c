---------------------------- MODULE NetworkState ----------------------------
(***************************************************************************)
(* The statistics of the connection (src/api/NetworkState.cpp), shown by   *)
(* the HTTP API, as operators on a record.  Widths do not matter here: the *)
(* counters are 64 bits wide.  Of a sample of the latency only the client  *)
(* that gave the answer is kept, not the milliseconds.                     *)
(***************************************************************************)
EXTENDS Naturals, Sequences, Functions

CONSTANTS TopSize  \* topDiff.size(), 10 in the code

ASSUME TopSizeAssumption == TopSize \in Nat \ {0}

NewState ==
  [active |-> FALSE, accepted |-> 0, rejected |-> 0, failures |-> 0, total |-> 0,
   topDiff |-> [k \in 1 .. TopSize |-> 0], latency |-> <<>>]

\* std::sort(topDiff.rbegin(), topDiff.rend())
Descending(s) ==
  LET place == CHOOSE p \in Bijection(DOMAIN s, DOMAIN s) :
                 \A j, k \in DOMAIN s : j < k => s[p[j]] >= s[p[k]]
  IN  [k \in DOMAIN s |-> s[place[k]]]

\* The list of the best results: the last one gives way to a better one.
topped(topDiff, actual) ==
  IF actual > topDiff[TopSize] THEN Descending([topDiff EXCEPT ![TopSize] = actual])
                               ELSE topDiff

add(state, result, error, client) ==
  IF error
  THEN [state EXCEPT !.rejected = @ + 1]
  ELSE [state EXCEPT !.accepted = @ + 1,
                     !.total = @ + result.diff,
                     !.topDiff = topped(@, result.actualDiff),
                     !.latency = Append(@, client)]

\* The samples of the latency are not cleared here.
setPool(state) == [state EXCEPT !.active = TRUE]

stop(state) == [state EXCEPT !.active = FALSE, !.failures = @ + 1, !.latency = <<>>]
=============================================================================
