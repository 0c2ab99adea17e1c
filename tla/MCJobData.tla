----------------------------- MODULE MCJobData -----------------------------
(* The jobs of a pool for TLC: every 32-bit target, some 64-bit ones, and some *)
(* targets that are empty, too short, too long or not hexadecimal; blobs at   *)
(* both sides of every limit.                                                 *)
EXTENDS JobData

Digit == 0 .. Base - 1

MCTargets ==
  [1 .. 2 * Bytes -> Digit]
    \cup {<<0, 0, 0, 0>>, <<0, 1, 3, 2>>, <<2, 3, 0, 0>>}
    \cup {<<>>, <<1>>, <<NotHex, 1>>, <<0, 1, 0, 1, 0>>}

MCGarbage == { [k \in 1 .. 4 * Bytes |-> d] : d \in {1, NotHex} }

MCBlobs ==
  [chars : {2 * MaxSize}, hex : {TRUE}, nonce : BOOLEAN]
    \cup [chars : {2 * MinSize - 2, 2 * MinSize + 1, 2 * Capacity - 2, 2 * Capacity},
          hex : {TRUE}, nonce : {FALSE}]
    \cup [chars : {2 * MinSize}, hex : {FALSE}, nonce : {FALSE}]
=============================================================================
