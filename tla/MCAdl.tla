------------------------------- MODULE MCAdl -------------------------------
(* Two adapters with two levels each, one of them low and one high.           *)
EXTENDS Adl, TLC

Row(on, clock, vddc) == [enabled |-> on, clock |-> clock, vddc |-> vddc]

MCTables ==
  { (0 :> Row(TRUE, 3, 4)) @@ (1 :> Row(TRUE, 5, 6)),
    (0 :> Row(FALSE, 3, 4)) @@ (1 :> Row(TRUE, 5, 12)),
    (0 :> Row(TRUE, 3, 4)) @@ (1 :> Row(FALSE, 0, 0)) }

Set == [clock |-> 8, vddc |-> 7]

MCProfiles == { <<>>, <<Set>>, <<Set, Set>>, <<Set, Set, Set, Set>> }

MCSettings == { [temperature |-> 0, power |-> -5], [temperature |-> 75, power |-> 0] }
=============================================================================
