----------------------------- MODULE MCBackward -----------------------------
(***************************************************************************)
(* One formula for bounded variable elimination, with 1 as the only pivot. *)
(* While its resolvents are added the unit 2 is found and not propagated.  *)
(* When the resolvent {6, 7} is taken from the queue and compared with     *)
(* {6, 2}, which 2 satisfies, {6, 8} goes after it, although nothing       *)
(* implies it.                                                             *)
(***************************************************************************)
EXTENDS Simplifier

MCVars == 1..8

MCStarts == {
  [clauses |-> << {1, -5}, {-1, -5}, {1, 6}, {1, 2, 3}, {1, -3, 5}, {-1, -3}, {-1, 7},
                  {-1, 2, 4}, {-1, 8, 5}, {3, -4}, {7, 2, 3}, {7, 2, 4} >>,
   frozen |-> 2..8, assumptions |-> {}, options |-> {"elim"}] }
=============================================================================
