------------------------------ MODULE MCTimers ------------------------------
(* Instances of Timers for model checking. *)
EXTENDS Timers

(* Specs::Timers::TAC_DIV_BITS_SELECTOR. *)
RealTacDivBits == [s \in Selector |-> <<9, 3, 5, 7>>[s + 1]]

=============================================================================
