---------------------------- MODULE MCPixelTransfer -------------------------
EXTENDS PixelTransfer

(* No object; one before the row; one, then two in a column. *)
MCLayouts == {{}, {[x |-> 0, number |-> 0]},
              {[x |-> 4, number |-> 0], [x |-> 9, number |-> 1], [x |-> 9, number |-> 2]}}
=============================================================================
