----------------------------- MODULE JoypadPort -----------------------------
(***************************************************************************)
(* The keys and the register P1 (docboy/joypad).  The four keys of a group *)
(* share the lines of the other group, and only a group selected in P1     *)
(* drives them: one key of each group shows every case.                    *)
(***************************************************************************)
EXTENDS Interrupts

CONSTANT Groups  \* the groups of keys: direction keys and buttons

VARIABLES
  pressed,  \* groups with a key held down
  selected  \* groups selected in P1 (select_dpad, select_buttons active low)

joypadVars == <<pressed, selected>>

JoypadTypeOK ==
  /\ pressed \subseteq Groups
  /\ selected \subseteq Groups

(* A CGB cartridge: both groups are selected at reset. *)
ResetJoypad ==
  /\ pressed = {}
  /\ selected = Groups

(* read_keys() # 0b1111 *)
AnyKeyReadInverted == pressed \ selected # {}

AnyKeyRead == pressed \cap selected # {}

(* Joypad::set_key_state: both transitions of a selected key interrupt. *)
SetKeyState(g) ==
  /\ pressed' = IF g \in pressed THEN pressed \ {g} ELSE pressed \cup {g}
  /\ iflag' = IF g \in selected THEN Raised({Joypad}) ELSE iflag
  /\ UNCHANGED <<selected, ienable, block_interrupts>>

=============================================================================
