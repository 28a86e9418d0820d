----------------------------- MODULE BankedMemory ---------------------------
(***************************************************************************)
(* What every cartridge promises a program: one bank of the ROM is seen at *)
(* 4000-7FFF, one bank of the RAM (or something else, or nothing) at       *)
(* A000-BFFF; choosing banks leaves the RAM alone, and a write through the *)
(* window changes the cell of the chosen bank and no other.                *)
(***************************************************************************)
EXTENDS Naturals

CONSTANTS Bytes  \* the bytes a program writes

VARIABLES
  rom_banks, ram_banks,  \* the sizes, fixed by the cartridge
  high,                  \* the ROM bank seen at 4000-7FFF
  bank,                  \* the RAM bank behind the window
  window,                \* "closed", "read" or "write"
  cells                  \* one cell of every RAM bank

bankedVars == <<rom_banks, ram_banks, high, bank, window, cells>>

Seen ==
  /\ high \in 0 .. rom_banks - 1
  /\ bank \in 0 .. ram_banks - 1 \/ ram_banks = 0
  /\ window \in {"closed", "read", "write"}
  /\ ram_banks = 0 => window = "closed"

Init == Seen

(* A write of a register of the cartridge. *)
Select ==
  /\ Seen'
  /\ UNCHANGED <<rom_banks, ram_banks, cells>>

(* A write through an open window. *)
Store(v) ==
  /\ window = "write"
  /\ cells' = [cells EXCEPT ![bank] = v]
  /\ UNCHANGED <<rom_banks, ram_banks, high, bank, window>>

(* The cartridge is reset: every cell gets the same value. *)
Wipe ==
  /\ Seen'
  /\ \E v \in {0, 255} : cells' = [b \in DOMAIN cells |-> v]
  /\ UNCHANGED <<rom_banks, ram_banks>>

Next == Select \/ (\E v \in Bytes : Store(v)) \/ Wipe

Spec == Init /\ [][Next]_bankedVars
=============================================================================
