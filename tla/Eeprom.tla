------------------------------- MODULE Eeprom -------------------------------
(***************************************************************************)
(* The serial EEPROM of MBC7 cartridges (docboy/cartridge/mbc7).  A        *)
(* program drives its chip select, clock and data in by writing one        *)
(* register: on rising clocks a start bit, an instruction and, if it has   *)
(* one, its parameter are shifted in, or a word is shifted out; what an    *)
(* instruction writes is written when chip select falls.                   *)
(***************************************************************************)
EXTENDS Integers, Sequences

CONSTANTS
  InstructionBits,   \* 10: two of opcode, the others of address
  AddressSpaceBits,  \* 7 or 8: those of the address that are used
  DataBits           \* 16

ASSUME EepromAssumption ==
  /\ InstructionBits \in Nat /\ InstructionBits >= 4
  /\ AddressSpaceBits \in 1 .. InstructionBits - 2
  /\ DataBits \in Nat \ {0}

VARIABLES
  chip,  \* the EEPROM, and whether both locks of its register are open
  heard  \* history: bits since chip select rose, from the start bit on

eepromVars == <<chip, heard>>

Strings(n) == UNION {[1 .. k -> {0, 1}] : k \in 0 .. n}
Word == [1 .. DataBits -> {0, 1}]
CellNames == [1 .. AddressSpaceBits -> {0, 1}]
Ones == [k \in 1 .. DataBits |-> 1]
EepromStates == {"Idle", "Instruction", "Input", "Output", "PendingWrite", "Done"}

(* instruction, input: the bits shifted in, the length being the cursor;   *)
(* output: the bits still to be shifted out.  command is the one parsed    *)
(* from a whole instruction.                                               *)
Chips ==
  [unlocked : BOOLEAN, clk : BOOLEAN, cs : BOOLEAN, data_out : {0, 1},
   erase_write_enabled : BOOLEAN, state : EepromStates,
   instruction : Strings(InstructionBits), input : Strings(DataBits),
   output : Strings(DataBits), data : [CellNames -> Word]]

EepromTypeOK == chip \in Chips

Erased == [a \in CellNames |-> Ones]

EepromInit ==
  /\ chip = [unlocked |-> FALSE, clk |-> FALSE, cs |-> FALSE, data_out |-> 0,
             erase_write_enabled |-> FALSE, state |-> "Idle",
             instruction |-> <<>>, input |-> <<>>, output |-> <<>>, data |-> Erased]
  /\ heard = <<>>

(* parse_eeprom_command: the two bits of opcode, and two more if both are 0 *)
ParseCommand(bits) ==
  CASE bits[1] = 0 /\ bits[2] = 1 -> "WRITE"
    [] bits[1] = 1 /\ bits[2] = 0 -> "READ"
    [] bits[1] = 1 /\ bits[2] = 1 -> "ERASE"
    [] bits[1] = 0 /\ bits[2] = 0 ->
         CASE bits[3] = 0 /\ bits[4] = 0 -> "EWDS"
           [] bits[3] = 0 /\ bits[4] = 1 -> "WRAL"
           [] bits[3] = 1 /\ bits[4] = 0 -> "ERAL"
           [] OTHER -> "EWEN"

(* The last bits of an instruction. *)
AddressOf(bits) == [k \in 1 .. AddressSpaceBits |-> bits[InstructionBits - AddressSpaceBits + k]]

(* handle_eeprom_instruction *)
Handled(c) ==
  LET command == ParseCommand(c.instruction) IN
  CASE command = "EWDS" -> [c EXCEPT !.state = "Done", !.erase_write_enabled = FALSE]
    [] command = "EWEN" -> [c EXCEPT !.state = "Done", !.erase_write_enabled = TRUE]
    [] command = "READ" -> [c EXCEPT !.state = "Output", !.output = c.data[AddressOf(c.instruction)]]
    [] command \in {"WRITE", "WRAL"} -> [c EXCEPT !.state = "Input", !.input = <<>>]
    [] OTHER -> [c EXCEPT !.state = "PendingWrite"]

(* What a rising clock does, and the start of an instruction it may be. *)
Started(c) == [c EXCEPT !.state = "Instruction", !.instruction = <<>>]

ShiftedInstruction(c, b) ==
  LET shifted == [c EXCEPT !.instruction = Append(@, b)] IN
  IF Len(shifted.instruction) = InstructionBits THEN Handled(shifted) ELSE shifted

ShiftedInput(c, b) ==
  [c EXCEPT !.input = Append(@, b),
            !.state = IF Len(c.input) + 1 = DataBits THEN "PendingWrite" ELSE @]

ShiftedOutput(c) ==
  [c EXCEPT !.data_out = Head(c.output), !.output = Tail(@),
            !.state = IF Len(c.output) = 1 THEN "Done" ELSE @]

RisingClock(c, select, b) ==
  CASE c.state = "Idle" /\ b = 1 /\ select -> Started(c)
    [] c.state = "Instruction" -> ShiftedInstruction(c, b)
    [] c.state = "Input" -> ShiftedInput(c, b)
    [] c.state = "Output" -> ShiftedOutput(c)
    [] OTHER -> c

(* handle_eeprom_pending_write *)
Programmed(data, bits, word) ==
  LET command == ParseCommand(bits) IN
  CASE command = "WRITE" -> [data EXCEPT ![AddressOf(bits)] = word]
    [] command = "ERASE" -> [data EXCEPT ![AddressOf(bits)] = Ones]
    [] command = "WRAL" -> [a \in CellNames |-> word]
    [] OTHER -> Erased

WrittenUnprotected(c) == [c EXCEPT !.data = Programmed(@, c.instruction, c.input), !.data_out = 1]

WrittenPending(c) ==
  IF c.erase_write_enabled THEN WrittenUnprotected(c) ELSE c

(* A falling chip select, after the clock of the same write: the pending   *)
(* write is done, anything unfinished is aborted.                          *)
Deselected(c) ==
  [(IF c.state = "PendingWrite" THEN WrittenPending(c) ELSE c) EXCEPT
     !.state = "Idle", !.instruction = <<>>, !.input = <<>>, !.output = <<>>]

(* A write of the register: the clock first, then chip select. *)
WriteEeprom(select, clock, b) ==
  LET rising == ~chip.clk /\ clock
      clocked == IF rising THEN RisingClock(chip, select, b) ELSE chip
      selected == IF chip.cs /\ ~select THEN Deselected(clocked) ELSE clocked
      before == IF chip.cs THEN heard ELSE <<>>
  IN /\ chip.unlocked
     /\ chip' = [selected EXCEPT !.clk = clock, !.cs = select]
     /\ heard' = IF /\ rising
                    /\ before # <<>> \/ (select /\ b = 1)
                    /\ Len(before) <= InstructionBits + DataBits
                 THEN Append(before, b)
                 ELSE before

(* The locks: 0A written to 0000-1FFF, 40 to 4000-5FFF, and what relocks. *)
Lock(open) ==
  /\ chip' = [chip EXCEPT !.unlocked = open]
  /\ UNCHANGED heard

EepromReset ==
  /\ chip' = [unlocked |-> FALSE, clk |-> FALSE, cs |-> FALSE, data_out |-> 0,
              erase_write_enabled |-> FALSE, state |-> "Idle",
              instruction |-> <<>>, input |-> <<>>, output |-> <<>>, data |-> Erased]
  /\ heard' = <<>>

EepromNext ==
  \/ \E select, clock \in BOOLEAN, b \in {0, 1} : WriteEeprom(select, clock, b)
  \/ \E open \in BOOLEAN : Lock(open)
  \/ EepromReset

EepromSpec == EepromInit /\ [][EepromNext]_eepromVars
-----------------------------------------------------------------------------
(* What was heard, without the start bit. *)
HeardInstruction(h) == SubSeq(h, 2, InstructionBits + 1)
HeardParameter(h) == SubSeq(h, InstructionBits + 2, InstructionBits + 1 + DataBits)
Extra(h) == Len(h) - InstructionBits - 1
Asks(h, commands) == Extra(h) >= 0 /\ ParseCommand(HeardInstruction(h)) \in commands

WriteHeard(h) == Asks(h, {"ERASE", "ERAL"}) \/ (Asks(h, {"WRITE", "WRAL"}) /\ Extra(h) >= DataBits)

(* The chip obeys what it was told since it was selected, however the      *)
(* lines were toggled: cells change only when it is deselected, to what a  *)
(* whole instruction heard with its whole parameter says, if writes are    *)
(* enabled; they are enabled and disabled by the two instructions that     *)
(* say so, as soon as these are whole; and the bits after READ are those   *)
(* of the cell, high bit first.                                            *)
Obeyed ==
  LET falls == chip.cs /\ ~chip'.cs
      whole == Extra(heard') = 0 /\ heard' # heard
  IN /\ chip'.data =
          IF falls /\ chip'.erase_write_enabled /\ WriteHeard(heard')
          THEN Programmed(chip.data, HeardInstruction(heard'), HeardParameter(heard'))
          ELSE chip.data
     /\ chip'.erase_write_enabled =
          IF whole /\ Asks(heard', {"EWEN", "EWDS"})
          THEN Asks(heard', {"EWEN"})
          ELSE chip.erase_write_enabled
     /\ Asks(heard', {"READ"}) /\ Extra(heard') \in 1 .. DataBits /\ heard' # heard =>
          chip'.data_out = chip.data[AddressOf(HeardInstruction(heard'))][Extra(heard')]

EepromObeys == [][EepromNext /\ ~EepromReset => Obeyed]_eepromVars
=============================================================================
