------------------------------- MODULE Banking ------------------------------
(***************************************************************************)
(* Bank selection of every cartridge the emulator knows                    *)
(* (docboy/cartridge): writes below 8000 go to registers of the cartridge, *)
(* reads of 4000-7FFF and accesses of A000-BFFF to the banks they choose.  *)
(* An address stands for its area (and its bit 8, which MBC2 looks at),    *)
(* one cell for a bank of RAM; masks by the size of ROM and RAM are        *)
(* remainders of bank numbers.                                             *)
(***************************************************************************)
EXTENDS Integers

CONSTANTS
  Carts,      \* the cartridges: kind, rom_banks, ram_banks
  Addresses,  \* the addresses below 8000 a program writes to
  Values,     \* the bytes it writes there
  Bytes       \* the bytes it writes to RAM

Kinds == {"NoMbc", "RomRam", "MBC1", "MBC1M", "MBC2", "MBC3", "MBC5", "MBC5Rumble", "MBC7", "HuC1", "HuC3"}

(* The sizes of ROM the factory has a template for, in banks. *)
RomSizes == {2, 4, 8, 16, 32, 64, 128, 256, 512}

ASSUME BankingAssumption ==
  /\ Carts \subseteq [kind : Kinds, rom_banks : RomSizes, ram_banks : Nat]
  /\ Addresses \subseteq Nat
  /\ Values \subseteq 0 .. 255
  /\ Bytes \subseteq 0 .. 255

VARIABLES
  cart,  \* the cartridge in the slot
  regs,  \* its registers
  cells, \* one cell of every bank of its RAM
  last   \* history: the byte last written to every area since the reset

bankVars == <<cart, regs, cells, last>>

(* mapped: what the area 0000-1FFF last asked to see at A000-BFFF, as the  *)
(* nibble kept by HuC3 (its RamMapping); the booleans of the others are    *)
(* the two values that give them.  upper is                                *)
(* upper_rom_bank_selector_ram_bank_selector of MBC1, the RAM bank         *)
(* selector of the others.                                                 *)
Registers ==
  [mapped : 0 .. 15, rom_bank_selector : 0 .. 511, upper : 0 .. 15, banking_mode : 0 .. 1]

Areas == {"enable", "low", "high", "upper", "mode"}
NoWrite == -1

BankTypeOK ==
  /\ cart \in Carts
  /\ regs \in Registers
  /\ cells \in [0 .. cart.ram_banks - 1 -> 0 .. 255]
  /\ last \in [Areas -> Values \cup {NoWrite}]

(* keep_bits<n> *)
Keep(n, v) == v % 2 ^ n

(* A ROM bank of 0 is replaced by 1. *)
AtLeast1(b) == IF b > 0 THEN b ELSE 1

RomBankSelectorBits == IF cart.kind = "MBC1M" THEN 4 ELSE 5

(* MBC1: the zero test is on 5 bits whatever RomBankSelectorBits is. *)
Mbc1BankZeroKept(v) == Keep(RomBankSelectorBits, v)

Mbc1Bank(v) == IF Keep(5, v) > 0 THEN Keep(RomBankSelectorBits, v) ELSE 1

Mbc1WriteRom(a, v) ==
  IF a < 8192 THEN [regs EXCEPT !.mapped = Keep(4, v)]
  ELSE IF a < 16384 THEN [regs EXCEPT !.rom_bank_selector = Mbc1Bank(v)]
  ELSE IF a < 24576 THEN [regs EXCEPT !.upper = Keep(2, v)]
  ELSE [regs EXCEPT !.banking_mode = Keep(1, v)]

(* MBC2: bit 8 of the address tells the two registers apart. *)
Mbc2WriteRom(a, v) ==
  IF a >= 16384 THEN regs
  ELSE IF (a \div 256) % 2 = 1 THEN [regs EXCEPT !.rom_bank_selector = AtLeast1(Keep(4, v))]
  ELSE [regs EXCEPT !.mapped = Keep(4, v)]

Mbc3WriteRom(a, v) ==
  IF a < 8192 THEN [regs EXCEPT !.mapped = Keep(4, v)]
  ELSE IF a < 16384 THEN [regs EXCEPT !.rom_bank_selector = AtLeast1(v)]
  ELSE IF a < 24576 THEN [regs EXCEPT !.upper = Keep(4, v)]
  ELSE regs  \* latches the clock

(* MBC5: the low byte, then the ninth bit; bank 0 may be chosen. *)
Mbc5Low(bank, v) == 256 * (bank \div 256) + v

Mbc5WriteRom(a, v) ==
  LET bank == regs.rom_bank_selector IN
  IF a < 8192 THEN [regs EXCEPT !.mapped = Keep(4, v)]
  ELSE IF a < 12288 THEN [regs EXCEPT !.rom_bank_selector = Mbc5Low(bank, v)]
  ELSE IF a < 16384 THEN [regs EXCEPT !.rom_bank_selector = 256 * Keep(1, v) + Keep(8, bank)]
  ELSE IF a < 24576 THEN [regs EXCEPT !.upper = Keep(IF cart.kind = "MBC5Rumble" THEN 3 ELSE 4, v)]
  ELSE regs

(* MBC7: 4000-5FFF is the second lock of its EEPROM. *)
Mbc7WriteRom(a, v) ==
  IF a < 8192 THEN [regs EXCEPT !.mapped = Keep(4, v)]
  ELSE IF a < 16384 THEN [regs EXCEPT !.rom_bank_selector = v]
  ELSE regs

HuC1WriteRom(a, v) ==
  IF a < 8192 THEN [regs EXCEPT !.mapped = Keep(4, v)]
  ELSE IF a < 16384 THEN [regs EXCEPT !.rom_bank_selector = AtLeast1(Keep(6, v))]
  ELSE IF a < 24576 THEN [regs EXCEPT !.upper = Keep(2, v)]
  ELSE regs

HuC3WriteRom(a, v) ==
  IF a < 8192 THEN [regs EXCEPT !.mapped = Keep(4, v)]
  ELSE IF a < 16384 THEN [regs EXCEPT !.rom_bank_selector = Keep(7, v)]
  ELSE IF a < 24576 THEN [regs EXCEPT !.upper = Keep(2, v)]
  ELSE regs

Written(a, v) ==
  CASE cart.kind \in {"MBC1", "MBC1M"} -> Mbc1WriteRom(a, v)
    [] cart.kind = "MBC2" -> Mbc2WriteRom(a, v)
    [] cart.kind = "MBC3" -> Mbc3WriteRom(a, v)
    [] cart.kind \in {"MBC5", "MBC5Rumble"} -> Mbc5WriteRom(a, v)
    [] cart.kind = "MBC7" -> Mbc7WriteRom(a, v)
    [] cart.kind = "HuC1" -> HuC1WriteRom(a, v)
    [] cart.kind = "HuC3" -> HuC3WriteRom(a, v)
    [] OTHER -> regs

(* Where a byte read at a < 8000 comes from. *)
RomBank(a) ==
  LET sel == regs.rom_bank_selector
      up == regs.upper * 2 ^ RomBankSelectorBits
  IN CASE cart.kind \in {"NoMbc", "RomRam"} -> IF a < 16384 THEN 0 ELSE 1
       [] cart.kind \in {"MBC1", "MBC1M"} ->
            (IF a >= 16384 THEN up + sel ELSE IF regs.banking_mode = 1 THEN up ELSE 0) % cart.rom_banks
       [] OTHER -> IF a < 16384 THEN 0 ELSE sel % cart.rom_banks

HighBank == RomBank(16384)

(* MBC3 shows RAM below MaxRamBankSelector, the clock above. *)
MaxRamBankSelector == IF cart.ram_banks < 8 THEN 4 ELSE 8

RamBank ==
  LET chosen == CASE cart.kind \in {"MBC1", "MBC1M"} -> IF regs.banking_mode = 1 THEN regs.upper ELSE 0
                  [] cart.kind \in {"MBC3", "MBC5", "MBC5Rumble", "HuC1", "HuC3"} -> regs.upper
                  [] OTHER -> 0
  IN IF cart.ram_banks = 0 THEN 0 ELSE chosen % cart.ram_banks

(* What a program finds at A000-BFFF: RAM it may write, RAM it may only    *)
(* read, or no RAM. *)
Window ==
  IF cart.ram_banks = 0 \/ cart.kind = "MBC7" THEN "closed" ELSE
  CASE cart.kind \in {"NoMbc", "RomRam"} -> "write"
    [] cart.kind = "HuC1" -> IF regs.mapped = 14 THEN "closed" ELSE "write"
    [] cart.kind = "HuC3" -> CASE regs.mapped = 0 -> "read" [] regs.mapped = 10 -> "write" [] OTHER -> "closed"
    [] cart.kind = "MBC3" -> IF regs.mapped = 10 /\ regs.upper < MaxRamBankSelector THEN "write" ELSE "closed"
    [] OTHER -> IF regs.mapped = 10 THEN "write" ELSE "closed"

ResetRegs == [mapped |-> 0, rom_bank_selector |-> 1, upper |-> 0, banking_mode |-> 0]
Wiped(c) == [b \in 0 .. c.ram_banks - 1 |-> IF c.kind \in {"HuC1", "HuC3"} THEN 0 ELSE 255]
Unwritten == [area \in Areas |-> NoWrite]

BankInit ==
  /\ cart \in Carts
  /\ regs = ResetRegs
  /\ cells = Wiped(cart)
  /\ last = Unwritten

(* The area of the table an address is in; writes elsewhere do nothing. *)
Mbc1Kinds == {"MBC1", "MBC1M"}
Mbc5Kinds == {"MBC5", "MBC5Rumble"}

AreaOf(a) ==
  IF cart.kind \in {"NoMbc", "RomRam"} THEN "none"
  ELSE IF cart.kind = "MBC2"
  THEN IF a >= 16384 THEN "none" ELSE IF (a \div 256) % 2 = 1 THEN "low" ELSE "enable"
  ELSE IF a < 8192 THEN "enable"
  ELSE IF a < 12288 THEN "low"
  ELSE IF a < 16384 THEN IF cart.kind \in Mbc5Kinds THEN "high" ELSE "low"
  ELSE IF a < 24576 THEN IF cart.kind = "MBC7" THEN "none" ELSE "upper"
  ELSE IF cart.kind \in Mbc1Kinds THEN "mode" ELSE "none"

WriteRom(a, v) ==
  /\ regs' = Written(a, v)
  /\ last' = [area \in Areas |-> IF area = AreaOf(a) THEN v ELSE last[area]]
  /\ UNCHANGED <<cart, cells>>

WriteRamBlindly(v) ==
  /\ cells' = [cells EXCEPT ![RamBank] = v]
  /\ UNCHANGED <<cart, regs, last>>

WriteRam(v) ==
  /\ Window = "write"
  /\ cells' = [cells EXCEPT ![RamBank] = v]
  /\ UNCHANGED <<cart, regs, last>>

ResetCart ==
  /\ regs' = ResetRegs
  /\ cells' = Wiped(cart)
  /\ last' = Unwritten
  /\ UNCHANGED cart

BankNext ==
  \/ \E a \in Addresses, v \in Values : WriteRom(a, v)
  \/ \E v \in Bytes : WriteRam(v)
  \/ ResetCart

BankSpec == BankInit /\ [][BankNext]_bankVars
-----------------------------------------------------------------------------
(* The tables at the head of the mappers' sources, on the bytes last       *)
(* written: bits L of 2000-3FFF (and the ninth of MBC5), U of 4000-5FFF.   *)
Wrote(area, reset) == IF last[area] = NoWrite THEN reset ELSE last[area]

TableBank ==
  LET low == Wrote("low", 1)
      nonzero(b) == IF b = 0 THEN 1 ELSE b
      Mbc1(bits) == (IF low % 32 = 0 THEN 1 ELSE low % 2 ^ bits) + 2 ^ bits * (Wrote("upper", 0) % 4)
  IN CASE cart.kind = "MBC1" -> Mbc1(5)
       [] cart.kind = "MBC1M" -> Mbc1(4)
       [] cart.kind = "MBC2" -> nonzero(low % 16)
       [] cart.kind = "MBC3" -> nonzero(low)
       [] cart.kind \in {"MBC5", "MBC5Rumble"} -> low + 256 * (Wrote("high", 0) % 2)
       [] cart.kind = "MBC7" -> low
       [] cart.kind = "HuC1" -> nonzero(low % 64)
       [] cart.kind = "HuC3" -> low % 128
       [] OTHER -> 1

(* The ROM bank at 4000-7FFF is a function of the last byte written to     *)
(* each area, in whatever order the areas were written, and is never bank  *)
(* 0 on a mapper that replaces it, if the ROM has as many banks as the     *)
(* selector can name.                                                      *)
BanksAsTable ==
  /\ HighBank = TableBank % cart.rom_banks
  /\ \/ cart.kind \in {"MBC1M", "MBC5", "MBC5Rumble", "MBC7", "HuC3"}
     \/ cart.rom_banks < (CASE cart.kind = "MBC1" -> 32 [] cart.kind = "MBC2" -> 16
                            [] cart.kind = "MBC3" -> 256 [] cart.kind = "HuC1" -> 64 [] OTHER -> 2)
     \/ HighBank # 0

TableRamBank ==
  LET upper == Wrote("upper", 0)
      shown == CASE cart.kind \in {"MBC1", "MBC1M"} -> IF Wrote("mode", 0) % 2 = 1 THEN upper % 4 ELSE 0
                 [] cart.kind \in {"MBC3", "MBC5"} -> upper % 16
                 [] cart.kind = "MBC5Rumble" -> upper % 8
                 [] cart.kind \in {"HuC1", "HuC3"} -> upper % 4
                 [] OTHER -> 0
  IN IF cart.ram_banks = 0 THEN 0 ELSE shown % cart.ram_banks

TableWindow ==
  LET enable == Wrote("enable", 0) % 16
      opened == CASE cart.kind \in {"NoMbc", "RomRam"} -> "write"
                  [] cart.kind = "MBC7" -> "closed"
                  [] cart.kind = "HuC1" -> IF enable = 14 THEN "closed" ELSE "write"
                  [] cart.kind = "HuC3" -> IF enable = 0 THEN "read" ELSE IF enable = 10 THEN "write" ELSE "closed"
                  [] OTHER -> IF enable = 10 THEN "write" ELSE "closed"
      clock == cart.kind = "MBC3" /\ Wrote("upper", 0) % 16 >= 8
      missing == cart.kind = "MBC3" /\ cart.ram_banks < 8 /\ Wrote("upper", 0) % 16 >= 4
  IN IF cart.ram_banks = 0 \/ clock \/ missing THEN "closed" ELSE opened

(* The cartridge implements the banked memory whose bank and window are    *)
(* those the table gives for the bytes last written: no RAM is lost when   *)
(* banks are chosen, written through a closed window, or found in another  *)
(* bank than the one it was written to.                                    *)
Memory == INSTANCE BankedMemory WITH
  rom_banks <- cart.rom_banks, ram_banks <- cart.ram_banks,
  high <- HighBank, bank <- TableRamBank, window <- TableWindow
ImplementsBankedMemory == Memory!Spec
=============================================================================
