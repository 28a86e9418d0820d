------------------------- MODULE CartridgeSlotProofs ------------------------
(***************************************************************************)
(* Proofs about the cartridge in the slot, for every cartridge of every    *)
(* size, any order of accesses, and clocks and EEPROMs of any widths.      *)
(*   - The bank registers are a function of the bytes last written         *)
(*     (TableRegs), from which follow the tables at the head of the        *)
(*     mappers' sources and the banked memory every cartridge implements.  *)
(*   - The clocks of MBC3 and HuC3 show the host's seconds: the carries of *)
(*     both ways to advance add up to the seconds that passed.             *)
(*   - The EEPROM of MBC7 obeys what it was told: its state is where the   *)
(*     bits heard since it was selected have brought it (Follows).         *)
(***************************************************************************)
EXTENDS CartridgeSlot, SequenceTheorems, TLAPS

(* Division with a remainder.                                              *)

LEMMA DivMod ==
  ASSUME NEW a \in Int, NEW k \in Nat \ {0}
  PROVE  a \div k \in Int /\ a % k \in 0 .. k - 1 /\ a = k * (a \div k) + (a % k)
<1>1. k \in Int /\ k > 0
  OBVIOUS
<1>2. a \div k \in Int
  BY <1>1
<1>3. a % k \in 0 .. k - 1
  BY <1>1
<1>4. a = k * (a \div k) + (a % k)
  BY <1>1
<1> QED BY <1>2, <1>3, <1>4

LEMMA Less ==
  ASSUME NEW k \in Nat \ {0}, NEW d \in Int, NEW r \in 0 .. k - 1, NEW s \in 0 .. k - 1, k * d = s - r
  PROVE  d = 0
<1>1. ASSUME d >= 1 PROVE FALSE
  <2>1. k * d >= k
    BY <1>1
  <2> QED BY <2>1
<1>2. ASSUME d <= -1 PROVE FALSE
  <2>1. k * d <= -k
    BY <1>2
  <2> QED BY <2>1
<1> QED BY <1>1, <1>2

LEMMA Unique ==
  ASSUME NEW a \in Int, NEW k \in Nat \ {0}, NEW q \in Int, NEW r \in 0 .. k - 1, a = k * q + r
  PROVE  a % k = r /\ a \div k = q
<1> DEFINE p == a \div k
           s == a % k
<1>1. p \in Int /\ s \in 0 .. k - 1 /\ a = k * p + s
  BY DivMod
<1> HIDE DEF p, s
<1>2. q - p \in Int /\ k * (q - p) = k * q - k * p
  BY <1>1
<1>3. k * q \in Int /\ k * p \in Int
  BY <1>1
<1>4. k * (q - p) = s - r
  BY <1>1, <1>2, <1>3
<1>5. q - p = 0
  BY <1>1, <1>2, <1>4, Less
<1>6. q = p
  BY <1>1, <1>5
<1>7. r = s
  BY <1>1, <1>3, <1>6
<1> QED BY <1>6, <1>7 DEF p, s

LEMMA Shift ==
  ASSUME NEW a \in Int, NEW k \in Nat \ {0}, NEW q \in Int
  PROVE  (a + k * q) % k = a % k
<1> DEFINE p == a \div k
           s == a % k
<1>1. p \in Int /\ s \in 0 .. k - 1 /\ a = k * p + s
  BY DivMod
<1> HIDE DEF p, s
<1>2. a + k * q \in Int /\ p + q \in Int /\ a + k * q = k * (p + q) + s
  BY <1>1
<1>3. (a + k * q) % k = s
  BY <1>1, <1>2, Unique
<1> QED BY <1>3 DEF s

LEMMA ModPlus ==
  ASSUME NEW a \in Int, NEW b \in Int, NEW k \in Nat \ {0}
  PROVE  ((a % k) + b) % k = (a + b) % k
<1> DEFINE p == a \div k
           s == a % k
<1>1. p \in Int /\ s \in 0 .. k - 1 /\ a = k * p + s
  BY DivMod
<1> HIDE DEF p, s
<1>2. s + b \in Int /\ a + b = (s + b) + k * p
  BY <1>1
<1>3. ((s + b) + k * p) % k = (s + b) % k
  BY <1>1, <1>2, Shift
<1>4. (a + b) % k = (s + b) % k
  BY <1>2, <1>3
<1> QED BY <1>4 DEF s

LEMMA DivDiv ==
  ASSUME NEW a \in Nat, NEW j \in Nat \ {0}, NEW k \in Nat \ {0}
  PROVE  j * k \in Nat \ {0} /\ a \div (j * k) = (a \div j) \div k
<1> DEFINE p == a \div j
           s == a % j
           u == p \div k
           v == p % k
<1>0. j * k \in Nat \ {0}
  OBVIOUS
<1>1. p \in Int /\ s \in 0 .. j - 1 /\ a = j * p + s
  BY DivMod
<1>2. u \in Int /\ v \in 0 .. k - 1 /\ p = k * u + v
  BY <1>1, DivMod
<1> HIDE DEF p, s, u, v
<1>3. j * v + s \in 0 .. j * k - 1
  <2>1. v + 1 <= k /\ v >= 0
    BY <1>2
  <2>2. j * (v + 1) <= j * k /\ j * v >= 0 /\ j * (v + 1) = j * v + j /\ j * v \in Int /\ j * k \in Int
    BY <1>2, <2>1
  <2> QED BY <1>1, <2>2
<1>4. a = (j * k) * u + (j * v + s)
  <2>1. j * p = j * (k * u) + j * v
    BY <1>2
  <2>2. j * (k * u) = (j * k) * u
    BY <1>2
  <2> QED BY <1>1, <2>1, <2>2, <1>2
<1>5. a \div (j * k) = u
  BY <1>0, <1>2, <1>3, <1>4, Unique
<1> QED BY <1>0, <1>5 DEF u, p

(* One register: what stays in it, and what is carried. *)
LEMMA Carried ==
  ASSUME NEW n \in Nat, NEW k \in Nat \ {0}
  PROVE  n % k \in 0 .. k - 1 /\ n \div k \in Nat /\ n = (n % k) + k * (n \div k)
<1>1. n \div k \in Int /\ n % k \in 0 .. k - 1 /\ n = k * (n \div k) + (n % k)
  BY DivMod
<1>2. n \div k \in Nat
  OBVIOUS
<1>3. k * (n \div k) \in Int /\ n % k \in Int
  BY <1>1
<1> QED BY <1>1, <1>2, <1>3

-----------------------------------------------------------------------------
(* The bank registers.                                                     *)

NonZero(b) == IF b = 0 THEN 1 ELSE b

TableSelector ==
  LET low == Wrote("low", 1) IN
  CASE cart.kind = "MBC1" -> IF low % 32 = 0 THEN 1 ELSE low % 32
    [] cart.kind = "MBC1M" -> IF low % 32 = 0 THEN 1 ELSE low % 16
    [] cart.kind = "MBC2" -> NonZero(low % 16)
    [] cart.kind = "MBC3" -> NonZero(low)
    [] cart.kind \in {"MBC5", "MBC5Rumble"} -> low + 256 * (Wrote("high", 0) % 2)
    [] cart.kind = "MBC7" -> low
    [] cart.kind = "HuC1" -> NonZero(low % 64)
    [] cart.kind = "HuC3" -> low % 128
    [] OTHER -> 1

TableUpper ==
  LET upper == Wrote("upper", 0) IN
  CASE cart.kind \in {"MBC1", "MBC1M", "HuC1", "HuC3"} -> upper % 4
    [] cart.kind \in {"MBC3", "MBC5"} -> upper % 16
    [] cart.kind = "MBC5Rumble" -> upper % 8
    [] OTHER -> 0

TableRegs ==
  [mapped |-> Wrote("enable", 0) % 16, rom_bank_selector |-> TableSelector,
   upper |-> TableUpper, banking_mode |-> Wrote("mode", 0) % 2]

(* The bytes last written, as the tables use them. *)
WroteBytes ==
  /\ Wrote("enable", 0) \in 0 .. 255 /\ Wrote("low", 1) \in 0 .. 255 /\ Wrote("high", 0) \in 0 .. 255
  /\ Wrote("upper", 0) \in 0 .. 255 /\ Wrote("mode", 0) \in 0 .. 255

BankInv ==
  /\ cart \in [kind : Kinds, rom_banks : RomSizes, ram_banks : Nat]
  /\ DOMAIN cells = 0 .. cart.ram_banks - 1
  /\ WroteBytes
  /\ regs = TableRegs

LEMMA Keeps ==
  ASSUME NEW v
  PROVE  /\ Keep(1, v) = v % 2 /\ Keep(2, v) = v % 4 /\ Keep(3, v) = v % 8 /\ Keep(4, v) = v % 16
         /\ Keep(5, v) = v % 32 /\ Keep(6, v) = v % 64 /\ Keep(7, v) = v % 128 /\ Keep(8, v) = v % 256
<1>1. 2^1 = 2 /\ 2^2 = 4 /\ 2^3 = 8 /\ 2^4 = 16 /\ 2^5 = 32 /\ 2^6 = 64 /\ 2^7 = 128 /\ 2^8 = 256
  OBVIOUS
<1> QED BY <1>1 DEF Keep

LEMMA BankInitial == BankInit => BankInv
<1> SUFFICES ASSUME BankInit PROVE BankInv
  OBVIOUS
<1>1. cart \in [kind : Kinds, rom_banks : RomSizes, ram_banks : Nat]
  BY BankingAssumption DEF BankInit
<1>2. DOMAIN cells = 0 .. cart.ram_banks - 1
  BY DEF BankInit, Wiped
<1>3. \A area \in Areas : \A r : Wrote(area, r) = r
  BY DEF BankInit, Unwritten, Wrote
<1>4. /\ Wrote("enable", 0) = 0 /\ Wrote("low", 1) = 1 /\ Wrote("high", 0) = 0
      /\ Wrote("upper", 0) = 0 /\ Wrote("mode", 0) = 0
  BY <1>3 DEF Areas
<1>5. TableSelector = 1 /\ TableUpper = 0
  BY <1>1, <1>4 DEF TableSelector, TableUpper, NonZero, Kinds
<1> QED BY <1>1, <1>2, <1>4, <1>5 DEF BankInv, WroteBytes, TableRegs, BankInit, ResetRegs

(***************************************************************************)
(* A write of ROM, mapper by mapper.                                       *)
(***************************************************************************)
(* What a write makes of the registers, area by area, with the selectors   *)
(* as the mappers keep them.                                               *)
MapperWrite(area, v) ==
  /\ area \in {"none", "enable", "low", "high", "upper", "mode"}
  /\ area = "enable" => regs' = [regs EXCEPT !.mapped = v % 16]
  /\ area \in {"low", "high"} => regs' = [regs EXCEPT !.rom_bank_selector = TableSelector']
  /\ area = "upper" => regs' = [regs EXCEPT !.upper = TableUpper']
  /\ area = "mode" => regs' = [regs EXCEPT !.banking_mode = v % 2]
  /\ area = "none" => regs' = regs

LEMMA TableAfter ==
  ASSUME BankInv, NEW a \in Nat, NEW v \in 0 .. 255, WriteRom(a, v),
         MapperWrite(AreaOf(a), v)
  PROVE  regs' = TableRegs'
<1>a. AreaOf(a) \notin {"low", "high"} => TableSelector' = TableSelector
  <2> SUFFICES ASSUME AreaOf(a) \notin {"low", "high"} PROVE TableSelector' = TableSelector
    OBVIOUS
  <2>1. cart' = cart /\ Wrote("low", 1)' = Wrote("low", 1) /\ Wrote("high", 0)' = Wrote("high", 0)
    BY DEF WriteRom, Wrote, Areas, NoWrite
  <2> QED BY <2>1 DEF TableSelector, NonZero
<1>b. AreaOf(a) # "upper" => TableUpper' = TableUpper
  <2> SUFFICES ASSUME AreaOf(a) # "upper" PROVE TableUpper' = TableUpper
    OBVIOUS
  <2>1. cart' = cart /\ Wrote("upper", 0)' = Wrote("upper", 0)
    BY DEF WriteRom, Wrote, Areas, NoWrite
  <2> QED BY <2>1 DEF TableUpper
<1>1. /\ Wrote("enable", 0)' = IF AreaOf(a) = "enable" THEN v ELSE Wrote("enable", 0)
      /\ Wrote("mode", 0)' = IF AreaOf(a) = "mode" THEN v ELSE Wrote("mode", 0)
  BY DEF WriteRom, Wrote, Areas, NoWrite
<1>2. TableRegs' = [mapped |-> Wrote("enable", 0)' % 16, rom_bank_selector |-> TableSelector',
                    upper |-> TableUpper', banking_mode |-> Wrote("mode", 0)' % 2]
  BY DEF TableRegs
<1>3. regs = [mapped |-> Wrote("enable", 0) % 16, rom_bank_selector |-> TableSelector,
              upper |-> TableUpper, banking_mode |-> Wrote("mode", 0) % 2]
  BY DEF BankInv, TableRegs
<1>4. CASE AreaOf(a) = "enable"
  <2>1. regs' = [regs EXCEPT !.mapped = v % 16] /\ TableSelector' = TableSelector /\ TableUpper' = TableUpper
    BY <1>a, <1>b, <1>4 DEF MapperWrite
  <2>2. Wrote("enable", 0)' = v /\ Wrote("mode", 0)' = Wrote("mode", 0)
    BY <1>1, <1>4
  <2> QED BY <1>2, <1>3, <2>1, <2>2
<1>5. CASE AreaOf(a) \in {"low", "high"}
  <2>1. regs' = [regs EXCEPT !.rom_bank_selector = TableSelector'] /\ TableUpper' = TableUpper
    BY <1>a, <1>b, <1>5 DEF MapperWrite
  <2>2. Wrote("enable", 0)' = Wrote("enable", 0) /\ Wrote("mode", 0)' = Wrote("mode", 0)
    BY <1>1, <1>5
  <2> QED BY <1>2, <1>3, <2>1, <2>2
<1>6. CASE AreaOf(a) = "upper"
  <2>1. regs' = [regs EXCEPT !.upper = TableUpper'] /\ TableSelector' = TableSelector
    BY <1>a, <1>b, <1>6 DEF MapperWrite
  <2>2. Wrote("enable", 0)' = Wrote("enable", 0) /\ Wrote("mode", 0)' = Wrote("mode", 0)
    BY <1>1, <1>6
  <2> QED BY <1>2, <1>3, <2>1, <2>2
<1>7. CASE AreaOf(a) = "mode"
  <2>1. regs' = [regs EXCEPT !.banking_mode = v % 2] /\ TableSelector' = TableSelector /\ TableUpper' = TableUpper
    BY <1>a, <1>b, <1>7 DEF MapperWrite
  <2>2. Wrote("enable", 0)' = Wrote("enable", 0) /\ Wrote("mode", 0)' = v
    BY <1>1, <1>7
  <2> QED BY <1>2, <1>3, <2>1, <2>2
<1>8. CASE AreaOf(a) = "none"
  <2>1. regs' = regs /\ TableSelector' = TableSelector /\ TableUpper' = TableUpper
    BY <1>a, <1>b, <1>8 DEF MapperWrite
  <2>2. Wrote("enable", 0)' = Wrote("enable", 0) /\ Wrote("mode", 0)' = Wrote("mode", 0)
    BY <1>1, <1>8
  <2> QED BY <1>2, <1>3, <2>1, <2>2
<1> QED BY <1>4, <1>5, <1>6, <1>7, <1>8 DEF MapperWrite

LEMMA Mbc1Writes ==
  ASSUME BankInv, cart.kind \in {"MBC1", "MBC1M"}, NEW a \in Nat, NEW v \in 0 .. 255, WriteRom(a, v)
  PROVE  MapperWrite(AreaOf(a), v)
<1>1. cart' = cart /\ regs' = Mbc1WriteRom(a, v)
  BY DEF WriteRom, Written
<1>2. CASE a < 8192
  <2>1. AreaOf(a) = "enable"
    BY <1>2 DEF AreaOf
  <2> QED BY <1>1, <1>2, <2>1, Keeps DEF MapperWrite, Mbc1WriteRom
<1>3. CASE a >= 8192 /\ a < 16384
  <2>1. AreaOf(a) = "low"
    BY <1>3 DEF AreaOf, Mbc5Kinds
  <2>2. Wrote("low", 1)' = v
    BY <2>1 DEF WriteRom, Wrote, Areas, NoWrite
  <2>3. Mbc1Bank(v) = IF v % 32 = 0 THEN 1 ELSE IF cart.kind = "MBC1" THEN v % 32 ELSE v % 16
    <3>1. v % 32 \in 0 .. 31
      OBVIOUS
    <3>2. CASE cart.kind = "MBC1"
      BY <3>1, <3>2, Keeps DEF Mbc1Bank, RomBankSelectorBits
    <3>3. CASE cart.kind = "MBC1M"
      BY <3>1, <3>3, Keeps DEF Mbc1Bank, RomBankSelectorBits
    <3> QED BY <3>2, <3>3
  <2>4. TableSelector' = Mbc1Bank(v)
    BY <1>1, <2>2, <2>3 DEF TableSelector
  <2> QED BY <1>1, <1>3, <2>1, <2>4 DEF MapperWrite, Mbc1WriteRom
<1>4. CASE a >= 16384 /\ a < 24576
  <2>1. AreaOf(a) = "upper"
    BY <1>4 DEF AreaOf
  <2>2. Wrote("upper", 0)' = v
    BY <2>1 DEF WriteRom, Wrote, Areas, NoWrite
  <2>3. TableUpper' = v % 4
    BY <1>1, <2>2 DEF TableUpper
  <2> QED BY <1>1, <1>4, <2>1, <2>3, Keeps DEF MapperWrite, Mbc1WriteRom
<1>5. CASE a >= 24576
  <2>1. AreaOf(a) = "mode"
    BY <1>5 DEF AreaOf, Mbc1Kinds
  <2> QED BY <1>1, <1>5, <2>1, Keeps DEF MapperWrite, Mbc1WriteRom
<1> QED BY <1>2, <1>3, <1>4, <1>5

LEMMA Mbc2Writes ==
  ASSUME BankInv, cart.kind = "MBC2", NEW a \in Nat, NEW v \in 0 .. 255, WriteRom(a, v)
  PROVE  MapperWrite(AreaOf(a), v)
<1>1. cart' = cart /\ regs' = Mbc2WriteRom(a, v)
  BY DEF WriteRom, Written
<1>2. CASE a >= 16384
  BY <1>1, <1>2 DEF AreaOf, MapperWrite, Mbc2WriteRom
<1>3. CASE a < 16384 /\ (a \div 256) % 2 = 1
  <2>1. AreaOf(a) = "low"
    BY <1>3 DEF AreaOf
  <2>2. Wrote("low", 1)' = v
    BY <2>1 DEF WriteRom, Wrote, Areas, NoWrite
  <2>3. TableSelector' = AtLeast1(Keep(4, v))
    BY <1>1, <2>2, Keeps DEF TableSelector, NonZero, AtLeast1
  <2> QED BY <1>1, <1>3, <2>1, <2>3 DEF MapperWrite, Mbc2WriteRom
<1>4. CASE a < 16384 /\ (a \div 256) % 2 # 1
  <2>1. AreaOf(a) = "enable"
    BY <1>4 DEF AreaOf
  <2> QED BY <1>1, <1>4, <2>1, Keeps DEF MapperWrite, Mbc2WriteRom
<1> QED BY <1>2, <1>3, <1>4

LEMMA Mbc3Writes ==
  ASSUME BankInv, cart.kind = "MBC3", NEW a \in Nat, NEW v \in 0 .. 255, WriteRom(a, v)
  PROVE  MapperWrite(AreaOf(a), v)
<1>1. cart' = cart /\ regs' = Mbc3WriteRom(a, v)
  BY DEF WriteRom, Written
<1>2. CASE a < 8192
  <2>1. AreaOf(a) = "enable"
    BY <1>2 DEF AreaOf
  <2> QED BY <1>1, <1>2, <2>1, Keeps DEF MapperWrite, Mbc3WriteRom
<1>3. CASE a >= 8192 /\ a < 16384
  <2>1. AreaOf(a) = "low"
    BY <1>3 DEF AreaOf, Mbc5Kinds
  <2>2. Wrote("low", 1)' = v
    BY <2>1 DEF WriteRom, Wrote, Areas, NoWrite
  <2>3. TableSelector' = AtLeast1(v)
    BY <1>1, <2>2 DEF TableSelector, NonZero, AtLeast1
  <2> QED BY <1>1, <1>3, <2>1, <2>3 DEF MapperWrite, Mbc3WriteRom
<1>4. CASE a >= 16384 /\ a < 24576
  <2>1. AreaOf(a) = "upper"
    BY <1>4 DEF AreaOf
  <2>2. Wrote("upper", 0)' = v
    BY <2>1 DEF WriteRom, Wrote, Areas, NoWrite
  <2>3. TableUpper' = v % 16
    BY <1>1, <2>2 DEF TableUpper
  <2> QED BY <1>1, <1>4, <2>1, <2>3, Keeps DEF MapperWrite, Mbc3WriteRom
<1>5. CASE a >= 24576
  <2>1. AreaOf(a) = "none"
    BY <1>5 DEF AreaOf, Mbc1Kinds
  <2> QED BY <1>1, <1>5, <2>1 DEF MapperWrite, Mbc3WriteRom
<1> QED BY <1>2, <1>3, <1>4, <1>5

LEMMA Mbc7Writes ==
  ASSUME BankInv, cart.kind = "MBC7", NEW a \in Nat, NEW v \in 0 .. 255, WriteRom(a, v)
  PROVE  MapperWrite(AreaOf(a), v)
<1>1. cart' = cart /\ regs' = Mbc7WriteRom(a, v)
  BY DEF WriteRom, Written
<1>2. CASE a < 8192
  <2>1. AreaOf(a) = "enable"
    BY <1>2 DEF AreaOf
  <2> QED BY <1>1, <1>2, <2>1, Keeps DEF MapperWrite, Mbc7WriteRom
<1>3. CASE a >= 8192 /\ a < 16384
  <2>1. AreaOf(a) = "low"
    BY <1>3 DEF AreaOf, Mbc5Kinds
  <2>2. Wrote("low", 1)' = v
    BY <2>1 DEF WriteRom, Wrote, Areas, NoWrite
  <2>3. TableSelector' = v
    BY <1>1, <2>2 DEF TableSelector
  <2> QED BY <1>1, <1>3, <2>1, <2>3 DEF MapperWrite, Mbc7WriteRom
<1>4. CASE a >= 16384
  <2>1. AreaOf(a) = "none"
    BY <1>4 DEF AreaOf, Mbc1Kinds
  <2> QED BY <1>1, <1>4, <2>1 DEF MapperWrite, Mbc7WriteRom
<1> QED BY <1>2, <1>3, <1>4

LEMMA HuC1Writes ==
  ASSUME BankInv, cart.kind = "HuC1", NEW a \in Nat, NEW v \in 0 .. 255, WriteRom(a, v)
  PROVE  MapperWrite(AreaOf(a), v)
<1>1. cart' = cart /\ regs' = HuC1WriteRom(a, v)
  BY DEF WriteRom, Written
<1>2. CASE a < 8192
  <2>1. AreaOf(a) = "enable"
    BY <1>2 DEF AreaOf
  <2> QED BY <1>1, <1>2, <2>1, Keeps DEF MapperWrite, HuC1WriteRom
<1>3. CASE a >= 8192 /\ a < 16384
  <2>1. AreaOf(a) = "low"
    BY <1>3 DEF AreaOf, Mbc5Kinds
  <2>2. Wrote("low", 1)' = v
    BY <2>1 DEF WriteRom, Wrote, Areas, NoWrite
  <2>3. TableSelector' = AtLeast1(Keep(6, v))
    BY <1>1, <2>2, Keeps DEF TableSelector, NonZero, AtLeast1
  <2> QED BY <1>1, <1>3, <2>1, <2>3 DEF MapperWrite, HuC1WriteRom
<1>4. CASE a >= 16384 /\ a < 24576
  <2>1. AreaOf(a) = "upper"
    BY <1>4 DEF AreaOf
  <2>2. Wrote("upper", 0)' = v
    BY <2>1 DEF WriteRom, Wrote, Areas, NoWrite
  <2>3. TableUpper' = v % 4
    BY <1>1, <2>2 DEF TableUpper
  <2> QED BY <1>1, <1>4, <2>1, <2>3, Keeps DEF MapperWrite, HuC1WriteRom
<1>5. CASE a >= 24576
  <2>1. AreaOf(a) = "none"
    BY <1>5 DEF AreaOf, Mbc1Kinds
  <2> QED BY <1>1, <1>5, <2>1 DEF MapperWrite, HuC1WriteRom
<1> QED BY <1>2, <1>3, <1>4, <1>5

LEMMA HuC3Writes ==
  ASSUME BankInv, cart.kind = "HuC3", NEW a \in Nat, NEW v \in 0 .. 255, WriteRom(a, v)
  PROVE  MapperWrite(AreaOf(a), v)
<1>1. cart' = cart /\ regs' = HuC3WriteRom(a, v)
  BY DEF WriteRom, Written
<1>2. CASE a < 8192
  <2>1. AreaOf(a) = "enable"
    BY <1>2 DEF AreaOf
  <2> QED BY <1>1, <1>2, <2>1, Keeps DEF MapperWrite, HuC3WriteRom
<1>3. CASE a >= 8192 /\ a < 16384
  <2>1. AreaOf(a) = "low"
    BY <1>3 DEF AreaOf, Mbc5Kinds
  <2>2. Wrote("low", 1)' = v
    BY <2>1 DEF WriteRom, Wrote, Areas, NoWrite
  <2>3. TableSelector' = Keep(7, v)
    BY <1>1, <2>2, Keeps DEF TableSelector
  <2> QED BY <1>1, <1>3, <2>1, <2>3 DEF MapperWrite, HuC3WriteRom
<1>4. CASE a >= 16384 /\ a < 24576
  <2>1. AreaOf(a) = "upper"
    BY <1>4 DEF AreaOf
  <2>2. Wrote("upper", 0)' = v
    BY <2>1 DEF WriteRom, Wrote, Areas, NoWrite
  <2>3. TableUpper' = v % 4
    BY <1>1, <2>2 DEF TableUpper
  <2> QED BY <1>1, <1>4, <2>1, <2>3, Keeps DEF MapperWrite, HuC3WriteRom
<1>5. CASE a >= 24576
  <2>1. AreaOf(a) = "none"
    BY <1>5 DEF AreaOf, Mbc1Kinds
  <2> QED BY <1>1, <1>5, <2>1 DEF MapperWrite, HuC3WriteRom
<1> QED BY <1>2, <1>3, <1>4, <1>5

LEMMA Mbc5Writes ==
  ASSUME BankInv, cart.kind \in Mbc5Kinds, NEW a \in Nat, NEW v \in 0 .. 255, WriteRom(a, v)
  PROVE  MapperWrite(AreaOf(a), v)
<1> DEFINE low == Wrote("low", 1)
           high == Wrote("high", 0) % 2
<1> USE DEF Mbc5Kinds
<1>1. cart' = cart /\ regs' = Mbc5WriteRom(a, v)
  BY DEF WriteRom, Written
<1>2. /\ regs.rom_bank_selector = low + 256 * high
      /\ low \in 0 .. 255 /\ high \in 0 .. 1
  <2>1. regs.rom_bank_selector = TableSelector
    BY DEF BankInv, TableRegs
  <2>2. TableSelector = low + 256 * high
    BY DEF TableSelector
  <2>3. low \in 0 .. 255 /\ Wrote("high", 0) \in 0 .. 255
    BY DEF BankInv, WroteBytes
  <2> QED BY <2>1, <2>2, <2>3
<1>3. TableSelector' = low' + 256 * high'
  BY <1>1 DEF TableSelector
<1>4. CASE a < 8192
  <2>1. AreaOf(a) = "enable"
    BY <1>4 DEF AreaOf
  <2> QED BY <1>1, <1>4, <2>1, Keeps DEF MapperWrite, Mbc5WriteRom
<1>5. CASE a >= 8192 /\ a < 12288
  <2>1. AreaOf(a) = "low"
    BY <1>5 DEF AreaOf
  <2>2. Wrote("low", 1)' = v /\ Wrote("high", 0)' = Wrote("high", 0)
    BY <2>1 DEF WriteRom, Wrote, Areas, NoWrite
  <2>3. TableSelector' = Mbc5Low(regs.rom_bank_selector, v)
    <3>1. (low + 256 * high) \div 256 = high
      BY <1>2
    <3> QED BY <1>2, <1>3, <2>2, <3>1 DEF Mbc5Low
  <2> QED BY <1>1, <1>5, <2>1, <2>3 DEF MapperWrite, Mbc5WriteRom
<1>6. CASE a >= 12288 /\ a < 16384
  <2>1. AreaOf(a) = "high"
    BY <1>6 DEF AreaOf
  <2>2. Wrote("high", 0)' = v /\ Wrote("low", 1)' = Wrote("low", 1)
    BY <2>1 DEF WriteRom, Wrote, Areas, NoWrite
  <2>3. TableSelector' = 256 * Keep(1, v) + Keep(8, regs.rom_bank_selector)
    <3>1. (low + 256 * high) % 256 = low
      BY <1>2
    <3> QED BY <1>2, <1>3, <2>2, <3>1, Keeps
  <2> QED BY <1>1, <1>6, <2>1, <2>3 DEF MapperWrite, Mbc5WriteRom
<1>7. CASE a >= 16384 /\ a < 24576
  <2>1. AreaOf(a) = "upper"
    BY <1>7 DEF AreaOf
  <2>2. Wrote("upper", 0)' = v
    BY <2>1 DEF WriteRom, Wrote, Areas, NoWrite
  <2>3. TableUpper' = Keep(IF cart.kind = "MBC5Rumble" THEN 3 ELSE 4, v)
    BY <1>1, <2>2, Keeps DEF TableUpper
  <2> QED BY <1>1, <1>7, <2>1, <2>3 DEF MapperWrite, Mbc5WriteRom
<1>8. CASE a >= 24576
  <2>1. AreaOf(a) = "none"
    BY <1>8 DEF AreaOf, Mbc1Kinds
  <2> QED BY <1>1, <1>8, <2>1 DEF MapperWrite, Mbc5WriteRom
<1> QED BY <1>4, <1>5, <1>6, <1>7, <1>8

LEMMA BankStep == BankInv /\ [BankNext]_bankVars => BankInv'
<1> SUFFICES ASSUME BankInv, [BankNext]_bankVars PROVE BankInv'
  OBVIOUS
<1>1. ASSUME NEW a \in Addresses, NEW v \in Values, WriteRom(a, v) PROVE BankInv'
  <2>1. a \in Nat /\ v \in 0 .. 255
    BY BankingAssumption
  <2>2. MapperWrite(AreaOf(a), v)
    <3>1. CASE cart.kind \in {"NoMbc", "RomRam"}
      <4>1. AreaOf(a) = "none"
        BY <3>1 DEF AreaOf
      <4>2. regs' = regs
        BY <1>1, <3>1 DEF WriteRom, Written
      <4> QED BY <4>1, <4>2 DEF MapperWrite
    <3>2. cart.kind \in Kinds
      BY DEF BankInv
    <3> QED BY <1>1, <2>1, <3>1, <3>2, Mbc1Writes, Mbc2Writes, Mbc3Writes, Mbc5Writes, Mbc7Writes, HuC1Writes,
               HuC3Writes DEF Kinds, Mbc5Kinds
  <2>3. regs' = TableRegs'
    BY <1>1, <2>1, <2>2, TableAfter
  <2>4. WroteBytes'
    BY <1>1, <2>1 DEF BankInv, WroteBytes, WriteRom, Wrote, Areas, NoWrite
  <2> QED BY <1>1, <2>3, <2>4 DEF BankInv, WriteRom
<1>2. ASSUME NEW v \in Bytes, WriteRam(v) PROVE BankInv'
  BY <1>2 DEF WriteRam, BankInv, TableRegs, TableSelector, TableUpper, WroteBytes, Wrote
<1>3. CASE ResetCart
  <2>1. \A area \in Areas : \A r : Wrote(area, r)' = r
    BY <1>3 DEF ResetCart, Unwritten, Wrote
  <2>2. /\ Wrote("enable", 0)' = 0 /\ Wrote("low", 1)' = 1 /\ Wrote("high", 0)' = 0
        /\ Wrote("upper", 0)' = 0 /\ Wrote("mode", 0)' = 0
    BY <2>1 DEF Areas
  <2>3. TableSelector' = 1 /\ TableUpper' = 0
    BY <1>3, <2>2 DEF TableSelector, TableUpper, NonZero, Kinds, BankInv, ResetCart
  <2> QED BY <1>3, <2>2, <2>3 DEF BankInv, WroteBytes, TableRegs, ResetCart, ResetRegs, Wiped
<1>4. CASE UNCHANGED bankVars
  BY <1>4 DEF bankVars, BankInv, TableRegs, TableSelector, TableUpper, WroteBytes, Wrote
<1> QED BY <1>1, <1>2, <1>3, <1>4 DEF BankNext

(***************************************************************************)
(* The tables.                                                             *)
(***************************************************************************)
LEMMA Selected ==
  ASSUME BankInv
  PROVE  /\ regs.rom_bank_selector = TableSelector /\ TableSelector \in Nat
         /\ regs.upper = TableUpper /\ TableUpper \in Nat
         /\ regs.mapped = Wrote("enable", 0) % 16
         /\ regs.banking_mode = Wrote("mode", 0) % 2
<1>1. regs = TableRegs /\ WroteBytes
  BY DEF BankInv
<1>2. TableSelector \in Nat
  <2>1. /\ Wrote("low", 1) \in 0 .. 255 /\ Wrote("high", 0) \in 0 .. 255
        /\ \A n \in {16, 32, 64, 128} : Wrote("low", 1) % n \in Nat
    BY <1>1 DEF WroteBytes
  <2>2. Wrote("low", 1) + 256 * (Wrote("high", 0) % 2) \in Nat /\ 1 \in Nat
    BY <2>1
  <2>3. \A b \in Nat : NonZero(b) \in Nat
    BY DEF NonZero
  <2> QED BY <2>1, <2>2, <2>3 DEF TableSelector
<1>3. TableUpper \in Nat
  BY <1>1 DEF TableUpper, WroteBytes
<1> QED BY <1>1, <1>2, <1>3 DEF TableRegs

LEMMA HighBankAsTable ==
  ASSUME BankInv
  PROVE  HighBank = TableBank % cart.rom_banks
<1>1. cart.kind \in Kinds /\ cart.rom_banks \in RomSizes
  BY DEF BankInv
<1>2. CASE cart.kind = "MBC1"
  <2>1. RomBankSelectorBits = 5 /\ 2 ^ 5 = 32
    BY <1>2 DEF RomBankSelectorBits
  <2>2. HighBank = (TableUpper * 32 + TableSelector) % cart.rom_banks
    BY <1>2, <2>1, Selected DEF HighBank, RomBank
  <2>3. TableBank = TableSelector + 32 * TableUpper
    BY <1>2, <2>1 DEF TableBank, TableSelector, TableUpper
  <2> QED BY <2>2, <2>3, Selected
<1>3. CASE cart.kind = "MBC1M"
  <2>1. RomBankSelectorBits = 4 /\ 2 ^ 4 = 16
    BY <1>3 DEF RomBankSelectorBits
  <2>2. HighBank = (TableUpper * 16 + TableSelector) % cart.rom_banks
    BY <1>3, <2>1, Selected DEF HighBank, RomBank
  <2>3. TableBank = TableSelector + 16 * TableUpper
    BY <1>3, <2>1 DEF TableBank, TableSelector, TableUpper
  <2> QED BY <2>2, <2>3, Selected
<1>4. CASE cart.kind \in {"NoMbc", "RomRam"}
  <2>1. HighBank = 1 /\ TableBank = 1
    BY <1>4 DEF HighBank, RomBank, TableBank
  <2>2. 1 % cart.rom_banks = 1
    BY <1>1 DEF RomSizes
  <2> QED BY <2>1, <2>2
<1>5. CASE cart.kind \notin {"MBC1", "MBC1M", "NoMbc", "RomRam"}
  <2>1. HighBank = TableSelector % cart.rom_banks
    BY <1>5, Selected DEF HighBank, RomBank
  <2>2. TableBank = TableSelector
    BY <1>1, <1>5 DEF TableBank, TableSelector, NonZero, Kinds
  <2> QED BY <2>1, <2>2
<1> QED BY <1>2, <1>3, <1>4, <1>5

(* No remainder by a size at least its own bits turns a nonzero selector   *)
(* into 0.                                                                 *)
LEMMA NeverZero ==
  ASSUME NEW n \in RomSizes, NEW s \in Nat, NEW u \in Nat, s > 0
  PROVE  /\ s < 32 /\ n >= 32 => (u * 32 + s) % n # 0
         /\ s < n => s % n # 0
<1>1. s < n => s % n # 0
  BY DEF RomSizes
<1>2. ASSUME s < 32, n >= 32 PROVE (u * 32 + s) % n # 0
  <2>1. n \in {32, 64, 128, 256, 512}
    BY <1>2 DEF RomSizes
  <2>2. CASE n = 32
    BY <1>2, <2>2
  <2>3. CASE n = 64
    BY <1>2, <2>3
  <2>4. CASE n = 128
    BY <1>2, <2>4
  <2>5. CASE n = 256
    BY <1>2, <2>5
  <2>6. CASE n = 512
    BY <1>2, <2>6
  <2> QED BY <2>1, <2>2, <2>3, <2>4, <2>5, <2>6
<1> QED BY <1>1, <1>2

LEMMA Tables == BankInv => BanksAsTable
<1> SUFFICES ASSUME BankInv PROVE BanksAsTable
  OBVIOUS
<1> DEFINE low == Wrote("low", 1)
<1>1. /\ cart.kind \in Kinds /\ cart.rom_banks \in RomSizes
      /\ low \in 0 .. 255 /\ cart.rom_banks \in Nat
  BY DEF BankInv, WroteBytes, RomSizes
<1>2. ASSUME cart.kind \notin {"MBC1M", "MBC5", "MBC5Rumble", "MBC7", "HuC3"},
             ~(cart.rom_banks < (CASE cart.kind = "MBC1" -> 32 [] cart.kind = "MBC2" -> 16
                                   [] cart.kind = "MBC3" -> 256 [] cart.kind = "HuC1" -> 64 [] OTHER -> 2))
      PROVE  HighBank # 0
  <2>1. CASE cart.kind = "MBC1"
    <3>1. cart.rom_banks >= 32
      BY <1>1, <1>2, <2>1
    <3>2. TableSelector > 0 /\ TableSelector < 32
      BY <1>1, <2>1 DEF TableSelector
    <3>3. RomBankSelectorBits = 5 /\ 2 ^ 5 = 32
      BY <2>1 DEF RomBankSelectorBits
    <3>4. HighBank = (TableUpper * 32 + TableSelector) % cart.rom_banks
      BY <2>1, <3>3, Selected DEF HighBank, RomBank
    <3>5. TableSelector \in Nat /\ TableUpper \in Nat
      BY Selected
    <3>6. (TableUpper * 32 + TableSelector) % cart.rom_banks # 0
      BY <1>1, <3>1, <3>2, <3>5, NeverZero, Zenon
    <3> QED BY <3>4, <3>6
  <2>2. CASE cart.kind \in {"MBC2", "MBC3", "HuC1"}
    <3>1. TableSelector > 0 /\ TableSelector < cart.rom_banks
      <4>1. CASE cart.kind = "MBC2"
        BY <1>1, <1>2, <4>1 DEF TableSelector, NonZero
      <4>2. CASE cart.kind = "MBC3"
        BY <1>1, <1>2, <4>2 DEF TableSelector, NonZero
      <4>3. CASE cart.kind = "HuC1"
        BY <1>1, <1>2, <4>3 DEF TableSelector, NonZero
      <4> QED BY <2>2, <4>1, <4>2, <4>3
    <3>2. HighBank = TableSelector % cart.rom_banks
      BY <2>2, Selected DEF HighBank, RomBank
    <3> QED BY <1>1, <3>1, <3>2, Selected, NeverZero
  <2>3. CASE cart.kind \in {"NoMbc", "RomRam"}
    BY <2>3 DEF HighBank, RomBank
  <2> QED BY <1>1, <1>2, <2>1, <2>2, <2>3 DEF Kinds
<1> QED BY <1>2, HighBankAsTable DEF BanksAsTable

(* The bank at 4000-7FFF is what the table of the mapper says of the bytes *)
(* last written, and not bank 0 on a mapper that replaces it.              *)
THEOREM BanksAlwaysAsTable == BankSpec => []BanksAsTable
BY Tables, BankInitial, BankStep, PTL DEF BankSpec

(***************************************************************************)
(* The banked memory.                                                      *)
(***************************************************************************)
LEMMA RamBankAsTable ==
  ASSUME BankInv
  PROVE  RamBank = TableRamBank
<1>1. cart.kind \in Kinds
  BY DEF BankInv
<1>2. CASE cart.kind \in {"MBC1", "MBC1M"}
  <2>1. regs.upper = Wrote("upper", 0) % 4
    BY <1>2, Selected DEF TableUpper
  <2> QED BY <1>2, <2>1, Selected DEF RamBank, TableRamBank
<1>3. CASE cart.kind \in {"MBC3", "MBC5", "MBC5Rumble", "HuC1", "HuC3"}
  BY <1>3, Selected DEF RamBank, TableRamBank, TableUpper
<1>4. CASE cart.kind \in {"NoMbc", "RomRam", "MBC2", "MBC7"}
  BY <1>4 DEF RamBank, TableRamBank
<1> QED BY <1>1, <1>2, <1>3, <1>4 DEF Kinds

LEMMA WindowAsTable ==
  ASSUME BankInv
  PROVE  Window = TableWindow
<1>1. cart.kind \in Kinds /\ cart.ram_banks \in Nat
  BY DEF BankInv
<1>2. CASE cart.ram_banks = 0
  BY <1>2 DEF Window, TableWindow
<1>3. CASE cart.ram_banks # 0 /\ cart.kind = "MBC3"
  <2>1. regs.upper = Wrote("upper", 0) % 16 /\ Wrote("upper", 0) \in 0 .. 255
    BY <1>3, Selected DEF TableUpper, BankInv, WroteBytes
  <2> QED BY <1>1, <1>3, <2>1, Selected DEF Window, TableWindow, MaxRamBankSelector
<1>4. CASE cart.ram_banks # 0 /\ cart.kind \in {"HuC1", "HuC3"}
  BY <1>4, Selected DEF Window, TableWindow
<1>5. CASE cart.ram_banks # 0 /\ cart.kind \in {"NoMbc", "RomRam", "MBC7"}
  BY <1>5 DEF Window, TableWindow
<1>6. CASE cart.ram_banks # 0 /\ cart.kind \in {"MBC1", "MBC1M", "MBC2", "MBC5", "MBC5Rumble"}
  BY <1>6, Selected DEF Window, TableWindow
<1> QED BY <1>1, <1>2, <1>3, <1>4, <1>5, <1>6 DEF Kinds

LEMMA BanksSeen ==
  ASSUME BankInv
  PROVE  Memory!Seen
<1>1. cart.rom_banks \in RomSizes /\ cart.ram_banks \in Nat /\ cart.kind \in Kinds
  BY DEF BankInv
<1>2. HighBank \in 0 .. cart.rom_banks - 1
  <2>1. TableBank \in Nat
    <3>1. WroteBytes
      BY DEF BankInv
    <3>2. CASE cart.kind \in {"MBC1", "MBC1M"}
      <4>1. TableUpper \in Nat /\ TableSelector \in Nat /\ 2 ^ 5 = 32 /\ 2 ^ 4 = 16
        BY Selected
      <4>2. /\ cart.kind = "MBC1" => TableBank = TableSelector + 32 * TableUpper
            /\ cart.kind = "MBC1M" => TableBank = TableSelector + 16 * TableUpper
        BY <3>2, <4>1 DEF TableBank, TableSelector, TableUpper
      <4> QED BY <3>2, <4>1, <4>2
    <3>3. CASE cart.kind \in {"NoMbc", "RomRam"}
      BY <3>3 DEF TableBank
    <3>4. CASE cart.kind \notin {"MBC1", "MBC1M", "NoMbc", "RomRam"}
      <4>1. TableBank = TableSelector
        BY <1>1, <3>4 DEF TableBank, TableSelector, NonZero, Kinds
      <4> QED BY <4>1, Selected
    <3> QED BY <3>2, <3>3, <3>4
  <2>2. cart.rom_banks \in Nat /\ cart.rom_banks > 0
    BY <1>1 DEF RomSizes
  <2> QED BY <2>1, <2>2, HighBankAsTable
<1>3. TableRamBank \in 0 .. cart.ram_banks - 1 \/ cart.ram_banks = 0
  <2> DEFINE upper == Wrote("upper", 0)
  <2>1. upper \in 0 .. 255
    BY DEF BankInv, WroteBytes
  <2>2. upper % 4 \in Nat /\ upper % 8 \in Nat /\ upper % 16 \in Nat /\ 0 \in Nat
    BY <2>1
  <2>3. ASSUME NEW shown \in Nat, cart.ram_banks # 0 PROVE shown % cart.ram_banks \in 0 .. cart.ram_banks - 1
    BY <1>1, <2>3
  <2> HIDE DEF upper
  <2> QED BY <2>2, <2>3 DEF TableRamBank, upper
<1>4. TableWindow \in {"closed", "read", "write"} /\ (cart.ram_banks = 0 => TableWindow = "closed")
  BY <1>1 DEF TableWindow, Kinds
<1> QED BY <1>2, <1>3, <1>4 DEF Memory!Seen

LEMMA MemoryStep ==
  BankInv /\ Memory!Seen' /\ [BankNext]_bankVars => [Memory!Next]_(Memory!bankedVars)
<1> SUFFICES ASSUME BankInv, Memory!Seen', [BankNext]_bankVars
             PROVE  [Memory!Next]_(Memory!bankedVars)
  OBVIOUS
<1>1. ASSUME NEW a \in Addresses, NEW v \in Values, WriteRom(a, v) PROVE Memory!Select
  BY <1>1 DEF Memory!Select, WriteRom
<1>2. ASSUME NEW v \in Bytes, WriteRam(v) PROVE Memory!Store(v)
  <2>1. /\ Window = "write" /\ cells' = [cells EXCEPT ![RamBank] = v]
        /\ cart' = cart /\ regs' = regs /\ last' = last
    BY <1>2 DEF WriteRam
  <2>2. TableWindow = "write" /\ cells' = [cells EXCEPT ![TableRamBank] = v]
    BY <2>1, WindowAsTable, RamBankAsTable
  <2>3. /\ HighBank' = HighBank /\ TableRamBank' = TableRamBank /\ TableWindow' = TableWindow
    BY <2>1 DEF HighBank, RomBank, RomBankSelectorBits, TableRamBank, TableWindow, Wrote
  <2> QED BY <2>1, <2>2, <2>3 DEF Memory!Store
<1>3. CASE ResetCart
  <2>1. PICK v \in {0, 255} : cells' = [b \in DOMAIN cells |-> v]
    BY <1>3 DEF ResetCart, Wiped, BankInv
  <2>2. Memory!Wipe
    BY <1>3, <2>1 DEF Memory!Wipe, ResetCart
  <2> QED BY <2>2 DEF Memory!Next
<1>4. CASE UNCHANGED bankVars
  BY <1>4 DEF bankVars, Memory!bankedVars, HighBank, RomBank, RomBankSelectorBits, TableRamBank, TableWindow, Wrote
<1> QED BY <1>1, <1>2, <1>3, <1>4 DEF BankNext, Memory!Next

(* Every cartridge implements the banked memory: the banks seen are those  *)
(* of the table, and RAM changes only through an open window, in the bank  *)
(* behind it.                                                              *)
THEOREM BanksImplementMemory == BankSpec => ImplementsBankedMemory
<1>1. BankInv => Memory!Seen /\ Memory!Init
  BY BanksSeen DEF Memory!Init
<1> QED BY <1>1, BankInitial, BankStep, MemoryStep, PTL DEF BankSpec, ImplementsBankedMemory, Memory!Spec

-----------------------------------------------------------------------------
(* MBC3's clock.                                                           *)

(* A reading of days d, hours h, minutes m and seconds s, in range or not. *)
Elapsed(d, h, m, s) == ((d * Hour + h) * Minute + m) * Second + s

LEMMA Units ==
  /\ Second \in Nat \ {0} /\ Minute \in Nat \ {0} /\ Hour \in Nat \ {0} /\ DayLow \in Nat \ {0}
  /\ Second > 1 /\ Minute > 1 /\ Hour > 1 /\ DayLow > 1
  /\ Byte \in Nat /\ Second < Byte /\ Minute < Byte /\ Hour < Byte
  /\ SecondField \in Nat /\ SecondField < Byte /\ MinuteField \in Nat /\ MinuteField < Byte
  /\ HourField \in Nat /\ HourField < Byte
  /\ MaxLag \in Nat /\ MaxLag > 0
  /\ CyclesPerSecond \in Nat /\ CyclesPerSecond > 1
BY Mbc3ClockAssumption

LEMMA ElapsedInt ==
  ASSUME NEW d \in Int, NEW h \in Int, NEW m \in Int, NEW s \in Int
  PROVE  Elapsed(d, h, m, s) \in Int
<1>1. d * Hour \in Int
  BY Units
<1>2. (d * Hour + h) * Minute \in Int
  BY <1>1, Units
<1>3. ((d * Hour + h) * Minute + m) * Second \in Int
  BY <1>2, Units
<1> QED BY <1>3 DEF Elapsed

LEMMA CarrySeconds ==
  ASSUME NEW d \in Int, NEW h \in Int, NEW m \in Int, NEW s \in Int, NEW q \in Int
  PROVE  Elapsed(d, h, m, s + Second * q) = Elapsed(d, h, m + q, s)
<1> DEFINE x == (d * Hour + h) * Minute + m
<1>1. x \in Int
  <2>1. d * Hour \in Int
    BY Units
  <2>2. (d * Hour + h) * Minute \in Int
    BY <2>1, Units
  <2> QED BY <2>2
<1>2. (d * Hour + h) * Minute + (m + q) = x + q
  <2>1. d * Hour \in Int
    BY Units
  <2>2. (d * Hour + h) * Minute \in Int
    BY <2>1, Units
  <2> QED BY <2>2
<1>3. Elapsed(d, h, m + q, s) = (x + q) * Second + s /\ Elapsed(d, h, m, s + Second * q) = x * Second + (s + Second * q)
  BY <1>2 DEF Elapsed
<1> HIDE DEF x
<1>4. (x + q) * Second = x * Second + Second * q /\ x * Second \in Int /\ Second * q \in Int
  BY <1>1, Units
<1> QED BY <1>3, <1>4

LEMMA CarryMinutes ==
  ASSUME NEW d \in Int, NEW h \in Int, NEW m \in Int, NEW s \in Int, NEW q \in Int
  PROVE  Elapsed(d, h, m + Minute * q, s) = Elapsed(d, h + q, m, s)
<1> DEFINE x == d * Hour + h
<1>1. x \in Int /\ d * Hour + (h + q) = x + q
  BY Units
<1>2. Elapsed(d, h, m + Minute * q, s) = (x * Minute + (m + Minute * q)) * Second + s
  BY DEF Elapsed
<1>3. Elapsed(d, h + q, m, s) = ((x + q) * Minute + m) * Second + s
  BY <1>1 DEF Elapsed
<1> HIDE DEF x
<1>4. (x + q) * Minute + m = x * Minute + (m + Minute * q)
  BY <1>1, Units
<1> QED BY <1>2, <1>3, <1>4

LEMMA CarryHours ==
  ASSUME NEW d \in Int, NEW h \in Int, NEW m \in Int, NEW s \in Int, NEW q \in Int
  PROVE  Elapsed(d, h + Hour * q, m, s) = Elapsed(d + q, h, m, s)
<1>1. d * Hour + (h + Hour * q) = (d + q) * Hour + h
  BY Units
<1> QED BY <1>1 DEF Elapsed

LEMMA CarryOne ==
  ASSUME NEW d \in Int, NEW h \in Int, NEW m \in Int
  PROVE  /\ Elapsed(d, h, m, Second) = Elapsed(d, h, m + 1, 0)
         /\ Elapsed(d, h, Minute, 0) = Elapsed(d, h + 1, 0, 0)
         /\ Elapsed(d, Hour, 0, 0) = Elapsed(d + 1, 0, 0, 0)
<1>1. ASSUME NEW z \in Int, NEW o \in Int, z = 0, o = 1
      PROVE  /\ Elapsed(d, h, m, Second) = Elapsed(d, h, m + 1, 0)
             /\ Elapsed(d, h, Minute, 0) = Elapsed(d, h + 1, 0, 0)
             /\ Elapsed(d, Hour, 0, 0) = Elapsed(d + 1, 0, 0, 0)
  <2>1. Elapsed(d, h, m, z + Second * o) = Elapsed(d, h, m + o, z)
    BY CarrySeconds
  <2>2. Elapsed(d, h, z + Minute * o, z) = Elapsed(d, h + o, z, z)
    BY CarryMinutes
  <2>3. Elapsed(d, z + Hour * o, z, z) = Elapsed(d + o, z, z, z)
    BY CarryHours
  <2>4. z + Second * o = Second /\ z + Minute * o = Minute /\ z + Hour * o = Hour
    BY <1>1, Units
  <2> QED BY <1>1, <2>1, <2>2, <2>3, <2>4
<1> QED BY <1>1

(* A whole day, and the days the registers can count. *)
WholeDay == Hour * Minute * Second

LEMMA Wholes == WholeDay \in Nat \ {0} /\ Wrap \in Nat \ {0} /\ Wrap = (2 * DayLow) * WholeDay
<1>1. WholeDay \in Nat \ {0}
  <2>1. Hour * Minute \in Nat \ {0}
    BY Units
  <2> QED BY <2>1, Units DEF WholeDay
<1>2. Wrap = (2 * DayLow) * WholeDay
  <2> DEFINE x == 2 * DayLow
  <2>1. x \in Int /\ Hour \in Int /\ Minute \in Int /\ Second \in Int
    BY Units
  <2>2. Wrap = x * Hour * Minute * Second
    BY DEF Wrap
  <2> HIDE DEF x
  <2>3. x * Hour * Minute * Second = x * (Hour * Minute * Second)
    BY <2>1
  <2> QED BY <2>2, <2>3 DEF WholeDay, x
<1>3. 2 * DayLow \in Nat \ {0}
  BY Units
<1> HIDE DEF WholeDay, Wrap
<1> QED BY <1>1, <1>2, <1>3

LEMMA CarryDays ==
  ASSUME NEW d \in Int, NEW h \in Int, NEW m \in Int, NEW s \in Int, NEW q \in Int
  PROVE  Elapsed(d + q, h, m, s) = Elapsed(d, h, m, s) + WholeDay * q
<1>1. (d + q) * Hour + h = (d * Hour + h) + Hour * q /\ d * Hour \in Int /\ Hour * q \in Int
  BY Units
<1> DEFINE x == d * Hour + h
           y == Hour * q
<1>2. x \in Int /\ y \in Int
  BY <1>1
<1>3. Elapsed(d + q, h, m, s) = ((x + y) * Minute + m) * Second + s /\ Elapsed(d, h, m, s) = (x * Minute + m) * Second + s
  BY <1>1 DEF Elapsed
<1>4. WholeDay * q = (y * Minute) * Second
  BY Units DEF WholeDay
<1> HIDE DEF x, y
<1> DEFINE u == x * Minute + m
           v == y * Minute
<1>5. u \in Int /\ v \in Int /\ (x + y) * Minute + m = u + v
  BY <1>2, Units
<1> HIDE DEF u, v
<1>6. (u + v) * Second + s = (u * Second + s) + v * Second /\ u * Second \in Int
  BY <1>5, Units
<1> QED BY <1>3, <1>4, <1>5, <1>6 DEF u, v

LEMMA WithinDay ==
  ASSUME NEW d \in Int, NEW h \in 0 .. Hour - 1, NEW m \in 0 .. Minute - 1, NEW s \in 0 .. Second - 1
  PROVE  Elapsed(d, h, m, s) \in d * WholeDay .. d * WholeDay + WholeDay - 1
<1>1. Elapsed(d, h, m, s) = Elapsed(0, h, m, s) + WholeDay * d
  BY CarryDays, Units
<1>2. Elapsed(0, h, m, s) = (h * Minute + m) * Second + s
  BY Units DEF Elapsed
<1> DEFINE x == h * Minute + m
<1>3. x \in 0 .. Hour * Minute - 1
  <2>1. h + 1 <= Hour /\ h >= 0
    BY Units
  <2>2. (h + 1) * Minute <= Hour * Minute /\ h * Minute >= 0 /\ (h + 1) * Minute = h * Minute + Minute
        /\ h * Minute \in Int /\ Hour * Minute \in Int
    BY <2>1, Units
  <2> QED BY <2>2, Units
<1> HIDE DEF x
<1> DEFINE y == Hour * Minute
<1>4. y \in Nat
  BY Units
<1>5. WholeDay = y * Second
  BY DEF WholeDay
<1> HIDE DEF y
<1>6. x * Second + s \in 0 .. y * Second - 1
  <2>1. x + 1 <= y /\ x >= 0 /\ x \in Int
    BY <1>3, <1>4 DEF y
  <2>2. (x + 1) * Second <= y * Second /\ x * Second >= 0 /\ (x + 1) * Second = x * Second + Second
        /\ x * Second \in Int /\ y * Second \in Int
    BY <1>4, <2>1, Units
  <2> QED BY <2>2, Units
<1>7. Elapsed(0, h, m, s) \in 0 .. WholeDay - 1
  BY <1>2, <1>5, <1>6 DEF x
<1>8. WholeDay * d = d * WholeDay /\ WholeDay * d \in Int
  BY Wholes
<1> QED BY <1>1, <1>7, <1>8, Wholes

LEMMA Readings ==
  ASSUME NEW c \in RtcRegisters
  PROVE  /\ c.seconds \in 0 .. Byte - 1 /\ c.minutes \in 0 .. Byte - 1 /\ c.hours \in 0 .. Byte - 1
         /\ c.days_low \in 0 .. DayLow - 1 /\ c.day \in 0 .. 1
         /\ Days(c) \in 0 .. 2 * DayLow - 1
         /\ Reading(c) = Elapsed(Days(c), c.hours, c.minutes, c.seconds)
         /\ Reading(c) \in Int
<1>1. /\ c.seconds \in 0 .. Byte - 1 /\ c.minutes \in 0 .. Byte - 1 /\ c.hours \in 0 .. Byte - 1
      /\ c.days_low \in 0 .. DayLow - 1 /\ c.day \in 0 .. 1
  BY DEF RtcRegisters
<1>2. c.day = 0 \/ c.day = 1
  BY <1>1
<1>3. Days(c) \in 0 .. 2 * DayLow - 1
  <2>1. CASE c.day = 0
    BY <1>1, <2>1, Units DEF Days
  <2>2. CASE c.day = 1
    BY <1>1, <2>2, Units DEF Days
  <2> QED BY <1>2, <2>1, <2>2
<1>4. Reading(c) = Elapsed(Days(c), c.hours, c.minutes, c.seconds)
  BY DEF Reading, Elapsed
<1>5. Reading(c) \in Int
  <2>1. /\ Days(c) \in Int /\ c.hours \in Int /\ c.minutes \in Int /\ c.seconds \in Int
    BY <1>1, <1>3, Units
  <2>2. Elapsed(Days(c), c.hours, c.minutes, c.seconds) \in Int
    BY <2>1, ElapsedInt, Zenon
  <2> QED BY <1>4, <2>2
<1> QED BY <1>1, <1>3, <1>4, <1>5

(* A reading in range is less than Wrap exactly when its days are. *)
LEMMA Overflowing ==
  ASSUME NEW d \in Nat, NEW h \in 0 .. Hour - 1, NEW m \in 0 .. Minute - 1, NEW s \in 0 .. Second - 1
  PROVE  Elapsed(d, h, m, s) \in Nat /\ (Elapsed(d, h, m, s) >= Wrap <=> d >= 2 * DayLow)
<1> DEFINE n == 2 * DayLow
           e == Elapsed(d, h, m, s)
<1>1. n \in Nat /\ WholeDay \in Nat \ {0} /\ Wrap = n * WholeDay
  BY Wholes, Units
<1>2. e \in d * WholeDay .. d * WholeDay + WholeDay - 1
  BY WithinDay
<1>3. d * WholeDay \in Nat /\ n * WholeDay \in Nat
  BY <1>1
<1> HIDE DEF n, e
<1>4. ASSUME d >= n PROVE e >= Wrap
  <2>1. d * WholeDay >= n * WholeDay
    BY <1>1, <1>4
  <2> QED BY <1>1, <1>2, <1>3, <2>1
<1>5. ASSUME d < n PROVE e < Wrap
  <2>1. (d + 1) * WholeDay <= n * WholeDay /\ (d + 1) * WholeDay = d * WholeDay + WholeDay
    BY <1>1, <1>5
  <2> QED BY <1>1, <1>2, <1>3, <2>1
<1>6. e \in Nat /\ Wrap \in Nat
  BY <1>1, <1>2, <1>3
<1> QED BY <1>1, <1>4, <1>5, <1>6 DEF n, e

LEMMA ReadingInRange ==
  ASSUME NEW c \in RtcRegisters, InRange(c)
  PROVE  Reading(c) \in 0 .. Wrap - 1
<1>1. c.hours \in 0 .. Hour - 1 /\ c.minutes \in 0 .. Minute - 1 /\ c.seconds \in 0 .. Second - 1
  BY Readings, Units DEF InRange
<1>2. Days(c) \in Nat /\ ~(Days(c) >= 2 * DayLow)
  BY Readings, Units
<1>3. Reading(c) = Elapsed(Days(c), c.hours, c.minutes, c.seconds)
  BY Readings
<1>4. Reading(c) \in Nat /\ ~(Reading(c) >= Wrap)
  BY <1>1, <1>2, <1>3, Overflowing
<1> QED BY <1>4, Wholes

(* What a tick by delta seconds should do to a clock in range. *)
Advanced(c, n, delta) ==
  /\ InRange(n)
  /\ Reading(n) % Wrap = (Reading(c) + delta) % Wrap
  /\ n.overflow = (c.overflow \/ Reading(c) + delta >= Wrap)

LEMMA Distances ==
  ASSUME NEW delta \in Nat
  PROVE  \E s0 \in 0 .. Second - 1, m0 \in 0 .. Minute - 1, h0 \in 0 .. Hour - 1, e \in Nat, a \in Nat, b \in Nat :
            /\ delta % Second = s0 /\ (delta \div Second) % Minute = m0
            /\ (delta \div (Second * Minute)) % Hour = h0 /\ delta \div (Second * Minute * Hour) = e
            /\ delta = s0 + Second * a /\ a = m0 + Minute * b /\ b = h0 + Hour * e
<1> DEFINE a == delta \div Second
           b == a \div Minute
           e == b \div Hour
<1>1. a \in Int /\ delta % Second \in 0 .. Second - 1 /\ delta = Second * a + (delta % Second)
  BY DivMod, Units
<1>2. a \in Nat
  BY Units
<1>3. b \in Int /\ a % Minute \in 0 .. Minute - 1 /\ a = Minute * b + (a % Minute)
  BY <1>2, DivMod, Units
<1>4. b \in Nat
  BY <1>2, Units
<1>5. e \in Int /\ b % Hour \in 0 .. Hour - 1 /\ b = Hour * e + (b % Hour)
  BY <1>4, DivMod, Units
<1>6. e \in Nat
  BY <1>4, Units
<1>7. Second * Minute \in Nat \ {0} /\ delta \div (Second * Minute) = b
  BY DivDiv, Units
<1>8. delta \div (Second * Minute * Hour) = e
  <2>1. \A k \in Nat \ {0} : delta \div (k * Hour) = (delta \div k) \div Hour
    BY DivDiv, Units
  <2> DEFINE k == Second * Minute
  <2>2. k \in Nat \ {0} /\ delta \div k = b
    BY <1>7
  <2> HIDE DEF k
  <2>3. delta \div (k * Hour) = (delta \div k) \div Hour
    BY <2>1, <2>2
  <2> QED BY <2>2, <2>3 DEF k
<1> HIDE DEF a, b, e
<1>9. delta = (delta % Second) + Second * a /\ a = (a % Minute) + Minute * b /\ b = (b % Hour) + Hour * e
  BY <1>1, <1>2, <1>3, <1>4, <1>5, <1>6, Units
<1>10. (delta \div Second) % Minute = a % Minute
  BY DEF a
<1> QED BY <1>1, <1>2, <1>3, <1>4, <1>5, <1>6, <1>7, <1>8, <1>9, <1>10

LEMMA CarriedOver ==
  ASSUME NEW d \in Nat, NEW h \in Nat, NEW m \in Nat, NEW s \in Nat
  PROVE  LET m1 == m + (s \div Second)
             h1 == h + (m1 \div Minute)
             d1 == d + (h1 \div Hour)
         IN /\ m1 \in Nat /\ h1 \in Nat /\ d1 \in Nat
            /\ s % Second \in 0 .. Second - 1 /\ m1 % Minute \in 0 .. Minute - 1 /\ h1 % Hour \in 0 .. Hour - 1
            /\ Elapsed(d1, h1 % Hour, m1 % Minute, s % Second) = Elapsed(d, h, m, s)
<1> DEFINE sq == s \div Second
           sr == s % Second
           m1 == m + sq
           mq == m1 \div Minute
           mr == m1 % Minute
           h1 == h + mq
           hq == h1 \div Hour
           hr == h1 % Hour
           d1 == d + hq
<1>1. sr \in 0 .. Second - 1 /\ sq \in Nat /\ s = sr + Second * sq
  BY Carried, Units
<1> HIDE DEF sq, sr
<1>2. m1 \in Nat
  BY <1>1
<1> HIDE DEF m1
<1>3. mr \in 0 .. Minute - 1 /\ mq \in Nat /\ m1 = mr + Minute * mq
  BY <1>2, Carried, Units
<1> HIDE DEF mq, mr
<1>4. h1 \in Nat
  BY <1>3
<1> HIDE DEF h1
<1>5. hr \in 0 .. Hour - 1 /\ hq \in Nat /\ h1 = hr + Hour * hq
  BY <1>4, Carried, Units
<1> HIDE DEF hq, hr
<1>6. d1 \in Nat
  BY <1>5
<1>7. Elapsed(d, h, m, s) = Elapsed(d, h, m1, sr)
  <2>1. Elapsed(d, h, m, sr + Second * sq) = Elapsed(d, h, m + sq, sr)
    BY <1>1, CarrySeconds
  <2> QED BY <1>1, <2>1 DEF m1
<1>8. Elapsed(d, h, m1, sr) = Elapsed(d, h1, mr, sr)
  <2>1. Elapsed(d, h, mr + Minute * mq, sr) = Elapsed(d, h + mq, mr, sr)
    BY SMTT(30), <1>1, <1>3, CarryMinutes
  <2> QED BY <1>3, <2>1 DEF h1
<1>9. Elapsed(d, h1, mr, sr) = Elapsed(d1, hr, mr, sr)
  <2>1. Elapsed(d, hr + Hour * hq, mr, sr) = Elapsed(d + hq, hr, mr, sr)
    <3>1. d \in Int /\ hr \in Int /\ mr \in Int /\ sr \in Int /\ hq \in Int
      BY <1>1, <1>3, <1>5
    <3> QED BY ONLY <3>1, CarryHours
  <2> QED BY <1>5, <2>1
<1>10. Elapsed(d1, hr, mr, sr) = Elapsed(d, h, m, s)
  BY <1>7, <1>8, <1>9
<1> HIDE DEF d1
<1> QED BY <1>1, <1>2, <1>3, <1>4, <1>5, <1>6, <1>10 DEF sq, sr, m1, mq, mr, h1, hq, hr, d1

LEMMA SecondsTyped ==
  ASSUME NEW c \in RtcRegisters, NEW delta \in Nat
  PROVE  SecondsAreUp(c, delta) \in RtcRegisters
<1> DEFINE s == c.seconds + (delta % Second)
           m == c.minutes + ((delta \div Second) % Minute) + (s \div Second)
           h == c.hours + ((delta \div (Second * Minute)) % Hour) + (m \div Minute)
           d == Days(c) + (delta \div (Second * Minute * Hour)) + (h \div Hour)
           n == SecondsAreUp(c, delta)
<1>1. s \in Nat /\ m \in Nat /\ h \in Nat /\ d \in Nat
  <2>1. PICK s0 \in 0 .. Second - 1, m0 \in 0 .. Minute - 1, h0 \in 0 .. Hour - 1, e \in Nat :
            /\ delta % Second = s0 /\ (delta \div Second) % Minute = m0
            /\ (delta \div (Second * Minute)) % Hour = h0 /\ delta \div (Second * Minute * Hour) = e
    BY Distances
  <2>2. s = c.seconds + s0 /\ m = c.minutes + m0 + (s \div Second) /\ h = c.hours + h0 + (m \div Minute)
        /\ d = Days(c) + e + (h \div Hour)
    BY <2>1
  <2> HIDE DEF s, m, h, d
  <2>3. c.seconds \in Nat /\ c.minutes \in Nat /\ c.hours \in Nat /\ Days(c) \in Nat
    BY Readings, Units
  <2>4. s \in Nat
    BY <2>2, <2>3, Units
  <2>5. s \div Second \in Nat
    BY <2>4, Units, Carried
  <2>6. m \in Nat
    BY <2>2, <2>3, <2>5, Units
  <2>7. m \div Minute \in Nat
    BY <2>6, Units, Carried
  <2>8. h \in Nat
    BY <2>2, <2>3, <2>7, Units
  <2>9. h \div Hour \in Nat
    BY <2>8, Units, Carried
  <2>10. d \in Nat
    BY <2>2, <2>3, <2>9, Units
  <2> QED BY <2>4, <2>6, <2>8, <2>10
<1>2. n = [c EXCEPT !.seconds = s % Second, !.minutes = m % Minute, !.hours = h % Hour,
               !.days_low = d % DayLow, !.day = (d \div DayLow) % 2,
               !.overflow = @ \/ d >= 2 * DayLow]
  BY DEF SecondsAreUp
<1> HIDE DEF s, m, h, d, n
<1>3. s % Second \in 0 .. Byte - 1 /\ m % Minute \in 0 .. Byte - 1 /\ h % Hour \in 0 .. Byte - 1
      /\ d % DayLow \in 0 .. DayLow - 1
  BY <1>1, Units, Carried
<1>4. (d \div DayLow) % 2 \in 0 .. 1
  BY <1>1, Units, Carried
<1>5. ASSUME NEW a \in 0 .. Byte - 1, NEW b \in 0 .. Byte - 1, NEW e \in 0 .. Byte - 1, NEW f \in 0 .. DayLow - 1,
             NEW g \in 0 .. 1, NEW o \in BOOLEAN
      PROVE  [c EXCEPT !.seconds = a, !.minutes = b, !.hours = e, !.days_low = f, !.day = g, !.overflow = o] \in RtcRegisters
  BY <1>5 DEF RtcRegisters
<1> DEFINE o == c.overflow \/ d >= 2 * DayLow
<1>6. o \in BOOLEAN
  OBVIOUS
<1>7. n = [c EXCEPT !.seconds = s % Second, !.minutes = m % Minute, !.hours = h % Hour,
               !.days_low = d % DayLow, !.day = (d \div DayLow) % 2, !.overflow = o]
  BY <1>2
<1> HIDE DEF o
<1>8. n \in RtcRegisters
  BY ONLY <1>3, <1>4, <1>5, <1>6, <1>7
<1> QED BY <1>8 DEF n

LEMMA SecondsAdvance ==
  ASSUME NEW c \in RtcRegisters, NEW delta \in Nat, InRange(c)
  PROVE  Advanced(c, SecondsAreUp(c, delta), delta)
<1> DEFINE s == c.seconds + (delta % Second)
           m == c.minutes + ((delta \div Second) % Minute) + (s \div Second)
           h == c.hours + ((delta \div (Second * Minute)) % Hour) + (m \div Minute)
           d == Days(c) + (delta \div (Second * Minute * Hour)) + (h \div Hour)
           n == SecondsAreUp(c, delta)
<1>1. PICK s0 \in 0 .. Second - 1, m0 \in 0 .. Minute - 1, h0 \in 0 .. Hour - 1, e \in Nat, a \in Nat, b \in Nat :
            /\ delta % Second = s0 /\ (delta \div Second) % Minute = m0
            /\ (delta \div (Second * Minute)) % Hour = h0 /\ delta \div (Second * Minute * Hour) = e
            /\ delta = s0 + Second * a /\ a = m0 + Minute * b /\ b = h0 + Hour * e
  BY Distances
<1>2. s = c.seconds + s0 /\ m = c.minutes + m0 + (s \div Second) /\ h = c.hours + h0 + (m \div Minute)
        /\ d = Days(c) + e + (h \div Hour)
  BY <1>1
<1>3. /\ n.seconds = s % Second /\ n.minutes = m % Minute /\ n.hours = h % Hour
      /\ n.days_low = d % DayLow /\ n.day = (d \div DayLow) % 2
      /\ n.overflow = (c.overflow \/ d >= 2 * DayLow)
  BY DEF SecondsAreUp, RtcRegisters
<1>4. n \in RtcRegisters
  BY SecondsTyped
<1> HIDE DEF s, m, h, d, n
<1> DEFINE d0 == Days(c) + e
           h1 == c.hours + h0
           m1 == c.minutes + m0
<1>5. d0 \in Nat /\ h1 \in Nat /\ m1 \in Nat /\ s \in Nat
      /\ c.seconds \in Nat /\ c.minutes \in Nat /\ c.hours \in Nat /\ Days(c) \in Nat
  BY <1>2, Readings, Units
<1>6. Elapsed(d0, h1, m1, s) = Reading(c) + delta
  <2>1. Reading(c) + delta = Elapsed(Days(c), c.hours, c.minutes, s + Second * a)
    <3>1. Reading(c) = ((Days(c) * Hour + c.hours) * Minute + c.minutes) * Second + c.seconds
      BY DEF Reading
    <3> DEFINE x == ((Days(c) * Hour + c.hours) * Minute + c.minutes) * Second
    <3>2. Elapsed(Days(c), c.hours, c.minutes, s + Second * a) = x + (s + Second * a)
      BY DEF Elapsed
    <3>3. x \in Int /\ Second * a \in Int
      <4>1. (Days(c) * Hour + c.hours) * Minute + c.minutes \in Int
        <5>1. Days(c) * Hour + c.hours \in Int
          BY <1>5, Units
        <5> QED BY <1>5, <5>1, Units
      <4> QED BY <4>1, Units
    <3>4. Reading(c) = x + c.seconds
      BY <3>1
    <3> HIDE DEF x
    <3> QED BY <1>1, <1>2, <1>5, <3>2, <3>3, <3>4
  <2>2. Elapsed(Days(c), c.hours, c.minutes, s + Second * a) = Elapsed(Days(c), c.hours, c.minutes + a, s)
    <3> DEFINE cd == Days(c)
               ch == c.hours
               cm == c.minutes
    <3>1. cd \in Int /\ ch \in Int /\ cm \in Int /\ s \in Int
      BY <1>5
    <3> HIDE DEF cd, ch, cm
    <3>2. Elapsed(cd, ch, cm, s + Second * a) = Elapsed(cd, ch, cm + a, s)
      BY <3>1, CarrySeconds
    <3> QED BY <3>2 DEF cd, ch, cm
  <2>3. c.minutes + a = m1 + Minute * b
    BY <1>1, <1>5, Units
  <2> HIDE DEF m1
  <2>4. Elapsed(Days(c), c.hours, m1 + Minute * b, s) = Elapsed(Days(c), c.hours + b, m1, s)
    <3> DEFINE cd == Days(c)
               ch == c.hours
    <3>1. cd \in Int /\ ch \in Int /\ m1 \in Int /\ s \in Int
      BY <1>5
    <3> HIDE DEF cd, ch
    <3>2. Elapsed(cd, ch, m1 + Minute * b, s) = Elapsed(cd, ch + b, m1, s)
      BY <3>1, CarryMinutes
    <3> QED BY <3>2 DEF cd, ch
  <2>5. c.hours + b = h1 + Hour * e
    BY <1>1, <1>5, Units
  <2> HIDE DEF h1
  <2>6. Elapsed(Days(c), h1 + Hour * e, m1, s) = Elapsed(d0, h1, m1, s)
    <3> DEFINE cd == Days(c)
    <3>1. cd \in Int /\ h1 \in Int /\ m1 \in Int /\ s \in Int
      BY <1>5
    <3>2. d0 = cd + e
      OBVIOUS
    <3> HIDE DEF cd, d0
    <3>3. Elapsed(cd, h1 + Hour * e, m1, s) = Elapsed(cd + e, h1, m1, s)
      BY <3>1, CarryHours
    <3> QED BY <3>2, <3>3 DEF cd
  <2> QED BY <2>1, <2>2, <2>3, <2>4, <2>5, <2>6
<1>7. m = m1 + (s \div Second) /\ h = h1 + (m \div Minute) /\ d = d0 + (h \div Hour)
  BY <1>2
<1> HIDE DEF d0, h1, m1
<1>8. /\ d \in Nat /\ s % Second \in 0 .. Second - 1 /\ m % Minute \in 0 .. Minute - 1 /\ h % Hour \in 0 .. Hour - 1
      /\ Elapsed(d, h % Hour, m % Minute, s % Second) = Elapsed(d0, h1, m1, s)
  BY <1>5, <1>7, CarriedOver
<1>9. Elapsed(d, n.hours, n.minutes, n.seconds) = Reading(c) + delta
  BY <1>3, <1>6, <1>8
<1>10. InRange(n)
  BY <1>3, <1>8, Units DEF InRange
<1>11. n.overflow = (c.overflow \/ Reading(c) + delta >= Wrap)
  <2>1. Elapsed(d, n.hours, n.minutes, n.seconds) >= Wrap <=> d >= 2 * DayLow
    BY <1>3, <1>8, Overflowing
  <2> QED BY <1>3, <1>9, <2>1
<1>12. Reading(n) % Wrap = (Reading(c) + delta) % Wrap
  <2> DEFINE k == d \div DayLow
             q == k \div 2
  <2>1. k \in Nat /\ d = n.days_low + DayLow * k /\ n.days_low \in Nat
    <3>1. d % DayLow \in 0 .. DayLow - 1 /\ k \in Nat /\ d = (d % DayLow) + DayLow * k
      BY <1>8, Carried, Units
    <3>2. d % DayLow \in Nat
      BY <3>1, Units
    <3> QED BY <1>3, <3>1, <3>2
  <2> HIDE DEF k
  <2>2. q \in Nat /\ k = (k % 2) + 2 * q /\ k % 2 \in 0 .. 1
    BY <2>1
  <2>3. n.day = k % 2
    BY <1>3 DEF k
  <2> HIDE DEF q
  <2>4. DayLow * k = n.day * DayLow + (2 * DayLow) * q /\ n.day * DayLow \in Int /\ (2 * DayLow) * q \in Int
    <3>1. k = n.day + 2 * q /\ n.day \in Int
      BY <2>2, <2>3
    <3> QED BY <2>2, <3>1, Units
  <2>5. d = Days(n) + (2 * DayLow) * q
    BY <2>1, <2>4 DEF Days
  <2> DEFINE r == (2 * DayLow) * q
             dn == Days(n)
  <2>6. r \in Int /\ dn \in Int /\ d = dn + r /\ n.hours \in Int /\ n.minutes \in Int /\ n.seconds \in Int
    BY <1>3, <1>8, <2>4, <2>5, <1>4, Readings, Units
  <2>7. WholeDay * r = Wrap * q
    <3>1. WholeDay \in Int /\ 2 * DayLow \in Int /\ q \in Int
      BY <2>2, Wholes, Units
    <3>2. WholeDay * ((2 * DayLow) * q) = ((2 * DayLow) * WholeDay) * q
      BY <3>1
    <3> QED BY <3>2, Wholes
  <2> HIDE DEF r, dn
  <2>8. Elapsed(dn + r, n.hours, n.minutes, n.seconds) = Elapsed(dn, n.hours, n.minutes, n.seconds) + WholeDay * r
    <3> DEFINE nh == n.hours
               nm == n.minutes
               ns == n.seconds
    <3>1. dn \in Int /\ r \in Int /\ nh \in Int /\ nm \in Int /\ ns \in Int
      BY <2>6
    <3> HIDE DEF nh, nm, ns
    <3>2. Elapsed(dn + r, nh, nm, ns) = Elapsed(dn, nh, nm, ns) + WholeDay * r
      BY <3>1, CarryDays
    <3> QED BY <3>2 DEF nh, nm, ns
  <2>9. Reading(n) = Elapsed(dn, n.hours, n.minutes, n.seconds) /\ Reading(n) \in Int
    BY <1>4, Readings DEF dn
  <2>10. Reading(c) + delta = Reading(n) + Wrap * q
    BY <1>9, <2>6, <2>7, <2>8, <2>9
  <2> QED BY <2>2, <2>9, <2>10, Shift, Wholes
<1> QED BY <1>10, <1>11, <1>12 DEF Advanced, n

LEMMA SecondTyped ==
  ASSUME NEW c \in RtcRegisters
  PROVE  SecondIsUp(c) \in RtcRegisters
<1> DEFINE ss == (c.seconds + 1) % Byte
           mm == (c.minutes + 1) % Byte
           hh == (c.hours + 1) % Byte
<1>1. ss \in 0 .. Byte - 1 /\ mm \in 0 .. Byte - 1 /\ hh \in 0 .. Byte - 1 /\ 0 \in 0 .. Byte - 1
  <2>1. \A k \in Nat : k % Byte \in 0 .. Byte - 1
    BY Carried, Units
  <2>2. c.seconds + 1 \in Nat /\ c.minutes + 1 \in Nat /\ c.hours + 1 \in Nat
    BY Readings, Units
  <2>3. 0 \in 0 .. Byte - 1
    BY Units
  <2> QED BY <2>1, <2>2, <2>3
<1> HIDE DEF ss, mm, hh
<1>2. ASSUME NEW a \in 0 .. Byte - 1, NEW b \in 0 .. Byte - 1, NEW e \in 0 .. Byte - 1
      PROVE  /\ [c EXCEPT !.seconds = a] \in RtcRegisters
             /\ [c EXCEPT !.seconds = a, !.minutes = b] \in RtcRegisters
             /\ [c EXCEPT !.seconds = a, !.minutes = b, !.hours = e] \in RtcRegisters
  BY <1>2 DEF RtcRegisters
<1>3. ASSUME NEW k \in RtcRegisters PROVE NextDay(k) \in RtcRegisters
  <2>1. k.days_low \in 0 .. DayLow - 1 /\ (k.day = 0 \/ k.day = 1)
    BY <1>3 DEF RtcRegisters
  <2>2. 1 - k.day \in 0 .. 1 /\ (k.days_low < DayLow - 1 => k.days_low + 1 \in 0 .. DayLow - 1) /\ 0 \in 0 .. DayLow - 1
    BY <2>1, Units
  <2>3. ASSUME NEW f \in 0 .. DayLow - 1, NEW g \in 0 .. 1, NEW o \in BOOLEAN
        PROVE  /\ [k EXCEPT !.days_low = f] \in RtcRegisters
               /\ [k EXCEPT !.days_low = f, !.day = g, !.overflow = o] \in RtcRegisters
    BY <2>3 DEF RtcRegisters
  <2>4. (k.overflow \/ k.day = 1) \in BOOLEAN
    OBVIOUS
  <2> DEFINE o == k.overflow \/ k.day = 1
             l == k.days_low + 1
             g == 1 - k.day
  <2>5. NextDay(k) = IF k.days_low < DayLow - 1 THEN [k EXCEPT !.days_low = l]
                     ELSE [k EXCEPT !.days_low = 0, !.day = g, !.overflow = o]
    BY DEF NextDay
  <2> HIDE DEF o, l, g
  <2> QED BY ZenonT(60), <2>2, <2>3, <2>4, <2>5 DEF o, l, g
<1>4. SecondIsUp(c) = IF ss # Second THEN [c EXCEPT !.seconds = ss]
        ELSE IF mm # Minute THEN [c EXCEPT !.seconds = 0, !.minutes = mm]
        ELSE IF hh # Hour THEN [c EXCEPT !.seconds = 0, !.minutes = 0, !.hours = hh]
        ELSE NextDay([c EXCEPT !.seconds = 0, !.minutes = 0, !.hours = 0])
  BY DEF SecondIsUp, ss, mm, hh
<1>5. /\ [c EXCEPT !.seconds = ss] \in RtcRegisters
      /\ [c EXCEPT !.seconds = 0, !.minutes = mm] \in RtcRegisters
      /\ [c EXCEPT !.seconds = 0, !.minutes = 0, !.hours = hh] \in RtcRegisters
      /\ [c EXCEPT !.seconds = 0, !.minutes = 0, !.hours = 0] \in RtcRegisters
  BY <1>1, <1>2
<1>6. NextDay([c EXCEPT !.seconds = 0, !.minutes = 0, !.hours = 0]) \in RtcRegisters
  BY <1>3, <1>5
<1> QED BY <1>4, <1>5, <1>6

LEMMA SecondAdvances ==
  ASSUME NEW c \in RtcRegisters, InRange(c)
  PROVE  Advanced(c, SecondIsUp(c), 1)
<1> DEFINE n == SecondIsUp(c)
           d == Days(c)
           h == c.hours
           m == c.minutes
           s == c.seconds
<1>1. /\ d \in Nat /\ d < 2 * DayLow
      /\ h \in Nat /\ h < Hour /\ m \in Nat /\ m < Minute /\ s \in Nat /\ s < Second
      /\ c.days_low \in 0 .. DayLow - 1 /\ c.day \in 0 .. 1
  BY Readings, Units DEF InRange
<1>2. (s + 1) % Byte = s + 1 /\ (m + 1) % Byte = m + 1 /\ (h + 1) % Byte = h + 1
  <2>1. ASSUME NEW k \in Nat, k + 1 < Byte PROVE (k + 1) % Byte = k + 1
    <3>1. k + 1 \in 0 .. Byte - 1 /\ Byte \in Nat \ {0} /\ k + 1 = Byte * 0 + (k + 1)
      BY <2>1, Units
    <3> QED BY <3>1, Unique
  <2> QED BY <1>1, <2>1, Units
<1>3. Reading(c) = Elapsed(d, h, m, s) /\ Reading(c) \in 0 .. Wrap - 1
  BY Readings, ReadingInRange
<1>4. n \in RtcRegisters
  BY SecondTyped
<1>5. Reading(c) + 1 = Elapsed(d, h, m, s + 1)
  <2>1. ASSUME NEW x, x = (d * Hour + h) * Minute + m PROVE x * Second \in Int
    <3>1. d * Hour + h \in Int
      BY <1>1, Units
    <3>2. (d * Hour + h) * Minute + m \in Int
      BY <1>1, <3>1, Units
    <3> QED BY <2>1, <3>2, Units
  <2>2. ((d * Hour + h) * Minute + m) * Second \in Int
    BY <2>1
  <2>3. Elapsed(d, h, m, s + 1) = ((d * Hour + h) * Minute + m) * Second + (s + 1)
        /\ Elapsed(d, h, m, s) = ((d * Hour + h) * Minute + m) * Second + s
    BY DEF Elapsed
  <2> QED BY <1>1, <1>3, <2>2, <2>3
<1>6. ASSUME InRange(n), Elapsed(Days(n), n.hours, n.minutes, n.seconds) = Reading(c) + 1, n.overflow = c.overflow
      PROVE  Advanced(c, n, 1)
  <2>1. Reading(n) = Reading(c) + 1
    BY <1>4, <1>6, Readings
  <2>2. Reading(n) \in 0 .. Wrap - 1
    BY <1>4, <1>6, ReadingInRange
  <2>3. ~(Reading(c) + 1 >= Wrap)
    BY <2>1, <2>2, Wholes
  <2>4. c.overflow \in BOOLEAN
    BY DEF RtcRegisters
  <2> QED BY <1>6, <2>1, <2>3, <2>4 DEF Advanced
<1>7. CASE s + 1 # Second
  <2>1. n = [c EXCEPT !.seconds = s + 1]
    BY <1>2, <1>7 DEF SecondIsUp
  <2>2. n.seconds = s + 1 /\ n.minutes = m /\ n.hours = h /\ n.day = c.day /\ n.days_low = c.days_low /\ n.overflow = c.overflow
    BY <2>1 DEF RtcRegisters
  <2>3. InRange(n) /\ Days(n) = d
    BY <1>1, <1>7, <2>2, Units DEF InRange, Days
  <2> QED BY <1>5, <1>6, <2>2, <2>3
<1>8. CASE s + 1 = Second /\ m + 1 # Minute
  <2>1. n = [c EXCEPT !.seconds = 0, !.minutes = m + 1]
    BY <1>2, <1>8 DEF SecondIsUp
  <2>2. n.seconds = 0 /\ n.minutes = m + 1 /\ n.hours = h /\ n.day = c.day /\ n.days_low = c.days_low /\ n.overflow = c.overflow
    BY <2>1 DEF RtcRegisters
  <2>3. InRange(n) /\ Days(n) = d
    BY <1>1, <1>8, <2>2, Units DEF InRange, Days
  <2>4. Elapsed(d, h, m, Second) = Elapsed(d, h, m + 1, 0)
    <3> HIDE DEF d, h, m
    <3> QED BY <1>1, CarryOne
  <2> QED BY <1>5, <1>6, <1>8, <2>2, <2>3, <2>4
<1>9. CASE s + 1 = Second /\ m + 1 = Minute
  <2>1. Reading(c) + 1 = Elapsed(d, h + 1, 0, 0)
    <3> HIDE DEF d, h, m
    <3>1. Elapsed(d, h, m, Second) = Elapsed(d, h, m + 1, 0) /\ Elapsed(d, h, Minute, 0) = Elapsed(d, h + 1, 0, 0)
      BY <1>1, CarryOne
    <3> QED BY <1>5, <1>9, <3>1
  <2>2. CASE h + 1 # Hour
    <3>1. n = [c EXCEPT !.seconds = 0, !.minutes = 0, !.hours = h + 1]
      BY <1>2, <1>9, <2>2 DEF SecondIsUp
    <3>2. n.seconds = 0 /\ n.minutes = 0 /\ n.hours = h + 1 /\ n.day = c.day /\ n.days_low = c.days_low /\ n.overflow = c.overflow
      BY <3>1 DEF RtcRegisters
    <3>3. InRange(n) /\ Days(n) = d
      BY <1>1, <2>2, <3>2, Units DEF InRange, Days
    <3> QED BY <1>6, <2>1, <3>2, <3>3
  <2>3. CASE h + 1 = Hour
    <3> DEFINE k == [c EXCEPT !.seconds = 0, !.minutes = 0, !.hours = 0]
    <3>1. n = NextDay(k)
      BY <1>2, <1>9, <2>3 DEF SecondIsUp
    <3>2. k.seconds = 0 /\ k.minutes = 0 /\ k.hours = 0 /\ k.day = c.day /\ k.days_low = c.days_low /\ k.overflow = c.overflow
          /\ k \in RtcRegisters
      <4>1. 0 \in 0 .. Byte - 1
        BY Units
      <4> QED BY <4>1 DEF RtcRegisters
    <3>3. Reading(c) + 1 = Elapsed(d + 1, 0, 0, 0)
      <4> HIDE DEF d
      <4>1. Elapsed(d, Hour, 0, 0) = Elapsed(d + 1, 0, 0, 0)
        BY <1>1, CarryOne
      <4> QED BY <2>1, <2>3, <4>1
    <3> HIDE DEF k
    <3>4. CASE c.days_low < DayLow - 1
      <4>1. n = [k EXCEPT !.days_low = c.days_low + 1]
        BY <3>1, <3>2, <3>4 DEF NextDay
      <4>2. n.seconds = 0 /\ n.minutes = 0 /\ n.hours = 0 /\ n.day = c.day /\ n.days_low = c.days_low + 1 /\ n.overflow = c.overflow
        BY <3>2, <4>1 DEF RtcRegisters
      <4>3. InRange(n) /\ Days(n) = d + 1
        <5>1. c.day * DayLow \in Int
          BY <1>1, Units
        <5> QED BY <1>1, <4>2, <5>1, Units DEF InRange, Days
      <4> QED BY <1>6, <3>3, <4>2, <4>3
    <3>5. CASE ~(c.days_low < DayLow - 1)
      <4>0. c.days_low = DayLow - 1
        BY <1>1, <3>5, Units
      <4>1. n = [k EXCEPT !.days_low = 0, !.day = 1 - c.day, !.overflow = c.overflow \/ c.day = 1]
        BY <3>1, <3>2, <3>5 DEF NextDay
      <4>2. n.seconds = 0 /\ n.minutes = 0 /\ n.hours = 0 /\ n.day = 1 - c.day /\ n.days_low = 0
            /\ n.overflow = (c.overflow \/ c.day = 1)
        BY <3>2, <4>1 DEF RtcRegisters
      <4>3. InRange(n)
        BY <4>2, Units DEF InRange
      <4>4. CASE c.day = 0
        <5>1. Days(n) = d + 1
          BY <4>0, <4>2, <4>4, Units DEF Days
        <5>2. n.overflow = c.overflow
          BY <4>2, <4>4 DEF RtcRegisters
        <5> QED BY <1>6, <3>3, <4>2, <4>3, <5>1, <5>2
      <4>5. CASE c.day = 1
        <5>1. Days(n) = 0 /\ d + 1 = 2 * DayLow
          BY <4>0, <4>2, <4>5, Units DEF Days
        <5>2. Elapsed(0 + 2 * DayLow, 0, 0, 0) = Elapsed(0, 0, 0, 0) + WholeDay * (2 * DayLow)
          BY CarryDays, Units
        <5>3. Elapsed(0, 0, 0, 0) = 0
          BY Units DEF Elapsed
        <5>4. WholeDay * (2 * DayLow) = Wrap
          BY Wholes, Units
        <5>5. Reading(n) = 0 /\ Reading(c) + 1 = Wrap
          <6>1. 0 + 2 * DayLow = d + 1 /\ 0 + Wrap = Wrap
            BY <5>1, Units, Wholes
          <6> QED BY <1>4, <3>3, <4>2, <5>1, <5>2, <5>3, <5>4, <6>1, Readings
        <5>6. 0 % Wrap = 0 /\ Wrap % Wrap = 0
          <6>1. 0 \in 0 .. Wrap - 1 /\ 0 = Wrap * 0 + 0 /\ Wrap = Wrap * 1 + 0
            BY Wholes
          <6> QED BY <6>1, Unique, Wholes
        <5>7. n.overflow = (c.overflow \/ Reading(c) + 1 >= Wrap)
          BY <4>2, <4>5, <5>5, Wholes
        <5> QED BY <4>3, <5>5, <5>6, <5>7 DEF Advanced
      <4> QED BY <1>1, <4>4, <4>5
    <3> QED BY <3>4, <3>5
  <2> QED BY <2>2, <2>3
<1> QED BY <1>7, <1>8, <1>9

LEMMA TickAdvances ==
  ASSUME NEW c \in RtcRegisters, NEW l \in -1 .. MaxLag
  PROVE  /\ TickRtc(c, l) \in RtcRegisters
         /\ l <= 0 => TickRtc(c, l) = c
         /\ l > 0 /\ InRange(c) => Advanced(c, TickRtc(c, l), l)
<1>1. l \in Int
  BY Units
<1>2. CASE l <= 0
  BY <1>1, <1>2 DEF TickRtc
<1>3. CASE l = 1
  <2>1. TickRtc(c, l) = SecondIsUp(c)
    BY <1>3 DEF TickRtc
  <2> QED BY <1>3, <2>1, SecondTyped, SecondAdvances
<1>4. CASE l > 1
  <2>1. TickRtc(c, l) = SecondsAreUp(c, l) /\ l \in Nat
    BY <1>1, <1>4 DEF TickRtc
  <2> QED BY <1>4, <2>1, SecondsTyped, SecondsAdvance
<1> QED BY <1>1, <1>2, <1>3, <1>4

(* The clock and its lag show what is due, as long as it is in range. *)
ShowsDue == due # Adrift => InRange(clock) /\ (Reading(clock) + lag) % Wrap = due
Mbc3Inv == Mbc3TypeOK /\ ShowsDue

LEMMA ModWrap ==
  ASSUME NEW n \in Int
  PROVE  n % Wrap \in 0 .. Wrap - 1 /\ n % Wrap # Adrift
<1>1. \A k \in Nat \ {0} : n % k \in 0 .. k - 1
  BY DivMod
<1>2. n % Wrap \in 0 .. Wrap - 1 /\ Wrap \in Nat
  BY <1>1, Wholes
<1>3. \A m \in 0 .. Wrap - 1 : m # -1
  BY <1>2
<1> QED BY <1>2, <1>3 DEF Adrift

LEMMA ZeroClock == Zero \in RtcRegisters /\ InRange(Zero) /\ Reading(Zero) = 0
<1>1. 0 \in 0 .. Byte - 1 /\ 0 \in 0 .. DayLow - 1
  BY Units
<1> QED BY <1>1, Units DEF Zero, RtcRegisters, InRange, Reading, Days

LEMMA RestartedClock ==
  ASSUME clock' = Zero, cycles_since_last_tick' = 0, lag' = 0, due' = 0
  PROVE  Mbc3Inv'
<1>1. 0 % Wrap = 0 /\ 0 \in 0 .. Wrap - 1 /\ 0 + 0 = 0
  <2>1. 0 \in 0 .. Wrap - 1 /\ 0 = Wrap * 0 + 0
    BY Wholes
  <2> QED BY <2>1, Unique, Wholes
<1>2. Mbc3TypeOK'
  BY <1>1, ZeroClock, Units DEF Mbc3TypeOK
<1> QED BY <1>1, <1>2, ZeroClock DEF Mbc3Inv, ShowsDue

LEMMA Mbc3Initial == Mbc3Init => Mbc3Inv
<1> SUFFICES ASSUME Mbc3Init PROVE Mbc3Inv
  OBVIOUS
<1>1. 0 % Wrap = 0 /\ 0 \in 0 .. Wrap - 1 /\ 0 + 0 = 0
  <2>1. 0 \in 0 .. Wrap - 1 /\ 0 = Wrap * 0 + 0
    BY Wholes
  <2> QED BY <2>1, Unique, Wholes
<1>2. Mbc3TypeOK
  BY <1>1, ZeroClock, Units DEF Mbc3TypeOK, Mbc3Init
<1> QED BY <1>1, <1>2, ZeroClock DEF Mbc3Inv, ShowsDue, Mbc3Init

(* What is due moves with the host's clock. *)
LEMMA HostMoves ==
  ASSUME Mbc3Inv, NEW d \in Int, lag + d \in -1 .. MaxLag, lag' = lag + d, clock' = clock,
         cycles_since_last_tick' \in 0 .. CyclesPerSecond - 1,
         due' = IF due = Adrift THEN Adrift ELSE (due + d) % Wrap
  PROVE  Mbc3Inv'
<1>1. clock \in RtcRegisters /\ lag \in Int /\ (due = Adrift \/ due \in 0 .. Wrap - 1)
  BY Units DEF Mbc3Inv, Mbc3TypeOK
<1>2. CASE due = Adrift
  BY <1>1, <1>2 DEF Mbc3Inv, Mbc3TypeOK, ShowsDue
<1>3. CASE due # Adrift
  <2> DEFINE r == Reading(clock)
  <2>1. InRange(clock) /\ (r + lag) % Wrap = due /\ r \in Int /\ due \in Int
    BY <1>1, <1>3, Readings, Wholes DEF Mbc3Inv, ShowsDue
  <2>2. due' = (due + d) % Wrap /\ due' \in 0 .. Wrap - 1
    BY <1>3, <2>1, ModWrap
  <2> HIDE DEF r
  <2>3. r + lag \in Int /\ (r + lag) + d = r + (lag + d)
    BY <1>1, <2>1
  <2>4. ((r + lag) + d) % Wrap = due'
    BY <2>1, <2>2, <2>3, ModPlus, Wholes
  <2> QED BY <1>1, <2>1, <2>2, <2>3, <2>4 DEF r, Mbc3Inv, Mbc3TypeOK, ShowsDue
<1> QED BY <1>2, <1>3

LEMMA ClockWritten ==
  ASSUME NEW l \in -1 .. MaxLag, clock' \in RtcRegisters, lag' = l, due' = Shows(clock', l),
         cycles_since_last_tick' \in 0 .. CyclesPerSecond - 1
  PROVE  Mbc3Inv'
<1>1. Reading(clock') + l \in Int
  BY Readings, Units
<1>2. CASE InRange(clock')
  <2>1. due' = (Reading(clock') + l) % Wrap /\ due' \in 0 .. Wrap - 1
    BY <1>1, <1>2, ModWrap DEF Shows
  <2>2. InRange(clock)' /\ (Reading(clock) + lag)' = Reading(clock') + l
    BY <1>2
  <2> QED BY <2>1, <2>2 DEF Mbc3Inv, Mbc3TypeOK, ShowsDue
<1>3. CASE ~InRange(clock')
  BY <1>3 DEF Mbc3Inv, Mbc3TypeOK, ShowsDue, Shows
<1> QED BY <1>2, <1>3

LEMMA OthersWritten == Mbc3Inv /\ WriteOthers => Mbc3Inv'
<1> SUFFICES ASSUME Mbc3Inv, WriteOthers PROVE Mbc3Inv'
  OBVIOUS
<1>1. clock \in RtcRegisters /\ lag \in -1 .. MaxLag /\ cycles_since_last_tick \in 0 .. CyclesPerSecond - 1
  BY DEF Mbc3Inv, Mbc3TypeOK
<1>2. ASSUME NEW c \in RtcRegisters, WriteRegister(c) PROVE Mbc3Inv'
  BY <1>1, <1>2, ClockWritten DEF WriteRegister
<1>3. ASSUME NEW v \in 0 .. MinuteField - 1 PROVE [clock EXCEPT !.minutes = v] \in RtcRegisters
  <2>1. v \in 0 .. Byte - 1
    BY <1>3, Units
  <2> QED BY <1>1, <2>1 DEF RtcRegisters
<1>4. ASSUME NEW v \in 0 .. HourField - 1 PROVE [clock EXCEPT !.hours = v] \in RtcRegisters
  <2>1. v \in 0 .. Byte - 1
    BY <1>4, Units
  <2> QED BY <1>1, <2>1 DEF RtcRegisters
<1>5. ASSUME NEW v \in 0 .. DayLow - 1 PROVE [clock EXCEPT !.days_low = v] \in RtcRegisters
  BY <1>1, <1>5 DEF RtcRegisters
<1>6. ASSUME NEW d \in 0 .. 1, NEW o \in BOOLEAN, NEW s \in BOOLEAN
      PROVE  [clock EXCEPT !.day = d, !.overflow = o, !.stopped = s] \in RtcRegisters
  BY <1>1, <1>6 DEF RtcRegisters
<1> QED BY <1>2, <1>3, <1>4, <1>5, <1>6 DEF WriteOthers

LEMMA ClockTicked ==
  ASSUME Mbc3Inv, Mbc3OnTick
  PROVE  /\ Mbc3Inv'
         /\ InRange(clock) /\ clock' # clock =>
              clock'.overflow = (clock.overflow \/ Reading(clock) + lag >= Wrap)
<1>1. /\ clock \in RtcRegisters /\ lag \in -1 .. MaxLag /\ lag \in Int
      /\ cycles_since_last_tick \in Nat /\ (due = Adrift \/ due \in 0 .. Wrap - 1)
  BY Units DEF Mbc3Inv, Mbc3TypeOK
<1>2. cycles_since_last_tick' \in 0 .. CyclesPerSecond - 1
  <2>1. cycles_since_last_tick + 1 \in Nat
    BY <1>1
  <2>2. \A n \in Nat : n % CyclesPerSecond \in 0 .. CyclesPerSecond - 1
    BY Carried, Units
  <2>3. cycles_since_last_tick' = (cycles_since_last_tick + 1) % CyclesPerSecond
    BY DEF Mbc3OnTick
  <2> QED BY <2>1, <2>2, <2>3
<1>3. CASE cycles_since_last_tick' # 0
  BY <1>2, <1>3 DEF Mbc3OnTick, Mbc3Inv, Mbc3TypeOK, ShowsDue
<1>4. CASE cycles_since_last_tick' = 0
  <2>1. clock' = TickRtc(clock, lag) /\ lag' = 0
        /\ due' = IF lag < 0 /\ due # Adrift THEN (due - lag) % Wrap ELSE due
    BY <1>4 DEF Mbc3OnTick
  <2>2. /\ clock' \in RtcRegisters
        /\ lag <= 0 => clock' = clock
        /\ lag > 0 /\ InRange(clock) => Advanced(clock, clock', lag)
    BY <1>1, <2>1, TickAdvances
  <2>3. InRange(clock) /\ clock' # clock => clock'.overflow = (clock.overflow \/ Reading(clock) + lag >= Wrap)
    BY <1>1, <2>2 DEF Advanced
  <2>4. CASE due = Adrift
    BY <1>2, <2>1, <2>2, <2>3, <2>4, Units DEF Mbc3Inv, Mbc3TypeOK, ShowsDue
  <2>5. CASE due # Adrift
    <3> DEFINE r == Reading(clock)
               r1 == Reading(clock')
    <3>1. InRange(clock) /\ (r + lag) % Wrap = due /\ r \in Int /\ due \in Int
      BY <1>1, <2>5, Readings, Wholes DEF Mbc3Inv, ShowsDue
    <3>2. r1 \in Int
      BY <2>2, Readings
    <3>3. InRange(clock') /\ r1 % Wrap = due' /\ due' \in 0 .. Wrap - 1
      <4>1. CASE lag < 0
        <5>1. clock' = clock /\ due' = (due - lag) % Wrap
          BY <1>1, <2>1, <2>2, <2>5, <4>1
        <5> HIDE DEF r
        <5>2. r + lag \in Int /\ 0 - lag \in Int /\ (r + lag) + (0 - lag) = r /\ due + (0 - lag) = due - lag
          BY <1>1, <3>1
        <5>3. (((r + lag) % Wrap) + (0 - lag)) % Wrap = ((r + lag) + (0 - lag)) % Wrap
          BY <5>2, ModPlus, Wholes
        <5>4. (due - lag) % Wrap = r % Wrap
          BY <3>1, <5>2, <5>3
        <5> QED BY <3>1, <5>1, <5>4, ModWrap DEF r
      <4>2. CASE lag = 0
        <5>1. clock' = clock /\ due' = due
          BY <1>1, <2>1, <2>2, <4>2
        <5>2. r + lag = r
          BY <3>1, <4>2
        <5> QED BY <1>1, <2>5, <3>1, <5>1, <5>2
      <4>3. CASE lag > 0
        <5>1. due' = due /\ Advanced(clock, clock', lag)
          BY <1>1, <2>1, <2>2, <3>1, <4>3
        <5> QED BY <1>1, <2>5, <3>1, <5>1 DEF Advanced
      <4> QED BY <1>1, <4>1, <4>2, <4>3
    <3>4. r1 + 0 = r1
      BY <3>2
    <3> QED BY <1>2, <2>1, <2>2, <2>3, <3>3, <3>4, Units DEF Mbc3Inv, Mbc3TypeOK, ShowsDue
  <2> QED BY <2>4, <2>5
<1> QED BY <1>3, <1>4

LEMMA Mbc3Step == Mbc3Inv /\ [Mbc3Next]_mbc3Vars => Mbc3Inv'
<1> SUFFICES ASSUME Mbc3Inv, [Mbc3Next]_mbc3Vars PROVE Mbc3Inv'
  OBVIOUS
<1>0. clock \in RtcRegisters /\ lag \in -1 .. MaxLag /\ lag \in Int /\ cycles_since_last_tick \in 0 .. CyclesPerSecond - 1
  BY Units DEF Mbc3Inv, Mbc3TypeOK
<1>1. CASE Mbc3OnTick
  BY <1>1, ClockTicked
<1>2. ASSUME NEW v \in 0 .. SecondField - 1, WriteSeconds(v) PROVE Mbc3Inv'
  <2>1. v \in 0 .. Byte - 1 /\ 0 \in -1 .. MaxLag /\ 0 \in 0 .. CyclesPerSecond - 1
    BY <1>2, Units
  <2>2. [clock EXCEPT !.seconds = v] \in RtcRegisters
    BY <1>0, <2>1 DEF RtcRegisters
  <2> QED BY <1>2, <2>1, <2>2, ClockWritten DEF WriteSeconds
<1>3. CASE WriteOthers
  BY <1>3, OthersWritten
<1>4. ASSUME NEW d \in {-1, 1, MaxLag}, HostClock(d) PROVE Mbc3Inv'
  <2>1. d \in Int
    BY Units
  <2> QED BY <1>0, <1>4, <2>1, HostMoves DEF HostClock
<1>5. ASSUME NEW d \in {1, MaxLag - 1}, PowerCycle(d) PROVE Mbc3Inv'
  <2>1. d \in Nat /\ 0 \in 0 .. CyclesPerSecond - 1
    BY Units
  <2>2. lag + d \in -1 .. MaxLag
    BY <1>0, <1>5, <2>1, Units DEF PowerCycle
  <2> QED BY <1>5, <2>1, <2>2, HostMoves DEF PowerCycle
<1>6. CASE Mbc3Reset
  BY <1>6, RestartedClock DEF Mbc3Reset
<1>7. CASE UNCHANGED mbc3Vars
  BY <1>7 DEF mbc3Vars, Mbc3Inv, Mbc3TypeOK, ShowsDue
<1> QED BY <1>1, <1>2, <1>3, <1>4, <1>5, <1>6, <1>7 DEF Mbc3Next

-----------------------------------------------------------------------------
(* HuC3's clock.                                                           *)

(* The units of HuC3's clock; Capacity is how many days it counts.         *)
Capacity == Nibble ^ Digits

LEMMA HuC3Units ==
  /\ Capacity \in Nat \ {0} /\ Day \in Nat \ {0} /\ Day <= Capacity
  /\ SecondsPerMinute \in Nat \ {0} /\ SecondsPerMinute > 1
  /\ HuC3CyclesPerSecond \in Nat \ {0}
  /\ HuC3MaxLag \in Nat /\ HuC3MaxLag > 0
  /\ Nibble \in Nat \ {0} /\ Nibble > 1 /\ Nibble * Nibble \in Nat \ {0}
  /\ Digits \in Nat /\ \A k \in 0 .. Digits : Nibble ^ k \in Nat \ {0}
<1>1. /\ {Nibble, Digits, SecondsPerMinute, HuC3CyclesPerSecond} \subseteq Nat \ {0, 1}
      /\ Day \in 1 .. Nibble ^ Digits /\ HuC3MaxLag \in Nat \ {0}
      /\ \A k \in 0 .. Digits : Nibble ^ k \in Nat \ {0}
  BY Huc3ClockAssumption
<1>2. Nibble \in Nat \ {0} /\ Nibble > 1 /\ Digits \in Nat /\ SecondsPerMinute \in Nat \ {0} /\ SecondsPerMinute > 1
      /\ HuC3CyclesPerSecond \in Nat \ {0}
  BY <1>1
<1>3. Capacity \in Nat \ {0}
  BY <1>1, <1>2 DEF Capacity
<1>4. Nibble * Nibble \in Nat \ {0}
  BY <1>2
<1> QED BY <1>1, <1>2, <1>3, <1>4 DEF Capacity

(* The minutes of all the days, the seconds of all the minutes. *)
LEMMA HuC3Wholes ==
  /\ Capacity * Day \in Nat \ {0}
  /\ HuC3Wrap = (Capacity * Day) * SecondsPerMinute /\ HuC3Wrap \in Nat \ {0}
<1>1. Capacity * Day \in Nat \ {0}
  BY HuC3Units
<1>2. HuC3Wrap = (Capacity * Day) * SecondsPerMinute
  BY DEF HuC3Wrap, Capacity
<1> DEFINE x == Capacity * Day
<1>3. x \in Nat \ {0} /\ HuC3Wrap = x * SecondsPerMinute
  BY <1>1, <1>2
<1> HIDE DEF x
<1>4. x * SecondsPerMinute \in Nat \ {0}
  BY <1>3, HuC3Units
<1> QED BY <1>1, <1>2, <1>3, <1>4

LEMMA Fields == 
  /\ Field = 0 .. Capacity - 1 /\ 0 \in Field /\ Field \subseteq Nat
  /\ Cells = 0 .. Nibble * Nibble - 1 /\ 0 \in Cells /\ Cells \subseteq Nat
BY HuC3Units DEF Field, Capacity, Cells

(* The seconds of d days, m minutes and l seconds. *)
Total(d, m, l) == (d * Day + m) * SecondsPerMinute + l

LEMMA Totals ==
  ASSUME NEW d \in Int, NEW m \in Int, NEW l \in Int
  PROVE  Total(d, m, l) \in Int /\ Shown(m, d, l) = Total(d, m, l) % HuC3Wrap /\ Shown(m, d, l) \in 0 .. HuC3Wrap - 1
<1>1. d * Day + m \in Int
  BY HuC3Units
<1>2. Total(d, m, l) \in Int
  <2> DEFINE x == d * Day + m
  <2>1. x \in Int
    BY <1>1
  <2> HIDE DEF x
  <2>2. x * SecondsPerMinute \in Int
    BY <2>1, HuC3Units
  <2> QED BY <2>2 DEF Total, x
<1>3. Shown(m, d, l) = Total(d, m, l) % HuC3Wrap
  BY DEF Shown, Total
<1>4. \A n \in Int : n % HuC3Wrap \in 0 .. HuC3Wrap - 1
  BY DivMod, HuC3Wholes
<1> QED BY <1>2, <1>3, <1>4

(* delta minutes later and as many less of lag, the clock shows the same.  *)
LEMMA MinutesAdvance ==
  ASSUME minutes \in Field, days \in Field, NEW delta \in Nat, NEW l \in Int
  PROVE  /\ AfterMinutes(delta).minutes \in Field /\ AfterMinutes(delta).days \in Field
         /\ Shown(AfterMinutes(delta).minutes, AfterMinutes(delta).days, l - delta * SecondsPerMinute)
              = Shown(minutes, days, l)
<1> DEFINE dq == delta \div Day
           dr == delta % Day
           m == minutes + dr
           mq == m \div Day
           mr == m % Day
           d == days + dq + mq
           q == d \div Capacity
           r == d % Capacity
<1>0. minutes \in Nat /\ days \in Nat
  BY Fields
<1>1. dr \in 0 .. Day - 1 /\ dq \in Nat /\ delta = dr + Day * dq
  BY Carried, HuC3Units
<1>2. AfterMinutes(delta) = [minutes |-> mr, days |-> r]
  BY DEF AfterMinutes, Capacity
<1> HIDE DEF dq, dr
<1>3. m \in Nat
  BY <1>0, <1>1, HuC3Units
<1> HIDE DEF m
<1>4. mr \in 0 .. Day - 1 /\ mq \in Nat /\ m = mr + Day * mq
  BY <1>3, Carried, HuC3Units
<1> HIDE DEF mq, mr
<1>5. d \in Nat
  BY <1>0, <1>1, <1>4
<1> HIDE DEF d
<1>6. r \in 0 .. Capacity - 1 /\ q \in Nat /\ d = r + Capacity * q
  BY <1>5, Carried, HuC3Units
<1> HIDE DEF q, r
<1>7. d * Day + mr = (days * Day + minutes) + delta
  <2>1. d * Day = days * Day + Day * dq + Day * mq
    BY <1>0, <1>1, <1>4, HuC3Units DEF d
  <2>2. days * Day \in Int /\ Day * dq \in Int /\ Day * mq \in Int
    BY <1>0, <1>1, <1>4, HuC3Units
  <2> QED BY <1>0, <1>1, <1>4, <2>1, <2>2, HuC3Units DEF m
<1>8. d * Day = r * Day + (Capacity * Day) * q
  BY <1>6, HuC3Units
<1> DEFINE x == days * Day + minutes
           y == r * Day + mr
           z == (Capacity * Day) * q
<1>9. x \in Int /\ y \in Int /\ z \in Int /\ y + z = x + delta
  <2>1. days * Day \in Int /\ r * Day \in Int /\ z \in Int
    BY <1>0, <1>6, HuC3Units, HuC3Wholes
  <2> QED BY <1>0, <1>4, <1>7, <1>8, <2>1, HuC3Units
<1>10. z * SecondsPerMinute = HuC3Wrap * q
  <2> DEFINE k == Capacity * Day
  <2>1. k \in Int /\ HuC3Wrap = k * SecondsPerMinute
    BY HuC3Wholes
  <2> HIDE DEF k
  <2>2. (k * q) * SecondsPerMinute = (k * SecondsPerMinute) * q
    BY <1>6, <2>1, HuC3Units
  <2> QED BY <2>1, <2>2 DEF k
<1> HIDE DEF x, y, z
<1>11. x * SecondsPerMinute + l = (y * SecondsPerMinute + (l - delta * SecondsPerMinute)) + z * SecondsPerMinute
       /\ y * SecondsPerMinute + (l - delta * SecondsPerMinute) \in Int
  <2>1. x = y + z - delta
    BY <1>9
  <2>2. x * SecondsPerMinute = y * SecondsPerMinute + z * SecondsPerMinute - delta * SecondsPerMinute
    BY <1>9, <2>1, HuC3Units
  <2>3. y * SecondsPerMinute \in Int /\ z * SecondsPerMinute \in Int /\ delta * SecondsPerMinute \in Int
    BY <1>9, HuC3Units
  <2> QED BY <2>2, <2>3
<1>12. Shown(minutes, days, l) = (x * SecondsPerMinute + l) % HuC3Wrap
       /\ Shown(mr, r, l - delta * SecondsPerMinute) = (y * SecondsPerMinute + (l - delta * SecondsPerMinute)) % HuC3Wrap
  BY DEF Shown, x, y
<1>13. (x * SecondsPerMinute + l) % HuC3Wrap = (y * SecondsPerMinute + (l - delta * SecondsPerMinute)) % HuC3Wrap
  <2> DEFINE a == y * SecondsPerMinute + (l - delta * SecondsPerMinute)
  <2>1. a \in Int /\ x * SecondsPerMinute + l = a + HuC3Wrap * q
    BY <1>10, <1>11
  <2> HIDE DEF a
  <2>2. (a + HuC3Wrap * q) % HuC3Wrap = a % HuC3Wrap
    BY <1>6, <2>1, Shift, HuC3Wholes
  <2> QED BY <2>1, <2>2 DEF a
<1>14. mr \in Field /\ r \in Field
  BY <1>4, <1>6, Fields, HuC3Units
<1> QED BY <1>2, <1>12, <1>13, <1>14

HuC3ShowsDue == Shown(minutes, days, huc3_lag) = huc3_due
Huc3Inv == Huc3TypeOK /\ HuC3ShowsDue

LEMMA Huc3Restarted == Shown(0, 0, 0) = 0 /\ 0 \in 0 .. HuC3Wrap - 1
<1>1. Total(0, 0, 0) = 0
  BY HuC3Units DEF Total
<1>2. 0 \in 0 .. HuC3Wrap - 1 /\ 0 = HuC3Wrap * 0 + 0
  BY HuC3Wholes
<1>3. 0 % HuC3Wrap = 0
  BY <1>2, HuC3Wholes, Unique
<1> QED BY <1>1, <1>2, <1>3, Totals

LEMMA Huc3Initial == Huc3Init => Huc3Inv
<1> SUFFICES ASSUME Huc3Init PROVE Huc3Inv
  OBVIOUS
<1>1. Huc3TypeOK
  BY Fields, Huc3Restarted, HuC3Units DEF Huc3Init, Huc3TypeOK
<1> QED BY <1>1, Huc3Restarted DEF Huc3Inv, Huc3Init, HuC3ShowsDue

LEMMA Huc3HostMoves ==
  ASSUME Huc3Inv, NEW d \in Int, huc3_lag + d \in -1 .. HuC3MaxLag
  PROVE  Shown(minutes, days, huc3_lag + d) = (huc3_due + d) % HuC3Wrap /\ (huc3_due + d) % HuC3Wrap \in 0 .. HuC3Wrap - 1
<1>1. minutes \in Int /\ days \in Int /\ huc3_lag \in Int /\ huc3_due \in Int
  BY Fields, HuC3Units, HuC3Wholes DEF Huc3Inv, Huc3TypeOK
<1> DEFINE a == Total(days, minutes, huc3_lag)
<1>2. a \in Int /\ huc3_due = a % HuC3Wrap
  BY <1>1, Totals DEF Huc3Inv, HuC3ShowsDue
<1>3. Total(days, minutes, huc3_lag + d) = a + d
  <2> DEFINE x == (days * Day + minutes) * SecondsPerMinute
  <2>1. x \in Int
    <3>1. days * Day + minutes \in Int
      BY <1>1, HuC3Units
    <3> QED BY <3>1, HuC3Units
  <2>2. a = x + huc3_lag /\ Total(days, minutes, huc3_lag + d) = x + (huc3_lag + d)
    BY DEF Total
  <2> HIDE DEF x, a
  <2> QED BY <1>1, <2>1, <2>2
<1> HIDE DEF a
<1>4. Shown(minutes, days, huc3_lag + d) = (a + d) % HuC3Wrap /\ Shown(minutes, days, huc3_lag + d) \in 0 .. HuC3Wrap - 1
  BY <1>1, <1>3, Totals
<1>5. ((a % HuC3Wrap) + d) % HuC3Wrap = (a + d) % HuC3Wrap
  BY <1>2, ModPlus, HuC3Wholes
<1> QED BY <1>2, <1>4, <1>5

LEMMA AddressKept ==
  ASSUME Huc3Inv
  PROVE  /\ NextAddress \in Cells
         /\ (address \div Nibble) * Nibble + argument \in Cells
         /\ argument * Nibble + (address % Nibble) \in Cells
<1>1. address \in Nat /\ address < Nibble * Nibble /\ argument \in 0 .. Nibble - 1
  BY Fields, HuC3Units DEF Huc3Inv, Huc3TypeOK
<1>2. NextAddress \in Cells
  <2> DEFINE k == Nibble * Nibble
  <2>1. k \in Nat \ {0} /\ Cells = 0 .. k - 1 /\ address + 1 \in Nat
    BY <1>1, Fields, HuC3Units
  <2> HIDE DEF k
  <2>2. (address + 1) % k \in 0 .. k - 1
    BY <2>1, Carried
  <2> QED BY <2>1, <2>2 DEF NextAddress, k
<1>3. ASSUME NEW high \in 0 .. Nibble - 1, NEW low \in 0 .. Nibble - 1 PROVE high * Nibble + low \in Cells
  <2>1. high + 1 <= Nibble /\ high >= 0
    BY HuC3Units
  <2>2. (high + 1) * Nibble <= Nibble * Nibble /\ high * Nibble >= 0 /\ (high + 1) * Nibble = high * Nibble + Nibble
        /\ high * Nibble \in Int
    BY <2>1, HuC3Units
  <2> QED BY <2>2, Fields, HuC3Units
<1>4. address % Nibble \in 0 .. Nibble - 1 /\ address \div Nibble \in Nat /\ address = (address % Nibble) + Nibble * (address \div Nibble)
  BY <1>1, Carried, HuC3Units
<1>5. address \div Nibble \in 0 .. Nibble - 1
  <2> DEFINE h == address \div Nibble
  <2>1. h \in Nat /\ Nibble * h <= address
    <3>1. Nibble * h \in Int
      BY <1>4, HuC3Units
    <3> QED BY <1>1, <1>4, <3>1, HuC3Units
  <2> HIDE DEF h
  <2>2. ASSUME h >= Nibble PROVE FALSE
    <3>1. Nibble * h >= Nibble * Nibble
      BY <2>1, <2>2, HuC3Units
    <3>2. Nibble * h \in Int
      BY <2>1, HuC3Units
    <3> QED BY <1>1, <2>1, <3>1, <3>2, HuC3Units
  <2> QED BY <2>1, <2>2, HuC3Units DEF h
<1> QED BY <1>1, <1>2, <1>3, <1>4, <1>5

LEMMA DigitTyped ==
  ASSUME NEW n \in Field, NEW k \in 0 .. Digits - 1
  PROVE  Digit(n, k) \in 0 .. Nibble - 1
<1>1. Nibble ^ k \in Nat \ {0} /\ n \in Nat
  BY HuC3Units, Fields
<1>2. n \div (Nibble ^ k) \in Nat
  <2> DEFINE p == Nibble ^ k
  <2>1. p \in Nat \ {0}
    BY <1>1
  <2> HIDE DEF p
  <2> QED BY <1>1, <2>1, Carried DEF p
<1> QED BY <1>2, Carried, HuC3Units DEF Digit

LEMMA Huc3Step == Huc3Inv /\ [Huc3Next]_huc3Vars => Huc3Inv'
<1> SUFFICES ASSUME Huc3Inv, [Huc3Next]_huc3Vars PROVE Huc3Inv'
  OBVIOUS
<1> USE DEF Huc3Inv
<1>0. Huc3TypeOK /\ HuC3ShowsDue
  OBVIOUS
<1>1. CASE Huc3OnTick
  <2>1. huc3_cycles' \in 0 .. HuC3CyclesPerSecond - 1
    <3>1. huc3_cycles + 1 \in Nat
      BY <1>0, HuC3Units DEF Huc3TypeOK
    <3>2. \A n \in Nat : n % HuC3CyclesPerSecond \in 0 .. HuC3CyclesPerSecond - 1
      BY Carried, HuC3Units
    <3>3. huc3_cycles' = (huc3_cycles + 1) % HuC3CyclesPerSecond
      BY <1>1 DEF Huc3OnTick
    <3> QED BY <3>1, <3>2, <3>3
  <2> DEFINE delta == huc3_lag \div SecondsPerMinute
  <2>2. CASE huc3_cycles' = 0 /\ delta > 0
    <3>1. /\ minutes' = AfterMinutes(delta).minutes /\ days' = AfterMinutes(delta).days
          /\ huc3_lag' = huc3_lag - delta * SecondsPerMinute
          /\ UNCHANGED <<mailVars, huc3_due>>
      BY <1>1, <2>2 DEF Huc3OnTick, LagAfter
    <3>2. huc3_lag \in -1 .. HuC3MaxLag /\ huc3_lag \in Int
      BY <1>0, HuC3Units DEF Huc3TypeOK
    <3>3. delta \in Int /\ huc3_lag % SecondsPerMinute \in 0 .. SecondsPerMinute - 1
          /\ huc3_lag = SecondsPerMinute * delta + (huc3_lag % SecondsPerMinute)
      BY <3>2, DivMod, HuC3Units
    <3>4. delta \in Nat
      BY <2>2, <3>3
    <3> HIDE DEF delta
    <3>5. huc3_lag' \in 0 .. SecondsPerMinute - 1 /\ huc3_lag' <= huc3_lag
      <4>1. SecondsPerMinute * delta = delta * SecondsPerMinute /\ delta * SecondsPerMinute \in Int /\ delta * SecondsPerMinute >= 0
        BY <3>4, HuC3Units
      <4> QED BY <3>1, <3>2, <3>3, <4>1, HuC3Units
    <3>6. minutes' \in Field /\ days' \in Field /\ Shown(minutes', days', huc3_lag') = Shown(minutes, days, huc3_lag)
      BY <1>0, <3>1, <3>2, <3>4, MinutesAdvance DEF Huc3TypeOK
    <3>7. huc3_lag' \in -1 .. HuC3MaxLag
      BY <3>2, <3>5, HuC3Units
    <3> QED BY <1>0, <2>1, <3>1, <3>6, <3>7 DEF Huc3TypeOK, HuC3ShowsDue, mailVars
  <2>3. CASE ~(huc3_cycles' = 0 /\ delta > 0)
    BY <1>0, <1>1, <2>1, <2>3 DEF Huc3OnTick, Huc3TypeOK, HuC3ShowsDue, mailVars
  <2> QED BY <2>2, <2>3
<1>2. ASSUME NEW c \in 0 .. 7, NEW a \in 0 .. Nibble - 1, Submit(c, a) PROVE Huc3Inv'
  BY <1>0, <1>2 DEF Submit, Huc3TypeOK, HuC3ShowsDue
<1>3. CASE Execute
  <2>1. UNCHANGED <<command, argument, huc3_cycles, huc3_lag>>
    BY <1>3 DEF Execute
  <2>2. CASE ReadCell
    BY <1>0, <2>1, <2>2, AddressKept DEF ReadCell, Huc3TypeOK, HuC3ShowsDue
  <2>3. CASE WriteCell
    BY <1>0, <2>1, <2>3, AddressKept DEF WriteCell, Huc3TypeOK, HuC3ShowsDue
  <2>4. CASE SetAddress
    BY <1>0, <2>1, <2>4, AddressKept DEF SetAddress, Huc3TypeOK, HuC3ShowsDue
  <2>5. CASE CopyFromClock
    <3>1. ASSUME NEW c \in Cells
          PROVE  (CASE c < Digits -> Digit(minutes, c) [] c \in Digits .. 2 * Digits - 1 -> Digit(days, c - Digits) [] OTHER -> memory[c])
                   \in 0 .. Nibble - 1
      <4>1. c \in Nat /\ memory[c] \in 0 .. Nibble - 1 /\ minutes \in Field /\ days \in Field
        BY <1>0, Fields DEF Huc3TypeOK
      <4>2. CASE c < Digits
        <5>1. c \in 0 .. Digits - 1
          BY <4>1, <4>2, HuC3Units
        <5>2. ~(c \in Digits .. 2 * Digits - 1)
          BY <4>1, <4>2, HuC3Units
        <5> QED BY <4>1, <4>2, <5>1, <5>2, DigitTyped
      <4>3. CASE c \in Digits .. 2 * Digits - 1
        <5>1. c - Digits \in 0 .. Digits - 1 /\ ~(c < Digits)
          BY <4>1, <4>3, HuC3Units
        <5> QED BY <4>1, <4>3, <5>1, DigitTyped
      <4> QED BY <4>1, <4>2, <4>3
    <3>2. memory' \in [Cells -> 0 .. Nibble - 1]
      BY <2>5, <3>1 DEF CopyFromClock
    <3> QED BY <1>0, <2>1, <2>5, <3>2 DEF CopyFromClock, Huc3TypeOK, HuC3ShowsDue
  <2>6. CASE CopyToClock
    <3>1. minutes' \in Field /\ days' \in Field
      BY <2>6 DEF CopyToClock
    <3>2. minutes' \in Int /\ days' \in Int /\ huc3_lag \in Int
      BY <1>0, <3>1, Fields, HuC3Units DEF Huc3TypeOK
    <3>3. huc3_due' = Shown(minutes', days', huc3_lag) /\ huc3_due' \in 0 .. HuC3Wrap - 1
      BY <2>6, <3>2, Totals DEF CopyToClock
    <3> QED BY <1>0, <2>1, <2>6, <3>1, <3>3 DEF CopyToClock, Huc3TypeOK, HuC3ShowsDue
  <2> QED BY <1>3, <2>2, <2>3, <2>4, <2>5, <2>6 DEF Execute
<1>4. ASSUME NEW d \in {-1, 1, HuC3MaxLag}, Huc3HostClock(d) PROVE Huc3Inv'
  <2>1. d \in Int
    BY HuC3Units
  <2> QED BY <1>0, <1>4, <2>1, Huc3HostMoves DEF Huc3HostClock, Huc3TypeOK, HuC3ShowsDue, mailVars
<1>5. ASSUME NEW d \in {1, HuC3MaxLag - 1}, Huc3PowerCycle(d) PROVE Huc3Inv'
  <2>1. d \in Nat /\ d \in Int
    BY HuC3Units
  <2>2. huc3_lag + d \in -1 .. HuC3MaxLag
    BY <1>0, <1>5, <2>1, HuC3Units DEF Huc3PowerCycle, Huc3TypeOK
  <2>3. 0 \in Cells /\ 0 \in 0 .. 7 /\ 0 \in 0 .. Nibble - 1 /\ 0 \in 0 .. HuC3CyclesPerSecond - 1
    BY Fields, HuC3Units
  <2> QED BY <1>0, <1>5, <2>1, <2>2, <2>3, Huc3HostMoves DEF Huc3PowerCycle, Huc3TypeOK, HuC3ShowsDue
<1>6. CASE Huc3Reset
  BY <1>6, Fields, Huc3Restarted, HuC3Units DEF Huc3Reset, Huc3TypeOK, HuC3ShowsDue
<1>7. CASE UNCHANGED huc3Vars
  BY <1>0, <1>7 DEF huc3Vars, Huc3TypeOK, HuC3ShowsDue
<1> QED BY <1>1, <1>2, <1>3, <1>4, <1>5, <1>6, <1>7 DEF Huc3Next

-----------------------------------------------------------------------------
(* MBC7's EEPROM.                                                          *)

Bits == {0, 1}

LEMMA ChipSizes ==
  /\ InstructionBits \in Nat /\ InstructionBits >= 4
  /\ AddressSpaceBits \in Nat /\ AddressSpaceBits >= 1 /\ AddressSpaceBits <= InstructionBits - 2
  /\ DataBits \in Nat /\ DataBits >= 1
BY EepromAssumption

LEMMA StringsAreSequences ==
  ASSUME NEW n \in Nat, NEW s
  PROVE  s \in Strings(n) <=> s \in Seq(Bits) /\ Len(s) <= n
<1>1. ASSUME s \in Strings(n) PROVE s \in Seq(Bits) /\ Len(s) <= n
  <2>1. PICK k \in 0 .. n : s \in [1 .. k -> Bits]
    BY <1>1 DEF Strings, Bits
  <2>2. k \in Nat
    OBVIOUS
  <2>3. s \in Seq(Bits)
    BY <2>1, <2>2, SeqDef
  <2>4. Len(s) = k
    BY SMTT(30), <2>1, <2>2, <2>3, LenProperties
  <2> QED BY <2>3, <2>4
<1>2. ASSUME s \in Seq(Bits), Len(s) <= n PROVE s \in Strings(n)
  <2>1. Len(s) \in 0 .. n /\ s \in [1 .. Len(s) -> Bits]
    BY <1>2, LenProperties
  <2> QED BY <2>1 DEF Strings, Bits
<1> QED BY <1>1, <1>2

(* What is heard before is not changed by another bit. *)
LEMMA HeardBefore ==
  ASSUME NEW h \in Seq(Bits), NEW b \in Bits, NEW m \in Nat \ {0}, NEW n \in Nat, n <= Len(h)
  PROVE  SubSeq(Append(h, b), m, n) = SubSeq(h, m, n)
<1> DEFINE g == Append(h, b)
<1>1. g \in Seq(Bits) /\ Len(g) = Len(h) + 1 /\ \A i \in 1 .. Len(h) : g[i] = h[i]
  BY AppendProperties
<1>2. Len(h) \in Nat /\ \A i \in 1 .. Len(h) : h[i] \in Bits
  BY LenProperties, ElementOfSeq
<1> HIDE DEF g
<1>3. \A i \in m .. n : i \in 1 .. Len(h)
  BY <1>2
<1>4. /\ SubSeq(g, m, n) \in Seq(Bits) /\ Len(SubSeq(g, m, n)) = IF m <= n THEN n - m + 1 ELSE 0
      /\ \A i \in 1 .. n - m + 1 : SubSeq(g, m, n)[i] = g[m + i - 1]
  <2>1. \A i \in m .. n : g[i] \in Bits
    BY <1>1, <1>2, <1>3
  <2> QED BY <2>1, SubSeqProperties
<1>5. /\ SubSeq(h, m, n) \in Seq(Bits) /\ Len(SubSeq(h, m, n)) = IF m <= n THEN n - m + 1 ELSE 0
      /\ \A i \in 1 .. n - m + 1 : SubSeq(h, m, n)[i] = h[m + i - 1]
  <2>1. \A i \in m .. n : h[i] \in Bits
    BY <1>2, <1>3
  <2> QED BY <2>1, SubSeqProperties
<1>6. \A i \in 1 .. Len(SubSeq(g, m, n)) : SubSeq(g, m, n)[i] = SubSeq(h, m, n)[i]
  <2> SUFFICES ASSUME NEW i \in 1 .. Len(SubSeq(g, m, n)) PROVE SubSeq(g, m, n)[i] = SubSeq(h, m, n)[i]
    OBVIOUS
  <2>1. m <= n /\ i \in 1 .. n - m + 1
    BY <1>4
  <2>2. m + i - 1 \in 1 .. Len(h)
    BY <1>2, <2>1
  <2> QED BY <1>1, <1>4, <1>5, <2>1, <2>2
<1>7. SubSeq(g, m, n) = SubSeq(h, m, n)
  BY <1>4, <1>5, <1>6, SeqEqual
<1> QED BY <1>7 DEF g

(* What is heard from bit m on grows with every bit. *)
LEMMA HeardFrom ==
  ASSUME NEW h \in Seq(Bits), NEW b \in Bits, NEW m \in Nat \ {0}, m <= Len(h) + 1
  PROVE  /\ SubSeq(Append(h, b), m, Len(h) + 1) = Append(SubSeq(h, m, Len(h)), b)
         /\ SubSeq(h, m, Len(h)) \in Seq(Bits) /\ Len(SubSeq(h, m, Len(h))) = Len(h) + 1 - m
<1> DEFINE g == Append(h, b)
           n == Len(h)
           s == SubSeq(h, m, n)
           t == SubSeq(g, m, n + 1)
           u == Append(s, b)
<1>1. g \in Seq(Bits) /\ Len(g) = n + 1 /\ (\A i \in 1 .. n : g[i] = h[i]) /\ g[n + 1] = b
  BY AppendProperties
<1>2. n \in Nat /\ \A i \in 1 .. n : h[i] \in Bits
  BY LenProperties, ElementOfSeq
<1> HIDE DEF g, n
<1>3. s \in Seq(Bits) /\ Len(s) = n + 1 - m /\ \A i \in 1 .. n - m + 1 : s[i] = h[m + i - 1]
  <2>1. \A i \in m .. n : h[i] \in Bits
    BY <1>2
  <2>2. n + 1 - m = IF m <= n THEN n - m + 1 ELSE 0
    BY <1>2 DEF n
  <2> QED BY <1>2, <2>1, <2>2, SubSeqProperties
<1>4. t \in Seq(Bits) /\ Len(t) = n + 2 - m /\ \A i \in 1 .. n - m + 2 : t[i] = g[m + i - 1]
  <2>1. \A i \in m .. n + 1 : g[i] \in Bits
    BY <1>1, <1>2
  <2>2. n + 1 \in Int /\ m <= n + 1 /\ (n + 1) - m + 1 = n - m + 2
    BY <1>2 DEF n
  <2>3. /\ SubSeq(g, m, n + 1) \in Seq(Bits)
        /\ Len(SubSeq(g, m, n + 1)) = IF m <= n + 1 THEN (n + 1) - m + 1 ELSE 0
        /\ \A i \in 1 .. (n + 1) - m + 1 : SubSeq(g, m, n + 1)[i] = g[m + i - 1]
    BY <2>1, <2>2, SubSeqProperties
  <2> QED BY <1>2, <2>2, <2>3
<1> HIDE DEF s, t
<1>5. u \in Seq(Bits) /\ Len(u) = n + 2 - m /\ (\A i \in 1 .. n + 1 - m : u[i] = s[i]) /\ u[n + 2 - m] = b
  <2>1. u \in Seq(Bits) /\ Len(u) = Len(s) + 1 /\ (\A i \in 1 .. Len(s) : u[i] = s[i]) /\ u[Len(s) + 1] = b
    BY <1>3, AppendProperties
  <2>2. Len(s) + 1 = n + 2 - m
    BY <1>2, <1>3
  <2> QED BY <1>3, <2>1, <2>2
<1> HIDE DEF u
<1>6. \A i \in 1 .. Len(t) : t[i] = u[i]
  <2> SUFFICES ASSUME NEW i \in 1 .. Len(t) PROVE t[i] = u[i]
    OBVIOUS
  <2>1. i \in 1 .. n + 2 - m /\ t[i] = g[m + i - 1]
    BY <1>2, <1>4
  <2>2. CASE i = n + 2 - m
    <3>1. m + i - 1 = n + 1
      BY <1>2, <2>2
    <3> QED BY <1>1, <1>5, <2>1, <2>2, <3>1
  <2>3. CASE i # n + 2 - m
    <3>1. i \in 1 .. n + 1 - m /\ m + i - 1 \in 1 .. n /\ i \in 1 .. n - m + 1
      BY <1>2, <2>1, <2>3
    <3> QED BY <1>1, <1>3, <1>5, <2>1, <3>1
  <2> QED BY <2>2, <2>3
<1>7. t = u
  BY <1>4, <1>5, <1>6, SeqEqual
<1> QED BY <1>3, <1>7 DEF g, n, s, t, u

LEMMA Parsed ==
  ASSUME NEW s \in Seq(Bits), Len(s) = InstructionBits
  PROVE  /\ ParseCommand(s) \in {"WRITE", "READ", "ERASE", "EWDS", "WRAL", "ERAL", "EWEN"}
         /\ AddressOf(s) \in CellNames
<1>1. \A i \in 1 .. InstructionBits : s[i] \in Bits
  BY ElementOfSeq
<1>2. s[1] \in Bits /\ s[2] \in Bits
  BY <1>1, ChipSizes
<1>3. \A k \in 1 .. AddressSpaceBits : InstructionBits - AddressSpaceBits + k \in 1 .. InstructionBits
  BY ChipSizes
<1>4. AddressOf(s) \in CellNames
  BY <1>1, <1>3 DEF AddressOf, CellNames, Bits
<1>5. ParseCommand(s) \in {"WRITE", "READ", "ERASE", "EWDS", "WRAL", "ERAL", "EWEN"}
  BY <1>2 DEF ParseCommand, Bits
<1> QED BY <1>4, <1>5

(* A chip c that has heard h is where h has brought it. *)
Follows(c, h) ==
  /\ c.state = "Idle" => h = <<>> /\ c.instruction = <<>> /\ c.input = <<>> /\ c.output = <<>>
  /\ c.state = "Instruction" => h # <<>> /\ Extra(h) < 0 /\ c.instruction = SubSeq(h, 2, Len(h)) /\ c.input = <<>>
  /\ c.state \notin {"Idle", "Instruction"} => Extra(h) >= 0 /\ c.instruction = HeardInstruction(h)
  /\ c.state = "Input" =>
       /\ ParseCommand(c.instruction) \in {"WRITE", "WRAL"}
       /\ Extra(h) < DataBits /\ c.input = SubSeq(h, InstructionBits + 2, Len(h))
  /\ c.state = "Output" =>
       /\ ParseCommand(c.instruction) = "READ"
       /\ Extra(h) < DataBits
       /\ c.output = SubSeq(c.data[AddressOf(c.instruction)], Extra(h) + 1, DataBits)
  /\ c.state = "PendingWrite" =>
       \/ ParseCommand(c.instruction) \in {"ERASE", "ERAL"}
       \/ /\ ParseCommand(c.instruction) \in {"WRITE", "WRAL"}
          /\ Extra(h) >= DataBits /\ c.input = HeardParameter(h)
  /\ c.state = "Done" =>
       \/ ParseCommand(c.instruction) \in {"EWDS", "EWEN"}
       \/ ParseCommand(c.instruction) = "READ" /\ Extra(h) >= DataBits

MaxHeard == InstructionBits + DataBits + 1

(* What is heard with one more bit. *)
HeardMore(h, select, b) ==
  IF (h # <<>> \/ (select /\ b = 1)) /\ Len(h) <= InstructionBits + DataBits THEN Append(h, b) ELSE h

(* What a rising clock does to the chip is what it heard.                  *)
Heeds(c, h, c1, h1) ==
  /\ c1 \in Chips /\ Follows(c1, h1)
  /\ c1.clk = c.clk /\ c1.cs = c.cs /\ c1.unlocked = c.unlocked
  /\ c1.data = c.data
  /\ c1.erase_write_enabled =
       IF Extra(h1) = 0 /\ h1 # h /\ Asks(h1, {"EWEN", "EWDS"}) THEN Asks(h1, {"EWEN"}) ELSE c.erase_write_enabled
  /\ Asks(h1, {"READ"}) /\ Extra(h1) \in 1 .. DataBits /\ h1 # h =>
       c1.data_out = c.data[AddressOf(HeardInstruction(h1))][Extra(h1)] /\ c1.state # "PendingWrite"

LEMMA Appended ==
  ASSUME NEW h \in Seq(Bits), NEW b \in Bits
  PROVE  /\ Append(h, b) \in Seq(Bits) /\ Append(h, b) # <<>> /\ Append(h, b) # h
         /\ Len(Append(h, b)) = Len(h) + 1 /\ Len(h) \in Nat
         /\ Extra(Append(h, b)) = Extra(h) + 1 /\ Extra(h) \in Int
<1>1. Len(h) \in Nat /\ Len(Append(h, b)) = Len(h) + 1 /\ Append(h, b) \in Seq(Bits) /\ Append(h, b) # <<>>
  BY LenProperties, AppendProperties
<1>2. Append(h, b) # h
  BY <1>1
<1>3. Extra(Append(h, b)) = Extra(h) + 1 /\ Extra(h) \in Int
  BY <1>1, ChipSizes DEF Extra
<1> QED BY <1>1, <1>2, <1>3

LEMMA HeardMoreTyped ==
  ASSUME NEW h \in Seq(Bits), Len(h) <= MaxHeard, NEW select \in BOOLEAN, NEW b \in Bits
  PROVE  /\ HeardMore(h, select, b) \in Seq(Bits) /\ Len(HeardMore(h, select, b)) <= MaxHeard
         /\ Len(h) \in Nat
<1>1. Len(h) \in Nat
  BY LenProperties
<1> QED BY <1>1, Appended, ChipSizes DEF HeardMore, MaxHeard

(* The fields of a chip, and the sequences among them. *)
LEMMA ChipFields ==
  ASSUME NEW c \in Chips
  PROVE  /\ c.data_out \in Bits /\ c.erase_write_enabled \in BOOLEAN /\ c.state \in EepromStates
         /\ c.instruction \in Seq(Bits) /\ Len(c.instruction) <= InstructionBits
         /\ c.input \in Seq(Bits) /\ Len(c.input) <= DataBits
         /\ c.output \in Seq(Bits) /\ Len(c.output) <= DataBits
         /\ c.data \in [CellNames -> Word]
BY StringsAreSequences, ChipSizes DEF Chips, Bits

LEMMA EmptyString == <<>> \in Strings(InstructionBits) /\ <<>> \in Strings(DataBits)
<1>1. <<>> \in Seq(Bits) /\ Len(<<>>) = 0
  BY EmptySeq
<1>2. \A n \in Nat : <<>> \in Seq(Bits) /\ Len(<<>>) <= n
  BY <1>1
<1>3. \A n \in Nat : <<>> \in Strings(n)
  BY <1>2, StringsAreSequences
<1> QED BY <1>3, ChipSizes

LEMMA WordsAreStrings ==
  ASSUME NEW w \in Word
  PROVE  w \in Seq(Bits) /\ Len(w) = DataBits /\ w \in Strings(DataBits)
<1>1. w \in [1 .. DataBits -> Bits] /\ DataBits \in Nat
  BY ChipSizes DEF Word, Bits
<1>2. w \in Seq(Bits)
  BY <1>1, SeqDef
<1>3. Len(w) = DataBits
  BY <1>1, <1>2, LenProperties
<1> QED BY <1>1, <1>2, <1>3, StringsAreSequences

LEMMA StartHeeds ==
  ASSUME NEW c \in Chips, Follows(c, <<>>), c.state = "Idle"
  PROVE  Heeds(c, <<>>, Started(c), Append(<<>>, 1))
<1> DEFINE h1 == Append(<<>>, 1)
           c1 == Started(c)
<1>1. h1 \in Seq(Bits) /\ h1 # <<>> /\ Len(h1) = 1 /\ Extra(h1) = 0 - InstructionBits
  <2>1. <<>> \in Seq(Bits) /\ Len(<<>>) = 0
    BY EmptySeq
  <2>2. h1 \in Seq(Bits) /\ h1 # <<>> /\ Len(h1) = 1
    BY <2>1, AppendProperties DEF Bits
  <2> QED BY <2>2, ChipSizes DEF Extra
<1>2. c1 = [c EXCEPT !.state = "Instruction", !.instruction = <<>>]
  BY DEF Started
<1>3. c1 \in Chips
  BY <1>2, EmptyString DEF Chips, EepromStates
<1>4. /\ c1.state = "Instruction" /\ c1.instruction = <<>> /\ c1.input = c.input /\ c1.data = c.data
      /\ c1.clk = c.clk /\ c1.cs = c.cs /\ c1.unlocked = c.unlocked /\ c1.erase_write_enabled = c.erase_write_enabled
  BY <1>2 DEF Chips
<1>5. SubSeq(h1, 2, Len(h1)) = <<>>
  BY <1>1, SubSeqEmpty
<1>6. Extra(h1) < 0
  BY <1>1, ChipSizes
<1> HIDE DEF h1, c1
<1>7. Follows(c1, h1)
  BY <1>1, <1>4, <1>5, <1>6 DEF Follows
<1>8. ~(Extra(h1) = 0) /\ ~Asks(h1, {"READ"})
  BY <1>1, <1>6, ChipSizes DEF Asks
<1> QED BY <1>3, <1>4, <1>7, <1>8 DEF Heeds, h1, c1

LEMMA InstructionHeeds ==
  ASSUME NEW c \in Chips, NEW h \in Seq(Bits), NEW b \in Bits, Follows(c, h), c.state = "Instruction"
  PROVE  /\ h # <<>> /\ Len(h) <= InstructionBits + DataBits
         /\ Heeds(c, h, ShiftedInstruction(c, b), Append(h, b))
<1> DEFINE h1 == Append(h, b)
           i1 == Append(c.instruction, b)
           s1 == [c EXCEPT !.instruction = i1]
           c1 == ShiftedInstruction(c, b)
<1>1. h # <<>> /\ Extra(h) < 0 /\ c.instruction = SubSeq(h, 2, Len(h)) /\ c.input = <<>>
  BY DEF Follows
<1>2. h1 \in Seq(Bits) /\ h1 # <<>> /\ h1 # h /\ Len(h1) = Len(h) + 1 /\ Len(h) \in Nat /\ Len(h) >= 1
      /\ Extra(h1) = Extra(h) + 1 /\ Extra(h) \in Int
  BY <1>1, Appended, EmptySeq
<1>3. Len(h) <= InstructionBits
  <2>1. Extra(h) = Len(h) - InstructionBits - 1
    BY DEF Extra
  <2> HIDE DEF h1
  <2> QED BY <1>1, <1>2, <2>1, ChipSizes
<1>4. SubSeq(h1, 2, Len(h1)) = i1 /\ Len(c.instruction) = Len(h) - 1
  <2>1. 2 \in Nat \ {0} /\ 2 <= Len(h) + 1
    BY <1>2
  <2>2. /\ SubSeq(Append(h, b), 2, Len(h) + 1) = Append(SubSeq(h, 2, Len(h)), b)
        /\ Len(SubSeq(h, 2, Len(h))) = Len(h) + 1 - 2
    BY <2>1, HeardFrom
  <2> QED BY <1>1, <1>2, <2>2
<1>5. i1 \in Seq(Bits) /\ Len(i1) = Len(h)
  BY <1>1, <1>2, <1>4, ChipFields, AppendProperties
<1>6. i1 \in Strings(InstructionBits) /\ s1 \in Chips
  <2>1. i1 \in Strings(InstructionBits)
    BY <1>3, <1>5, StringsAreSequences, ChipSizes
  <2> HIDE DEF i1
  <2> QED BY <2>1 DEF Chips
<1>7. /\ s1.instruction = i1 /\ s1.state = "Instruction" /\ s1.input = <<>> /\ s1.data = c.data
      /\ s1.clk = c.clk /\ s1.cs = c.cs /\ s1.unlocked = c.unlocked /\ s1.erase_write_enabled = c.erase_write_enabled
      /\ s1.data_out = c.data_out
  BY <1>1 DEF Chips
<1>8. c1 = IF Len(i1) = InstructionBits THEN Handled(s1) ELSE s1
  BY <1>7 DEF ShiftedInstruction
<1> HIDE DEF h1, i1, s1, c1
<1>9. CASE Len(h) # InstructionBits
  <2>1. c1 = s1 /\ Extra(h1) < 0
    <3>1. Extra(h) = Len(h) - InstructionBits - 1
      BY DEF Extra
    <3>2. Len(i1) # InstructionBits
      BY <1>5, <1>9
    <3>3. Extra(h) + 1 < 0
      BY <1>2, <1>3, <1>9, <3>1, ChipSizes
    <3> QED BY <1>2, <1>8, <3>2, <3>3
  <2>2. Follows(c1, h1)
    BY <1>2, <1>4, <1>7, <2>1 DEF Follows
  <2>3. ~(Extra(h1) = 0) /\ ~Asks(h1, {"READ"})
    BY <2>1, <1>2 DEF Asks
  <2>4. Heeds(c, h, c1, h1)
    BY <1>6, <1>7, <2>1, <2>2, <2>3 DEF Heeds
  <2> QED BY <1>1, <1>3, <2>4, <1>2, ChipSizes DEF h1, c1
<1>10. CASE Len(h) = InstructionBits
  <2>1. c1 = Handled(s1) /\ Extra(h1) = 0 /\ HeardInstruction(h1) = i1 /\ Len(h1) = InstructionBits + 1
    BY <1>2, <1>4, <1>5, <1>8, <1>10, ChipSizes DEF Extra, HeardInstruction
  <2> DEFINE asked == ParseCommand(i1)
  <2>2. /\ asked \in {"WRITE", "READ", "ERASE", "EWDS", "WRAL", "ERAL", "EWEN"}
        /\ AddressOf(i1) \in CellNames
    BY <1>5, <1>10, Parsed
  <2>3. c1 = CASE asked = "EWDS" -> [s1 EXCEPT !.state = "Done", !.erase_write_enabled = FALSE]
               [] asked = "EWEN" -> [s1 EXCEPT !.state = "Done", !.erase_write_enabled = TRUE]
               [] asked = "READ" -> [s1 EXCEPT !.state = "Output", !.output = s1.data[AddressOf(i1)]]
               [] asked \in {"WRITE", "WRAL"} -> [s1 EXCEPT !.state = "Input", !.input = <<>>]
               [] OTHER -> [s1 EXCEPT !.state = "PendingWrite"]
    BY <1>7, <2>1 DEF Handled
  <2>4. Asks(h1, {"EWEN", "EWDS"}) <=> asked \in {"EWEN", "EWDS"}
    BY <2>1 DEF Asks
  <2>5. Asks(h1, {"EWEN"}) <=> asked = "EWEN"
    BY <2>1 DEF Asks
  <2>6. ~(Extra(h1) \in 1 .. DataBits)
    BY <2>1, ChipSizes
  <2> HIDE DEF asked
  <2>7. ASSUME c1 \in Chips, Follows(c1, h1), c1.clk = c.clk, c1.cs = c.cs, c1.unlocked = c.unlocked, c1.data = c.data,
               c1.erase_write_enabled = IF asked \in {"EWEN", "EWDS"} THEN asked = "EWEN" ELSE c.erase_write_enabled
        PROVE  Heeds(c, h, c1, h1)
    BY <1>2, <2>1, <2>4, <2>5, <2>6, <2>7 DEF Heeds, Asks
  <2>8. ASSUME asked \in {"EWDS", "EWEN"} PROVE Heeds(c, h, c1, h1)
    <3> DEFINE e == asked = "EWEN"
    <3>1. c1 = [s1 EXCEPT !.state = "Done", !.erase_write_enabled = e] /\ e \in BOOLEAN
      BY <2>3, <2>8
    <3>2. c1 \in Chips
      <4> HIDE DEF e
      <4> QED BY <1>6, <3>1 DEF Chips, EepromStates
    <3>3. c1.state = "Done" /\ c1.instruction = i1 /\ c1.data = c.data /\ c1.clk = c.clk /\ c1.cs = c.cs /\ c1.unlocked = c.unlocked
          /\ c1.erase_write_enabled = e
      <4> HIDE DEF e
      <4> QED BY <1>6, <1>7, <3>1 DEF Chips
    <3>4. Follows(c1, h1)
      BY <2>1, <2>8, <3>3 DEF Follows, asked
    <3>5. c1.erase_write_enabled = IF asked \in {"EWEN", "EWDS"} THEN asked = "EWEN" ELSE c.erase_write_enabled
      BY <2>8, <3>3
    <3> HIDE DEF e
    <3> QED BY <2>7, <3>2, <3>3, <3>4, <3>5
  <2>9. ASSUME asked = "READ" PROVE Heeds(c, h, c1, h1)
    <3> DEFINE w == s1.data[AddressOf(i1)]
    <3>1. c1 = [s1 EXCEPT !.state = "Output", !.output = w]
      BY <2>3, <2>9
    <3>2. w \in Word /\ w = c.data[AddressOf(i1)]
      BY <1>7, <2>2, ChipFields
    <3>3. w \in Seq(Bits) /\ Len(w) = DataBits /\ w \in Strings(DataBits) /\ w = SubSeq(w, 1, DataBits)
      BY <3>2, WordsAreStrings, SubSeqFull
    <3> HIDE DEF w
    <3>4. c1 \in Chips
      BY <1>6, <3>1, <3>3 DEF Chips, EepromStates
    <3>5. c1.state = "Output" /\ c1.instruction = i1 /\ c1.data = c.data /\ c1.clk = c.clk /\ c1.cs = c.cs /\ c1.unlocked = c.unlocked
          /\ c1.erase_write_enabled = c.erase_write_enabled /\ c1.output = w
      BY <1>6, <1>7, <3>1 DEF Chips
    <3>6. 0 + 1 = 1 /\ 0 < DataBits
      BY ChipSizes
    <3>7. Follows(c1, h1)
      BY <2>1, <2>9, <3>2, <3>3, <3>5, <3>6 DEF Follows, asked
    <3>8. c1.erase_write_enabled = IF asked \in {"EWEN", "EWDS"} THEN asked = "EWEN" ELSE c.erase_write_enabled
      BY <2>9, <3>5
    <3> QED BY <2>7, <3>4, <3>5, <3>7, <3>8
  <2>10. ASSUME asked \in {"WRITE", "WRAL"} PROVE Heeds(c, h, c1, h1)
    <3>1. c1 = [s1 EXCEPT !.state = "Input", !.input = <<>>]
      BY <2>3, <2>10
    <3>2. c1 \in Chips
      BY <1>6, <3>1, EmptyString DEF Chips, EepromStates
    <3>3. c1.state = "Input" /\ c1.instruction = i1 /\ c1.data = c.data /\ c1.clk = c.clk /\ c1.cs = c.cs /\ c1.unlocked = c.unlocked
          /\ c1.erase_write_enabled = c.erase_write_enabled /\ c1.input = <<>>
      BY <1>6, <1>7, <3>1 DEF Chips
    <3>4. SubSeq(h1, InstructionBits + 2, Len(h1)) = <<>> /\ 0 < DataBits
      BY <2>1, SubSeqEmpty, ChipSizes
    <3>5. Follows(c1, h1)
      <4>1. asked \notin {"ERASE", "ERAL", "READ"} /\ ParseCommand(c1.instruction) = asked /\ Extra(h1) < DataBits
        BY <2>1, <2>10, <3>3, <3>4 DEF asked
      <4>2. ParseCommand(c1.instruction) \in {"WRITE", "WRAL"}
        BY <2>10, <4>1
      <4>3. c1.input = SubSeq(h1, InstructionBits + 2, Len(h1))
        BY <3>3, <3>4
      <4>4. Extra(h1) >= 0 /\ c1.instruction = HeardInstruction(h1)
        BY <2>1, <3>3
      <4> QED BY ONLY <3>3, <4>1, <4>2, <4>3, <4>4 DEF Follows
    <3>6. c1.erase_write_enabled = IF asked \in {"EWEN", "EWDS"} THEN asked = "EWEN" ELSE c.erase_write_enabled
      BY <2>10, <3>3
    <3> QED BY <2>7, <3>2, <3>3, <3>5, <3>6
  <2>11. ASSUME asked \in {"ERASE", "ERAL"} PROVE Heeds(c, h, c1, h1)
    <3>1. c1 = [s1 EXCEPT !.state = "PendingWrite"]
      BY <2>3, <2>11
    <3>2. c1 \in Chips
      BY <1>6, <3>1 DEF Chips, EepromStates
    <3>3. c1.state = "PendingWrite" /\ c1.instruction = i1 /\ c1.data = c.data /\ c1.clk = c.clk /\ c1.cs = c.cs /\ c1.unlocked = c.unlocked
          /\ c1.erase_write_enabled = c.erase_write_enabled
      BY <1>6, <1>7, <3>1 DEF Chips
    <3>4. Follows(c1, h1)
      <4>1. ParseCommand(c1.instruction) = asked
        BY <3>3 DEF asked
      <4> QED BY <2>1, <2>11, <3>3, <4>1 DEF Follows
    <3>5. c1.erase_write_enabled = IF asked \in {"EWEN", "EWDS"} THEN asked = "EWEN" ELSE c.erase_write_enabled
      BY <2>11, <3>3
    <3> QED BY <2>7, <3>2, <3>3, <3>4, <3>5
  <2>12. Heeds(c, h, c1, h1)
    BY <2>2, <2>8, <2>9, <2>10, <2>11
  <2> QED BY <1>1, <1>3, <2>12, <1>2, ChipSizes DEF h1, c1
<1> QED BY <1>9, <1>10

(* Once the instruction is whole, another bit leaves it as it was heard.   *)
LEMMA AfterInstruction ==
  ASSUME NEW c \in Chips, NEW h \in Seq(Bits), NEW b \in Bits, Follows(c, h), c.state \notin {"Idle", "Instruction"}
  PROVE  LET h1 == Append(h, b) IN
         /\ h # <<>> /\ h1 # h /\ h1 \in Seq(Bits) /\ Len(h) \in Nat
         /\ Extra(h) \in Nat /\ Extra(h1) = Extra(h) + 1 /\ Extra(h) = Len(h) - InstructionBits - 1
         /\ HeardInstruction(h1) = c.instruction
         /\ c.instruction \in Seq(Bits) /\ Len(c.instruction) = InstructionBits
         /\ \A commands : Asks(h1, commands) <=> ParseCommand(c.instruction) \in commands
<1> DEFINE h1 == Append(h, b)
<1>1. Extra(h) >= 0 /\ c.instruction = HeardInstruction(h)
  BY DEF Follows
<1>2. h1 # h /\ h1 \in Seq(Bits) /\ Len(h) \in Nat /\ Extra(h1) = Extra(h) + 1 /\ Extra(h) \in Int
  BY Appended
<1>3. Extra(h) = Len(h) - InstructionBits - 1
  BY DEF Extra
<1>4. InstructionBits + 1 <= Len(h) /\ InstructionBits + 1 \in Nat /\ 2 \in Nat \ {0}
  BY <1>1, <1>2, <1>3, ChipSizes
<1>5. h # <<>>
  BY <1>2, <1>4, EmptySeq, ChipSizes
<1>6. SubSeq(h1, 2, InstructionBits + 1) = SubSeq(h, 2, InstructionBits + 1)
  BY <1>4, HeardBefore
<1>7. HeardInstruction(h1) = c.instruction
  BY <1>1, <1>6 DEF HeardInstruction
<1>8. c.instruction \in Seq(Bits) /\ Len(c.instruction) = InstructionBits
  <2>1. \A i \in 2 .. InstructionBits + 1 : h[i] \in Bits
    BY <1>2, <1>4, ElementOfSeq, ChipSizes
  <2>2. InstructionBits + 1 \in Int /\ 2 \in Int /\ 2 <= InstructionBits + 1 /\ (InstructionBits + 1) - 2 + 1 = InstructionBits
    BY ChipSizes
  <2>3. /\ SubSeq(h, 2, InstructionBits + 1) \in Seq(Bits)
        /\ Len(SubSeq(h, 2, InstructionBits + 1)) = IF 2 <= InstructionBits + 1 THEN (InstructionBits + 1) - 2 + 1 ELSE 0
    BY <2>1, <2>2, SubSeqProperties
  <2> QED BY <1>1, <2>2, <2>3 DEF HeardInstruction
<1>9. ASSUME NEW commands PROVE Asks(h1, commands) <=> ParseCommand(c.instruction) \in commands
  BY <1>1, <1>2, <1>7 DEF Asks
<1> HIDE DEF h1
<1> QED BY <1>1, <1>2, <1>3, <1>5, <1>7, <1>8, <1>9 DEF h1

LEMMA InputHeeds ==
  ASSUME NEW c \in Chips, NEW h \in Seq(Bits), NEW b \in Bits, Follows(c, h), c.state = "Input"
  PROVE  /\ h # <<>> /\ Len(h) <= InstructionBits + DataBits
         /\ Heeds(c, h, ShiftedInput(c, b), Append(h, b))
<1> DEFINE h1 == Append(h, b)
           i1 == Append(c.input, b)
           e1 == IF Len(c.input) + 1 = DataBits THEN "PendingWrite" ELSE "Input"
           c1 == ShiftedInput(c, b)
<1>1. /\ h # <<>> /\ h1 # h /\ h1 \in Seq(Bits) /\ Len(h) \in Nat
      /\ Extra(h) \in Nat /\ Extra(h1) = Extra(h) + 1 /\ Extra(h) = Len(h) - InstructionBits - 1
      /\ HeardInstruction(h1) = c.instruction
      /\ \A commands : Asks(h1, commands) <=> ParseCommand(c.instruction) \in commands
  BY AfterInstruction
<1>2. /\ ParseCommand(c.instruction) \in {"WRITE", "WRAL"}
      /\ Extra(h) < DataBits /\ c.input = SubSeq(h, InstructionBits + 2, Len(h))
  BY DEF Follows
<1>3. Len(h1) = Len(h) + 1
  BY Appended
<1> HIDE DEF h1
<1>4. /\ SubSeq(h1, InstructionBits + 2, Len(h1)) = i1 /\ Len(c.input) = Extra(h)
  <2> DEFINE m == InstructionBits + 2
  <2>1. m \in Nat \ {0} /\ m <= Len(h) + 1 /\ Len(h) + 1 - m = Extra(h)
    BY <1>1, ChipSizes
  <2> HIDE DEF m
  <2>2. /\ SubSeq(Append(h, b), m, Len(h) + 1) = Append(SubSeq(h, m, Len(h)), b)
        /\ Len(SubSeq(h, m, Len(h))) = Len(h) + 1 - m
    BY <2>1, HeardFrom
  <2> QED BY <1>2, <1>3, <2>1, <2>2 DEF m, h1
<1>5. i1 \in Seq(Bits) /\ Len(i1) = Extra(h) + 1
  BY <1>4, ChipFields, AppendProperties
<1>6. i1 \in Strings(DataBits) /\ e1 \in EepromStates
  <2>1. Len(i1) <= DataBits
    <3> HIDE DEF i1
    <3> QED BY <1>1, <1>2, <1>5, ChipSizes
  <2>2. e1 \in EepromStates
    BY DEF EepromStates
  <2> HIDE DEF i1, e1
  <2> QED BY <1>5, <2>1, <2>2, StringsAreSequences, ChipSizes
<1>7. c1 = [c EXCEPT !.input = i1, !.state = e1]
  BY DEF ShiftedInput, Chips
<1>8. e1 = IF Extra(h) + 1 = DataBits THEN "PendingWrite" ELSE "Input"
  BY <1>4
<1> HIDE DEF i1, e1, c1
<1>9. c1 \in Chips
  BY <1>6, <1>7 DEF Chips
<1>10. /\ c1.input = i1 /\ c1.state = e1 /\ c1.instruction = c.instruction /\ c1.data = c.data
       /\ c1.clk = c.clk /\ c1.cs = c.cs /\ c1.unlocked = c.unlocked /\ c1.erase_write_enabled = c.erase_write_enabled
  BY <1>7 DEF Chips
<1>11. Extra(h1) >= 0 /\ c1.instruction = HeardInstruction(h1) /\ ParseCommand(c1.instruction) \in {"WRITE", "WRAL"}
  BY <1>1, <1>2, <1>10
<1>12. Follows(c1, h1)
  <2>1. CASE Extra(h) + 1 = DataBits
    <3>1. c1.state = "PendingWrite" /\ Extra(h1) >= DataBits
      BY <1>1, <1>8, <1>10, <2>1, ChipSizes
    <3>2. Len(h1) = InstructionBits + 1 + DataBits
      BY <1>1, <1>3, <2>1, ChipSizes
    <3>3. c1.input = HeardParameter(h1)
      BY <1>4, <1>10, <3>2 DEF HeardParameter
    <3> QED BY <1>11, <3>1, <3>3 DEF Follows
  <2>2. CASE Extra(h) + 1 # DataBits
    <3>1. c1.state = "Input"
      BY <1>8, <1>10, <2>2
    <3>3. Extra(h1) < DataBits
      BY <1>1, <1>2, <2>2, ChipSizes
    <3>2. c1.input = SubSeq(h1, InstructionBits + 2, Len(h1))
      BY <1>4, <1>10
    <3> QED BY <1>11, <3>1, <3>2, <3>3 DEF Follows
  <2> QED BY <2>1, <2>2
<1>13. ~(Extra(h1) = 0) /\ ~Asks(h1, {"READ"})
  BY <1>1, <1>2
<1>14. Heeds(c, h, c1, h1)
  BY <1>9, <1>10, <1>12, <1>13 DEF Heeds
<1>15. Len(h) <= InstructionBits + DataBits
  BY <1>1, <1>2, ChipSizes
<1> QED BY <1>1, <1>14, <1>15 DEF h1, c1

LEMMA OutputHeeds ==
  ASSUME NEW c \in Chips, NEW h \in Seq(Bits), NEW b \in Bits, Follows(c, h), c.state = "Output"
  PROVE  /\ h # <<>> /\ Len(h) <= InstructionBits + DataBits
         /\ Heeds(c, h, ShiftedOutput(c), Append(h, b))
<1> DEFINE h1 == Append(h, b)
           w == c.data[AddressOf(c.instruction)]
           n == Extra(h)
           o1 == Tail(c.output)
           d1 == Head(c.output)
           e1 == IF Len(c.output) = 1 THEN "Done" ELSE "Output"
           c1 == ShiftedOutput(c)
<1>1. /\ h # <<>> /\ h1 # h /\ h1 \in Seq(Bits) /\ Len(h) \in Nat
      /\ n \in Nat /\ Extra(h1) = n + 1 /\ n = Len(h) - InstructionBits - 1
      /\ HeardInstruction(h1) = c.instruction
      /\ c.instruction \in Seq(Bits) /\ Len(c.instruction) = InstructionBits
      /\ \A commands : Asks(h1, commands) <=> ParseCommand(c.instruction) \in commands
  BY AfterInstruction
<1>2. ParseCommand(c.instruction) = "READ" /\ n < DataBits /\ c.output = SubSeq(w, n + 1, DataBits)
  BY DEF Follows
<1>3. w \in Seq(Bits) /\ Len(w) = DataBits
  BY <1>1, Parsed, ChipFields, WordsAreStrings
<1>4. c1 = [c EXCEPT !.data_out = d1, !.output = o1, !.state = e1]
  BY DEF ShiftedOutput, Chips
<1> HIDE DEF h1, w, n, c1
<1>5. n + 1 \in 1 .. DataBits /\ DataBits \in (n + 1) .. DataBits
  BY <1>1, <1>2, ChipSizes
<1>6. /\ d1 = w[n + 1] /\ o1 = SubSeq(w, n + 2, DataBits)
  <2> DEFINE m == n + 1
  <2>1. m \in 1 .. Len(w) /\ DataBits \in m .. Len(w) /\ m + 1 = n + 2
    BY <1>1, <1>3, <1>5
  <2> HIDE DEF m
  <2>2. Head(SubSeq(w, m, DataBits)) = w[m] /\ Tail(SubSeq(w, m, DataBits)) = SubSeq(w, m + 1, DataBits)
    BY <1>3, <2>1, HeadTailOfSubSeq
  <2> QED BY <1>2, <2>1, <2>2 DEF m
<1>7. Len(c.output) = DataBits - n
  <2>1. \A i \in n + 1 .. DataBits : w[i] \in Bits
    BY <1>1, <1>3, ElementOfSeq, ChipSizes
  <2>2. n + 1 \in Int /\ DataBits \in Int /\ DataBits - (n + 1) + 1 = DataBits - n /\ n + 1 <= DataBits
    BY <1>1, <1>5, ChipSizes
  <2>3. Len(SubSeq(w, n + 1, DataBits)) = IF n + 1 <= DataBits THEN DataBits - (n + 1) + 1 ELSE 0
    BY <2>1, <2>2, SubSeqProperties
  <2> QED BY <1>2, <2>2, <2>3
<1>8. d1 \in Bits /\ o1 \in Strings(DataBits) /\ e1 \in EepromStates
  <2>0. c.output \in Seq(Bits) /\ Len(c.output) <= DataBits
    BY ChipFields
  <2>3. Len(c.output) # 0
    BY <1>1, <1>2, <1>7, ChipSizes
  <2>1. c.output # <<>>
    BY <2>3, EmptySeq
  <2>2. d1 \in Bits /\ o1 \in Seq(Bits) /\ Len(o1) = Len(c.output) - 1
    BY <2>0, <2>1, HeadTailProperties
  <2>4. Len(o1) <= DataBits
    <3>1. Len(c.output) \in Int
      BY <1>1, <1>7, ChipSizes
    <3> HIDE DEF o1
    <3> QED BY <2>0, <2>2, <3>1, ChipSizes
  <2>5. e1 \in EepromStates
    BY DEF EepromStates
  <2> HIDE DEF o1, d1, e1
  <2> QED BY <2>2, <2>4, <2>5, StringsAreSequences, ChipSizes
<1>9. e1 = IF n + 1 = DataBits THEN "Done" ELSE "Output"
  BY SMTT(30), <1>1, <1>7, ChipSizes
<1> HIDE DEF o1, d1, e1
<1>10. c1 \in Chips
  BY <1>4, <1>8 DEF Chips, Bits
<1>11. /\ c1.output = o1 /\ c1.state = e1 /\ c1.data_out = d1 /\ c1.instruction = c.instruction /\ c1.data = c.data
       /\ c1.clk = c.clk /\ c1.cs = c.cs /\ c1.unlocked = c.unlocked /\ c1.erase_write_enabled = c.erase_write_enabled
  BY <1>4 DEF Chips
<1>12. Extra(h1) >= 0 /\ c1.instruction = HeardInstruction(h1) /\ ParseCommand(c1.instruction) = "READ"
  BY <1>1, <1>2, <1>11
<1>13. Follows(c1, h1)
  <2>1. CASE n + 1 = DataBits
    <3>1. c1.state = "Done" /\ Extra(h1) >= DataBits
      BY <1>1, <1>9, <1>11, <2>1, ChipSizes
    <3> QED BY <1>12, <3>1 DEF Follows
  <2>2. CASE n + 1 # DataBits
    <3>0. c1.state = "Output"
      BY <1>9, <1>11, <2>2
    <3>1. Extra(h1) < DataBits /\ Extra(h1) + 1 = n + 2
      BY <1>1, <1>2, <2>2, ChipSizes
    <3>2. c1.output = SubSeq(c1.data[AddressOf(c1.instruction)], Extra(h1) + 1, DataBits)
      BY <1>6, <1>11, <3>1 DEF w
    <3> QED BY <1>12, <3>0, <3>1, <3>2 DEF Follows
  <2> QED BY <2>1, <2>2
<1>14. /\ ~(Extra(h1) = 0)
       /\ c1.data_out = c.data[AddressOf(HeardInstruction(h1))][Extra(h1)] /\ c1.state # "PendingWrite"
  BY <1>1, <1>6, <1>9, <1>11 DEF w
<1>15. Heeds(c, h, c1, h1)
  BY <1>10, <1>11, <1>13, <1>14 DEF Heeds
<1>16. Len(h) <= InstructionBits + DataBits
  BY <1>1, <1>2, ChipSizes
<1> QED BY <1>1, <1>15, <1>16 DEF h1, c1

LEMMA WaitHeeds ==
  ASSUME NEW c \in Chips, NEW h \in Seq(Bits), NEW b \in Bits, NEW select \in BOOLEAN, Follows(c, h),
         c.state \in {"PendingWrite", "Done"}
  PROVE  Heeds(c, h, c, HeardMore(h, select, b))
<1> DEFINE h1 == Append(h, b)
<1>1. /\ h # <<>> /\ h1 # h /\ h1 \in Seq(Bits) /\ Len(h) \in Nat
      /\ Extra(h) \in Nat /\ Extra(h1) = Extra(h) + 1 /\ Extra(h) = Len(h) - InstructionBits - 1
      /\ HeardInstruction(h1) = c.instruction
      /\ \A commands : Asks(h1, commands) <=> ParseCommand(c.instruction) \in commands
  BY AfterInstruction
<1>2. CASE HeardMore(h, select, b) = h
  BY <1>2 DEF Heeds
<1>3. CASE HeardMore(h, select, b) = h1
  <2>1. Extra(h) >= DataBits => HeardParameter(h1) = HeardParameter(h)
    <3> SUFFICES ASSUME Extra(h) >= DataBits PROVE HeardParameter(h1) = HeardParameter(h)
      OBVIOUS
    <3> DEFINE m == InstructionBits + 2
               n == InstructionBits + 1 + DataBits
    <3>1. m \in Nat \ {0} /\ n \in Nat /\ n <= Len(h)
      BY <1>1, ChipSizes
    <3> HIDE DEF m, n
    <3>2. SubSeq(Append(h, b), m, n) = SubSeq(h, m, n)
      BY <3>1, HeardBefore
    <3> QED BY <3>2 DEF m, n, HeardParameter
  <2> HIDE DEF h1
  <2>2. Follows(c, h1)
    <3>1. Extra(h1) >= 0 /\ (Extra(h) >= DataBits => Extra(h1) >= DataBits)
      BY <1>1, ChipSizes
    <3>2. CASE c.state = "PendingWrite"
      BY <1>1, <2>1, <3>1, <3>2 DEF Follows
    <3>3. CASE c.state = "Done"
      BY <1>1, <3>1, <3>3 DEF Follows
    <3> QED BY <3>2, <3>3
  <2>3. ~(Extra(h1) = 0)
    BY <1>1
  <2>4. ~(Asks(h1, {"READ"}) /\ Extra(h1) \in 1 .. DataBits)
    <3>1. CASE c.state = "PendingWrite"
      BY <1>1, <3>1 DEF Follows
    <3>2. CASE c.state = "Done"
      BY <1>1, <3>2, ChipSizes DEF Follows
    <3> QED BY <3>1, <3>2
  <2>5. Heeds(c, h, c, h1)
    BY <2>2, <2>3, <2>4 DEF Heeds
  <2> QED BY <1>3, <2>5
<1> QED BY <1>2, <1>3 DEF HeardMore

(* A rising clock is heeded in every state of the chip.                    *)
LEMMA RisingHeeds ==
  ASSUME NEW c \in Chips, NEW h \in Seq(Bits), NEW b \in Bits, NEW select \in BOOLEAN, Follows(c, h)
  PROVE  Heeds(c, h, RisingClock(c, select, b), HeardMore(h, select, b))
<1>1. c.state \in {"Idle", "Instruction", "Input", "Output", "PendingWrite", "Done"}
  BY DEF Chips, EepromStates
<1>2. CASE c.state = "Idle"
  <2>1. h = <<>>
    BY <1>2 DEF Follows
  <2>2. CASE select /\ b = 1
    <3>1. RisingClock(c, select, b) = Started(c)
      BY <1>2, <2>2 DEF RisingClock
    <3>2. Len(h) <= InstructionBits + DataBits
      BY <2>1, EmptySeq, ChipSizes
    <3>3. HeardMore(h, select, b) = Append(<<>>, 1)
      BY <2>1, <2>2, <3>2 DEF HeardMore
    <3>4. Heeds(c, <<>>, Started(c), Append(<<>>, 1))
      BY <1>2, <2>1, StartHeeds
    <3> QED BY <2>1, <3>1, <3>3, <3>4
  <2>3. CASE ~(select /\ b = 1)
    <3>1. RisingClock(c, select, b) = c
      BY <1>2, <2>3 DEF RisingClock
    <3>2. HeardMore(h, select, b) = h
      BY <2>1, <2>3 DEF HeardMore
    <3> QED BY <3>1, <3>2 DEF Heeds
  <2> QED BY <2>2, <2>3
<1>3. CASE c.state = "Instruction"
  <2>1. RisingClock(c, select, b) = ShiftedInstruction(c, b)
    BY <1>3 DEF RisingClock
  <2>2. h # <<>> /\ Len(h) <= InstructionBits + DataBits /\ Heeds(c, h, ShiftedInstruction(c, b), Append(h, b))
    BY <1>3, InstructionHeeds
  <2> QED BY <2>1, <2>2 DEF HeardMore
<1>4. CASE c.state = "Input"
  <2>1. RisingClock(c, select, b) = ShiftedInput(c, b)
    BY <1>4 DEF RisingClock
  <2>2. h # <<>> /\ Len(h) <= InstructionBits + DataBits /\ Heeds(c, h, ShiftedInput(c, b), Append(h, b))
    BY <1>4, InputHeeds
  <2> QED BY <2>1, <2>2 DEF HeardMore
<1>5. CASE c.state = "Output"
  <2>1. RisingClock(c, select, b) = ShiftedOutput(c)
    BY <1>5 DEF RisingClock
  <2>2. h # <<>> /\ Len(h) <= InstructionBits + DataBits /\ Heeds(c, h, ShiftedOutput(c), Append(h, b))
    BY <1>5, OutputHeeds
  <2> QED BY <2>1, <2>2 DEF HeardMore
<1>6. CASE c.state \in {"PendingWrite", "Done"}
  <2>1. RisingClock(c, select, b) = c
    BY <1>6 DEF RisingClock
  <2> QED BY <1>6, <2>1, WaitHeeds
<1> QED BY <1>1, <1>2, <1>3, <1>4, <1>5, <1>6

(* A write is pending exactly when one was heard whole, with what it writes. *)
LEMMA PendingIsHeard ==
  ASSUME NEW c \in Chips, NEW h \in Seq(Bits), Follows(c, h)
  PROVE  /\ c.state = "PendingWrite" <=> WriteHeard(h)
         /\ WriteHeard(h) =>
              /\ c.instruction = HeardInstruction(h) /\ Len(c.instruction) = InstructionBits
              /\ ParseCommand(c.instruction) \in {"WRITE", "WRAL"} => c.input = HeardParameter(h) /\ c.input \in Word
<1>1. c.state \in {"Idle", "Instruction", "Input", "Output", "PendingWrite", "Done"}
  BY DEF Chips, EepromStates
<1>2. Len(h) \in Nat /\ Extra(h) = Len(h) - InstructionBits - 1 /\ Extra(h) \in Int
  BY LenProperties, ChipSizes DEF Extra
<1>3. ASSUME c.state = "Idle" \/ c.state = "Instruction" PROVE ~WriteHeard(h)
  <2>1. Extra(h) < 0
    <3>1. CASE c.state = "Idle"
      <4>1. Len(h) = 0
        BY <3>1, EmptySeq DEF Follows
      <4> QED BY <1>2, <4>1, ChipSizes
    <3>2. CASE c.state = "Instruction"
      BY <3>2 DEF Follows
    <3> QED BY <1>3, <3>1, <3>2
  <2> QED BY <1>2, <2>1 DEF WriteHeard, Asks
<1>4. ASSUME c.state \notin {"Idle", "Instruction"}
      PROVE  /\ Extra(h) >= 0 /\ c.instruction = HeardInstruction(h) /\ Len(c.instruction) = InstructionBits
             /\ \A commands : Asks(h, commands) <=> ParseCommand(c.instruction) \in commands
  <2>1. Extra(h) >= 0 /\ c.instruction = HeardInstruction(h)
    BY <1>4 DEF Follows
  <2>2. Len(c.instruction) = InstructionBits
    <3>1. 0 \in Bits
      BY DEF Bits
    <3> QED BY <1>4, <3>1, AfterInstruction
  <2> QED BY <2>1, <2>2 DEF Asks
<1>5. ASSUME c.state \in {"Input", "Output", "Done"} PROVE ~WriteHeard(h)
  <2>1. \A commands : Asks(h, commands) <=> ParseCommand(c.instruction) \in commands
    BY <1>4, <1>5
  <2>2. ~(Extra(h) >= DataBits) \/ ParseCommand(c.instruction) \notin {"WRITE", "WRAL"}
    BY <1>2, <1>5, ChipSizes DEF Follows
  <2>3. ParseCommand(c.instruction) \notin {"ERASE", "ERAL"}
    BY <1>5 DEF Follows
  <2> QED BY <2>1, <2>2, <2>3 DEF WriteHeard
<1>6. ASSUME c.state = "PendingWrite"
      PROVE  /\ WriteHeard(h) /\ c.instruction = HeardInstruction(h) /\ Len(c.instruction) = InstructionBits
             /\ ParseCommand(c.instruction) \in {"WRITE", "WRAL"} => c.input = HeardParameter(h) /\ c.input \in Word
  <2>1. /\ c.instruction = HeardInstruction(h) /\ Len(c.instruction) = InstructionBits
        /\ \A commands : Asks(h, commands) <=> ParseCommand(c.instruction) \in commands
    BY <1>4, <1>6
  <2>2. \/ ParseCommand(c.instruction) \in {"ERASE", "ERAL"}
        \/ /\ ParseCommand(c.instruction) \in {"WRITE", "WRAL"}
           /\ Extra(h) >= DataBits /\ c.input = HeardParameter(h)
    BY <1>6 DEF Follows
  <2>3. WriteHeard(h)
    BY <2>1, <2>2 DEF WriteHeard
  <2>4. ASSUME ParseCommand(c.instruction) \in {"WRITE", "WRAL"} PROVE c.input = HeardParameter(h) /\ c.input \in Word
    <3>1. Extra(h) >= DataBits /\ c.input = HeardParameter(h)
      BY <2>2, <2>4
    <3> DEFINE m == InstructionBits + 2
               n == InstructionBits + 1 + DataBits
    <3>2. m \in Nat /\ n \in Nat /\ m >= 1 /\ n <= Len(h) /\ n - m + 1 = DataBits /\ m <= n
      BY <1>2, <3>1, ChipSizes
    <3>3. c.input = SubSeq(h, m, n)
      BY <3>1 DEF HeardParameter
    <3> HIDE DEF m, n
    <3>4. \A i \in m .. n : h[i] \in Bits
      BY <1>2, <3>2, ElementOfSeq
    <3>5. SubSeq(h, m, n) \in Seq(Bits) /\ Len(SubSeq(h, m, n)) = IF m <= n THEN n - m + 1 ELSE 0
      BY <3>2, <3>4, SubSeqProperties
    <3>6. c.input \in Seq(Bits) /\ Len(c.input) = DataBits
      BY <3>2, <3>3, <3>5
    <3>7. c.input \in [1 .. Len(c.input) -> Bits]
      BY <3>6, LenProperties
    <3> QED BY <3>1, <3>6, <3>7 DEF Word, Bits
  <2> QED BY <2>1, <2>3, <2>4
<1> QED BY <1>1, <1>3, <1>5, <1>6

LEMMA ProgrammedTyped ==
  ASSUME NEW data \in [CellNames -> Word], NEW bits \in Seq(Bits), Len(bits) = InstructionBits, NEW word,
         ParseCommand(bits) \in {"WRITE", "WRAL"} => word \in Word
  PROVE  Programmed(data, bits, word) \in [CellNames -> Word]
<1>1. AddressOf(bits) \in CellNames
  BY Parsed
<1>2. Ones \in Word
  BY DEF Ones, Word
<1>3. Erased \in [CellNames -> Word]
  BY <1>2 DEF Erased
<1> DEFINE asked == ParseCommand(bits)
<1>4. Programmed(data, bits, word) =
        CASE asked = "WRITE" -> [data EXCEPT ![AddressOf(bits)] = word]
          [] asked = "ERASE" -> [data EXCEPT ![AddressOf(bits)] = Ones]
          [] asked = "WRAL" -> [a \in CellNames |-> word]
          [] OTHER -> Erased
  BY DEF Programmed
<1> HIDE DEF asked
<1>5. CASE asked = "WRITE"
  BY <1>1, <1>4, <1>5 DEF asked
<1>6. CASE asked = "ERASE"
  BY <1>1, <1>2, <1>4, <1>6
<1>7. CASE asked = "WRAL"
  BY <1>4, <1>7 DEF asked
<1>8. CASE asked \notin {"WRITE", "ERASE", "WRAL"}
  BY <1>3, <1>4, <1>8
<1> QED BY <1>5, <1>6, <1>7, <1>8

(* What a falling chip select makes of a chip that has heard h.            *)
LEMMA DeselectedChip ==
  ASSUME NEW c \in Chips, NEW h \in Seq(Bits), Follows(c, h)
  PROVE  LET d == Deselected(c) IN
         /\ d \in Chips /\ d.state = "Idle" /\ Follows(d, <<>>)
         /\ d.unlocked = c.unlocked /\ d.erase_write_enabled = c.erase_write_enabled
         /\ d.data = IF c.erase_write_enabled /\ WriteHeard(h)
                     THEN Programmed(c.data, HeardInstruction(h), HeardParameter(h)) ELSE c.data
         /\ c.state # "PendingWrite" => d.data_out = c.data_out
<1> DEFINE p == Programmed(c.data, c.instruction, c.input)
           x == IF c.state = "PendingWrite" THEN WrittenPending(c) ELSE c
           d == Deselected(c)
<1>1. d = [x EXCEPT !.state = "Idle", !.instruction = <<>>, !.input = <<>>, !.output = <<>>]
  BY DEF Deselected
<1>2. ASSUME WriteHeard(h)
      PROVE  p \in [CellNames -> Word] /\ p = Programmed(c.data, HeardInstruction(h), HeardParameter(h))
  <2>1. /\ c.instruction = HeardInstruction(h) /\ Len(c.instruction) = InstructionBits
        /\ ParseCommand(c.instruction) \in {"WRITE", "WRAL"} => c.input = HeardParameter(h) /\ c.input \in Word
    BY <1>2, PendingIsHeard
  <2>2. p \in [CellNames -> Word]
    BY <2>1, ChipFields, ProgrammedTyped
  <2>3. p = Programmed(c.data, c.instruction, HeardParameter(h))
    <3>1. CASE ParseCommand(c.instruction) \in {"WRITE", "WRAL"}
      BY <2>1, <3>1
    <3>2. CASE ParseCommand(c.instruction) \notin {"WRITE", "WRAL"}
      BY <3>2 DEF Programmed
    <3> QED BY <3>1, <3>2
  <2> QED BY <2>1, <2>2, <2>3
<1>3. c.state = "PendingWrite" <=> WriteHeard(h)
  BY PendingIsHeard
<1> DEFINE writes == c.erase_write_enabled /\ WriteHeard(h)
<1>4. x = IF writes THEN [c EXCEPT !.data = p, !.data_out = 1] ELSE c
  BY <1>3 DEF WrittenPending, WrittenUnprotected, Chips
<1>5. writes => p \in [CellNames -> Word] /\ WriteHeard(h)
  BY <1>2
<1>6. ~WriteHeard(h) => ~writes
  OBVIOUS
<1> HIDE DEF x, p, d, writes
<1>7. /\ x \in Chips /\ x.unlocked = c.unlocked /\ x.erase_write_enabled = c.erase_write_enabled
      /\ x.data = (IF writes THEN p ELSE c.data)
      /\ ~writes => x.data_out = c.data_out
  BY <1>4, <1>5 DEF Chips
<1>8. d \in Chips
  BY <1>1, <1>7, EmptyString DEF Chips, EepromStates
<1>9. /\ d.state = "Idle" /\ d.instruction = <<>> /\ d.input = <<>> /\ d.output = <<>>
      /\ d.unlocked = x.unlocked /\ d.erase_write_enabled = x.erase_write_enabled
      /\ d.data = x.data /\ d.data_out = x.data_out
  BY <1>1, <1>7 DEF Chips
<1>10. Follows(d, <<>>)
  BY <1>9 DEF Follows
<1>11. d.data = IF writes THEN Programmed(c.data, HeardInstruction(h), HeardParameter(h)) ELSE c.data
  BY <1>2, <1>5, <1>7, <1>9
<1>12. c.state # "PendingWrite" => d.data_out = c.data_out
  BY <1>3, <1>6, <1>7, <1>9
<1> QED BY <1>7, <1>8, <1>9, <1>10, <1>11, <1>12 DEF d, writes

(* What a chip follows is not in its lines nor in its locks.               *)
LEMMA LinesAside ==
  ASSUME NEW c, NEW d, NEW h, Follows(c, h), d.state = c.state, d.instruction = c.instruction,
         d.input = c.input, d.output = c.output, d.data = c.data
  PROVE  Follows(d, h)
BY DEF Follows

HeardSelected == IF chip.cs THEN heard ELSE <<>>

(* The chip is where what it heard since it was selected has brought it.   *)
EepromInv ==
  /\ EepromTypeOK
  /\ heard \in Seq(Bits) /\ Len(heard) <= MaxHeard
  /\ Follows(chip, HeardSelected)

LEMMA NothingHeard ==
  /\ <<>> \in Seq(Bits) /\ Len(<<>>) = 0 /\ 0 <= MaxHeard /\ Extra(<<>>) < 0
  /\ \A b \in Bits, select \in BOOLEAN :
       Extra(HeardMore(<<>>, select, b)) < 0 /\ (~select => HeardMore(<<>>, select, b) = <<>>)
<1>1. <<>> \in Seq(Bits) /\ Len(<<>>) = 0
  BY EmptySeq
<1>2. 0 <= MaxHeard /\ Extra(<<>>) < 0 /\ Extra(<<>>) + 1 < 0 /\ Extra(<<>>) \in Int
  BY <1>1, ChipSizes DEF MaxHeard, Extra
<1>3. ASSUME NEW b \in Bits, NEW select \in BOOLEAN
      PROVE  Extra(HeardMore(<<>>, select, b)) < 0 /\ (~select => HeardMore(<<>>, select, b) = <<>>)
  <2>1. Extra(Append(<<>>, b)) < 0
    <3>1. Extra(Append(<<>>, b)) = Extra(<<>>) + 1
      BY <1>1, Appended
    <3> QED BY <1>2, <3>1
  <2> QED BY <1>2, <2>1 DEF HeardMore
<1> QED BY <1>1, <1>2, <1>3

(* The EEPROM before anything was heard. *)
LEMMA EepromInitial ==
  ASSUME chip = [unlocked |-> FALSE, clk |-> FALSE, cs |-> FALSE, data_out |-> 0,
                 erase_write_enabled |-> FALSE, state |-> "Idle",
                 instruction |-> <<>>, input |-> <<>>, output |-> <<>>, data |-> Erased],
         heard = <<>>
  PROVE  EepromInv
<1>1. Erased \in [CellNames -> Word]
  BY DEF Erased, Ones, Word
<1>2. EepromTypeOK
  BY <1>1, EmptyString DEF EepromTypeOK, Chips, EepromStates
<1>3. Follows(chip, HeardSelected)
  BY DEF Follows, HeardSelected
<1> QED BY <1>2, <1>3, NothingHeard DEF EepromInv

(* A write of the register keeps the invariant and is obeyed. *)
LEMMA EepromWritten ==
  ASSUME EepromInv, NEW select \in BOOLEAN, NEW level \in BOOLEAN, NEW b \in Bits, WriteEeprom(select, level, b)
  PROVE  EepromInv' /\ Obeyed
<1> DEFINE h == HeardSelected
           rising == ~chip.clk /\ level
           clocked == IF rising THEN RisingClock(chip, select, b) ELSE chip
           selected == IF chip.cs /\ ~select THEN Deselected(clocked) ELSE clocked
           h1 == IF rising THEN HeardMore(h, select, b) ELSE h
<1>1. chip \in Chips /\ chip.cs \in BOOLEAN /\ h \in Seq(Bits) /\ Len(h) <= MaxHeard /\ Follows(chip, h)
  BY NothingHeard DEF EepromInv, EepromTypeOK, HeardSelected, Chips
<1>2. chip' = [selected EXCEPT !.clk = level, !.cs = select] /\ heard' = h1
  BY DEF WriteEeprom, HeardSelected, HeardMore
<1>3. h1 \in Seq(Bits) /\ Len(h1) <= MaxHeard
  <2> HIDE DEF h
  <2> QED BY <1>1, HeardMoreTyped
<1>4. Heeds(chip, h, clocked, h1)
  <2> HIDE DEF h, rising
  <2>1. CASE rising
    BY <1>1, <2>1, RisingHeeds
  <2>2. CASE ~rising
    BY <1>1, <2>2 DEF Heeds
  <2> QED BY <2>1, <2>2
<1>5. chip.cs => h = heard
  BY DEF HeardSelected
<1>6. ~chip.cs => h = <<>> /\ Extra(h1) < 0 /\ (~select => h1 = <<>>)
  BY NothingHeard DEF HeardSelected
<1>7. HeardSelected' = IF chip'.cs THEN heard' ELSE <<>>
  BY DEF HeardSelected
<1>8. selected = IF chip.cs /\ ~select THEN Deselected(clocked) ELSE clocked
  OBVIOUS
<1> HIDE DEF h, h1, rising, clocked, selected
<1>9. clocked \in Chips /\ Follows(clocked, h1)
  BY <1>4 DEF Heeds
<1>10. CASE chip.cs /\ ~select
  <2>1. selected = Deselected(clocked)
    BY <1>8, <1>10
  <2>2. /\ selected \in Chips /\ Follows(selected, <<>>) /\ selected.erase_write_enabled = clocked.erase_write_enabled
        /\ selected.data = IF clocked.erase_write_enabled /\ WriteHeard(h1)
                           THEN Programmed(clocked.data, HeardInstruction(h1), HeardParameter(h1)) ELSE clocked.data
        /\ clocked.state # "PendingWrite" => selected.data_out = clocked.data_out
    BY <1>3, <1>9, <2>1, DeselectedChip
  <2>3. /\ chip' \in Chips /\ Follows(chip', <<>>) /\ chip'.cs = select /\ chip'.data = selected.data
        /\ chip'.erase_write_enabled = selected.erase_write_enabled /\ chip'.data_out = selected.data_out
    <3>1. selected \in Chips /\ Follows(selected, <<>>) /\ chip' = [selected EXCEPT !.clk = level, !.cs = select]
      BY <1>2, <2>2
    <3>2. chip' \in Chips
      BY <3>1 DEF Chips
    <3>3. /\ chip'.state = selected.state /\ chip'.instruction = selected.instruction /\ chip'.input = selected.input
          /\ chip'.output = selected.output /\ chip'.data = selected.data /\ chip'.cs = select
          /\ chip'.erase_write_enabled = selected.erase_write_enabled /\ chip'.data_out = selected.data_out
      BY <3>1 DEF Chips
    <3>4. Follows(chip', <<>>)
      BY ONLY <3>1, <3>3, LinesAside
    <3> QED BY <3>2, <3>3, <3>4
  <2>4. EepromInv'
    BY <1>2, <1>3, <1>7, <1>10, <2>3 DEF EepromInv, EepromTypeOK
  <2>5. h = heard
    BY <1>5, <1>10
  <2>6. /\ clocked.data = chip.data
        /\ clocked.erase_write_enabled =
             IF Extra(h1) = 0 /\ h1 # heard /\ Asks(h1, {"EWEN", "EWDS"}) THEN Asks(h1, {"EWEN"}) ELSE chip.erase_write_enabled
        /\ Asks(h1, {"READ"}) /\ Extra(h1) \in 1 .. DataBits /\ h1 # heard =>
             clocked.data_out = chip.data[AddressOf(HeardInstruction(h1))][Extra(h1)] /\ clocked.state # "PendingWrite"
    BY <1>4, <2>5 DEF Heeds
  <2>7. Obeyed
    BY <1>2, <1>10, <2>2, <2>3, <2>6 DEF Obeyed
  <2> QED BY <2>4, <2>7
<1>11. CASE ~(chip.cs /\ ~select)
  <2>1. selected = clocked
    BY <1>8, <1>11
  <2>2. /\ chip' \in Chips /\ Follows(chip', h1) /\ chip'.cs = select /\ chip'.data = clocked.data
        /\ chip'.erase_write_enabled = clocked.erase_write_enabled /\ chip'.data_out = clocked.data_out
    <3>1. clocked \in Chips /\ Follows(clocked, h1) /\ chip' = [clocked EXCEPT !.clk = level, !.cs = select]
      BY <1>2, <1>9, <2>1
    <3>2. chip' \in Chips
      BY <3>1 DEF Chips
    <3>3. /\ chip'.state = clocked.state /\ chip'.instruction = clocked.instruction /\ chip'.input = clocked.input
          /\ chip'.output = clocked.output /\ chip'.data = clocked.data /\ chip'.cs = select
          /\ chip'.erase_write_enabled = clocked.erase_write_enabled /\ chip'.data_out = clocked.data_out
      BY <3>1 DEF Chips
    <3>4. Follows(chip', h1)
      BY ONLY <3>1, <3>3, LinesAside
    <3> QED BY <3>2, <3>3, <3>4
  <2>3. HeardSelected' = h1
    BY <1>2, <1>6, <1>7, <1>11, <2>2
  <2>4. EepromInv'
    BY <1>2, <1>3, <2>2, <2>3 DEF EepromInv, EepromTypeOK
  <2>5. /\ clocked.data = chip.data
        /\ clocked.erase_write_enabled =
             IF Extra(h1) = 0 /\ h1 # heard /\ Asks(h1, {"EWEN", "EWDS"}) THEN Asks(h1, {"EWEN"}) ELSE chip.erase_write_enabled
        /\ Asks(h1, {"READ"}) /\ Extra(h1) \in 1 .. DataBits /\ h1 # heard =>
             clocked.data_out = chip.data[AddressOf(HeardInstruction(h1))][Extra(h1)]
    <3>1. CASE chip.cs
      BY <1>4, <1>5, <3>1 DEF Heeds
    <3>2. CASE ~chip.cs
      <4>1. Extra(h1) < 0 /\ Extra(h1) \in Int
        <5>1. Extra(h1) \in Int
          BY <1>3, LenProperties, ChipSizes DEF Extra
        <5> QED BY <1>6, <3>2, <5>1
      <4>2. ~(Extra(h1) = 0) /\ ~(\E commands : Asks(h1, commands))
        BY <4>1 DEF Asks
      <4> QED BY <1>4, <4>2 DEF Heeds
    <3> QED BY <3>1, <3>2
  <2>6. ~(chip.cs /\ ~chip'.cs)
    BY <1>11, <2>2
  <2>7. Obeyed
    BY <1>2, <2>2, <2>5, <2>6 DEF Obeyed
  <2> QED BY <2>4, <2>7
<1> QED BY <1>10, <1>11

(* Every step of the EEPROM keeps the invariant, and but for the reset is obeyed. *)
LEMMA EepromStep ==
  ASSUME EepromInv, EepromNext
  PROVE  EepromInv' /\ (~EepromReset => Obeyed)
<1>1. ASSUME NEW select \in BOOLEAN, NEW level \in BOOLEAN, NEW b \in {0, 1}, WriteEeprom(select, level, b)
      PROVE  EepromInv' /\ Obeyed
  BY <1>1, EepromWritten DEF Bits
<1>2. ASSUME NEW open \in BOOLEAN, Lock(open) PROVE EepromInv' /\ Obeyed
  <2>1. chip \in Chips /\ Follows(chip, HeardSelected) /\ chip' = [chip EXCEPT !.unlocked = open] /\ heard' = heard
    BY <1>2 DEF EepromInv, EepromTypeOK, Lock
  <2>2. chip' \in Chips
    BY <2>1 DEF Chips
  <2>6. /\ chip'.state = chip.state /\ chip'.instruction = chip.instruction /\ chip'.input = chip.input
        /\ chip'.output = chip.output /\ chip'.data = chip.data /\ chip'.cs = chip.cs
        /\ chip'.erase_write_enabled = chip.erase_write_enabled
    BY <2>1 DEF Chips
  <2>7. Follows(chip', HeardSelected)
    BY ONLY <2>1, <2>6, LinesAside
  <2>3. HeardSelected' = HeardSelected
    BY <2>1, <2>6 DEF HeardSelected
  <2>4. EepromInv'
    BY <2>1, <2>2, <2>3, <2>7 DEF EepromInv, EepromTypeOK
  <2>5. Obeyed
    BY <2>1, <2>6 DEF Obeyed
  <2> QED BY <2>4, <2>5
<1>3. ASSUME EepromReset PROVE EepromInv'
  <2>1. EepromTypeOK'
    <3>1. Erased \in [CellNames -> Word]
      BY DEF Erased, Ones, Word
    <3> QED BY <1>3, <3>1, EmptyString DEF EepromReset, EepromTypeOK, Chips, EepromStates
  <2>2. heard' = <<>> /\ Follows(chip', <<>>) /\ HeardSelected' = <<>>
    BY <1>3 DEF EepromReset, Follows, HeardSelected
  <2> QED BY <2>1, <2>2, NothingHeard DEF EepromInv
<1> QED BY <1>1, <1>2, <1>3 DEF EepromNext

-----------------------------------------------------------------------------
(* The slot.                                                               *)

LEMMA RegistersTyped == BankInv => regs \in Registers
<1> SUFFICES ASSUME BankInv PROVE regs \in Registers
  OBVIOUS
<1>1. regs = TableRegs /\ WroteBytes
  BY DEF BankInv
<1>2. TableSelector \in 0 .. 511
  <2> DEFINE low == Wrote("low", 1)
             high == Wrote("high", 0)
  <2>1. low \in 0 .. 255 /\ high \in 0 .. 255
    BY <1>1 DEF WroteBytes
  <2>2. TableSelector =
          CASE cart.kind = "MBC1" -> IF low % 32 = 0 THEN 1 ELSE low % 32
            [] cart.kind = "MBC1M" -> IF low % 32 = 0 THEN 1 ELSE low % 16
            [] cart.kind = "MBC2" -> NonZero(low % 16)
            [] cart.kind = "MBC3" -> NonZero(low)
            [] cart.kind \in {"MBC5", "MBC5Rumble"} -> low + 256 * (high % 2)
            [] cart.kind = "MBC7" -> low
            [] cart.kind = "HuC1" -> NonZero(low % 64)
            [] cart.kind = "HuC3" -> low % 128
            [] OTHER -> 1
    BY DEF TableSelector
  <2> HIDE DEF low, high
  <2>3. low % 16 \in 0 .. 511 /\ low % 32 \in 0 .. 511 /\ low % 64 \in 0 .. 511 /\ low % 128 \in 0 .. 511
    BY <2>1
  <2>4. low \in 0 .. 511 /\ low + 256 * (high % 2) \in 0 .. 511 /\ 1 \in 0 .. 511
    BY <2>1
  <2>5. NonZero(low % 16) \in 0 .. 511 /\ NonZero(low) \in 0 .. 511 /\ NonZero(low % 64) \in 0 .. 511
    BY <2>3, <2>4 DEF NonZero
  <2> QED BY <2>2, <2>3, <2>4, <2>5
<1>3. TableUpper \in 0 .. 15
  BY <1>1 DEF TableUpper, WroteBytes
<1>4. Wrote("enable", 0) % 16 \in 0 .. 15 /\ Wrote("mode", 0) % 2 \in 0 .. 1
  BY <1>1 DEF WroteBytes
<1> QED BY <1>1, <1>2, <1>3, <1>4 DEF TableRegs, Registers

LEMMA WipedTyped == Wiped(cart) \in [0 .. cart.ram_banks - 1 -> 0 .. 255] /\ Unwritten \in [Areas -> Values \cup {NoWrite}]
BY DEF Wiped, Unwritten

LEMMA BankTypeInitial == BankInit => BankTypeOK
BY BankInitial, RegistersTyped, WipedTyped DEF BankInit, BankTypeOK

LEMMA BankTypeStep == BankInv /\ BankTypeOK /\ [BankNext]_bankVars => BankTypeOK'
<1>0. BankInv' => (regs \in Registers)'
  BY RegistersTyped, PTL
<1> SUFFICES ASSUME BankInv, BankTypeOK, [BankNext]_bankVars PROVE BankTypeOK'
  OBVIOUS
<1>1. regs' \in Registers
  BY <1>0, BankStep
<1>2. ASSUME NEW a \in Addresses, NEW v \in Values, WriteRom(a, v) PROVE BankTypeOK'
  BY <1>1, <1>2 DEF BankTypeOK, WriteRom
<1>3. ASSUME NEW v \in Bytes, WriteRam(v) PROVE BankTypeOK'
  BY <1>1, <1>3, BankingAssumption DEF BankTypeOK, WriteRam
<1>4. CASE ResetCart
  BY <1>1, <1>4, WipedTyped DEF BankTypeOK, ResetCart
<1>5. CASE UNCHANGED bankVars
  BY <1>5 DEF BankTypeOK, bankVars
<1> QED BY <1>2, <1>3, <1>4, <1>5 DEF BankNext

(* The parts share no state: a step of the slot is one of each of them, or *)
(* leaves it as it is.                                                     *)
LEMMA SlotMoves ==
  [SlotNext]_slotVars => [BankNext]_bankVars /\ [Mbc3Next]_mbc3Vars /\ [Huc3Next]_huc3Vars /\ [EepromNext]_eepromVars
<1>1. CASE MoveBanks
  BY <1>1 DEF MoveBanks
<1>2. CASE MoveMbc3
  BY <1>2 DEF MoveMbc3
<1>3. CASE MoveHuc3
  BY <1>3 DEF MoveHuc3
<1>4. CASE MoveEeprom
  BY <1>4 DEF MoveEeprom
<1>5. CASE UNCHANGED slotVars
  BY <1>5 DEF slotVars
<1> QED BY <1>1, <1>2, <1>3, <1>4, <1>5 DEF SlotNext

(* The cartridge in the slot behaves as its bank registers, as its clock   *)
(* and as its EEPROM do: what is proved of each holds in the slot.         *)
THEOREM SlotIsItsParts == SlotSpec => BankSpec /\ Mbc3Spec /\ Huc3Spec /\ EepromSpec
<1>1. SlotInit => BankInit /\ Mbc3Init /\ Huc3Init /\ EepromInit
  BY DEF SlotInit
<1> QED BY <1>1, SlotMoves, PTL DEF SlotSpec, BankSpec, Mbc3Spec, Huc3Spec, EepromSpec

LEMMA BankAlways == BankSpec => [](BankInv /\ BankTypeOK)
BY BankInitial, BankStep, BankTypeInitial, BankTypeStep, PTL DEF BankSpec

LEMMA Mbc3Always == Mbc3Spec => []Mbc3Inv
BY Mbc3Initial, Mbc3Step, PTL DEF Mbc3Spec

LEMMA Huc3Always == Huc3Spec => []Huc3Inv
BY Huc3Initial, Huc3Step, PTL DEF Huc3Spec

LEMMA EepromAlways == EepromSpec => []EepromInv
<1>1. EepromInit => EepromInv
  BY EepromInitial DEF EepromInit
<1>2. EepromInv /\ [EepromNext]_eepromVars => EepromInv'
  <2>1. ASSUME EepromInv, UNCHANGED eepromVars PROVE EepromInv'
    BY <2>1 DEF EepromInv, EepromTypeOK, HeardSelected, eepromVars
  <2> QED BY <2>1, EepromStep
<1> QED BY <1>1, <1>2, PTL DEF EepromSpec

(* Every register and every cell of a cartridge keeps to its width, and so *)
(* do the clocks' registers and the EEPROM's cursors, whatever is written. *)
THEOREM SlotTypesAlwaysOK == SlotSpec => []SlotTypeOK
<1>1. BankTypeOK /\ Mbc3Inv /\ Huc3Inv /\ EepromInv => SlotTypeOK
  BY DEF SlotTypeOK, Mbc3Inv, Huc3Inv, EepromInv
<1> QED BY <1>1, SlotIsItsParts, BankAlways, Mbc3Always, Huc3Always, EepromAlways, PTL

(* The clock of MBC3 loses no second of the host and counts none twice,    *)
(* whichever of its two ways a tick advances it; the overflow of its days  *)
(* is noted when they wrap.                                                *)
THEOREM Mbc3AlwaysKeepsTime == Mbc3Spec => Mbc3KeepsTime
<1>1. Mbc3Inv => (due # Adrift => InRange(clock) /\ (Reading(clock) + lag) % Wrap = due)
  BY DEF Mbc3Inv, ShowsDue
<1>2. Mbc3Inv /\ [Mbc3Next]_mbc3Vars =>
        [Mbc3OnTick /\ InRange(clock) /\ clock' # clock =>
           clock'.overflow = (clock.overflow \/ Reading(clock) + lag >= Wrap)]_mbc3Vars
  BY ClockTicked
<1> QED BY <1>1, <1>2, Mbc3Always, PTL DEF Mbc3Spec, Mbc3KeepsTime

(* Both clocks show the host's seconds: HuC3's too, through minutes past   *)
(* the end of the day, power cycles and commands between two ticks.        *)
THEOREM ClocksAlwaysKeepTime == SlotSpec => ClocksKeepTime
<1>1. Huc3Inv => Shown(minutes, days, huc3_lag) = huc3_due
  BY DEF Huc3Inv, HuC3ShowsDue
<1> QED BY <1>1, SlotIsItsParts, Mbc3AlwaysKeepsTime, Huc3Always, PTL DEF ClocksKeepTime

(* The EEPROM obeys what it was told since it was selected, however its    *)
(* lines are toggled: cells change only as a whole instruction with its    *)
(* whole parameter says, and READ gives the bits of the cell.              *)
THEOREM EepromAlwaysObeys == SlotSpec => EepromObeys
<1>1. EepromInv /\ [EepromNext]_eepromVars => [EepromNext /\ ~EepromReset => Obeyed]_eepromVars
  BY EepromStep
<1> QED BY <1>1, SlotIsItsParts, EepromAlways, PTL DEF EepromSpec, EepromObeys

(* In the slot too, the banks are those of the tables for the bytes last   *)
(* written, and RAM is the banked memory they choose.                      *)
THEOREM SlotBanksAsTable == SlotSpec => []BanksAsTable /\ ImplementsBankedMemory
BY SlotIsItsParts, BanksAlwaysAsTable, BanksImplementMemory, PTL
=============================================================================
