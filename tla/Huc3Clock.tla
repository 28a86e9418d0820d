------------------------------ MODULE Huc3Clock -----------------------------
(***************************************************************************)
(* The clock of HuC3 cartridges (docboy/cartridge/huc3): minutes and days, *)
(* advanced by whole minutes of the host's clock, and the commands by      *)
(* which a program reaches it: a memory of nibbles, an address, and        *)
(* copies between that memory and the clock.                               *)
(***************************************************************************)
EXTENDS Integers

CONSTANTS
  Nibble,              \* values of a nibble: 16
  Digits,              \* nibbles of the minutes, and of the days: 3
  SecondsPerMinute,    \* 60
  Day,                 \* minutes of a day: 1440
  HuC3CyclesPerSecond, \* ticks per second, 1048576
  HuC3MaxLag           \* bound: seconds the host may be ahead

(* The last line says of powers what the provers are not told.             *)
ASSUME Huc3ClockAssumption ==
  /\ {Nibble, Digits, SecondsPerMinute, HuC3CyclesPerSecond} \subseteq Nat \ {0, 1}
  /\ Day \in 1 .. Nibble ^ Digits
  /\ 2 * Digits <= Nibble * Nibble
  /\ HuC3MaxLag \in Nat \ {0}
  /\ \A k \in 0 .. Digits : Nibble ^ k \in Nat \ {0}

VARIABLES
  minutes, days,           \* the clock
  memory, address,         \* the microcontroller's memory, cursor
  command, argument,       \* submitted, to be executed
  huc3_cycles, huc3_lag,   \* cycles_since_last_tick; host's time less last_tick_time
  huc3_due                 \* history: the seconds the clock and its lag should show

huc3Vars == <<minutes, days, memory, address, command, argument, huc3_cycles, huc3_lag, huc3_due>>
mailVars == <<memory, address, command, argument>>

Field == 0 .. Nibble ^ Digits - 1
Cells == 0 .. Nibble * Nibble - 1
HuC3Wrap == Nibble ^ Digits * Day * SecondsPerMinute

Huc3TypeOK ==
  /\ minutes \in Field /\ days \in Field
  /\ memory \in [Cells -> 0 .. Nibble - 1]
  /\ address \in Cells
  /\ command \in 0 .. 7 /\ argument \in 0 .. Nibble - 1
  /\ huc3_cycles \in 0 .. HuC3CyclesPerSecond - 1
  /\ huc3_lag \in -1 .. HuC3MaxLag
  /\ huc3_due \in 0 .. HuC3Wrap - 1

Huc3Init ==
  /\ minutes = 0 /\ days = 0
  /\ memory = [c \in Cells |-> 0]
  /\ address = 0 /\ command = 0 /\ argument = 0
  /\ huc3_cycles = 0 /\ huc3_lag = 0 /\ huc3_due = 0

(* tick_rtc *)
AfterMinutes(delta) ==
  LET m == minutes + (delta % Day) IN
  [minutes |-> m % Day, days |-> (days + (delta \div Day) + (m \div Day)) % (Nibble ^ Digits)]

(* HuC3::on_tick: the seconds short of a minute are kept for the next.     *)
LagForgotten(delta) == 0

LagAfter(delta) == huc3_lag - delta * SecondsPerMinute

Huc3OnTick ==
  /\ huc3_cycles' = (huc3_cycles + 1) % HuC3CyclesPerSecond
  /\ LET delta == huc3_lag \div SecondsPerMinute IN
     IF huc3_cycles' = 0 /\ delta > 0
     THEN /\ minutes' = AfterMinutes(delta).minutes
          /\ days' = AfterMinutes(delta).days
          /\ huc3_lag' = LagAfter(delta)
     ELSE UNCHANGED <<minutes, days, huc3_lag>>
  /\ UNCHANGED <<mailVars, huc3_due>>

Shown(m, d, l) == ((d * Day + m) * SecondsPerMinute + l) % HuC3Wrap

(* Digit k of a number, little endian; the digits that memory holds.       *)
Digit(n, k) == (n \div Nibble ^ k) % Nibble
HoldsNumber(from, n) == \A k \in 0 .. Digits - 1 : memory[from + k] = Digit(n, k)

(* A write of A000 with RtcWrite mapped: bits 6 to 4 and 3 to 0. *)
Submit(c, a) ==
  /\ command' = c
  /\ argument' = a
  /\ UNCHANGED <<minutes, days, memory, address, huc3_cycles, huc3_lag, huc3_due>>

NextAddressBeyond == address + 1

NextAddress == (address + 1) % (Nibble * Nibble)

ReadCell ==
  /\ command \in {0, 1}
  /\ address' = IF command = 1 THEN NextAddress ELSE address
  /\ UNCHANGED <<minutes, days, memory, huc3_due>>

WriteCell ==
  /\ command \in {2, 3}
  /\ memory' = [memory EXCEPT ![address] = argument]
  /\ address' = IF command = 3 THEN NextAddress ELSE address
  /\ UNCHANGED <<minutes, days, huc3_due>>

SetAddress ==
  /\ command \in {4, 5}
  /\ address' = IF command = 4 THEN (address \div Nibble) * Nibble + argument ELSE argument * Nibble + (address % Nibble)
  /\ UNCHANGED <<minutes, days, memory, huc3_due>>

CopyFromClock ==
  /\ command = 6 /\ argument = 0
  /\ memory' = [c \in Cells |-> CASE c < Digits -> Digit(minutes, c)
                                  [] c \in Digits .. 2 * Digits - 1 -> Digit(days, c - Digits)
                                  [] OTHER -> memory[c]]
  /\ UNCHANGED <<minutes, days, address, huc3_due>>

(* Minutes past the end of the day may be set. *)
CopyToClock ==
  /\ command = 6 /\ argument = 1
  /\ \E m, d \in Field :
       /\ HoldsNumber(0, m) /\ HoldsNumber(Digits, d)
       /\ minutes' = m /\ days' = d
  /\ huc3_due' = Shown(minutes', days', huc3_lag)
  /\ UNCHANGED <<memory, address>>

(* A write of A000 with RtcSemaphore mapped and bit 0 clear:               *)
(* execute_rtc_command.  Other commands and arguments change nothing here:  *)
(* the result a program reads is left out.                                 *)
Execute ==
  /\ ReadCell \/ WriteCell \/ SetAddress \/ CopyFromClock \/ CopyToClock
  /\ UNCHANGED <<command, argument, huc3_cycles, huc3_lag>>

Huc3HostClock(d) ==
  /\ huc3_lag + d \in -1 .. HuC3MaxLag
  /\ huc3_lag' = huc3_lag + d
  /\ huc3_due' = (huc3_due + d) % HuC3Wrap
  /\ UNCHANGED <<minutes, days, mailVars, huc3_cycles>>

(* Off for d seconds; the save has last_tick_time, memory and the clock.   *)
Huc3PowerCycle(d) ==
  /\ huc3_lag + d <= HuC3MaxLag
  /\ huc3_lag' = huc3_lag + d
  /\ huc3_due' = (huc3_due + d) % HuC3Wrap
  /\ address' = 0 /\ command' = 0 /\ argument' = 0
  /\ huc3_cycles' = 0
  /\ UNCHANGED <<minutes, days, memory>>

(* HuC3::reset *)
Huc3Reset ==
  /\ minutes' = 0 /\ days' = 0
  /\ memory' = [c \in Cells |-> 0]
  /\ address' = 0 /\ command' = 0 /\ argument' = 0
  /\ huc3_cycles' = 0 /\ huc3_lag' = 0 /\ huc3_due' = 0

Huc3Next ==
  \/ Huc3OnTick
  \/ (\E c \in 0 .. 7, a \in 0 .. Nibble - 1 : Submit(c, a))
  \/ Execute
  \/ (\E d \in {-1, 1, HuC3MaxLag} : Huc3HostClock(d))
  \/ (\E d \in {1, HuC3MaxLag - 1} : Huc3PowerCycle(d))
  \/ Huc3Reset

Huc3Spec == Huc3Init /\ [][Huc3Next]_huc3Vars
=============================================================================
