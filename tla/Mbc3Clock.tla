------------------------------ MODULE Mbc3Clock -----------------------------
(***************************************************************************)
(* The clock of MBC3 cartridges (docboy/cartridge/mbc3).  The core ticks   *)
(* it; once per second of emulated time it advances by the seconds the     *)
(* host's clock has advanced since it last did, which may be none          *)
(* (emulation ahead of the host), many (behind, or a save just loaded) or  *)
(* a negative number (the host's clock was set back).  What a program      *)
(* reads is a copy of the registers, taken whole by a write of 6000-7FFF;  *)
(* the copy is left out.                                                   *)
(***************************************************************************)
EXTENDS Integers

CONSTANTS
  Second, Minute, Hour,                 \* where registers carry: 60, 60, 24
  SecondField, MinuteField, HourField,  \* values a program can write: 64, 64, 32
  DayLow,                               \* values of the low byte of days: 256
  Byte,                                 \* values of a uint8_t: 256
  CyclesPerSecond,                      \* ticks per second, 1048576
  MaxLag                                \* bound: seconds the host may be ahead

ASSUME Mbc3ClockAssumption ==
  /\ {Second, Minute, Hour, DayLow, CyclesPerSecond} \subseteq Nat \ {0, 1}
  /\ SecondField \in Second .. Byte - 1 /\ MinuteField \in Minute .. Byte - 1 /\ HourField \in Hour .. Byte - 1
  /\ Byte \in Nat /\ MaxLag \in Nat \ {0}

VARIABLES
  clock,                  \* the running registers
  cycles_since_last_tick,
  lag,                    \* the host's time less last_tick_time
  due                     \* history: what the clock should show without lag

mbc3Vars == <<clock, cycles_since_last_tick, lag, due>>

Adrift == -1  \* due, while a register was written out of range

RtcRegisters ==
  [seconds : 0 .. Byte - 1, minutes : 0 .. Byte - 1, hours : 0 .. Byte - 1,
   days_low : 0 .. DayLow - 1, day : 0 .. 1, overflow : BOOLEAN, stopped : BOOLEAN]

Days(c) == c.day * DayLow + c.days_low
Wrap == 2 * DayLow * Hour * Minute * Second

InRange(c) == c.seconds < Second /\ c.minutes < Minute /\ c.hours < Hour

(* A clock's seconds since day 0. *)
Reading(c) == ((Days(c) * Hour + c.hours) * Minute + c.minutes) * Second + c.seconds

Mbc3TypeOK ==
  /\ clock \in RtcRegisters
  /\ cycles_since_last_tick \in 0 .. CyclesPerSecond - 1
  /\ lag \in -1 .. MaxLag
  /\ due = Adrift \/ due \in 0 .. Wrap - 1

Zero == [seconds |-> 0, minutes |-> 0, hours |-> 0, days_low |-> 0, day |-> 0, overflow |-> FALSE, stopped |-> FALSE]

Mbc3Init ==
  /\ clock = Zero
  /\ cycles_since_last_tick = 0
  /\ lag = 0
  /\ due = 0

(* A day more: bit 8 of the days is toggled when the low byte wraps, and   *)
(* the overflow is noted if it was set. *)
NextDay(c) ==
  IF c.days_low < DayLow - 1 THEN [c EXCEPT !.days_low = @ + 1]
  ELSE [c EXCEPT !.days_low = 0, !.day = 1 - @, !.overflow = @ \/ c.day = 1]

(* tick_rtc(1): each register carries where it *reaches* its limit; one    *)
(* that is past it counts on. *)
SecondIsUp(c) ==
  LET seconds == (c.seconds + 1) % Byte
      minutes == (c.minutes + 1) % Byte
      hours == (c.hours + 1) % Byte
  IN IF seconds # Second THEN [c EXCEPT !.seconds = seconds]
     ELSE IF minutes # Minute THEN [c EXCEPT !.seconds = 0, !.minutes = minutes]
     ELSE IF hours # Hour THEN [c EXCEPT !.seconds = 0, !.minutes = 0, !.hours = hours]
     ELSE NextDay([c EXCEPT !.seconds = 0, !.minutes = 0, !.hours = 0])

(* tick_rtc(delta), delta > 1: division with carries. *)
SecondsAreUp(c, delta) ==
  LET s == c.seconds + (delta % Second)
      m == c.minutes + ((delta \div Second) % Minute) + (s \div Second)
      h == c.hours + ((delta \div (Second * Minute)) % Hour) + (m \div Minute)
      d == Days(c) + (delta \div (Second * Minute * Hour)) + (h \div Hour)
  IN [c EXCEPT !.seconds = s % Second, !.minutes = m % Minute, !.hours = h % Hour,
               !.days_low = d % DayLow, !.day = (d \div DayLow) % 2,
               !.overflow = @ \/ d >= 2 * DayLow]

TickRtc(c, delta) ==
  CASE delta = 1 -> SecondIsUp(c)
    [] delta > 1 -> SecondsAreUp(c, delta)
    [] OTHER -> c

(* Mbc3::on_tick *)
Mbc3OnTick ==
  /\ ~clock.stopped
  /\ cycles_since_last_tick' = (cycles_since_last_tick + 1) % CyclesPerSecond
  /\ IF cycles_since_last_tick' = 0
     THEN /\ clock' = TickRtc(clock, lag)
          /\ lag' = 0
          /\ due' = IF lag < 0 /\ due # Adrift THEN (due - lag) % Wrap ELSE due
     ELSE UNCHANGED <<clock, lag, due>>

(* write_ram with a register of the clock chosen; seconds restart the      *)
(* second under way. *)
Shows(c, l) == IF InRange(c) THEN (Reading(c) + l) % Wrap ELSE Adrift

WriteRegister(c) ==
  /\ clock' = c
  /\ due' = Shows(c, lag)
  /\ UNCHANGED <<cycles_since_last_tick, lag>>

WriteSeconds(v) ==
  /\ clock' = [clock EXCEPT !.seconds = v]
  /\ cycles_since_last_tick' = 0
  /\ lag' = 0
  /\ due' = Shows(clock', 0)

WriteOthers ==
  \/ \E v \in 0 .. MinuteField - 1 : WriteRegister([clock EXCEPT !.minutes = v])
  \/ \E v \in 0 .. HourField - 1 : WriteRegister([clock EXCEPT !.hours = v])
  \/ \E v \in 0 .. DayLow - 1 : WriteRegister([clock EXCEPT !.days_low = v])
  \/ \E d \in 0 .. 1, o, s \in BOOLEAN : WriteRegister([clock EXCEPT !.day = d, !.overflow = o, !.stopped = s])

(* The host's clock moves, forwards or a second back; so it does while the *)
(* clock is stopped, and what has passed then counts once it runs again.   *)
HostClock(d) ==
  /\ lag + d \in -1 .. MaxLag
  /\ lag' = lag + d
  /\ due' = IF due = Adrift THEN Adrift ELSE (due + d) % Wrap
  /\ UNCHANGED <<clock, cycles_since_last_tick>>

(* The save is written, the emulator closed, started again d seconds later *)
(* and the save loaded: last_tick_time and the registers are in it. *)
PowerCycle(d) ==
  /\ lag + d <= MaxLag
  /\ lag' = lag + d
  /\ cycles_since_last_tick' = 0
  /\ due' = IF due = Adrift THEN Adrift ELSE (due + d) % Wrap
  /\ UNCHANGED clock

(* Mbc3::reset *)
Mbc3Reset ==
  /\ clock' = Zero
  /\ cycles_since_last_tick' = 0
  /\ lag' = 0
  /\ due' = 0

Mbc3Next ==
  \/ Mbc3OnTick
  \/ (\E v \in 0 .. SecondField - 1 : WriteSeconds(v))
  \/ WriteOthers
  \/ (\E d \in {-1, 1, MaxLag} : HostClock(d))
  \/ (\E d \in {1, MaxLag - 1} : PowerCycle(d))
  \/ Mbc3Reset

Mbc3Spec == Mbc3Init /\ [][Mbc3Next]_mbc3Vars
-----------------------------------------------------------------------------
(* While its registers are in range the clock and its lag show the time    *)
(* last written plus the host's seconds since: by whichever of its two     *)
(* ways a tick advances it, through carries, power cycles and an emulator  *)
(* that is ahead or behind, no second is counted twice and none is lost.   *)
(* Its overflow is noted when the days wrap, and stays.                    *)
Mbc3KeepsTime ==
  /\ [](due # Adrift => InRange(clock) /\ (Reading(clock) + lag) % Wrap = due)
  /\ [][Mbc3OnTick /\ InRange(clock) /\ clock' # clock =>
          clock'.overflow = (clock.overflow \/ Reading(clock) + lag >= Wrap)]_mbc3Vars

=============================================================================
