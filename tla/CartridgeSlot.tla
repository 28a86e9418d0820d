---------------------------- MODULE CartridgeSlot ---------------------------
(***************************************************************************)
(* The cartridge in the slot (docboy/cartridge), reached by the CPU, by    *)
(* Core::tick_t2 (the clocks), by saves and by the reset.  Its bank        *)
(* registers and its device share no state, so that a behaviour moves one  *)
(* of the two: the registers of any cartridge, or the device of one whose  *)
(* registers have been set to show it.                                     *)
(***************************************************************************)
EXTENDS Banking, Mbc3Clock, Huc3Clock, Eeprom

VARIABLE moving  \* what this behaviour is about

slotVars == <<moving, bankVars, mbc3Vars, huc3Vars, eepromVars>>

Maker == [mbc3 |-> "MBC3", huc3 |-> "HuC3", eeprom |-> "MBC7"]

SlotInit ==
  /\ BankInit /\ Mbc3Init /\ Huc3Init /\ EepromInit
  /\ moving \in {"banks"} \cup DOMAIN Maker
  /\ moving # "banks" => cart.kind = Maker[moving]

MoveBanks ==
  /\ moving = "banks" /\ BankNext
  /\ UNCHANGED <<moving, mbc3Vars, huc3Vars, eepromVars>>

MoveMbc3 ==
  /\ moving = "mbc3" /\ Mbc3Next
  /\ UNCHANGED <<moving, bankVars, huc3Vars, eepromVars>>

MoveHuc3 ==
  /\ moving = "huc3" /\ Huc3Next
  /\ UNCHANGED <<moving, bankVars, mbc3Vars, eepromVars>>

MoveEeprom ==
  /\ moving = "eeprom" /\ EepromNext
  /\ UNCHANGED <<moving, bankVars, mbc3Vars, huc3Vars>>

SlotNext == MoveBanks \/ MoveMbc3 \/ MoveHuc3 \/ MoveEeprom

SlotSpec == SlotInit /\ [][SlotNext]_slotVars
-----------------------------------------------------------------------------
(* Every register and every cell keeps to its width (types of cartridge/). *)
SlotTypeOK == BankTypeOK /\ Mbc3TypeOK /\ Huc3TypeOK /\ EepromTypeOK

(* Both real time clocks show the host's seconds, none lost nor counted    *)
(* twice (on_tick of mbc3.tpp and huc3.tpp).  HuC3's clock and its lag     *)
(* show the time last copied to it plus the host's seconds since, through  *)
(* minutes past the end of the day, power cycles and whatever commands run *)
(* between two ticks.                                                      *)
ClocksKeepTime ==
  /\ Mbc3KeepsTime
  /\ [](Shown(minutes, days, huc3_lag) = huc3_due)
=============================================================================
