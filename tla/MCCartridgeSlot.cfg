SPECIFICATION SlotSpec
CONSTANTS
  Carts <- MCCarts
  Addresses <- MCAddresses
  Values <- MCValues
  Bytes <- MCBytes
  Second = 3
  SecondField = 4
  Minute = 2
  MinuteField = 2
  Hour = 2
  HourField = 2
  DayLow = 2
  Byte = 8
  CyclesPerSecond = 2
  MaxLag = 13
  Nibble = 2
  Digits = 2
  SecondsPerMinute = 2
  Day = 3
  HuC3CyclesPerSecond = 2
  HuC3MaxLag = 4
  InstructionBits = 4
  AddressSpaceBits = 1
  DataBits = 2
INVARIANTS SlotTypeOK BanksAsTable
PROPERTIES ImplementsBankedMemory ClocksKeepTime EepromObeys
