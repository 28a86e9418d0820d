--------------------------- MODULE MCCartridgeSlot --------------------------
(* Every mapper, with ROM and RAM as large as its selectors and smaller.   *)
EXTENDS CartridgeSlot

MCCarts ==
  [kind : {"MBC1"}, rom_banks : {16}, ram_banks : {0}]
  \cup [kind : {"MBC1"}, rom_banks : {128}, ram_banks : {4}]
  \cup [kind : {"MBC1M"}, rom_banks : {64}, ram_banks : {1}]
  \cup [kind : {"MBC2"}, rom_banks : {4, 16}, ram_banks : {1}]
  \cup [kind : {"MBC3"}, rom_banks : {256}, ram_banks : {4, 8}]
  \cup [kind : {"MBC5"}, rom_banks : {512}, ram_banks : {4}]
  \cup [kind : {"MBC5Rumble"}, rom_banks : {64}, ram_banks : {4}]
  \cup [kind : {"MBC7"}, rom_banks : {64}, ram_banks : {0}]
  \cup [kind : {"HuC1"}, rom_banks : {64}, ram_banks : {4}]
  \cup [kind : {"HuC3"}, rom_banks : {128}, ram_banks : {4}]
  \cup [kind : {"NoMbc", "RomRam"}, rom_banks : {2}, ram_banks : {0, 1}]

(* Every area, the two halves of 2000-3FFF that MBC5 has; bit 8 for MBC2.  *)
MCAddresses == {0, 8448, 12288, 16384, 24576}

(* Zero, a bank, the keys 0A and 0E, and 20: zero in five bits. *)
MCValues == {0, 1, 10, 14, 32}

MCBytes == {90}
=============================================================================
