-------------------------------- MODULE MCPpu -------------------------------
EXTENDS Ppu

(* Every set of sources FrameInterrupts counts, and LYC with two others.   *)
MCEnables == SUBSET {"oam", "vblank", "hblank"} \cup {{"lyc_eq_ly"}, {"lyc_eq_ly", "oam"}, {"lyc_eq_ly", "hblank"}}
=============================================================================
