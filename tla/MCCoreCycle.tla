---------------------------- MODULE MCCoreCycle ----------------------------
EXTENDS CoreCycle

MCSources == {VBlank, Timer, Joypad}
MCGroups == {"dpad"}
MCOps == {Nop, Cb, Ei, Di, Halt, Stop, Reti, Ldh}
MCTargets == {"IE", "IF", "KEY1", "P1", "RAM"}
MCPushes == {"IE", "IF", "RAM"}
=============================================================================
