# DocBoy verification project

TLA+ models of [DocBoy](https://github.com/Docheinstein/docboy), a Game Boy and
Game Boy Color emulator in C++17, with TLC runs and TLAPS proofs. DocBoy claims
accuracy to the machine cycle for its CPU and to the T-cycle for its PPU, so
what can go wrong in it is mostly *when* things happen: which component ticks
first, what an interrupt meets, which cycle a register write falls into. A test
ROM exercises one such order at a time; a model has all of them.

Paths below are relative to `src/src/docboy/docboy/` unless they begin with
`src/`. The models are of the CGB build (`ENABLE_CGB`) with the default options:
`ENABLE_BOOTROM`, `ENABLE_DEBUGGER` and `ENABLE_ASSERTS` off,
`ENABLE_ACCURATE_INPUT_POLLING` on. The assertions of the code are read as its
claims.

## 1. The system

A frontend owns a `Core`, calls `frame()` or `run_for_cycles(n)` on it, sets
keys, saves and loads states. `Core::cycle()` runs one machine cycle of four
T-cycles, `tick_t0` to `tick_t3`; each ticks the components in a fixed order.
Everything is single-threaded: the concurrency of the real console has become
an order of calls.

| Component | State it keeps | Operations | Hard behaviour |
|---|---|---|---|
| Core schedule (`core/core.cpp`) | `ticks`, what the components hold | `tick_t0`..`t3`, `cycle` | order of the components within a T-cycle, two CPU cycles per core cycle at double speed |
| Run loop (`core/core.cpp`) | `cycles_of_artificial_vblank` | `frame`, `run_for_cycles` | frames must end with the LCD off or stopped; bursts cut frames |
| Input polling (`core/core.cpp`) | `next_input_polling_ticks` | `handle_input` | equality with a counter that resets and loaded states move |
| Interrupts (`interrupts/`) | `IF`, `IE`, `block_interrupts` | `write_if`, `raise_interrupt`, `tick_t3` | a write of IF shuts requests out |
| CPU (`cpu/`) | phase, IME, interrupt and halt state, micro-operation, write under way, registers | `tick_*`, `check_interrupt`, the micro-operations | an interrupt at any T-cycle of any instruction, HALT, STOP, EI delay, cancellation |
| Speed switch (`speedswitch/`) | speed, enter and exit countdowns, four blocks | `switch_speed`, `tick`, `write_key1` | countdowns cut short by interrupts |
| Stop controller (`stop/`) | `requested`, `stopped` | `stop`, `tick`, `stopped_tick`, `stopped_tock` | the only thing that ticks while stopped |
| Joypad (`joypad/`) | P1's selection, keys | `set_key_state`, `write_p1` | wakes STOP, raises an interrupt |
| Timers (`timers/`) | `div16`, TIMA, TMA, TAC, reload state, edge latch | four register writes, `tick` | edges made by writes, the reload that may be cancelled |
| Serial port (`serial/`) | SB, SC, progress, clock latch | `write_sb`, `write_sc`, `tick`, the endpoint's two bit operations | a master shifts the register of another console |
| OAM DMA, HDMA (`dma/`, `hdma/`) | request, state, cursors | register writes, `tick_t0`..`t3` | bus conflicts, the CPU held from a fetch to the end of a chunk |
| Buses and memory unit (`bus/`, `mmu/`) | pending requests, acquirers, address, data | `read_request`, `flush_*`, `acquire`, `release` | requests and flushes of several devices interleave; accessors depend on the operating mode |
| PPU, LCD (`ppu/`, `lcd/`) | dot, LY, mode, STAT line, fetchers, FIFOs, pending register writes | one tick selector per dot kind, LCDC/STAT writes | interrupt edges, delayed writes, LCD switched at any dot |
| APU (`audio/`) | channels, frame sequencer, pending register write | `tick_t0`..`t3`, register updates | DIV edges, triggers in the cycle of a length tick |
| Cartridges (`cartridge/`) | bank numbers, RTC, EEPROM | `write_rom`, `write_ram`, `on_tick` | bank masks, clocks, protocols |
| Save states (`core/core.cpp`, every component) | | `save_state`, `load_state` | a field forgotten |
| Debugger (`debugger/`) | command under way, history of states | commands, `notify_tick` | rewinding, breakpoints |
| Frontends (`src/src/frontend/`) | | run controller, files, windows | two consoles in bursts, the serial cable |

Also in the repository: boot ROM and operating mode, infrared and undocumented
registers, memories and banks, cartridge factory and header, images and
utilities, tests and tools. `PROJECT.json` lists every part with its status,
and every hazard with the line where it bites.

What makes each part correct, in short: interrupts are served, delayed and
cancelled only as the CPU's timing tables say; a speed switch leaves CPU,
T-cycles and blocks consistent; a timer neither loses nor invents an edge; a
serial exchange swaps two bytes; frames end; polls are not missed; a
transfer moves the bytes it asked for and gives the CPU back; a program sees the
bank it chose, and its RAM is left alone; a cartridge's clock shows the host's
seconds; STAT's interrupt fires once per rising line, and every row is drawn once,
in the dots it is due; the picture is the PPU's; only a powered channel sounds,
and its steps come in time.

## 2. The modules

| Module | Models | Extends |
|---|---|---|
| `Interrupts` | FF0F, FFFF, the block a write of FF0F imposes | |
| `Timers`, `MCTimers` | `timers/` next to a CPU that writes its registers and IF | `Interrupts` |
| `SpeedSwitch` | `speedswitch/` | `Interrupts` |
| `JoypadPort` | `joypad/` | `Interrupts` |
| `StopController` | `stop/` | `JoypadPort` |
| `Cpu` | control of `cpu/` | `SpeedSwitch`, `StopController` |
| `CoreCycle`, `MCCoreCycle` | `tick_t0`..`tick_t3` over the five above | `Cpu` |
| `SerialLink`, `MCSerialLink` | two consoles' `serial/`, their dividers and the cable | |
| `RunLoop` | `frame`, `run_for_cycles` | |
| `InputPolling` | `handle_input` and what moves its counters | |
| `Buses` | requests and addresses of `bus/`, acquirers of the video buses | |
| `OamDma` | `dma/` | `Buses` |
| `VramDma` | `hdma/` | `Buses` |
| `Transfers` | the two, a CPU and a PPU in the order of `tick_t0`..`tick_t3` | `OamDma`, `VramDma` |
| `Ppu`, `MCPpu` | the schedule of dots in `ppu/`, STAT's interrupt, LCDC, STAT and LYC as written | |
| `FrameModes` | what a program may rely on in STAT and LY (abstract) | |
| `PixelTransfer`, `MCPixelTransfer`, `MCRowOverrun` | the pixel transfer of `ppu/`: fetcher, queues, window, objects | |
| `Video` | `lcd/` next to the PPU | `Ppu` |
| `FrameSequencer` | DIV-APU of `audio/`, with the divider, the CPU and the speed switch that move it | |
| `SoundChannel`, `NoiseChannel`, `PeriodSweep` | a channel's length, DAC, trigger and envelope; the fourth one's counters; the first one's sweep | |
| `Apu`, `MCApu` | one channel of `audio/` under its clocks | the four above |
| `BankedMemory` | what a program may rely on in a cartridge (abstract) | |
| `Banking` | bank registers, ROM banks and RAM window of every mapper | |
| `Mbc3Clock`, `Huc3Clock`, `Eeprom` | the clocks of MBC3 and HuC3, the EEPROM of MBC7 | |
| `CartridgeSlot`, `MCCartridgeSlot` | the cartridge in the slot | `Banking` and the three |
| `TimersProofs`, `CoreCycleProofs`, `SerialLinkProofs`, `RunLoopProofs` (with input polling), `TransfersProofs`, `CartridgeSlotProofs`, `PpuProofs`, `ApuProofs` | the theorems | their module, `TLAPS` |

Operator names follow the code (`OnFallingEdgeIncTima` is
`on_falling_edge_inc_tima`, `EiM0` is `ei_m0`); variables too. `PROJECT.json`
maps every definition to the lines it stands for. Definitions right before the
one they resemble (`OverflowsOffByOne` before `Overflows`) are its plausible
mistakes, used to see that each property can fail.

**Interrupts, Timers.** A machine cycle is two steps: `CpuWrite`, at most one
register write of the CPU, and `Tick`, which first ends a pending reload and
then advances the divider by 4. At double speed `Rounds = 2` such pairs fit
between two calls of `Interrupts::tick_t3`. `div16` counts modulo `DivSize`,
TIMA and TMA modulo `TimaSize`. History: `incs`, TIMA increments of this machine
cycle; `wrote_if`, IF was written in it.

**CoreCycle.** The calls within a T-cycle are separate steps (`stage`), for
`PressOrRelease` and the devices are separate actors:
`check_interrupt`, the service and cancellation at the head of `tick_microop`,
the micro-operation, the flush of its write, `SpeedSwitchController::tick`, then
the devices. Memory is arbitrary: a fetch may find any of `Ops`, a write may go
to any of `Targets`, the stack may lie on any of `Pushes`. Nop stands for every
instruction of one machine cycle, Cb for the prefix and those of two, Ldh for
those that write. What raises VBlank, STAT, timer and serial interrupts inside
their components is open: a subset of those that tick in that T-cycle and are
not blocked. History: `pushed`, where the first byte of PC went; `shadow`, the
instruction after an EI has not ended.

**SerialLink.** Both consoles have the module's whole state as functions over
`{A, B}`. A machine cycle is at most one access (`WriteSb`, `WriteSc`,
`WriteDiv`, `WriteIF`, `Acknowledge`) and the `Tick`; `turn` names the console
in the middle of one, since the frontend never interleaves *within* a cycle.
`Shifting(c)` is who gets a bit: both consoles when the cable is in. `blocked` is
`Interrupts::block_interrupts`. History: `start`, what both SB held when the
exchange began, or `Garbled` once a CPU wrote SB, aborted a master, or a bit went
out with the cable unplugged.

**RunLoop.** `loop` is the loop of the function the call is in, `c` its index,
`cycle_count` the `uint8_t` of the burst. A machine cycle changes `stopped`,
`lcd` and `dot` as freely as a program can. `bursting` says which of the two
functions the frontend calls. `dot` is the PPU's place in its frame, which moves on
by 4 dots a cycle less those it is *held* (`HeldDots`): `Core::tick_t0` to `tick_t3` skip
`ppu.tick()` while a switch back from double speed blocks the PPU, for one dot, and a
row that has overrun its line (see the finding below) stays in HBlank while `Ppu::dots`
wraps around. History: `held`, the dots of this frame that were held, at most `MaxHeld`.

**InputPolling.** `handle_input`, resets, saving and loading of the two counters,
counted in machine cycles.

**Buses, OamDma, VramDma, Transfers.** A T-cycle is a chain of steps (`stage`):
the CPU's call, unless HDMA holds it, the PPU's dot, HDMA's two to four
functions, the OAM DMA's tick. A bus is its pending requests and *who* put the
address on it: what is moved at a flush is right if the address is still the
mover's own. An address no request waits for is forgotten. Both DMAs read from
one bus, `memory`, which stands for any bus they can meet the CPU on; at
`elsewhere` (a bus of its own, a source HDMA does not accept) there is no conflict to
see. The CPU runs instructions of any reads and writes, the ones to DMA, HDMA5 and
LCDC among them, no instruction the byte HDMA5 twice (`hdma5_written`);
interrupts enter as an arbitrary access where a fetch would be.
`mode` is the PPU's; `off` is also the first scan after it is turned on, for STAT
shows HBlank in both; `hblank` is `stat.mode == HBLANK`. `clock` is how the CPU's
cycles lie in the core's: `behind`, two T-cycles late at single speed, is where a
switch back from double speed may leave them (`CoreCycle` reaches it). HDMA's
addresses are gone but for the overflow of the destination, which any chunk may
meet.

**Ppu, FrameModes.** `ppu.selector` is the code's `tick_selector`: one function per
kind of dot, each a function from a PPU to the PPUs after it; only the pixel
transfer has several, for it ends in any dot from `Short` to `Long`. The rest of
a tick follows in the order of `Ppu::tick`: STAT's line, the pending write, the mode
STAT shows. A program writes LCDC (at most every two machine cycles of double
speed, `WriteDistance`), STAT and LYC, and the speed changes, between any two
dots. History: `raised`, the requests of this dot; `since_lcdc`; `frame`, the
requests of a frame that nothing disturbs. `FrameModes` knows rows, modes and LCDC.7 only: a
row is scanned, drawn and left behind, in order, and the PPU may be turned off
at any time.

**PixelTransfer.** One record, `row`, is the state of a row's transfer; a dot is the
code's functions applied in order (`HandleWindow`, `HandleFill`, the pop,
`CheckWindow`, `TickFetcher`, `WindowGlitch`, `HandlePush`, `IncreaseLx`). Pixels are
counted, not coloured: a queue is its size, the fetcher its state, an object its
column and its number in OAM. That keeps every glitch of the CGB that costs or saves a
dot: the window cancelled while it begins, the queue refilled in part, the pixel 00
at LX = WX. LCDC's two bits and WX are written in any dot and seen two dots
later. History: what the bounds asserted by `enter_hblank` count.

**Video.** The LCD's counters beside `Ppu`'s, both ticked in every T-cycle, except
that a switch back from double speed makes the PPU lose ticks (`BlockedTick`). A
row of pixels is the line it was drawn for and whether it is whole.

**FrameSequencer, SoundChannel, NoiseChannel, PeriodSweep, Apu.** A step is one
T-cycle of `core.cpp`: the CPU's write, which `flush_pending_write` applies a
T-cycle later, the speed switch, the divider, the APU's even or odd tick. The
channels share only the clocks, so a behaviour has one of them and a *program*:
the channel, the speed it starts at, the divider and the set of writes it may do, in any
order and at any time. History: `since` and `gap`, the distance of the sequencer's
steps and of an envelope's; `edge`. An envelope that is given a pace only after it was
started flat first counts a partial period, for the sequencer's eighth steps know
nothing of it: its steps are counted from the end of that one (`OutOfPhase`; the
proof of `StepsKeepTime` failed until the property said so).

**Cartridges.** `Banking` keeps a mapper's registers as one record and computes
each bank as `read_rom` and `read_ram` do; its property, and the refinement of
`BankedMemory`, compare that with the *bytes last written* to each area.
`Mbc3Clock` and `Huc3Clock` tick with the core while the host's clock goes on,
jumps or is set back; `due` is what the clock should show. `Eeprom` is driven pin by
pin; its history is the bits clocked in since select rose. Registers and device
share no state, so a behaviour of `CartridgeSlot` moves one of the two (`moving`).

## 3. The runs

Each passing run has a mutant or two per property in `PROJECT.json`: a plausible
mistake in the code's own definition that violates it.

| Run | Question | Bounds |
|---|---|---|
| `timers` | Do register writes and ticks in any order keep the edge detector, the overflow sequence and the requests right; does a running timer keep firing? | the real four divider bits, `DivSize` 1024 (bit 9 is the highest one watched), `TimaSize` 3: overflow, reload and one more increment are distinct values |
| `core_cycle` | Do interrupts, EI, HALT, STOP, speed switch, joypad and the schedule fit together, for any program? | `ExitDouble` 8 and `ExitSingle` 6 stand for the 32772 and 65538 ticks a switch lasts: longer than its other countdowns, so that all of them end inside and an interrupt may cut in before, between and after; three sources, one group of keys (the other is symmetric) |
| `serial_link` | Does an exchange swap bytes, in every interleaving, with aborts, IF writes and the cable pulled; does it complete? | `Width` 2, `SlowHalf` 1: first, last bit and half bits occur; the proofs cover every width |
| `run_loop` | Do the frames of `frame()` and of `run_for_cycles` in bursts always end, in bounded time but for the dots the PPU is held; are the assertions right, the bursts kept, the artificial frames of `frame()` whole? | a frame of 7 cycles, 5 of them visible, `Artificial` 5; the relation between the three is the code's (visible part = artificial frame); bursts of the real 4, `CountMod` 16 for 256; `MaxHeld` 5: a whole cycle held, and a dot more |
| `input_polling` | Is a poll ever passed by? | delays to 3, runs of 8 cycles |
| `transfers` | Do OAM DMA, HDMA, CPU and PPU keep each other's bytes and requests apart; is a chunk over before the next is asked for; is the CPU always given back? | two bytes of OAM and per chunk, two chunks: a first, a last, an odd and an even byte; `CountMod` 4 for 256: the count wraps below 0 after the last chunk, as in the code; `MinCycles` 5, see below |
| `cartridges` | Are the banks seen those of the source's tables and the RAM safe, for every mapper; do the clocks keep time; does the EEPROM obey? | every mapper with the real bank numbers, ROMs and RAMs as large as the selectors and smaller, and the values that matter to a register (0, a bank, the keys 0A and 0E, 20 hex, which is 0 in five bits); clocks with a carry of 2 or 3 per digit, values out of range, and a host up to 13 and 4 seconds away; instructions of 4 bits and words of 2 |
| `ppu` | Do the functions of the dots find what they assert, whatever is written when; is STAT's interrupt raised once per rising line; does the schedule implement `FrameModes`? | two rows, two lines of blank, a line of 16 dots: a first, a last and an ordinary line, every selector; a transfer of two lengths; LYC of the first line and the last |
| `pixel_transfer` | Do fetcher, queues, window and objects agree, and does a row take the dots it is due, while LCDC and WX change in any dot? | the real tile; a row of two tiles and two columns: the discarded tile, a whole one, a partial one; WX in the first column, in the last of a tile, a tile on; SCX % 8 of 0 and 3; no, one and three objects, two of them in a column |
| `row_overrun` (violation) | Is a row over before its line? | the real sizes, ten objects, one program |
| `lcd` | Is what the LCD shows the PPU's picture, and does it come back? | two rows, a line of 14 ticks, at most 3 ticks lost per frame, fewer than from the end of the pixels to the tick that shows them (`MaxLost`), as in the code |
| `apu` | Does only a powered channel sound, do the steps keep their time across DIV, NR52 and speed switches, does a trigger's delay stay in its table? | seven programs, one for each part of a channel and one for an envelope that is flat at first; envelopes of pace 0, 1 and 2, up and down (every pace is the proof's, `StepsAlwaysKeepTime`); the divider's bit 1 for bit 10, the real eight steps, lengths of 2, two volumes, periods of three bits |

`MinCycles` bounds how quickly the PPU may go from one HBlank to the next. A chunk
that is asked for in HBlank needs, until the CPU is back, three cycles at most to
be ready, an instruction and the chunk: here 3 + 1 + 1, in the code 3 + 5 + 8 = 16
machine cycles, against some 21 of the shortest HBlank (about 85 dots). With 4 in
place of 5 the run fails on the assertions of `tick_phase`: it is that margin
they rest on, and `TransfersAssumption` is that sum for any length of instruction and
chunk. `Sources` is `{"memory"}`, where both DMAs conflict with the CPU.

`EnableDots = {3, 5}` are the dots the PPU has counted at the end of the cycle
that turns it on, at single and double speed: it starts at dot 1 and ticks on
from the T-cycle of the write. The histories `frame_cycles` and `burst_cycles`
stop one past `LongestFrame`. Deadlock is checked in every run.

### Fairness

- `Timers`: `WF(Next)`, the core ticks while it runs.
- `CoreCycle`: `WF(Tick)`; the run loop waits for nothing. Nothing is assumed of
  the player, so `NothingHoldsCpu` is about an interrupt already pending and a
  switch under way.
- `SerialLink`: `SF(Tick(c))` for both. The consoles run whole cycles in turn,
  so the tick of one is disabled inside a cycle of the other, again and again;
  `RunController::frame` gives each its burst.
- `Transfers`: `WF(Next)`, as the core ticks; a program of reads and writes always
  comes to its next fetch, a halted CPU is in one.
- `RunLoop`: `WF(Step)`; the frontend calls frame after frame. `FrameReturns`
  leaves out the player who loads states for ever, and rests on `MaxHeld`: a frame has
  finitely many rows, each held for 65536 dots at most, and a dot per switch of speed.
- `Video`, `Apu`: `WF(Tick)`, `WF(ApuNext)`; the core ticks PPU, LCD and APU in every
  T-cycle that it is not stopped in.

### Finding

`row_overrun`: a window trigger costs 6 dots, and nothing limits how often a row
has one. A program at double speed that switches the window off and on and moves
WX a tile on, every 14 dots (`LD (HL),D`; `LD (HL),E`; `ADD A,B`; `LD (C),A`, unrolled), over
a row with ten objects, keeps the row going past dot 451. `Ppu::hblank` waits for
`++dots == 452` (`ppu/ppu.cpp:1218`), which then never comes: `dots` goes on until
its 16 bits wrap, against `ASSERT(dots < 456);` (`ppu/ppu.cpp:557`), LY stays and no VBlank
comes for 65536 dots. Each such row makes a frame of the run loop that much longer, so
`FrameBounded` counts them (`held`). `Ppu`, which takes the transfer to end in time
(`PpuAssumption`), leaves such programs out.

### Other disagreements

Met while modelling, not kept as runs. No commercial game needs any of them as far
as the models tell.

- PPU. `ASSERT(dots <= ub)` (`ppu/ppu.cpp:1648`) is one dot short for a window that
  is disabled just as it begins at WX 0 with SCX % 8 > 0 (`cancelled` in `High`). The 20
  entries of `line_triggers` can be used up by the program above. With LYC's and the
  scan's source both enabled a STAT request may be lost or doubled around the dots that
  try the scan's interrupt apart from the others.
- CPU. IE keeps its upper bits and IF reads them as ones, so a push of PC over IE
  may leave `isr_m3` with a bit past `IRQ_LOOKUP` (`cpu/cpu.cpp:1492`); so that the
  unused bits of IF are ones is a fact of `Timers` and not of `CoreCycle`. STOP can leave
  `fetching` false, and an interrupt that ends the halt is served against
  `ASSERT(fetching)` (`cpu/cpu.cpp:1225`). At double speed a write of IF also shuts
  out requests of the *next* CPU machine cycle, for `tick_t3` comes once per core
  cycle (`interrupts/interrupts.h:25`).
- Run loop. The index kept for the next burst survives the end of its frame and cuts
  a later artificial frame short (`core/core.cpp:406`). The loop for a disabled LCD
  meets VBlank (`core/core.cpp:320`): an artificial frame is as long as the
  visible part, and a PPU turned on in its first cycle at double speed is a dot
  ahead. `Core::reset` restarts `ticks` and leaves the scheduled poll where it was
  (`core/core.cpp:685`), and a state saved by a frontend that does not poll brings a
  poll that has passed (`core/core.cpp:628`).
- APU. `update_nr43` looks at the 14-bit counter through a `uint8_t`
  (`audio/apu.cpp:2168`): a new shift of 8 or more never clocks the shift register,
  against the comment above it. `update_nr13` ignores a write while
  `period_reloaded` is set, which nothing clears when the sweep stops
  (`audio/apu.cpp:1745`). The wave channel shifts by `nr32.volume - 1`, -1 at volume 0.
  `trigger_delay < 4` at NR44 holds only because triggers are two machine cycles apart.
- Cartridges. `factory.cpp` swaps the templates of ROM + RAM with and without battery
  (around line 280) and guards a template of 8 MB by the test for 4 MB. MBC7 returns the
  clock at the bit of the chip select (`mbc7.tpp:97`). HuC3 asserts `command < 0x07`
  and accepts command 7 (`huc3.tpp:167`). MBC3 counts seconds out of range on to 255 and
  catches up, when its clock runs again, the seconds it was stopped
  (`mbc3.tpp:152`). A reset wipes RAM and EEPROM that a battery keeps. Without
  `ENABLE_RTC_SYSTEM_TIME` a stopped console's clock runs four times as fast
  (`stop/stopcontroller.cpp:54`).
- Memory unit. `load_state` tests `ENABLE_BOOTROM` the wrong way round; KEY1, unmapped
  for a DMG cartridge, is not mapped again for a CGB cartridge loaded after it
  (`bus/cpubus.cpp:458`).

## 4. The proofs

TLAPS checks these for every value of the constants that the named assumptions
allow (`TimersAssumption`, `CpuAssumption` and `SpeedSwitchAssumption`,
`SerialAssumption`, `RunLoopAssumption`, `PollingAssumption`, `BusesAssumption`,
`OamDmaAssumption`, `VramDmaAssumption` and `TransfersAssumption`, `BankingAssumption`,
`Mbc3ClockAssumption`, `Huc3ClockAssumption` and `EepromAssumption`, `PpuAssumption`,
`VideoAssumption`, `TransferAssumption` (a tile of six pixels or more: the fetcher takes six dots
for one; finitely many objects), `ApuAssumption` with those of its parts; TLC evaluates all of
them in the runs). Each proof module first shows an inductive invariant, one
step per action.

- **TimersProofs**: type correctness, the fresh latch, one increment per
  cycle, the overflow diagram, and, at single speed, requests lost only to a
  write of IF. `OneIncrementPerCycle` is not inductive: a write may count one
  edge, then the tick another. `IInv` adds that a counted increment *leaves the
  latch low*, so the tick that follows has no falling edge to see; the same for a
  reload that is pending or under way.
- **CoreCycleProofs**: `PhaseMatchesTick`, `SwitchesKeptApart` (with its
  `NoOverlappingSwitch`), `EiDelay`, `StopSeesEveryPress`, for any length of the
  switch and any set of opcodes, targets and sources. `PhaseInv` adds the parity of the CPU's position
  at every stage and where the countdown into double speed stands relative to
  it: the change happens at position 0. `DmaInv` ties the DMA's block to the
  countdown out of the switch and to what the halted CPU can still do (no write
  is pending, no STOP can be executed while something of a switch is left).
  `StopInv` adds that a requested STOP is entered before the cycle ends, and that
  the one micro-operation that may run until then is the first of an instruction,
  which writes nothing: P1 and the keys are those the STOP was judged on.
  `CoreTyped` gives the types, which count: a position past the timing tables, or a
  countdown past its end, would be outside them. `InterruptsAlwaysInOrder` needs
  what a CPU near a switch may still have in flight: a switch is entered between
  instructions (`AnswerNear`), what is taken back was taken back by a running CPU
  (`TakenBackRunning`), what is being served still pends until it is acknowledged
  (`ServedStaysPending`), and while a switch blocks interrupts none is near
  (`BlockedInSwitch`).
- **SerialLinkProofs**: `PortsInStep` (type correctness and `ExchangeInStep`), `BytesSwapped`,
  `CompletionSignalled`, for bytes of any width and any clock. The invariant is
  inductive with `BlockedInTurn`; the work is in `MixMore`: shifting `Mix(own,
  others, k)` by the first bit of the other side is `Mix(own, others, k + 1)`.
- **RunLoopProofs**: `FrameBounded`, `BurstBounded`, `LoopsMatchMachine`,
  `WholeWithoutBursts` (`WholeInv`: without bursts the index of the counting loop is
  never ahead of the cycles of the frame). The bound on a frame needs `RenderedInv`: after the counting loop the cycles of the
  frame are measured against the dot counter and the dots held, which grow by 4
  together until VBlank. Held dots are the only way to lengthen a frame: it is
  `FrameBound(held)`, for every `MaxHeld`, and the exact `Artificial` and one frame when the
  PPU is never held.
  `PollAlwaysAhead` is the same for the two counters of `handle_input`, in
  `InputPolling`.
- **TransfersProofs**: `BusesHeldInTransfer` and `BytesInOrder`, for any length of OAM,
  chunk, count and instruction. The invariant first says who holds the CPU and each
  bus at every stage of a T-cycle, then keeps each mover's bytes in step with the
  T-cycles it has been given. That HDMA never meets a second request is arithmetic:
  `InTime` bounds the cycles gone since HBlank began and those a chunk still needs by
  `4 * MinCycles` T-cycles, so the chunk is over before the next HBlank. That sum is
  what `TransfersAssumption` asks of the PPU.
- **CartridgeSlotProofs**: `BanksAsTable`, and `ImplementsBankedMemory`: every mapper
  implements the abstract memory. `BankInv` says that the registers are a function
  (`TableRegs`) of the bytes last written to each area; each mapper's write is one
  lemma, and the arithmetic of joined and masked bits another. `ClocksKeepTime`: what
  carries add up to is proved for digits of any base, first one carry (`CarrySeconds`
  to `CarryDays`), then a tick of one second and one of many (`SecondAdvances`,
  `SecondsAdvance`); the invariants are the types and the property itself.
  `EepromObeys`: `Follows` says for each state of the chip what it must have heard since it was
  selected, and what instruction, parameter and remaining output are of that; each
  state's rising clock is one lemma (`InstructionHeeds` and so on). That an idle chip
  was told nothing follows from it too. `SlotTypeOK`, and `SlotIsItsParts`: a step of
  the slot is one of each part, or leaves it alone. `Huc3ClockAssumption` says that
  powers of `Nibble` are positive numbers, which the provers are not told.
- **PpuProofs**: `PpuTypeOK`, `DotsAndBusesAgree`, `EveryWriteSeen`, and `ImplementsFrameModes`: the
  schedule implements `FrameModes`. `PpuInv` has a *plan*: for each selector the
  dots, mode, lines and buses it may find. It adds that `last_ly` follows LY, that
  a PPU that is off waits at dot 0, that STAT shows a transfer at once, and that a
  write is over after two dots. Each function of a dot maps a planned state to
  planned states and to one step of `FrameModes` or none.
  `FramesAlwaysInterrupt` says of a frame no write disturbs how often it requests STAT,
  for every set of enabled sources and every LYC, and needs an invariant of the dots
  between (`FrameInv`). `LineHigh` says when the line is high: LYC is compared
  with the line LY last showed while it was compared (`Compared`), and the mode is HBlank
  or VBlank. `LineFollows` ties the code's state to it: the flag is that comparison, a
  request noted is one of a line that rose in the dot before (`RisePlace`), and
  `last_stat_irq` is the line but where the scan that was tried left it behind
  (`StalePlace`) or the frame still settles. `CountRight` says what was requested and
  noted so far: `Due` of the modes that have begun, and one for LYC once it was met. Every
  dot changes none of this or is one of seven turns (`DotTurns`), and each turn that
  raises the line owes one more (`TurnCounts`, `ScanCounts`, `FrameCounts`). The
  one request nobody is owed is counted too (`Early`): in `hblank_452`, with HBlank
  and LYC enabled and not the scan, LYC of the next line drops `last_stat_irq` while
  HBlank holds the line, and HBlank is requested again. With LYC and other sources
  enabled that leaves `Rows + 2` as the most a frame may request.
  `PictureAlwaysInStep`, on `Video`, reads the plan as a *position* in the frame
  (`Position`: the dots of the lines before and of this one). While the LCD shows a
  frame, its ticks are the position, the tick under way and the ticks missed
  (`InStep`), and the row to be shown next is whole once the PPU is past its pixels
  (`RowReady`). After the PPU is turned on, `WillWait` keeps the LCD's counter ahead
  until the LCD waits. It needs `MaxLost` to be less than the ticks from the last pixel
  of a row to the tick that shows it, as `VideoAssumption` says.
  `AssertionsAlwaysHold`, on `PixelTransfer`: each function of a dot is a lemma, and
  `RowKept` adds what a dot leaves behind: an object is fetched only while the
  background queue has pixels or a tile waits to fill it (`TileWaits`), no object is
  left in a column that was passed (`PastDone`), and a row's place is one its selector
  knows (`PlaceKept`).
  `RowAlwaysInBounds`, with `RowKept`: no dot is lost twice. Two sums bound the dots of a row
  (`OnTime`): `Floor`, its columns and six dots for each object served, and `Accounted`,
  which adds five for each object still to come or under way and six for each window
  begun. The dots that the fetch under way still needs (`FetchLeft`, `ObjLeft`, up to
  the pop that ends it) are added to those gone by, so that waiting for them spends
  nothing: one clause each for an object being fetched (`InObject`), a window's first
  tile (`InWindow`), a tile that comes while the queue is drained (`TileComes`) and one
  that is late (`InBudget`), and a trigger not yet handled (`InTrigger`).
  `QueueOutlasts` is why a tile costs nothing when nothing interrupts it: a queue of six
  pixels or more outlasts the six dots of the fetch.
- **ApuProofs**: `SoundingIsPowered`, for every program, length and divider:
  `PowerInv` adds the types of the channel and of the pending write, and every operation
  of `SoundChannel`, `NoiseChannel` and `PeriodSweep` is a lemma: it keeps a
  powered channel powered or silent. `ApuTypeCorrect` types every counter.
  `RetriggerAlwaysInTable`: a delay of 4 was loaded by the last write
  (`TrigInv`), and the tick counts it before the CPU can write again.
  `StepsAlwaysKeepTime`: the bit of DIV last seen tells which half of its interval the
  divider is in (`SeqInv`), through writes of DIV, NR52 and both switches of speed, so
  two steps are a whole interval apart unless one of those came between; an
  envelope's countdown is the pace less the eighth steps since its last one
  (`EnvInv`).

Model-checked only: every liveness property, as `ENABLED` is out of the prover's
reach (`TimerFires`, `NothingHoldsCpu`, `MasterFinishes`, `TransfersEnd`, `FrameReturns`,
`LcdComesBack`).

## 5. Not modelled

- In `CoreCycle`, HDMA holding the CPU; in `Transfers`, a speed switch or a STOP
  during a transfer and writes to VRAM that meet the PPU: the product of the two is past
  what TLC can check in minutes. The data on the buses and its decay.
- Registers, flags and opcodes other than the control ones, and the HALT bug's program
  counter: `tick_microop` runs them the same way whatever they compute.
- Colours, palettes, tile numbers, addresses and data, and which objects the OAM scan
  finds; duty cycles, wave positions and wave RAM, the bits of the shift
  register, panning, PCM registers, sampler and filter: data that no control looks at.
- MBC7's accelerometer, the rumble motor, infrared, MBC3's latched copy and HuC3's read
  nibble: plain copies.
- The DMG build, chosen at compile time: its delays and glitches are other code in the
  same functions.
- `save_state` and `load_state` of the components: two lists of fields to compare, with no step
  between. Only the core's own counters, which a load moves under a running
  frame, are modelled.
- The debugger, the memories, the map of registers by operating mode, boot ROM, the cartridge's
  header, the extra serial endpoints: tables, plain storage, or text.
- The frontends but for their calls of the core and the cable: windows, menus, sound,
  files.

A large part of the repository's lines are tables and texts
(`ppu/pixelmap.h`, `lcd/colormap.h`, `debugger/ansi.h`, the debugger's front end, the
vendored `libretro.h`) and opcodes that differ in the registers they touch.
