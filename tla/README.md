# Models of the NiteFury program

The program (`src/main.c`) runs on a Raspberry Pi and drives an FPGA card over PCIe: it brings up a
test pattern generator, blinks LEDs from two timers, and streams video frames by DMA into shared
memory. Below it are Xilinx bare-metal drivers, ported so that each register access is a `pread` or
`pwrite` of a device file. This directory holds TLA+ models of that system, what TLC checks of
them, and proofs.

Contents: [1 inventory](#1-inventory), [2 modules](#2-modules-and-the-code), [3 runs](#3-runs),
[4 fairness](#4-fairness), [5 proofs](#5-proofs), [6 findings](#6-what-the-code-does-not-do),
[7 not modelled](#7-not-modelled), [8 plan](#8-plan).

## 1 Inventory

| Component | State it keeps | Operations | What makes it correct |
|---|---|---|---|
| Main program, `main.c` | LED and reset-line registers of the card, the loop variable, the process's files | `main`, `tpg`, `tpg_reset` | The polling loop handles each expiry once and ends; the generator is configured when streaming begins and stopped after success, whatever an earlier, killed run left |
| Frame stream, `streaming2` in `main.c` | private input buffer, shared memory (counter and rows), three more resources | system calls, DMA read loop, unpacking, the counter | Counter advances over whole frames only; nothing leaks; a key ends it; each pixel lands at its place |
| Timer/counter driver, `xlnx_libs/tmrctr` | per timer: control register TCSR, load register, counter; `IsReady`, `IsStarted...`, `IsPwmEnabled`, handler, statistics | initialise, start, stop, reset, options, self test, PWM, interrupt handler | Flags and hardware agree; a reset is always released; an interrupt is acknowledged and changes nothing else |
| TPG driver, `xlnx_libs/v_tpg` | control, interrupt and data registers; two callbacks | start, auto restart, setters and getters, interrupt enable/clear, handler | An event reaches its callback or stays pending; setters take effect and change nothing else |
| System monitor driver, `xlnx_libs/sysmon` | configuration and sequencer registers, alarms, interrupts, shadow of CONVST | setters, getters, self test | Sequencer registers change in safe mode only; a setter changes only its own bits; a conversion that is started starts, after any kill |
| GPIO and BRAM drivers | data/direction registers; interrupt enable and toggle-on-write status registers | read, write, set, clear, interrupt enable/disable/clear | Clearing clears what was asked for and nothing else |
| Video timings, `video_common` | the registered custom table | register, unregister; four searches in a table of modes; two functions that fill in a stream | A search ends and finds the first mode that matches; a stream's timing is consistent |
| Bus access, `sc_libs` | the device file | `SC_In32`, `SC_Out32` | Each access is one atomic read or write |
| Standalone, hardware description, build | none | types, assertions, addresses | |

How they interact. `main` calls the drivers; each driver call is a few bus accesses by way of
`sc_io.c`; the device changes its registers meanwhile. The timer, TPG, GPIO and system monitor
drivers are written for interrupts (a handler that preempts the caller and calls back); `main` uses
polling only. `streaming2` shares memory with unknown reader processes. The card and the shared
memory outlive the program, which can be killed anywhere and run again.

What is hard here, in short: read-modify-writes of a register that the device and an interrupt
handler change as well; flags of the driver that must agree with such a register; orders of two
writes that only matter to an interrupt, a kill or another process between them; runs that begin on
the state of a run that was killed; failures half way through; wrap-around and padding. The list
`hazards` of `PROJECT.json` names each at its line, with the property that covers it or the reason
why none does: the code has it wrong (section 6), or it is not modelled (section 7).

## 2 Modules and the code

```
 NiteFury ---- T == INSTANCE TmrCtr            main(), over the timer driver
 NiteFury <- NiteFuryProofs --- S == INSTANCE TmrCtrProofs
 TmrCtr <- TmrCtrInv <- TmrCtrProofs
 TmrCtr <- TmrLoads <- MCTmrLoads              load registers, for a PWM application
 TmrLoads, TmrCtrProofs <- TmrLoadsProofs
 FrameStream -- Feed == INSTANCE FrameFeed     streaming2() implements the feed
 FrameStream <- FrameStreamProofs
 FrameUnpack <- FrameUnpackProofs              the unpacking loops of streaming2()
 FrameUnpack <- MCFrameUnpack                  its finite inputs for TLC
 BitFields <- SysMonCalls, TpgCalls, GpioCalls <- DeviceSettings <- DeviceSettingsProofs
 DeviceSettings -- Abstract == INSTANCE Settings   what a driver promises of its settings
 IrqRegs <- IrqRegsProofs                      toggling interrupt registers, TPG handler
 VideoModes <- VideoModesProofs                the mode searches, over any table
 VideoModes, VideoTimings <- MCVideoModes      the same on the table of the repository
```

**TmrCtr**, the timer driver and its device. TCSR of each timer is the set of its bits that are 1
(`tcsr`). A driver call is the sequence of its bus accesses and flag updates, queued in `todo[c]`
for context `c`: the main program, or the interrupt service routine. The actions `DoRead`,
`DoWrite`, `DoStore`, `DoStarted`, `DoPwm` take one step of a call; `reg[c]` is the local variable
that the C function read TCSR into, so a write puts back a copy that may be stale. Operators with
the names of the functions (`Start`, `Stop`, `Reset`, `PwmEnable`, ...) are the sequences,
`Call...` the entries with their guards. `TakeInterrupt` preempts the main program between any two
steps (only between calls if the application masks the interrupt: constant `Masked`); `DoTest` and
`DoAck` are the branches of `XTmrCtr_InterruptHandler`, which call back and look again. The device:
a write leaves the register as `AfterWrite` says (INT is cleared by writing 1, but not while the timer
holds at an expiry: `xtmrctr.c:255-258` and `xtmrctr_intr.c:150-156`), and `Expire` lets a counting
timer roll over at any moment, and hold when it has no auto reload; it holds until it is loaded or
given another mode (`StillHolds`). `Restart` is the
program killed or ended, and loaded again: flags cleared, card as it was. Abstracted: the counts,
and therefore how long a period is. The assertions of the code are empty in the default
Release build; they are read as preconditions.

**TmrLoads** extends TmrCtr with the two load registers, for an application of the PWM functions that
takes no interrupts and may use every other call: the writes of a load register are queued in `loads`,
each with the place between the steps of `todo` where the code makes it, and `RoundDiv`, `Clocks` and
`Valid` are the arithmetic of `XTmrCtr_PwmConfigure` in words of `Word` numbers (2^32 in C). Two
history variables: `wave` is the last request the function accepted (none after another call has
written a load register), `rewritten` the timers whose register `XTmrCtr_InitHw`, `XTmrCtr_SetOptions`
or `XTmrCtr_SelfTest` has stored whole since PWM was enabled.

**FrameFeed** is what a reader of the shared memory may rely on: a counter that advances by one,
exactly when every row holds the new frame. **FrameStream** is `streaming2()`, with one action for
each system call and its failure; the unit of data is the row, and a row carries the number of its
frame. A DMA read brings 1 row to all, nothing, or an error. The writes of the program become
visible to another process one location at a time, in no order (`RowVisible`, `SignalVisible`):
the program has no barrier and the processors it is built for give no order. `Restart` keeps the
shared memory, as the kernel does.

**FrameUnpack** is the two nested loops that unpack a frame, one word a step, with width, height
and contents as parameters. A word is two numbers of 30 bits (shifts and masks become division and
remainder); everything else is the index arithmetic of the code.

**NiteFury** is `main()`: `script` is the sequence of accesses it still has to make, which `Poll`
and `Streaming2` extend or cut short. It instantiates TmrCtr on its own variables, takes its calls
and device from there, and claims to refine it (`TimersRefined`). Of the generator's registers it
keeps the groups that are written together, of the LEDs one bit each. `expired` and `phase` are
history variables: which timers have an expiry in this run that was not handled, and whether each
pair of LEDs began equal. A register access is atomic; the read and the write of an LED toggle are
one step, as only `main` touches those registers. While the reset line is low the generator's data
registers may or may not be cleared: the code does not say, so both happen.

**DeviceSettings** is a program that configures one device through its driver: system monitor,
generator or GPIO. A register is the set of the bits in it that are 1 (`BitFields`). For each
function of a driver, `SysMonCalls`, `TpgCalls` and `GpioCalls` have the operator of the same name:
the sequence of writes (`W`: register and value) it makes, given the registers it reads, or the
empty sequence if it fails; and the getters, which make up the record of the device's settings. In
DeviceSettings a call puts its writes into `todo`, and `BusWrite` performs them one by one; `Kill`
may come between any two, and `Start` loads the program again: the driver's shadow `mask` is
renewed, the card is as it was, and for the system monitor the initialisation resets the core.
**Settings** is the abstract specification: a call changes the settings it is asked to change, ends
when all of them have their new value, and no other setting ever changes, whatever registers they
share. The variable `asked` carries, for each call, which settings the function's documentation says
it sets; where the code also clears others, `asked` names them, with the code's line in the map.

**IrqRegs** is the group of interrupt registers that GPIO, BRAM, system monitor and generator have
in common: global enable, enable, and a status register in which an event sets a bit and a written 1
toggles it. A read and the write that follows are two steps; events come between any two steps, and
`XVTpg_InterruptHandler` (`EnterHandler` to `CallBack`) between any two of the application. The
application either polls or leaves the status to the handler, never both: exclusion is
the application's duty (`xsysmon.h:99-101`, `xbram.h:34`), only the generator's driver has a handler,
and a second clearing of the same bit would set it again.
For the same reason `TpgInterruptClear`, which writes its mask unread, is called with bits that were
read as pending. `happened`, `owed` and `taken` are history variables: events since the bit was
cleared, events nobody has served yet, and what the polling application has cleared but not served.

**VideoModes** is the search for a video mode in `xvidc.c`, with every turn of a loop as a step:
`Bisect` by width, `Rewind` to the first mode of that width, `Scan` forward, `Walk` to the mode with
the asked kind of blanking. None of the last three counts: they end because of what the table
holds, and `ScanBehindTable` is the read behind it. What that read finds is not the program's: the model
ends the search there, in one of the ways the code can, and leaves out that it may read on and on if
the width found there agrees; `SearchEnds` says nothing of that case. `Register` and `Unregister` change the custom
table, `SetVideoStream` and `Set3DVideoStream` fill in a stream from a result (16 bit fields wrap).
The table is a parameter; **VideoTimings** has the 208 rows of the repository and the enumeration of
their identifiers, row by row, and **MCVideoModes** joins the two.

In every module, an operator that nothing uses, placed before one of nearly the same name, is that
piece of code with a mistake. `PROJECT.json` (`mutants`) says which property each one breaks: this
shows that the property can fail at all in the run's bounds.

## 3 Runs

State counts are TLC's distinct states.

| Run | States | What it shows |
|---|---|---|
| `TmrPreempted` | 2,986,944 | The handler may preempt any call between any two accesses, and the program may be killed there. No reset stays unreleased (`LoadReleased`), no timer is enabled that the driver holds for stopped (`EnabledIsStarted`), the handler changes no mode bit (`HandlerKeepsModes`). |
| `TmrMasked` | 92,453 | The application masks the interrupt during its calls and its callback may stop or start the timer. Besides `EnabledIsStarted`: only a start turns a timer on (`OnlyStartEnables`), and each requested interrupt is acknowledged in the end (`InterruptServed`), that of a one-shot timer included, which the device keeps up until the timer is disabled and reloaded. |
| `TmrPwm` | 1,701,818 | Every call of an application without interrupts: `IsPwmEnabled` tells the truth of each timer that initialisation, options and self test have not overwritten (`PwmFlagTruthful`), the load registers hold the wave accepted last, to half a clock (`WaveAsAsked`), disabling keeps what a new enable needs (`PwmDisableKeepsConfiguration`). |
| `FrameStream` | 100,966 | `streaming2` under every failure, kill and key press: released exactly what it holds (`ReleasesExactly`), refines the feed (`FeedRefined`), a key ends it (`KeyEnds`). |
| `FrameUnpack` | 8,790 | The loops stay in both buffers (`InBounds`) and each pixel passed is in place, to the nearest byte (`FrameCorrect`). |
| `NiteFury` | 37,216 | `main` with kills and reruns at any access: `ExpiriesCounted`, `LedsTogether`, `StreamsConfigured`, `StoppedOnSuccess`, `TimersRefined`, `PollingEnds`. |
| `DeviceSettings` | 19,848 | Every setter of system monitor, generator and GPIO, after every other, with kills between any two writes: it changes what it is for and nothing else (`KeepsTheOthers`, the refinement of Settings), a started conversion starts (`ConversionStarts`), the converter is out of reset between calls (`AdcReleased`), the sequencer rests while its registers are written (`SequencerAtRest`). |
| `IrqRegs` | 77,091 | Events and the handler between any two accesses: no write to a toggling register drops or invents an event (`PendingExact`), none is lost (`NoEventLost`), the handler serves each enabled one (`EventsServed`). |
| `VideoModes` | 178,987 | The searches over the real table: the first match is found (`FirstMatch`), the table is left only for the widest modes (`BehindTableOnlyForWidest`) and NULL used only behind the last (`CrashOnlyAfterLast`), reduced blanking is found (`ReducedBlankingFound`), streams are consistent, packed ones too (`StreamConsistent`), every search ends (`SearchEnds`). |

Three more runs each show one statement of a comment that the code does not keep: section 6.

Bounds, and why they are enough:

- *Timers*: both timers of the device, all twelve kinds of calls between the three runs. The option
  sets of a run tell apart what the handler tells apart: interrupt on or off, auto reload or hold.
  Each call may follow each, any number of times: nothing bounds the length of a behaviour, the
  state space is finite as it is. `StatsModulus` is 2^32 in the program; with 1 and 2 the count
  wraps at once, and no other variable depends on it. In `TmrPreempted` auto reload comes from
  `XTmrCtr_PwmConfigure`, which keeps the interrupt enabled; the second `XTmrCtr_Initialize` of one
  run of the program is left to `TmrMasked`. `TmrPreempted` also leaves out callbacks that start
  or stop a timer: the driver demands exclusion for them (`xtmrctr.h:84-88`), and `TmrMasked` has
  them. `TmrPwm` has every call that makes sense without interrupts, that is all but
  `SetHandler` and `ClearStats`, and one option word: to its properties only matters that the
  whole register is stored, and the theorems have every word without the interrupt. Its numbers have
  5 bits and a clock takes 4 ns: requests at the least that is accepted, one below, between two
  clocks, with the high time longer than the period, and at the wrap-around.
- *FrameStream*: 2 rows, so that a frame can be half read and half written; counter modulo 3, so
  that it wraps within `MaxFrames` = 4 frames over several runs of the program. `Kbhit` begins no
  frame after `MaxFrames`, with the key still free to be pressed then.
- *FrameUnpack*: widths 1, 2, 3, 8, 9 are odd, even, one multiple of the padding and one pixel more;
  1920 needs no padding. All pixels are the same but one, which takes every place and component,
  with values at both ends of the range and at roundings (`OneMarked`). Deadlock is not checked:
  the loops end.
- *NiteFury*: nothing is bounded. Kills may repeat for ever.
- *DeviceSettings*: `MaxCalls` = 2, from a fresh card and from one with every field set. A call
  reads registers and the shadow, so it can go wrong because of the card it finds or of one call
  before it; both starts and every pair of calls are there. The theorems need no bound. Arguments
  are the ends of each field's range and something in between; `ThresholdsUsed` takes one of each
  group of threshold registers and the one that shares its register with the shutdown switch (3).
  The program may stop: deadlock is not checked.
- *IrqRegs*: two sources, which is what the generator has, and the least with which one source's
  clearing can disturb another's. Nothing else is bounded.
- *VideoModes*: the real table and two custom ones, a mode that hides a standard one with its
  variant of reduced blanking, and a mode of a new size. `AllQueries` asks every row of the table
  with every function, and the same with a rate, a width and a vertical total that no row has. A
  crash is an end: deadlock is not checked. `VideoModeIds` asks for the rows of three widths.
- `TmrPwmFlag` has the constants of `TmrPwm`.

## 4 Fairness

- TmrCtr: weak fairness of each context's steps and of the handler's branches (a function that was
  called goes on, the processor does not stop), strong fairness of `TakeInterrupt` (the line is a
  level that stays asserted until it is served; masking during calls makes the action come and go).
  Nothing forces a call, a restart or an expiry.
- FrameStream: weak fairness of the steps of `streaming2`. This includes that a DMA read returns in
  the end: the code has no timeout, and if the read blocks for good, so does the key.
- IrqRegs: weak fairness of the handler (the interrupt is a level, and a handler that was entered
  returns). Nothing forces the application or an event.
- VideoModes: weak fairness of the search (a function that was called runs).
- NiteFury: weak fairness of the program, and of `Expire(t)`: a timer that counts rolls over in the
  end. `PollingEnds` allows a kill as an end.

## 5 Proofs

All checked by `tlapm`, for every value of the constants under the named assumptions.

| Module | Theorem | Assumptions used |
|---|---|---|
| `TmrCtrProofs` | `TypeCorrect`: `[]TypeOK`; `ResetsAreReleased`: `[]LoadReleased`; `NoTimerBehindTheDriver`: `[]EnabledIsStarted`; `NothingRevivesATimer`: `OnlyStartEnables` if `Masked`; `AcknowledgingKeepsModes`: `HandlerKeepsModes` | types of the constants; `ExclusionAssumption`: a callback that starts or stops a timer implies `Masked` |
| `TmrLoadsProofs` | `PwmFlagTellsTheTruth`: `[]PwmFlagTruthful`; `DisablingKeepsConfiguration`: `PwmDisableKeepsConfiguration`; `LoadsImplement`: `LoadsSpec => Spec`; `WaveComesOut`: `[]WaveAsAsked` | `NoInterruptsAssumption`: no callback is registered and no option word enables the interrupt; `ClockAssumption`, `RequestsAssumption` |
| `FrameStreamProofs` | `TypeCorrect`, `ReleasesCorrect`: `[]ReleasesExactly`, `FeedCorrect`: `Spec => Feed!Spec` | `HeightAssumption`, `CounterAssumption` |
| `FrameUnpackProofs` | `TypeCorrect`, `NoOverrun`: `[]InBounds`, `PixelsArrive`: `[]FrameCorrect` | sizes positive, inputs are words |
| `NiteFuryProofs` | `TimersAreUsedAsDescribed`: `TimersRefined`; `TimersAreRight`: TmrCtr's `LoadReleased` and `EnabledIsStarted`; `StreamsFromConfiguredGenerator`, `SuccessStopsGenerator`, `PairsBlinkTogether`, `ExpiriesAreCounted`, `TypeCorrect` | none, the module has no constants |
| `DeviceSettingsProofs` | `RegistersFit`: `[]TypeOK`; `CallsKeepTheOthers`: `Spec => KeepsTheOthers`, the refinement of Settings; `ConverterOutOfReset`: `[]AdcReleased`; `EveryConversionStarts`: `[]ConversionStarts`; `SequencerRests`: `[]SequencerAtRest` | any `MaxCalls`, thresholds that exist |
| `IrqRegsProofs` | `Typing`; `NothingDroppedNorInvented`: `[]PendingExact`; `EveryEventKept`: `[]NoEventLost` | at least one source |
| `VideoModesProofs` | `TypesHold`: `[]TypeOK`; `SearchCorrect`: `[]FirstMatch`; `LeavesTableAtEnd`: `[]BehindTableOnlyForWidest`; `RbSearchCorrect`: `[]ReducedBlankingFound`; `CrashesAtEnd`: `[]CrashOnlyAfterLast`; `StreamsSumUp`: `[]StreamConsistent` | `TableAssumption`: either kind sorted by width, different widths where the kinds meet; `GroupsAssumption`: the modes of one size and rate follow each other, only interlaced ones have a second field; `LinesAssumption`: the rows add up and their packed frames fit 16 bits; `CustomAssumption`, `QueriesAssumption` |

*Timer driver* (`TmrCtrInv`). The properties speak of moments when no call is in progress, or of
one register; they are not inductive, since what matters in between is what the calls still have to
do. The invariant `IInv` therefore describes the queues. `QueueInv`: how steps may follow each other
(each step that sets LOAD is followed by one that releases the same timer; a write of a copy comes
after a read of the same timer; ENT is set only after the flag). `ContextInv`: an interrupt that
preempted the main program contains only steps that start nothing and touch no flag — this is where
the exclusion assumption enters. `LoadInv`: a set LOAD bit has a step at the head of a queue, or an
unconditional clear in the main program's, that releases it; a stale copy contains LOAD only under
the same condition. `EntInv`: a copy with ENT set that is about to be written back belongs to a
timer whose flag is set. The lemmas show that each driver function is a well shaped block, that
taking a step or joining blocks keeps the shape, and then the four parts action by action.
`HandlerKeepsModes` has an invariant of its own, `CopyInv`: unless its callback starts the timer, the
handler's queue has only steps that set or clear no mode bit themselves, each write of a copy comes
after a read or a write of the same timer, and the copy has that timer's mode bits; the main program
is preempted meanwhile, and an expiry changes no mode.

*PWM* (`TmrLoadsProofs`). `PwmFlagTruthful` speaks of moments between two calls; what matters in
between is where the call in progress leads each timer. Its last step tells the goal: PWM on for both,
PWM off for both, or, for every other call, what the flag says of the timer, which is off if the
register is being overwritten (`Flag`, with `rewritten`). `Steady` says that no step in the queue leads
away from the goal and that each write of a copy comes after a read of the same timer, or after a
write that changes no mode; `Settled` that a step takes a given timer there; `Going` that each timer
is there or has such a step, and that the copy has the modes of the timer it will be written to. That
is inductive for all calls but `XTmrCtr_Start`, which stores 0 in all mode bits and then puts back the
copy it read: `InStart` has its four stages. The calls are `Segment`s, which can be joined. It needs
an application that takes no interrupt (`NoInterrupt` is part of the invariant; a handler's stale copy
is not the concern of this theorem), and nothing else of the application: for the calls that break the
flag (section 6) the theorem says what it is then worth. While `XTmrCtr_PwmDisable` runs the goal is
`"disabling"`, in which `Steady` also keeps the configuration: this is the second theorem.
`LoadsInv` says that the load registers hold the wave (`Carried`), or the call in progress still has
the missing writes and enough steps to reach them (`Configuring`; `Clearing` for the
initialisation); a kill may come anywhere, since only the history variable `wave` knows which
request counts. `ClocksAreNear` is the arithmetic: half a clock is added before the division, and
neither the sum nor the subtraction of two clocks leaves the word.

*Frame stream*. `IInv` adds to the types what is owned at each `pc`, which rows of the
private buffer, and then of the shared memory, hold the frame being read (so that a frame that is
unpacked is whole), and that the frame announced last is an earlier one. The refinement follows step
by step: `Kbhit` is `NextFrame` or a stutter, `UnpackRow` is `Draw`, `Signal` is `Announce`.

*Unpacking*. `TypeOK /\ FrameCorrect` is inductive. The lemmas are the arithmetic: the stride is the
number of words of a line, `Offset` of a pixel inside the frame keeps three bytes inside the buffer,
different pixels have disjoint bytes, the conversion is the nearest byte.

*Main program*. `Spec => T!Spec` needs that `main` makes a call only where the driver allows one. The
script of remaining accesses is therefore described whole: which accesses may follow which
(`Chain`), and which calls of the driver are still behind it (`ScriptInv`, `DriverInv`). With the
refinement the theorems of `TmrCtrProofs`, instantiated on the program's variables, hold of `main`.
The card's part (`Knows`, `CardInv`) says which register groups are as configured at each point of
the script; `LedInv` says how each pair stands while it is being toggled. `ExpiriesCounted` is the
hard one: it holds at the polling loop, but only because each timer was initialised, reset and
started in a certain order. `StageInv` follows those calls access by access: what TCSR may hold after
each, and which expiries are already counted.

*Settings of the devices*. `ConverterInv` says of each queued write of a call that touches the
converter what comes after it (a write that sets the reset or the start bit is followed by one that
clears it) and what the register holds before it. A kill breaks both, and they hold again since the
first write of a program is the reset of the core.
The refinement is a statement on some fifty functions, proved one by one. `Promise` says of a
sequence of writes what Settings says of steps: made one after the other from the present registers,
each keeps the settings the call is not for and takes the others towards what is asked, and the last
reaches it. Three kinds of lemmas carry it: the registers behind each setting (`Behind`,
`SettingIsLocal`), the fields of one register (`CFR0Good` and its like: what a written value must agree
with), and one lemma for each function, which says that its writes fit their registers and keep the
promise (`Good`). `SettingsInv` is that the writes still queued do; it needs besides that the
registers are of their widths, since otherwise an average or a divisor read back would have bits the
setter never wrote, and that `mask` fits the conversion register. `BusWrite` takes the first write of
the queue off, a kill leaves the registers as they are: both follow from `PromiseGoesOn` and
`NoPromise` alone, whatever the call. The arguments are the model's: the channels, channel sets and
words of the module, and every threshold that exists. `SequencerInv` says that the writes of a call go
all to registers of the sequencer, which then rests, or none does: the mode is in another register, so
the writes of such a call leave it as it was when it was looked at.

*Interrupt registers*. `PendingExact` alone is not inductive: it rests on what the caller knows to be
pending still being so when it writes. `OneClearer` says that only one context clears, `Known`
that what was read as pending is pending, `Awaited` that each owed event is pending or taken.

*Video modes*. One invariant for each phase: `Narrowing` (each mode of the kind with the asked width
is between `low` and `high`), `Rewinding` (`mid` has that width), `Scanning` (no earlier mode
matches). The search is right for every table that is sorted by width within its kinds. The walk to
reduced blanking starts at the first match of size and rate; that it misses no mode of its group
(`Walking`) needs that the group is not interrupted: `GroupsAssumption`, a property of the table that
no comment states. Where the walk has left the group, and where it uses NULL, follows from the same
invariant. The streams need no history: `SetVideoStream` and `Set3DVideoStream` compute what a row
with the right sums turns into, and `LinesAssumption` keeps the 16 bit sums from wrapping; a custom
mode is only concerned if its own numbers add up (`Consistent` in the property). TLC evaluates all
assumptions on the real table.

Only model-checked: the liveness properties (`InterruptServed`, `KeyEnds`, `PollingEnds`,
`EventsServed`, `SearchEnds`; the prover has no fairness or ENABLED). Every invariant and every other
property of the passing runs is a theorem.

## 6 What the code does not do

| Run | Statement | What the code does |
|---|---|---|
| `TmrPwmFlag` (`RunningIfFlagged`) | `xtmrctr.c:611`: PWM already running; `xtmrctr.h:267`: Is PWM Enabled | `XTmrCtr_SetOptions` (`xtmrctr_options.c:137`), `XTmrCtr_InitHw` (`xtmrctr.c:148-153`) and `XTmrCtr_SelfTest` (`xtmrctr_selftest.c:91-130`) clear the PWM mode and leave `IsPwmEnabled` set: the next `XTmrCtr_PwmEnable` does nothing. The run's trace is that of an option word; with only `"InitHw"` or `"SelfTest"` of the three in `Calls` there is one of that call |
| `NiteFuryMotion` | `xv_tpg.c:199`: sets motion enable for color bar pattern | `main.c:123` calls it before the pattern is selected, and the write is dropped |
| `VideoModeIds` | `xvidc.c:303`: returns the Video Mode ID that matches | rows 198 and 199 of the table (`xvidc_timings_table.c:675`, `:678`) are in the other order than their enumerators (`xvidc.h:287-288`): asked for 7680x4320 at 100 Hz, the function returns the identifier of 120 Hz |

Seven more properties say what a comment says and do not hold either. No run has them; added to the
.cfg named here, TLC shows the behaviour.

| Property, .cfg | Statement | What the code does |
|---|---|---|
| `PwmConfigureStops`, `TmrPwm.cfg` | `xtmrctr.c:534`: stop the timers if they are running | `XTmrCtr_PwmEnable` starts the timers without setting the flags that `XTmrCtr_PwmConfigure` tests |
| `PwmDisableStops`, `TmrPwm.cfg` | `xtmrctr.c:670`: disable timers | the enable-all bit set by `XTmrCtr_PwmEnable` is never cleared, so the timers count on |
| `DutyDefined`, `TmrPwm.cfg` | `xtmrctr.c:519`: the duty cycle that will possibly be achieved | a period of two clocks is accepted, loads 0, and `xtmrctr.c:590` divides by it; for other short periods the result is that of the loads, which are 2 less than the times |
| `LongPeriodRefused`, `TmrPwm.cfg` | `xtmrctr.c:569`: a period above the largest load value is refused | the sum in `XTC_ROUND_DIV` is 32 bits wide and wraps for the longest periods, the comparison is never true |
| `StartClearsInterrupt`, `TmrPreempted.cfg` | `xtmrctr.c:255-256`: the interrupt is cleared simultaneously | INT is cleared only if the copy read before had it: an expiry after that read stays pending |
| `ReadyWhenSignalled`, `FrameStream.cfg` | `main.c:260`: signal new frame is ready | nothing orders the pixel stores before that of the counter: on ARM, another process can see the counter before the rows. `rowsSeen` and `signalSeen` are in the model for this property alone |
| `FullBlankingFound`, `VideoModeIds.cfg` | `xvidc.c:612`: 0 = No reduced blanking | `XVidC_IsVtmRb` (`xvidc.c:1216`) knows the kinds 1 and 2 only: asked for 0, the search finds nothing, or crashes |

The models read ENALL as a level that enables both timers (`xtmrctr_l.h:95`, "Enables all timer
counters"); `PwmDisableStops` and `PwmConfigureStops` rest on this.

What reading the drivers showed besides, without a run:

- `XBram_InterruptGetStatus` (`xbram_intr.c:210`) reads the enable register, where its comment
  (`:185-203`) speaks of the status.
- `XVTpg_InterruptHandler` does not start the next frame, as `xv_tpg_intr.c:89-91` says it does: it
  leaves that to the callback.
- After `XSysMon_Reset` the shadow `Mask` is stale, and `XSysMon_StartAdcConversion` writes all of
  it, where its comment says it modifies only the CONVST bit (`asked` allows it in the model).
- `XSysMon_SelfTest` leaves its test value 0x55 in an alarm threshold.
- `XSysMon_SetAlarmThreshold` for the upper over-temperature threshold writes the shutdown switch as
  well, which shares the register.

## 7 Not modelled

- The counts of the timers, and so what `XTmrCtr_GetValue` and `XTmrCtr_GetCaptureValue` read and what
  the self test compares; load registers outside of the PWM application of TmrLoads.
- The pixel clock of a stream, a product that needs more than the 32 bits of TLC's integers.
- `streaming()`, which only a comment calls; it unpacks as `streaming2()` does.
- Failed bus accesses: `sc_io.c` ignores them, reads give 0. No property would survive and the code
  states none.
- `XBram_InterruptGetStatus`, see section 6; `main` uses no interrupt of that device.
- A second thread in a driver: the documentation leaves exclusion to the application
  (`xsysmon.h:99-101`, `xtmrctr.h:83-88`).
- `kbhit`'s change of the terminal's mode; readings of the XADC and their conversion in floating
  point; functions that return or print strings: no other state depends on them.
- A reader slower than a frame: rows are overwritten in place and nothing is promised to it.
- Look-up failures (`...LookupConfig`): the generated tables contain every address `main` uses.
- Assertions: they are empty in the Release build that `CMakeLists.txt` makes the default, and are
  read as preconditions.
- Generated and declarative files: `xparameters.h`, `x*_g.c`, CMake.

## 8 Plan

Done, in this order: TmrCtr with its proofs, FrameFeed and FrameStream with theirs, NiteFury
(composition), FrameUnpack with its proofs; VideoModes, DeviceSettings and IrqRegs with their
proofs; the proofs of NiteFury; TmrLoads; the rest of the proofs of VideoModes; those of TmrLoads;
those of DeviceSettings.

What is left out, and why, is section 7.
