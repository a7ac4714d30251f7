--------------------------- MODULE DeviceSettings ---------------------------
(***************************************************************************)
(* A program that configures a device through its driver: the system       *)
(* monitor, the test pattern generator or the general purpose outputs.     *)
(* Every call reads what it needs and then writes its registers one by     *)
(* one; between two writes the program may be killed, and the next program *)
(* starts on the registers it left.                                        *)
(*                                                                         *)
(* Abstract is the promise that a call changes the settings it is for and  *)
(* no other, whatever registers and fields they share.                     *)
(***************************************************************************)
EXTENDS SysMonCalls, TpgCalls, GpioCalls, FiniteSets

CONSTANTS MaxCalls,       \* bound on the calls
          ThresholdsUsed  \* the alarm thresholds that are set

ASSUME MaxCallsAssumption == MaxCalls \in Nat
ASSUME ThresholdsAssumption == ThresholdsUsed \subseteq (0 .. 19) \cup (24 .. 27)

VARIABLES
  dev,     \* the device: "sysmon", "tpg" or "gpio"
  regs,    \* its registers, offset -> bits that are 1
  mask,    \* InstancePtr->Mask of the system monitor
  up,      \* the program runs
  todo,    \* the writes the current call has still to make
  asked,   \* the settings the current call is for, and their new values
  calls    \* calls made so far

vars == <<dev, regs, mask, up, todo, asked, calls>>

NoSetting == [s \in {} |-> {}]

Settings ==
  CASE dev = "sysmon" -> SysMonSettings(regs)
    [] dev = "tpg"    -> TpgSettings(regs)
    [] dev = "gpio"   -> GpioSettings(regs)

-----------------------------------------------------------------------------
\* The values of the arguments.
Averages   == {{}, {0, 1}}
Modes      == {SAFE, {1}, SINGCHAN, {3}}
Channels   == {3, 4, 21}
ChannelSets == {{}, {8, 11}, {0, 5, 11, 16, 31, 32, 35}}
Words      == {{}, 0 .. 15}
PinSets    == {{}, {0}, 0 .. 3}

\* The registers as the program may find them: after power up, and as another
\* program left them.
Found(d) ==
  CASE d = "sysmon" ->
         {[r \in SysMonRegs |-> IF r = CONVST THEN WaitCyclesDefault ELSE {}],
          [r \in SysMonRegs |->
             CASE r = CONVST -> WAITCYCLES \cup TEMPUPDT \cup CONVST_START
               [] r = ARR    -> {0}
               [] r = CFR1   -> 0 .. 13
               [] OTHER      -> 0 .. 15]}
    [] d = "tpg" -> {[r \in TpgRegs |-> {}],
                     [r \in TpgRegs |-> IF r = ADDR.BCKGNDID THEN COLOR_BARS
                                          ELSE 0 .. BITS(r) - 1]}
    [] d = "gpio" -> {[r \in GpioRegs |-> {}], [r \in GpioRegs |-> 0 .. 3]}

\* A call that writes nothing has failed, and has nothing to change.
Does(writes, asks) ==
  /\ up /\ todo = <<>> /\ calls < MaxCalls
  /\ todo' = writes
  /\ asked' = IF writes = <<>> THEN NoSetting ELSE asks
  /\ calls' = calls + 1
  /\ UNCHANGED <<dev, regs, up>>

DoesKeepingMask(writes, asks) == Does(writes, asks) /\ UNCHANGED mask

-----------------------------------------------------------------------------
\* XSysMon_Reset clears the core logic; the registers of the hard macro, all
\* but the two of the core, keep their values.
WithThreshold(n, v) == { t \in Thresholds(regs) : t[1] # n } \cup ({n} \X v)
ResetAsks == UpdateSettings(WaitCyclesDefault)

Conversion ==
  /\ dev = "sysmon"
  /\ \/ DoesKeepingMask(Reset, ResetAsks)
     \/ DoesKeepingMask(ResetAdc, NoSetting)
     \/ DoesKeepingMask(StartAdcConversion(mask), UpdateSettings(mask))
     \/ DoesKeepingMask(SelfTest,
          ResetAsks ++ [thresholds |-> WithThreshold(1, Bits(85))])

TempUpdate ==
  /\ dev = "sysmon"
  /\ \/ Does(EnableTempUpdate(mask), UpdateSettings(mask \cup TEMPUPDT))
     \/ Does(DisableTempUpdate(mask), UpdateSettings(mask \ TEMPUPDT))
     \/ \E v \in Words :
          Does(SetTempWaitCycles(mask, v), UpdateSettings((mask \ WAITCYCLES) \cup Up(v, 2)))
  /\ mask' = todo'[1].val

SingleChannel ==
  /\ dev = "sysmon"
  /\ \/ \E a \in Averages : DoesKeepingMask(SetAvg(regs, a), [avg |-> a])
     \/ \E ch \in Channels, acq, event, diff \in BOOLEAN :
          DoesKeepingMask(SetSingleChParams(regs, ch, acq, event, diff),
            [channel |-> Bits(ch), acq |-> If(acq, CFR0_ACQ), event |-> If(event, CFR0_EC),
             diff |-> If(diff, CFR0_DU), mux |-> {}, calavg |-> {}])
     \/ \E ch \in Channels :
          DoesKeepingMask(SetExtenalMux(regs, ch), [mux |-> CFR0_MUX, channel |-> Bits(ch)])
     \/ \E div \in {Bits(8), Bits(255)} :
          DoesKeepingMask(SetAdcClkDivisor(div), [clkdiv |-> div, powerdown |-> {}])

Alarms ==
  /\ dev = "sysmon"
  /\ \/ \E alm \in {{}, {0, 9}, CFR1_ALM_ALL} :
          DoesKeepingMask(SetAlarmEnables(regs, alm), [alarms |-> alm])
     \/ \E cal \in {{}, {4}, CFR1_CAL} :
          DoesKeepingMask(SetCalibEnables(regs, cal), [calib |-> cal])
     \/ \E n \in ThresholdsUsed \ {3}, v \in Words :
          DoesKeepingMask(SetAlarmThreshold(n, v),
            [thresholds |-> WithThreshold(n, v)])
     \/ \E v \in Words :
          DoesKeepingMask(SetAlarmThreshold(3, v),
            [otvalue |-> Down(v, 4), otenable |-> v \cap OT_ENB])
     \/ \E v \in {{}, 0 .. 11} : DoesKeepingMask(SetOverTemp(regs, v), [otvalue |-> v])
     \/ DoesKeepingMask(EnableUserOverTemp(regs), [otenable |-> OT_ENB_VAL])
     \/ DoesKeepingMask(DisableUserOverTemp(regs), [otenable |-> {}])

Sequencer ==
  /\ dev = "sysmon"
  /\ \/ \E mode \in Modes : DoesKeepingMask(SetSequencerMode(regs, mode), [mode |-> mode])
     \/ \E b \in BOOLEAN : DoesKeepingMask(SetSequencerEvent(regs, b), [event |-> If(b, CFR0_EC)])
     \/ \E chs \in ChannelSets :
          \/ DoesKeepingMask(SetSeqChEnables(regs, chs), [seqch |-> chs])
          \/ DoesKeepingMask(SetSeqAvgEnables(regs, chs \ {0}), [seqavg |-> chs \ {0}])
          \/ DoesKeepingMask(SetSeqInputMode(regs, chs \cap 11 .. 31),
               [seqinput |-> chs \cap 11 .. 31])
          \/ DoesKeepingMask(SetSeqAcqTime(regs, chs \cap 11 .. 31),
               [seqacq |-> chs \cap 11 .. 31])

Pattern ==
  /\ dev = "tpg"
  /\ \/ \E name \in DOMAIN Plain, v \in {{}, COLOR_BARS} :
          DoesKeepingMask(Set(name, v), [s \in {name} |-> v])
     \/ \E v \in {{}, MOTION_EN} : DoesKeepingMask(Set_motionEn(regs, v), [motionEn |-> v])
     \/ \E v \in {{}, {0}, {1}} :
          DoesKeepingMask(Set_enableInput(regs, v),
            [enableInput |-> v, passthrough |-> If(v # {}, PASSTHR)])
     \/ \E b \in BOOLEAN :
          \/ DoesKeepingMask(Set_Interlaced(regs, b), [interlaced |-> If(b, INTERLACED)])
          \/ DoesKeepingMask(Set_Polarity(regs, b), [polarity |-> If(b, POLARITY)])

Gpio ==
  /\ dev = "gpio"
  /\ \E ch \in {1, 2}, v \in PinSets, pins \in {{}, 0 .. 3} :
       LET outputs(bits) == [s \in {Outs[ch]} |-> bits \ regs[Tri(ch)]]
       IN \/ DoesKeepingMask(SetDataDirection(ch, v),
               [s \in {Dirs[ch]} |-> v] ++ [s \in {Outs[ch]} |-> regs[Data(ch)] \ v])
          \/ DoesKeepingMask(DiscreteWrite(ch, v), outputs(v))
          \/ DoesKeepingMask(DiscreteSet(regs, pins, ch, v), outputs(regs[Data(ch)] \cup v))
          \/ DoesKeepingMask(DiscreteClear(regs, pins, ch, v), outputs(regs[Data(ch)] \ v))

\* The next write of the call reaches the device.
BusWrite ==
  /\ todo # <<>>
  /\ LET w == Head(todo)
     IN regs' = IF dev = "sysmon" /\ w.reg = SRR
                THEN [regs EXCEPT ![CONVST] = WaitCyclesDefault, ![ARR] = {}]
                ELSE [regs EXCEPT ![w.reg] = w.val]
  /\ todo' = Tail(todo)
  /\ asked' = IF todo' = <<>> THEN NoSetting ELSE asked
  /\ UNCHANGED <<dev, mask, up, calls>>

Kill ==
  /\ up
  /\ up' = FALSE /\ todo' = <<>> /\ asked' = NoSetting
  /\ UNCHANGED <<dev, regs, mask, calls>>

\* The program starts and initialises the driver's instance.
Start ==
  /\ ~up
  /\ up' = TRUE
  /\ mask' = WaitCyclesDefault
  /\ todo' = IF dev = "sysmon" THEN CfgInitialize ELSE <<>>
  /\ asked' = IF todo' = <<>> THEN NoSetting ELSE ResetAsks
  /\ UNCHANGED <<dev, regs, calls>>

Init ==
  /\ dev \in {"sysmon", "tpg", "gpio"}
  /\ regs \in Found(dev)
  /\ mask = {} /\ up = FALSE /\ todo = <<>> /\ asked = NoSetting /\ calls = 0

Next ==
  \/ Conversion \/ TempUpdate \/ SingleChannel \/ Alarms \/ Sequencer
  \/ Pattern \/ Gpio \/ BusWrite \/ Kill \/ Start

Spec == Init /\ [][Next]_vars

-----------------------------------------------------------------------------
Width(r) ==
  CASE dev = "gpio" -> 4
    [] dev = "tpg"  -> BITS(r)
    [] OTHER        -> IF r = CONVST THEN 18 ELSE 16

\* Every register holds a value of its width, and a pending write is to a
\* register of the device: the shifted arguments of the drivers fit.
TypeOK ==
  /\ DOMAIN regs = CASE dev = "sysmon" -> SysMonRegs [] dev = "tpg" -> TpgRegs
                     [] dev = "gpio" -> GpioRegs
  /\ \A r \in DOMAIN regs : regs[r] \subseteq 0 .. Width(r) - 1
  /\ mask \subseteq 0 .. 17
  /\ \A i \in 1 .. Len(todo) : todo[i].reg \in DOMAIN regs \cup {SRR}
  /\ DOMAIN asked \subseteq DOMAIN Settings
  /\ up \in BOOLEAN /\ calls \in 0 .. MaxCalls

\* XSysMon_StartAdcConversion: "The conversion is started when the CONVST bit is
\* set to 1 from 0".  No earlier call, nor one that a kill cut short, leaves the
\* bit set when a program sets it.
ConversionStarts ==
  dev = "sysmon" /\ todo # <<>> /\ Head(todo).reg = CONVST /\ CONVST_START \subseteq Head(todo).val
    => CONVST_START \cap regs[CONVST] = {}

\* A program that XSysMon_ResetAdc is not just resetting the converter for does
\* not run with it held in reset.
AdcReleased == dev = "sysmon" /\ up /\ todo = <<>> => regs[ARR] = {}

\* XSysMon_SetSeqChEnables and its like: "The sequencer must be in the Safe Mode
\* before writing to these registers".  The mode is looked at once, two or three
\* writes follow: at each of them the sequencer rests.
SeqRegs == { SEQ(n) : n \in 0 .. 9 }
SequencerAtRest ==
  dev = "sysmon" /\ todo # <<>> /\ Head(todo).reg \in SeqRegs => GetSequencerMode(regs) = SAFE

\* Every call changes what it is for and nothing else.
Abstract == INSTANCE Settings WITH value <- Settings, asked <- asked
KeepsTheOthers == Abstract!Spec
=============================================================================
