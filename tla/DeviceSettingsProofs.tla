------------------------- MODULE DeviceSettingsProofs -------------------------
(***************************************************************************)
(* The calls of a program on a device, for every sequence of calls of any  *)
(* length, every set of thresholds and a kill between any two writes: a    *)
(* running program does not leave the converter in reset and every         *)
(* conversion it asks for is started (first half); the registers hold      *)
(* values of their widths, and every call changes the settings it is for   *)
(* and no other (second half).  At the end: the sequencer's registers are  *)
(* written while it rests.                                                 *)
(*                                                                         *)
(* The second half is in four parts: what it is for a sequence of writes   *)
(* to keep the promise (Promise, Good), each function of the drivers keeps *)
(* it (the lemmas ...Good), the state follows (SettingsInv), and the       *)
(* theorems.                                                               *)
(***************************************************************************)
EXTENDS DeviceSettings, SequenceTheorems, TLAPS

\* No conversion is being asked for, and the converter is not held in reset.
NoStart   == CONVST_START \cap regs[CONVST] = {}
Released  == regs[ARR] = {}
Quiet     == NoStart /\ Released

Writes == [reg : Nat, val : SUBSET Int]

\* Calls that neither ask for a conversion nor touch the reset.
Harmless(w) == w.reg # ARR /\ (w.reg = CONVST => CONVST_START \cap w.val = {})
HarmlessCall(s) == s \in Seq(Writes) /\ \A i \in 1 .. Len(s) : Harmless(s[i])

\* The call in progress: of those that touch the converter each write has its
\* place, the initialisation finds whatever a killed program left.
InCall ==
  \/ HarmlessCall(todo) /\ Quiet
  \/ todo = CfgInitialize
  \/ todo = ResetAdc /\ Quiet
  \/ todo = Tail(ResetAdc) /\ NoStart
  \/ todo = StartAdcConversion(mask) /\ Quiet
  \/ todo = Tail(StartAdcConversion(mask)) /\ Released

Registers ==
  /\ DOMAIN regs = SysMonRegs
  /\ \A r \in SysMonRegs : regs[r] \in SUBSET Int
  /\ mask \in SUBSET Int /\ CONVST_START \cap mask = {}

ConverterInv ==
  dev = "sysmon" => Registers /\ (IF up THEN InCall ELSE todo = << >>)

-----------------------------------------------------------------------------
(* The fields and the registers.                                           *)

LEMMA Fields ==
  /\ \A n : Bits(n) \in SUBSET Int
  /\ \A s \in SUBSET Int, k \in Int : Up(s, k) \in SUBSET Int /\ Down(s, k) \in SUBSET Int
  /\ \A s, t, u \in SUBSET Int : Field(s, t, u) \in SUBSET Int
  /\ \A b, s : If(b, s) \in {s, {}}
BY DEF Bits, Up, Down, Field, If

LEMMA Masks ==
  /\ CFR0_AVG \in SUBSET Int /\ CFR0_MUX \in SUBSET Int /\ CFR0_DU \in SUBSET Int
  /\ CFR0_EC \in SUBSET Int /\ CFR0_ACQ \in SUBSET Int /\ CFR0_CHANNEL \in SUBSET Int
  /\ CFR1_SEQ \in SUBSET Int /\ CFR1_ALM_ALL \in SUBSET Int /\ CFR1_CAL \in SUBSET Int
  /\ SEQ00_CH \in SUBSET Int /\ SEQ02_CH \in SUBSET Int /\ SEQ04_CH \in SUBSET Int
  /\ SEQ06_CH \in SUBSET Int /\ SEQ_AUX \in SUBSET Int /\ SEQ_VUSR \in SUBSET Int
  /\ OT_ENB \in SUBSET Int /\ OT_ENB_VAL \in SUBSET Int /\ OT_VAL \in SUBSET Int
  /\ TEMPUPDT \in SUBSET Int /\ WAITCYCLES \in SUBSET Int /\ CONVST_START \in SUBSET Int
BY DEF CFR0_AVG, CFR0_MUX, CFR0_DU, CFR0_EC, CFR0_ACQ, CFR0_CHANNEL, CFR1_SEQ, CFR1_ALM_ALL,
       CFR1_CAL, SEQ00_CH, SEQ02_CH, SEQ04_CH, SEQ06_CH, SEQ_AUX, SEQ_VUSR, OT_ENB, OT_ENB_VAL,
       OT_VAL, TEMPUPDT, WAITCYCLES, CONVST_START

\* The registers other than the two of the converter.
OtherRegs == SysMonRegs \ {CONVST, ARR}

LEMMA RegisterFile ==
  /\ CONVST \in SysMonRegs /\ ARR \in SysMonRegs /\ CONVST # ARR
  /\ SRR \notin SysMonRegs /\ SRR # ARR /\ SRR # CONVST /\ SRR \in Nat
  /\ SysMonRegs \subseteq Nat
  /\ CFR0 \in OtherRegs /\ CFR1 \in OtherRegs /\ CFR2 \in OtherRegs
  /\ ATR_OT_UPPER \in OtherRegs
  /\ \A n \in 0 .. 9 : SEQ(n) \in OtherRegs
  /\ \A n \in (0 .. 19) \cup (24 .. 27) : ATR(n) \in OtherRegs
BY DEF SysMonRegs, OtherRegs, CONVST, ARR, SRR, CFR0, CFR1, CFR2, SEQ, ATR,
       ATR_OT_UPPER

LEMMA Offsets == CONVST \in Nat /\ ARR \in Nat /\ SRR \in Nat
BY DEF CONVST, ARR, SRR

LEMMA AnyWrite ==
  ASSUME NEW r \in Nat, NEW v \in SUBSET Int
  PROVE  W(r, v) \in Writes /\ W(r, v).reg = r /\ W(r, v).val = v
BY DEF W, Writes

LEMMA OneWrite ==
  ASSUME NEW r \in OtherRegs \cup {SRR}, NEW v \in SUBSET Int
  PROVE  W(r, v) \in Writes /\ Harmless(W(r, v)) /\ HarmlessCall(<< W(r, v) >>)
BY RegisterFile DEF W, Writes, Harmless, HarmlessCall, OtherRegs

LEMMA UpdateWrite ==
  ASSUME NEW v \in SUBSET Int, CONVST_START \cap v = {}
  PROVE  HarmlessCall(<< W(CONVST, v) >>)
BY RegisterFile DEF W, Writes, Harmless, HarmlessCall

LEMMA TwoWrites ==
  ASSUME NEW p \in OtherRegs, NEW q \in OtherRegs, NEW a \in SUBSET Int, NEW b \in SUBSET Int
  PROVE  HarmlessCall(<< W(p, a), W(q, b) >>)
<1>1. W(p, a) \in Writes /\ Harmless(W(p, a)) /\ W(q, b) \in Writes /\ Harmless(W(q, b))
  BY OneWrite
<1> QED BY <1>1 DEF HarmlessCall

LEMMA ThreeWrites ==
  ASSUME NEW p \in OtherRegs, NEW q \in OtherRegs, NEW r \in OtherRegs,
         NEW a \in SUBSET Int, NEW b \in SUBSET Int, NEW c \in SUBSET Int
  PROVE  HarmlessCall(<< W(p, a), W(q, b), W(r, c) >>)
<1>1. /\ W(p, a) \in Writes /\ Harmless(W(p, a)) /\ W(q, b) \in Writes /\ Harmless(W(q, b))
      /\ W(r, c) \in Writes /\ Harmless(W(r, c))
  BY OneWrite
<1> QED BY <1>1 DEF HarmlessCall

LEMMA Nothing == HarmlessCall(<< >>)
BY DEF HarmlessCall

LEMMA DefaultUpdate ==
  WaitCyclesDefault \in SUBSET Int /\ CONVST_START \cap WaitCyclesDefault = {}
BY DEF WaitCyclesDefault, CONVST_START, Up, Bits

LEMMA InTurn ==
  ASSUME NEW s, NEW t, HarmlessCall(s), HarmlessCall(t)
  PROVE  HarmlessCall(s \o t)
<1>1. s \in Seq(Writes) /\ t \in Seq(Writes) /\ Len(s) \in Nat /\ Len(t) \in Nat
  BY LenProperties DEF HarmlessCall
<1>2. /\ s \o t \in Seq(Writes) /\ Len(s \o t) = Len(s) + Len(t)
      /\ \A i \in 1 .. Len(s) + Len(t) :
           (s \o t)[i] = IF i <= Len(s) THEN s[i] ELSE t[i - Len(s)]
  BY <1>1, ConcatProperties
<1>3. ASSUME NEW i \in 1 .. Len(s) + Len(t) PROVE Harmless((s \o t)[i])
  <2>1. CASE i <= Len(s)
    BY <1>1, <1>2, <2>1 DEF HarmlessCall
  <2>2. CASE i > Len(s)
    <3>1. i - Len(s) \in 1 .. Len(t)
      BY <1>1, <2>2
    <3> QED BY <1>1, <1>2, <2>2, <3>1 DEF HarmlessCall
  <2> QED BY <1>1, <2>1, <2>2
<1> QED BY <1>2, <1>3 DEF HarmlessCall

-----------------------------------------------------------------------------
(* The calls of a program on the system monitor.                           *)

Begun(writes) ==
  /\ up /\ up' /\ todo = << >> /\ todo' = writes /\ regs' = regs /\ dev' = dev
  /\ Quiet /\ Registers

LEMMA CallBegins ==
  ASSUME ConverterInv, dev = "sysmon", NEW writes, NEW asks, Does(writes, asks)
  PROVE  Begun(writes)
<1>1. up /\ up' /\ todo = << >> /\ todo' = writes /\ regs' = regs /\ dev' = dev
  BY DEF Does
<1>2. todo # CfgInitialize /\ todo # Tail(ResetAdc) /\ todo # Tail(StartAdcConversion(mask))
  BY <1>1 DEF CfgInitialize, Reset, ResetAdc, StartAdcConversion
<1> QED BY <1>1, <1>2 DEF Begun, ConverterInv, InCall

\* A call that writes nothing but harmless values.
LEMMA Calls ==
  ASSUME NEW writes, Begun(writes), HarmlessCall(writes),
         mask' \in SUBSET Int, CONVST_START \cap mask' = {}
  PROVE  ConverterInv'
BY DEF Begun, ConverterInv, InCall, Registers, Quiet, NoStart, Released

LEMMA CallsKeepingMask ==
  ASSUME ConverterInv, dev = "sysmon", NEW writes, NEW asks, DoesKeepingMask(writes, asks),
         HarmlessCall(writes)
  PROVE  ConverterInv'
<1>1. Begun(writes) /\ mask' = mask
  BY CallBegins DEF DoesKeepingMask
<1> QED BY <1>1, Calls DEF Begun, Registers

LEMMA AtConversion ==
  ASSUME ConverterInv, Conversion PROVE ConverterInv'
<1> USE DEF Conversion
<1>1. ASSUME NEW asks, DoesKeepingMask(Reset, asks) PROVE ConverterInv'
  <2>1. HarmlessCall(Reset)
    BY OneWrite DEF Reset
  <2> QED BY <1>1, <2>1, CallsKeepingMask
<1>2. ASSUME NEW asks,
             \/ DoesKeepingMask(ResetAdc, asks)
             \/ DoesKeepingMask(StartAdcConversion(mask), asks)
      PROVE  ConverterInv'
  <2>1. (Begun(ResetAdc) \/ Begun(StartAdcConversion(mask))) /\ mask' = mask
    BY <1>2, CallBegins DEF DoesKeepingMask
  <2> QED BY <2>1 DEF Begun, ConverterInv, InCall, Registers, Quiet, NoStart, Released
<1>3. ASSUME NEW asks, DoesKeepingMask(SelfTest, asks) PROVE ConverterInv'
  <2>1. HarmlessCall(Reset)
    BY OneWrite DEF Reset
  <2>2. HarmlessCall(SetAlarmThreshold(1, Bits(85)))
    BY Fields, RegisterFile, OneWrite DEF SetAlarmThreshold
  <2>3. HarmlessCall(SelfTest)
    BY <2>1, <2>2, InTurn DEF SelfTest
  <2> QED BY <1>3, <2>3, CallsKeepingMask
<1> QED BY <1>1, <1>2, <1>3

LEMMA AtTempUpdate ==
  ASSUME ConverterInv, TempUpdate PROVE ConverterInv'
<1>1. PICK v : /\ v \in SUBSET Int /\ CONVST_START \cap v = {}
               /\ Begun(<< W(CONVST, v) >>)
  <2>1. ConverterInv /\ dev = "sysmon"
    BY DEF TempUpdate
  <2>2. ASSUME NEW asks, Does(EnableTempUpdate(mask), asks)
        PROVE  /\ mask \cup TEMPUPDT \in SUBSET Int
               /\ CONVST_START \cap (mask \cup TEMPUPDT) = {}
               /\ Begun(<< W(CONVST, mask \cup TEMPUPDT) >>)
    <3>1. Begun(<< W(CONVST, mask \cup TEMPUPDT) >>)
      BY <2>1, <2>2, CallBegins DEF EnableTempUpdate
    <3> QED BY <3>1 DEF Begun, Registers, TEMPUPDT, CONVST_START
  <2>3. ASSUME NEW asks, Does(DisableTempUpdate(mask), asks)
        PROVE  /\ mask \ TEMPUPDT \in SUBSET Int /\ CONVST_START \cap (mask \ TEMPUPDT) = {}
               /\ Begun(<< W(CONVST, mask \ TEMPUPDT) >>)
    <3>1. Begun(<< W(CONVST, mask \ TEMPUPDT) >>)
      BY <2>1, <2>3, CallBegins DEF DisableTempUpdate
    <3> QED BY <3>1 DEF Begun, Registers
  <2>4. ASSUME NEW c \in Words, NEW asks, Does(SetTempWaitCycles(mask, c), asks)
        PROVE  /\ Field(mask, WAITCYCLES, Up(c, 2)) \in SUBSET Int
               /\ CONVST_START \cap Field(mask, WAITCYCLES, Up(c, 2)) = {}
               /\ Begun(<< W(CONVST, Field(mask, WAITCYCLES, Up(c, 2))) >>)
    <3>1. Begun(<< W(CONVST, Field(mask, WAITCYCLES, Up(c, 2))) >>)
      BY <2>1, <2>4, CallBegins DEF SetTempWaitCycles
    <3>2. Up(c, 2) \in SUBSET Int /\ CONVST_START \cap Up(c, 2) = {}
      BY DEF Words, Up, CONVST_START
    <3>3. mask \in SUBSET Int /\ CONVST_START \cap mask = {}
      BY <3>1 DEF Begun, Registers
    <3> HIDE DEF Up
    <3> QED BY <3>1, <3>2, <3>3 DEF Field
  <2> QED BY <2>2, <2>3, <2>4 DEF TempUpdate
<1>2. mask' = v
  BY <1>1 DEF TempUpdate, Begun, W
<1> QED BY <1>1, <1>2, UpdateWrite, Calls

LEMMA AtSingleChannel ==
  ASSUME ConverterInv, SingleChannel PROVE ConverterInv'
<1>1. dev = "sysmon" /\ (up /\ todo = << >> => Registers)
  BY DEF SingleChannel, ConverterInv
<1>2. PICK writes, asks : DoesKeepingMask(writes, asks) /\ HarmlessCall(writes)
  <2>1. ASSUME NEW asks, NEW writes, DoesKeepingMask(writes, asks)
        PROVE  regs[CFR0] \in SUBSET Int
    BY <1>1, <2>1, RegisterFile DEF DoesKeepingMask, Does, Registers, OtherRegs
  <2>2. ASSUME NEW asks, NEW a \in Averages, DoesKeepingMask(SetAvg(regs, a), asks)
        PROVE  HarmlessCall(SetAvg(regs, a))
    <3>1. Up(a, 12) \in SUBSET Int
      BY Fields DEF Averages
    <3> QED BY <2>1, <2>2, <3>1, Fields, Masks, RegisterFile, OneWrite DEF SetAvg
  <2>3. ASSUME NEW asks, NEW ch \in Channels, NEW acq \in BOOLEAN, NEW event \in BOOLEAN,
               NEW diff \in BOOLEAN,
               DoesKeepingMask(SetSingleChParams(regs, ch, acq, event, diff), asks)
        PROVE  HarmlessCall(SetSingleChParams(regs, ch, acq, event, diff))
    <3>1. /\ regs[CFR0] \in SUBSET Int /\ If(acq, CFR0_ACQ) \in SUBSET Int
          /\ If(diff, CFR0_DU) \in SUBSET Int /\ If(event, CFR0_EC) \in SUBSET Int
          /\ Bits(ch) \in SUBSET Int
      BY <2>1, <2>3, Fields, Masks
    <3>2. (regs[CFR0] \cap CFR0_AVG) \cup If(acq, CFR0_ACQ) \cup If(diff, CFR0_DU)
             \cup If(event, CFR0_EC) \cup (Bits(ch) \cap CFR0_CHANNEL) \in SUBSET Int
      BY <3>1
    <3> QED BY <3>2, RegisterFile, OneWrite, Nothing DEF SetSingleChParams
  <2>4. ASSUME NEW asks, NEW ch \in Channels, DoesKeepingMask(SetExtenalMux(regs, ch), asks)
        PROVE  HarmlessCall(SetExtenalMux(regs, ch))
    <3>1. CFR0_MUX \cup Bits(ch) \in SUBSET Int
      BY Fields, Masks
    <3> QED BY <2>1, <2>4, <3>1, Fields, Masks, RegisterFile, OneWrite DEF SetExtenalMux
  <2>5. ASSUME NEW div \in {Bits(8), Bits(255)} PROVE HarmlessCall(SetAdcClkDivisor(div))
    <3>1. Up(div, 8) \in SUBSET Int
      BY Fields
    <3> QED BY <3>1, RegisterFile, OneWrite DEF SetAdcClkDivisor
  <2>6. CASE \E a \in Averages : DoesKeepingMask(SetAvg(regs, a), [avg |-> a])
    <3>1. PICK a \in Averages : DoesKeepingMask(SetAvg(regs, a), [avg |-> a])
      BY <2>6, Zenon
    <3> QED BY <2>2, <3>1, Zenon
  <2>7. CASE \E ch \in Channels, acq, event, diff \in BOOLEAN :
               DoesKeepingMask(SetSingleChParams(regs, ch, acq, event, diff),
                 [channel |-> Bits(ch), acq |-> If(acq, CFR0_ACQ), event |-> If(event, CFR0_EC),
                  diff |-> If(diff, CFR0_DU), mux |-> {}, calavg |-> {}])
    <3>1. PICK ch \in Channels, acq, event, diff \in BOOLEAN :
               DoesKeepingMask(SetSingleChParams(regs, ch, acq, event, diff),
                 [channel |-> Bits(ch), acq |-> If(acq, CFR0_ACQ), event |-> If(event, CFR0_EC),
                  diff |-> If(diff, CFR0_DU), mux |-> {}, calavg |-> {}])
      BY <2>7, Zenon
    <3> QED BY <2>3, <3>1, Zenon
  <2>8. CASE \E ch \in Channels :
               DoesKeepingMask(SetExtenalMux(regs, ch), [mux |-> CFR0_MUX, channel |-> Bits(ch)])
    <3>1. PICK ch \in Channels :
               DoesKeepingMask(SetExtenalMux(regs, ch), [mux |-> CFR0_MUX, channel |-> Bits(ch)])
      BY <2>8, Zenon
    <3> QED BY <2>4, <3>1, Zenon
  <2>9. CASE \E div \in {Bits(8), Bits(255)} :
               DoesKeepingMask(SetAdcClkDivisor(div), [clkdiv |-> div, powerdown |-> {}])
    <3>1. PICK div \in {Bits(8), Bits(255)} :
               DoesKeepingMask(SetAdcClkDivisor(div), [clkdiv |-> div, powerdown |-> {}])
      BY <2>9, Zenon
    <3> QED BY <2>5, <3>1, Zenon
  <2> QED BY <2>6, <2>7, <2>8, <2>9, Zenon DEF SingleChannel
<1> QED BY <1>1, <1>2, CallsKeepingMask

LEMMA AtAlarms ==
  ASSUME ConverterInv, Alarms PROVE ConverterInv'
<1>1. dev = "sysmon" /\ (up /\ todo = << >> => Registers)
  BY DEF Alarms, ConverterInv
<1>2. PICK writes, asks : DoesKeepingMask(writes, asks) /\ HarmlessCall(writes)
  <2>1. ASSUME NEW asks, NEW writes, DoesKeepingMask(writes, asks)
        PROVE  regs[CFR1] \in SUBSET Int /\ regs[ATR_OT_UPPER] \in SUBSET Int
    BY <1>1, <2>1, RegisterFile DEF DoesKeepingMask, Does, Registers, OtherRegs
  <2>2. ASSUME NEW asks, NEW alm, DoesKeepingMask(SetAlarmEnables(regs, alm), asks)
        PROVE  HarmlessCall(SetAlarmEnables(regs, alm))
    BY <2>1, <2>2, Fields, Masks, RegisterFile, OneWrite DEF SetAlarmEnables
  <2>3. ASSUME NEW asks, NEW cal, DoesKeepingMask(SetCalibEnables(regs, cal), asks)
        PROVE  HarmlessCall(SetCalibEnables(regs, cal))
    <3>1. cal \cap CFR1_CAL \in SUBSET Int
      BY Masks
    <3> QED BY <2>1, <2>3, <3>1, Fields, Masks, RegisterFile, OneWrite DEF SetCalibEnables
  <2>4. ASSUME NEW n \in ThresholdsUsed \cup {3}, NEW v \in Words
        PROVE  HarmlessCall(SetAlarmThreshold(n, v))
    <3>1. v \in SUBSET Int
      BY DEF Words
    <3> QED BY <3>1, ThresholdsAssumption, RegisterFile, OneWrite DEF SetAlarmThreshold
  <2>5. ASSUME NEW asks, NEW v, DoesKeepingMask(SetOverTemp(regs, v), asks)
        PROVE  HarmlessCall(SetOverTemp(regs, v))
    <3>1. (regs[ATR_OT_UPPER] \ OT_VAL) \cup (Up(v, 4) \cap 0 .. 15) \in SUBSET Int
      BY <2>1, <2>5
    <3> QED BY <3>1, RegisterFile, OneWrite DEF SetOverTemp
  <2>6. ASSUME NEW asks, DoesKeepingMask(EnableUserOverTemp(regs), asks)
        PROVE  HarmlessCall(EnableUserOverTemp(regs))
    BY <2>1, <2>6, Fields, Masks, RegisterFile, OneWrite DEF EnableUserOverTemp
  <2>7. ASSUME NEW asks, DoesKeepingMask(DisableUserOverTemp(regs), asks)
        PROVE  HarmlessCall(DisableUserOverTemp(regs))
    <3>1. regs[ATR_OT_UPPER] \ OT_ENB \in SUBSET Int
      BY <2>1, <2>7
    <3> QED BY <3>1, RegisterFile, OneWrite DEF DisableUserOverTemp
  <2> QED BY <2>2, <2>3, <2>4, <2>5, <2>6, <2>7 DEF Alarms
<1> QED BY <1>1, <1>2, CallsKeepingMask

LEMMA AtSequencer ==
  ASSUME ConverterInv, Sequencer PROVE ConverterInv'
<1>1. dev = "sysmon" /\ (up /\ todo = << >> => Registers)
  BY DEF Sequencer, ConverterInv
<1>2. PICK writes, asks : DoesKeepingMask(writes, asks) /\ HarmlessCall(writes)
  <2>1. ASSUME NEW asks, NEW writes, DoesKeepingMask(writes, asks)
        PROVE  regs[CFR0] \in SUBSET Int /\ regs[CFR1] \in SUBSET Int
    BY <1>1, <2>1, RegisterFile DEF DoesKeepingMask, Does, Registers, OtherRegs
  <2>2. ASSUME NEW asks, NEW mode, DoesKeepingMask(SetSequencerMode(regs, mode), asks)
        PROVE  HarmlessCall(SetSequencerMode(regs, mode))
    <3>1. Up(mode, 12) \cap CFR1_SEQ \in SUBSET Int
      BY Masks
    <3> QED BY <2>1, <2>2, <3>1, Fields, Masks, RegisterFile, OneWrite DEF SetSequencerMode
  <2>3. ASSUME NEW asks, NEW b \in BOOLEAN, DoesKeepingMask(SetSequencerEvent(regs, b), asks)
        PROVE  HarmlessCall(SetSequencerEvent(regs, b))
    <3>1. If(b, CFR0_EC) \in SUBSET Int
      BY Fields, Masks
    <3> QED BY <2>1, <2>3, <3>1, Fields, Masks, RegisterFile, OneWrite DEF SetSequencerEvent
  <2>4. ASSUME NEW chs PROVE HarmlessCall(SetSeqChEnables(regs, chs))
    <3>1. SEQ(0) \in OtherRegs /\ SEQ(1) \in OtherRegs /\ SEQ(8) \in OtherRegs
      BY RegisterFile
    <3>2. /\ chs \cap SEQ00_CH \in SUBSET Int
          /\ Down(chs, 16) \cap SEQ_AUX \in SUBSET Int
          /\ Down(chs, 32) \cap SEQ_VUSR \in SUBSET Int
      BY Masks
    <3>3. HarmlessCall(<< W(SEQ(0), chs \cap SEQ00_CH), W(SEQ(1), Down(chs, 16) \cap SEQ_AUX),
                       W(SEQ(8), Down(chs, 32) \cap SEQ_VUSR) >>)
      BY <3>1, <3>2, ThreeWrites
    <3> QED BY <3>3, Nothing DEF SetSeqChEnables, WhenSafe
  <2>5. ASSUME NEW chs PROVE HarmlessCall(SetSeqAvgEnables(regs, chs))
    <3>1. SEQ(2) \in OtherRegs /\ SEQ(3) \in OtherRegs /\ SEQ(9) \in OtherRegs
      BY RegisterFile
    <3>2. /\ chs \cap SEQ02_CH \in SUBSET Int
          /\ Down(chs, 16) \cap SEQ_AUX \in SUBSET Int
          /\ Down(chs, 32) \cap SEQ_VUSR \in SUBSET Int
      BY Masks
    <3>3. HarmlessCall(<< W(SEQ(2), chs \cap SEQ02_CH), W(SEQ(3), Down(chs, 16) \cap SEQ_AUX),
                       W(SEQ(9), Down(chs, 32) \cap SEQ_VUSR) >>)
      BY <3>1, <3>2, ThreeWrites
    <3> QED BY <3>3, Nothing DEF SetSeqAvgEnables, WhenSafe
  <2>6. ASSUME NEW chs PROVE HarmlessCall(SetSeqInputMode(regs, chs))
    <3>1. SEQ(4) \in OtherRegs /\ SEQ(5) \in OtherRegs
      BY RegisterFile
    <3>2. /\ chs \cap SEQ04_CH \in SUBSET Int
          /\ Down(chs, 16) \cap SEQ_AUX \in SUBSET Int
      BY Masks
    <3>3. HarmlessCall(<< W(SEQ(4), chs \cap SEQ04_CH), W(SEQ(5), Down(chs, 16) \cap SEQ_AUX) >>)
      BY <3>1, <3>2, TwoWrites
    <3> QED BY <3>3, Nothing DEF SetSeqInputMode, WhenSafe
  <2>7. ASSUME NEW chs PROVE HarmlessCall(SetSeqAcqTime(regs, chs))
    <3>1. SEQ(6) \in OtherRegs /\ SEQ(7) \in OtherRegs
      BY RegisterFile
    <3>2. /\ chs \cap SEQ06_CH \in SUBSET Int
          /\ Down(chs, 16) \cap SEQ_AUX \in SUBSET Int
      BY Masks
    <3>3. HarmlessCall(<< W(SEQ(6), chs \cap SEQ06_CH), W(SEQ(7), Down(chs, 16) \cap SEQ_AUX) >>)
      BY <3>1, <3>2, TwoWrites
    <3> QED BY <3>3, Nothing DEF SetSeqAcqTime, WhenSafe
  <2> QED BY <2>2, <2>3, <2>4, <2>5, <2>6, <2>7 DEF Sequencer
<1> QED BY <1>1, <1>2, CallsKeepingMask

\* The next write of the call in progress.
LEMMA AtBusWrite ==
  ASSUME ConverterInv, BusWrite PROVE ConverterInv'
<1> SUFFICES ASSUME dev = "sysmon" PROVE ConverterInv'
  BY DEF ConverterInv, BusWrite
<1> DEFINE w == Head(todo)
<1>1. /\ Registers /\ up /\ InCall /\ todo # << >>
      /\ todo' = Tail(todo) /\ up' = up /\ mask' = mask /\ dev' = dev
      /\ regs' = IF w.reg = SRR
                 THEN [regs EXCEPT ![CONVST] = WaitCyclesDefault, ![ARR] = {}]
                 ELSE [regs EXCEPT ![w.reg] = w.val]
  BY DEF BusWrite, ConverterInv
<1>2. ASSUME w \in Writes PROVE Registers'
  BY <1>1, <1>2, RegisterFile, DefaultUpdate DEF Registers, Writes
<1>3. ASSUME w.reg = SRR PROVE Quiet'
  BY <1>1, <1>3, RegisterFile, DefaultUpdate DEF Registers, Quiet, NoStart, Released
<1>4. CASE HarmlessCall(todo) /\ Quiet
  <2>1. /\ Len(todo) > 0 /\ Len(todo) \in Nat /\ w = todo[1] /\ w \in Writes
        /\ Tail(todo) \in Seq(Writes) /\ Len(Tail(todo)) = Len(todo) - 1
        /\ \A i \in 1 .. Len(todo) - 1 : Tail(todo)[i] = todo[i + 1]
    BY <1>1, <1>4, EmptySeq, LenProperties, HeadTailProperties DEF HarmlessCall
  <2>2. HarmlessCall(todo')
    <3>1. \A i \in 1 .. Len(todo) - 1 : Harmless(Tail(todo)[i])
      BY <1>4, <2>1 DEF HarmlessCall
    <3> QED BY <1>1, <2>1, <3>1 DEF HarmlessCall
  <2>3. Harmless(w)
    BY <1>4, <2>1 DEF HarmlessCall
  <2>4. Quiet'
    BY <1>1, <1>3, <1>4, <2>3, RegisterFile DEF Harmless, Registers, Quiet, NoStart, Released
  <2> QED BY <1>1, <1>2, <2>1, <2>2, <2>4 DEF ConverterInv, InCall
<1>5. CASE todo = CfgInitialize
  <2>1. w \in Writes /\ w.reg = SRR /\ todo' = << >>
    <3>1. w = W(SRR, {1, 3}) /\ todo' = << >>
      BY <1>1, <1>5 DEF CfgInitialize, Reset
    <3> QED BY <3>1, AnyWrite, Offsets
  <2> QED BY <1>1, <1>2, <1>3, <2>1, Nothing DEF ConverterInv, InCall
<1>6. CASE todo = ResetAdc /\ Quiet
  <2>1. w \in Writes /\ w.reg = ARR
    <3>1. w = W(ARR, {0})
      BY <1>6 DEF ResetAdc
    <3> QED BY <3>1, AnyWrite, Offsets
  <2>2. NoStart'
    BY <1>1, <1>6, <2>1, RegisterFile DEF Registers, Quiet, NoStart
  <2> QED BY <1>1, <1>2, <1>6, <2>1, <2>2 DEF ConverterInv, InCall
<1>7. CASE todo = Tail(ResetAdc) /\ NoStart
  <2>1. w \in Writes /\ w.reg = ARR /\ w.val = {} /\ todo' = << >>
    <3>1. w = W(ARR, {}) /\ todo' = << >>
      BY <1>1, <1>7 DEF ResetAdc
    <3> QED BY <3>1, AnyWrite, Offsets
  <2>2. Quiet'
    BY <1>1, <1>7, <2>1, RegisterFile DEF Registers, Quiet, NoStart, Released
  <2> QED BY <1>1, <1>2, <2>1, <2>2, Nothing DEF ConverterInv, InCall
<1>8. CASE todo = StartAdcConversion(mask) /\ Quiet
  <2>1. w \in Writes /\ w.reg = CONVST
    <3>1. w = W(CONVST, mask \cup CONVST_START) /\ mask \cup CONVST_START \in SUBSET Int
      BY <1>1, <1>8, Masks DEF StartAdcConversion, Registers
    <3> QED BY <3>1, AnyWrite, Offsets
  <2>2. Released'
    BY <1>1, <1>8, <2>1, RegisterFile DEF Registers, Quiet, Released
  <2>3. todo' = Tail(StartAdcConversion(mask))'
    BY <1>1, <1>8 DEF StartAdcConversion
  <2> QED BY <1>1, <1>2, <2>1, <2>2, <2>3 DEF ConverterInv, InCall
<1>9. CASE todo = Tail(StartAdcConversion(mask)) /\ Released
  <2>1. w \in Writes /\ w.reg = CONVST /\ CONVST_START \cap w.val = {} /\ todo' = << >>
    <3>1. todo = << W(CONVST, mask \ CONVST_START) >>
      BY <1>9 DEF StartAdcConversion
    <3>2. w = W(CONVST, mask \ CONVST_START) /\ todo' = << >>
      BY <1>1, <3>1
    <3>3. mask \ CONVST_START \in SUBSET Int /\ CONVST_START \cap (mask \ CONVST_START) = {}
      BY <1>1 DEF Registers
    <3> QED BY <3>2, <3>3, AnyWrite, Offsets
  <2>2. Quiet'
    BY <1>1, <1>9, <2>1, RegisterFile DEF Registers, Quiet, NoStart, Released
  <2> QED BY <1>1, <1>2, <2>1, <2>2, Nothing DEF ConverterInv, InCall
<1> QED BY <1>1, <1>4, <1>5, <1>6, <1>7, <1>8, <1>9 DEF InCall

LEMMA AtKillOrStart ==
  ASSUME ConverterInv, Kill \/ Start PROVE ConverterInv'
BY DefaultUpdate DEF ConverterInv, Registers, InCall, Kill, Start

\* What the program finds: any of the contents of Found.
LEMMA ConverterInit == Init => ConverterInv
<1> SUFFICES ASSUME Init, dev = "sysmon" PROVE ConverterInv
  BY DEF ConverterInv
<1>1. DOMAIN regs = SysMonRegs /\ \A r \in SysMonRegs : regs[r] \in SUBSET Int
  <2>1. regs \in Found("sysmon")
    BY DEF Init
  <2> QED BY <2>1, DefaultUpdate, Masks DEF Found
<1> QED BY <1>1 DEF Init, ConverterInv, Registers

LEMMA ConverterStep == ConverterInv /\ [Next]_vars => ConverterInv'
<1> SUFFICES ASSUME ConverterInv, [Next]_vars PROVE ConverterInv'
  OBVIOUS
<1>1. CASE UNCHANGED vars
  BY <1>1 DEF vars, ConverterInv, Registers, InCall, Quiet, NoStart, Released
<1>2. CASE Pattern \/ Gpio
  BY <1>2 DEF Pattern, Gpio, DoesKeepingMask, Does, ConverterInv
<1> QED BY <1>1, <1>2, AtConversion, AtTempUpdate, AtSingleChannel, AtAlarms, AtSequencer,
           AtBusWrite, AtKillOrStart DEF Next

LEMMA ConverterInvariant == Spec => []ConverterInv
BY ConverterInit, ConverterStep, PTL DEF Spec

\* When no call is in progress the converter is out of reset, whatever a program
\* that was killed had left.
THEOREM ConverterOutOfReset == Spec => []AdcReleased
<1>1. ConverterInv => AdcReleased
  BY DEF ConverterInv, InCall, AdcReleased, Quiet, Released, CfgInitialize, Reset, ResetAdc,
         StartAdcConversion
<1> QED BY <1>1, ConverterInvariant, PTL

\* The bit that starts a conversion is 0 whenever a program sets it.
THEOREM EveryConversionStarts == Spec => []ConversionStarts
<1>1. ConverterInv => ConversionStarts
  <2> SUFFICES ASSUME ConverterInv, dev = "sysmon", todo # << >>, Head(todo).reg = CONVST,
                      CONVST_START \subseteq Head(todo).val
               PROVE  CONVST_START \cap regs[CONVST] = {}
    BY DEF ConversionStarts
  <2>1. InCall
    BY DEF ConverterInv
  <2>2. CASE HarmlessCall(todo) /\ Quiet
    BY <2>2 DEF Quiet, NoStart
  <2>3. CASE todo = CfgInitialize
    BY <2>3, RegisterFile DEF CfgInitialize, Reset, W
  <2>4. CASE todo = Tail(StartAdcConversion(mask)) /\ Released
    BY <2>4 DEF StartAdcConversion, W, CONVST_START
  <2> QED BY <2>1, <2>2, <2>3, <2>4 DEF InCall, Quiet, NoStart
<1> QED BY <1>1, ConverterInvariant, PTL

-----------------------------------------------------------------------------
(* The settings as a function of the device and its registers, and what a  *)
(* write makes of them.                                                    *)

SettingsOf(d, r) ==
  CASE d = "sysmon" -> SysMonSettings(r)
    [] d = "tpg"    -> TpgSettings(r)
    [] d = "gpio"   -> GpioSettings(r)

RegsOf(d) == CASE d = "sysmon" -> SysMonRegs [] d = "tpg" -> TpgRegs [] d = "gpio" -> GpioRegs

WidthOf(d, o) ==
  CASE d = "gpio" -> 4
    [] d = "tpg"  -> BITS(o)
    [] OTHER      -> IF o = CONVST THEN 18 ELSE 16

\* Register contents that fit.
Fit(d, r) == DOMAIN r = RegsOf(d) /\ \A o \in RegsOf(d) : r[o] \subseteq 0 .. WidthOf(d, o) - 1

\* Writes that fit.
FitWrites(d) ==
  { w \in [reg : Nat, val : SUBSET Int] :
      IF w.reg \in RegsOf(d) THEN w.val \subseteq 0 .. WidthOf(d, w.reg) - 1
                             ELSE d = "sysmon" /\ w.reg = SRR }

After(d, w, r) ==
  IF d = "sysmon" /\ w.reg = SRR THEN [r EXCEPT ![CONVST] = WaitCyclesDefault, ![ARR] = {}]
                                 ELSE [r EXCEPT ![w.reg] = w.val]

\* A write on the way: what the call is not for stays, what it is for goes
\* towards the values asked.
Between(s, t, a) == s \cap a \subseteq t /\ t \subseteq s \cup a
Kept(d, r, t, a) ==
  \A s \in DOMAIN SettingsOf(d, r) :
    IF s \in DOMAIN a THEN Between(SettingsOf(d, r)[s], SettingsOf(d, t)[s], a[s])
                      ELSE SettingsOf(d, t)[s] = SettingsOf(d, r)[s]

Reached(d, r, a) == \A s \in DOMAIN a : SettingsOf(d, r)[s] = a[s]

\* The writes q, made one after the other from r, keep the promise.
Leads(d, q, r, a, path) ==
  /\ path[0] = r
  /\ \A i \in 1 .. Len(q) :
       /\ path[i] = After(d, q[i], path[i - 1])
       /\ Kept(d, path[i - 1], path[i], a)
       /\ i = Len(q) => Reached(d, path[i], a)
Promise(d, q, r, a) == \E path : Leads(d, q, r, a, path)

LEMMA OnePromise ==
  ASSUME NEW d, NEW w, NEW r, NEW a,
         Kept(d, r, After(d, w, r), a), Reached(d, After(d, w, r), a)
  PROVE  Promise(d, << w >>, r, a)
<1> DEFINE path == [i \in 0 .. 1 |-> IF i = 0 THEN r ELSE After(d, w, r)]
<1> HIDE DEF Kept, Reached, After
<1>1. path[0] = r /\ path[1] = After(d, w, r)
  OBVIOUS
<1> HIDE DEF path
<1>2. ASSUME NEW i \in 1 .. Len(<< w >>) PROVE i = 1 /\ i - 1 = 0 /\ << w >>[i] = w
  OBVIOUS
<1>3. Leads(d, << w >>, r, a, path)
  BY <1>1, <1>2 DEF Leads
<1> QED BY <1>3 DEF Promise

LEMMA TwoPromise ==
  ASSUME NEW d, NEW w, NEW v, NEW r, NEW a, NEW s, NEW t,
         s = After(d, w, r), t = After(d, v, s),
         Kept(d, r, s, a), Kept(d, s, t, a), Reached(d, t, a)
  PROVE  Promise(d, << w, v >>, r, a)
<1> DEFINE path == [i \in 0 .. 2 |-> IF i = 0 THEN r ELSE IF i = 1 THEN s ELSE t]
<1>1. path[0] = r /\ path[1] = s /\ path[2] = t
  OBVIOUS
<1> HIDE DEF path
<1>2. ASSUME NEW i \in 1 .. Len(<< w, v >>)
      PROVE  \/ (i = 1 /\ i - 1 = 0 /\ << w, v >>[i] = w /\ i # Len(<< w, v >>))
             \/ (i = 2 /\ i - 1 = 1 /\ << w, v >>[i] = v)
  OBVIOUS
<1>3. Leads(d, << w, v >>, r, a, path)
  BY <1>1, <1>2 DEF Leads
<1> QED BY <1>3 DEF Promise

LEMMA ThreePromise ==
  ASSUME NEW d, NEW w, NEW v, NEW x, NEW r, NEW a, NEW s, NEW t, NEW u,
         s = After(d, w, r), t = After(d, v, s), u = After(d, x, t),
         Kept(d, r, s, a), Kept(d, s, t, a), Kept(d, t, u, a), Reached(d, u, a)
  PROVE  Promise(d, << w, v, x >>, r, a)
<1> DEFINE path == [i \in 0 .. 3 |-> IF i = 0 THEN r ELSE IF i = 1 THEN s
                                       ELSE IF i = 2 THEN t ELSE u]
<1>1. path[0] = r /\ path[1] = s /\ path[2] = t /\ path[3] = u
  OBVIOUS
<1> HIDE DEF path
<1>2. ASSUME NEW i \in 1 .. Len(<< w, v, x >>)
      PROVE  \/ (i = 1 /\ i - 1 = 0 /\ << w, v, x >>[i] = w /\ i # Len(<< w, v, x >>))
             \/ (i = 2 /\ i - 1 = 1 /\ << w, v, x >>[i] = v /\ i # Len(<< w, v, x >>))
             \/ (i = 3 /\ i - 1 = 2 /\ << w, v, x >>[i] = x)
  OBVIOUS
<1>3. Leads(d, << w, v, x >>, r, a, path)
  BY <1>1, <1>2 DEF Leads
<1> QED BY <1>3 DEF Promise

LEMMA NoPromise == \A d, r, a : Promise(d, << >>, r, a)
<1> SUFFICES ASSUME NEW d, NEW r, NEW a PROVE Promise(d, << >>, r, a)
  OBVIOUS
<1>1. Leads(d, << >>, r, a, [i \in {0} |-> r])
  BY DEF Leads
<1> QED BY <1>1 DEF Promise

LEMMA PromiseGoesOn ==
  ASSUME NEW S, NEW d, NEW q \in Seq(S), NEW r, NEW a, q # << >>, Promise(d, q, r, a)
  PROVE  /\ Kept(d, r, After(d, Head(q), r), a)
         /\ Tail(q) = << >> => Reached(d, After(d, Head(q), r), a)
         /\ Promise(d, Tail(q), After(d, Head(q), r), a)
<1>1. PICK path : Leads(d, q, r, a, path)
  BY DEF Promise
<1>2. /\ Len(q) \in Nat /\ Len(q) > 0 /\ Head(q) = q[1] /\ Len(Tail(q)) = Len(q) - 1
      /\ \A i \in 1 .. Len(q) - 1 : Tail(q)[i] = q[i + 1]
      /\ Tail(q) \in Seq(S)
  BY EmptySeq, LenProperties, HeadTailProperties
<1> DEFINE n == Len(q)
<1> DEFINE p == Tail(q)
<1>0. n \in Nat /\ n > 0 /\ Len(p) = n - 1 /\ (p = << >> => n = 1)
  <2> HIDE DEF p
  <2>1. p = << >> => Len(p) = 0
    BY EmptySeq
  <2> QED BY <1>2, <2>1 DEF p
<1> HIDE DEF n, p
<1> DEFINE rest == [i \in 0 .. Len(q) - 1 |-> path[i + 1]]
<1>3. \A i \in 0 .. Len(q) - 1 : rest[i] = path[i + 1]
  OBVIOUS
<1>4. path[1] = After(d, Head(q), r) /\ Kept(d, r, path[1], a)
  <2>1. 1 \in 1 .. n /\ 1 - 1 = 0
    BY <1>0
  <2> QED BY <1>1, <1>2, <2>1 DEF Leads, n
<1>5. Tail(q) = << >> => Reached(d, path[1], a)
  <2>1. ASSUME Tail(q) = << >> PROVE Len(q) = 1
    BY <1>0, <2>1 DEF n, p
  <2> QED BY <1>1, <2>1 DEF Leads
<1> HIDE DEF rest
<1>6. ASSUME NEW i \in 1 .. Len(Tail(q))
      PROVE  /\ rest[i] = After(d, Tail(q)[i], rest[i - 1])
             /\ Kept(d, rest[i - 1], rest[i], a)
             /\ i = Len(Tail(q)) => Reached(d, rest[i], a)
  <2>0. i \in 1 .. Len(p)
    BY DEF p
  <2>1. /\ i + 1 \in 1 .. n /\ (i + 1) - 1 = i /\ i \in 1 .. n - 1
        /\ i \in 0 .. n - 1 /\ i - 1 \in 0 .. n - 1 /\ (i - 1) + 1 = i
        /\ i = Len(p) => i + 1 = n
    BY <1>0, <2>0
  <2>2. rest[i] = path[i + 1] /\ rest[i - 1] = path[i]
    BY <1>3, <2>1 DEF n
  <2>3. Tail(q)[i] = q[i + 1]
    BY <1>2, <2>1 DEF n
  <2> QED BY <1>1, <2>1, <2>2, <2>3 DEF Leads, n, p
<1>7. rest[0] = path[1]
  BY <1>0, <1>3 DEF n
<1>8. Leads(d, Tail(q), path[1], a, rest)
  BY <1>6, <1>7 DEF Leads
<1> QED BY <1>4, <1>5, <1>8 DEF Promise

\* The calls that keep the promise, and whose writes fit.
Good(d, writes, r, asks) ==
  /\ writes \in Seq(FitWrites(d))
  /\ DOMAIN asks \subseteq DOMAIN SettingsOf(d, r)
  /\ Promise(d, writes, r, asks)

\* One write: what it is for has the value asked afterwards, and nothing else
\* changes.
Turns(d, w, r, asks) ==
  \A s \in DOMAIN SettingsOf(d, r) :
    SettingsOf(d, After(d, w, r))[s] = IF s \in DOMAIN asks THEN asks[s]
                                                            ELSE SettingsOf(d, r)[s]

LEMMA OneGood ==
  ASSUME NEW d, NEW w, NEW r, NEW asks, w \in FitWrites(d),
         DOMAIN asks \subseteq DOMAIN SettingsOf(d, r), Turns(d, w, r, asks)
  PROVE  Good(d, << w >>, r, asks)
<1>1. Kept(d, r, After(d, w, r), asks) /\ Reached(d, After(d, w, r), asks)
  BY DEF Turns, Kept, Reached, Between
<1>2. Promise(d, << w >>, r, asks)
  BY <1>1, OnePromise
<1>3. << w >> \in Seq(FitWrites(d))
  OBVIOUS
<1> QED BY <1>2, <1>3 DEF Good

-----------------------------------------------------------------------------
(* The general purpose outputs.                                            *)

LEMMA GpioOffsets ==
  /\ Data(1) = 0 /\ Tri(1) = 4 /\ Data(2) = 8 /\ Tri(2) = 12
  /\ GpioRegs = {0, 4, 8, 12}
  /\ Outs[1] = "out1" /\ Outs[2] = "out2" /\ Dirs[1] = "dir1" /\ Dirs[2] = "dir2"
BY DEF Data, Tri, GpioRegs, Outs, Dirs

LEMMA GpioView ==
  ASSUME NEW r
  PROVE  SettingsOf("gpio", r) =
           [out1 |-> r[0] \ r[4], out2 |-> r[8] \ r[12], dir1 |-> r[4], dir2 |-> r[12]]
BY GpioOffsets DEF SettingsOf, GpioSettings, Outputs, GetDataDirection

LEMMA GpioWrites ==
  ASSUME NEW o \in GpioRegs, NEW v \in SUBSET (0 .. 3)
  PROVE  W(o, v) \in FitWrites("gpio")
BY GpioOffsets DEF W, FitWrites, RegsOf, WidthOf

LEMMA GpioAfter ==
  ASSUME NEW r, NEW o, NEW v
  PROVE  After("gpio", W(o, v), r) = [r EXCEPT ![o] = v]
BY DEF After, W

LEMMA DirectionGood ==
  ASSUME NEW r, Fit("gpio", r), NEW ch \in {1, 2}, NEW v \in SUBSET (0 .. 3)
  PROVE  Good("gpio", SetDataDirection(ch, v), r,
              [s \in {Dirs[ch]} |-> v] ++ [s \in {Outs[ch]} |-> r[Data(ch)] \ v])
<1> DEFINE a == [s \in {Dirs[ch]} |-> v] ++ [s \in {Outs[ch]} |-> r[Data(ch)] \ v]
<1> DEFINE t == After("gpio", W(Tri(ch), v), r)
<1>1. DOMAIN a = {Dirs[ch], Outs[ch]} /\ a[Dirs[ch]] = v /\ a[Outs[ch]] = r[Data(ch)] \ v
  BY GpioOffsets DEF ++
<1>2. DOMAIN r = GpioRegs /\ t = [r EXCEPT ![Tri(ch)] = v]
  BY GpioAfter DEF Fit, RegsOf
<1> HIDE DEF a, t
<1>3. \A s \in DOMAIN SettingsOf("gpio", r) :
        SettingsOf("gpio", t)[s] = IF s \in DOMAIN a THEN a[s] ELSE SettingsOf("gpio", r)[s]
  <2>1. /\ DOMAIN SettingsOf("gpio", r) = {"out1", "out2", "dir1", "dir2"}
        /\ SettingsOf("gpio", t)["out1"] = t[0] \ t[4] /\ SettingsOf("gpio", t)["dir1"] = t[4]
        /\ SettingsOf("gpio", t)["out2"] = t[8] \ t[12] /\ SettingsOf("gpio", t)["dir2"] = t[12]
        /\ SettingsOf("gpio", r)["out1"] = r[0] \ r[4] /\ SettingsOf("gpio", r)["dir1"] = r[4]
        /\ SettingsOf("gpio", r)["out2"] = r[8] \ r[12] /\ SettingsOf("gpio", r)["dir2"] = r[12]
    BY GpioView
  <2>2. CASE ch = 1
    <3>1. t[4] = v /\ t[0] = r[0] /\ t[8] = r[8] /\ t[12] = r[12]
      BY <1>2, <2>2, GpioOffsets
    <3>2. DOMAIN a = {"dir1", "out1"} /\ a["dir1"] = v /\ a["out1"] = r[0] \ v
      BY <1>1, <2>2, GpioOffsets
    <3> QED BY <2>1, <3>1, <3>2
  <2>3. CASE ch = 2
    <3>1. t[12] = v /\ t[8] = r[8] /\ t[0] = r[0] /\ t[4] = r[4]
      BY <1>2, <2>3, GpioOffsets
    <3>2. DOMAIN a = {"dir2", "out2"} /\ a["dir2"] = v /\ a["out2"] = r[8] \ v
      BY <1>1, <2>3, GpioOffsets
    <3> QED BY <2>1, <3>1, <3>2
  <2> QED BY <2>2, <2>3
<1>4. DOMAIN a \subseteq DOMAIN SettingsOf("gpio", r)
  BY <1>1, GpioView, GpioOffsets
<1>5. W(Tri(ch), v) \in FitWrites("gpio")
  BY GpioOffsets, GpioWrites
<1> QED BY <1>3, <1>4, <1>5, OneGood DEF Turns, SetDataDirection, a, t

\* A value written to the outputs of a channel.
LEMMA OutputGood ==
  ASSUME NEW r, Fit("gpio", r), NEW ch \in {1, 2}, NEW v \in SUBSET (0 .. 3), NEW out,
         v \ r[Tri(ch)] = out
  PROVE  Good("gpio", << W(Data(ch), v) >>, r, [s \in {Outs[ch]} |-> out])
<1> DEFINE a == [s \in {Outs[ch]} |-> out]
<1> DEFINE t == After("gpio", W(Data(ch), v), r)
<1>1. DOMAIN a = {Outs[ch]} /\ a[Outs[ch]] = out
  OBVIOUS
<1>2. DOMAIN r = GpioRegs /\ t = [r EXCEPT ![Data(ch)] = v]
  BY GpioAfter DEF Fit, RegsOf
<1> HIDE DEF a, t
<1>3. \A s \in DOMAIN SettingsOf("gpio", r) :
        SettingsOf("gpio", t)[s] = IF s \in DOMAIN a THEN a[s] ELSE SettingsOf("gpio", r)[s]
  <2>1. /\ DOMAIN SettingsOf("gpio", r) = {"out1", "out2", "dir1", "dir2"}
        /\ SettingsOf("gpio", t)["out1"] = t[0] \ t[4] /\ SettingsOf("gpio", t)["dir1"] = t[4]
        /\ SettingsOf("gpio", t)["out2"] = t[8] \ t[12] /\ SettingsOf("gpio", t)["dir2"] = t[12]
        /\ SettingsOf("gpio", r)["out1"] = r[0] \ r[4] /\ SettingsOf("gpio", r)["dir1"] = r[4]
        /\ SettingsOf("gpio", r)["out2"] = r[8] \ r[12] /\ SettingsOf("gpio", r)["dir2"] = r[12]
    BY GpioView
  <2>2. CASE ch = 1
    <3>1. t[0] = v /\ t[4] = r[4] /\ t[8] = r[8] /\ t[12] = r[12]
      BY <1>2, <2>2, GpioOffsets
    <3>2. DOMAIN a = {"out1"} /\ a["out1"] = v \ r[4]
      BY <1>1, <2>2, GpioOffsets
    <3> QED BY <2>1, <3>1, <3>2
  <2>3. CASE ch = 2
    <3>1. t[8] = v /\ t[12] = r[12] /\ t[0] = r[0] /\ t[4] = r[4]
      BY <1>2, <2>3, GpioOffsets
    <3>2. DOMAIN a = {"out2"} /\ a["out2"] = v \ r[12]
      BY <1>1, <2>3, GpioOffsets
    <3> QED BY <2>1, <3>1, <3>2
  <2> QED BY <2>2, <2>3
<1>4. DOMAIN a \subseteq DOMAIN SettingsOf("gpio", r)
  BY <1>1, GpioView, GpioOffsets
<1>5. W(Data(ch), v) \in FitWrites("gpio")
  BY GpioOffsets, GpioWrites
<1> QED BY <1>3, <1>4, <1>5, OneGood DEF Turns, a, t

-----------------------------------------------------------------------------
(* The test pattern generator.                                             *)

\* The registers that only their own setter writes.
LEMMA PlainTable ==
  Plain = [height |-> 16, width |-> 24, bckgndId |-> 32, ovrlayId |-> 40, maskId |-> 48,
           motionSpeed |-> 56, colorFormat |-> 64, crossHairX |-> 72, crossHairY |-> 80,
           ZplateHorContStart |-> 88, ZplateHorContDelta |-> 96,
           ZplateVerContStart |-> 104, ZplateVerContDelta |-> 112,
           boxSize |-> 120, boxColorR |-> 128, boxColorG |-> 136, boxColorB |-> 144,
           passthruStartX |-> 160, passthruStartY |-> 168,
           passthruEndX |-> 176, passthruEndY |-> 184, dpDynamicRange |-> 192,
           dpYUVCoef |-> 200]
<1> DEFINE f == Frame ++ Overlay ++ CrossHair
<1> DEFINE g == f ++ ZonePlate ++ Box
<1>1. f = [height |-> 16, width |-> 24, bckgndId |-> 32, ovrlayId |-> 40, maskId |-> 48,
           motionSpeed |-> 56, colorFormat |-> 64, crossHairX |-> 72, crossHairY |-> 80]
  BY DEF ++, Frame, Overlay, CrossHair, ADDR
<1> HIDE DEF f
<1>2. g = [height |-> 16, width |-> 24, bckgndId |-> 32, ovrlayId |-> 40, maskId |-> 48,
           motionSpeed |-> 56, colorFormat |-> 64, crossHairX |-> 72, crossHairY |-> 80,
           ZplateHorContStart |-> 88, ZplateHorContDelta |-> 96,
           ZplateVerContStart |-> 104, ZplateVerContDelta |-> 112,
           boxSize |-> 120, boxColorR |-> 128, boxColorG |-> 136, boxColorB |-> 144]
  BY <1>1 DEF ++, ZonePlate, Box, ADDR
<1> HIDE DEF g
<1>3. Plain = g ++ PassthruWindow ++ DisplayPort
  BY DEF Plain, f, g
<1> QED BY <1>2, <1>3 DEF ++, PassthruWindow, DisplayPort, ADDR

LEMMA PlainNames ==
  /\ \A m, n \in DOMAIN Plain : Plain[m] = Plain[n] => m = n
  /\ \A n \in DOMAIN Plain : Plain[n] \in 0 .. 200 /\ Plain[n] # 152
  /\ {"motionEn", "enableInput", "passthrough", "interlaced", "polarity"} \cap DOMAIN Plain = {}
BY PlainTable

LEMMA TpgRegisters ==
  /\ ADDR.BCKGNDID = 32 /\ ADDR.ENABLEINPUT = 152 /\ ADDR.FIELDID = 208
  /\ ADDR.BCK_MOTION_EN = 216
  /\ {152, 208, 216} \subseteq TpgRegs
  /\ TpgRegs \subseteq Nat
BY DEF ADDR, TpgRegs

LEMMA PlainRegisters == \A n \in DOMAIN Plain : Plain[n] \in TpgRegs
BY PlainTable DEF ADDR, TpgRegs

LEMMA TpgView ==
  ASSUME NEW r
  PROVE  /\ DOMAIN SettingsOf("tpg", r) =
              DOMAIN Plain \cup {"motionEn", "enableInput", "passthrough", "interlaced", "polarity"}
         /\ \A n \in DOMAIN Plain : SettingsOf("tpg", r)[n] = r[Plain[n]]
         /\ SettingsOf("tpg", r)["motionEn"] = r[216] \cap MOTION_EN
         /\ SettingsOf("tpg", r)["enableInput"] = r[152]
         /\ SettingsOf("tpg", r)["passthrough"] = r[208] \cap PASSTHR
         /\ SettingsOf("tpg", r)["interlaced"] = r[208] \cap INTERLACED
         /\ SettingsOf("tpg", r)["polarity"] = r[208] \cap POLARITY
BY PlainNames, TpgRegisters
   DEF SettingsOf, TpgSettings, ++, Get, Get_motionEnStatus, Get_enableInput, Get_fieldId

LEMMA TpgWrites ==
  ASSUME NEW o \in TpgRegs, NEW v \in SUBSET (0 .. 7)
  PROVE  W(o, v) \in FitWrites("tpg")
<1>1. BITS(o) \in {8, 16} /\ v \subseteq 0 .. BITS(o) - 1
  BY DEF BITS
<1> QED BY <1>1, TpgRegisters DEF W, FitWrites, RegsOf, WidthOf

LEMMA TpgAfter ==
  ASSUME NEW r, Fit("tpg", r), NEW o \in TpgRegs, NEW v
  PROVE  /\ After("tpg", W(o, v), r)[o] = v
         /\ \A p \in TpgRegs \ {o} : After("tpg", W(o, v), r)[p] = r[p]
         /\ DOMAIN After("tpg", W(o, v), r) = TpgRegs
BY DEF After, W, Fit, RegsOf

\* What the registers say of the settings.
LEMMA TpgTurns ==
  ASSUME NEW r, NEW t, NEW a,
         \A n \in DOMAIN Plain : t[Plain[n]] = IF n \in DOMAIN a THEN a[n] ELSE r[Plain[n]],
         t[216] \cap MOTION_EN = IF "motionEn" \in DOMAIN a THEN a["motionEn"]
                                                          ELSE r[216] \cap MOTION_EN,
         t[152] = IF "enableInput" \in DOMAIN a THEN a["enableInput"] ELSE r[152],
         t[208] \cap PASSTHR = IF "passthrough" \in DOMAIN a THEN a["passthrough"]
                                                           ELSE r[208] \cap PASSTHR,
         t[208] \cap INTERLACED = IF "interlaced" \in DOMAIN a THEN a["interlaced"]
                                                             ELSE r[208] \cap INTERLACED,
         t[208] \cap POLARITY = IF "polarity" \in DOMAIN a THEN a["polarity"]
                                                         ELSE r[208] \cap POLARITY
  PROVE  \A s \in DOMAIN SettingsOf("tpg", r) :
           SettingsOf("tpg", t)[s] = IF s \in DOMAIN a THEN a[s] ELSE SettingsOf("tpg", r)[s]
<1> SUFFICES ASSUME NEW s \in DOMAIN SettingsOf("tpg", r)
             PROVE  SettingsOf("tpg", t)[s] = IF s \in DOMAIN a THEN a[s]
                                               ELSE SettingsOf("tpg", r)[s]
  OBVIOUS
<1>1. CASE s \in DOMAIN Plain
  <2>1. SettingsOf("tpg", t)[s] = t[Plain[s]] /\ SettingsOf("tpg", r)[s] = r[Plain[s]]
    BY <1>1, TpgView
  <2> QED BY <1>1, <2>1
<1>2. CASE s = "motionEn"
  <2>1. /\ SettingsOf("tpg", t)["motionEn"] = t[216] \cap MOTION_EN
        /\ SettingsOf("tpg", r)["motionEn"] = r[216] \cap MOTION_EN
    BY TpgView
  <2> QED BY <1>2, <2>1
<1>3. CASE s = "enableInput"
  <2>1. /\ SettingsOf("tpg", t)["enableInput"] = t[152]
        /\ SettingsOf("tpg", r)["enableInput"] = r[152]
    BY TpgView
  <2> QED BY <1>3, <2>1
<1>4. CASE s = "passthrough"
  <2>1. /\ SettingsOf("tpg", t)["passthrough"] = t[208] \cap PASSTHR
        /\ SettingsOf("tpg", r)["passthrough"] = r[208] \cap PASSTHR
    BY TpgView
  <2> QED BY <1>4, <2>1
<1>5. CASE s = "interlaced"
  <2>1. /\ SettingsOf("tpg", t)["interlaced"] = t[208] \cap INTERLACED
        /\ SettingsOf("tpg", r)["interlaced"] = r[208] \cap INTERLACED
    BY TpgView
  <2> QED BY <1>5, <2>1
<1>6. CASE s = "polarity"
  <2>1. /\ SettingsOf("tpg", t)["polarity"] = t[208] \cap POLARITY
        /\ SettingsOf("tpg", r)["polarity"] = r[208] \cap POLARITY
    BY TpgView
  <2> QED BY <1>6, <2>1
<1> QED BY <1>1, <1>2, <1>3, <1>4, <1>5, <1>6, TpgView

LEMMA SetGood ==
  ASSUME NEW r, Fit("tpg", r), NEW name \in DOMAIN Plain, NEW v \in SUBSET (0 .. 7)
  PROVE  Good("tpg", Set(name, v), r, [s \in {name} |-> v])
<1> DEFINE a == [s \in {name} |-> v]
<1> DEFINE w == W(Plain[name], v)
<1> DEFINE t == After("tpg", w, r)
<1>1. DOMAIN a = {name} /\ a[name] = v
  OBVIOUS
<1>2. w \in FitWrites("tpg") /\ DOMAIN a \subseteq DOMAIN SettingsOf("tpg", r)
  BY PlainRegisters, TpgWrites, TpgView
<1>3. /\ t[Plain[name]] = v
      /\ \A n \in DOMAIN Plain \ {name} : t[Plain[n]] = r[Plain[n]]
      /\ t[152] = r[152] /\ t[208] = r[208] /\ t[216] = r[216]
  <2>1. Plain[name] \in TpgRegs /\ Plain[name] # 152 /\ Plain[name] # 208 /\ Plain[name] # 216
    BY PlainRegisters, PlainNames
  <2>2. \A n \in DOMAIN Plain \ {name} : Plain[n] \in TpgRegs \ {Plain[name]}
    BY PlainRegisters, PlainNames
  <2> QED BY <2>1, <2>2, TpgAfter, TpgRegisters
<1> HIDE DEF a, w, t
<1>4. \A s \in DOMAIN SettingsOf("tpg", r) :
        SettingsOf("tpg", t)[s] = IF s \in DOMAIN a THEN a[s] ELSE SettingsOf("tpg", r)[s]
  BY <1>1, <1>3, TpgTurns, PlainNames
<1> QED BY <1>2, <1>4, OneGood DEF Turns, Set, a, t, w

\* A register that no plain setting has.
LEMMA OtherTpgWrite ==
  ASSUME NEW r, Fit("tpg", r), NEW o \in {152, 208, 216}, NEW v, NEW t,
         t = After("tpg", W(o, v), r)
  PROVE  /\ \A n \in DOMAIN Plain : t[Plain[n]] = r[Plain[n]]
         /\ \A p \in {152, 208, 216} : t[p] = IF p = o THEN v ELSE r[p]
<1>1. \A n \in DOMAIN Plain : Plain[n] \in TpgRegs \ {o}
  BY PlainRegisters, PlainNames
<1> QED BY <1>1, TpgAfter, TpgRegisters

LEMMA MotionGood ==
  ASSUME NEW r, Fit("tpg", r), NEW v \in {{}, MOTION_EN}
  PROVE  Good("tpg", Set_motionEn(r, v), r, [motionEn |-> v])
<1> DEFINE a == [motionEn |-> v]
<1> DEFINE w == W(216, v)
<1> DEFINE t == After("tpg", w, r)
<1>1. DOMAIN a = {"motionEn"} /\ a["motionEn"] = v
  OBVIOUS
<1>2. w \in FitWrites("tpg") /\ DOMAIN a \subseteq DOMAIN SettingsOf("tpg", r)
  BY TpgRegisters, TpgWrites, TpgView DEF MOTION_EN
<1>3. v \cap MOTION_EN = v
  OBVIOUS
<1>4. /\ \A n \in DOMAIN Plain : t[Plain[n]] = r[Plain[n]]
      /\ t[216] = v /\ t[152] = r[152] /\ t[208] = r[208]
  BY OtherTpgWrite
<1> HIDE DEF a, w, t
<1>5. \A s \in DOMAIN SettingsOf("tpg", r) :
        SettingsOf("tpg", t)[s] = IF s \in DOMAIN a THEN a[s] ELSE SettingsOf("tpg", r)[s]
  BY <1>1, <1>3, <1>4, TpgTurns, PlainNames
<1>6. Good("tpg", << w >>, r, a)
  BY <1>2, <1>5, OneGood DEF Turns, t
<1>7. Good("tpg", << >>, r, a)
  BY <1>2, NoPromise DEF Good
<1> QED BY <1>6, <1>7, TpgRegisters DEF Set_motionEn, a, w

\* A write to the register of the field identifier.
LEMMA FieldIdTurns ==
  ASSUME NEW r, Fit("tpg", r), NEW v \in SUBSET (0 .. 15), NEW a, NEW w, w = W(208, v),
         DOMAIN a \subseteq {"passthrough", "interlaced", "polarity"},
         v \cap PASSTHR = IF "passthrough" \in DOMAIN a THEN a["passthrough"]
                                                     ELSE r[208] \cap PASSTHR,
         v \cap INTERLACED = IF "interlaced" \in DOMAIN a THEN a["interlaced"]
                                                       ELSE r[208] \cap INTERLACED,
         v \cap POLARITY = IF "polarity" \in DOMAIN a THEN a["polarity"]
                                                   ELSE r[208] \cap POLARITY
  PROVE  w \in FitWrites("tpg") /\ Turns("tpg", w, r, a)
<1> DEFINE t == After("tpg", w, r)
<1>1. w \in FitWrites("tpg")
  <2>1. 208 \in TpgRegs /\ BITS(208) = 16
    BY TpgRegisters DEF BITS, NARROW, ADDR
  <2> QED BY <2>1 DEF W, FitWrites, RegsOf, WidthOf
<1>2. /\ \A n \in DOMAIN Plain : t[Plain[n]] = r[Plain[n]]
      /\ t[208] = v /\ t[152] = r[152] /\ t[216] = r[216]
  BY OtherTpgWrite
<1>3. \A n \in DOMAIN Plain : n \notin DOMAIN a
  BY PlainNames
<1> HIDE DEF t
<1>4. \A s \in DOMAIN SettingsOf("tpg", r) :
        SettingsOf("tpg", t)[s] = IF s \in DOMAIN a THEN a[s] ELSE SettingsOf("tpg", r)[s]
  BY <1>2, <1>3, TpgTurns
<1> QED BY <1>1, <1>4 DEF Turns, t

LEMMA FieldIdFits ==
  ASSUME NEW r, Fit("tpg", r), NEW b \in BOOLEAN, NEW f \in {PASSTHR, INTERLACED, POLARITY}
  PROVE  /\ Field(r[208], f, If(b, f)) \in SUBSET (0 .. 15)
         /\ Field(r[208], f, If(b, f)) \cap f = If(b, f)
         /\ \A g \in {PASSTHR, INTERLACED, POLARITY} :
              g # f => Field(r[208], f, If(b, f)) \cap g = r[208] \cap g
<1>1. r[208] \subseteq 0 .. 15
  <2>1. 208 \in TpgRegs /\ BITS(208) = 16
    BY TpgRegisters DEF BITS, NARROW, ADDR
  <2> QED BY <2>1 DEF Fit, RegsOf, WidthOf
<1> QED BY <1>1 DEF Field, If, PASSTHR, INTERLACED, POLARITY

\* Replacing a field of the field identifier: its other fields stay.
LEMMA FieldIdGood ==
  ASSUME NEW r, Fit("tpg", r), NEW b \in BOOLEAN
  PROVE  /\ Good("tpg", Set_Interlaced(r, b), r, [interlaced |-> If(b, INTERLACED)])
         /\ Good("tpg", Set_Polarity(r, b), r, [polarity |-> If(b, POLARITY)])
<1>0. INTERLACED # PASSTHR /\ INTERLACED # POLARITY /\ PASSTHR # POLARITY
  BY DEF INTERLACED, PASSTHR, POLARITY
<1>1. Good("tpg", Set_Interlaced(r, b), r, [interlaced |-> If(b, INTERLACED)])
  <2> DEFINE a == [interlaced |-> If(b, INTERLACED)]
  <2> DEFINE v == Field(r[208], INTERLACED, If(b, INTERLACED))
  <2>1. DOMAIN a = {"interlaced"} /\ a["interlaced"] = If(b, INTERLACED)
    OBVIOUS
  <2>2. /\ v \in SUBSET (0 .. 15) /\ v \cap INTERLACED = If(b, INTERLACED)
        /\ v \cap PASSTHR = r[208] \cap PASSTHR /\ v \cap POLARITY = r[208] \cap POLARITY
    BY <1>0, FieldIdFits
  <2>3. DOMAIN a \subseteq DOMAIN SettingsOf("tpg", r)
    BY <2>1, TpgView
  <2> HIDE DEF a, v
  <2>4. W(208, v) \in FitWrites("tpg") /\ Turns("tpg", W(208, v), r, a)
    BY <2>1, <2>2, FieldIdTurns
  <2> QED BY <2>3, <2>4, OneGood, TpgRegisters DEF Set_Interlaced, a, v
<1>2. Good("tpg", Set_Polarity(r, b), r, [polarity |-> If(b, POLARITY)])
  <2> DEFINE a == [polarity |-> If(b, POLARITY)]
  <2> DEFINE v == Field(r[208], POLARITY, If(b, POLARITY))
  <2>1. DOMAIN a = {"polarity"} /\ a["polarity"] = If(b, POLARITY)
    OBVIOUS
  <2>2. /\ v \in SUBSET (0 .. 15) /\ v \cap POLARITY = If(b, POLARITY)
        /\ v \cap PASSTHR = r[208] \cap PASSTHR /\ v \cap INTERLACED = r[208] \cap INTERLACED
    BY <1>0, FieldIdFits
  <2>3. DOMAIN a \subseteq DOMAIN SettingsOf("tpg", r)
    BY <2>1, TpgView
  <2> HIDE DEF a, v
  <2>4. W(208, v) \in FitWrites("tpg") /\ Turns("tpg", W(208, v), r, a)
    BY <2>1, <2>2, FieldIdTurns
  <2> QED BY <2>3, <2>4, OneGood, TpgRegisters DEF Set_Polarity, a, v
<1> QED BY <1>1, <1>2

\* The video input: first its field in the field identifier, then its register.
LEMMA InputGood ==
  ASSUME NEW r, Fit("tpg", r), NEW v \in SUBSET (0 .. 7)
  PROVE  Good("tpg", Set_enableInput(r, v), r,
              [enableInput |-> v, passthrough |-> If(v # {}, PASSTHR)])
<1> DEFINE bits == If(v # {}, PASSTHR)
<1> DEFINE a == [enableInput |-> v, passthrough |-> bits]
<1> DEFINE p == [passthrough |-> bits]
<1> DEFINE x == Field(r[208], PASSTHR, bits)
<1> DEFINE w1 == W(208, x)
<1> DEFINE w2 == W(152, v)
<1> DEFINE s == After("tpg", w1, r)
<1> DEFINE t == After("tpg", w2, s)
<1>1. /\ DOMAIN a = {"enableInput", "passthrough"}
      /\ a["enableInput"] = v /\ a["passthrough"] = bits
      /\ DOMAIN p = {"passthrough"} /\ p["passthrough"] = bits
  OBVIOUS
<1>2. DOMAIN a \subseteq DOMAIN SettingsOf("tpg", r)
  BY <1>1, TpgView
<1>3. w1 \in FitWrites("tpg") /\ Turns("tpg", w1, r, p)
  <2>1. INTERLACED # PASSTHR /\ PASSTHR # POLARITY
    BY DEF INTERLACED, PASSTHR, POLARITY
  <2>3. PICK b \in BOOLEAN : bits = If(b, PASSTHR)
    <3>1. bits = If(TRUE, PASSTHR) \/ bits = If(FALSE, PASSTHR)
      BY DEF If
    <3> QED BY <3>1
  <2>2. /\ x \in SUBSET (0 .. 15) /\ x \cap PASSTHR = bits
        /\ x \cap POLARITY = r[208] \cap POLARITY
        /\ x \cap INTERLACED = r[208] \cap INTERLACED
    <3> HIDE DEF bits
    <3> QED BY <2>1, <2>3, FieldIdFits
  <2> HIDE DEF a, p, x, bits
  <2> QED BY <1>1, <2>2, FieldIdTurns
<1>4. w2 \in FitWrites("tpg")
  BY TpgWrites, TpgRegisters
<1>5. Fit("tpg", s)
  <2> HIDE DEF x
  <2>1. 208 \in TpgRegs
    BY TpgRegisters
  <2>2. x \subseteq 0 .. WidthOf("tpg", 208) - 1
    BY <1>3, <2>1 DEF FitWrites, W, RegsOf
  <2>3. s[208] = x /\ (\A o \in TpgRegs \ {208} : s[o] = r[o]) /\ DOMAIN s = TpgRegs
    BY <2>1, TpgAfter
  <2> HIDE DEF s
  <2> QED BY <2>2, <2>3 DEF Fit, RegsOf
<1> HIDE DEF w1, s
<1>6. /\ \A n \in DOMAIN Plain : t[Plain[n]] = s[Plain[n]]
      /\ t[152] = v /\ t[208] = s[208] /\ t[216] = s[216]
  BY <1>5, OtherTpgWrite
<1> DEFINE e == [enableInput |-> v]
<1>7. DOMAIN e = {"enableInput"} /\ e["enableInput"] = v
  OBVIOUS
<1> HIDE DEF a, p, bits, x, w2, t, e
<1>8. \A c \in DOMAIN SettingsOf("tpg", s) :
        SettingsOf("tpg", t)[c] = IF c \in DOMAIN e THEN e[c] ELSE SettingsOf("tpg", s)[c]
  BY <1>6, <1>7, TpgTurns, PlainNames
<1>9. \A c \in DOMAIN SettingsOf("tpg", r) :
        SettingsOf("tpg", s)[c] = IF c \in DOMAIN p THEN p[c] ELSE SettingsOf("tpg", r)[c]
  BY <1>3 DEF Turns, s
<1>10. DOMAIN SettingsOf("tpg", s) = DOMAIN SettingsOf("tpg", r)
  BY TpgView
<1>11. /\ Kept("tpg", r, s, a) /\ Kept("tpg", s, t, a) /\ Reached("tpg", t, a)
  BY <1>1, <1>2, <1>7, <1>8, <1>9, <1>10 DEF Kept, Reached, Between
<1>12. Promise("tpg", << w1, w2 >>, r, a)
  BY <1>11, TwoPromise DEF s, t
<1>13. << w1, w2 >> \in Seq(FitWrites("tpg"))
  BY <1>3, <1>4
<1>14. Good("tpg", << w1, w2 >>, r, a)
  BY <1>2, <1>12, <1>13 DEF Good
<1> QED BY <1>14, TpgRegisters DEF Set_enableInput, w1, w2, x, bits, a

-----------------------------------------------------------------------------
(* The system monitor: the registers behind each setting.                  *)

ThresholdNumbers == ((0 .. 19) \cup (24 .. 27)) \ {3}

Behind ==
  [avg |-> {CFR0}, calavg |-> {CFR0}, mux |-> {CFR0}, diff |-> {CFR0}, event |-> {CFR0},
   acq |-> {CFR0}, channel |-> {CFR0},
   alarms |-> {CFR1}, calib |-> {CFR1}, mode |-> {CFR1},
   clkdiv |-> {CFR2}, powerdown |-> {CFR2},
   seqch |-> {SEQ(0), SEQ(1), SEQ(8)}, seqavg |-> {SEQ(2), SEQ(3), SEQ(9)},
   seqinput |-> {SEQ(4), SEQ(5)}, seqacq |-> {SEQ(6), SEQ(7)},
   thresholds |-> { ATR(n) : n \in ThresholdNumbers },
   otvalue |-> {ATR_OT_UPPER}, otenable |-> {ATR_OT_UPPER},
   tempupdate |-> {CONVST}, waitcycles |-> {CONVST}]

\* What reads a setting of the configuration registers.
CFR0Names == {"avg", "calavg", "mux", "diff", "event", "acq", "channel"}
CFR1Names == {"alarms", "calib", "mode"}

LEMMA SysMonNames == \A r : DOMAIN SettingsOf("sysmon", r) = DOMAIN Behind
BY DEF SettingsOf, SysMonSettings, Behind

LEMMA CFR0View ==
  ASSUME NEW r
  PROVE  /\ SettingsOf("sysmon", r)["avg"] = Down(r[CFR0] \cap CFR0_AVG, 12)
         /\ SettingsOf("sysmon", r)["calavg"] = r[CFR0] \cap CFR0_CAL_AVG
         /\ SettingsOf("sysmon", r)["mux"] = r[CFR0] \cap CFR0_MUX
         /\ SettingsOf("sysmon", r)["diff"] = r[CFR0] \cap CFR0_DU
         /\ SettingsOf("sysmon", r)["event"] = r[CFR0] \cap CFR0_EC
         /\ SettingsOf("sysmon", r)["acq"] = r[CFR0] \cap CFR0_ACQ
         /\ SettingsOf("sysmon", r)["channel"] = r[CFR0] \cap CFR0_CHANNEL
BY DEF SettingsOf, SysMonSettings, GetAvg, GetAlarmEnables, GetCalibEnables, GetSequencerMode,
       GetAdcClkDivisor, GetOverTemp

LEMMA CFR1View ==
  ASSUME NEW r
  PROVE  /\ SettingsOf("sysmon", r)["alarms"] = CFR1_ALM_ALL \ r[CFR1]
         /\ SettingsOf("sysmon", r)["calib"] = r[CFR1] \cap CFR1_CAL
         /\ SettingsOf("sysmon", r)["mode"] = Down(r[CFR1] \cap CFR1_SEQ, 12)
BY DEF SettingsOf, SysMonSettings, GetAvg, GetAlarmEnables, GetCalibEnables, GetSequencerMode,
       GetAdcClkDivisor, GetOverTemp

LEMMA CFR2View ==
  ASSUME NEW r
  PROVE  /\ SettingsOf("sysmon", r)["clkdiv"] = Down(r[CFR2], 8)
         /\ SettingsOf("sysmon", r)["powerdown"] = r[CFR2] \cap CFR2_PD
BY DEF SettingsOf, SysMonSettings, GetAvg, GetAlarmEnables, GetCalibEnables, GetSequencerMode,
       GetAdcClkDivisor, GetOverTemp

LEMMA ThresholdView ==
  ASSUME NEW r
  PROVE  /\ SettingsOf("sysmon", r)["thresholds"] = Thresholds(r)
         /\ SettingsOf("sysmon", r)["otvalue"] = Down(r[ATR_OT_UPPER], 4)
         /\ SettingsOf("sysmon", r)["otenable"] = r[ATR_OT_UPPER] \cap OT_ENB
BY DEF SettingsOf, SysMonSettings, GetAvg, GetAlarmEnables, GetCalibEnables, GetSequencerMode,
       GetAdcClkDivisor, GetOverTemp

LEMMA UpdateView ==
  ASSUME NEW r
  PROVE  /\ SettingsOf("sysmon", r)["tempupdate"] = r[CONVST] \cap TEMPUPDT
         /\ SettingsOf("sysmon", r)["waitcycles"] = r[CONVST] \cap WAITCYCLES
BY DEF SettingsOf, SysMonSettings, GetAvg, GetAlarmEnables, GetCalibEnables, GetSequencerMode,
       GetAdcClkDivisor, GetOverTemp

LEMMA SequencerView ==
  ASSUME NEW r
  PROVE  /\ SettingsOf("sysmon", r)["seqch"] =
              (r[SEQ(0)] \cap SEQ00_CH) \cup Up(r[SEQ(1)] \cap SEQ_AUX, 16)
                \cup Up(r[SEQ(8)] \cap SEQ_VUSR, 32)
         /\ SettingsOf("sysmon", r)["seqavg"] =
              (r[SEQ(2)] \cap SEQ02_CH) \cup Up(r[SEQ(3)] \cap SEQ_AUX, 16)
                \cup Up(r[SEQ(9)] \cap SEQ_VUSR, 32)
         /\ SettingsOf("sysmon", r)["seqinput"] =
              (r[SEQ(4)] \cap SEQ04_CH) \cup Up(r[SEQ(5)] \cap SEQ_AUX, 16)
         /\ SettingsOf("sysmon", r)["seqacq"] =
              (r[SEQ(6)] \cap SEQ06_CH) \cup Up(r[SEQ(7)] \cap SEQ_AUX, 16)
BY DEF SettingsOf, SysMonSettings, GetSeqChEnables, GetSeqAvgEnables, GetSeqInputMode,
       GetSeqAcqTime

LEMMA BehindThem ==
  /\ DOMAIN Behind = CFR0Names \cup CFR1Names
       \cup {"clkdiv", "powerdown", "seqch", "seqavg", "seqinput", "seqacq", "thresholds",
             "otvalue", "otenable", "tempupdate", "waitcycles"}
  /\ \A s \in CFR0Names : Behind[s] = {CFR0}
  /\ \A s \in CFR1Names : Behind[s] = {CFR1}
  /\ Behind["clkdiv"] = {CFR2} /\ Behind["powerdown"] = {CFR2}
  /\ Behind["seqch"] = {SEQ(0), SEQ(1), SEQ(8)} /\ Behind["seqavg"] = {SEQ(2), SEQ(3), SEQ(9)}
  /\ Behind["seqinput"] = {SEQ(4), SEQ(5)} /\ Behind["seqacq"] = {SEQ(6), SEQ(7)}
  /\ Behind["thresholds"] = { ATR(n) : n \in ThresholdNumbers }
  /\ Behind["otvalue"] = {ATR_OT_UPPER} /\ Behind["otenable"] = {ATR_OT_UPPER}
  /\ Behind["tempupdate"] = {CONVST} /\ Behind["waitcycles"] = {CONVST}
BY DEF Behind, CFR0Names, CFR1Names

\* A setting changes only with the registers behind it.
LEMMA SettingIsLocal ==
  ASSUME NEW r, NEW t, NEW s \in DOMAIN Behind, \A o \in Behind[s] : t[o] = r[o]
  PROVE  SettingsOf("sysmon", t)[s] = SettingsOf("sysmon", r)[s]
<1> DEFINE S == SettingsOf("sysmon", r)
<1> DEFINE T == SettingsOf("sysmon", t)
<1>1. CASE s \in CFR0Names
  <2>1. t[CFR0] = r[CFR0]
    BY <1>1, BehindThem
  <2>2. T["avg"] = S["avg"]
    BY <2>1, CFR0View
  <2>3. T["calavg"] = S["calavg"]
    BY <2>1, CFR0View
  <2>4. T["mux"] = S["mux"]
    BY <2>1, CFR0View
  <2>5. T["diff"] = S["diff"]
    BY <2>1, CFR0View
  <2>6. T["event"] = S["event"]
    BY <2>1, CFR0View
  <2>7. T["acq"] = S["acq"]
    BY <2>1, CFR0View
  <2>8. T["channel"] = S["channel"]
    BY <2>1, CFR0View
  <2> QED BY <1>1, <2>2, <2>3, <2>4, <2>5, <2>6, <2>7, <2>8 DEF CFR0Names
<1>2. CASE s \in CFR1Names
  <2>1. t[CFR1] = r[CFR1]
    BY <1>2, BehindThem
  <2>2. T["alarms"] = S["alarms"] /\ T["calib"] = S["calib"] /\ T["mode"] = S["mode"]
    BY <2>1, CFR1View
  <2> QED BY <1>2, <2>2 DEF CFR1Names
<1>3. CASE s = "clkdiv"
  <2>1. t[CFR2] = r[CFR2]
    BY <1>3, BehindThem
  <2>2. T["clkdiv"] = S["clkdiv"]
    BY <2>1, CFR2View
  <2> QED BY <1>3, <2>2
<1>4. CASE s = "powerdown"
  <2>1. t[CFR2] = r[CFR2]
    BY <1>4, BehindThem
  <2>2. T["powerdown"] = S["powerdown"]
    BY <2>1, CFR2View
  <2> QED BY <1>4, <2>2
<1>5. CASE s = "seqch"
  <2>1. t[SEQ(0)] = r[SEQ(0)] /\ t[SEQ(1)] = r[SEQ(1)] /\ t[SEQ(8)] = r[SEQ(8)]
    BY <1>5, BehindThem
  <2>2. T["seqch"] = S["seqch"]
    BY <2>1, SequencerView
  <2> QED BY <1>5, <2>2
<1>6. CASE s = "seqavg"
  <2>1. t[SEQ(2)] = r[SEQ(2)] /\ t[SEQ(3)] = r[SEQ(3)] /\ t[SEQ(9)] = r[SEQ(9)]
    BY <1>6, BehindThem
  <2>2. T["seqavg"] = S["seqavg"]
    BY <2>1, SequencerView
  <2> QED BY <1>6, <2>2
<1>7. CASE s = "seqinput"
  <2>1. t[SEQ(4)] = r[SEQ(4)] /\ t[SEQ(5)] = r[SEQ(5)]
    BY <1>7, BehindThem
  <2>2. T["seqinput"] = S["seqinput"]
    BY <2>1, SequencerView
  <2> QED BY <1>7, <2>2
<1>8. CASE s = "seqacq"
  <2>1. t[SEQ(6)] = r[SEQ(6)] /\ t[SEQ(7)] = r[SEQ(7)]
    BY <1>8, BehindThem
  <2>2. T["seqacq"] = S["seqacq"]
    BY <2>1, SequencerView
  <2> QED BY <1>8, <2>2
<1>10. CASE s = "otvalue"
  <2>1. t[ATR_OT_UPPER] = r[ATR_OT_UPPER]
    BY <1>10, BehindThem
  <2>2. T["otvalue"] = S["otvalue"]
    BY <2>1, ThresholdView
  <2> QED BY <1>10, <2>2
<1>11. CASE s = "otenable"
  <2>1. t[ATR_OT_UPPER] = r[ATR_OT_UPPER]
    BY <1>11, BehindThem
  <2>2. T["otenable"] = S["otenable"]
    BY <2>1, ThresholdView
  <2> QED BY <1>11, <2>2
<1>12. CASE s = "tempupdate"
  <2>1. t[CONVST] = r[CONVST]
    BY <1>12, BehindThem
  <2>2. T["tempupdate"] = S["tempupdate"]
    BY <2>1, UpdateView
  <2> QED BY <1>12, <2>2
<1>13. CASE s = "waitcycles"
  <2>1. t[CONVST] = r[CONVST]
    BY <1>13, BehindThem
  <2>2. T["waitcycles"] = S["waitcycles"]
    BY <2>1, UpdateView
  <2> QED BY <1>13, <2>2
<1>9. CASE s = "thresholds"
  <2>1. \A n \in ThresholdNumbers : t[ATR(n)] = r[ATR(n)]
    BY <1>9, BehindThem
  <2>2. Thresholds(t) = Thresholds(r)
    BY <2>1 DEF Thresholds, GetAlarmThreshold, ThresholdNumbers
  <2>3. T["thresholds"] = S["thresholds"]
    BY <2>2, ThresholdView
  <2> QED BY <1>9, <2>3
<1> QED BY <1>1, <1>2, <1>3, <1>4, <1>5, <1>6, <1>7, <1>8, <1>9, <1>10, <1>11, <1>12, <1>13,
           BehindThem

LEMMA SysMonOffsets ==
  /\ SRR = 0 /\ CONVST = 12 /\ ARR = 16 /\ CFR0 = 768 /\ CFR1 = 772 /\ CFR2 = 776
  /\ SEQ(0) = 800 /\ SEQ(1) = 804 /\ SEQ(2) = 808 /\ SEQ(3) = 812 /\ SEQ(4) = 816
  /\ SEQ(5) = 820 /\ SEQ(6) = 824 /\ SEQ(7) = 828 /\ SEQ(8) = 792 /\ SEQ(9) = 796
  /\ ATR_OT_UPPER = 844
  /\ \A n \in (0 .. 19) \cup (24 .. 27) : ATR(n) = 832 + 4 * n
BY DEF SRR, CONVST, ARR, CFR0, CFR1, CFR2, SEQ, ATR, ATR_OT_UPPER

LEMMA BehindWhom ==
  ASSUME NEW s \in DOMAIN Behind
  PROVE  /\ ARR \notin Behind[s]
         /\ CFR0 \in Behind[s] => s \in CFR0Names
         /\ CFR1 \in Behind[s] => s \in CFR1Names
         /\ CFR2 \in Behind[s] => s \in {"clkdiv", "powerdown"}
         /\ SEQ(0) \in Behind[s] \/ SEQ(1) \in Behind[s] \/ SEQ(8) \in Behind[s] => s = "seqch"
         /\ SEQ(2) \in Behind[s] \/ SEQ(3) \in Behind[s] \/ SEQ(9) \in Behind[s] => s = "seqavg"
         /\ SEQ(4) \in Behind[s] \/ SEQ(5) \in Behind[s] => s = "seqinput"
         /\ SEQ(6) \in Behind[s] \/ SEQ(7) \in Behind[s] => s = "seqacq"
         /\ ATR_OT_UPPER \in Behind[s] => s \in {"otvalue", "otenable"}
         /\ \A n \in ThresholdNumbers : ATR(n) \in Behind[s] => s = "thresholds"
         /\ CONVST \in Behind[s] => s \in {"tempupdate", "waitcycles"}
<1>1. \A n \in ThresholdNumbers :
        /\ ATR(n) = 832 + 4 * n /\ n \in Nat /\ n # 3
        /\ ATR(n) \notin {12, 16, 768, 772, 776, 792, 796, 800, 804, 808, 812, 816, 820, 824,
                          828, 844}
  BY SysMonOffsets DEF ThresholdNumbers
<1>2. CASE s = "thresholds"
  BY <1>1, <1>2, BehindThem, SysMonOffsets
<1>3. CASE s \in CFR0Names
  <2>1. Behind[s] = {768}
    BY <1>3, BehindThem, SysMonOffsets
  <2> QED BY <1>1, <1>3, <2>1, SysMonOffsets
<1>4. CASE s \in CFR1Names
  <2>1. Behind[s] = {772}
    BY <1>4, BehindThem, SysMonOffsets
  <2> QED BY <1>1, <1>4, <2>1, SysMonOffsets
<1>5. CASE s \in {"clkdiv", "powerdown"}
  <2>1. Behind[s] = {776}
    BY <1>5, BehindThem, SysMonOffsets
  <2> QED BY <1>1, <1>5, <2>1, SysMonOffsets
<1>6. CASE s = "seqch"
  <2>1. Behind[s] = {800, 804, 792}
    BY <1>6, BehindThem, SysMonOffsets
  <2> QED BY <1>1, <1>6, <2>1, SysMonOffsets
<1>7. CASE s = "seqavg"
  <2>1. Behind[s] = {808, 812, 796}
    BY <1>7, BehindThem, SysMonOffsets
  <2> QED BY <1>1, <1>7, <2>1, SysMonOffsets
<1>8. CASE s = "seqinput"
  <2>1. Behind[s] = {816, 820}
    BY <1>8, BehindThem, SysMonOffsets
  <2> QED BY <1>1, <1>8, <2>1, SysMonOffsets
<1>9. CASE s = "seqacq"
  <2>1. Behind[s] = {824, 828}
    BY <1>9, BehindThem, SysMonOffsets
  <2> QED BY <1>1, <1>9, <2>1, SysMonOffsets
<1>10. CASE s \in {"otvalue", "otenable"}
  <2>1. Behind[s] = {844}
    BY <1>10, BehindThem, SysMonOffsets
  <2> QED BY <1>1, <1>10, <2>1, SysMonOffsets
<1>11. CASE s \in {"tempupdate", "waitcycles"}
  <2>1. Behind[s] = {12}
    BY <1>11, BehindThem, SysMonOffsets
  <2> QED BY <1>1, <1>11, <2>1, SysMonOffsets
<1> QED BY <1>2, <1>3, <1>4, <1>5, <1>6, <1>7, <1>8, <1>9, <1>10, <1>11, BehindThem

LEMMA SysMonAfter ==
  ASSUME NEW r, Fit("sysmon", r), NEW o \in SysMonRegs, NEW v
  PROVE  /\ After("sysmon", W(o, v), r)[o] = v
         /\ \A p \in SysMonRegs \ {o} : After("sysmon", W(o, v), r)[p] = r[p]
         /\ DOMAIN After("sysmon", W(o, v), r) = SysMonRegs
BY RegisterFile DEF After, W, Fit, RegsOf

LEMMA SysMonWrites ==
  ASSUME NEW o \in SysMonRegs, NEW v \in SUBSET (0 .. 15)
  PROVE  W(o, v) \in FitWrites("sysmon")
<1>1. v \in SUBSET Int /\ v \subseteq 0 .. WidthOf("sysmon", o) - 1 /\ o \in Nat
  BY RegisterFile DEF WidthOf
<1> QED BY <1>1 DEF W, FitWrites, RegsOf

LEMMA BehindRegisters == \A s \in DOMAIN Behind : Behind[s] \subseteq SysMonRegs
<1> SUFFICES ASSUME NEW s \in DOMAIN Behind, NEW o \in Behind[s] PROVE o \in SysMonRegs
  OBVIOUS
<1>1. CASE s = "thresholds"
  BY <1>1, BehindThem, RegisterFile DEF ThresholdNumbers, OtherRegs
<1>2. CASE s # "thresholds"
  <2>1. o \in {CFR0, CFR1, CFR2, ATR_OT_UPPER, CONVST} \cup { SEQ(n) : n \in 0 .. 9 }
    BY <1>2, BehindThem
  <2> QED BY <2>1, RegisterFile DEF OtherRegs
<1> QED BY <1>1, <1>2

\* A write changes no setting but those that its register is behind.
LEMMA OnlyBehind ==
  ASSUME NEW r, Fit("sysmon", r), NEW o \in SysMonRegs, NEW v, NEW t,
         t = After("sysmon", W(o, v), r), NEW s \in DOMAIN Behind, o \notin Behind[s]
  PROVE  SettingsOf("sysmon", t)[s] = SettingsOf("sysmon", r)[s]
BY BehindRegisters, SysMonAfter, SettingIsLocal

\* A write for the settings of its register alone.
LEMMA SysMonTurns ==
  ASSUME NEW r, Fit("sysmon", r), NEW o \in SysMonRegs, NEW v \in SUBSET (0 .. 15), NEW a,
         DOMAIN a \subseteq DOMAIN Behind, \A s \in DOMAIN a : o \in Behind[s],
         \A s \in DOMAIN Behind :
           o \in Behind[s] => SettingsOf("sysmon", After("sysmon", W(o, v), r))[s] =
                                IF s \in DOMAIN a THEN a[s] ELSE SettingsOf("sysmon", r)[s]
  PROVE  Good("sysmon", << W(o, v) >>, r, a)
<1>1. Turns("sysmon", W(o, v), r, a)
  BY SysMonNames, OnlyBehind DEF Turns
<1>2. W(o, v) \in FitWrites("sysmon") /\ DOMAIN a \subseteq DOMAIN SettingsOf("sysmon", r)
  BY SysMonWrites, SysMonNames
<1> QED BY <1>1, <1>2, OneGood

LEMMA Shifted ==
  ASSUME NEW s \in SUBSET Int, NEW k \in Int
  PROVE  /\ \A x : x \in Up(s, k) <=> x \in Int /\ x - k \in s
         /\ \A x : x \in Down(s, k) <=> x \in Int /\ x >= 0 /\ x + k \in s
BY DEF Up, Down

LEMMA OwnWrite ==
  \A r, v : \A o \in SysMonRegs :
    Fit("sysmon", r) => After("sysmon", W(o, v), r)[o] = v
BY SysMonAfter

\* A write to CFR0.
LEMMA CFR0Good ==
  ASSUME NEW r, Fit("sysmon", r), NEW v \in SUBSET (0 .. 15), NEW a, DOMAIN a \subseteq CFR0Names,
         Down(v \cap CFR0_AVG, 12) =
           IF "avg" \in DOMAIN a THEN a["avg"] ELSE Down(r[CFR0] \cap CFR0_AVG, 12),
         v \cap CFR0_CAL_AVG =
           IF "calavg" \in DOMAIN a THEN a["calavg"] ELSE r[CFR0] \cap CFR0_CAL_AVG,
         v \cap CFR0_MUX = IF "mux" \in DOMAIN a THEN a["mux"] ELSE r[CFR0] \cap CFR0_MUX,
         v \cap CFR0_DU = IF "diff" \in DOMAIN a THEN a["diff"] ELSE r[CFR0] \cap CFR0_DU,
         v \cap CFR0_EC = IF "event" \in DOMAIN a THEN a["event"] ELSE r[CFR0] \cap CFR0_EC,
         v \cap CFR0_ACQ = IF "acq" \in DOMAIN a THEN a["acq"] ELSE r[CFR0] \cap CFR0_ACQ,
         v \cap CFR0_CHANNEL =
           IF "channel" \in DOMAIN a THEN a["channel"] ELSE r[CFR0] \cap CFR0_CHANNEL
  PROVE  Good("sysmon", << W(CFR0, v) >>, r, a)
<1> DEFINE t == After("sysmon", W(CFR0, v), r)
<1>1. t[CFR0] = v
  <2>1. CFR0 \in SysMonRegs
    BY RegisterFile DEF OtherRegs
  <2> QED BY <2>1, OwnWrite
<1> HIDE DEF t
<1>2. SettingsOf("sysmon", t)["avg"] = IF "avg" \in DOMAIN a THEN a["avg"]
                                     ELSE SettingsOf("sysmon", r)["avg"]
  <2>1. /\ SettingsOf("sysmon", t)["avg"] = Down(v \cap CFR0_AVG, 12)
        /\ SettingsOf("sysmon", r)["avg"] = Down(r[CFR0] \cap CFR0_AVG, 12)
    BY <1>1, CFR0View
  <2> QED BY <2>1
<1>3. SettingsOf("sysmon", t)["calavg"] = IF "calavg" \in DOMAIN a THEN a["calavg"]
                                     ELSE SettingsOf("sysmon", r)["calavg"]
  <2>1. /\ SettingsOf("sysmon", t)["calavg"] = v \cap CFR0_CAL_AVG
        /\ SettingsOf("sysmon", r)["calavg"] = r[CFR0] \cap CFR0_CAL_AVG
    BY <1>1, CFR0View
  <2> QED BY <2>1
<1>4. SettingsOf("sysmon", t)["mux"] = IF "mux" \in DOMAIN a THEN a["mux"]
                                     ELSE SettingsOf("sysmon", r)["mux"]
  <2>1. /\ SettingsOf("sysmon", t)["mux"] = v \cap CFR0_MUX
        /\ SettingsOf("sysmon", r)["mux"] = r[CFR0] \cap CFR0_MUX
    BY <1>1, CFR0View
  <2> QED BY <2>1
<1>5. SettingsOf("sysmon", t)["diff"] = IF "diff" \in DOMAIN a THEN a["diff"]
                                     ELSE SettingsOf("sysmon", r)["diff"]
  <2>1. /\ SettingsOf("sysmon", t)["diff"] = v \cap CFR0_DU
        /\ SettingsOf("sysmon", r)["diff"] = r[CFR0] \cap CFR0_DU
    BY <1>1, CFR0View
  <2> QED BY <2>1
<1>6. SettingsOf("sysmon", t)["event"] = IF "event" \in DOMAIN a THEN a["event"]
                                     ELSE SettingsOf("sysmon", r)["event"]
  <2>1. /\ SettingsOf("sysmon", t)["event"] = v \cap CFR0_EC
        /\ SettingsOf("sysmon", r)["event"] = r[CFR0] \cap CFR0_EC
    BY <1>1, CFR0View
  <2> QED BY <2>1
<1>7. SettingsOf("sysmon", t)["acq"] = IF "acq" \in DOMAIN a THEN a["acq"]
                                     ELSE SettingsOf("sysmon", r)["acq"]
  <2>1. /\ SettingsOf("sysmon", t)["acq"] = v \cap CFR0_ACQ
        /\ SettingsOf("sysmon", r)["acq"] = r[CFR0] \cap CFR0_ACQ
    BY <1>1, CFR0View
  <2> QED BY <2>1
<1>8. SettingsOf("sysmon", t)["channel"] = IF "channel" \in DOMAIN a THEN a["channel"]
                                     ELSE SettingsOf("sysmon", r)["channel"]
  <2>1. /\ SettingsOf("sysmon", t)["channel"] = v \cap CFR0_CHANNEL
        /\ SettingsOf("sysmon", r)["channel"] = r[CFR0] \cap CFR0_CHANNEL
    BY <1>1, CFR0View
  <2> QED BY <2>1
<1>9. \A s \in CFR0Names :
        SettingsOf("sysmon", t)[s] = IF s \in DOMAIN a THEN a[s] ELSE SettingsOf("sysmon", r)[s]
  BY <1>2, <1>3, <1>4, <1>5, <1>6, <1>7, <1>8 DEF CFR0Names
<1>10. \A s \in CFR0Names : s \in DOMAIN Behind /\ CFR0 \in Behind[s]
  BY BehindThem
<1> QED BY <1>9, <1>10, SysMonTurns, BehindWhom, RegisterFile DEF OtherRegs, t

\* A write to CFR1.
LEMMA CFR1Good ==
  ASSUME NEW r, Fit("sysmon", r), NEW v \in SUBSET (0 .. 15), NEW a, DOMAIN a \subseteq CFR1Names,
         CFR1_ALM_ALL \ v = IF "alarms" \in DOMAIN a THEN a["alarms"] ELSE CFR1_ALM_ALL \ r[CFR1],
         v \cap CFR1_CAL = IF "calib" \in DOMAIN a THEN a["calib"] ELSE r[CFR1] \cap CFR1_CAL,
         Down(v \cap CFR1_SEQ, 12) =
           IF "mode" \in DOMAIN a THEN a["mode"] ELSE Down(r[CFR1] \cap CFR1_SEQ, 12)
  PROVE  Good("sysmon", << W(CFR1, v) >>, r, a)
<1> DEFINE t == After("sysmon", W(CFR1, v), r)
<1>1. t[CFR1] = v
  <2>1. CFR1 \in SysMonRegs
    BY RegisterFile DEF OtherRegs
  <2> QED BY <2>1, OwnWrite
<1> HIDE DEF t
<1>2. SettingsOf("sysmon", t)["alarms"] = IF "alarms" \in DOMAIN a THEN a["alarms"]
                                     ELSE SettingsOf("sysmon", r)["alarms"]
  <2>1. /\ SettingsOf("sysmon", t)["alarms"] = CFR1_ALM_ALL \ v
        /\ SettingsOf("sysmon", r)["alarms"] = CFR1_ALM_ALL \ r[CFR1]
    BY <1>1, CFR1View
  <2> QED BY <2>1
<1>3. SettingsOf("sysmon", t)["calib"] = IF "calib" \in DOMAIN a THEN a["calib"]
                                     ELSE SettingsOf("sysmon", r)["calib"]
  <2>1. /\ SettingsOf("sysmon", t)["calib"] = v \cap CFR1_CAL
        /\ SettingsOf("sysmon", r)["calib"] = r[CFR1] \cap CFR1_CAL
    BY <1>1, CFR1View
  <2> QED BY <2>1
<1>4. SettingsOf("sysmon", t)["mode"] = IF "mode" \in DOMAIN a THEN a["mode"]
                                     ELSE SettingsOf("sysmon", r)["mode"]
  <2>1. /\ SettingsOf("sysmon", t)["mode"] = Down(v \cap CFR1_SEQ, 12)
        /\ SettingsOf("sysmon", r)["mode"] = Down(r[CFR1] \cap CFR1_SEQ, 12)
    BY <1>1, CFR1View
  <2> QED BY <2>1
<1>5. \A s \in CFR1Names :
        SettingsOf("sysmon", t)[s] = IF s \in DOMAIN a THEN a[s] ELSE SettingsOf("sysmon", r)[s]
  BY <1>2, <1>3, <1>4 DEF CFR1Names
<1>6. \A s \in CFR1Names : s \in DOMAIN Behind /\ CFR1 \in Behind[s]
  BY BehindThem
<1> QED BY <1>5, <1>6, SysMonTurns, BehindWhom, RegisterFile DEF OtherRegs, t

\* A write to CFR2.
LEMMA CFR2Good ==
  ASSUME NEW r, Fit("sysmon", r), NEW v \in SUBSET (0 .. 15),
         NEW a, DOMAIN a \subseteq {"clkdiv", "powerdown"},
         Down(v, 8) = IF "clkdiv" \in DOMAIN a THEN a["clkdiv"] ELSE Down(r[CFR2], 8),
         v \cap CFR2_PD = IF "powerdown" \in DOMAIN a THEN a["powerdown"] ELSE r[CFR2] \cap CFR2_PD
  PROVE  Good("sysmon", << W(CFR2, v) >>, r, a)
<1> DEFINE t == After("sysmon", W(CFR2, v), r)
<1>1. t[CFR2] = v
  <2>1. CFR2 \in SysMonRegs
    BY RegisterFile DEF OtherRegs
  <2> QED BY <2>1, OwnWrite
<1> HIDE DEF t
<1>2. SettingsOf("sysmon", t)["clkdiv"] = IF "clkdiv" \in DOMAIN a THEN a["clkdiv"]
                                     ELSE SettingsOf("sysmon", r)["clkdiv"]
  <2>1. /\ SettingsOf("sysmon", t)["clkdiv"] = Down(v, 8)
        /\ SettingsOf("sysmon", r)["clkdiv"] = Down(r[CFR2], 8)
    BY <1>1, CFR2View
  <2> QED BY <2>1
<1>3. SettingsOf("sysmon", t)["powerdown"] = IF "powerdown" \in DOMAIN a THEN a["powerdown"]
                                     ELSE SettingsOf("sysmon", r)["powerdown"]
  <2>1. /\ SettingsOf("sysmon", t)["powerdown"] = v \cap CFR2_PD
        /\ SettingsOf("sysmon", r)["powerdown"] = r[CFR2] \cap CFR2_PD
    BY <1>1, CFR2View
  <2> QED BY <2>1
<1>4. \A s \in {"clkdiv", "powerdown"} :
        SettingsOf("sysmon", t)[s] = IF s \in DOMAIN a THEN a[s] ELSE SettingsOf("sysmon", r)[s]
  BY <1>2, <1>3
<1>5. \A s \in {"clkdiv", "powerdown"} : s \in DOMAIN Behind /\ CFR2 \in Behind[s]
  BY BehindThem
<1> QED BY <1>4, <1>5, SysMonTurns, BehindWhom, RegisterFile DEF OtherRegs, t

\* A write to ATR_OT_UPPER.
LEMMA OverTempGood ==
  ASSUME NEW r, Fit("sysmon", r), NEW v \in SUBSET (0 .. 15),
         NEW a, DOMAIN a \subseteq {"otvalue", "otenable"},
         Down(v, 4) = IF "otvalue" \in DOMAIN a THEN a["otvalue"] ELSE Down(r[ATR_OT_UPPER], 4),
         v \cap OT_ENB =
           IF "otenable" \in DOMAIN a THEN a["otenable"] ELSE r[ATR_OT_UPPER] \cap OT_ENB
  PROVE  Good("sysmon", << W(ATR_OT_UPPER, v) >>, r, a)
<1> DEFINE t == After("sysmon", W(ATR_OT_UPPER, v), r)
<1>1. t[ATR_OT_UPPER] = v
  <2>1. ATR_OT_UPPER \in SysMonRegs
    BY RegisterFile DEF OtherRegs
  <2> QED BY <2>1, OwnWrite
<1> HIDE DEF t
<1>2. SettingsOf("sysmon", t)["otvalue"] = IF "otvalue" \in DOMAIN a THEN a["otvalue"]
                                     ELSE SettingsOf("sysmon", r)["otvalue"]
  <2>1. /\ SettingsOf("sysmon", t)["otvalue"] = Down(v, 4)
        /\ SettingsOf("sysmon", r)["otvalue"] = Down(r[ATR_OT_UPPER], 4)
    BY <1>1, ThresholdView
  <2> QED BY <2>1
<1>3. SettingsOf("sysmon", t)["otenable"] = IF "otenable" \in DOMAIN a THEN a["otenable"]
                                     ELSE SettingsOf("sysmon", r)["otenable"]
  <2>1. /\ SettingsOf("sysmon", t)["otenable"] = v \cap OT_ENB
        /\ SettingsOf("sysmon", r)["otenable"] = r[ATR_OT_UPPER] \cap OT_ENB
    BY <1>1, ThresholdView
  <2> QED BY <2>1
<1>4. \A s \in {"otvalue", "otenable"} :
        SettingsOf("sysmon", t)[s] = IF s \in DOMAIN a THEN a[s] ELSE SettingsOf("sysmon", r)[s]
  BY <1>2, <1>3
<1>5. \A s \in {"otvalue", "otenable"} : s \in DOMAIN Behind /\ ATR_OT_UPPER \in Behind[s]
  BY BehindThem
<1> QED BY <1>4, <1>5, SysMonTurns, BehindWhom, RegisterFile DEF OtherRegs, t

LEMMA SmallQuotient ==
  ASSUME NEW n \in Nat, NEW p \in Nat, n < p
  PROVE  (n \div p) % 2 = 0
<1>1. n \div p = 0
  OBVIOUS
<1> QED BY <1>1

\* The powers of two above the widths of the fields.
Wide(i, p) == p \in Nat /\ p >= 64 /\ (i >= 8 => p >= 256) /\ (i >= 16 => p > 1000)

LEMMA Powers == \A i \in 6 .. 17 : Wide(i, 2 ^ i)
<1> SUFFICES ASSUME NEW i \in 6 .. 17 PROVE Wide(i, 2 ^ i)
  OBVIOUS
<1>1. CASE i = 6
  <2>1. Wide(6, 2 ^ 6)
    BY SMT DEF Wide
  <2> QED BY <1>1, <2>1, Zenon
<1>2. CASE i = 7
  <2>1. Wide(7, 2 ^ 7)
    BY SMT DEF Wide
  <2> QED BY <1>2, <2>1, Zenon
<1>3. CASE i = 8
  <2>1. Wide(8, 2 ^ 8)
    BY SMT DEF Wide
  <2> QED BY <1>3, <2>1, Zenon
<1>4. CASE i = 9
  <2>1. Wide(9, 2 ^ 9)
    BY SMT DEF Wide
  <2> QED BY <1>4, <2>1, Zenon
<1>5. CASE i = 10
  <2>1. Wide(10, 2 ^ 10)
    BY SMT DEF Wide
  <2> QED BY <1>5, <2>1, Zenon
<1>6. CASE i = 11
  <2>1. Wide(11, 2 ^ 11)
    BY SMT DEF Wide
  <2> QED BY <1>6, <2>1, Zenon
<1>7. CASE i = 12
  <2>1. Wide(12, 2 ^ 12)
    BY SMT DEF Wide
  <2> QED BY <1>7, <2>1, Zenon
<1>8. CASE i = 13
  <2>1. Wide(13, 2 ^ 13)
    BY SMT DEF Wide
  <2> QED BY <1>8, <2>1, Zenon
<1>9. CASE i = 14
  <2>1. Wide(14, 2 ^ 14)
    BY SMT DEF Wide
  <2> QED BY <1>9, <2>1, Zenon
<1>10. CASE i = 15
  <2>1. Wide(15, 2 ^ 15)
    BY SMT DEF Wide
  <2> QED BY <1>10, <2>1, Zenon
<1>11. CASE i = 16
  <2>1. Wide(16, 2 ^ 16)
    BY SMT DEF Wide
  <2> QED BY <1>11, <2>1, Zenon
<1>12. CASE i = 17
  <2>1. Wide(17, 2 ^ 17)
    BY SMT DEF Wide
  <2> QED BY <1>12, <2>1, Zenon
<1> QED BY <1>1, <1>2, <1>3, <1>4, <1>5, <1>6, <1>7, <1>8, <1>9, <1>10, <1>11, <1>12

LEMMA NarrowBits ==
  /\ \A n \in 0 .. 63 : Bits(n) \subseteq 0 .. 5
  /\ \A n \in 0 .. 255 : Bits(n) \subseteq 0 .. 7
  /\ \A n \in 0 .. 1000 : Bits(n) \subseteq 0 .. 15
<1>1. ASSUME NEW n \in Nat, NEW i \in Bits(n), i \in 6 .. 17, n < 2 ^ i PROVE FALSE
  <2>1. 2 ^ i \in Nat
    BY <1>1, Powers DEF Wide
  <2>2. (n \div 2 ^ i) % 2 = 1
    BY DEF Bits
  <2> QED BY <1>1, <2>1, <2>2, SmallQuotient
<1>2. \A n : Bits(n) \subseteq 0 .. 17
  BY DEF Bits
<1>3. \A n \in 0 .. 63 : Bits(n) \subseteq 0 .. 5
  <2> SUFFICES ASSUME NEW n \in 0 .. 63, NEW i \in Bits(n), i \in 6 .. 17 PROVE FALSE
    BY <1>2
  <2>1. n < 2 ^ i
    <3>1. i \in 6 .. 17
      OBVIOUS
    <3>2. Wide(i, 2 ^ i)
      BY <3>1, Powers
    <3> QED BY <3>2 DEF Wide
  <2> QED BY <1>1, <2>1
<1>4. \A n \in 0 .. 255 : Bits(n) \subseteq 0 .. 7
  <2> SUFFICES ASSUME NEW n \in 0 .. 255, NEW i \in Bits(n), i \in 8 .. 17 PROVE FALSE
    BY <1>2
  <2>1. n < 2 ^ i
    <3>1. i \in 6 .. 17
      OBVIOUS
    <3>2. Wide(i, 2 ^ i)
      BY <3>1, Powers
    <3> QED BY <3>2 DEF Wide
  <2> QED BY <1>1, <2>1
<1>5. \A n \in 0 .. 1000 : Bits(n) \subseteq 0 .. 15
  <2> SUFFICES ASSUME NEW n \in 0 .. 1000, NEW i \in Bits(n), i \in 16 .. 17 PROVE FALSE
    BY <1>2
  <2>1. n < 2 ^ i
    <3>1. i \in 6 .. 17
      OBVIOUS
    <3>2. Wide(i, 2 ^ i)
      BY <3>1, Powers
    <3> QED BY <3>2 DEF Wide
  <2> QED BY <1>1, <2>1
<1> QED BY <1>3, <1>4, <1>5

LEMMA Sixteen ==
  ASSUME NEW r, Fit("sysmon", r), NEW o \in OtherRegs PROVE r[o] \in SUBSET (0 .. 15)
BY RegisterFile DEF Fit, RegsOf, WidthOf, OtherRegs

LEMMA SetAvgGood ==
  ASSUME NEW r, Fit("sysmon", r), NEW avg \in Averages
  PROVE  Good("sysmon", SetAvg(r, avg), r, [avg |-> avg])
<1> DEFINE a == [avg |-> avg]
<1> DEFINE new == Up(avg, 12)
<1> DEFINE v == Field(r[CFR0], CFR0_AVG, new)
<1>1. r[CFR0] \in SUBSET (0 .. 15)
  BY RegisterFile, Sixteen
<1>2. new \subseteq 12 .. 13 /\ Down(new, 12) = avg
  <2>1. CASE avg = {}
    BY <2>1 DEF Up, Down
  <2>2. CASE avg = {0, 1}
    <3>1. new = {12, 13}
      BY <2>2 DEF Up
    <3> QED BY <2>2, <3>1 DEF Down
  <2> QED BY <2>1, <2>2 DEF Averages
<1>3. DOMAIN a = {"avg"} /\ a["avg"] = avg
  OBVIOUS
<1> HIDE DEF new, a
<1>4. /\ v \in SUBSET (0 .. 15) /\ v \cap CFR0_AVG = new
      /\ v \cap CFR0_CAL_AVG = r[CFR0] \cap CFR0_CAL_AVG
      /\ v \cap CFR0_MUX = r[CFR0] \cap CFR0_MUX /\ v \cap CFR0_DU = r[CFR0] \cap CFR0_DU
      /\ v \cap CFR0_EC = r[CFR0] \cap CFR0_EC /\ v \cap CFR0_ACQ = r[CFR0] \cap CFR0_ACQ
      /\ v \cap CFR0_CHANNEL = r[CFR0] \cap CFR0_CHANNEL
  <2> HIDE DEF v
  <2>1. v = (r[CFR0] \ (12 .. 13)) \cup new
    BY DEF v, Field, CFR0_AVG
  <2>4. v \in SUBSET (0 .. 15)
    <3>1. new \subseteq 0 .. 15
      BY <1>2
    <3> QED BY <1>1, <2>1, <3>1
  <2>2. v \cap CFR0_AVG = new
    BY <1>2, <2>1 DEF CFR0_AVG
  <2>3. \A i : i \in v /\ i \notin 12 .. 13 <=> i \in r[CFR0] /\ i \notin 12 .. 13
    BY <1>2, <2>1
  <2> QED BY <2>2, <2>3, <2>4 DEF CFR0_CAL_AVG, CFR0_MUX, CFR0_DU, CFR0_EC, CFR0_ACQ, CFR0_CHANNEL
<1> HIDE DEF v
<1>5. DOMAIN a \subseteq CFR0Names
  BY <1>3 DEF CFR0Names
<1>6. Good("sysmon", << W(CFR0, v) >>, r, a)
  BY <1>2, <1>3, <1>4, <1>5, CFR0Good
<1> QED BY <1>6 DEF SetAvg, v, new, a

LEMMA DownUp ==
  ASSUME NEW s \in SUBSET Nat, NEW k \in Nat PROVE Down(Up(s, k), k) = s
<1>1. s \in SUBSET Int /\ k \in Int
  OBVIOUS
<1>2. Up(s, k) \in SUBSET Int
  BY <1>1, Fields
<1>3. ASSUME NEW x \in Nat PROVE x \in Down(Up(s, k), k) <=> x \in s
  <2>1. x + k \in Int /\ (x + k) - k = x
    OBVIOUS
  <2> QED BY <1>1, <1>2, <2>1, Shifted
<1>4. \A x \in Down(Up(s, k), k) : x \in Nat
  BY <1>1, <1>2, Shifted
<1> HIDE DEF Up, Down
<1> QED BY <1>3, <1>4

LEMMA SingleChGood ==
  ASSUME NEW r, Fit("sysmon", r), NEW ch \in Channels, NEW acq \in BOOLEAN,
         NEW event \in BOOLEAN, NEW diff \in BOOLEAN
  PROVE  Good("sysmon", SetSingleChParams(r, ch, acq, event, diff), r,
              [channel |-> Bits(ch), acq |-> If(acq, CFR0_ACQ), event |-> If(event, CFR0_EC),
               diff |-> If(diff, CFR0_DU), mux |-> {}, calavg |-> {}])
<1> DEFINE A == If(acq, CFR0_ACQ)
<1> DEFINE E == If(event, CFR0_EC)
<1> DEFINE D == If(diff, CFR0_DU)
<1> DEFINE C == Bits(ch)
<1> DEFINE a == [channel |-> C, acq |-> A, event |-> E, diff |-> D, mux |-> {}, calavg |-> {}]
<1> DEFINE v == (r[CFR0] \cap CFR0_AVG) \cup A \cup D \cup E \cup (C \cap CFR0_CHANNEL)
<1>1. r[CFR0] \in SUBSET (0 .. 15)
  BY RegisterFile, Sixteen
<1>2. /\ \A i \in A : i = 8
      /\ \A i \in E : i = 9
      /\ \A i \in D : i = 10
      /\ \A i \in C : i \in 0 .. 5
  <2>1. A \subseteq {8} /\ E \subseteq {9} /\ D \subseteq {10}
    BY DEF If, CFR0_ACQ, CFR0_EC, CFR0_DU
  <2>2. ch \in 0 .. 63
    BY DEF Channels
  <2> QED BY <2>1, <2>2, NarrowBits
<1>3. /\ DOMAIN a = {"channel", "acq", "event", "diff", "mux", "calavg"}
      /\ a["channel"] = C /\ a["acq"] = A /\ a["event"] = E /\ a["diff"] = D
      /\ a["mux"] = {} /\ a["calavg"] = {}
  OBVIOUS
<1> HIDE DEF A, E, D, C, a
<1>4. \A i : i \in v <=> \/ (i \in r[CFR0] /\ i \in 12 .. 13)
                         \/ i \in A \/ i \in D \/ i \in E \/ i \in C
  BY <1>2 DEF CFR0_AVG, CFR0_CHANNEL
<1> HIDE DEF v
<1>5. v \in SUBSET (0 .. 15)
  <2> SUFFICES ASSUME NEW i \in v PROVE i \in 0 .. 15
    OBVIOUS
  <2>1. \/ (i \in r[CFR0] /\ i \in 12 .. 13) \/ i \in A \/ i \in D \/ i \in E \/ i \in C
    BY <1>4
  <2> QED BY <1>2, <2>1
<1>6. v \cap CFR0_AVG = r[CFR0] \cap CFR0_AVG
  BY <1>2, <1>4 DEF CFR0_AVG
<1>7. v \cap CFR0_CAL_AVG = {} /\ v \cap CFR0_MUX = {}
  BY <1>2, <1>4 DEF CFR0_CAL_AVG, CFR0_MUX
<1>8. v \cap CFR0_DU = D /\ v \cap CFR0_EC = E /\ v \cap CFR0_ACQ = A
  BY <1>2, <1>4 DEF CFR0_DU, CFR0_EC, CFR0_ACQ
<1>9. v \cap CFR0_CHANNEL = C
  BY <1>2, <1>4 DEF CFR0_CHANNEL
<1>10. DOMAIN a \subseteq CFR0Names
  BY <1>3 DEF CFR0Names
<1>11. Good("sysmon", << W(CFR0, v) >>, r, a)
  BY <1>3, <1>5, <1>6, <1>7, <1>8, <1>9, <1>10, CFR0Good
<1>12. Good("sysmon", << >>, r, a)
  BY <1>11, NoPromise DEF Good
<1> QED BY <1>11, <1>12 DEF SetSingleChParams, A, E, D, C, a, v

LEMMA ExternalMuxGood ==
  ASSUME NEW r, Fit("sysmon", r), NEW ch \in Channels
  PROVE  Good("sysmon", SetExtenalMux(r, ch), r, [mux |-> CFR0_MUX, channel |-> Bits(ch)])
<1> DEFINE C == Bits(ch)
<1> DEFINE a == [mux |-> CFR0_MUX, channel |-> C]
<1> DEFINE v == Field(r[CFR0], CFR0_CHANNEL, CFR0_MUX \cup C)
<1>1. r[CFR0] \in SUBSET (0 .. 15)
  BY RegisterFile, Sixteen
<1>2. \A i \in C : i \in 0 .. 5
  <2>1. ch \in 0 .. 63
    BY DEF Channels
  <2> QED BY <2>1, NarrowBits
<1>3. DOMAIN a = {"mux", "channel"} /\ a["mux"] = CFR0_MUX /\ a["channel"] = C
  OBVIOUS
<1> HIDE DEF C, a
<1>4. \A i : i \in v <=> (i \in r[CFR0] /\ i \notin 0 .. 5) \/ i = 11 \/ i \in C
  BY DEF Field, CFR0_CHANNEL, CFR0_MUX
<1> HIDE DEF v
<1>5. v \in SUBSET (0 .. 15)
  <2> SUFFICES ASSUME NEW i \in v PROVE i \in 0 .. 15
    OBVIOUS
  <2>1. i \in r[CFR0] \/ i = 11 \/ i \in C
    BY <1>4
  <2> QED BY <1>1, <1>2, <2>1
<1>6. v \cap CFR0_AVG = r[CFR0] \cap CFR0_AVG
  BY <1>2, <1>4 DEF CFR0_AVG
<1>7. v \cap CFR0_CAL_AVG = r[CFR0] \cap CFR0_CAL_AVG /\ v \cap CFR0_DU = r[CFR0] \cap CFR0_DU
  BY <1>2, <1>4 DEF CFR0_CAL_AVG, CFR0_DU
<1>8. v \cap CFR0_EC = r[CFR0] \cap CFR0_EC /\ v \cap CFR0_ACQ = r[CFR0] \cap CFR0_ACQ
  BY <1>2, <1>4 DEF CFR0_EC, CFR0_ACQ
<1>9. v \cap CFR0_CHANNEL = C /\ v \cap CFR0_MUX = CFR0_MUX
  BY <1>2, <1>4 DEF CFR0_CHANNEL, CFR0_MUX
<1>10. DOMAIN a \subseteq CFR0Names
  BY <1>3 DEF CFR0Names
<1>11. Good("sysmon", << W(CFR0, v) >>, r, a)
  BY <1>3, <1>5, <1>6, <1>7, <1>8, <1>9, <1>10, CFR0Good
<1> QED BY <1>11 DEF SetExtenalMux, C, a, v

LEMMA SequencerEventGood ==
  ASSUME NEW r, Fit("sysmon", r), NEW b \in BOOLEAN
  PROVE  Good("sysmon", SetSequencerEvent(r, b), r, [event |-> If(b, CFR0_EC)])
<1> DEFINE E == If(b, CFR0_EC)
<1> DEFINE a == [event |-> E]
<1> DEFINE v == Field(r[CFR0], CFR0_EC, E)
<1>1. r[CFR0] \in SUBSET (0 .. 15)
  BY RegisterFile, Sixteen
<1>2. \A i \in E : i = 9
  BY DEF If, CFR0_EC
<1>3. DOMAIN a = {"event"} /\ a["event"] = E
  OBVIOUS
<1> HIDE DEF E, a
<1>4. \A i : i \in v <=> (i \in r[CFR0] /\ i # 9) \/ i \in E
  BY DEF Field, CFR0_EC
<1> HIDE DEF v
<1>5. v \in SUBSET (0 .. 15)
  <2> SUFFICES ASSUME NEW i \in v PROVE i \in 0 .. 15
    OBVIOUS
  <2>1. i \in r[CFR0] \/ i \in E
    BY <1>4
  <2> QED BY <1>1, <1>2, <2>1
<1>6. v \cap CFR0_AVG = r[CFR0] \cap CFR0_AVG
  BY <1>2, <1>4 DEF CFR0_AVG
<1>7. v \cap CFR0_CAL_AVG = r[CFR0] \cap CFR0_CAL_AVG /\ v \cap CFR0_DU = r[CFR0] \cap CFR0_DU
  BY <1>2, <1>4 DEF CFR0_CAL_AVG, CFR0_DU
<1>8. v \cap CFR0_EC = E /\ v \cap CFR0_ACQ = r[CFR0] \cap CFR0_ACQ
  BY <1>2, <1>4 DEF CFR0_EC, CFR0_ACQ
<1>9. /\ v \cap CFR0_CHANNEL = r[CFR0] \cap CFR0_CHANNEL
      /\ v \cap CFR0_MUX = r[CFR0] \cap CFR0_MUX
  BY <1>2, <1>4 DEF CFR0_CHANNEL, CFR0_MUX
<1>10. DOMAIN a \subseteq CFR0Names
  BY <1>3 DEF CFR0Names
<1>11. Good("sysmon", << W(CFR0, v) >>, r, a)
  BY <1>3, <1>5, <1>6, <1>7, <1>8, <1>9, <1>10, CFR0Good
<1> QED BY <1>11 DEF SetSequencerEvent, E, a, v

LEMMA DivisorGood ==
  ASSUME NEW r, Fit("sysmon", r), NEW div \in {Bits(8), Bits(255)}
  PROVE  Good("sysmon", SetAdcClkDivisor(div), r, [clkdiv |-> div, powerdown |-> {}])
<1> DEFINE a == [clkdiv |-> div, powerdown |-> {}]
<1> DEFINE v == Up(div, 8)
<1>1. div \subseteq 0 .. 7
  BY NarrowBits
<1>2. DOMAIN a = {"clkdiv", "powerdown"} /\ a["clkdiv"] = div /\ a["powerdown"] = {}
  OBVIOUS
<1> HIDE DEF a
<1>3. \A i : i \in v <=> i \in Int /\ i - 8 \in div
  <2>1. div \in SUBSET Int /\ 8 \in Int
    BY <1>1
  <2> QED BY <2>1, Shifted
<1> HIDE DEF v
<1>4. v \in SUBSET (0 .. 15) /\ v \cap CFR2_PD = {}
  BY <1>1, <1>3 DEF CFR2_PD
<1>5. Down(v, 8) = div
  BY <1>1, DownUp DEF v
<1>6. Good("sysmon", << W(CFR2, v) >>, r, a)
  BY <1>2, <1>4, <1>5, CFR2Good
<1> QED BY <1>6 DEF SetAdcClkDivisor, v, a

LEMMA DownSame ==
  ASSUME NEW s \in SUBSET Int, NEW t \in SUBSET Int, NEW k \in Nat,
         \A i \in Int : i >= k => (i \in s <=> i \in t)
  PROVE  Down(s, k) = Down(t, k)
<1>1. ASSUME NEW x PROVE x \in Down(s, k) <=> x \in Down(t, k)
  <2>1. CASE x \in Int /\ x >= 0
    <3>1. x + k \in Int /\ x + k >= k
      BY <2>1
    <3> QED BY <2>1, <3>1, Shifted
  <2>2. CASE ~(x \in Int /\ x >= 0)
    BY <2>2, Shifted
  <2> QED BY <2>1, <2>2
<1> HIDE DEF Down
<1> QED BY <1>1

LEMMA AlarmsGood ==
  ASSUME NEW r, Fit("sysmon", r), NEW alm \in SUBSET CFR1_ALM_ALL
  PROVE  Good("sysmon", SetAlarmEnables(r, alm), r, [alarms |-> alm])
<1> DEFINE a == [alarms |-> alm]
<1> DEFINE v == Field(r[CFR1], CFR1_ALM_ALL, CFR1_ALM_ALL \ alm)
<1>1. r[CFR1] \in SUBSET (0 .. 15)
  BY RegisterFile, Sixteen
<1>2. DOMAIN a = {"alarms"} /\ a["alarms"] = alm
  OBVIOUS
<1> HIDE DEF a
<1>3. \A i : i \in v <=> \/ (i \in r[CFR1] /\ i \notin CFR1_ALM_ALL)
                         \/ (i \in CFR1_ALM_ALL /\ i \notin alm)
  BY DEF Field
<1> HIDE DEF v
<1>4. v \in SUBSET (0 .. 15)
  BY <1>1, <1>3 DEF CFR1_ALM_ALL
<1>5. CFR1_ALM_ALL \ v = alm
  BY <1>3
<1>6. v \cap CFR1_CAL = r[CFR1] \cap CFR1_CAL /\ v \cap CFR1_SEQ = r[CFR1] \cap CFR1_SEQ
  BY <1>3 DEF CFR1_ALM_ALL, CFR1_CAL, CFR1_SEQ
<1>7. DOMAIN a \subseteq CFR1Names
  BY <1>2 DEF CFR1Names
<1>8. Good("sysmon", << W(CFR1, v) >>, r, a)
  BY <1>2, <1>4, <1>5, <1>6, <1>7, CFR1Good
<1> QED BY <1>8 DEF SetAlarmEnables, v, a

LEMMA CalibGood ==
  ASSUME NEW r, Fit("sysmon", r), NEW cal \in SUBSET CFR1_CAL
  PROVE  Good("sysmon", SetCalibEnables(r, cal), r, [calib |-> cal])
<1> DEFINE a == [calib |-> cal]
<1> DEFINE v == Field(r[CFR1], CFR1_CAL, cal \cap CFR1_CAL)
<1>1. r[CFR1] \in SUBSET (0 .. 15)
  BY RegisterFile, Sixteen
<1>2. DOMAIN a = {"calib"} /\ a["calib"] = cal
  OBVIOUS
<1> HIDE DEF a
<1>3. \A i : i \in v <=> (i \in r[CFR1] /\ i \notin CFR1_CAL) \/ i \in cal
  BY DEF Field
<1> HIDE DEF v
<1>4. v \in SUBSET (0 .. 15)
  <2>1. \A i \in cal : i \in 4 .. 7
    BY DEF CFR1_CAL
  <2> SUFFICES ASSUME NEW i \in v PROVE i \in 0 .. 15
    OBVIOUS
  <2> QED BY <1>1, <1>3, <2>1
<1>5. v \cap CFR1_CAL = cal
  BY <1>3
<1>6. CFR1_ALM_ALL \ v = CFR1_ALM_ALL \ r[CFR1] /\ v \cap CFR1_SEQ = r[CFR1] \cap CFR1_SEQ
  BY <1>3 DEF CFR1_ALM_ALL, CFR1_CAL, CFR1_SEQ
<1>7. DOMAIN a \subseteq CFR1Names
  BY <1>2 DEF CFR1Names
<1>8. Good("sysmon", << W(CFR1, v) >>, r, a)
  BY <1>2, <1>4, <1>5, <1>6, <1>7, CFR1Good
<1> QED BY <1>8 DEF SetCalibEnables, v, a

LEMMA ModeGood ==
  ASSUME NEW r, Fit("sysmon", r), NEW mode \in SUBSET (0 .. 3)
  PROVE  Good("sysmon", SetSequencerMode(r, mode), r, [mode |-> mode])
<1> DEFINE a == [mode |-> mode]
<1> DEFINE new == Up(mode, 12)
<1> DEFINE v == Field(r[CFR1], CFR1_SEQ, new \cap CFR1_SEQ)
<1>1. r[CFR1] \in SUBSET (0 .. 15)
  BY RegisterFile, Sixteen
<1>2. DOMAIN a = {"mode"} /\ a["mode"] = mode
  OBVIOUS
<1>3. Down(new, 12) = mode
  BY DownUp
<1>4. \A i \in new : i \in 12 .. 15
  BY DEF Up
<1> HIDE DEF a, new
<1>5. \A i : i \in v <=> (i \in r[CFR1] /\ i \notin 12 .. 15) \/ i \in new
  BY <1>4 DEF Field, CFR1_SEQ
<1> HIDE DEF v
<1>6. v \in SUBSET (0 .. 15)
  BY <1>1, <1>4, <1>5
<1>7. v \cap CFR1_SEQ = new
  BY <1>4, <1>5 DEF CFR1_SEQ
<1>8. CFR1_ALM_ALL \ v = CFR1_ALM_ALL \ r[CFR1] /\ v \cap CFR1_CAL = r[CFR1] \cap CFR1_CAL
  BY <1>4, <1>5 DEF CFR1_ALM_ALL, CFR1_CAL
<1>9. DOMAIN a \subseteq CFR1Names
  BY <1>2 DEF CFR1Names
<1>10. Good("sysmon", << W(CFR1, v) >>, r, a)
  BY <1>2, <1>3, <1>6, <1>7, <1>8, <1>9, CFR1Good
<1> QED BY <1>10 DEF SetSequencerMode, v, new, a

\* The register that the shutdown shares with its threshold.
LEMMA OverTempSet ==
  ASSUME NEW r, Fit("sysmon", r), NEW v \in SUBSET (0 .. 11)
  PROVE  Good("sysmon", SetOverTemp(r, v), r, [otvalue |-> v])
<1> DEFINE a == [otvalue |-> v]
<1> DEFINE new == Up(v, 4)
<1> DEFINE x == (r[ATR_OT_UPPER] \ OT_VAL) \cup (new \cap 0 .. 15)
<1>1. r[ATR_OT_UPPER] \in SUBSET (0 .. 15)
  BY RegisterFile, Sixteen
<1>2. DOMAIN a = {"otvalue"} /\ a["otvalue"] = v
  OBVIOUS
<1>3. Down(new, 4) = v
  BY DownUp
<1>4. \A i \in new : i \in 4 .. 15
  BY DEF Up
<1> HIDE DEF a, new
<1>5. \A i : i \in x <=> (i \in r[ATR_OT_UPPER] /\ i \notin 4 .. 15) \/ i \in new
  BY <1>4 DEF OT_VAL
<1> HIDE DEF x
<1>6. x \in SUBSET (0 .. 15)
  BY <1>1, <1>4, <1>5
<1>7. Down(x, 4) = v
  <2>1. x \in SUBSET Int /\ new \in SUBSET Int /\ 4 \in Nat
    BY <1>4, <1>6
  <2>2. \A i \in Int : i >= 4 => (i \in x <=> i \in new)
    BY <1>1, <1>5
  <2> QED BY <1>3, <2>1, <2>2, DownSame
<1>8. x \cap OT_ENB = r[ATR_OT_UPPER] \cap OT_ENB
  BY <1>4, <1>5 DEF OT_ENB
<1>9. Good("sysmon", << W(ATR_OT_UPPER, x) >>, r, a)
  BY <1>2, <1>6, <1>7, <1>8, OverTempGood
<1> QED BY <1>9 DEF SetOverTemp, x, new, a

LEMMA OverTempSwitch ==
  ASSUME NEW r, Fit("sysmon", r)
  PROVE  /\ Good("sysmon", EnableUserOverTemp(r), r, [otenable |-> OT_ENB_VAL])
         /\ Good("sysmon", DisableUserOverTemp(r), r, [otenable |-> {}])
<1>1. r[ATR_OT_UPPER] \in SUBSET (0 .. 15)
  BY RegisterFile, Sixteen
<1>2. ASSUME NEW new \in SUBSET OT_ENB, NEW x, x = (r[ATR_OT_UPPER] \ OT_ENB) \cup new
      PROVE  Good("sysmon", << W(ATR_OT_UPPER, x) >>, r, [otenable |-> new])
  <2> DEFINE a == [otenable |-> new]
  <2>1. DOMAIN a = {"otenable"} /\ a["otenable"] = new
    OBVIOUS
  <2> HIDE DEF a
  <2>2. \A i : i \in x <=> (i \in r[ATR_OT_UPPER] /\ i \notin 0 .. 3) \/ i \in new
    BY <1>2 DEF OT_ENB
  <2>3. \A i \in new : i \in 0 .. 3
    BY DEF OT_ENB
  <2>4. x \in SUBSET (0 .. 15)
    <3> SUFFICES ASSUME NEW i \in x PROVE i \in 0 .. 15
      OBVIOUS
    <3> QED BY <1>1, <2>2, <2>3
  <2>5. x \cap OT_ENB = new
    BY <2>2, <2>3 DEF OT_ENB
  <2>6. Down(x, 4) = Down(r[ATR_OT_UPPER], 4)
    <3>1. x \in SUBSET Int /\ r[ATR_OT_UPPER] \in SUBSET Int /\ 4 \in Nat
      BY <1>1, <2>4
    <3>2. \A i \in Int : i >= 4 => (i \in x <=> i \in r[ATR_OT_UPPER])
      BY <2>2, <2>3
    <3> QED BY <3>1, <3>2, DownSame
  <2> QED BY <2>1, <2>4, <2>5, <2>6, OverTempGood DEF a
<1>3. OT_ENB_VAL \in SUBSET OT_ENB /\ {} \in SUBSET OT_ENB
  BY DEF OT_ENB_VAL, OT_ENB
<1>4. EnableUserOverTemp(r) = << W(ATR_OT_UPPER, (r[ATR_OT_UPPER] \ OT_ENB) \cup OT_ENB_VAL) >>
  BY DEF EnableUserOverTemp, Field
<1>5. DisableUserOverTemp(r) = << W(ATR_OT_UPPER, (r[ATR_OT_UPPER] \ OT_ENB) \cup {}) >>
  <2>1. (r[ATR_OT_UPPER] \ OT_ENB) \cup {} = r[ATR_OT_UPPER] \ OT_ENB
    OBVIOUS
  <2> QED BY <2>1 DEF DisableUserOverTemp
<1> QED BY <1>2, <1>3, <1>4, <1>5

LEMMA OverTempThreshold ==
  ASSUME NEW r, Fit("sysmon", r), NEW v \in SUBSET (0 .. 15)
  PROVE  Good("sysmon", SetAlarmThreshold(3, v), r,
              [otvalue |-> Down(v, 4), otenable |-> v \cap OT_ENB])
<1> DEFINE a == [otvalue |-> Down(v, 4), otenable |-> v \cap OT_ENB]
<1>1. /\ DOMAIN a = {"otvalue", "otenable"}
      /\ a["otvalue"] = Down(v, 4) /\ a["otenable"] = v \cap OT_ENB
  OBVIOUS
<1> HIDE DEF a
<1>2. Good("sysmon", << W(ATR_OT_UPPER, v) >>, r, a)
  BY <1>1, OverTempGood
<1> QED BY <1>2 DEF SetAlarmThreshold, ATR_OT_UPPER, a

\* The thresholds are pairs of a number and a bit.
LEMMA ThresholdPairs ==
  ASSUME NEW r, NEW p
  PROVE  p \in Thresholds(r) <=> \E n \in ThresholdNumbers : \E x \in r[ATR(n)] : p = << n, x >>
BY DEF Thresholds, GetAlarmThreshold, ThresholdNumbers

Replaced(r, n, v) == { p \in Thresholds(r) : p[1] # n } \cup ({n} \X v)

LEMMA ThresholdWritten ==
  ASSUME NEW r, Fit("sysmon", r), NEW n \in ThresholdNumbers, NEW v, NEW t,
         t = After("sysmon", W(ATR(n), v), r)
  PROVE  Thresholds(t) = Replaced(r, n, v)
<1>1. \A m \in ThresholdNumbers : ATR(m) \in SysMonRegs /\ (ATR(m) = ATR(n) => m = n)
  BY RegisterFile, SysMonOffsets DEF ThresholdNumbers, OtherRegs
<1>2. t[ATR(n)] = v /\ \A m \in ThresholdNumbers \ {n} : t[ATR(m)] = r[ATR(m)]
  BY <1>1, SysMonAfter
<1> HIDE DEF ThresholdNumbers
<1>3. ASSUME NEW p \in Thresholds(t) PROVE p \in Replaced(r, n, v)
  <2>1. PICK m \in ThresholdNumbers : \E x \in t[ATR(m)] : p = << m, x >>
    BY ThresholdPairs
  <2>2. PICK x \in t[ATR(m)] : p = << m, x >>
    BY <2>1
  <2>3. CASE m = n
    BY <1>2, <2>2, <2>3 DEF Replaced
  <2>4. CASE m # n
    <3>1. x \in r[ATR(m)] /\ p[1] # n
      BY <1>2, <2>2, <2>4
    <3>2. p \in Thresholds(r)
      BY <2>2, <3>1, ThresholdPairs
    <3> QED BY <3>1, <3>2 DEF Replaced
  <2> QED BY <2>3, <2>4
<1>4. ASSUME NEW p \in Replaced(r, n, v) PROVE p \in Thresholds(t)
  <2>1. CASE p \in Thresholds(r) /\ p[1] # n
    <3>1. PICK m \in ThresholdNumbers : \E x \in r[ATR(m)] : p = << m, x >>
      BY <2>1, ThresholdPairs
    <3>2. PICK x \in r[ATR(m)] : p = << m, x >>
      BY <3>1
    <3>3. x \in t[ATR(m)]
      BY <1>2, <2>1, <3>2
    <3> QED BY <3>2, <3>3, ThresholdPairs
  <2>2. CASE p \in {n} \X v
    <3>1. PICK x \in v : p = << n, x >>
      BY <2>2
    <3> QED BY <1>2, <3>1, ThresholdPairs
  <2> QED BY <2>1, <2>2 DEF Replaced
<1> QED BY <1>3, <1>4

LEMMA ThresholdGood ==
  ASSUME NEW r, Fit("sysmon", r), NEW n \in ThresholdNumbers, NEW v \in SUBSET (0 .. 15)
  PROVE  Good("sysmon", SetAlarmThreshold(n, v), r, [thresholds |-> Replaced(r, n, v)])
<1> DEFINE a == [thresholds |-> Replaced(r, n, v)]
<1> DEFINE t == After("sysmon", W(ATR(n), v), r)
<1>1. DOMAIN a = {"thresholds"} /\ a["thresholds"] = Replaced(r, n, v)
  OBVIOUS
<1>2. Thresholds(t) = Replaced(r, n, v)
  BY ThresholdWritten
<1>3. ATR(n) \in SysMonRegs
  BY RegisterFile DEF ThresholdNumbers, OtherRegs
<1> HIDE DEF a, t
<1>4. SettingsOf("sysmon", t)["thresholds"] = a["thresholds"]
  BY <1>1, <1>2, ThresholdView
<1>5. "thresholds" \in DOMAIN Behind /\ ATR(n) \in Behind["thresholds"]
  BY BehindThem
<1>6. \A s \in DOMAIN Behind : ATR(n) \in Behind[s] => s = "thresholds"
  BY BehindWhom
<1>7. Good("sysmon", << W(ATR(n), v) >>, r, a)
  BY <1>1, <1>3, <1>4, <1>5, <1>6, SysMonTurns DEF t
<1> QED BY <1>7 DEF SetAlarmThreshold, a

-----------------------------------------------------------------------------
(* Settings that two or three registers hold the parts of.                 *)

LEMMA KeptOne ==
  ASSUME NEW r, NEW t, NEW a, NEW x, DOMAIN a = {x},
         x \in DOMAIN Behind =>
           Between(SettingsOf("sysmon", r)[x], SettingsOf("sysmon", t)[x], a[x]),
         \A s \in DOMAIN Behind \ {x} : SettingsOf("sysmon", t)[s] = SettingsOf("sysmon", r)[s]
  PROVE  Kept("sysmon", r, t, a)
BY SysMonNames DEF Kept

LEMMA FitAfter ==
  ASSUME NEW r, Fit("sysmon", r), NEW o \in OtherRegs, NEW v \in SUBSET (0 .. 15)
  PROVE  Fit("sysmon", After("sysmon", W(o, v), r))
<1> DEFINE t == After("sysmon", W(o, v), r)
<1>1. o \in SysMonRegs /\ o # CONVST
  BY DEF OtherRegs
<1>2. t[o] = v /\ (\A p \in SysMonRegs \ {o} : t[p] = r[p]) /\ DOMAIN t = SysMonRegs
  BY <1>1, SysMonAfter
<1> HIDE DEF t
<1>3. Fit("sysmon", t)
  BY <1>1, <1>2 DEF Fit, RegsOf, WidthOf
<1> QED BY <1>3 DEF t

\* The channels from k on, in a register of their own.
ChannelsFrom(chs, k, m, y) ==
  /\ \A c : c \in Up((Down(chs, k) \cap m) \cap m, k) <=> c \in chs /\ c - k \in m
  /\ \A c \in Up(y \cap m, k) : c - k \in m

LEMMA HighPart ==
  \A chs \in SUBSET Nat, k \in Nat, m \in SUBSET Nat : \A y : ChannelsFrom(chs, k, m, y)
<1> SUFFICES ASSUME NEW chs \in SUBSET Nat, NEW k \in Nat, NEW m \in SUBSET Nat, NEW y
             PROVE  ChannelsFrom(chs, k, m, y)
  OBVIOUS
<1>1. chs \in SUBSET Int /\ k \in Int /\ m \in SUBSET Int /\ y \cap m \in SUBSET Int
      /\ (Down(chs, k) \cap m) \cap m \in SUBSET Int
  <2>1. chs \in SUBSET Int /\ k \in Int /\ m \in SUBSET Int
    OBVIOUS
  <2>2. \A z : z \cap m \in SUBSET Int
    BY <2>1
  <2> HIDE DEF Down
  <2> QED BY <2>1, <2>2
<1>2. \A c : c \in Up((Down(chs, k) \cap m) \cap m, k) <=>
               c \in Int /\ c - k \in (Down(chs, k) \cap m) \cap m
  BY <1>1, Shifted
<1>3. \A c : c \in Up(y \cap m, k) <=> c \in Int /\ c - k \in y \cap m
  BY <1>1, Shifted
<1>4. \A x : x \in Down(chs, k) <=> x \in Int /\ x >= 0 /\ x + k \in chs
  BY <1>1, Shifted
<1> HIDE DEF Up, Down
<1>5. ASSUME NEW c \in Int
      PROVE  c - k \in (Down(chs, k) \cap m) \cap m <=> c \in chs /\ c - k \in m
  <2>1. c - k \in Int /\ (c - k) + k = c
    OBVIOUS
  <2>2. c - k \in m => c - k >= 0
    OBVIOUS
  <2> QED BY <1>4, <2>1, <2>2
<1>6. \A c \in chs : c \in Int
  OBVIOUS
<1> QED BY <1>2, <1>3, <1>5, <1>6 DEF ChannelsFrom

LEMMA AuxiliaryPart ==
  ASSUME NEW chs \in SUBSET Nat, NEW y
  PROVE  /\ \A c : c \in Up((Down(chs, 16) \cap SEQ_AUX) \cap SEQ_AUX, 16)
                     <=> c \in chs /\ c - 16 \in SEQ_AUX
         /\ \A c \in Up(y \cap SEQ_AUX, 16) : c - 16 \in SEQ_AUX
<1>1. SEQ_AUX \in SUBSET Nat /\ 16 \in Nat
  BY DEF SEQ_AUX
<1>2. ChannelsFrom(chs, 16, SEQ_AUX, y)
  BY <1>1, HighPart, Zenon
<1> QED BY <1>2 DEF ChannelsFrom

LEMMA UserPart ==
  ASSUME NEW chs \in SUBSET Nat, NEW y
  PROVE  /\ \A c : c \in Up((Down(chs, 32) \cap SEQ_VUSR) \cap SEQ_VUSR, 32)
                     <=> c \in chs /\ c - 32 \in SEQ_VUSR
         /\ \A c \in Up(y \cap SEQ_VUSR, 32) : c - 32 \in SEQ_VUSR
<1>1. SEQ_VUSR \in SUBSET Nat /\ 32 \in Nat
  BY DEF SEQ_VUSR
<1>2. ChannelsFrom(chs, 32, SEQ_VUSR, y)
  BY <1>1, HighPart, Zenon
<1> QED BY <1>2 DEF ChannelsFrom

\* A setting in three registers: the channels in the mask, the auxiliary
\* channels and the user supplies.
LEMMA ThreeParts ==
  ASSUME NEW r, Fit("sysmon", r), NEW x \in DOMAIN Behind,
         NEW o1 \in OtherRegs, NEW o2 \in OtherRegs, NEW o3 \in OtherRegs,
         o1 # o2, o1 # o3, o2 # o3, NEW m \in SUBSET (0 .. 15),
         \A q : SettingsOf("sysmon", q)[x] =
                  (q[o1] \cap m) \cup Up(q[o2] \cap SEQ_AUX, 16) \cup Up(q[o3] \cap SEQ_VUSR, 32),
         \A s \in DOMAIN Behind \ {x} :
           o1 \notin Behind[s] /\ o2 \notin Behind[s] /\ o3 \notin Behind[s],
         NEW chs \in SUBSET Nat, NEW a, DOMAIN a = {x}, a[x] = chs,
         \A c \in chs : c \in m \/ c - 16 \in SEQ_AUX \/ c - 32 \in SEQ_VUSR
  PROVE  Good("sysmon", << W(o1, chs \cap m), W(o2, Down(chs, 16) \cap SEQ_AUX),
                           W(o3, Down(chs, 32) \cap SEQ_VUSR) >>, r, a)
<1> DEFINE v1 == chs \cap m
<1> DEFINE v2 == Down(chs, 16) \cap SEQ_AUX
<1> DEFINE v3 == Down(chs, 32) \cap SEQ_VUSR
<1> DEFINE r1 == After("sysmon", W(o1, v1), r)
<1> DEFINE r2 == After("sysmon", W(o2, v2), r1)
<1> DEFINE r3 == After("sysmon", W(o3, v3), r2)
<1>1. SEQ_AUX \in SUBSET (0 .. 15) /\ SEQ_VUSR \in SUBSET (0 .. 15)
  BY DEF SEQ_AUX, SEQ_VUSR
<1>2. v1 \in SUBSET (0 .. 15) /\ v2 \in SUBSET (0 .. 15) /\ v3 \in SUBSET (0 .. 15)
  BY <1>1
<1> DEFINE B(y) == Up(y \cap SEQ_AUX, 16)
<1> DEFINE C(y) == Up(y \cap SEQ_VUSR, 32)
<1>3. /\ \A c : c \in B(v2) <=> c \in chs /\ c - 16 \in SEQ_AUX
      /\ \A c \in B(r[o2]) : c - 16 \in SEQ_AUX
  BY AuxiliaryPart
<1>4. /\ \A c : c \in C(v3) <=> c \in chs /\ c - 32 \in SEQ_VUSR
      /\ \A c \in C(r[o3]) : c - 32 \in SEQ_VUSR
  BY UserPart
<1> HIDE DEF v2, v3
<1>5. OtherRegs \subseteq SysMonRegs
  BY DEF OtherRegs
<1> DEFINE S(q) == SettingsOf("sysmon", q)[x]
<1>6. /\ Fit("sysmon", r1) /\ r1[o1] = v1 /\ r1[o2] = r[o2] /\ r1[o3] = r[o3]
      /\ \A s \in DOMAIN Behind \ {x} : SettingsOf("sysmon", r1)[s] = SettingsOf("sysmon", r)[s]
  <2>1. Fit("sysmon", r1)
    BY <1>2, FitAfter
  <2>2. r1[o1] = v1 /\ r1[o2] = r[o2] /\ r1[o3] = r[o3]
    BY <1>5, SysMonAfter
  <2>3. \A s \in DOMAIN Behind \ {x} : SettingsOf("sysmon", r1)[s] = SettingsOf("sysmon", r)[s]
    BY <1>5, OnlyBehind
  <2> QED BY <2>1, <2>2, <2>3
<1> HIDE DEF r1
<1>7. /\ Fit("sysmon", r2) /\ r2[o1] = v1 /\ r2[o2] = v2 /\ r2[o3] = r[o3]
      /\ \A s \in DOMAIN Behind \ {x} : SettingsOf("sysmon", r2)[s] = SettingsOf("sysmon", r1)[s]
  <2>1. Fit("sysmon", r2)
    BY <1>2, <1>6, FitAfter
  <2>2. r2[o1] = r1[o1] /\ r2[o2] = v2 /\ r2[o3] = r1[o3]
    BY <1>5, <1>6, SysMonAfter
  <2>3. \A s \in DOMAIN Behind \ {x} : SettingsOf("sysmon", r2)[s] = SettingsOf("sysmon", r1)[s]
    BY <1>5, <1>6, OnlyBehind
  <2> QED BY <1>6, <2>1, <2>2, <2>3
<1> HIDE DEF r2
<1>8. /\ r3[o1] = v1 /\ r3[o2] = v2 /\ r3[o3] = v3
      /\ \A s \in DOMAIN Behind \ {x} : SettingsOf("sysmon", r3)[s] = SettingsOf("sysmon", r2)[s]
  <2>2. r3[o1] = r2[o1] /\ r3[o2] = r2[o2] /\ r3[o3] = v3
    BY <1>5, <1>7, SysMonAfter
  <2>3. \A s \in DOMAIN Behind \ {x} : SettingsOf("sysmon", r3)[s] = SettingsOf("sysmon", r2)[s]
    BY <1>5, <1>7, OnlyBehind
  <2> QED BY <1>7, <2>2, <2>3
<1> HIDE DEF r3
<1>9. /\ S(r) = (r[o1] \cap m) \cup B(r[o2]) \cup C(r[o3])
      /\ S(r1) = (v1 \cap m) \cup B(r[o2]) \cup C(r[o3])
      /\ S(r2) = (v1 \cap m) \cup B(v2) \cup C(r[o3])
      /\ S(r3) = (v1 \cap m) \cup B(v2) \cup C(v3)
  <2>1. \A q : S(q) = (q[o1] \cap m) \cup B(q[o2]) \cup C(q[o3])
    BY Zenon
  <2> HIDE DEF B, C, S
  <2> QED BY <1>6, <1>7, <1>8, <2>1
<1> HIDE DEF B, C, S
<1>10. Between(S(r), S(r1), chs)
  BY <1>9 DEF Between
<1>11. Between(S(r1), S(r2), chs)
  BY <1>3, <1>9 DEF Between
<1>12. Between(S(r2), S(r3), chs)
  BY <1>4, <1>9 DEF Between
<1>13. S(r3) = chs
  BY <1>3, <1>4, <1>9
<1>14. Kept("sysmon", r, r1, a)
  BY <1>6, <1>10, KeptOne DEF S
<1>15. Kept("sysmon", r1, r2, a)
  BY <1>7, <1>11, KeptOne DEF S
<1>16. Kept("sysmon", r2, r3, a)
  BY <1>8, <1>12, KeptOne DEF S
<1>17. Reached("sysmon", r3, a)
  BY <1>13 DEF Reached, S
<1>18. Promise("sysmon", << W(o1, v1), W(o2, v2), W(o3, v3) >>, r, a)
  BY <1>14, <1>15, <1>16, <1>17, ThreePromise DEF r1, r2, r3
<1>19. << W(o1, v1), W(o2, v2), W(o3, v3) >> \in Seq(FitWrites("sysmon"))
  <2>1. /\ W(o1, v1) \in FitWrites("sysmon") /\ W(o2, v2) \in FitWrites("sysmon")
        /\ W(o3, v3) \in FitWrites("sysmon")
    BY <1>2, <1>5, SysMonWrites
  <2> QED BY <2>1
<1> QED BY <1>18, <1>19, SysMonNames DEF Good, v2, v3

\* A setting in two registers: the channels in the mask and the auxiliary ones.
LEMMA TwoParts ==
  ASSUME NEW r, Fit("sysmon", r), NEW x \in DOMAIN Behind,
         NEW o1 \in OtherRegs, NEW o2 \in OtherRegs, o1 # o2, NEW m \in SUBSET (0 .. 15),
         \A q : SettingsOf("sysmon", q)[x] = (q[o1] \cap m) \cup Up(q[o2] \cap SEQ_AUX, 16),
         \A s \in DOMAIN Behind \ {x} : o1 \notin Behind[s] /\ o2 \notin Behind[s],
         NEW chs \in SUBSET Nat, NEW a, DOMAIN a = {x}, a[x] = chs,
         \A c \in chs : c \in m \/ c - 16 \in SEQ_AUX
  PROVE  Good("sysmon", << W(o1, chs \cap m), W(o2, Down(chs, 16) \cap SEQ_AUX) >>, r, a)
<1> DEFINE v1 == chs \cap m
<1> DEFINE v2 == Down(chs, 16) \cap SEQ_AUX
<1> DEFINE r1 == After("sysmon", W(o1, v1), r)
<1> DEFINE r2 == After("sysmon", W(o2, v2), r1)
<1>1. SEQ_AUX \in SUBSET (0 .. 15)
  BY DEF SEQ_AUX
<1>2. v1 \in SUBSET (0 .. 15) /\ v2 \in SUBSET (0 .. 15)
  BY <1>1
<1> DEFINE B(y) == Up(y \cap SEQ_AUX, 16)
<1>3. /\ \A c : c \in B(v2) <=> c \in chs /\ c - 16 \in SEQ_AUX
      /\ \A c \in B(r[o2]) : c - 16 \in SEQ_AUX
  BY AuxiliaryPart
<1> HIDE DEF v2
<1>4. OtherRegs \subseteq SysMonRegs
  BY DEF OtherRegs
<1> DEFINE S(q) == SettingsOf("sysmon", q)[x]
<1>5. /\ Fit("sysmon", r1) /\ r1[o1] = v1 /\ r1[o2] = r[o2]
      /\ \A s \in DOMAIN Behind \ {x} : SettingsOf("sysmon", r1)[s] = SettingsOf("sysmon", r)[s]
  <2>1. Fit("sysmon", r1)
    BY <1>2, FitAfter
  <2>2. r1[o1] = v1 /\ r1[o2] = r[o2]
    BY <1>4, SysMonAfter
  <2>3. \A s \in DOMAIN Behind \ {x} : SettingsOf("sysmon", r1)[s] = SettingsOf("sysmon", r)[s]
    BY <1>4, OnlyBehind
  <2> QED BY <2>1, <2>2, <2>3
<1> HIDE DEF r1
<1>6. /\ r2[o1] = v1 /\ r2[o2] = v2
      /\ \A s \in DOMAIN Behind \ {x} : SettingsOf("sysmon", r2)[s] = SettingsOf("sysmon", r1)[s]
  <2>1. r2[o1] = r1[o1] /\ r2[o2] = v2
    BY <1>4, <1>5, SysMonAfter
  <2>2. \A s \in DOMAIN Behind \ {x} : SettingsOf("sysmon", r2)[s] = SettingsOf("sysmon", r1)[s]
    BY <1>4, <1>5, OnlyBehind
  <2> QED BY <1>5, <2>1, <2>2
<1> HIDE DEF r2
<1>7. /\ S(r) = (r[o1] \cap m) \cup B(r[o2])
      /\ S(r1) = (v1 \cap m) \cup B(r[o2])
      /\ S(r2) = (v1 \cap m) \cup B(v2)
  <2>1. \A q : S(q) = (q[o1] \cap m) \cup B(q[o2])
    BY Zenon
  <2> HIDE DEF B, S
  <2> QED BY <1>5, <1>6, <2>1
<1> HIDE DEF B, S
<1>8. Between(S(r), S(r1), chs)
  BY <1>7 DEF Between
<1>9. Between(S(r1), S(r2), chs)
  BY <1>3, <1>7 DEF Between
<1>10. S(r2) = chs
  BY <1>3, <1>7
<1>11. Kept("sysmon", r, r1, a)
  BY <1>5, <1>8, KeptOne DEF S
<1>12. Kept("sysmon", r1, r2, a)
  BY <1>6, <1>9, KeptOne DEF S
<1>13. Reached("sysmon", r2, a)
  BY <1>10 DEF Reached, S
<1>14. Promise("sysmon", << W(o1, v1), W(o2, v2) >>, r, a)
  BY <1>11, <1>12, <1>13, TwoPromise DEF r1, r2
<1>15. << W(o1, v1), W(o2, v2) >> \in Seq(FitWrites("sysmon"))
  <2>1. W(o1, v1) \in FitWrites("sysmon") /\ W(o2, v2) \in FitWrites("sysmon")
    BY <1>2, <1>4, SysMonWrites
  <2> QED BY <2>1
<1> QED BY <1>14, <1>15, SysMonNames DEF Good, v2

\* A failed call writes nothing, and asks for nothing.
LEMMA NothingGood == \A d, r : Good(d, << >>, r, NoSetting)
<1> SUFFICES ASSUME NEW d, NEW r PROVE Good(d, << >>, r, NoSetting)
  OBVIOUS
<1>1. DOMAIN NoSetting = {} /\ << >> \in Seq(FitWrites(d))
  BY DEF NoSetting
<1> QED BY <1>1, NoPromise DEF Good

\* The channels of the model's sets have a bit in one of the registers.
LEMMA ChannelBits ==
  ASSUME NEW chs \in ChannelSets
  PROVE  /\ chs \in SUBSET Nat
         /\ \A c \in chs : c \in SEQ00_CH \/ c - 16 \in SEQ_AUX \/ c - 32 \in SEQ_VUSR
         /\ \A c \in chs \ {0} : c \in SEQ02_CH \/ c - 16 \in SEQ_AUX \/ c - 32 \in SEQ_VUSR
         /\ \A c \in chs \cap 11 .. 31 : c \in {11} \/ c - 16 \in SEQ_AUX
BY DEF ChannelSets, SEQ00_CH, SEQ02_CH, SEQ_AUX, SEQ_VUSR

LEMMA SequencerGood ==
  ASSUME NEW r, Fit("sysmon", r), NEW chs \in ChannelSets, GetSequencerMode(r) = SAFE
  PROVE  /\ Good("sysmon", SetSeqChEnables(r, chs), r, [seqch |-> chs])
         /\ Good("sysmon", SetSeqAvgEnables(r, chs \ {0}), r, [seqavg |-> chs \ {0}])
         /\ Good("sysmon", SetSeqInputMode(r, chs \cap 11 .. 31), r,
                 [seqinput |-> chs \cap 11 .. 31])
         /\ Good("sysmon", SetSeqAcqTime(r, chs \cap 11 .. 31), r,
                 [seqacq |-> chs \cap 11 .. 31])
<1>1. \A n \in 0 .. 9 : SEQ(n) \in OtherRegs
  BY RegisterFile
<1>2. /\ SEQ(0) # SEQ(1) /\ SEQ(0) # SEQ(8) /\ SEQ(1) # SEQ(8)
      /\ SEQ(2) # SEQ(3) /\ SEQ(2) # SEQ(9) /\ SEQ(3) # SEQ(9)
      /\ SEQ(4) # SEQ(5) /\ SEQ(6) # SEQ(7)
  BY SysMonOffsets
<1>3. /\ SEQ00_CH \in SUBSET (0 .. 15) /\ SEQ02_CH \in SUBSET (0 .. 15)
      /\ SEQ04_CH = {11} /\ SEQ06_CH = {11} /\ {11} \in SUBSET (0 .. 15)
  BY DEF SEQ00_CH, SEQ02_CH, SEQ04_CH, SEQ06_CH
<1>4. /\ SEQ(0) \in OtherRegs /\ SEQ(1) \in OtherRegs /\ SEQ(2) \in OtherRegs
      /\ SEQ(3) \in OtherRegs /\ SEQ(4) \in OtherRegs /\ SEQ(5) \in OtherRegs
      /\ SEQ(6) \in OtherRegs /\ SEQ(7) \in OtherRegs /\ SEQ(8) \in OtherRegs
      /\ SEQ(9) \in OtherRegs
  BY <1>1
<1>5. {"seqch", "seqavg", "seqinput", "seqacq"} \subseteq DOMAIN Behind
  BY BehindThem
<1>6. Good("sysmon", SetSeqChEnables(r, chs), r, [seqch |-> chs])
  <2> DEFINE a == [seqch |-> chs]
  <2>1. DOMAIN a = {"seqch"} /\ a["seqch"] = chs
    OBVIOUS
  <2> HIDE DEF a
  <2>2. \A s \in DOMAIN Behind \ {"seqch"} :
          SEQ(0) \notin Behind[s] /\ SEQ(1) \notin Behind[s] /\ SEQ(8) \notin Behind[s]
    BY BehindWhom
  <2>3. \A q : SettingsOf("sysmon", q)["seqch"] =
                 (q[SEQ(0)] \cap SEQ00_CH) \cup Up(q[SEQ(1)] \cap SEQ_AUX, 16)
                   \cup Up(q[SEQ(8)] \cap SEQ_VUSR, 32)
    BY SequencerView
  <2>4. Good("sysmon", << W(SEQ(0), chs \cap SEQ00_CH), W(SEQ(1), Down(chs, 16) \cap SEQ_AUX),
                          W(SEQ(8), Down(chs, 32) \cap SEQ_VUSR) >>, r, a)
    BY <1>2, <1>3, <1>4, <1>5, <2>1, <2>2, <2>3, ChannelBits, ThreeParts
  <2> QED BY <2>4 DEF SetSeqChEnables, WhenSafe, a
<1>7. Good("sysmon", SetSeqAvgEnables(r, chs \ {0}), r, [seqavg |-> chs \ {0}])
  <2> DEFINE x == chs \ {0}
  <2> DEFINE a == [seqavg |-> x]
  <2>1. DOMAIN a = {"seqavg"} /\ a["seqavg"] = x
    OBVIOUS
  <2>5. x \in SUBSET Nat /\ \A c \in x : c \in SEQ02_CH \/ c - 16 \in SEQ_AUX \/ c - 32 \in SEQ_VUSR
    BY ChannelBits
  <2> HIDE DEF a, x
  <2>2. \A s \in DOMAIN Behind \ {"seqavg"} :
          SEQ(2) \notin Behind[s] /\ SEQ(3) \notin Behind[s] /\ SEQ(9) \notin Behind[s]
    BY BehindWhom
  <2>3. \A q : SettingsOf("sysmon", q)["seqavg"] =
                 (q[SEQ(2)] \cap SEQ02_CH) \cup Up(q[SEQ(3)] \cap SEQ_AUX, 16)
                   \cup Up(q[SEQ(9)] \cap SEQ_VUSR, 32)
    BY SequencerView
  <2>4. Good("sysmon", << W(SEQ(2), x \cap SEQ02_CH), W(SEQ(3), Down(x, 16) \cap SEQ_AUX),
                          W(SEQ(9), Down(x, 32) \cap SEQ_VUSR) >>, r, a)
    BY <1>2, <1>3, <1>4, <1>5, <2>1, <2>2, <2>3, <2>5, ThreeParts
  <2> QED BY <2>4 DEF SetSeqAvgEnables, WhenSafe, a, x
<1> DEFINE y == chs \cap 11 .. 31
<1>8. y \in SUBSET Nat /\ \A c \in y : c \in {11} \/ c - 16 \in SEQ_AUX
  BY ChannelBits
<1> HIDE DEF y
<1>9. Good("sysmon", SetSeqInputMode(r, y), r, [seqinput |-> y])
  <2> DEFINE a == [seqinput |-> y]
  <2>1. DOMAIN a = {"seqinput"} /\ a["seqinput"] = y
    OBVIOUS
  <2> HIDE DEF a
  <2>2. \A s \in DOMAIN Behind \ {"seqinput"} : SEQ(4) \notin Behind[s] /\ SEQ(5) \notin Behind[s]
    BY BehindWhom
  <2>3. \A q : SettingsOf("sysmon", q)["seqinput"] =
                 (q[SEQ(4)] \cap SEQ04_CH) \cup Up(q[SEQ(5)] \cap SEQ_AUX, 16)
    BY SequencerView
  <2>4. Good("sysmon", << W(SEQ(4), y \cap SEQ04_CH), W(SEQ(5), Down(y, 16) \cap SEQ_AUX) >>, r, a)
    BY <1>2, <1>3, <1>4, <1>5, <1>8, <2>1, <2>2, <2>3, TwoParts
  <2> QED BY <2>4 DEF SetSeqInputMode, WhenSafe, a
<1>10. Good("sysmon", SetSeqAcqTime(r, y), r, [seqacq |-> y])
  <2> DEFINE a == [seqacq |-> y]
  <2>1. DOMAIN a = {"seqacq"} /\ a["seqacq"] = y
    OBVIOUS
  <2> HIDE DEF a
  <2>2. \A s \in DOMAIN Behind \ {"seqacq"} : SEQ(6) \notin Behind[s] /\ SEQ(7) \notin Behind[s]
    BY BehindWhom
  <2>3. \A q : SettingsOf("sysmon", q)["seqacq"] =
                 (q[SEQ(6)] \cap SEQ06_CH) \cup Up(q[SEQ(7)] \cap SEQ_AUX, 16)
    BY SequencerView
  <2>4. Good("sysmon", << W(SEQ(6), y \cap SEQ06_CH), W(SEQ(7), Down(y, 16) \cap SEQ_AUX) >>, r, a)
    BY <1>2, <1>3, <1>4, <1>5, <1>8, <2>1, <2>2, <2>3, TwoParts
  <2> QED BY <2>4 DEF SetSeqAcqTime, WhenSafe, a
<1> QED BY <1>6, <1>7, <1>9, <1>10 DEF y

LEMMA SequencerBusy ==
  ASSUME NEW r, GetSequencerMode(r) # SAFE, NEW chs
  PROVE  SetSeqChEnables(r, chs) = << >> /\ SetSeqAvgEnables(r, chs) = << >>
         /\ SetSeqInputMode(r, chs) = << >> /\ SetSeqAcqTime(r, chs) = << >>
BY DEF SetSeqChEnables, SetSeqAvgEnables, SetSeqInputMode, SetSeqAcqTime, WhenSafe

-----------------------------------------------------------------------------
(* The conversion start register and the resets.                           *)

LEMMA TurnsKept ==
  ASSUME NEW d, NEW w, NEW r, NEW a, NEW b, Turns(d, w, r, b),
         \A s \in DOMAIN b : s \in DOMAIN a /\ a[s] = b[s]
  PROVE  /\ Kept(d, r, After(d, w, r), a)
         /\ \A s \in DOMAIN b \cap DOMAIN SettingsOf(d, r) :
              SettingsOf(d, After(d, w, r))[s] = a[s]
         /\ \A s \in DOMAIN SettingsOf(d, r) \ DOMAIN b :
              SettingsOf(d, After(d, w, r))[s] = SettingsOf(d, r)[s]
BY DEF Turns, Kept, Between

LEMMA UpdateNames ==
  \A v : /\ DOMAIN UpdateSettings(v) = {"tempupdate", "waitcycles"}
         /\ UpdateSettings(v)["tempupdate"] = v \cap TEMPUPDT
         /\ UpdateSettings(v)["waitcycles"] = v \cap WAITCYCLES
BY DEF UpdateSettings

\* A value in the conversion start register, however it got there.
LEMMA ConvstTurns ==
  ASSUME NEW r, NEW w, NEW v, NEW t, t = After("sysmon", w, r), t[CONVST] = v,
         \A o \in SysMonRegs \ {CONVST, ARR} : t[o] = r[o]
  PROVE  Turns("sysmon", w, r, UpdateSettings(v))
<1>1. ASSUME NEW s \in DOMAIN Behind \ {"tempupdate", "waitcycles"}
      PROVE  SettingsOf("sysmon", t)[s] = SettingsOf("sysmon", r)[s]
  <2>1. \A o \in Behind[s] : t[o] = r[o]
    BY <1>1, BehindRegisters, BehindWhom
  <2> QED BY <2>1, SettingIsLocal
<1>2. /\ SettingsOf("sysmon", t)["tempupdate"] = v \cap TEMPUPDT
      /\ SettingsOf("sysmon", t)["waitcycles"] = v \cap WAITCYCLES
  BY UpdateView
<1> DEFINE a == UpdateSettings(v)
<1>3. /\ DOMAIN a = {"tempupdate", "waitcycles"}
      /\ a["tempupdate"] = v \cap TEMPUPDT /\ a["waitcycles"] = v \cap WAITCYCLES
  BY UpdateNames
<1> HIDE DEF a
<1>4. ASSUME NEW s \in DOMAIN Behind
      PROVE  SettingsOf("sysmon", t)[s] = IF s \in DOMAIN a THEN a[s]
                                                           ELSE SettingsOf("sysmon", r)[s]
  <2>1. CASE s = "tempupdate"
    BY <1>2, <1>3, <2>1
  <2>2. CASE s = "waitcycles"
    BY <1>2, <1>3, <2>2
  <2>3. CASE s \notin {"tempupdate", "waitcycles"}
    BY <1>1, <1>3, <2>3
  <2> QED BY <2>1, <2>2, <2>3
<1>5. \A s \in DOMAIN SettingsOf("sysmon", r) :
        SettingsOf("sysmon", After("sysmon", w, r))[s] =
          IF s \in DOMAIN a THEN a[s] ELSE SettingsOf("sysmon", r)[s]
  BY <1>4, SysMonNames
<1> QED BY <1>5 DEF Turns, a

LEMMA WriteTurns ==
  ASSUME NEW r, Fit("sysmon", r), NEW v
  PROVE  Turns("sysmon", W(CONVST, v), r, UpdateSettings(v))
BY RegisterFile, SysMonAfter, ConvstTurns

LEMMA FitConvst ==
  ASSUME NEW r, Fit("sysmon", r), NEW v \in SUBSET (0 .. 17)
  PROVE  /\ Fit("sysmon", After("sysmon", W(CONVST, v), r))
         /\ W(CONVST, v) \in FitWrites("sysmon")
<1> DEFINE t == After("sysmon", W(CONVST, v), r)
<1>1. t[CONVST] = v /\ (\A p \in SysMonRegs \ {CONVST} : t[p] = r[p]) /\ DOMAIN t = SysMonRegs
  BY RegisterFile, SysMonAfter
<1> HIDE DEF t
<1>2. Fit("sysmon", t)
  BY <1>1 DEF Fit, RegsOf, WidthOf
<1>3. W(CONVST, v) \in FitWrites("sysmon")
  <2>1. CONVST \in SysMonRegs /\ CONVST \in Nat /\ v \in SUBSET Int
    BY RegisterFile
  <2>2. v \subseteq 0 .. WidthOf("sysmon", CONVST) - 1
    BY DEF WidthOf
  <2> QED BY <2>1, <2>2 DEF W, FitWrites, RegsOf
<1> QED BY <1>2, <1>3 DEF t

LEMMA UpdateGood ==
  ASSUME NEW r, Fit("sysmon", r), NEW v \in SUBSET (0 .. 17)
  PROVE  Good("sysmon", << W(CONVST, v) >>, r, UpdateSettings(v))
<1>1. DOMAIN UpdateSettings(v) \subseteq DOMAIN SettingsOf("sysmon", r)
  BY UpdateNames, SysMonNames, BehindThem
<1> QED BY <1>1, FitConvst, WriteTurns, OneGood

LEMMA StartGood ==
  ASSUME NEW r, Fit("sysmon", r), NEW kept \in SUBSET (0 .. 17)
  PROVE  Good("sysmon", StartAdcConversion(kept), r, UpdateSettings(kept))
<1> DEFINE a == UpdateSettings(kept)
<1> DEFINE x == kept \cup CONVST_START
<1> DEFINE y == kept \ CONVST_START
<1> DEFINE s == After("sysmon", W(CONVST, x), r)
<1> DEFINE t == After("sysmon", W(CONVST, y), s)
<1>1. x \in SUBSET (0 .. 17) /\ y \in SUBSET (0 .. 17)
  BY DEF CONVST_START
<1>2. UpdateSettings(x) = a /\ UpdateSettings(y) = a
  <2>1. x \cap TEMPUPDT = kept \cap TEMPUPDT /\ x \cap WAITCYCLES = kept \cap WAITCYCLES
        /\ y \cap TEMPUPDT = kept \cap TEMPUPDT /\ y \cap WAITCYCLES = kept \cap WAITCYCLES
    BY DEF CONVST_START, TEMPUPDT, WAITCYCLES
  <2> QED BY <2>1 DEF UpdateSettings
<1>3. DOMAIN a \subseteq DOMAIN SettingsOf("sysmon", r)
      /\ DOMAIN SettingsOf("sysmon", s) = DOMAIN SettingsOf("sysmon", r)
  BY UpdateNames, SysMonNames, BehindThem
<1> HIDE DEF a, x, y
<1>4. /\ Turns("sysmon", W(CONVST, x), r, a) /\ Fit("sysmon", s)
      /\ W(CONVST, x) \in FitWrites("sysmon")
  BY <1>1, <1>2, WriteTurns, FitConvst
<1> HIDE DEF s
<1>5. Turns("sysmon", W(CONVST, y), s, a) /\ W(CONVST, y) \in FitWrites("sysmon")
  BY <1>1, <1>2, <1>4, WriteTurns, FitConvst
<1>6. Kept("sysmon", r, s, a)
  BY <1>4, TurnsKept DEF s
<1>7. Kept("sysmon", s, t, a) /\ Reached("sysmon", t, a)
  <2>1. Kept("sysmon", s, t, a)
    BY <1>5, TurnsKept
  <2>2. \A n \in DOMAIN a : SettingsOf("sysmon", t)[n] = a[n]
    BY <1>3, <1>5 DEF Turns
  <2> QED BY <2>1, <2>2 DEF Reached
<1>8. Promise("sysmon", << W(CONVST, x), W(CONVST, y) >>, r, a)
  BY <1>6, <1>7, TwoPromise DEF s
<1>9. << W(CONVST, x), W(CONVST, y) >> \in Seq(FitWrites("sysmon"))
  BY <1>4, <1>5
<1> QED BY <1>3, <1>8, <1>9 DEF Good, StartAdcConversion, x, y, a

LEMMA ResetAdcGood ==
  ASSUME NEW r, Fit("sysmon", r)
  PROVE  Good("sysmon", ResetAdc, r, NoSetting)
<1> DEFINE s == After("sysmon", W(ARR, {0}), r)
<1> DEFINE t == After("sysmon", W(ARR, {}), s)
<1>1. DOMAIN NoSetting = {}
  BY DEF NoSetting
<1>2. ASSUME NEW q, Fit("sysmon", q), NEW v \in SUBSET (0 .. 15)
      PROVE  /\ Fit("sysmon", After("sysmon", W(ARR, v), q))
             /\ Kept("sysmon", q, After("sysmon", W(ARR, v), q), NoSetting)
             /\ W(ARR, v) \in FitWrites("sysmon")
  <2> DEFINE u == After("sysmon", W(ARR, v), q)
  <2>1. u[ARR] = v /\ (\A p \in SysMonRegs \ {ARR} : u[p] = q[p]) /\ DOMAIN u = SysMonRegs
    BY <1>2, RegisterFile, SysMonAfter
  <2>2. \A x \in DOMAIN Behind : SettingsOf("sysmon", u)[x] = SettingsOf("sysmon", q)[x]
    BY <1>2, RegisterFile, BehindWhom, OnlyBehind
  <2>3. W(ARR, v) \in FitWrites("sysmon")
    BY RegisterFile, SysMonWrites
  <2> HIDE DEF u
  <2>4. Fit("sysmon", u)
    BY <1>2, <2>1, RegisterFile DEF Fit, RegsOf, WidthOf
  <2>5. Kept("sysmon", q, u, NoSetting)
    BY <1>1, <2>2, SysMonNames DEF Kept
  <2> QED BY <2>3, <2>4, <2>5 DEF u
<1>3. Fit("sysmon", s) /\ Kept("sysmon", r, s, NoSetting) /\ W(ARR, {0}) \in FitWrites("sysmon")
  BY <1>2
<1> HIDE DEF s
<1>4. Kept("sysmon", s, t, NoSetting) /\ W(ARR, {}) \in FitWrites("sysmon")
  BY <1>2, <1>3
<1>5. Reached("sysmon", t, NoSetting)
  BY <1>1 DEF Reached
<1>6. Promise("sysmon", << W(ARR, {0}), W(ARR, {}) >>, r, NoSetting)
  BY <1>3, <1>4, <1>5, TwoPromise DEF s
<1>7. << W(ARR, {0}), W(ARR, {}) >> \in Seq(FitWrites("sysmon"))
  BY <1>3, <1>4
<1> QED BY <1>1, <1>6, <1>7 DEF Good, ResetAdc

LEMMA DefaultFits == WaitCyclesDefault \in SUBSET (2 .. 17) /\ Bits(85) \in SUBSET (0 .. 15)
<1>1. Bits(1000) \subseteq 0 .. 15 /\ Bits(85) \subseteq 0 .. 7
  BY NarrowBits
<1> DEFINE b == Bits(1000)
<1>2. b \subseteq 0 .. 15
  BY <1>1
<1> HIDE DEF b
<1>3. Up(b, 2) \subseteq 2 .. 17
  BY <1>2 DEF Up
<1>4. Up(b, 2) = WaitCyclesDefault
  BY DEF b, WaitCyclesDefault
<1> QED BY <1>1, <1>3, <1>4

ResetWrite == W(SRR, {1, 3})

LEMMA ResetTurns ==
  ASSUME NEW r, Fit("sysmon", r)
  PROVE  /\ Turns("sysmon", ResetWrite, r, ResetAsks)
         /\ Fit("sysmon", After("sysmon", ResetWrite, r))
<1> DEFINE t == After("sysmon", ResetWrite, r)
<1>1. DOMAIN r = SysMonRegs
  BY DEF Fit, RegsOf
<1>2. t = [r EXCEPT ![CONVST] = WaitCyclesDefault, ![ARR] = {}]
  BY DEF After, ResetWrite, W
<1>3. /\ t[CONVST] = WaitCyclesDefault /\ t[ARR] = {} /\ DOMAIN t = SysMonRegs
      /\ \A o \in SysMonRegs \ {CONVST, ARR} : t[o] = r[o]
  BY <1>1, <1>2, RegisterFile
<1> HIDE DEF t
<1>4. Turns("sysmon", ResetWrite, r, UpdateSettings(WaitCyclesDefault))
  BY <1>3, ConvstTurns DEF t
<1>5. Fit("sysmon", t)
  <2>1. t[CONVST] \subseteq 0 .. 17
    BY <1>3, DefaultFits
  <2> QED BY <1>3, <2>1 DEF Fit, RegsOf, WidthOf
<1> QED BY <1>4, <1>5 DEF ResetAsks, t

LEMMA ResetFits == ResetWrite \in FitWrites("sysmon")
<1>1. SRR \in Nat /\ SRR \notin SysMonRegs /\ {1, 3} \in SUBSET Int
  BY RegisterFile
<1> QED BY <1>1 DEF ResetWrite, W, FitWrites, RegsOf

LEMMA ResetGood ==
  ASSUME NEW r, Fit("sysmon", r)
  PROVE  /\ Good("sysmon", Reset, r, ResetAsks)
         /\ Good("sysmon", CfgInitialize, r, ResetAsks)
<1>1. DOMAIN ResetAsks \subseteq DOMAIN SettingsOf("sysmon", r)
  BY UpdateNames, SysMonNames, BehindThem DEF ResetAsks
<1>2. Good("sysmon", << ResetWrite >>, r, ResetAsks)
  BY <1>1, ResetTurns, ResetFits, OneGood
<1> QED BY <1>2 DEF Reset, CfgInitialize, ResetWrite

LEMMA ThreeJoined ==
  ASSUME NEW S, NEW x \in S, NEW y \in S, NEW z \in S
  PROVE  (<< x >> \o << y >>) \o << z >> = << x, y, z >>
<1>1. /\ << x >> \in Seq(S) /\ << y >> \in Seq(S) /\ << z >> \in Seq(S)
      /\ << x, y >> \in Seq(S) /\ << x, y, z >> \in Seq(S)
  OBVIOUS
<1>2. << x >> \o << y >> = << x, y >>
  <2> DEFINE c == << x >> \o << y >>
  <2>1. c \in Seq(S) /\ Len(c) = 2 /\ c[1] = x /\ c[2] = y
    BY <1>1, ConcatProperties
  <2> HIDE DEF c
  <2>2. Len(<< x, y >>) = 2 /\ \A i \in 1 .. 2 : c[i] = << x, y >>[i]
    BY <2>1
  <2>3. c = << x, y >>
    BY <1>1, <2>1, <2>2, SeqEqual
  <2> QED BY <2>3 DEF c
<1>3. << x, y >> \o << z >> = << x, y, z >>
  <2> DEFINE c == << x, y >> \o << z >>
  <2>1. c \in Seq(S) /\ Len(c) = 3 /\ c[1] = x /\ c[2] = y /\ c[3] = z
    BY <1>1, ConcatProperties
  <2> HIDE DEF c
  <2>2. Len(<< x, y, z >>) = 3 /\ \A i \in 1 .. 3 : c[i] = << x, y, z >>[i]
    BY <2>1
  <2>3. c = << x, y, z >>
    BY <1>1, <2>1, <2>2, SeqEqual
  <2> QED BY <2>3 DEF c
<1> QED BY <1>2, <1>3

LEMMA ResetPart ==
  ASSUME NEW r, Fit("sysmon", r), NEW t, t = After("sysmon", ResetWrite, r), NEW a,
         DOMAIN a = {"tempupdate", "waitcycles", "thresholds"},
         \A s \in {"tempupdate", "waitcycles"} : a[s] = ResetAsks[s]
  PROVE  /\ Kept("sysmon", r, t, a)
         /\ SettingsOf("sysmon", t)["thresholds"] = SettingsOf("sysmon", r)["thresholds"]
         /\ \A s \in {"tempupdate", "waitcycles"} : SettingsOf("sysmon", t)[s] = a[s]
<1> DEFINE b == ResetAsks
<1> DEFINE R == SettingsOf("sysmon", r)
<1> DEFINE T == SettingsOf("sysmon", t)
<1>1. DOMAIN b = {"tempupdate", "waitcycles"}
  BY UpdateNames DEF ResetAsks
<1>2. /\ DOMAIN R = DOMAIN Behind
      /\ {"tempupdate", "waitcycles", "thresholds"} \subseteq DOMAIN Behind
  BY SysMonNames, BehindThem
<1>3. \A s \in DOMAIN R : T[s] = IF s \in DOMAIN b THEN b[s] ELSE R[s]
  BY ResetTurns DEF Turns
<1>4. \A s \in {"tempupdate", "waitcycles"} : a[s] = b[s]
  OBVIOUS
<1> HIDE DEF b, R, T
<1>5. /\ T["thresholds"] = R["thresholds"]
      /\ \A s \in {"tempupdate", "waitcycles"} : T[s] = a[s]
      /\ \A s \in DOMAIN R \ {"tempupdate", "waitcycles"} : T[s] = R[s]
  BY <1>1, <1>2, <1>3, <1>4
<1>6. ASSUME NEW s \in DOMAIN R
      PROVE  IF s \in DOMAIN a THEN Between(R[s], T[s], a[s]) ELSE T[s] = R[s]
  <2>1. CASE s \in {"tempupdate", "waitcycles"}
    BY <1>5, <2>1 DEF Between
  <2>2. CASE s \notin {"tempupdate", "waitcycles"}
    BY <1>5, <2>2 DEF Between
  <2> QED BY <2>1, <2>2
<1> QED BY <1>5, <1>6 DEF Kept, R, T

\* The test leaves a threshold behind, between two resets.
LEMMA SelfTestGood ==
  ASSUME NEW r, Fit("sysmon", r)
  PROVE  Good("sysmon", SelfTest, r, ResetAsks ++ [thresholds |-> Replaced(r, 1, Bits(85))])
<1> DEFINE w == W(ATR(1), Bits(85))
<1> DEFINE v == Replaced(r, 1, Bits(85))
<1> DEFINE a == ResetAsks ++ [thresholds |-> v]
<1> DEFINE r1 == After("sysmon", ResetWrite, r)
<1> DEFINE r2 == After("sysmon", w, r1)
<1> DEFINE r3 == After("sysmon", ResetWrite, r2)
<1> DEFINE S(q) == SettingsOf("sysmon", q)
<1> DEFINE ra == ResetAsks
<1>1. /\ DOMAIN a = {"tempupdate", "waitcycles", "thresholds"} /\ a["thresholds"] = v
      /\ \A s \in {"tempupdate", "waitcycles"} : a[s] = ResetAsks[s]
  <2>1. DOMAIN ra = {"tempupdate", "waitcycles"}
    BY UpdateNames DEF ResetAsks
  <2> HIDE DEF v, ra
  <2>2. a = ra ++ [thresholds |-> v] /\ ra = ResetAsks
    BY DEF ra
  <2> HIDE DEF a
  <2> QED BY <2>1, <2>2 DEF ++
<1>2. 1 \in ThresholdNumbers /\ ATR(1) \in OtherRegs /\ ATR(1) \in SysMonRegs
  BY RegisterFile DEF ThresholdNumbers, OtherRegs
<1>3. /\ \A q : DOMAIN S(q) = DOMAIN Behind
      /\ {"tempupdate", "waitcycles", "thresholds"} \subseteq DOMAIN Behind
  BY SysMonNames, BehindThem
<1> HIDE DEF a, v
<1>4. Fit("sysmon", r1)
  BY ResetTurns
<1>5. Kept("sysmon", r, r1, a) /\ S(r1)["thresholds"] = S(r)["thresholds"]
  BY <1>1, ResetPart
<1>6. Thresholds(r1) = Thresholds(r) /\ Replaced(r1, 1, Bits(85)) = v
  <2>1. Thresholds(r1) = Thresholds(r)
    BY <1>5, ThresholdView
  <2> QED BY <2>1 DEF Replaced, v
<1> HIDE DEF r1
<1>7. Fit("sysmon", r2) /\ S(r2)["thresholds"] = v
  <2>1. Fit("sysmon", r2)
    BY <1>2, <1>4, DefaultFits, FitAfter
  <2>2. Thresholds(r2) = v
    BY <1>2, <1>4, <1>6, ThresholdWritten
  <2> QED BY <2>1, <2>2, ThresholdView
<1>8. \A s \in DOMAIN Behind \ {"thresholds"} : S(r2)[s] = S(r1)[s]
  <2>1. \A s \in DOMAIN Behind \ {"thresholds"} : ATR(1) \notin Behind[s]
    BY <1>2, BehindWhom
  <2> QED BY <1>2, <1>4, <2>1, OnlyBehind
<1> HIDE DEF r2
<1>9. Kept("sysmon", r1, r2, a)
  <2>1. ASSUME NEW s \in DOMAIN Behind
        PROVE  IF s \in DOMAIN a THEN Between(S(r1)[s], S(r2)[s], a[s]) ELSE S(r2)[s] = S(r1)[s]
    <3>1. CASE s = "thresholds"
      <4>1. S(r2)[s] = a[s]
        BY <1>1, <1>7, <3>1
      <4> QED BY <4>1, <1>1, <3>1 DEF Between
    <3>2. CASE s # "thresholds"
      <4>1. S(r2)[s] = S(r1)[s]
        BY <1>8, <3>2
      <4> QED BY <4>1 DEF Between
    <3> QED BY <3>1, <3>2
  <2> QED BY <1>3, <2>1 DEF Kept
<1>11. /\ Kept("sysmon", r2, r3, a) /\ S(r3)["thresholds"] = S(r2)["thresholds"]
       /\ \A s \in {"tempupdate", "waitcycles"} : S(r3)[s] = a[s]
  BY <1>1, <1>7, ResetPart
<1> HIDE DEF r3
<1>12. Reached("sysmon", r3, a)
  <2>1. \A s \in DOMAIN a : S(r3)[s] = a[s]
    BY <1>1, <1>7, <1>11
  <2> QED BY <2>1 DEF Reached
<1>13. Promise("sysmon", << ResetWrite, w, ResetWrite >>, r, a)
  BY <1>5, <1>9, <1>11, <1>12, ThreePromise DEF r1, r2, r3
<1>14. << ResetWrite, w, ResetWrite >> \in Seq(FitWrites("sysmon"))
  <2>1. w \in FitWrites("sysmon")
    BY <1>2, DefaultFits, SysMonWrites
  <2> QED BY <2>1, ResetFits
<1>15. SelfTest = << ResetWrite, w, ResetWrite >>
  <2>1. Reset = << ResetWrite >> /\ SetAlarmThreshold(1, Bits(85)) = << w >>
    BY DEF Reset, ResetWrite, SetAlarmThreshold
  <2>2. SelfTest = << ResetWrite >> \o << w >> \o << ResetWrite >>
    BY <2>1 DEF SelfTest
  <2> HIDE DEF w
  <2>3. w \in {w, ResetWrite} /\ ResetWrite \in {w, ResetWrite}
    OBVIOUS
  <2> QED BY <2>2, <2>3, ThreeJoined
<1>16. DOMAIN a \subseteq DOMAIN SettingsOf("sysmon", r)
  BY <1>1, <1>3
<1>17. Good("sysmon", SelfTest, r, a)
  BY <1>13, <1>14, <1>15, <1>16 DEF Good
<1> QED BY <1>17 DEF a, v

-----------------------------------------------------------------------------
(* The state: the writes a call has still to make keep its promise.        *)

SettingsInv ==
  /\ dev \in {"sysmon", "tpg", "gpio"}
  /\ Fit(dev, regs)
  /\ mask \in SUBSET (0 .. 17)
  /\ up \in BOOLEAN /\ calls \in 0 .. MaxCalls
  /\ ~up => todo = << >>
  /\ todo = << >> => asked = NoSetting
  /\ Good(dev, todo, regs, asked)

\* A call of the program.
Called ==
  /\ up /\ todo = << >> /\ calls < MaxCalls
  /\ calls' = calls + 1
  /\ UNCHANGED << dev, regs, up >>
  /\ Good(dev, todo', regs, asked')
  /\ todo' = << >> => asked' = NoSetting
  /\ mask' \in SUBSET (0 .. 17)

Fine(writes, asks) == writes = << >> \/ Good(dev, writes, regs, asks)

LEMMA CallKeepingMask ==
  ASSUME SettingsInv, NEW writes, NEW asks, DoesKeepingMask(writes, asks), Fine(writes, asks)
  PROVE  Called
<1>1. Good(dev, writes, regs, asked')
  <2>1. CASE writes = << >>
    <3>1. asked' = NoSetting
      BY <2>1 DEF DoesKeepingMask, Does
    <3> QED BY <2>1, <3>1, NothingGood
  <2>2. CASE writes # << >>
    <3>1. asked' = asks
      BY <2>2 DEF DoesKeepingMask, Does
    <3> QED BY <2>2, <3>1 DEF Fine
  <2> QED BY <2>1, <2>2
<1> QED BY <1>1 DEF DoesKeepingMask, Does, Called, SettingsInv

LEMMA CallSettingMask ==
  ASSUME SettingsInv, dev = "sysmon", NEW v \in SUBSET (0 .. 17),
         Does(<< W(CONVST, v) >>, UpdateSettings(v)), mask' = todo'[1].val
  PROVE  Called
<1>1. Good(dev, << W(CONVST, v) >>, regs, UpdateSettings(v))
  BY UpdateGood DEF SettingsInv
<1>2. todo' = << W(CONVST, v) >> /\ asked' = UpdateSettings(v)
  BY DEF Does
<1>3. mask' = v
  BY <1>2 DEF W
<1>4. Good(dev, todo', regs, asked')
  BY <1>1, <1>2
<1>5. todo' # << >>
  BY <1>2
<1> QED BY <1>3, <1>4, <1>5 DEF Does, Called, SettingsInv

LEMMA ReplacedByWrite == \A n, v : WithThreshold(n, v) = Replaced(regs, n, v)
BY DEF WithThreshold, Replaced

LEMMA AnyConversion ==
  ASSUME SettingsInv, Conversion PROVE Called
<1>1. dev = "sysmon" /\ Fit("sysmon", regs) /\ mask \in SUBSET (0 .. 17)
  BY DEF Conversion, SettingsInv
<1>2. PICK writes, asks : DoesKeepingMask(writes, asks) /\ Fine(writes, asks)
  <2>1. CASE DoesKeepingMask(Reset, ResetAsks)
    <3>1. Fine(Reset, ResetAsks)
      BY <1>1, ResetGood DEF Fine
    <3> QED BY <2>1, <3>1, Zenon
  <2>2. CASE DoesKeepingMask(ResetAdc, NoSetting)
    <3>1. Fine(ResetAdc, NoSetting)
      BY <1>1, ResetAdcGood DEF Fine
    <3> QED BY <2>2, <3>1, Zenon
  <2>3. CASE DoesKeepingMask(StartAdcConversion(mask), UpdateSettings(mask))
    <3>1. Fine(StartAdcConversion(mask), UpdateSettings(mask))
      BY <1>1, StartGood DEF Fine
    <3> QED BY <2>3, <3>1, Zenon
  <2>4. CASE DoesKeepingMask(SelfTest, ResetAsks ++ [thresholds |-> WithThreshold(1, Bits(85))])
    <3>1. Good("sysmon", SelfTest, regs, ResetAsks ++ [thresholds |-> Replaced(regs, 1, Bits(85))])
      BY <1>1, SelfTestGood
    <3>2. WithThreshold(1, Bits(85)) = Replaced(regs, 1, Bits(85))
      BY ReplacedByWrite
    <3>3. Fine(SelfTest, ResetAsks ++ [thresholds |-> WithThreshold(1, Bits(85))])
      BY <1>1, <3>1, <3>2 DEF Fine
    <3> QED BY <2>4, <3>3, Zenon
  <2> QED BY <2>1, <2>2, <2>3, <2>4, Zenon DEF Conversion
<1> QED BY <1>2, CallKeepingMask

LEMMA AnyTempUpdate ==
  ASSUME SettingsInv, TempUpdate PROVE Called
<1>1. dev = "sysmon" /\ mask \in SUBSET (0 .. 17) /\ mask' = todo'[1].val
  BY DEF TempUpdate, SettingsInv
<1>2. CASE Does(EnableTempUpdate(mask), UpdateSettings(mask \cup TEMPUPDT))
  <2> DEFINE v == mask \cup TEMPUPDT
  <2>1. v \in SUBSET (0 .. 17)
    BY <1>1 DEF TEMPUPDT
  <2>2. Does(<< W(CONVST, v) >>, UpdateSettings(v))
    BY <1>2 DEF EnableTempUpdate, Does
  <2> HIDE DEF v
  <2> QED BY <1>1, <2>1, <2>2, CallSettingMask
<1>3. CASE Does(DisableTempUpdate(mask), UpdateSettings(mask \ TEMPUPDT))
  <2> DEFINE v == mask \ TEMPUPDT
  <2>1. v \in SUBSET (0 .. 17)
    BY <1>1
  <2>2. Does(<< W(CONVST, v) >>, UpdateSettings(v))
    BY <1>3 DEF DisableTempUpdate, Does
  <2> HIDE DEF v
  <2> QED BY <1>1, <2>1, <2>2, CallSettingMask
<1>4. ASSUME NEW cycles \in Words,
             Does(SetTempWaitCycles(mask, cycles),
                  UpdateSettings((mask \ WAITCYCLES) \cup Up(cycles, 2)))
      PROVE  Called
  <2> DEFINE v == (mask \ WAITCYCLES) \cup Up(cycles, 2)
  <2>1. v \in SUBSET (0 .. 17)
    <3>1. cycles \subseteq 0 .. 15
      BY DEF Words
    <3>2. Up(cycles, 2) \subseteq 0 .. 17
      BY <3>1 DEF Up
    <3> QED BY <1>1, <3>2
  <2>2. Does(<< W(CONVST, v) >>, UpdateSettings(v))
    BY <1>4 DEF SetTempWaitCycles, Field, Does
  <2> HIDE DEF v
  <2> QED BY <1>1, <2>1, <2>2, CallSettingMask
<1> QED BY <1>2, <1>3, <1>4, Zenon DEF TempUpdate

LEMMA AnySingleChannel ==
  ASSUME SettingsInv, SingleChannel PROVE Called
<1>1. dev = "sysmon" /\ Fit("sysmon", regs)
  BY DEF SingleChannel, SettingsInv
<1>2. PICK writes, asks : DoesKeepingMask(writes, asks) /\ Fine(writes, asks)
  <2>1. CASE \E a \in Averages :
              DoesKeepingMask(SetAvg(regs, a),
                [avg |-> a])
    <3>1. PICK a \in Averages :
              DoesKeepingMask(SetAvg(regs, a),
                [avg |-> a])
      BY <2>1, Zenon
    <3>2. Fine(SetAvg(regs, a),
            [avg |-> a])
      BY <1>1, SetAvgGood DEF Fine
    <3> QED BY <3>1, <3>2, Zenon
  <2>2. CASE \E ch \in Channels, acq, event, diff \in BOOLEAN :
              DoesKeepingMask(SetSingleChParams(regs, ch, acq, event, diff),
                [channel |-> Bits(ch), acq |-> If(acq, CFR0_ACQ), event |-> If(event, CFR0_EC),
                 diff |-> If(diff, CFR0_DU), mux |-> {}, calavg |-> {}])
    <3>1. PICK ch \in Channels, acq, event, diff \in BOOLEAN :
              DoesKeepingMask(SetSingleChParams(regs, ch, acq, event, diff),
                [channel |-> Bits(ch), acq |-> If(acq, CFR0_ACQ), event |-> If(event, CFR0_EC),
                 diff |-> If(diff, CFR0_DU), mux |-> {}, calavg |-> {}])
      BY <2>2, Zenon
    <3>2. Fine(SetSingleChParams(regs, ch, acq, event, diff),
            [channel |-> Bits(ch), acq |-> If(acq, CFR0_ACQ), event |-> If(event, CFR0_EC),
                 diff |-> If(diff, CFR0_DU), mux |-> {}, calavg |-> {}])
      BY <1>1, SingleChGood DEF Fine
    <3> QED BY <3>1, <3>2, Zenon
  <2>3. CASE \E ch \in Channels :
              DoesKeepingMask(SetExtenalMux(regs, ch),
                [mux |-> CFR0_MUX, channel |-> Bits(ch)])
    <3>1. PICK ch \in Channels :
              DoesKeepingMask(SetExtenalMux(regs, ch),
                [mux |-> CFR0_MUX, channel |-> Bits(ch)])
      BY <2>3, Zenon
    <3>2. Fine(SetExtenalMux(regs, ch),
            [mux |-> CFR0_MUX, channel |-> Bits(ch)])
      BY <1>1, ExternalMuxGood DEF Fine
    <3> QED BY <3>1, <3>2, Zenon
  <2>4. CASE \E div \in {Bits(8), Bits(255)} :
              DoesKeepingMask(SetAdcClkDivisor(div),
                [clkdiv |-> div, powerdown |-> {}])
    <3>1. PICK div \in {Bits(8), Bits(255)} :
              DoesKeepingMask(SetAdcClkDivisor(div),
                [clkdiv |-> div, powerdown |-> {}])
      BY <2>4, Zenon
    <3>2. Fine(SetAdcClkDivisor(div),
            [clkdiv |-> div, powerdown |-> {}])
      BY <1>1, DivisorGood DEF Fine
    <3> QED BY <3>1, <3>2, Zenon
  <2> QED BY <2>1, <2>2, <2>3, <2>4, Zenon DEF SingleChannel
<1> QED BY <1>2, CallKeepingMask

LEMMA AnyAlarms ==
  ASSUME SettingsInv, Alarms PROVE Called
<1>1. dev = "sysmon" /\ Fit("sysmon", regs)
  BY DEF Alarms, SettingsInv
<1>2. PICK writes, asks : DoesKeepingMask(writes, asks) /\ Fine(writes, asks)
  <2>1. CASE \E alm \in {{}, {0, 9}, CFR1_ALM_ALL} :
              DoesKeepingMask(SetAlarmEnables(regs, alm),
                [alarms |-> alm])
    <3>1. PICK alm \in {{}, {0, 9}, CFR1_ALM_ALL} :
              DoesKeepingMask(SetAlarmEnables(regs, alm),
                [alarms |-> alm])
      BY <2>1, Zenon
    <3>2. Fine(SetAlarmEnables(regs, alm),
            [alarms |-> alm])
      <4>1. alm \in SUBSET CFR1_ALM_ALL
        BY DEF CFR1_ALM_ALL
      <4> QED BY <1>1, <4>1, AlarmsGood DEF Fine
    <3> QED BY <3>1, <3>2, Zenon
  <2>2. CASE \E cal \in {{}, {4}, CFR1_CAL} :
              DoesKeepingMask(SetCalibEnables(regs, cal),
                [calib |-> cal])
    <3>1. PICK cal \in {{}, {4}, CFR1_CAL} :
              DoesKeepingMask(SetCalibEnables(regs, cal),
                [calib |-> cal])
      BY <2>2, Zenon
    <3>2. Fine(SetCalibEnables(regs, cal),
            [calib |-> cal])
      <4>1. cal \in SUBSET CFR1_CAL
        BY DEF CFR1_CAL
      <4> QED BY <1>1, <4>1, CalibGood DEF Fine
    <3> QED BY <3>1, <3>2, Zenon
  <2>3. CASE \E n \in ThresholdsUsed \ {3}, v \in Words :
              DoesKeepingMask(SetAlarmThreshold(n, v),
                [thresholds |-> WithThreshold(n, v)])
    <3>1. PICK n \in ThresholdsUsed \ {3}, v \in Words :
              DoesKeepingMask(SetAlarmThreshold(n, v),
                [thresholds |-> WithThreshold(n, v)])
      BY <2>3, Zenon
    <3>2. Fine(SetAlarmThreshold(n, v),
            [thresholds |-> WithThreshold(n, v)])
      <4>1. n \in ThresholdNumbers /\ v \in SUBSET (0 .. 15)
        BY ThresholdsAssumption DEF ThresholdNumbers, Words
      <4>2. Good("sysmon", SetAlarmThreshold(n, v), regs, [thresholds |-> Replaced(regs, n, v)])
        BY <1>1, <4>1, ThresholdGood
      <4> QED BY <1>1, <4>2, ReplacedByWrite DEF Fine
    <3> QED BY <3>1, <3>2, Zenon
  <2>4. CASE \E v \in Words :
              DoesKeepingMask(SetAlarmThreshold(3, v),
                [otvalue |-> Down(v, 4), otenable |-> v \cap OT_ENB])
    <3>1. PICK v \in Words :
              DoesKeepingMask(SetAlarmThreshold(3, v),
                [otvalue |-> Down(v, 4), otenable |-> v \cap OT_ENB])
      BY <2>4, Zenon
    <3>2. Fine(SetAlarmThreshold(3, v),
            [otvalue |-> Down(v, 4), otenable |-> v \cap OT_ENB])
      <4>1. v \in SUBSET (0 .. 15)
        BY DEF Words
      <4> QED BY <1>1, <4>1, OverTempThreshold DEF Fine
    <3> QED BY <3>1, <3>2, Zenon
  <2>5. CASE \E v \in {{}, 0 .. 11} :
              DoesKeepingMask(SetOverTemp(regs, v),
                [otvalue |-> v])
    <3>1. PICK v \in {{}, 0 .. 11} :
              DoesKeepingMask(SetOverTemp(regs, v),
                [otvalue |-> v])
      BY <2>5, Zenon
    <3>2. Fine(SetOverTemp(regs, v),
            [otvalue |-> v])
      <4>1. v \in SUBSET (0 .. 11)
        OBVIOUS
      <4> QED BY <1>1, <4>1, OverTempSet DEF Fine
    <3> QED BY <3>1, <3>2, Zenon
  <2>6. CASE DoesKeepingMask(EnableUserOverTemp(regs), [otenable |-> OT_ENB_VAL])
    <3>2. Fine(EnableUserOverTemp(regs), [otenable |-> OT_ENB_VAL])
      BY <1>1, OverTempSwitch DEF Fine
    <3> QED BY <2>6, <3>2, Zenon
  <2>7. CASE DoesKeepingMask(DisableUserOverTemp(regs), [otenable |-> {}])
    <3>2. Fine(DisableUserOverTemp(regs), [otenable |-> {}])
      BY <1>1, OverTempSwitch DEF Fine
    <3> QED BY <2>7, <3>2, Zenon
  <2> QED BY <2>1, <2>2, <2>3, <2>4, <2>5, <2>6, <2>7, Zenon DEF Alarms
<1> QED BY <1>2, CallKeepingMask

LEMMA AnySequencer ==
  ASSUME SettingsInv, Sequencer PROVE Called
<1>1. dev = "sysmon" /\ Fit("sysmon", regs)
  BY DEF Sequencer, SettingsInv
<1>2. PICK writes, asks : DoesKeepingMask(writes, asks) /\ Fine(writes, asks)
  <2>1. CASE \E mode \in Modes :
              DoesKeepingMask(SetSequencerMode(regs, mode),
                [mode |-> mode])
    <3>1. PICK mode \in Modes :
              DoesKeepingMask(SetSequencerMode(regs, mode),
                [mode |-> mode])
      BY <2>1, Zenon
    <3>2. Fine(SetSequencerMode(regs, mode),
            [mode |-> mode])
      <4>1. mode \in SUBSET (0 .. 3)
        BY DEF Modes, SAFE, SINGCHAN
      <4> QED BY <1>1, <4>1, ModeGood DEF Fine
    <3> QED BY <3>1, <3>2, Zenon
  <2>2. CASE \E b \in BOOLEAN :
              DoesKeepingMask(SetSequencerEvent(regs, b),
                [event |-> If(b, CFR0_EC)])
    <3>1. PICK b \in BOOLEAN :
              DoesKeepingMask(SetSequencerEvent(regs, b),
                [event |-> If(b, CFR0_EC)])
      BY <2>2, Zenon
    <3>2. Fine(SetSequencerEvent(regs, b),
            [event |-> If(b, CFR0_EC)])
      BY <1>1, SequencerEventGood DEF Fine
    <3> QED BY <3>1, <3>2, Zenon
  <2>3. CASE \E chs \in ChannelSets :
              DoesKeepingMask(SetSeqChEnables(regs, chs),
                [seqch |-> chs])
    <3>1. PICK chs \in ChannelSets :
              DoesKeepingMask(SetSeqChEnables(regs, chs),
                [seqch |-> chs])
      BY <2>3, Zenon
    <3>2. Fine(SetSeqChEnables(regs, chs),
            [seqch |-> chs])
      <4>1. CASE GetSequencerMode(regs) = SAFE
        BY <1>1, <4>1, SequencerGood DEF Fine
      <4>2. CASE GetSequencerMode(regs) # SAFE
        BY <4>2, SequencerBusy DEF Fine
      <4> QED BY <4>1, <4>2
    <3> QED BY <3>1, <3>2, Zenon
  <2>4. CASE \E chs \in ChannelSets :
              DoesKeepingMask(SetSeqAvgEnables(regs, chs \ {0}),
                [seqavg |-> chs \ {0}])
    <3>1. PICK chs \in ChannelSets :
              DoesKeepingMask(SetSeqAvgEnables(regs, chs \ {0}),
                [seqavg |-> chs \ {0}])
      BY <2>4, Zenon
    <3>2. Fine(SetSeqAvgEnables(regs, chs \ {0}),
            [seqavg |-> chs \ {0}])
      <4>1. CASE GetSequencerMode(regs) = SAFE
        BY <1>1, <4>1, SequencerGood DEF Fine
      <4>2. CASE GetSequencerMode(regs) # SAFE
        BY <4>2, SequencerBusy DEF Fine
      <4> QED BY <4>1, <4>2
    <3> QED BY <3>1, <3>2, Zenon
  <2>5. CASE \E chs \in ChannelSets :
              DoesKeepingMask(SetSeqInputMode(regs, chs \cap 11 .. 31),
                [seqinput |-> chs \cap 11 .. 31])
    <3>1. PICK chs \in ChannelSets :
              DoesKeepingMask(SetSeqInputMode(regs, chs \cap 11 .. 31),
                [seqinput |-> chs \cap 11 .. 31])
      BY <2>5, Zenon
    <3>2. Fine(SetSeqInputMode(regs, chs \cap 11 .. 31),
            [seqinput |-> chs \cap 11 .. 31])
      <4>1. CASE GetSequencerMode(regs) = SAFE
        BY <1>1, <4>1, SequencerGood DEF Fine
      <4>2. CASE GetSequencerMode(regs) # SAFE
        BY <4>2, SequencerBusy DEF Fine
      <4> QED BY <4>1, <4>2
    <3> QED BY <3>1, <3>2, Zenon
  <2>6. CASE \E chs \in ChannelSets :
              DoesKeepingMask(SetSeqAcqTime(regs, chs \cap 11 .. 31),
                [seqacq |-> chs \cap 11 .. 31])
    <3>1. PICK chs \in ChannelSets :
              DoesKeepingMask(SetSeqAcqTime(regs, chs \cap 11 .. 31),
                [seqacq |-> chs \cap 11 .. 31])
      BY <2>6, Zenon
    <3>2. Fine(SetSeqAcqTime(regs, chs \cap 11 .. 31),
            [seqacq |-> chs \cap 11 .. 31])
      <4>1. CASE GetSequencerMode(regs) = SAFE
        BY <1>1, <4>1, SequencerGood DEF Fine
      <4>2. CASE GetSequencerMode(regs) # SAFE
        BY <4>2, SequencerBusy DEF Fine
      <4> QED BY <4>1, <4>2
    <3> QED BY <3>1, <3>2, Zenon
  <2> QED BY <2>1, <2>2, <2>3, <2>4, <2>5, <2>6, Zenon DEF Sequencer
<1> QED BY <1>2, CallKeepingMask

LEMMA AnyPattern ==
  ASSUME SettingsInv, Pattern PROVE Called
<1>1. dev = "tpg" /\ Fit("tpg", regs)
  BY DEF Pattern, SettingsInv
<1>2. PICK writes, asks : DoesKeepingMask(writes, asks) /\ Fine(writes, asks)
  <2>1. CASE \E name \in DOMAIN Plain, v \in {{}, COLOR_BARS} :
              DoesKeepingMask(Set(name, v),
                [s \in {name} |-> v])
    <3>1. PICK name \in DOMAIN Plain, v \in {{}, COLOR_BARS} :
              DoesKeepingMask(Set(name, v),
                [s \in {name} |-> v])
      BY <2>1, Zenon
    <3>2. Fine(Set(name, v),
            [s \in {name} |-> v])
      <4>1. v \in SUBSET (0 .. 7)
        BY DEF COLOR_BARS
      <4> QED BY <1>1, <4>1, SetGood DEF Fine
    <3> QED BY <3>1, <3>2, Zenon
  <2>2. CASE \E v \in {{}, MOTION_EN} :
              DoesKeepingMask(Set_motionEn(regs, v),
                [motionEn |-> v])
    <3>1. PICK v \in {{}, MOTION_EN} :
              DoesKeepingMask(Set_motionEn(regs, v),
                [motionEn |-> v])
      BY <2>2, Zenon
    <3>2. Fine(Set_motionEn(regs, v),
            [motionEn |-> v])
      <4>1. CASE Set_motionEn(regs, v) = << >>
        BY <4>1 DEF Fine
      <4>2. CASE Set_motionEn(regs, v) # << >>
        BY <1>1, <4>2, MotionGood DEF Fine
      <4> QED BY <4>1, <4>2
    <3> QED BY <3>1, <3>2, Zenon
  <2>3. CASE \E v \in {{}, {0}, {1}} :
              DoesKeepingMask(Set_enableInput(regs, v),
                [enableInput |-> v, passthrough |-> If(v # {}, PASSTHR)])
    <3>1. PICK v \in {{}, {0}, {1}} :
              DoesKeepingMask(Set_enableInput(regs, v),
                [enableInput |-> v, passthrough |-> If(v # {}, PASSTHR)])
      BY <2>3, Zenon
    <3>2. Fine(Set_enableInput(regs, v),
            [enableInput |-> v, passthrough |-> If(v # {}, PASSTHR)])
      <4>1. v \in SUBSET (0 .. 7)
        OBVIOUS
      <4> QED BY <1>1, <4>1, InputGood DEF Fine
    <3> QED BY <3>1, <3>2, Zenon
  <2>4. CASE \E b \in BOOLEAN :
              DoesKeepingMask(Set_Interlaced(regs, b),
                [interlaced |-> If(b, INTERLACED)])
    <3>1. PICK b \in BOOLEAN :
              DoesKeepingMask(Set_Interlaced(regs, b),
                [interlaced |-> If(b, INTERLACED)])
      BY <2>4, Zenon
    <3>2. Fine(Set_Interlaced(regs, b),
            [interlaced |-> If(b, INTERLACED)])
      BY <1>1, FieldIdGood DEF Fine
    <3> QED BY <3>1, <3>2, Zenon
  <2>5. CASE \E b \in BOOLEAN :
              DoesKeepingMask(Set_Polarity(regs, b),
                [polarity |-> If(b, POLARITY)])
    <3>1. PICK b \in BOOLEAN :
              DoesKeepingMask(Set_Polarity(regs, b),
                [polarity |-> If(b, POLARITY)])
      BY <2>5, Zenon
    <3>2. Fine(Set_Polarity(regs, b),
            [polarity |-> If(b, POLARITY)])
      BY <1>1, FieldIdGood DEF Fine
    <3> QED BY <3>1, <3>2, Zenon
  <2> QED BY <2>1, <2>2, <2>3, <2>4, <2>5, Zenon DEF Pattern
<1> QED BY <1>2, CallKeepingMask

LEMMA AnyGpio ==
  ASSUME SettingsInv, Gpio PROVE Called
<1>1. dev = "gpio" /\ Fit("gpio", regs)
  BY DEF Gpio, SettingsInv
<1> DEFINE Shown(ch, bits) == [s \in {Outs[ch]} |-> bits \ regs[Tri(ch)]]
<1> DEFINE Turned(ch, v) == [s \in {Dirs[ch]} |-> v] ++ [s \in {Outs[ch]} |-> regs[Data(ch)] \ v]
<1>2. PICK ch \in {1, 2}, v \in PinSets, pins \in {{}, 0 .. 3} :
        \/ DoesKeepingMask(SetDataDirection(ch, v), Turned(ch, v))
        \/ DoesKeepingMask(DiscreteWrite(ch, v), Shown(ch, v))
        \/ DoesKeepingMask(DiscreteSet(regs, pins, ch, v), Shown(ch, regs[Data(ch)] \cup v))
        \/ DoesKeepingMask(DiscreteClear(regs, pins, ch, v), Shown(ch, regs[Data(ch)] \ v))
  BY Zenon DEF Gpio
<1>3. /\ v \in SUBSET (0 .. 3) /\ pins \in SUBSET (0 .. 3)
      /\ regs[Data(ch)] \in SUBSET (0 .. 3)
  <2>1. Data(ch) \in GpioRegs
    BY GpioOffsets
  <2>2. regs[Data(ch)] \subseteq 0 .. 4 - 1
    BY <1>1, <2>1 DEF Fit, RegsOf, WidthOf
  <2>3. 4 - 1 = 3
    OBVIOUS
  <2> QED BY <2>2, <2>3 DEF PinSets
<1>4. PICK writes, asks : DoesKeepingMask(writes, asks) /\ Fine(writes, asks)
  <2>1. CASE DoesKeepingMask(SetDataDirection(ch, v), Turned(ch, v))
    <3>1. Fine(SetDataDirection(ch, v), Turned(ch, v))
      BY <1>1, <1>3, DirectionGood DEF Fine
    <3> QED BY <2>1, <3>1, Zenon
  <2>2. CASE DoesKeepingMask(DiscreteWrite(ch, v), Shown(ch, v))
    <3>1. Fine(DiscreteWrite(ch, v), Shown(ch, v))
      BY <1>1, <1>3, OutputGood DEF Fine, DiscreteWrite
    <3> QED BY <2>2, <3>1, Zenon
  <2>3. CASE DoesKeepingMask(DiscreteSet(regs, pins, ch, v), Shown(ch, regs[Data(ch)] \cup v))
    <3> DEFINE x == DiscreteRead(regs, pins, ch) \cup v
    <3>1. x \in SUBSET (0 .. 3)
      BY <1>3 DEF DiscreteRead
    <3>2. x \ regs[Tri(ch)] = (regs[Data(ch)] \cup v) \ regs[Tri(ch)]
      BY DEF DiscreteRead
    <3> HIDE DEF x
    <3>3. Good("gpio", << W(Data(ch), x) >>, regs, Shown(ch, regs[Data(ch)] \cup v))
      BY <1>1, <3>1, <3>2, OutputGood
    <3>4. Fine(DiscreteSet(regs, pins, ch, v), Shown(ch, regs[Data(ch)] \cup v))
      BY <1>1, <3>3 DEF Fine, DiscreteSet, x
    <3> QED BY <2>3, <3>4, Zenon
  <2>4. CASE DoesKeepingMask(DiscreteClear(regs, pins, ch, v), Shown(ch, regs[Data(ch)] \ v))
    <3> DEFINE x == DiscreteRead(regs, pins, ch) \ v
    <3>1. x \in SUBSET (0 .. 3)
      BY <1>3 DEF DiscreteRead
    <3>2. x \ regs[Tri(ch)] = (regs[Data(ch)] \ v) \ regs[Tri(ch)]
      BY DEF DiscreteRead
    <3> HIDE DEF x
    <3> DEFINE y == (regs[Data(ch)] \ v) \ regs[Tri(ch)]
    <3>5. x \ regs[Tri(ch)] = y
      BY <3>2
    <3> HIDE DEF y
    <3>6. Good("gpio", << W(Data(ch), x) >>, regs, [s \in {Outs[ch]} |-> y])
      BY <1>1, <3>1, <3>5, OutputGood
    <3>3. Good("gpio", << W(Data(ch), x) >>, regs, Shown(ch, regs[Data(ch)] \ v))
      BY <3>6 DEF y
    <3>4. Fine(DiscreteClear(regs, pins, ch, v), Shown(ch, regs[Data(ch)] \ v))
      BY <1>1, <3>3 DEF Fine, DiscreteClear, x
    <3> QED BY <2>4, <3>4, Zenon
  <2> QED BY <1>2, <2>1, <2>2, <2>3, <2>4, Zenon
<1> QED BY <1>4, CallKeepingMask

\* The settings a device has do not depend on its registers.
LEMMA SameSettings ==
  ASSUME NEW d \in {"sysmon", "tpg", "gpio"}, NEW r, NEW t
  PROVE  DOMAIN SettingsOf(d, r) = DOMAIN SettingsOf(d, t)
<1>1. CASE d = "sysmon"
  BY <1>1, SysMonNames
<1>2. CASE d = "tpg"
  BY <1>2, TpgView
<1>3. CASE d = "gpio"
  BY <1>3, GpioView
<1> QED BY <1>1, <1>2, <1>3

LEMMA FitKept ==
  ASSUME NEW d \in {"sysmon", "tpg", "gpio"}, NEW r, Fit(d, r), NEW w \in FitWrites(d)
  PROVE  Fit(d, After(d, w, r))
<1> DEFINE t == After(d, w, r)
<1>1. CASE d = "sysmon" /\ w.reg = SRR
  <2>1. t = [r EXCEPT ![CONVST] = WaitCyclesDefault, ![ARR] = {}]
    BY <1>1 DEF After
  <2>2. DOMAIN r = SysMonRegs /\ \A o \in SysMonRegs : r[o] \subseteq 0 .. WidthOf(d, o) - 1
    BY <1>1 DEF Fit, RegsOf
  <2>3. /\ DOMAIN t = SysMonRegs /\ t[CONVST] = WaitCyclesDefault /\ t[ARR] = {}
        /\ \A o \in SysMonRegs \ {CONVST, ARR} : t[o] = r[o]
    BY <2>1, <2>2, RegisterFile
  <2> HIDE DEF t
  <2>4. WaitCyclesDefault \subseteq 0 .. WidthOf(d, CONVST) - 1
    BY <1>1, DefaultFits DEF WidthOf
  <2>5. \A o \in SysMonRegs : t[o] \subseteq 0 .. WidthOf(d, o) - 1
    BY <2>2, <2>3, <2>4
  <2> QED BY <1>1, <2>3, <2>5 DEF Fit, RegsOf, t
<1>2. CASE ~(d = "sysmon" /\ w.reg = SRR)
  <2>1. t = [r EXCEPT ![w.reg] = w.val]
    BY <1>2 DEF After
  <2>2. w.reg \in RegsOf(d) /\ w.val \subseteq 0 .. WidthOf(d, w.reg) - 1
    BY <1>2 DEF FitWrites
  <2>3. DOMAIN r = RegsOf(d) /\ \A o \in RegsOf(d) : r[o] \subseteq 0 .. WidthOf(d, o) - 1
    BY DEF Fit
  <2>4. DOMAIN t = RegsOf(d) /\ t[w.reg] = w.val /\ \A o \in RegsOf(d) \ {w.reg} : t[o] = r[o]
    BY <2>1, <2>2, <2>3
  <2> HIDE DEF t
  <2>5. \A o \in RegsOf(d) : t[o] \subseteq 0 .. WidthOf(d, o) - 1
    BY <2>2, <2>3, <2>4
  <2> QED BY <2>4, <2>5 DEF Fit, t
<1> QED BY <1>1, <1>2

LEMMA StillAtCall ==
  ASSUME SettingsInv, Called PROVE SettingsInv'
<1>1. dev' = dev /\ regs' = regs /\ up' = up
  BY DEF Called
<1>2. Good(dev, todo', regs, asked')
  BY DEF Called
<1>3. Good(dev', todo', regs', asked') /\ Fit(dev', regs')
  BY <1>1, <1>2 DEF SettingsInv
<1>4. calls' \in 0 .. MaxCalls
  BY MaxCallsAssumption DEF Called, SettingsInv
<1> QED BY <1>1, <1>3, <1>4 DEF Called, SettingsInv

LEMMA Written ==
  ASSUME SettingsInv, BusWrite
  PROVE  /\ regs' = After(dev, Head(todo), regs)
         /\ Head(todo) \in FitWrites(dev)
         /\ Kept(dev, regs, regs', asked)
         /\ todo' = << >> => Reached(dev, regs', asked)
         /\ Promise(dev, todo', regs', asked)
         /\ todo' \in Seq(FitWrites(dev))
<1>1. todo # << >> /\ todo' = Tail(todo) /\ regs' = After(dev, Head(todo), regs)
  BY DEF BusWrite, After
<1>2. todo \in Seq(FitWrites(dev)) /\ Promise(dev, todo, regs, asked)
  BY DEF SettingsInv, Good
<1>3. Head(todo) \in FitWrites(dev) /\ Tail(todo) \in Seq(FitWrites(dev))
  BY <1>1, <1>2, HeadTailProperties
<1>4. /\ Kept(dev, regs, After(dev, Head(todo), regs), asked)
      /\ Tail(todo) = << >> => Reached(dev, After(dev, Head(todo), regs), asked)
      /\ Promise(dev, Tail(todo), After(dev, Head(todo), regs), asked)
  BY <1>1, <1>2, PromiseGoesOn
<1> QED BY <1>1, <1>3, <1>4

LEMMA StillAtBusWrite ==
  ASSUME SettingsInv, BusWrite PROVE SettingsInv'
<1>1. /\ dev' = dev /\ mask' = mask /\ up' = up /\ calls' = calls /\ todo # << >>
      /\ asked' = IF todo' = << >> THEN NoSetting ELSE asked
  BY DEF BusWrite
<1>2. Fit(dev, regs')
  BY Written, FitKept DEF SettingsInv
<1>3. Good(dev, todo', regs', asked')
  <2>1. CASE todo' = << >>
    BY <1>1, <2>1, NothingGood
  <2>2. CASE todo' # << >>
    <3>1. DOMAIN asked \subseteq DOMAIN SettingsOf(dev, regs')
      BY SameSettings DEF SettingsInv, Good
    <3> QED BY <1>1, <2>2, <3>1, Written DEF Good
  <2> QED BY <2>1, <2>2
<1>4. Good(dev', todo', regs', asked') /\ Fit(dev', regs')
  BY <1>1, <1>2, <1>3
<1> QED BY <1>1, <1>4 DEF SettingsInv

LEMMA StillAtKill ==
  ASSUME SettingsInv, Kill PROVE SettingsInv'
<1>1. /\ dev' = dev /\ regs' = regs /\ mask' = mask /\ calls' = calls /\ up' = FALSE
      /\ todo' = << >> /\ asked' = NoSetting
  BY DEF Kill
<1>2. Good(dev', todo', regs', asked') /\ Fit(dev', regs')
  BY <1>1, NothingGood DEF SettingsInv
<1> QED BY <1>1, <1>2 DEF SettingsInv

LEMMA StillAtStart ==
  ASSUME SettingsInv, Start PROVE SettingsInv'
<1>1. /\ dev' = dev /\ regs' = regs /\ calls' = calls /\ up' = TRUE
      /\ mask' = WaitCyclesDefault
      /\ todo' = IF dev = "sysmon" THEN CfgInitialize ELSE << >>
      /\ asked' = IF todo' = << >> THEN NoSetting ELSE ResetAsks
  BY DEF Start
<1>2. Good(dev, todo', regs, asked')
  <2>1. CASE dev = "sysmon"
    <3>1. todo' = CfgInitialize /\ CfgInitialize # << >>
      BY <1>1, <2>1 DEF CfgInitialize, Reset
    <3> QED BY <1>1, <2>1, <3>1, ResetGood DEF SettingsInv
  <2>2. CASE dev # "sysmon"
    BY <1>1, <2>2, NothingGood
  <2> QED BY <2>1, <2>2
<1>3. Good(dev', todo', regs', asked') /\ Fit(dev', regs')
  BY <1>1, <1>2 DEF SettingsInv
<1>4. mask' \in SUBSET (0 .. 17)
  BY <1>1, DefaultFits
<1> QED BY <1>1, <1>3, <1>4 DEF SettingsInv

LEMMA StillAtStuttering ==
  ASSUME SettingsInv, UNCHANGED vars PROVE SettingsInv'
<1>1. /\ dev' = dev /\ regs' = regs /\ mask' = mask /\ calls' = calls /\ up' = up
      /\ todo' = todo /\ asked' = asked
  BY DEF vars
<1>2. Good(dev', todo', regs', asked') /\ Fit(dev', regs')
  BY <1>1 DEF SettingsInv
<1> QED BY <1>1, <1>2 DEF SettingsInv

LEMMA FoundFits ==
  ASSUME NEW d \in {"sysmon", "tpg", "gpio"}, NEW r \in Found(d) PROVE Fit(d, r)
<1>1. CASE d = "sysmon"
  <2>1. DOMAIN r = SysMonRegs
    BY <1>1 DEF Found
  <2>2. ASSUME NEW o \in SysMonRegs PROVE r[o] \subseteq 0 .. WidthOf("sysmon", o) - 1
    <3>1. CASE o = CONVST
      <4> DEFINE x == WAITCYCLES \cup TEMPUPDT \cup CONVST_START
      <4>1. x \subseteq 0 .. 17
        BY DEF WAITCYCLES, TEMPUPDT, CONVST_START
      <4>3. WaitCyclesDefault \subseteq 0 .. 17
        BY DefaultFits
      <4>4. ASSUME r = [p \in SysMonRegs |-> IF p = CONVST THEN WaitCyclesDefault ELSE {}]
            PROVE  r[o] = WaitCyclesDefault
        BY <2>2, <3>1, <4>4
      <4>5. ASSUME r = [p \in SysMonRegs |-> CASE p = CONVST -> x
                                            [] p = ARR    -> {0}
                                            [] p = CFR1   -> 0 .. 13
                                            [] OTHER      -> 0 .. 15]
            PROVE  r[o] = x
        <5> HIDE DEF x
        <5>1. r[CONVST] = CASE CONVST = CONVST -> x
                            [] CONVST = ARR    -> {0}
                            [] CONVST = CFR1   -> 0 .. 13
                            [] OTHER           -> 0 .. 15
          BY <2>2, <3>1, <4>5
        <5>2. CONVST # ARR /\ CONVST # CFR1
          BY SysMonOffsets
        <5> QED BY <3>1, <5>1, <5>2
      <4>6. r[o] \in {WaitCyclesDefault, x}
        BY <1>1, <3>1, <4>4, <4>5 DEF Found
      <4>2. r[o] \subseteq 0 .. 17
        <5> HIDE DEF x
        <5> QED BY <4>1, <4>3, <4>6
      <4> QED BY <3>1, <4>2 DEF WidthOf
    <3>2. CASE o # CONVST
      <4>1. r[o] \in {{}, {0}, 0 .. 13, 0 .. 15}
        BY <1>1, <2>2, <3>2, RegisterFile DEF Found, OtherRegs
      <4>2. r[o] \subseteq 0 .. 15
        BY <4>1
      <4> QED BY <3>2, <4>2 DEF WidthOf
    <3> QED BY <3>1, <3>2
  <2> QED BY <1>1, <2>1, <2>2 DEF Fit, RegsOf
<1>2. CASE d = "tpg"
  <2>1. DOMAIN r = TpgRegs
    BY <1>2 DEF Found
  <2>2. ASSUME NEW o \in TpgRegs PROVE r[o] \subseteq 0 .. BITS(o) - 1
    <3>1. r[o] \in {{}, COLOR_BARS, 0 .. BITS(o) - 1}
      BY <1>2, <2>2 DEF Found
    <3>2. COLOR_BARS \subseteq 0 .. BITS(o) - 1
      BY DEF COLOR_BARS, BITS
    <3> QED BY <3>1, <3>2
  <2> QED BY <1>2, <2>1, <2>2 DEF Fit, RegsOf, WidthOf
<1>3. CASE d = "gpio"
  <2>1. r \in {[o \in GpioRegs |-> {}], [o \in GpioRegs |-> 0 .. 3]}
    BY <1>3 DEF Found
  <2> QED BY <1>3, <2>1 DEF Fit, RegsOf, WidthOf
<1> QED BY <1>1, <1>2, <1>3

LEMMA StillAtFirst ==
  ASSUME Init PROVE SettingsInv
<1>1. /\ dev \in {"sysmon", "tpg", "gpio"} /\ regs \in Found(dev)
      /\ mask = {} /\ up = FALSE /\ todo = << >> /\ asked = NoSetting /\ calls = 0
  BY DEF Init
<1>2. Good(dev, todo, regs, asked) /\ Fit(dev, regs)
  BY <1>1, NothingGood, FoundFits
<1>3. mask \in SUBSET (0 .. 17) /\ calls \in 0 .. MaxCalls /\ up \in BOOLEAN
  <2>1. calls \in 0 .. MaxCalls
    BY <1>1, MaxCallsAssumption
  <2>2. up \in BOOLEAN /\ mask \in SUBSET (0 .. 17)
    BY <1>1
  <2> QED BY <2>1, <2>2
<1> QED BY <1>1, <1>2, <1>3 DEF SettingsInv

LEMMA AnyCall ==
  ASSUME SettingsInv,
         Conversion \/ TempUpdate \/ SingleChannel \/ Alarms \/ Sequencer \/ Pattern \/ Gpio
  PROVE  Called
BY AnyConversion, AnyTempUpdate, AnySingleChannel, AnyAlarms, AnySequencer, AnyPattern, AnyGpio

LEMMA SettingsInductive == SettingsInv /\ [Next]_vars => SettingsInv'
BY AnyCall, StillAtCall, StillAtBusWrite, StillAtKill, StillAtStart, StillAtStuttering DEF Next

LEMMA SettingsAlways == Spec => []SettingsInv
BY StillAtFirst, SettingsInductive, PTL DEF Spec

\* DeviceSettings.TypeOK: every register holds a value of its width, whatever
\* the calls write, and every pending write is to a register of the device.
THEOREM RegistersFit == Spec => []TypeOK
<1>1. SettingsInv => TypeOK
  <2> SUFFICES ASSUME SettingsInv PROVE TypeOK
    OBVIOUS
  <2>1. dev \in {"sysmon", "tpg", "gpio"} /\ DOMAIN regs = RegsOf(dev)
        /\ \A o \in RegsOf(dev) : regs[o] \subseteq 0 .. WidthOf(dev, o) - 1
    BY DEF SettingsInv, Fit
  <2>2. \A o : Width(o) = WidthOf(dev, o)
    BY DEF Width, WidthOf
  <2>3. ASSUME NEW i \in 1 .. Len(todo) PROVE todo[i].reg \in DOMAIN regs \cup {SRR}
    <3>1. todo[i] \in FitWrites(dev)
      BY ElementOfSeq DEF SettingsInv, Good
    <3> QED BY <2>1, <3>1 DEF FitWrites
  <2>4. DOMAIN asked \subseteq DOMAIN Settings
    BY DEF SettingsInv, Good, Settings, SettingsOf
  <2> QED BY <2>1, <2>2, <2>3, <2>4 DEF TypeOK, SettingsInv, RegsOf
<1> QED BY <1>1, SettingsAlways, PTL

\* DeviceSettings.KeepsTheOthers: every call changes the settings it is for,
\* bit by bit towards the values asked, and no other, and has made all of them
\* what was asked when it ends (the drivers' setters and getters, each of which
\* shares its registers with others).
THEOREM CallsKeepTheOthers == Spec => KeepsTheOthers
<1>1. Init => Abstract!Init
  BY DEF Init, Abstract!Init, Abstract!NoCall, NoSetting
<1>2. SettingsInv /\ SettingsInv' /\ [Next]_vars => [Abstract!Next]_<<Settings, asked>>
  <2> SUFFICES ASSUME SettingsInv, SettingsInv', [Next]_vars
               PROVE  [Abstract!Next]_<<Settings, asked>>
    OBVIOUS
  <2>1. Settings = SettingsOf(dev, regs) /\ Settings' = SettingsOf(dev', regs')
    BY DEF Settings, SettingsOf
  <2>2. Abstract!NoCall = NoSetting
    BY DEF Abstract!NoCall, NoSetting
  <2>3. CASE Called
    <3>1. Settings' = Settings /\ asked = NoSetting
      BY <2>1, <2>3 DEF Called, SettingsInv
    <3>2. DOMAIN asked' \in SUBSET DOMAIN Settings
      BY <2>1, <2>3 DEF Called, Good
    <3>3. Abstract!Ask
      BY <2>2, <3>1, <3>2 DEF Abstract!Ask
    <3> QED BY <3>3 DEF Abstract!Next
  <2>4. CASE BusWrite
    <3>1. dev' = dev /\ asked' = IF todo' = << >> THEN NoSetting ELSE asked
      BY <2>4 DEF BusWrite
    <3>2. Kept(dev, regs, regs', asked) /\ (todo' = << >> => Reached(dev, regs', asked))
      BY <2>4, Written
    <3>3. DOMAIN Settings' = DOMAIN Settings /\ DOMAIN asked \subseteq DOMAIN Settings
      BY <2>1, <3>1, SameSettings DEF SettingsInv, Good
    <3>4. /\ \A s \in DOMAIN Settings \ DOMAIN asked : Settings'[s] = Settings[s]
          /\ \A s \in DOMAIN asked : /\ Settings[s] \cap asked[s] \subseteq Settings'[s]
                                     /\ Settings'[s] \subseteq Settings[s] \cup asked[s]
      BY <2>1, <3>1, <3>2, <3>3 DEF Kept, Between
    <3>5. \/ asked' = asked
          \/ asked' = NoSetting /\ \A s \in DOMAIN asked : Settings'[s] = asked[s]
      BY <2>1, <3>1, <3>2 DEF Reached
    <3>6. Abstract!Change
      BY <2>2, <3>3, <3>4, <3>5 DEF Abstract!Change
    <3> QED BY <3>6 DEF Abstract!Next
  <2>5. CASE Kill
    <3>1. asked' = NoSetting /\ Settings' = Settings
      BY <2>1, <2>5 DEF Kill
    <3>2. Abstract!Kill
      BY <2>2, <3>1 DEF Abstract!Kill
    <3> QED BY <3>2 DEF Abstract!Next
  <2>6. CASE Start
    <3>1. Settings' = Settings /\ asked = NoSetting
      BY <2>1, <2>6 DEF Start, SettingsInv
    <3>2. DOMAIN asked' \in SUBSET DOMAIN Settings
      <4>1. DOMAIN asked' \subseteq DOMAIN SettingsOf(dev', regs')
        BY DEF SettingsInv, Good
      <4> QED BY <2>1, <3>1, <4>1
    <3>3. Abstract!Ask
      BY <2>2, <3>1, <3>2 DEF Abstract!Ask
    <3> QED BY <3>3 DEF Abstract!Next
  <2>7. CASE UNCHANGED vars
    <3>1. Settings' = Settings /\ asked' = asked
      BY <2>1, <2>7 DEF vars
    <3> QED BY <3>1
  <2> QED BY <2>3, <2>4, <2>5, <2>6, <2>7, AnyCall DEF Next
<1> QED BY <1>1, <1>2, SettingsAlways, PTL DEF Spec, KeepsTheOthers, Abstract!Spec

-----------------------------------------------------------------------------
(* The sequencer rests while its registers are written.                    *)

\* The writes of a call are all to the sequencer's registers, or none is.
Elsewhere(q) == \A i \in 1 .. Len(q) : q[i].reg \notin SeqRegs
OnSequencer(q) == \A i \in 1 .. Len(q) : q[i].reg \in SeqRegs

AtRest == Elsewhere(todo) \/ (OnSequencer(todo) /\ GetSequencerMode(regs) = SAFE)
SequencerInv == dev = "sysmon" => AtRest

LEMMA SequencerRegs ==
  /\ SRR \notin SeqRegs /\ CONVST \notin SeqRegs /\ ARR \notin SeqRegs /\ CFR0 \notin SeqRegs
  /\ CFR1 \notin SeqRegs /\ CFR2 \notin SeqRegs /\ ATR_OT_UPPER \notin SeqRegs
  /\ \A n \in 0 .. 27 : ATR(n) \notin SeqRegs
  /\ \A n \in 0 .. 9 : SEQ(n) \in SeqRegs
BY DEF SeqRegs, SEQ, ATR, ATR_OT_UPPER, SRR, CONVST, ARR, CFR0, CFR1, CFR2

LEMMA ElsewhereShort ==
  /\ Elsewhere(<< >>)
  /\ \A r, v : r \notin SeqRegs => Elsewhere(<< W(r, v) >>)
  /\ \A r, s, u, v : r \notin SeqRegs /\ s \notin SeqRegs => Elsewhere(<< W(r, u), W(s, v) >>)
BY DEF Elsewhere, W

LEMMA OnSequencerShort ==
  /\ \A r, s \in SeqRegs : \A u, v : OnSequencer(<< W(r, u), W(s, v) >>)
  /\ \A r, s, t \in SeqRegs : \A u, v, x : OnSequencer(<< W(r, u), W(s, v), W(t, x) >>)
BY DEF OnSequencer, W

LEMMA SelfTestElsewhere == Elsewhere(SelfTest)
<1> DEFINE w == W(ATR(1), Bits(85))
<1>1. Reset = << ResetWrite >> /\ SetAlarmThreshold(1, Bits(85)) = << w >>
  BY DEF Reset, ResetWrite, SetAlarmThreshold
<1>2. SelfTest = << ResetWrite >> \o << w >> \o << ResetWrite >>
  BY <1>1 DEF SelfTest
<1>3. w.reg \notin SeqRegs /\ ResetWrite.reg \notin SeqRegs
  BY SequencerRegs DEF W, ResetWrite
<1> HIDE DEF w
<1>4. w \in {w, ResetWrite} /\ ResetWrite \in {w, ResetWrite}
  OBVIOUS
<1>5. SelfTest = << ResetWrite, w, ResetWrite >>
  BY <1>2, <1>4, ThreeJoined
<1> QED BY <1>3, <1>5 DEF Elsewhere

\* A call that writes no register of the sequencer.
LEMMA ElsewhereCalls ==
  ASSUME Conversion \/ TempUpdate \/ SingleChannel \/ Alarms
  PROVE  Elsewhere(todo')
<1>1. CASE Conversion
  <2>1. Elsewhere(Reset) /\ Elsewhere(ResetAdc) /\ Elsewhere(StartAdcConversion(mask))
    BY ElsewhereShort, SequencerRegs DEF Reset, ResetAdc, StartAdcConversion
  <2> QED BY <1>1, <2>1, SelfTestElsewhere DEF Conversion, DoesKeepingMask, Does
<1>2. CASE TempUpdate
  <2>1. /\ Elsewhere(EnableTempUpdate(mask)) /\ Elsewhere(DisableTempUpdate(mask))
        /\ \A v : Elsewhere(SetTempWaitCycles(mask, v))
    BY ElsewhereShort, SequencerRegs DEF EnableTempUpdate, DisableTempUpdate, SetTempWaitCycles
  <2> QED BY <1>2, <2>1 DEF TempUpdate, Does
<1>3. CASE SingleChannel
  <2>1. /\ \A a : Elsewhere(SetAvg(regs, a))
        /\ \A ch, acq, event, diff : Elsewhere(SetSingleChParams(regs, ch, acq, event, diff))
        /\ \A ch : Elsewhere(SetExtenalMux(regs, ch))
        /\ \A div : Elsewhere(SetAdcClkDivisor(div))
    BY ElsewhereShort, SequencerRegs
       DEF SetAvg, SetSingleChParams, SetExtenalMux, SetAdcClkDivisor
  <2> QED BY <1>3, <2>1 DEF SingleChannel, DoesKeepingMask, Does
<1>4. CASE Alarms
  <2>1. /\ \A x : Elsewhere(SetAlarmEnables(regs, x)) /\ Elsewhere(SetCalibEnables(regs, x))
        /\ \A v : Elsewhere(SetOverTemp(regs, v))
        /\ Elsewhere(EnableUserOverTemp(regs)) /\ Elsewhere(DisableUserOverTemp(regs))
    BY ElsewhereShort, SequencerRegs
       DEF SetAlarmEnables, SetCalibEnables, SetOverTemp, EnableUserOverTemp, DisableUserOverTemp
  <2>2. \A n \in ThresholdsUsed \cup {3} : \A v : Elsewhere(SetAlarmThreshold(n, v))
    <3>1. ThresholdsUsed \cup {3} \subseteq 0 .. 27
      BY ThresholdsAssumption
    <3>2. \A n \in ThresholdsUsed \cup {3} : ATR(n) \notin SeqRegs
      BY <3>1, SequencerRegs
    <3> HIDE DEF SeqRegs
    <3> QED BY <3>2, ElsewhereShort DEF SetAlarmThreshold
  <2> QED BY <1>4, <2>1, <2>2 DEF Alarms, DoesKeepingMask, Does
<1> QED BY <1>1, <1>2, <1>3, <1>4

\* The mode is looked at before the first write.
LEMMA SequencerCalls ==
  ASSUME Sequencer
  PROVE  AtRest'
<1>1. /\ \A mode : Elsewhere(SetSequencerMode(regs, mode))
      /\ \A b : Elsewhere(SetSequencerEvent(regs, b))
  BY ElsewhereShort, SequencerRegs DEF SetSequencerMode, SetSequencerEvent
<1> DEFINE Rightly(q) == Elsewhere(q) \/ (OnSequencer(q) /\ GetSequencerMode(regs) = SAFE)
<1>2. \A chs : /\ Rightly(SetSeqChEnables(regs, chs)) /\ Rightly(SetSeqAvgEnables(regs, chs))
               /\ Rightly(SetSeqInputMode(regs, chs)) /\ Rightly(SetSeqAcqTime(regs, chs))
  <2> SUFFICES ASSUME NEW chs
               PROVE  /\ Rightly(SetSeqChEnables(regs, chs)) /\ Rightly(SetSeqAvgEnables(regs, chs))
                      /\ Rightly(SetSeqInputMode(regs, chs)) /\ Rightly(SetSeqAcqTime(regs, chs))
    OBVIOUS
  <2>1. CASE GetSequencerMode(regs) # SAFE
    BY <2>1, SequencerBusy, ElsewhereShort
  <2>2. CASE GetSequencerMode(regs) = SAFE
    <3>1. \A n \in {0, 1, 2, 3, 4, 5, 6, 7, 8, 9} : SEQ(n) \in SeqRegs
      BY SequencerRegs
    <3>2. /\ OnSequencer(SetSeqChEnables(regs, chs)) /\ OnSequencer(SetSeqAvgEnables(regs, chs))
          /\ OnSequencer(SetSeqInputMode(regs, chs)) /\ OnSequencer(SetSeqAcqTime(regs, chs))
      BY <2>2, <3>1, OnSequencerShort
      DEF SetSeqChEnables, SetSeqAvgEnables, SetSeqInputMode, SetSeqAcqTime, WhenSafe
    <3> QED BY <2>2, <3>2
  <2> QED BY <2>1, <2>2
<1>3. Rightly(todo') /\ regs' = regs
  <2> HIDE DEF Rightly
  <2>1. \A q : Elsewhere(q) => Rightly(q)
    BY DEF Rightly
  <2> QED BY <1>1, <1>2, <2>1 DEF Sequencer, DoesKeepingMask, Does
<1> QED BY <1>3 DEF AtRest, GetSequencerMode

\* A write of another register of the sequencer leaves the mode as it is.
LEMMA SequencerBusWrite ==
  ASSUME SettingsInv, SequencerInv, BusWrite PROVE SequencerInv'
<1> SUFFICES ASSUME dev = "sysmon" PROVE AtRest'
  BY DEF SequencerInv, BusWrite
<1> DEFINE S == FitWrites("sysmon")
<1>1. /\ todo \in Seq(S) /\ todo # << >> /\ todo' = Tail(todo)
      /\ regs' = IF Head(todo).reg = SRR
                 THEN [regs EXCEPT ![CONVST] = WaitCyclesDefault, ![ARR] = {}]
                 ELSE [regs EXCEPT ![Head(todo).reg] = Head(todo).val]
  BY DEF BusWrite, SettingsInv, Good
<1>2. /\ Len(todo) \in Nat /\ Len(todo) > 0 /\ Head(todo) = todo[1]
      /\ Len(Tail(todo)) = Len(todo) - 1
      /\ \A i \in 1 .. Len(todo) - 1 : Tail(todo)[i] = todo[i + 1]
  BY <1>1, EmptySeq, LenProperties, HeadTailProperties
<1>3. CASE Elsewhere(todo)
  BY <1>1, <1>2, <1>3 DEF AtRest, Elsewhere
<1>4. CASE OnSequencer(todo) /\ GetSequencerMode(regs) = SAFE
  <2>1. OnSequencer(todo') /\ Head(todo).reg \in SeqRegs
    BY <1>1, <1>2, <1>4 DEF OnSequencer
  <2>2. CFR1 \in DOMAIN regs
    BY DEF SettingsInv, Fit, RegsOf, SysMonRegs
  <2>3. regs'[CFR1] = regs[CFR1]
    BY <1>1, <2>1, <2>2, SequencerRegs
  <2> QED BY <1>4, <2>1, <2>3 DEF AtRest, GetSequencerMode
<1> QED BY <1>3, <1>4 DEF SequencerInv, AtRest

LEMMA SequencerStep ==
  ASSUME SettingsInv, SequencerInv, [Next]_vars PROVE SequencerInv'
<1>1. CASE Conversion \/ TempUpdate \/ SingleChannel \/ Alarms
  BY <1>1, ElsewhereCalls DEF SequencerInv, AtRest
<1>2. CASE Sequencer
  BY <1>2, SequencerCalls DEF SequencerInv
<1>3. CASE Pattern \/ Gpio
  BY <1>3 DEF Pattern, Gpio, DoesKeepingMask, Does, SequencerInv
<1>4. CASE Kill \/ Start
  <2>1. Elsewhere(Reset)
    BY ElsewhereShort, SequencerRegs DEF Reset
  <2> QED BY <1>4, <2>1, ElsewhereShort DEF Kill, Start, CfgInitialize, SequencerInv, AtRest
<1>5. CASE UNCHANGED vars
  BY <1>5 DEF vars, SequencerInv, AtRest, GetSequencerMode
<1> QED BY <1>1, <1>2, <1>3, <1>4, <1>5, SequencerBusWrite DEF Next

\* DeviceSettings.SequencerAtRest: whenever one of the four functions that set
\* up the sequencer is about to write one of its registers, the sequencer is in
\* the safe mode, as their comments demand; the mode is looked at once for the
\* two or three writes of a call.
THEOREM SequencerRests == Spec => []SequencerAtRest
<1>1. Init => SequencerInv
  BY ElsewhereShort DEF Init, SequencerInv, AtRest
<1>2. SettingsInv /\ SequencerInv /\ [Next]_vars => SequencerInv'
  BY SequencerStep
<1>3. SettingsInv /\ SequencerInv => SequencerAtRest
  <2> SUFFICES ASSUME SettingsInv, SequencerInv, dev = "sysmon", todo # << >>,
                      Head(todo).reg \in SeqRegs
               PROVE  GetSequencerMode(regs) = SAFE
    BY DEF SequencerAtRest
  <2>1. 1 \in 1 .. Len(todo) /\ Head(todo) = todo[1]
    BY EmptySeq, LenProperties, HeadTailProperties DEF SettingsInv, Good
  <2> QED BY <2>1 DEF SequencerInv, AtRest, Elsewhere
<1> QED BY <1>1, <1>2, <1>3, SettingsAlways, PTL DEF Spec
=============================================================================
