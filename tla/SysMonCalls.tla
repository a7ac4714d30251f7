----------------------------- MODULE SysMonCalls -----------------------------
(***************************************************************************)
(* The configuration of the system monitor (src/xlnx_libs/sysmon): what    *)
(* each function writes, given the registers r it reads, and the settings  *)
(* that can be read back.  A function that fails writes nothing, which is  *)
(* the empty sequence.                                                     *)
(*                                                                         *)
(* The device is the one of the 7 series, XSM_IP_TYPE is not               *)
(* SYSTEM_MANAGEMENT.  Where there are two operators, the first is the     *)
(* code with a mistake.                                                    *)
(***************************************************************************)
EXTENDS BitFields

\* Register offsets.
SRR    == 0
CONVST == 12
ARR    == 16
CFR0   == 768
CFR1   == 772
CFR2   == 776
SEQ(n) == IF n < 8 THEN 800 + 4 * n ELSE 792 + 4 * (n - 8)
ATR(n) == 832 + 4 * n
ATR_OT_UPPER == ATR(3)
SysMonRegs == {CONVST, ARR, CFR0, CFR1, CFR2}
                \cup { SEQ(n) : n \in 0 .. 9 }
                \cup { ATR(n) : n \in (0 .. 19) \cup (24 .. 27) }

\* Fields of the conversion start register and its value after a reset.
CONVST_START == {0}
TEMPUPDT     == {1}
WAITCYCLES   == 2 .. 17
WaitCyclesDefault == Up(Bits(1000), 2)

\* Fields of the configuration registers.
CFR0_CAL_AVG == {15}
CFR0_AVG     == 12 .. 13
CFR0_MUX     == {11}
CFR0_DU      == {10}
CFR0_EC      == {9}
CFR0_ACQ     == {8}
CFR0_CHANNEL == 0 .. 5
CFR1_SEQ     == 12 .. 15
CFR1_ALM_ALL == (8 .. 11) \cup (0 .. 3)
CFR1_CAL     == 4 .. 7
CFR2_CD      == 8 .. 15
CFR2_PD      == 4 .. 5

\* The channels each sequencer register has a bit for.
SEQ00_CH == {0} \cup 5 .. 14
SEQ02_CH == 5 .. 14
SEQ04_CH == {11}
SEQ06_CH == {11}
SEQ_AUX  == 0 .. 15
SEQ_VUSR == 0 .. 3

OT_ENB     == 0 .. 3
OT_ENB_VAL == {0, 1}
OT_VAL     == 4 .. 15

SAFE     == {}
SINGCHAN == {0, 1}

-----------------------------------------------------------------------------
Reset == <<W(SRR, {1, 3})>>

StartAdcConversion(mask) ==
  <<W(CONVST, mask \cup CONVST_START), W(CONVST, mask \ CONVST_START)>>

ResetAdc == <<W(ARR, {0}), W(ARR, {})>>

SetAvg(r, avg) == <<W(CFR0, Field(r[CFR0], CFR0_AVG, Up(avg, 12)))>>
GetAvg(r)      == Down(r[CFR0] \cap CFR0_AVG, 12)

\* The channels with inputs of their own: auxiliary ones, and VP/VN.
External(ch) == ch \in 16 .. 31 \/ ch = 3

GetSequencerMode(r) == Down(r[CFR1] \cap CFR1_SEQ, 12)

\* The invalid parameters are found before the write.  Of the register only
\* the averaging is kept.
SetSingleChParams(r, ch, acq, event, diff) ==
  IF GetSequencerMode(r) # SINGCHAN \/ ((acq \/ diff) /\ ~External(ch)) THEN <<>>
  ELSE <<W(CFR0, (r[CFR0] \cap CFR0_AVG) \cup If(acq, CFR0_ACQ) \cup If(diff, CFR0_DU)
                   \cup If(event, CFR0_EC) \cup (Bits(ch) \cap CFR0_CHANNEL))>>

\* In the register a bit that is 1 disables the alarm.
SetAlarmEnables(r, alm) == <<W(CFR1, Field(r[CFR1], CFR1_ALM_ALL, CFR1_ALM_ALL \ alm))>>
GetAlarmEnables(r)      == CFR1_ALM_ALL \ r[CFR1]

SetCalibEnables(r, cal) == <<W(CFR1, Field(r[CFR1], CFR1_CAL, cal \cap CFR1_CAL))>>
GetCalibEnables(r)      == r[CFR1] \cap CFR1_CAL

SetSequencerModeOver(r, mode) == <<W(CFR1, Up(mode, 12) \cap CFR1_SEQ)>>
SetSequencerMode(r, mode) == <<W(CFR1, Field(r[CFR1], CFR1_SEQ, Up(mode, 12) \cap CFR1_SEQ))>>

SetSequencerEvent(r, event) == <<W(CFR0, Field(r[CFR0], CFR0_EC, If(event, CFR0_EC)))>>

SetExtenalMux(r, ch) == <<W(CFR0, Field(r[CFR0], CFR0_CHANNEL, CFR0_MUX \cup Bits(ch)))>>

\* The whole register: the bits that power the device down become 0.
SetAdcClkDivisor(div) == <<W(CFR2, Up(div, 8))>>
GetAdcClkDivisor(r)   == Down(r[CFR2], 8)

\* The sequencer is set up in the safe mode only; chs is the set of channels,
\* 16 to 31 the auxiliary and 32 to 35 the user supplies.
WhenSafeAlways(r, writes) == writes
WhenSafe(r, writes) == IF GetSequencerMode(r) = SAFE THEN writes ELSE <<>>

SetSeqChEnables(r, chs) ==
  WhenSafe(r, <<W(SEQ(0), chs \cap SEQ00_CH), W(SEQ(1), Down(chs, 16) \cap SEQ_AUX),
                W(SEQ(8), Down(chs, 32) \cap SEQ_VUSR)>>)
GetSeqChEnables(r) ==
  (r[SEQ(0)] \cap SEQ00_CH) \cup Up(r[SEQ(1)] \cap SEQ_AUX, 16)
    \cup Up(r[SEQ(8)] \cap SEQ_VUSR, 32)

SetSeqAvgEnables(r, chs) ==
  WhenSafe(r, <<W(SEQ(2), chs \cap SEQ02_CH), W(SEQ(3), Down(chs, 16) \cap SEQ_AUX),
                W(SEQ(9), Down(chs, 32) \cap SEQ_VUSR)>>)
GetSeqAvgEnables(r) ==
  (r[SEQ(2)] \cap SEQ02_CH) \cup Up(r[SEQ(3)] \cap SEQ_AUX, 16)
    \cup Up(r[SEQ(9)] \cap SEQ_VUSR, 32)

SetSeqInputMode(r, chs) ==
  WhenSafe(r, <<W(SEQ(4), chs \cap SEQ04_CH), W(SEQ(5), Down(chs, 16) \cap SEQ_AUX)>>)
GetSeqInputMode(r) == (r[SEQ(4)] \cap SEQ04_CH) \cup Up(r[SEQ(5)] \cap SEQ_AUX, 16)

SetSeqAcqTime(r, chs) ==
  WhenSafe(r, <<W(SEQ(6), chs \cap SEQ06_CH), W(SEQ(7), Down(chs, 16) \cap SEQ_AUX)>>)
GetSeqAcqTime(r) == (r[SEQ(6)] \cap SEQ06_CH) \cup Up(r[SEQ(7)] \cap SEQ_AUX, 16)

SetAlarmThreshold(n, v) == <<W(ATR(n), v)>>
GetAlarmThreshold(r, n) == r[ATR(n)]

SetOverTemp(r, v) ==
  <<W(ATR_OT_UPPER, (r[ATR_OT_UPPER] \ OT_VAL) \cup (Up(v, 4) \cap 0 .. 15))>>
GetOverTemp(r) == Down(r[ATR_OT_UPPER], 4)

EnableUserOverTemp(r)  == <<W(ATR_OT_UPPER, Field(r[ATR_OT_UPPER], OT_ENB, OT_ENB_VAL))>>
DisableUserOverTemp(r) == <<W(ATR_OT_UPPER, r[ATR_OT_UPPER] \ OT_ENB)>>

\* The conversion start register is not read: mask is InstancePtr->Mask, which
\* holds what was last written to it, and takes over what these write.
EnableTempUpdate(mask)  == <<W(CONVST, mask \cup TEMPUPDT)>>
DisableTempUpdate(mask) == <<W(CONVST, mask \ TEMPUPDT)>>
SetTempWaitCyclesShifted(mask, v) == <<W(CONVST, Field(mask, WAITCYCLES, Up(v, 3)))>>
SetTempWaitCycles(mask, v) == <<W(CONVST, Field(mask, WAITCYCLES, Up(v, 2)))>>

\* The threshold that XSysMon_SelfTest leaves behind, 0x55.
SelfTest == Reset \o SetAlarmThreshold(1, Bits(85)) \o Reset

CfgInitializeWithoutReset == <<>>
CfgInitialize == Reset

-----------------------------------------------------------------------------
\* The fields of the conversion start register that outlast the call.
UpdateSettings(convst) ==
  [tempupdate |-> convst \cap TEMPUPDT, waitcycles |-> convst \cap WAITCYCLES]

\* The upper threshold of the temperature shares its register with the switch
\* of the shutdown.
Thresholds(r) ==
  UNION { {n} \X GetAlarmThreshold(r, n) : n \in ((0 .. 19) \cup (24 .. 27)) \ {3} }

\* What can be read back: the getters, and for the settings that have none the
\* fields themselves.
SysMonSettings(r) ==
  [avg |-> GetAvg(r), calavg |-> r[CFR0] \cap CFR0_CAL_AVG,
   mux |-> r[CFR0] \cap CFR0_MUX, diff |-> r[CFR0] \cap CFR0_DU,
   event |-> r[CFR0] \cap CFR0_EC, acq |-> r[CFR0] \cap CFR0_ACQ,
   channel |-> r[CFR0] \cap CFR0_CHANNEL,
   alarms |-> GetAlarmEnables(r), calib |-> GetCalibEnables(r), mode |-> GetSequencerMode(r),
   clkdiv |-> GetAdcClkDivisor(r), powerdown |-> r[CFR2] \cap CFR2_PD,
   seqch |-> GetSeqChEnables(r), seqavg |-> GetSeqAvgEnables(r),
   seqinput |-> GetSeqInputMode(r), seqacq |-> GetSeqAcqTime(r),
   thresholds |-> Thresholds(r), otvalue |-> GetOverTemp(r),
   otenable |-> r[ATR_OT_UPPER] \cap OT_ENB,
   tempupdate |-> r[CONVST] \cap TEMPUPDT, waitcycles |-> r[CONVST] \cap WAITCYCLES]
=============================================================================
