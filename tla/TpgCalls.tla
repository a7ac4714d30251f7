------------------------------- MODULE TpgCalls -------------------------------
(***************************************************************************)
(* The settings of the test pattern generator (src/xlnx_libs/v_tpg): the   *)
(* registers behind them and what each setter writes, given the registers  *)
(* r it reads.                                                             *)
(*                                                                         *)
(* Most setters write their argument to a register of their own, and the   *)
(* getter returns that register: of these only the register is said.       *)
(* Where there are two operators, the first is the code with a mistake.    *)
(***************************************************************************)
EXTENDS BitFields

\* XV_TPG_CTRL_ADDR_..._DATA
ADDR ==
  [HEIGHT |-> 16, WIDTH |-> 24, BCKGNDID |-> 32, OVRLAYID |-> 40, MASKID |-> 48,
   MOTIONSPEED |-> 56, COLORFORMAT |-> 64, CROSSHAIRX |-> 72, CROSSHAIRY |-> 80,
   ZPLATEHORCONTSTART |-> 88, ZPLATEHORCONTDELTA |-> 96,
   ZPLATEVERCONTSTART |-> 104, ZPLATEVERCONTDELTA |-> 112,
   BOXSIZE |-> 120, BOXCOLORR |-> 128, BOXCOLORG |-> 136, BOXCOLORB |-> 144,
   ENABLEINPUT |-> 152, PASSTHRUSTARTX |-> 160, PASSTHRUSTARTY |-> 168,
   PASSTHRUENDX |-> 176, PASSTHRUENDY |-> 184, DPDYNAMICRANGE |-> 192,
   DPYUVCOEF |-> 200, FIELDID |-> 208, BCK_MOTION_EN |-> 216]
TpgRegs == { ADDR[name] : name \in DOMAIN ADDR }

\* XV_TPG_CTRL_BITS_..._DATA: the narrow registers have 8 bits, the others 16.
NARROW == {ADDR.BCKGNDID, ADDR.OVRLAYID, ADDR.MASKID, ADDR.MOTIONSPEED, ADDR.COLORFORMAT,
           ADDR.ENABLEINPUT, ADDR.DPDYNAMICRANGE, ADDR.DPYUVCOEF}
BITS(r) == IF r \in NARROW THEN 8 ELSE 16

INTERLACED == {0}
POLARITY   == {1}
PASSTHR    == {2}
MOTION_EN  == {0}
COLOR_BARS == {0, 3}

-----------------------------------------------------------------------------
\* The setters and getters that are no more than their register, in the order
\* of the source.
Frame == [height |-> ADDR.HEIGHT, width |-> ADDR.WIDTH, bckgndId |-> ADDR.BCKGNDID]

Overlay ==
  [ovrlayId |-> ADDR.OVRLAYID, maskId |-> ADDR.MASKID,
   motionSpeed |-> ADDR.MOTIONSPEED, colorFormat |-> ADDR.COLORFORMAT]

CrossHair == [crossHairX |-> ADDR.CROSSHAIRX, crossHairY |-> ADDR.CROSSHAIRY]

ZonePlate ==
  [ZplateHorContStart |-> ADDR.ZPLATEHORCONTSTART,
   ZplateHorContDelta |-> ADDR.ZPLATEHORCONTDELTA,
   ZplateVerContStart |-> ADDR.ZPLATEVERCONTSTART,
   ZplateVerContDelta |-> ADDR.ZPLATEVERCONTDELTA]

Box ==
  [boxSize |-> ADDR.BOXSIZE, boxColorR |-> ADDR.BOXCOLORR,
   boxColorG |-> ADDR.BOXCOLORG, boxColorB |-> ADDR.BOXCOLORB]

PassthruWindow ==
  [passthruStartX |-> ADDR.PASSTHRUSTARTX, passthruStartY |-> ADDR.PASSTHRUSTARTY,
   passthruEndX |-> ADDR.PASSTHRUENDX, passthruEndY |-> ADDR.PASSTHRUENDY]

DisplayPort == [dpDynamicRange |-> ADDR.DPDYNAMICRANGE, dpYUVCoef |-> ADDR.DPYUVCOEF]

Plain == Frame ++ Overlay ++ CrossHair ++ ZonePlate ++ Box ++ PassthruWindow ++ DisplayPort

Set(name, v) == <<W(Plain[name], v)>>
Get(r, name) == r[Plain[name]]

\* Nothing is written unless the pattern is the colour bars.
Set_motionEn(r, v) == IF Get(r, "bckgndId") = COLOR_BARS THEN <<W(ADDR.BCK_MOTION_EN, v)>> ELSE <<>>
Get_motionEnStatus(r) == r[ADDR.BCK_MOTION_EN] \cap MOTION_EN

\* The video input: its bit among those of the field identifier first.
Set_enableInputClearing(r, v) ==
  <<W(ADDR.FIELDID, If(v # {}, PASSTHR)), W(ADDR.ENABLEINPUT, v)>>
Set_enableInput(r, v) ==
  <<W(ADDR.FIELDID, Field(r[ADDR.FIELDID], PASSTHR, If(v # {}, PASSTHR))),
    W(ADDR.ENABLEINPUT, v)>>
Get_enableInput(r) == r[ADDR.ENABLEINPUT]

Set_Interlaced(r, b) == <<W(ADDR.FIELDID, Field(r[ADDR.FIELDID], INTERLACED, If(b, INTERLACED)))>>
Set_Polarity(r, b)   == <<W(ADDR.FIELDID, Field(r[ADDR.FIELDID], POLARITY, If(b, POLARITY)))>>
Get_fieldId(r)       == r[ADDR.FIELDID]

\* What can be read back.
TpgSettings(r) ==
  [name \in DOMAIN Plain |-> Get(r, name)]
    ++ [motionEn |-> Get_motionEnStatus(r), enableInput |-> Get_enableInput(r),
        passthrough |-> Get_fieldId(r) \cap PASSTHR,
        interlaced |-> Get_fieldId(r) \cap INTERLACED,
        polarity |-> Get_fieldId(r) \cap POLARITY]
=============================================================================
