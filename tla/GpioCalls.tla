------------------------------ MODULE GpioCalls ------------------------------
(***************************************************************************)
(* The general purpose outputs (src/xlnx_libs/gpio): what each function    *)
(* writes.  A channel has a data and a direction register, in which a bit  *)
(* that is 1 is an input.  A read of the data register gives the pins      *)
(* where they are inputs, and the output's latch elsewhere.                *)
(*                                                                         *)
(* Where there are two operators, the first is the code with a mistake.    *)
(***************************************************************************)
EXTENDS BitFields

DataAlike(ch) == 0
Data(ch) == (ch - 1) * 8 + 0
Tri(ch)  == (ch - 1) * 8 + 4
GpioRegs == { Data(ch) : ch \in {1, 2} } \cup { Tri(ch) : ch \in {1, 2} }

\* XGpio_DiscreteRead
DiscreteRead(r, pins, ch) == (r[Data(ch)] \ r[Tri(ch)]) \cup (pins \cap r[Tri(ch)])

SetDataDirection(ch, mask) == <<W(Tri(ch), mask)>>
GetDataDirection(r, ch)    == r[Tri(ch)]

DiscreteWrite(ch, v) == <<W(Data(ch), v)>>
DiscreteSet(r, pins, ch, mask)   == <<W(Data(ch), DiscreteRead(r, pins, ch) \cup mask)>>
DiscreteClear(r, pins, ch, mask) == <<W(Data(ch), DiscreteRead(r, pins, ch) \ mask)>>

\* What the outputs show, and which pins they are, for each channel.
Outs == <<"out1", "out2">>
Dirs == <<"dir1", "dir2">>
Outputs(r, ch) == r[Data(ch)] \ r[Tri(ch)]
GpioSettings(r) ==
  [out1 |-> Outputs(r, 1), out2 |-> Outputs(r, 2),
   dir1 |-> GetDataDirection(r, 1), dir2 |-> GetDataDirection(r, 2)]
=============================================================================
