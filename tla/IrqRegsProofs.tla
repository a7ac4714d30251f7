---------------------------- MODULE IrqRegsProofs ----------------------------
(***************************************************************************)
(* For any number of interrupt sources: no write to a toggling status      *)
(* register drops or invents an event, and no event is lost.               *)
(*                                                                         *)
(* Both rest on Known: whatever the application or the handler is about to *)
(* write to the status register is still pending, as each is alone in      *)
(* clearing it.                                                            *)
(***************************************************************************)
EXTENDS IrqRegs, TLAPS

\* The application and the handler do not both touch the status register.
OneClearer ==
  /\ polled => hpc = "off"
  /\ ~polled => op # "clear" /\ told = {} /\ taken = {}
  /\ dev = "tpg" => op # "clear"

\* What is about to be written to the status register is pending.
Known ==
  /\ told \subseteq isr
  /\ op = "clear" => held \cap arg \subseteq isr /\ told = {}
  /\ dev # "tpg" => told = {}
  /\ hpc = "look" => \A s \in status : s >= at => s \in isr
  /\ hpc = "call" => \A s \in status : s > at => s \in isr

\* The handler serves with callbacks only.
Awaited == ~polled => owed \subseteq callbacks

IInv == TypeOK /\ OneClearer /\ Known /\ Awaited /\ PendingExact /\ NoEventLost

-----------------------------------------------------------------------------
\* A write of pending bits clears them, and no other.
LEMMA ToggledClears ==
  ASSUME NEW bits, NEW w, w \subseteq bits
  PROVE  Toggled(bits, w) = bits \ w
BY DEF Toggled

LEMMA InitInv == Init => IInv
<1> SUFFICES ASSUME Init PROVE IInv
  OBVIOUS
<1>1. TypeOK
  <2>1. polled \in BOOLEAN /\ gie \in BOOLEAN
    BY DEF Init
  <2>2. 1 \in 1 .. NumSources + 1
    BY NumSourcesAssumption
  <2> QED
    BY <2>1, <2>2 DEF Init, TypeOK
<1>2. OneClearer /\ Known /\ Awaited
  BY DEF Init, OneClearer, Known, Awaited
<1>3. PendingExact /\ NoEventLost
  BY DEF Init, PendingExact, NoEventLost, Taken
<1> QED
  BY <1>1, <1>2, <1>3 DEF IInv

\* The steps of the application.
LEMMA AppInv == IInv /\ App => IInv'
<1> SUFFICES ASSUME IInv, App PROVE IInv'
  OBVIOUS
<1> USE DEF IInv, app, handler
<1>1. CASE InterruptGlobalEnable \/ InterruptGlobalDisable
  <2>1. TypeOK'
    BY <1>1 DEF InterruptGlobalEnable, InterruptGlobalDisable, TypeOK
  <2>2. OneClearer' /\ Known' /\ Awaited' /\ PendingExact' /\ NoEventLost'
    BY <1>1 DEF InterruptGlobalEnable, InterruptGlobalDisable, OneClearer, Known, Awaited,
                PendingExact, NoEventLost, Taken
  <2> QED
    BY <2>1, <2>2
<1>2. ASSUME NEW mask \in SUBSET Sources, InterruptEnable(mask) \/ InterruptDisable(mask)
      PROVE  IInv'
  BY <1>2 DEF InterruptEnable, InterruptDisable, TypeOK, OneClearer, Known, Awaited,
              PendingExact,
              NoEventLost, Taken
<1>3. ASSUME NEW mask \in SUBSET Sources, InterruptClear(mask)
      PROVE  IInv'
  BY <1>3 DEF InterruptClear, TypeOK, OneClearer, Known, Awaited, PendingExact,
              NoEventLost, Taken
<1>4. ASSUME NEW mask \in SUBSET Sources, TpgInterruptClear(mask)
      PROVE  IInv'
  <2>1. isr' = isr \ mask /\ happened' = happened \ mask
    BY <1>4, ToggledClears DEF TpgInterruptClear, WriteStatus, Known
  <2>2. hpc = "off"
    BY <1>4 DEF TpgInterruptClear, Running
  <2> QED
    BY <1>4, <2>1, <2>2 DEF TpgInterruptClear, Running, TypeOK, OneClearer, Known,
                            Awaited, PendingExact, NoEventLost, Taken
<1>5. CASE WriteEnable \/ WriteDisable
  BY <1>5 DEF WriteEnable, WriteDisable, TypeOK, OneClearer, Known, Awaited, PendingExact,
              NoEventLost, Taken
<1>6. CASE WriteClear
  <2>1. isr' = isr \ (held \cap arg) /\ happened' = happened \ (held \cap arg)
    BY <1>6, ToggledClears DEF WriteClear, WriteStatus, Written, Known
  <2> QED
    BY <1>6, <2>1 DEF WriteClear, TypeOK, OneClearer, Known, Awaited, PendingExact,
                      NoEventLost, Taken
<1>7. CASE InterruptGetStatus
  BY <1>7 DEF InterruptGetStatus, Running, TypeOK, OneClearer, Known, Awaited, PendingExact,
              NoEventLost, Taken
<1>8. CASE Serve
  BY <1>8 DEF Serve, Running, TypeOK, OneClearer, Known, Awaited, PendingExact,
              NoEventLost, Taken
<1>9. ASSUME NEW s \in Sources, SetCallback(s)
      PROVE  IInv'
  BY <1>9 DEF SetCallback, TypeOK, OneClearer, Known, Awaited, PendingExact, NoEventLost,
              Taken
<1> QED
  BY <1>1, <1>2, <1>3, <1>4, <1>5, <1>6, <1>7, <1>8, <1>9 DEF App

\* The steps of the handler.
LEMMA HandlerInv == IInv /\ Handler => IInv'
<1> SUFFICES ASSUME IInv, Handler PROVE IInv'
  OBVIOUS
<1> USE NumSourcesAssumption DEF IInv, app, handler
<1>1. CASE EnterHandler
  BY <1>1 DEF EnterHandler, TypeOK, OneClearer, Known, Awaited, PendingExact, NoEventLost,
              Taken
<1>2. CASE ReadStatus
  BY <1>2 DEF ReadStatus, TypeOK, OneClearer, Known, Awaited, PendingExact, NoEventLost,
              Taken, Sources
<1>3. CASE Take
  <2>1. isr' = isr \ {at} /\ happened' = happened \ {at}
    BY <1>3, ToggledClears DEF Take, WriteStatus, Known, TypeOK, Sources
  <2> QED
    BY <1>3, <2>1 DEF Take, TypeOK, OneClearer, Known, Awaited, PendingExact, NoEventLost,
                      Taken, Sources
<1>4. CASE Skip
  <2>1. hpc' = "look" => at' \in Sources
    BY <1>4 DEF Skip, Ahead, TypeOK, Sources
  <2> QED
    BY <1>4, <2>1 DEF Skip, Ahead, TypeOK, OneClearer, Known, Awaited, PendingExact,
                      NoEventLost,
                      Taken, Sources
<1>5. CASE CallBack
  <2>1. hpc' = "look" => at' \in Sources
    BY <1>5 DEF CallBack, Ahead, TypeOK, Sources
  <2> QED
    BY <1>5, <2>1 DEF CallBack, Ahead, TypeOK, OneClearer, Known, Awaited, PendingExact,
                      NoEventLost,
                      Taken, Sources
<1> QED
  BY <1>1, <1>2, <1>3, <1>4, <1>5 DEF Handler

LEMMA EventInv == ASSUME NEW s \in Sources PROVE IInv /\ Event(s) => IInv'
BY DEF IInv, Event, app, handler, TypeOK, OneClearer, Known, Awaited, PendingExact,
       NoEventLost, Taken

LEMMA StutterInv == IInv /\ UNCHANGED vars => IInv'
BY DEF IInv, vars, app, handler, TypeOK, OneClearer, Known, Awaited, PendingExact,
       NoEventLost, Taken

-----------------------------------------------------------------------------
\* The inductive invariant holds in every reachable state.
THEOREM Inductive == Spec => []IInv
<1>1. IInv /\ [Next]_vars => IInv'
  BY AppInv, HandlerInv, EventInv, StutterInv DEF Next
<1> QED
  BY InitInv, <1>1, PTL DEF Spec

\* The types of the registers, the calls and the handler.
THEOREM Typing == Spec => []TypeOK
BY Inductive, PTL DEF IInv

\* The status register holds exactly the sources that had an event since they
\* were cleared: xgpio_intr.c:191-207 and its like in the other drivers.
THEOREM NothingDroppedNorInvented == Spec => []PendingExact
BY Inductive, PTL DEF IInv

\* Every event is pending, or about to be served, until it is served:
\* XVTpg_InterruptHandler, and a polling application that clears what it serves.
THEOREM EveryEventKept == Spec => []NoEventLost
BY Inductive, PTL DEF IInv
=============================================================================
