------------------------------- MODULE TmrCtr -------------------------------
(***************************************************************************)
(* The AXI timer/counter driver (src/xlnx_libs/tmrctr) and the device it   *)
(* drives.  A device has two timers; each has one control/status register, *)
(* TCSR, modelled as the set of its bits that are 1.                       *)
(*                                                                         *)
(* The driver reads and writes TCSR over the bus, one access at a time,    *)
(* while the device counts and while its interrupt may be taken.  A driver *)
(* call is therefore the sequence of its bus accesses and flag updates,    *)
(* kept in todo[c] for the context c that makes it: the main program, or   *)
(* the interrupt service routine, which preempts the main program between  *)
(* any two steps and runs to its end.  reg[c] is the local variable into   *)
(* which the function read TCSR (CounterControlReg, ControlStatusReg).     *)
(*                                                                         *)
(* Counter values are abstracted: a timer that counts expires at any       *)
(* moment.  TmrLoads adds the contents of the load registers.              *)
(***************************************************************************)
EXTENDS Naturals, Sequences

CONSTANTS
  Calls,          \* the driver functions the main program uses
  OptionSets,     \* the option words it passes to XTmrCtr_SetOptions
  CallbackOps,    \* what a registered callback may do to its timer
  Masked,         \* TRUE: the application masks the interrupt during a call
  StatsModulus    \* Stats.Interrupts counts modulo this number (2^32 in C)

Timers == {0, 1}                                \* XTC_DEVICE_TIMER_COUNT is 2
Ctx    == {"main", "isr"}

Bits == {"CASC", "ENALL", "PWM", "INT", "ENT", "ENIT", "LOAD", "ARHT",
         "EXTCAPT", "GEN", "DOWN", "CAPT"}

CallNames == {"Reinitialize", "InitHw", "Start", "Stop", "Reset", "SetOptions",
              "SelfTest", "SetHandler", "ClearStats", "PwmConfigure",
              "PwmEnable", "PwmDisable"}

\* The mask that each option of XTmrCtr_SetOptions stands for.
OptionsTable ==
  [CASCADE_MODE |-> {"CASC"},         ENABLE_ALL  |-> {"ENALL"},
   DOWN_COUNT   |-> {"DOWN"},         CAPTURE_MODE |-> {"CAPT", "EXTCAPT"},
   INT_MODE     |-> {"ENIT"},         AUTO_RELOAD |-> {"ARHT"},
   EXT_COMPARE  |-> {"GEN"}]

ASSUME CallsAssumption   == Calls \subseteq CallNames
ASSUME OptionsAssumption == OptionSets \subseteq SUBSET DOMAIN OptionsTable
ASSUME StatsAssumption   == StatsModulus \in Nat \ {0}
ASSUME CallbackAssumption == CallbackOps \subseteq {"Reset", "Start", "Stop"}
\* The driver leaves mutual exclusion to the layer above it (xtmrctr.h:84-88):
\* a callback that starts or stops its timer is only used by an application
\* that keeps the interrupt out of its own driver calls.
ASSUME ExclusionAssumption ==
  /\ Masked \in BOOLEAN
  /\ CallbackOps \cap {"Start", "Stop"} # {} => Masked

VARIABLES
  tcsr,        \* the two control/status registers
  held,        \* held[t]: t expired in hold mode and still holds
  ready,       \* IsReady
  started,     \* IsStartedTmrCtr0, IsStartedTmrCtr1
  pwmEnabled,  \* IsPwmEnabled
  handler,     \* Handler: the stub or a callback of the application
  interrupts,  \* Stats.Interrupts
  todo,        \* what the call in progress in each context still has to do
  reg          \* each context's copy of TCSR, empty outside of its calls

vars == <<tcsr, held, ready, started, pwmEnabled, handler, interrupts, todo, reg>>
driver == <<ready, started, pwmEnabled, handler, interrupts>>

-----------------------------------------------------------------------------
(* The steps a driver function is made of.  Where a definition is preceded *)
(* by one that is used nowhere, that one is the function with a mistake    *)
(* the properties must notice: a lost release, a flag set too late, ...    *)

Moves == {"read", "write", "store", "started", "stopped", "pwmOn", "pwmOff",
          "test", "ack"}
Step(m, t, set, clr) == [m |-> m, t |-> t, set |-> set, clr |-> clr]
Steps == [m : Moves, t : Timers, set : SUBSET Bits, clr : SUBSET Bits]

Read(t)            == Step("read", t, {}, {})       \* reg := TCSR
Write(t, set, clr) == Step("write", t, set, clr)    \* TCSR := reg | set & ~clr
Store(t, set)      == Step("store", t, set, {})     \* TCSR := set

Modify(t, set, clr) == << Read(t), Write(t, set, clr) >>

StartFlagLate(t) == << Read(t), Store(t, {"LOAD"}), Write(t, {"ENT"}, {}),
                       Step("started", t, {}, {}) >>
StartAfresh(t) == << Read(t), Store(t, {"LOAD"}), Step("started", t, {}, {}),
                     Store(t, {"ENT"}) >>
Start(t) == << Read(t), Store(t, {"LOAD"}), Step("started", t, {}, {}),
               Write(t, {"ENT"}, {}) >>

StopFlagEarly(t) ==
  << Step("stopped", t, {}, {}), Read(t), Write(t, {}, {"ENT"}) >>
Stop(t) == << Read(t), Write(t, {}, {"ENT"}), Step("stopped", t, {}, {}) >>

ResetNotReleased(t) == << Read(t), Write(t, {"LOAD"}, {}) >>
ResetOfTimer0Copy(t) == << Read(0), Write(t, {"LOAD"}, {}), Write(t, {}, {}) >>
ResetKeepsExpiry(t) ==
  << Read(t), Write(t, {"LOAD"}, {"INT"}), Write(t, {}, {"INT"}) >>
Reset(t) == << Read(t), Write(t, {"LOAD"}, {}), Write(t, {}, {}) >>

InitTimerHeld(t) == << Store(t, {"INT", "LOAD"}) >>
InitTimer(t) == << Store(t, {"INT", "LOAD"}), Store(t, {}) >>

SelfTest(t) == << Store(t, {"INT", "LOAD"}), Store(t, {"ENT"}),
                  Store(t, {"INT", "LOAD"}), Store(t, {}) >>

SetOptions(t, opts) == << Store(t, UNION { OptionsTable[o] : o \in opts }) >>

PwmModes(t) == Modify(t, {"DOWN", "ARHT"}, {"CASC", "GEN"})

\* The parameters are checked only after the timers were stopped and their
\* modes changed.
PwmConfigure(running, valid) ==
     (IF 0 \in running THEN Stop(0) ELSE << >>)
  \o (IF 1 \in running THEN Stop(1) ELSE << >>)
  \o PwmModes(0) \o PwmModes(1)
  \o (IF valid THEN Modify(0, {}, {"CAPT"}) \o Modify(1, {}, {"CAPT"})
               ELSE << >>)

PwmEnable ==
     Modify(0, {"PWM", "GEN"}, {}) \o Modify(1, {"PWM", "GEN"}, {})
  \o Reset(0) \o Reset(1)
  \o Modify(0, {"ENALL"}, {})
  \o << Step("pwmOn", 0, {}, {}) >>

PwmDisableAll == Stop(0) \o Stop(1) \o Reset(0) \o Reset(1)
  \o << Store(0, {}), Store(1, {}), Step("pwmOff", 0, {}, {}) >>
PwmDisable ==
     Stop(0) \o Stop(1) \o Reset(0) \o Reset(1)
  \o Modify(0, {}, {"PWM", "GEN"}) \o Modify(1, {}, {"PWM", "GEN"})
  \o << Step("pwmOff", 0, {}, {}) >>

\* XTmrCtr_InterruptHandler, for one timer: look, and if the timer caused the
\* interrupt call back, look again and acknowledge.
Service(t) == << Read(t), Step("test", t, {}, {}) >>

Callback(h, t) ==
  [stub |-> << >>, Reset |-> Reset(t), Start |-> Start(t), Stop |-> Stop(t)][h]

AcknowledgeAlone(t, copy) == << Store(t, {"INT"}) >>
AcknowledgeHeld(t, copy) == << Write(t, {"INT"}, {}) >>
\* A timer that holds after its expiry is first disabled and reloaded.
Acknowledge(t, copy) ==
  IF copy \cap {"ARHT", "CAPT"} = {}
  THEN << Write(t, {"LOAD"}, {"ENT"}), Write(t, {}, {"ENT"}),
          Write(t, {"INT"}, {"ENT"}) >>
  ELSE << Write(t, {"INT"}, {}) >>

-----------------------------------------------------------------------------
(* The device.                                                             *)

\* A timer that holds at its expiry does so until it is loaded, or is given a
\* mode in which timers do not hold.
StillHolds(t, v) == held[t] /\ v \cap {"LOAD", "ARHT", "CAPT"} = {}

\* The bits a bus write of v leaves in TCSR.  INT is cleared by writing 1, but
\* not while the timer holds: "the interrupt can only be cleared after reset
\* such that the interrupt condition is cleared" (xtmrctr.c:256-258).
AfterWrite(old, v, holds) ==
  (v \ {"INT"}) \cup (IF "INT" \in v /\ ~holds THEN {} ELSE old \cap {"INT"})

Enabled(t) == "ENT" \in tcsr[t] \/ \E u \in Timers : "ENALL" \in tcsr[u]
Counting(t) == Enabled(t) /\ "LOAD" \notin tcsr[t] /\ ~held[t]

BusWrite(t, v) ==
  /\ tcsr' = [tcsr EXCEPT ![t] = AfterWrite(@, v, StillHolds(t, v))]
  /\ held' = [held EXCEPT ![t] = StillHolds(t, v)]

\* The counter of a timer rolls over, or its capture input is asserted.
\* Without auto reload the counter then holds, in compare mode.
Expire(t) ==
  /\ Counting(t)
  /\ tcsr' = [tcsr EXCEPT ![t] = @ \cup {"INT"}]
  /\ held' = [held EXCEPT ![t] = tcsr[t] \cap {"ARHT", "CAPT"} = {}]
  /\ UNCHANGED <<driver, todo, reg>>

-----------------------------------------------------------------------------
(* The main program calls the driver.                                      *)

Idle(c) == todo[c] = << >>

Begin(steps) ==
  /\ Idle("main") /\ Idle("isr")
  /\ todo' = [todo EXCEPT !["main"] = steps]
  /\ UNCHANGED <<tcsr, held, reg>>

\* Every function but XTmrCtr_Initialize asserts, or relies on, IsReady.
Call(name, steps) == name \in Calls /\ ready /\ Begin(steps)

Stopped == { t \in Timers : ~started[t] }

InitHwSteps == (IF 0 \in Stopped THEN InitTimer(0) ELSE << >>)
            \o (IF 1 \in Stopped THEN InitTimer(1) ELSE << >>)

\* Neither the IsStarted flags nor IsPwmEnabled are touched.
CfgInitialize ==
  /\ ready' = TRUE
  /\ handler' = "stub"
  /\ interrupts' = 0
  /\ UNCHANGED <<started, pwmEnabled>>

CallInitialize ==
  /\ ready => "Reinitialize" \in Calls
  /\ \/ Stopped # {} /\ CfgInitialize /\ Begin(InitHwSteps)
     \/ /\ Begin(<< >>)                  \* all are started, or no such device
        /\ UNCHANGED driver

CallInitHw == Call("InitHw", InitHwSteps) /\ UNCHANGED driver

\* The functions that work on one timer leave the driver's own fields to the
\* steps they queue.  These three keep the timer's modes, the other two do not.
CallInPlace(t) ==
  /\ \/ Call("Start", Start(t))
     \/ Call("Stop", Stop(t))
     \/ Call("Reset", Reset(t))
  /\ UNCHANGED driver

CallSelfTest(t) == Call("SelfTest", SelfTest(t)) /\ UNCHANGED driver

CallSetOptions(t) ==
  /\ \E opts \in OptionSets : Call("SetOptions", SetOptions(t, opts))
  /\ UNCHANGED driver

CallOnTimer(t) == CallInPlace(t) \/ CallSelfTest(t) \/ CallSetOptions(t)

CallPwmConfigure(valid) ==
  Call("PwmConfigure", PwmConfigure(Timers \ Stopped, valid)) /\ UNCHANGED driver

CallPwmSwitch ==
  /\ \/ Call("PwmEnable", IF pwmEnabled THEN << >> ELSE PwmEnable)
     \/ Call("PwmDisable", IF pwmEnabled THEN PwmDisable ELSE << >>)
  /\ UNCHANGED driver

CallPwm == CallPwmSwitch \/ \E valid \in BOOLEAN : CallPwmConfigure(valid)

CallSetHandler ==
  /\ Call("SetHandler", << >>)
  /\ \E h \in CallbackOps : handler' = h
  /\ UNCHANGED <<ready, started, pwmEnabled, interrupts>>

CallClearStats ==
  /\ Call("ClearStats", << >>)
  /\ interrupts' = 0
  /\ UNCHANGED <<ready, started, pwmEnabled, handler>>

-----------------------------------------------------------------------------
(* A context takes the next step of its call.  The interrupt service       *)
(* routine preempts the main program.                                      *)

AtHead(c, m) ==
  /\ ~Idle(c)
  /\ Head(todo[c]).m = m
  /\ c = "main" => Idle("isr")

\* With its last step a function returns, and its local copy is gone.
Pop(c) ==
  /\ todo' = [todo EXCEPT ![c] = Tail(@)]
  /\ reg' = IF Len(todo[c]) = 1 THEN [reg EXCEPT ![c] = {}] ELSE reg

DoRead(c) ==
  /\ AtHead(c, "read")
  /\ reg' = [reg EXCEPT ![c] = tcsr[Head(todo[c]).t]]
  /\ todo' = [todo EXCEPT ![c] = Tail(@)]
  /\ UNCHANGED <<tcsr, held, driver>>

DoWrite(c) ==
  LET s == Head(todo[c]) IN
  /\ AtHead(c, "write")
  /\ BusWrite(s.t, (reg[c] \cup s.set) \ s.clr)
  /\ Pop(c)
  /\ UNCHANGED driver

DoStore(c) ==
  /\ AtHead(c, "store")
  /\ BusWrite(Head(todo[c]).t, Head(todo[c]).set)
  /\ Pop(c)
  /\ UNCHANGED driver

DoStarted(c) ==
  /\ \/ AtHead(c, "started") /\ started' = [started EXCEPT ![Head(todo[c]).t] = TRUE]
     \/ AtHead(c, "stopped") /\ started' = [started EXCEPT ![Head(todo[c]).t] = FALSE]
  /\ Pop(c)
  /\ UNCHANGED <<tcsr, held, ready, pwmEnabled, handler, interrupts>>

DoPwm(c) ==
  /\ \/ AtHead(c, "pwmOn") /\ pwmEnabled' = TRUE
     \/ AtHead(c, "pwmOff") /\ pwmEnabled' = FALSE
  /\ Pop(c)
  /\ UNCHANGED <<tcsr, held, ready, started, handler, interrupts>>

\* The interrupt line is the OR of the timers' enabled and pending interrupts.
TakeInterrupt ==
  /\ ready
  /\ Idle("isr")
  /\ Masked => Idle("main")
  /\ \E t \in Timers : {"ENIT", "INT"} \subseteq tcsr[t]
  /\ todo' = [todo EXCEPT !["isr"] = Service(0) \o Service(1)]
  /\ UNCHANGED <<tcsr, held, driver, reg>>

\* Stats.Interrupts++, of a 32 bit counter.
CountedWide(n) == n + 1
Counted(n) == (n + 1) % StatsModulus

DoTest ==
  LET t == Head(todo["isr"]).t
      caused == {"ENIT", "INT"} \subseteq reg["isr"] IN
  /\ AtHead("isr", "test")
  /\ IF caused
     THEN /\ interrupts' = Counted(interrupts)
          /\ todo' = [todo EXCEPT !["isr"] =
                        Callback(handler, t)
                        \o << Read(t), Step("ack", t, {}, {}) >> \o Tail(@)]
          /\ UNCHANGED reg
     ELSE Pop("isr") /\ UNCHANGED interrupts
  /\ UNCHANGED <<tcsr, held, ready, started, pwmEnabled, handler>>

DoAck ==
  /\ AtHead("isr", "ack")
  /\ todo' = [todo EXCEPT !["isr"] =
                Acknowledge(Head(@).t, reg["isr"]) \o Tail(@)]
  /\ UNCHANGED <<tcsr, held, driver, reg>>

-----------------------------------------------------------------------------
\* What the driver's variables hold when the program is loaded.
Loaded(rdy, st, pwm, h, n, td, rg) ==
  /\ rdy = FALSE
  /\ st = [t \in Timers |-> FALSE]
  /\ pwm = FALSE
  /\ h = "stub"
  /\ n = 0
  /\ td = [c \in Ctx |-> << >>]
  /\ rg = [c \in Ctx |-> {}]

Init ==
  /\ tcsr = [t \in Timers |-> {}]
  /\ held = [t \in Timers |-> FALSE]
  /\ Loaded(ready, started, pwmEnabled, handler, interrupts, todo, reg)

\* The program ends or dies, at any moment, and is run again.  Nothing stops
\* the timers: the device keeps the state it was left in.
Restart ==
  /\ ready
  /\ Loaded(ready', started', pwmEnabled', handler', interrupts', todo', reg')
  /\ UNCHANGED <<tcsr, held>>

Exec(c) == DoRead(c) \/ DoWrite(c) \/ DoStore(c) \/ DoStarted(c) \/ DoPwm(c)
Isr == DoTest \/ DoAck

Next ==
  \/ CallInitialize \/ CallInitHw \/ CallPwm \/ CallSetHandler \/ CallClearStats
  \/ \E t \in Timers : CallOnTimer(t) \/ Expire(t)
  \/ \E c \in Ctx : Exec(c)
  \/ TakeInterrupt \/ Isr
  \/ Restart

Spec == Init /\ [][Next]_vars

\* A call in progress goes on, and an interrupt that keeps being requested is
\* taken in the end: the line stays asserted until the interrupt is served.
Fairness == /\ \A c \in Ctx : WF_vars(Exec(c))
            /\ WF_vars(Isr)
            /\ SF_vars(TakeInterrupt)
FairSpec == Spec /\ Fairness

-----------------------------------------------------------------------------
(* Properties.                                                             *)

TypeOK ==
  /\ tcsr \in [Timers -> SUBSET Bits]
  /\ held \in [Timers -> BOOLEAN]
  /\ ready \in BOOLEAN
  /\ started \in [Timers -> BOOLEAN]
  /\ pwmEnabled \in BOOLEAN
  /\ handler \in {"stub"} \cup CallbackOps
  /\ interrupts \in 0 .. StatsModulus - 1
  /\ todo \in [Ctx -> Seq(Steps)]
  /\ reg \in [Ctx -> SUBSET Bits]

\* The reset of a timer is always released again: when no call is in progress
\* LOAD is 0, else the counter would stand still for good (xtmrctr_intr.c:
\* "the reset bit must be manually cleared by a 2nd write").  The release is
\* a separate bus write, with the interrupt handler's own writes possible
\* before it.
LoadReleased ==
  ready /\ Idle("main") /\ Idle("isr") => \A t \in Timers : "LOAD" \notin tcsr[t]

\* A call in progress will still clear t with XTmrCtr_InitHw's or
\* XTmrCtr_SelfTest's unconditional last write.
Pending(q, t) == \E i \in 1 .. Len(q) : q[i] = Store(t, {})
ClearPending(t) == Pending(todo["main"], t)

\* No timer runs behind the driver's back: a timer whose own enable bit is set
\* has its IsStarted flag set too ("Indicate that the timer is started before
\* enabling it", XTmrCtr_Start), or is about to be cleared.  Stale copies of
\* TCSR, a restart of the program and callbacks could all break it.
EnabledIsStarted ==
  ready => \A t \in Timers :
    "ENT" \in tcsr[t] => started[t] \/ ClearPending(t)

\* With the interrupt kept out of the calls, a timer that is off is switched
\* on by XTmrCtr_Start (or for the time of XTmrCtr_SelfTest) and by nothing
\* else: no read-modify-write of another function revives it.
OnlyStartEnables ==
  [][\A t \in Timers :
       "ENT" \in tcsr[t]' /\ "ENT" \notin tcsr[t] =>
         \E c \in Ctx : ~Idle(c) /\ "ENT" \in Head(todo[c]).set]_vars

\* The handler acknowledges "without changing any of the other bits": from
\* entry to exit it leaves every mode bit of both timers as it found it.
Modes(bits) == bits \ {"ENT", "INT", "LOAD"}
HandlerKeepsModes ==
  [][~Idle("isr") /\ handler # "Start" =>
       \A t \in Timers : Modes(tcsr[t]') = Modes(tcsr[t])]_vars

\* "PWM output can again be enabled by calling XTmrCtr_PwmEnable without the
\* need of re-configuration": from the first step of XTmrCtr_PwmDisable to the
\* last the count direction and the reload mode of both timers stay.
PwmDisableKeepsConfiguration ==
  [][~Idle("main") /\ todo["main"][Len(todo["main"])].m = "pwmOff" /\ ready' =>
       \A t \in Timers : tcsr[t]' \cap {"DOWN", "ARHT", "CAPT", "CASC"}
                       = tcsr[t] \cap {"DOWN", "ARHT", "CAPT", "CASC"}]_vars

\* An interrupt that is requested is acknowledged in the end (or masked).
InterruptServed ==
  \A t \in Timers :
    ready /\ {"ENIT", "INT"} \subseteq tcsr[t]
      ~> ~(ready /\ {"ENIT", "INT"} \subseteq tcsr[t])

-----------------------------------------------------------------------------
(* What comments say of the driver and the code does not do.               *)

\* XTmrCtr_PwmConfigure: "Stop the timers if they are running"
\* (xtmrctr.c:534), so it changes the mode of a timer that is not running.
PwmConfigureStops ==
  \A t \in Timers :
    ~Idle("main") /\ Head(todo["main"]) = Write(t, {"DOWN", "ARHT"}, {"CASC", "GEN"})
      => ~Enabled(t)

\* XTmrCtr_Start resets the timer so that "the interrupt is cleared
\* simultaneously" (xtmrctr.c:256): no expiry of before the start is left when
\* the timer is enabled.
StartClearsInterrupt ==
  [][\A t \in Timers :
       /\ ~Idle("main")
       /\ todo["main"] = << Write(t, {"ENT"}, {}) >>
       /\ ready' /\ Idle("main")'
       => "INT" \notin tcsr[t]']_vars

\* XTmrCtr_PwmDisable: "Disable timers" (xtmrctr.c:670).
PwmDisableStops ==
  [][pwmEnabled /\ ~pwmEnabled' /\ ready' => \A t \in Timers : ~Enabled(t)']_vars
=============================================================================
