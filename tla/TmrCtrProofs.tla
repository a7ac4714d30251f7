--------------------------- MODULE TmrCtrProofs ---------------------------
(***************************************************************************)
(* Theorems about the timer/counter driver, for every set of functions,    *)
(* options and callbacks the application uses: the types; LoadReleased,    *)
(* EnabledIsStarted and OnlyStartEnables from the inductive invariant IInv *)
(* of TmrCtrInv; HandlerKeepsModes from CopyInv, which is inductive beside *)
(* the types.                                                              *)
(***************************************************************************)
EXTENDS TmrCtrInv, SequenceTheorems, TLAPS

(***************************************************************************)
(* Every driver function is a sequence of well formed steps.               *)
(***************************************************************************)
LEMMA StepTypes ==
  \A t \in Timers :
    /\ Read(t) \in Steps
    /\ \A set \in SUBSET Bits, clr \in SUBSET Bits : Write(t, set, clr) \in Steps
    /\ \A set \in SUBSET Bits : Store(t, set) \in Steps
    /\ \A m \in Moves : Step(m, t, {}, {}) \in Steps
  BY DEF Read, Write, Store, Step, Steps, Moves

LEMMA ScriptTypes ==
  ASSUME NEW t \in Timers
  PROVE  /\ Start(t) \in Seq(Steps)
         /\ Stop(t) \in Seq(Steps)
         /\ Reset(t) \in Seq(Steps)
         /\ InitTimer(t) \in Seq(Steps)
         /\ SelfTest(t) \in Seq(Steps)
         /\ Service(t) \in Seq(Steps)
         /\ PwmModes(t) \in Seq(Steps)
         /\ \A set \in SUBSET Bits, clr \in SUBSET Bits :
              Modify(t, set, clr) \in Seq(Steps)
<1>1. {"LOAD"} \in SUBSET Bits /\ {"ENT"} \in SUBSET Bits /\ {} \in SUBSET Bits
      /\ {"INT", "LOAD"} \in SUBSET Bits
      /\ {"DOWN", "ARHT"} \in SUBSET Bits /\ {"CASC", "GEN"} \in SUBSET Bits
  BY DEF Bits
<1>2. {"started", "stopped", "test"} \subseteq Moves
  BY DEF Moves
<1>3. \A set \in SUBSET Bits, clr \in SUBSET Bits :
              Modify(t, set, clr) \in Seq(Steps)
  BY StepTypes DEF Modify
<1>4. Start(t) \in Seq(Steps)
  BY <1>1, <1>2, StepTypes DEF Start
<1>5. Stop(t) \in Seq(Steps)
  BY <1>1, <1>2, StepTypes DEF Stop
<1>6. Reset(t) \in Seq(Steps)
  BY <1>1, StepTypes DEF Reset
<1>7. InitTimer(t) \in Seq(Steps) /\ SelfTest(t) \in Seq(Steps)
  BY <1>1, StepTypes DEF InitTimer, SelfTest
<1>8. Service(t) \in Seq(Steps)
  BY <1>1, <1>2, StepTypes DEF Service
<1>9. PwmModes(t) \in Seq(Steps)
  BY <1>1, <1>3 DEF PwmModes
<1> QED
  BY <1>3, <1>4, <1>5, <1>6, <1>7, <1>8, <1>9

LEMMA LongScriptTypes ==
  /\ \A running, valid : PwmConfigure(running, valid) \in Seq(Steps)
  /\ PwmEnable \in Seq(Steps)
  /\ PwmDisable \in Seq(Steps)
  /\ InitHwSteps \in Seq(Steps)
<1>1. 0 \in Timers /\ 1 \in Timers
  BY DEF Timers
<1>2. \A t \in Timers :
        /\ Stop(t) \in Seq(Steps) /\ Reset(t) \in Seq(Steps)
        /\ InitTimer(t) \in Seq(Steps) /\ PwmModes(t) \in Seq(Steps)
        /\ Modify(t, {}, {"CAPT"}) \in Seq(Steps)
        /\ Modify(t, {"PWM", "GEN"}, {}) \in Seq(Steps)
        /\ Modify(t, {"ENALL"}, {}) \in Seq(Steps)
        /\ Modify(t, {}, {"PWM", "GEN"}) \in Seq(Steps)
  <2>1. /\ {"CAPT"} \in SUBSET Bits /\ {"PWM", "GEN"} \in SUBSET Bits
        /\ {"ENALL"} \in SUBSET Bits /\ {} \in SUBSET Bits
    BY DEF Bits
  <2> QED
    BY <2>1, ScriptTypes
<1>3. << >> \in Seq(Steps)
  OBVIOUS
<1>4. \A a, b \in Seq(Steps) : a \o b \in Seq(Steps)
  OBVIOUS
<1>5. \A m \in Moves : << Step(m, 0, {}, {}) >> \in Seq(Steps)
  BY <1>1, StepTypes
<1>6. {"pwmOn", "pwmOff"} \subseteq Moves
  BY DEF Moves
<1>7. ASSUME NEW running, NEW valid
      PROVE  PwmConfigure(running, valid) \in Seq(Steps)
  BY <1>1, <1>2, <1>3, <1>4 DEF PwmConfigure
<1>8. PwmEnable \in Seq(Steps)
  BY <1>1, <1>2, <1>4, <1>5, <1>6 DEF PwmEnable
<1>9. PwmDisable \in Seq(Steps)
  BY <1>1, <1>2, <1>4, <1>5, <1>6 DEF PwmDisable
<1>10. InitHwSteps \in Seq(Steps)
  BY <1>1, <1>2, <1>3, <1>4 DEF InitHwSteps
<1> QED
  BY <1>7, <1>8, <1>9, <1>10

LEMMA OptionTypes ==
  ASSUME NEW opts \in OptionSets, NEW t \in Timers
  PROVE  SetOptions(t, opts) \in Seq(Steps)
<1>1. opts \subseteq DOMAIN OptionsTable
  BY OptionsAssumption
<1>2. \A o \in DOMAIN OptionsTable : OptionsTable[o] \subseteq Bits
  BY DEF OptionsTable, Bits
<1>3. UNION { OptionsTable[o] : o \in opts } \in SUBSET Bits
  BY <1>1, <1>2
<1> QED
  BY <1>3, StepTypes DEF SetOptions

\* What the interrupt handler queues while it runs.
LEMMA HandlerTypes ==
  ASSUME NEW t \in Timers
  PROVE  /\ \A h \in {"stub"} \cup CallbackOps : Callback(h, t) \in Seq(Steps)
         /\ \A copy : Acknowledge(t, copy) \in Seq(Steps)
         /\ << Read(t), Step("ack", t, {}, {}) >> \in Seq(Steps)
<1>1. ASSUME NEW h \in {"stub"} \cup CallbackOps
      PROVE  Callback(h, t) \in Seq(Steps)
  <2>1. h \in {"stub", "Reset", "Start", "Stop"}
    BY CallbackAssumption
  <2>2. CASE h = "stub"
    BY <2>2 DEF Callback
  <2>3. CASE h = "Reset"
    BY <2>3, ScriptTypes DEF Callback
  <2>4. CASE h = "Start"
    BY <2>4, ScriptTypes DEF Callback
  <2>5. CASE h = "Stop"
    BY <2>5, ScriptTypes DEF Callback
  <2> QED
    BY <2>1, <2>2, <2>3, <2>4, <2>5
<1>2. ASSUME NEW copy
      PROVE  Acknowledge(t, copy) \in Seq(Steps)
  <2>1. {"LOAD"} \in SUBSET Bits /\ {"ENT"} \in SUBSET Bits /\ {} \in SUBSET Bits
        /\ {"INT"} \in SUBSET Bits
    BY DEF Bits
  <2> QED
    BY <2>1, StepTypes DEF Acknowledge
<1>3. << Read(t), Step("ack", t, {}, {}) >> \in Seq(Steps)
  <2>1. "ack" \in Moves
    BY DEF Moves
  <2> QED
    BY <2>1, StepTypes
<1> QED
  BY <1>1, <1>2, <1>3

LEMMA BusWriteTypes ==
  ASSUME TypeOK, NEW t \in Timers, NEW v \in SUBSET Bits, BusWrite(t, v)
  PROVE  /\ tcsr' \in [Timers -> SUBSET Bits]
         /\ held' \in [Timers -> BOOLEAN]
<1>1. AfterWrite(tcsr[t], v, StillHolds(t, v)) \in SUBSET Bits
  BY DEF TypeOK, AfterWrite
<1>2. StillHolds(t, v) \in BOOLEAN
  BY DEF StillHolds
<1> QED
  BY <1>1, <1>2, Zenon DEF TypeOK, BusWrite

\* The head of a queue is a step and the rest a queue.
LEMMA QueueTypes ==
  ASSUME TypeOK, NEW c \in Ctx, ~Idle(c)
  PROVE  /\ Head(todo[c]) \in Steps
         /\ Head(todo[c]).t \in Timers
         /\ Head(todo[c]).set \in SUBSET Bits
         /\ Head(todo[c]).clr \in SUBSET Bits
         /\ Tail(todo[c]) \in Seq(Steps)
<1>1. todo[c] \in Seq(Steps) /\ todo[c] # << >>
  BY DEF TypeOK, Idle
<1>2. Head(todo[c]) \in Steps /\ Tail(todo[c]) \in Seq(Steps)
  BY <1>1
<1> QED
  BY <1>2 DEF Steps

LEMMA PopTypes ==
  ASSUME TypeOK, NEW c \in Ctx, ~Idle(c), Pop(c)
  PROVE  /\ todo' \in [Ctx -> Seq(Steps)]
         /\ reg' \in [Ctx -> SUBSET Bits]
  BY QueueTypes DEF TypeOK, Pop

LEMMA BeginTypes ==
  ASSUME TypeOK, NEW steps \in Seq(Steps), Begin(steps)
  PROVE  /\ todo' \in [Ctx -> Seq(Steps)]
         /\ UNCHANGED <<tcsr, held, reg>>
  BY DEF TypeOK, Begin

(***************************************************************************)
(* Every variable keeps its type.                                          *)
(***************************************************************************)
LEMMA ExecTypes ==
  ASSUME TypeOK, NEW c \in Ctx, Exec(c)
  PROVE  TypeOK'
<1>1. CASE DoRead(c)
  <2>1. ~Idle(c)
    BY <1>1 DEF DoRead, AtHead
  <2>2. reg' \in [Ctx -> SUBSET Bits] /\ todo' \in [Ctx -> Seq(Steps)]
    BY <1>1, <2>1, QueueTypes DEF DoRead, TypeOK
  <2> QED
    BY <1>1, <2>2 DEF DoRead, TypeOK, driver
<1>2. CASE DoWrite(c)
  <2>1. ~Idle(c)
    BY <1>2 DEF DoWrite, AtHead
  <2>2. todo' \in [Ctx -> Seq(Steps)] /\ reg' \in [Ctx -> SUBSET Bits]
    BY <1>2, <2>1, PopTypes DEF DoWrite
  <2>3. (reg[c] \cup Head(todo[c]).set) \ Head(todo[c]).clr \in SUBSET Bits
    BY <2>1, QueueTypes DEF TypeOK
  <2>4. tcsr' \in [Timers -> SUBSET Bits] /\ held' \in [Timers -> BOOLEAN]
    BY <1>2, <2>1, <2>3, QueueTypes, BusWriteTypes DEF DoWrite
  <2> QED
    BY <1>2, <2>2, <2>4 DEF DoWrite, TypeOK, driver
<1>3. CASE DoStore(c)
  <2>1. ~Idle(c)
    BY <1>3 DEF DoStore, AtHead
  <2>2. todo' \in [Ctx -> Seq(Steps)] /\ reg' \in [Ctx -> SUBSET Bits]
    BY <1>3, <2>1, PopTypes DEF DoStore
  <2>3. tcsr' \in [Timers -> SUBSET Bits] /\ held' \in [Timers -> BOOLEAN]
    BY <1>3, <2>1, QueueTypes, BusWriteTypes DEF DoStore
  <2> QED
    BY <1>3, <2>2, <2>3 DEF DoStore, TypeOK, driver
<1>4. CASE DoStarted(c)
  <2>1. ~Idle(c)
    BY <1>4 DEF DoStarted, AtHead
  <2>2. todo' \in [Ctx -> Seq(Steps)] /\ reg' \in [Ctx -> SUBSET Bits]
    BY <1>4, <2>1, PopTypes DEF DoStarted
  <2>3. started' \in [Timers -> BOOLEAN]
    BY <1>4, <2>1 DEF DoStarted, TypeOK
  <2> QED
    BY <1>4, <2>2, <2>3 DEF DoStarted, TypeOK
<1>5. CASE DoPwm(c)
  <2>1. ~Idle(c)
    BY <1>5 DEF DoPwm, AtHead
  <2>2. todo' \in [Ctx -> Seq(Steps)] /\ reg' \in [Ctx -> SUBSET Bits]
    BY <1>5, <2>1, PopTypes DEF DoPwm
  <2> QED
    BY <1>5, <2>2 DEF DoPwm, TypeOK
<1> QED
  BY <1>1, <1>2, <1>3, <1>4, <1>5 DEF Exec

LEMMA CountedType ==
  ASSUME NEW n \in 0 .. StatsModulus - 1
  PROVE  Counted(n) \in 0 .. StatsModulus - 1
  BY StatsAssumption DEF Counted

LEMMA HandlerStepTypes ==
  ASSUME TypeOK, TakeInterrupt \/ Isr
  PROVE  TypeOK'
<1>1. "isr" \in Ctx /\ 0 \in Timers /\ 1 \in Timers
  BY DEF Ctx, Timers
<1>2. CASE TakeInterrupt
  <2>1. Service(0) \o Service(1) \in Seq(Steps)
    BY <1>1, ScriptTypes
  <2> QED
    BY <1>2, <2>1 DEF TakeInterrupt, TypeOK, driver
<1>3. CASE DoTest
  <2>1. ~Idle("isr")
    BY <1>3 DEF DoTest, AtHead
  <2> DEFINE t == Head(todo["isr"]).t
             more == Callback(handler, t) \o << Read(t), Step("ack", t, {}, {}) >>
                     \o Tail(todo["isr"])
  <2>2. t \in Timers
    BY <1>1, <2>1, QueueTypes
  <2>3. more \in Seq(Steps)
    <3>1. Callback(handler, t) \in Seq(Steps)
          /\ << Read(t), Step("ack", t, {}, {}) >> \in Seq(Steps)
      BY <2>2, HandlerTypes DEF TypeOK
    <3>2. Tail(todo["isr"]) \in Seq(Steps)
      BY <1>1, <2>1, QueueTypes
    <3> HIDE DEF t
    <3> QED
      BY <3>1, <3>2
  <2>4. CASE {"ENIT", "INT"} \subseteq reg["isr"]
    <3>1. todo' = [todo EXCEPT !["isr"] = more]
      BY <1>3, <2>4 DEF DoTest
    <3>2. todo' \in [Ctx -> Seq(Steps)]
      BY <3>1, <2>3 DEF TypeOK
    <3>3. interrupts' \in 0 .. StatsModulus - 1
      BY <1>3, <2>4, CountedType DEF DoTest, TypeOK
    <3>4. UNCHANGED <<tcsr, held, ready, started, pwmEnabled, handler, reg>>
      BY <1>3, <2>4 DEF DoTest
    <3> QED
      BY <3>2, <3>3, <3>4 DEF TypeOK
  <2>5. CASE ~({"ENIT", "INT"} \subseteq reg["isr"])
    <3>1. Pop("isr") /\ UNCHANGED <<tcsr, held, ready, started, pwmEnabled,
                                    handler, interrupts>>
      BY <1>3, <2>5 DEF DoTest
    <3>2. todo' \in [Ctx -> Seq(Steps)] /\ reg' \in [Ctx -> SUBSET Bits]
      BY <1>1, <2>1, <3>1, PopTypes
    <3> QED
      BY <3>1, <3>2 DEF TypeOK
  <2> QED
    BY <2>4, <2>5
<1>4. CASE DoAck
  <2>1. ~Idle("isr")
    BY <1>4 DEF DoAck, AtHead
  <2>2. Acknowledge(Head(todo["isr"]).t, reg["isr"]) \in Seq(Steps)
    BY <1>1, <2>1, QueueTypes, HandlerTypes
  <2>3. Tail(todo["isr"]) \in Seq(Steps)
    BY <1>1, <2>1, QueueTypes
  <2>4. Acknowledge(Head(todo["isr"]).t, reg["isr"]) \o Tail(todo["isr"]) \in Seq(Steps)
    BY <2>2, <2>3
  <2>5. todo' \in [Ctx -> Seq(Steps)]
    BY <1>4, <2>4 DEF DoAck, TypeOK
  <2> QED
    BY <1>4, <2>5 DEF DoAck, TypeOK, driver
<1> QED
  BY <1>2, <1>3, <1>4 DEF Isr

(***************************************************************************)
(* Type correctness.                                                       *)
(***************************************************************************)
LEMMA CallTypes ==
  ASSUME TypeOK,
         \/ CallInitialize \/ CallInitHw \/ CallPwm \/ CallSetHandler \/ CallClearStats
         \/ \E t \in Timers : CallOnTimer(t)
  PROVE  TypeOK'
<1>1. << >> \in Seq(Steps)
  OBVIOUS
<1>2. 0 \in 0 .. StatsModulus - 1
  BY StatsAssumption
<1>3. CASE CallInitialize
  <2>1. \E steps \in Seq(Steps) : Begin(steps)
    BY <1>1, <1>3, LongScriptTypes DEF CallInitialize
  <2> QED
    BY <1>2, <1>3, <2>1, BeginTypes DEF CallInitialize, CfgInitialize, TypeOK, driver
<1>4. CASE CallInitHw
  <2>1. \E steps \in Seq(Steps) : Begin(steps)
    BY <1>4, LongScriptTypes DEF CallInitHw, Call
  <2> QED
    BY <1>4, <2>1, BeginTypes DEF CallInitHw, TypeOK, driver
<1>5. CASE CallPwm
  <2>1. \E steps \in Seq(Steps) : Begin(steps)
    BY <1>1, <1>5, LongScriptTypes DEF CallPwm, CallPwmConfigure, CallPwmSwitch, Call
  <2> QED
    BY <1>5, <2>1, BeginTypes DEF CallPwm, CallPwmConfigure, CallPwmSwitch, TypeOK, driver
<1>6. CASE CallSetHandler
  <2>1. \E steps \in Seq(Steps) : Begin(steps)
    BY <1>1, <1>6 DEF CallSetHandler, Call
  <2> QED
    BY <1>6, <2>1, BeginTypes DEF CallSetHandler, TypeOK
<1>7. CASE CallClearStats
  <2>1. \E steps \in Seq(Steps) : Begin(steps)
    BY <1>1, <1>7 DEF CallClearStats, Call
  <2> QED
    BY <1>2, <1>7, <2>1, BeginTypes DEF CallClearStats, TypeOK
<1>8. ASSUME NEW t \in Timers, CallOnTimer(t)
      PROVE  TypeOK'
  <2>1. \E steps \in Seq(Steps) : Begin(steps)
    BY <1>8, ScriptTypes, OptionTypes
    DEF CallOnTimer, CallInPlace, CallSelfTest, CallSetOptions, Call
  <2> QED
    BY <1>8, <2>1, BeginTypes
    DEF CallOnTimer, CallInPlace, CallSelfTest, CallSetOptions, TypeOK, driver
<1> QED
  BY <1>3, <1>4, <1>5, <1>6, <1>7, <1>8

LEMMA LoadedTypes ==
  ASSUME NEW td, NEW rg, td = [c \in Ctx |-> << >>], rg = [c \in Ctx |-> {}]
  PROVE  td \in [Ctx -> Seq(Steps)] /\ rg \in [Ctx -> SUBSET Bits]
  OBVIOUS

\* The variables of a program that was just loaded.
LEMMA LoadedOK ==
  ASSUME NEW rdy, NEW st, NEW pwm, NEW h, NEW n, NEW td, NEW rg,
         Loaded(rdy, st, pwm, h, n, td, rg)
  PROVE  /\ rdy \in BOOLEAN /\ st \in [Timers -> BOOLEAN] /\ pwm \in BOOLEAN
         /\ h \in {"stub"} \cup CallbackOps
         /\ n \in 0 .. StatsModulus - 1
         /\ td \in [Ctx -> Seq(Steps)] /\ rg \in [Ctx -> SUBSET Bits]
<1>1. td \in [Ctx -> Seq(Steps)] /\ rg \in [Ctx -> SUBSET Bits]
  BY LoadedTypes DEF Loaded
<1>2. n \in 0 .. StatsModulus - 1
  BY StatsAssumption DEF Loaded
<1>3. st \in [Timers -> BOOLEAN]
  BY DEF Loaded
<1>4. rdy \in BOOLEAN /\ pwm \in BOOLEAN /\ h \in {"stub"} \cup CallbackOps
  BY DEF Loaded
<1> QED
  BY <1>1, <1>2, <1>3, <1>4

LEMMA TypeInit == Init => TypeOK
<1> SUFFICES ASSUME Init
             PROVE  TypeOK
  OBVIOUS
<1>1. Loaded(ready, started, pwmEnabled, handler, interrupts, todo, reg)
  BY DEF Init
<1>2. tcsr \in [Timers -> SUBSET Bits] /\ held \in [Timers -> BOOLEAN]
  BY DEF Init
<1> QED
  BY <1>1, <1>2, LoadedOK DEF TypeOK

LEMMA TypeStep == TypeOK /\ [Next]_vars => TypeOK'
<1> SUFFICES ASSUME TypeOK, [Next]_vars
             PROVE  TypeOK'
  OBVIOUS
<1>1. ASSUME NEW t \in Timers, Expire(t)
      PROVE  TypeOK'
  <2>1. tcsr' \in [Timers -> SUBSET Bits] /\ held' \in [Timers -> BOOLEAN]
    BY <1>1 DEF Expire, TypeOK, Bits
  <2> QED
    BY <1>1, <2>1 DEF Expire, TypeOK, driver
<1>2. CASE Restart
  <2>1. Loaded(ready', started', pwmEnabled', handler', interrupts', todo', reg')
        /\ UNCHANGED <<tcsr, held>>
    BY <1>2 DEF Restart
  <2> QED
    BY <2>1, LoadedOK DEF TypeOK
<1>3. CASE UNCHANGED vars
  BY <1>3 DEF vars, TypeOK
<1> QED
  BY <1>1, <1>2, <1>3, CallTypes, ExecTypes, HandlerStepTypes DEF Next

\* Every variable of the driver and of the device always has its type; in
\* particular Stats.Interrupts stays within its width and no call ever queues
\* anything but well formed steps on timers 0 and 1.
THEOREM TypeCorrect == Spec => []TypeOK
<1>1. Init => TypeOK
  BY TypeInit
<1>2. TypeOK /\ [Next]_vars => TypeOK'
  BY TypeStep
<1> QED
  BY <1>1, <1>2, PTL DEF Spec

-----------------------------------------------------------------------------
(* Queues of steps.                                                        *)

LEMMA TailFacts ==
  ASSUME NEW q \in Seq(Steps), q # << >>
  PROVE  /\ Tail(q) \in Seq(Steps)
         /\ Len(q) \in Nat \ {0}
         /\ Len(Tail(q)) = Len(q) - 1
         /\ Head(q) = q[1]
         /\ \A i \in 1 .. Len(q) - 1 : Tail(q)[i] = q[i + 1]
         /\ (Tail(q) = << >> <=> Len(q) = 1)
<1>1. Len(q) \in Nat \ {0}
  BY EmptySeq
<1>2. /\ Tail(q) \in Seq(Steps) /\ Len(Tail(q)) = Len(q) - 1
      /\ \A i \in 1 .. Len(q) - 1 : Tail(q)[i] = q[i + 1]
  BY HeadTailProperties
<1>3. Head(q) = q[1]
  OBVIOUS
<1>4. Len(<< >>) = 0 /\ (Tail(q) # << >> => Len(Tail(q)) \in Nat \ {0})
  BY <1>2, EmptySeq
<1>5. CASE Tail(q) = << >>
  <2>1. Len(Tail(q)) = 0
    BY <1>4, <1>5
  <2> QED
    BY <1>1, <1>2, <1>3, <1>5, <2>1
<1>6. CASE Tail(q) # << >>
  <2>1. Len(Tail(q)) # 0
    BY <1>4, <1>6
  <2> QED
    BY <1>1, <1>2, <1>3, <1>6, <2>1
<1> QED
  BY <1>5, <1>6

LEMMA TailShape ==
  ASSUME NEW q \in Seq(Steps), q # << >>, Shape(q)
  PROVE  /\ Shape(Tail(q))
         /\ Tail(q) # << >> => Follows(Head(q), Head(Tail(q)))
         /\ Loads(Head(q)) => Tail(q) # << >>
<1> DEFINE r == Tail(q)
<1>1. /\ r \in Seq(Steps) /\ Len(q) \in Nat \ {0} /\ Len(r) = Len(q) - 1
      /\ Head(q) = q[1]
      /\ \A i \in 1 .. Len(q) - 1 : r[i] = q[i + 1]
      /\ (r = << >> <=> Len(q) = 1)
  BY TailFacts
<1>2. \A i \in 1 .. Len(q) - 1 : Follows(q[i], q[i + 1])
  BY DEF Shape
<1>3. ~Loads(q[Len(q)])
  BY DEF Shape
<1>4. ASSUME NEW i \in 1 .. Len(r) - 1
      PROVE  Follows(r[i], r[i + 1])
  <2>1. /\ i \in 1 .. Len(q) - 1 /\ i + 1 \in 1 .. Len(q) - 1
        /\ r[i] = q[i + 1] /\ r[i + 1] = q[(i + 1) + 1]
    BY <1>1
  <2> QED
    BY <1>2, <2>1
<1>5. ASSUME r # << >>
      PROVE  /\ ~Loads(r[Len(r)])
             /\ Follows(Head(q), Head(r))
  <2>1. /\ Len(q) - 1 \in 1 .. Len(q) - 1 /\ 1 \in 1 .. Len(q) - 1
        /\ (Len(q) - 1) + 1 = Len(q) /\ 1 + 1 = 2
    BY <1>1, <1>5
  <2>2. r[Len(r)] = q[Len(q)] /\ r[1] = q[2]
    BY <1>1, <2>1
  <2>3. Head(r) = r[1]
    BY <1>1, <1>5
  <2>4. Follows(q[1], q[1 + 1])
    BY <1>2, <2>1
  <2> QED
    BY <1>1, <1>3, <2>1, <2>2, <2>3, <2>4
<1>6. Shape(r)
  BY <1>4, <1>5 DEF Shape
<1>7. Loads(Head(q)) => r # << >>
  BY <1>1, <1>3
<1> QED
  BY <1>5, <1>6, <1>7

LEMMA JoinFacts ==
  ASSUME NEW p \in Seq(Steps), NEW q \in Seq(Steps)
  PROVE  /\ p \o q \in Seq(Steps)
         /\ Len(p) \in Nat /\ Len(q) \in Nat
         /\ Len(p \o q) = Len(p) + Len(q)
         /\ \A i \in 1 .. Len(p) : (p \o q)[i] = p[i]
         /\ \A i \in 1 .. Len(q) : (p \o q)[Len(p) + i] = q[i]
         /\ p # << >> => Head(p \o q) = Head(p)
         /\ p = << >> => p \o q = q
         /\ q = << >> => p \o q = p
         /\ p # << >> => Len(p) \in 1 .. Len(p) /\ Head(p) = p[1]
         /\ q # << >> => Len(q) \in 1 .. Len(q) /\ Head(q) = q[1]
  OBVIOUS

\* Two well shaped queues can be joined if the second may follow the first.
LEMMA JoinShape ==
  ASSUME NEW p \in Seq(Steps), NEW q \in Seq(Steps), Shape(p), Shape(q),
         p # << >> /\ q # << >> => Follows(p[Len(p)], Head(q))
  PROVE  Shape(p \o q)
<1>1. CASE p = << >> \/ q = << >>
  BY <1>1, JoinFacts
<1>2. CASE p # << >> /\ q # << >>
  <2> DEFINE s == p \o q
             m == Len(p)
  <2>1. /\ m \in Nat \ {0} /\ Len(q) \in Nat \ {0} /\ Len(s) = m + Len(q)
        /\ \A i \in 1 .. m : s[i] = p[i]
        /\ \A i \in 1 .. Len(q) : s[m + i] = q[i]
        /\ Head(q) = q[1]
    BY <1>2, JoinFacts
  <2> HIDE DEF s
  <2>2. ASSUME NEW i \in 1 .. Len(s) - 1
        PROVE  Follows(s[i], s[i + 1])
    <3>1. CASE i < m
      <4>1. i \in 1 .. m - 1 /\ i \in 1 .. m /\ i + 1 \in 1 .. m
        BY <2>1, <3>1
      <4>2. s[i] = p[i] /\ s[i + 1] = p[i + 1]
        BY <2>1, <4>1
      <4> QED
        BY <4>1, <4>2 DEF Shape
    <3>2. CASE i = m
      <4>1. m \in 1 .. m /\ 1 \in 1 .. Len(q)
        BY <2>1
      <4>2. s[i] = p[m] /\ s[i + 1] = q[1]
        BY <2>1, <3>2, <4>1
      <4> QED
        BY <1>2, <2>1, <4>2
    <3>3. CASE i > m
      <4>1. PICK j \in 1 .. Len(q) - 1 : i = m + j
        <5>1. i - m \in 1 .. Len(q) - 1 /\ i = m + (i - m)
          BY <2>1, <3>3
        <5> QED
          BY <5>1
      <4>2. j \in 1 .. Len(q) /\ j + 1 \in 1 .. Len(q) /\ i + 1 = m + (j + 1)
        BY <2>1, <4>1
      <4>3. s[i] = q[j] /\ s[i + 1] = q[j + 1]
        BY <2>1, <4>1, <4>2
      <4> QED
        BY <4>1, <4>3 DEF Shape
    <3> QED
      BY <2>1, <3>1, <3>2, <3>3
  <2>3. ~Loads(s[Len(s)])
    <3>1. Len(q) \in 1 .. Len(q)
      BY <2>1
    <3>2. s[Len(s)] = q[Len(q)]
      BY <2>1, <3>1
    <3> QED
      BY <1>2, <3>2 DEF Shape
  <2> QED
    BY <2>2, <2>3 DEF Shape, s
<1> QED
  BY <1>1, <1>2

LEMMA TailClear ==
  ASSUME NEW q \in Seq(Steps), q # << >>, ClearShape(q)
  PROVE  /\ ClearShape(Tail(q))
         /\ Head(q).m # "store" => \A t \in Timers : ~Pending(q, t)
         /\ \A t \in Timers : Pending(q, t) /\ Head(q).t # t => Pending(Tail(q), t)
         /\ StoresEnt(Head(q)) => Pending(Tail(q), Head(q).t)
<1> DEFINE r == Tail(q)
<1>1. /\ r \in Seq(Steps) /\ Len(q) \in Nat \ {0} /\ Len(r) = Len(q) - 1
      /\ Head(q) = q[1]
      /\ \A i \in 1 .. Len(q) - 1 : r[i] = q[i + 1]
  BY TailFacts
<1> HIDE DEF r
<1>2. /\ \A i \in 1 .. Len(q) : Clears(q[i]) => \A j \in 1 .. i : q[j].m = "store"
      /\ \A i \in 1 .. Len(q) :
           StoresEnt(q[i]) => \E j \in i + 1 .. Len(q) : q[j] = Store(q[i].t, {})
  BY DEF ClearShape
<1>3. \A i \in 1 .. Len(r) : Clears(r[i]) => \A j \in 1 .. i : r[j].m = "store"
  <2> SUFFICES ASSUME NEW i \in 1 .. Len(r), Clears(r[i]), NEW j \in 1 .. i
               PROVE  r[j].m = "store"
    OBVIOUS
  <2>1. /\ i + 1 \in 1 .. Len(q) /\ j + 1 \in 1 .. i + 1
        /\ r[i] = q[i + 1] /\ r[j] = q[j + 1]
    BY <1>1
  <2> QED
    BY <1>2, <2>1
<1>4. \A i \in 1 .. Len(r) :
        StoresEnt(r[i]) => \E j \in i + 1 .. Len(r) : r[j] = Store(r[i].t, {})
  <2> SUFFICES ASSUME NEW i \in 1 .. Len(r), StoresEnt(r[i])
               PROVE  \E j \in i + 1 .. Len(r) : r[j] = Store(r[i].t, {})
    OBVIOUS
  <2>1. i + 1 \in 1 .. Len(q) /\ r[i] = q[i + 1]
    BY <1>1
  <2>2. PICK k \in (i + 1) + 1 .. Len(q) : q[k] = Store(r[i].t, {})
    BY <1>2, <2>1
  <2>3. k - 1 \in i + 1 .. Len(r) /\ k - 1 \in 1 .. Len(q) - 1 /\ (k - 1) + 1 = k
    BY <1>1, <2>2
  <2>4. r[k - 1] = q[k]
    BY <1>1, <2>3
  <2> QED
    BY <2>2, <2>3, <2>4
<1>5. ASSUME NEW t \in Timers, NEW i \in 1 .. Len(q), q[i] = Store(t, {})
      PROVE  q[1].m = "store"
  <2>1. Clears(q[i]) /\ 1 \in 1 .. i
    BY <1>5 DEF Clears, Store, Step
  <2> QED
    BY <1>2, <2>1
<1>6. ASSUME NEW t \in Timers, NEW i \in 1 .. Len(q), q[i] = Store(t, {}),
             Head(q).t # t
      PROVE  Pending(r, t)
  <2>1. i # 1
    BY <1>1, <1>6 DEF Store, Step
  <2>2. i - 1 \in 1 .. Len(r) /\ i - 1 \in 1 .. Len(q) - 1 /\ (i - 1) + 1 = i
    BY <1>1, <2>1
  <2>3. r[i - 1] = q[i]
    BY <1>1, <2>2
  <2> QED
    BY <1>6, <2>2, <2>3 DEF Pending
<1>7. ASSUME StoresEnt(Head(q))
      PROVE  Pending(r, Head(q).t)
  <2>1. 1 \in 1 .. Len(q)
    BY <1>1
  <2>2. PICK k \in 1 + 1 .. Len(q) : q[k] = Store(q[1].t, {})
    BY <1>1, <1>2, <1>7, <2>1
  <2>3. k - 1 \in 1 .. Len(r) /\ k - 1 \in 1 .. Len(q) - 1 /\ (k - 1) + 1 = k
    BY <1>1, <2>2
  <2>4. r[k - 1] = q[k]
    BY <1>1, <2>3
  <2> QED
    BY <1>1, <2>2, <2>3, <2>4 DEF Pending
<1> QED
  BY <1>1, <1>3, <1>4, <1>5, <1>6, <1>7 DEF ClearShape, Pending, r

LEMMA TailFree ==
  ASSUME NEW q \in Seq(Steps), q # << >>
  PROVE  /\ ClearFree(q) => /\ ClearFree(Tail(q))
                            /\ ~Clears(Head(q)) /\ ~StoresEnt(Head(q))
         /\ AllMeek(q) => AllMeek(Tail(q)) /\ Meek(Head(q))
<1>1. /\ Len(q) \in Nat \ {0} /\ Len(Tail(q)) = Len(q) - 1 /\ Head(q) = q[1]
      /\ \A i \in 1 .. Len(q) - 1 : Tail(q)[i] = q[i + 1]
  BY TailFacts
<1>2. 1 \in 1 .. Len(q)
      /\ \A i \in 1 .. Len(q) - 1 : i + 1 \in 1 .. Len(q)
  BY <1>1
<1> QED
  BY <1>1, <1>2 DEF ClearFree, AllMeek

LEMMA JoinFree ==
  ASSUME NEW p \in Seq(Steps), NEW q \in Seq(Steps)
  PROVE  /\ ClearFree(p) /\ ClearFree(q) => ClearFree(p \o q)
         /\ AllMeek(p) /\ AllMeek(q) => AllMeek(p \o q)
<1>1. /\ Len(p) \in Nat /\ Len(q) \in Nat /\ Len(p \o q) = Len(p) + Len(q)
      /\ \A i \in 1 .. Len(p) : (p \o q)[i] = p[i]
      /\ \A i \in 1 .. Len(q) : (p \o q)[Len(p) + i] = q[i]
  BY JoinFacts
<1>2. ASSUME NEW i \in 1 .. Len(p \o q)
      PROVE  \/ \E j \in 1 .. Len(p) : (p \o q)[i] = p[j]
             \/ \E j \in 1 .. Len(q) : (p \o q)[i] = q[j]
  <2>1. CASE i \in 1 .. Len(p)
    BY <1>1, <2>1
  <2>2. CASE i > Len(p)
    <3>1. i - Len(p) \in 1 .. Len(q) /\ i = Len(p) + (i - Len(p))
      BY <1>1, <2>2
    <3>2. (p \o q)[Len(p) + (i - Len(p))] = q[i - Len(p)]
      BY <1>1, <3>1
    <3> QED
      BY <3>1, <3>2
  <2> QED
    BY <1>1, <2>1, <2>2
<1> QED
  BY <1>2 DEF ClearFree, AllMeek

LEMMA FreeIsShaped ==
  ASSUME NEW q \in Seq(Steps), ClearFree(q)
  PROVE  ClearShape(q)
  BY DEF ClearFree, ClearShape

-----------------------------------------------------------------------------
(* The driver's functions are well shaped blocks, which can be joined.     *)

Opens(s) == s.m \in {"read", "store", "pwmOn", "pwmOff"}
Block(q) == q \in Seq(Steps) /\ Shape(q) /\ (q # << >> => Opens(Head(q)))

LEMMA OpensFollows ==
  ASSUME NEW a \in Steps, NEW b \in Steps, Opens(b), ~Loads(a)
  PROVE  Follows(a, b)
  BY DEF Opens, Follows, Starting, Plain

LEMMA JoinBlock ==
  ASSUME NEW p, NEW q, Block(p), Block(q)
  PROVE  Block(p \o q)
<1>1. p \in Seq(Steps) /\ q \in Seq(Steps) /\ Shape(p) /\ Shape(q)
  BY DEF Block
<1>2. ASSUME p # << >>, q # << >>
      PROVE  Follows(p[Len(p)], Head(q))
  <2>1. p[Len(p)] \in Steps /\ ~Loads(p[Len(p)])
    BY <1>1, <1>2, JoinFacts, ElementOfSeq DEF Shape
  <2>2. Head(q) \in Steps /\ Opens(Head(q))
    BY <1>1, <1>2, HeadTailProperties DEF Block
  <2> QED
    BY <2>1, <2>2, OpensFollows
<1>3. Shape(p \o q)
  BY <1>1, <1>2, JoinShape
<1>4. p \o q # << >> => Opens(Head(p \o q))
  BY <1>1, JoinFacts DEF Block
<1>5. p \o q \in Seq(Steps)
  BY <1>1, JoinFacts
<1> QED
  BY <1>3, <1>4, <1>5 DEF Block

LEMMA EmptyBlock == Block(<< >>) /\ ClearFree(<< >>) /\ AllMeek(<< >>)
  BY DEF Block, Shape, ClearFree, AllMeek

LEMMA ModifyBlock ==
  ASSUME NEW t \in Timers, NEW set \in SUBSET Bits, NEW clr \in SUBSET Bits,
         "LOAD" \notin set, "ENT" \notin set
  PROVE  Block(Modify(t, set, clr)) /\ ClearFree(Modify(t, set, clr))
<1> DEFINE q == Modify(t, set, clr)
<1>1. q \in Seq(Steps) /\ Len(q) = 2 /\ q # << >>
      /\ q[1] = Read(t) /\ q[2] = Write(t, set, clr) /\ Head(q) = Read(t)
  BY ScriptTypes DEF Modify
<1> HIDE DEF q
<1>2. Follows(Read(t), Write(t, set, clr))
  BY DEF Follows, Starting, Plain, Loads, Read, Write, Step
<1>3. ~Loads(Write(t, set, clr)) /\ Opens(Read(t))
  BY DEF Loads, Opens, Read, Write, Step
<1>4. Shape(q)
  <2>1. \A i \in 1 .. Len(q) - 1 : i = 1
    BY <1>1
  <2> QED
    BY <1>1, <1>2, <1>3, <2>1 DEF Shape
<1>5. ClearFree(q)
  <2>1. \A i \in 1 .. Len(q) : i = 1 \/ i = 2
    BY <1>1
  <2> QED
    BY <1>1, <2>1 DEF ClearFree, Clears, StoresEnt, Read, Write, Step
<1> QED
  BY <1>1, <1>3, <1>4, <1>5 DEF Block, q

LEMMA StartBlock ==
  ASSUME NEW t \in Timers
  PROVE  Block(Start(t)) /\ ClearFree(Start(t))
<1> DEFINE q == Start(t)
<1>1. q \in Seq(Steps) /\ Len(q) = 4 /\ q # << >> /\ Head(q) = Read(t)
      /\ q[1] = Read(t) /\ q[2] = Store(t, {"LOAD"})
      /\ q[3] = Step("started", t, {}, {}) /\ q[4] = Write(t, {"ENT"}, {})
  BY ScriptTypes DEF Start
<1> HIDE DEF q
<1>2. Follows(Read(t), Store(t, {"LOAD"}))
  BY DEF Follows, Starting, Plain, Loads, Read, Store, Step
<1>3. Follows(Store(t, {"LOAD"}), Step("started", t, {}, {}))
  BY DEF Follows, Starting, Plain, Releases, Store, Step
<1>4. Follows(Step("started", t, {}, {}), Write(t, {"ENT"}, {}))
  BY DEF Follows, Starting, Plain, Releases, Write, Step
<1>5. ~Loads(Write(t, {"ENT"}, {})) /\ Opens(Read(t))
  BY DEF Loads, Opens, Read, Write, Step
<1>6. Shape(q)
  <2>1. \A i \in 1 .. Len(q) - 1 : i = 1 \/ i = 2 \/ i = 3
    BY <1>1
  <2> QED
    BY <1>1, <1>2, <1>3, <1>4, <1>5, <2>1 DEF Shape
<1>7. ClearFree(q)
  <2>1. \A i \in 1 .. Len(q) : i = 1 \/ i = 2 \/ i = 3 \/ i = 4
    BY <1>1
  <2>2. "LOAD" \in q[2].set /\ "ENT" \notin q[2].set
    BY <1>1 DEF Store, Step
  <2>3. q[1].m # "store" /\ q[3].m # "store" /\ q[4].m # "store"
    BY <1>1 DEF Read, Write, Step
  <2> QED
    BY <2>1, <2>2, <2>3 DEF ClearFree, Clears, StoresEnt
<1> QED
  BY <1>1, <1>5, <1>6, <1>7 DEF Block, q

LEMMA StopBlock ==
  ASSUME NEW t \in Timers
  PROVE  Block(Stop(t)) /\ ClearFree(Stop(t))
<1> DEFINE q == Stop(t)
<1>1. q \in Seq(Steps) /\ Len(q) = 3 /\ q # << >> /\ Head(q) = Read(t)
      /\ q[1] = Read(t) /\ q[2] = Write(t, {}, {"ENT"})
      /\ q[3] = Step("stopped", t, {}, {})
  BY ScriptTypes DEF Stop
<1> HIDE DEF q
<1>2. Follows(Read(t), Write(t, {}, {"ENT"}))
  BY DEF Follows, Starting, Plain, Loads, Read, Write, Step
<1>3. Follows(Write(t, {}, {"ENT"}), Step("stopped", t, {}, {}))
  BY DEF Follows, Starting, Plain, Loads, Write, Step
<1>4. ~Loads(Step("stopped", t, {}, {})) /\ Opens(Read(t))
  BY DEF Loads, Opens, Read, Step
<1>5. Shape(q)
  <2>1. \A i \in 1 .. Len(q) - 1 : i = 1 \/ i = 2
    BY <1>1
  <2> QED
    BY <1>1, <1>2, <1>3, <1>4, <2>1 DEF Shape
<1>6. ClearFree(q)
  <2>1. \A i \in 1 .. Len(q) : i = 1 \/ i = 2 \/ i = 3
    BY <1>1
  <2> QED
    BY <1>1, <2>1 DEF ClearFree, Clears, StoresEnt, Read, Write, Step
<1> QED
  BY <1>1, <1>4, <1>5, <1>6 DEF Block, q

LEMMA ResetBlock ==
  ASSUME NEW t \in Timers
  PROVE  Block(Reset(t)) /\ ClearFree(Reset(t)) /\ AllMeek(Reset(t))
<1> DEFINE q == Reset(t)
<1>1. q \in Seq(Steps) /\ Len(q) = 3 /\ q # << >> /\ Head(q) = Read(t)
      /\ q[1] = Read(t) /\ q[2] = Write(t, {"LOAD"}, {}) /\ q[3] = Write(t, {}, {})
  BY ScriptTypes DEF Reset
<1> HIDE DEF q
<1>2. Follows(Read(t), Write(t, {"LOAD"}, {}))
  BY DEF Follows, Starting, Plain, Loads, Read, Write, Step
<1>3. Follows(Write(t, {"LOAD"}, {}), Write(t, {}, {}))
  BY DEF Follows, Starting, Plain, Releases, Write, Step
<1>4. ~Loads(Write(t, {}, {})) /\ Opens(Read(t))
  BY DEF Loads, Opens, Read, Write, Step
<1>5. Shape(q)
  <2>1. \A i \in 1 .. Len(q) - 1 : i = 1 \/ i = 2
    BY <1>1
  <2> QED
    BY <1>1, <1>2, <1>3, <1>4, <2>1 DEF Shape
<1>6. \A i \in 1 .. Len(q) : i = 1 \/ i = 2 \/ i = 3
  BY <1>1
<1>7. ClearFree(q)
  BY <1>1, <1>6 DEF ClearFree, Clears, StoresEnt, Read, Write, Step
<1>8. AllMeek(q)
  BY <1>1, <1>6 DEF AllMeek, Meek, Starting, Read, Write, Step
<1> QED
  BY <1>1, <1>4, <1>5, <1>7, <1>8 DEF Block, q

LEMMA ServiceBlock ==
  ASSUME NEW t \in Timers
  PROVE  Block(Service(t)) /\ ClearFree(Service(t)) /\ AllMeek(Service(t))
<1> DEFINE q == Service(t)
<1>1. q \in Seq(Steps) /\ Len(q) = 2 /\ q # << >> /\ Head(q) = Read(t)
      /\ q[1] = Read(t) /\ q[2] = Step("test", t, {}, {})
  BY ScriptTypes DEF Service
<1> HIDE DEF q
<1>2. Follows(Read(t), Step("test", t, {}, {}))
  BY DEF Follows, Starting, Plain, Loads, Read, Step
<1>3. ~Loads(Step("test", t, {}, {})) /\ Opens(Read(t))
  BY DEF Loads, Opens, Read, Step
<1>4. Shape(q)
  <2>1. \A i \in 1 .. Len(q) - 1 : i = 1
    BY <1>1
  <2> QED
    BY <1>1, <1>2, <1>3, <2>1 DEF Shape
<1>5. \A i \in 1 .. Len(q) : i = 1 \/ i = 2
  BY <1>1
<1>6. ClearFree(q)
  BY <1>1, <1>5 DEF ClearFree, Clears, StoresEnt, Read, Step
<1>7. AllMeek(q)
  BY <1>1, <1>5 DEF AllMeek, Meek, Starting, Read, Step
<1> QED
  BY <1>1, <1>3, <1>4, <1>6, <1>7 DEF Block, q

LEMMA InitTimerBlock ==
  ASSUME NEW t \in Timers
  PROVE  /\ Block(InitTimer(t))
         /\ \A i \in 1 .. Len(InitTimer(t)) :
              InitTimer(t)[i].m = "store" /\ ~StoresEnt(InitTimer(t)[i])
         /\ Pending(InitTimer(t), t)
<1> DEFINE q == InitTimer(t)
<1>1. q \in Seq(Steps) /\ Len(q) = 2 /\ q # << >> /\ Head(q) = q[1]
      /\ q[1] = Store(t, {"INT", "LOAD"}) /\ q[2] = Store(t, {})
  BY ScriptTypes DEF InitTimer
<1> HIDE DEF q
<1>2. Follows(q[1], q[2])
  BY <1>1 DEF Follows, Starting, Plain, Releases, Store, Step
<1>3. ~Loads(q[2]) /\ Opens(q[1])
  BY <1>1 DEF Loads, Opens, Store, Step
<1>4. \A i \in 1 .. Len(q) : i = 1 \/ i = 2
  BY <1>1
<1>5. Shape(q)
  <2>1. \A i \in 1 .. Len(q) - 1 : i = 1
    BY <1>1
  <2> QED
    BY <1>1, <1>2, <1>3, <2>1 DEF Shape
<1>6. \A i \in 1 .. Len(q) : q[i].m = "store" /\ ~StoresEnt(q[i])
  BY <1>1, <1>4 DEF StoresEnt, Store, Step
<1>7. Pending(q, t)
  <2>1. 2 \in 1 .. Len(q)
    BY <1>1
  <2> QED
    BY <1>1, <2>1 DEF Pending
<1> QED
  BY <1>1, <1>3, <1>5, <1>6, <1>7 DEF Block, q

LEMMA InitHwBlock ==
  /\ Block(InitHwSteps) /\ ClearShape(InitHwSteps)
  /\ Stopped = Timers => \A t \in Timers : Pending(InitHwSteps, t)
<1> DEFINE p == IF 0 \in Stopped THEN InitTimer(0) ELSE << >>
           q == IF 1 \in Stopped THEN InitTimer(1) ELSE << >>
<1>1. 0 \in Timers /\ 1 \in Timers /\ \A t \in Timers : t = 0 \/ t = 1
  BY DEF Timers
<1>2. /\ Block(p) /\ Block(q)
      /\ \A i \in 1 .. Len(p) : p[i].m = "store" /\ ~StoresEnt(p[i])
      /\ \A i \in 1 .. Len(q) : q[i].m = "store" /\ ~StoresEnt(q[i])
      /\ Stopped = Timers => Pending(p, 0) /\ Pending(q, 1)
  <2>1. Block(p) /\ \A i \in 1 .. Len(p) : p[i].m = "store" /\ ~StoresEnt(p[i])
    <3>1. CASE 0 \in Stopped
      BY <1>1, <3>1, InitTimerBlock
    <3>2. CASE 0 \notin Stopped
      BY <3>2, EmptyBlock
    <3> QED
      BY <3>1, <3>2
  <2>2. Block(q) /\ \A i \in 1 .. Len(q) : q[i].m = "store" /\ ~StoresEnt(q[i])
    <3>1. CASE 1 \in Stopped
      BY <1>1, <3>1, InitTimerBlock
    <3>2. CASE 1 \notin Stopped
      BY <3>2, EmptyBlock
    <3> QED
      BY <3>1, <3>2
  <2>3. Stopped = Timers => Pending(p, 0) /\ Pending(q, 1)
    BY <1>1, InitTimerBlock
  <2> QED
    BY <2>1, <2>2, <2>3
<1>3. InitHwSteps = p \o q
  BY DEF InitHwSteps
<1> HIDE DEF p, q
<1>4. /\ p \in Seq(Steps) /\ q \in Seq(Steps) /\ Len(p) \in Nat /\ Len(q) \in Nat
      /\ Len(p \o q) = Len(p) + Len(q)
      /\ \A i \in 1 .. Len(p) : (p \o q)[i] = p[i]
      /\ \A i \in 1 .. Len(q) : (p \o q)[Len(p) + i] = q[i]
  BY <1>2, JoinFacts DEF Block
<1>5. ASSUME NEW i \in 1 .. Len(p \o q)
      PROVE  (p \o q)[i].m = "store" /\ ~StoresEnt((p \o q)[i])
  <2>1. CASE i \in 1 .. Len(p)
    BY <1>2, <1>4, <2>1
  <2>2. CASE i > Len(p)
    <3>1. i - Len(p) \in 1 .. Len(q) /\ i = Len(p) + (i - Len(p))
      BY <1>4, <2>2
    <3>2. (p \o q)[Len(p) + (i - Len(p))] = q[i - Len(p)]
      BY <1>4, <3>1
    <3> QED
      BY <1>2, <3>1, <3>2
  <2> QED
    BY <1>4, <2>1, <2>2
<1>6. ClearShape(p \o q)
  <2>1. \A i \in 1 .. Len(p \o q) : 1 .. i \subseteq 1 .. Len(p \o q)
    BY <1>4
  <2> QED
    BY <1>5, <2>1 DEF ClearShape
<1>7. ASSUME Stopped = Timers
      PROVE  Pending(p \o q, 0) /\ Pending(p \o q, 1)
  <2>1. PICK i \in 1 .. Len(p) : p[i] = Store(0, {})
    BY <1>2, <1>7 DEF Pending
  <2>2. PICK j \in 1 .. Len(q) : q[j] = Store(1, {})
    BY <1>2, <1>7 DEF Pending
  <2>3. i \in 1 .. Len(p \o q) /\ Len(p) + j \in 1 .. Len(p \o q)
    BY <1>4
  <2> QED
    BY <1>4, <2>1, <2>2, <2>3 DEF Pending
<1> QED
  BY <1>1, <1>2, <1>3, <1>6, <1>7, JoinBlock

LEMMA SelfTestBlock ==
  ASSUME NEW t \in Timers
  PROVE  Block(SelfTest(t)) /\ ClearShape(SelfTest(t))
<1> DEFINE q == SelfTest(t)
<1>1. q \in Seq(Steps) /\ Len(q) = 4 /\ q # << >> /\ Head(q) = q[1]
      /\ q[1] = Store(t, {"INT", "LOAD"}) /\ q[2] = Store(t, {"ENT"})
      /\ q[3] = Store(t, {"INT", "LOAD"}) /\ q[4] = Store(t, {})
  BY ScriptTypes DEF SelfTest
<1> HIDE DEF q
<1>2. Follows(q[1], q[2]) /\ Follows(q[2], q[3]) /\ Follows(q[3], q[4])
  BY <1>1 DEF Follows, Starting, Plain, Loads, Releases, Store, Step
<1>3. ~Loads(q[4]) /\ Opens(q[1])
  BY <1>1 DEF Loads, Opens, Store, Step
<1>4. \A i \in 1 .. Len(q) : i = 1 \/ i = 2 \/ i = 3 \/ i = 4
  BY <1>1
<1>5. Shape(q)
  <2>1. \A i \in 1 .. Len(q) - 1 : i = 1 \/ i = 2 \/ i = 3
    BY <1>1
  <2> QED
    BY <1>1, <1>2, <1>3, <2>1 DEF Shape
<1>6. ClearShape(q)
  <2>1. \A i \in 1 .. Len(q) : q[i].m = "store"
    BY <1>1, <1>4 DEF Store, Step
  <2>2. \A i \in 1 .. Len(q) : 1 .. i \subseteq 1 .. Len(q)
    BY <1>1
  <2>3. ASSUME NEW i \in 1 .. Len(q), StoresEnt(q[i])
        PROVE  \E j \in i + 1 .. Len(q) : q[j] = Store(q[i].t, {})
    <3>1. i = 2
      BY <1>1, <1>4, <2>3 DEF StoresEnt, Store, Step
    <3>2. 4 \in i + 1 .. Len(q) /\ q[i].t = t
      BY <1>1, <3>1 DEF Store, Step
    <3> QED
      BY <1>1, <3>2
  <2> QED
    BY <2>1, <2>2, <2>3 DEF ClearShape
<1> QED
  BY <1>1, <1>3, <1>5, <1>6 DEF Block, q

LEMMA SetOptionsBlock ==
  ASSUME NEW opts \in OptionSets, NEW t \in Timers
  PROVE  Block(SetOptions(t, opts)) /\ ClearShape(SetOptions(t, opts))
<1> DEFINE q == SetOptions(t, opts)
           bits == UNION { OptionsTable[o] : o \in opts }
<1>1. q \in Seq(Steps) /\ Len(q) = 1 /\ q # << >> /\ Head(q) = q[1]
      /\ q[1] = Store(t, bits)
  BY OptionTypes DEF SetOptions
<1>2. "LOAD" \notin bits /\ "ENT" \notin bits
  <2>1. \A o \in DOMAIN OptionsTable :
          "LOAD" \notin OptionsTable[o] /\ "ENT" \notin OptionsTable[o]
    BY DEF OptionsTable
  <2> QED
    BY <2>1, OptionsAssumption
<1> HIDE DEF q, bits
<1>3. ~Loads(q[1]) /\ Opens(q[1]) /\ ~StoresEnt(q[1]) /\ q[1].m = "store"
  BY <1>1, <1>2 DEF Loads, Opens, StoresEnt, Store, Step
<1>4. /\ \A i \in 1 .. Len(q) : i = 1
      /\ \A i \in 1 .. Len(q) : \A j \in 1 .. i : j = 1
      /\ \A i \in 1 .. Len(q) - 1 : FALSE
  BY <1>1
<1> QED
  BY <1>1, <1>3, <1>4 DEF Block, Shape, ClearShape, q

LEMMA PwmBlocks ==
  /\ \A running, valid : /\ Block(PwmConfigure(running, valid))
                         /\ ClearFree(PwmConfigure(running, valid))
  /\ Block(PwmEnable) /\ ClearFree(PwmEnable)
  /\ Block(PwmDisable) /\ ClearFree(PwmDisable)
<1> DEFINE Good(q) == Block(q) /\ ClearFree(q)
<1>1. 0 \in Timers /\ 1 \in Timers
  BY DEF Timers
<1>2. ASSUME NEW p, NEW q, Good(p), Good(q)
      PROVE  Good(p \o q)
  BY <1>2, JoinBlock, JoinFree DEF Block
<1>3. Good(<< >>)
  BY EmptyBlock
<1>4. \A t \in Timers : Good(Stop(t)) /\ Good(Reset(t))
  BY StopBlock, ResetBlock
<1>5. \A t \in Timers :
        /\ Good(PwmModes(t)) /\ Good(Modify(t, {}, {"CAPT"}))
        /\ Good(Modify(t, {"PWM", "GEN"}, {})) /\ Good(Modify(t, {"ENALL"}, {}))
        /\ Good(Modify(t, {}, {"PWM", "GEN"}))
  <2>1. /\ {"DOWN", "ARHT"} \in SUBSET Bits /\ {"CASC", "GEN"} \in SUBSET Bits
        /\ {"CAPT"} \in SUBSET Bits /\ {"PWM", "GEN"} \in SUBSET Bits
        /\ {"ENALL"} \in SUBSET Bits /\ {} \in SUBSET Bits
    BY DEF Bits
  <2>2. \A x \in {{"DOWN", "ARHT"}, {"PWM", "GEN"}, {"ENALL"}, {}} :
          "LOAD" \notin x /\ "ENT" \notin x
    OBVIOUS
  <2> QED
    BY <2>1, <2>2, ModifyBlock DEF PwmModes
<1>6. ASSUME NEW m \in {"pwmOn", "pwmOff"}
      PROVE  Good(<< Step(m, 0, {}, {}) >>)
  <2> DEFINE q == << Step(m, 0, {}, {}) >>
  <2>1. q \in Seq(Steps)
    BY <1>1, StepTypes DEF Moves
  <2>2. Len(q) = 1 /\ q[1] = Step(m, 0, {}, {}) /\ q # << >> /\ Head(q) = q[1]
    OBVIOUS
  <2> HIDE DEF q
  <2>3. q[1].m \in {"pwmOn", "pwmOff"}
    BY <2>2 DEF Step
  <2> QED
    BY <2>1, <2>2, <2>3
    DEF Block, Shape, Opens, Loads, ClearFree, Clears, StoresEnt
<1> HIDE DEF Good
<1>7. ASSUME NEW running, NEW valid
      PROVE  Good(PwmConfigure(running, valid))
  BY <1>1, <1>2, <1>3, <1>4, <1>5 DEF PwmConfigure
<1>8. Good(PwmEnable)
  BY <1>1, <1>2, <1>4, <1>5, <1>6 DEF PwmEnable
<1>9. Good(PwmDisable)
  BY <1>1, <1>2, <1>4, <1>5, <1>6 DEF PwmDisable
<1> QED
  BY <1>7, <1>8, <1>9 DEF Good

-----------------------------------------------------------------------------
(* The steps of the main program.                                          *)

Rest == QueueInv /\ ContextInv /\ LoadInv /\ EntInv

LEMMA BlockHead ==
  ASSUME NEW q, Block(q), q # << >>
  PROVE  ~Starting(Head(q)) /\ ~Plain(Head(q)) /\ Head(q).m \notin {"stopped", "ack"}
  BY DEF Block, Opens, Starting, Plain

\* While no call is in progress no timer is held in reset.
LEMMA IdleLoads ==
  ASSUME IInv, ready, Idle("main"), NEW t \in Timers, ~HeadReleases("isr", t)
  PROVE  "LOAD" \notin tcsr[t] /\ ~MainReleases(t) /\ ~ClearPending(t)
<1>1. todo["main"] = << >> /\ ~HeadReleases("main", t)
  BY DEF Idle, HeadReleases
<1>2. ~ClearPending(t)
  BY <1>1 DEF ClearPending, Pending
<1> QED
  BY <1>1, <1>2 DEF MainReleases, IInv, LoadInv

LEMMA BeginInv ==
  ASSUME IInv, NEW steps, Begin(steps), Block(steps), ClearShape(steps),
         UNCHANGED started,
         ready' => ready \/ \A t \in Timers : Pending(steps, t),
         ~ready' => ~ready /\ steps = << >>
  PROVE  Rest'
<1>1. /\ todo["main"] = << >> /\ todo["isr"] = << >>
      /\ todo'["main"] = steps /\ todo'["isr"] = << >>
      /\ UNCHANGED <<tcsr, held, reg>>
      /\ Ctx = {"main", "isr"}
  BY DEF Begin, Idle, IInv, TypeOK, Ctx
<1>2. QueueInv'
  BY <1>1, EmptyBlock DEF QueueInv, Block
<1>3. ContextInv'
  BY <1>1 DEF IInv, ContextInv, Idle
<1>4. ASSUME NEW t \in Timers, ready'
      PROVE  /\ "LOAD" \in tcsr'[t] => ClearPending(t)'
             /\ "ENT" \in tcsr'[t] => started'[t] \/ ClearPending(t)'
  <2>1. CASE ready
    <3>1. "LOAD" \notin tcsr[t] /\ ~ClearPending(t)
      BY <1>1, <2>1, IdleLoads DEF Idle, HeadReleases
    <3> QED
      BY <1>1, <2>1, <3>1 DEF IInv, EntInv, EnabledIsStarted
  <2>2. CASE \A u \in Timers : Pending(steps, u)
    BY <1>1, <2>2 DEF ClearPending
  <2> QED
    BY <1>4, <2>1, <2>2
<1>5. LoadInv'
  BY <1>1, <1>4 DEF IInv, LoadInv, MainReleases, Idle
<1>6. EntInv'
  <2>1. steps # << >> => /\ ~Starting(Head(steps)) /\ ~Plain(Head(steps))
                         /\ Head(steps).m \notin {"stopped", "ack"}
    BY BlockHead
  <2> QED
    BY <1>1, <1>4, <2>1 DEF EntInv, EnabledIsStarted, Idle
<1> QED
  BY <1>2, <1>3, <1>5, <1>6 DEF Rest

LEMMA CallInv ==
  ASSUME IInv,
         \/ CallInitialize \/ CallInitHw \/ CallPwm \/ CallSetHandler \/ CallClearStats
         \/ \E t \in Timers : CallOnTimer(t)
  PROVE  Rest'
<1>1. Block(<< >>) /\ ClearShape(<< >>)
  BY EmptyBlock DEF ClearShape
<1>2. ASSUME NEW name, NEW steps, Call(name, steps), Block(steps), ClearShape(steps),
             UNCHANGED <<started, ready>>
      PROVE  Rest'
  BY <1>2, BeginInv DEF Call
<1>3. ASSUME NEW q, Block(q), ClearFree(q)
      PROVE  ClearShape(q)
  BY <1>3, FreeIsShaped DEF Block
<1>4. CASE CallInitialize
  <2>1. CASE Stopped # {} /\ CfgInitialize /\ Begin(InitHwSteps)
    <3>1. ~ready => Stopped = Timers
      BY DEF Stopped, IInv, ContextInv
    <3> QED
      BY <2>1, <3>1, InitHwBlock, BeginInv DEF CfgInitialize
  <2>2. CASE Begin(<< >>) /\ UNCHANGED driver
    BY <1>1, <2>2, BeginInv DEF driver
  <2> QED
    BY <1>4, <2>1, <2>2 DEF CallInitialize
<1>5. CASE CallInitHw
  BY <1>2, <1>5, InitHwBlock DEF CallInitHw, driver
<1>6. CASE CallPwm
  <2>1. UNCHANGED <<started, ready>>
    BY <1>6 DEF CallPwm, CallPwmConfigure, CallPwmSwitch, driver
  <2>2. PICK name, steps : /\ Call(name, steps)
                           /\ Block(steps) /\ ClearShape(steps)
    BY <1>1, <1>3, <1>6, PwmBlocks DEF CallPwm, CallPwmConfigure, CallPwmSwitch
  <2> QED
    BY <1>2, <2>1, <2>2
<1>7. CASE CallSetHandler
  BY <1>1, <1>2, <1>7 DEF CallSetHandler
<1>8. CASE CallClearStats
  BY <1>1, <1>2, <1>8 DEF CallClearStats
<1>9. ASSUME NEW t \in Timers, CallOnTimer(t)
      PROVE  Rest'
  <2>1. UNCHANGED <<started, ready>>
    BY <1>9 DEF CallOnTimer, CallInPlace, CallSelfTest, CallSetOptions, driver
  <2>2. PICK name, steps : /\ Call(name, steps)
                           /\ Block(steps) /\ ClearShape(steps)
    BY <1>3, <1>9, StartBlock, StopBlock, ResetBlock, SelfTestBlock, SetOptionsBlock
    DEF CallOnTimer, CallInPlace, CallSelfTest, CallSetOptions
  <2> QED
    BY <1>2, <2>1, <2>2
<1> QED
  BY <1>4, <1>5, <1>6, <1>7, <1>8, <1>9

\* What the invariant says of the step at the head of a queue.
LEMMA HeadFacts ==
  ASSUME IInv, NEW c \in Ctx, ~Idle(c)
  PROVE  LET h == Head(todo[c])
             r == Tail(todo[c])
         IN  /\ ready
             /\ todo[c] \in Seq(Steps) /\ todo[c] # << >>
             /\ h \in Steps /\ h.t \in Timers /\ r \in Seq(Steps)
             /\ Shape(r) /\ (r # << >> => Follows(h, Head(r)))
             /\ Loads(h) => r # << >>
<1>1. ready
  BY DEF IInv, ContextInv
<1>2. todo[c] \in Seq(Steps) /\ todo[c] # << >> /\ Shape(todo[c])
  BY DEF IInv, TypeOK, QueueInv, Idle
<1>3. /\ Head(todo[c]) \in Steps /\ Head(todo[c]).t \in Timers
      /\ Tail(todo[c]) \in Seq(Steps)
  BY QueueTypes DEF IInv
<1> QED
  BY <1>1, <1>2, <1>3, TailShape

LEMMA ExecQueues ==
  ASSUME IInv, NEW c \in Ctx, ~Idle(c),
         todo' = [todo EXCEPT ![c] = Tail(@)], UNCHANGED ready
  PROVE  QueueInv' /\ ContextInv'
<1>1. /\ ready /\ todo[c] \in Seq(Steps) /\ todo[c] # << >>
      /\ Tail(todo[c]) \in Seq(Steps) /\ Shape(Tail(todo[c]))
  BY HeadFacts
<1>2. /\ c \in {"main", "isr"} /\ "main" \in Ctx /\ "isr" \in Ctx
      /\ todo'[c] = Tail(todo[c])
      /\ \A d \in Ctx : d # c => todo'[d] = todo[d]
  BY DEF IInv, TypeOK, Ctx
<1>3. \A d \in Ctx : Shape(todo'[d])
  BY <1>1, <1>2 DEF IInv, QueueInv
<1>4. ClearShape(todo'["main"]) /\ ClearFree(todo'["isr"])
  <2>1. ClearShape(todo["main"]) /\ ClearFree(todo["isr"])
    BY DEF IInv, QueueInv
  <2>2. CASE c = "main"
    BY <1>1, <1>2, <2>1, <2>2, TailClear
  <2>3. CASE c = "isr"
    BY <1>1, <1>2, <2>1, <2>3, TailFree
  <2> QED
    BY <1>2, <2>2, <2>3
<1>5. ContextInv'
  <2>1. ready'
    BY <1>1
  <2>2. \A d \in Ctx : todo'[d] # << >> => todo[d] # << >>
    BY <1>1, <1>2
  <2>3. Masked /\ ~Idle("isr")' => Idle("main")'
    BY <1>2, <2>2 DEF IInv, ContextInv, Idle
  <2>4. ASSUME ~Idle("isr")', ~Idle("main")'
        PROVE  AllMeek(todo'["isr"])
    <3>1. AllMeek(todo["isr"])
      BY <1>2, <2>2, <2>4 DEF IInv, ContextInv, Idle
    <3> QED
      BY <1>1, <1>2, <3>1, TailFree
  <2> QED
    BY <2>1, <2>3, <2>4 DEF ContextInv
<1> QED
  BY <1>3, <1>4, <1>5 DEF QueueInv

\* A step of the main program keeps LoadInv if it sets LOAD only with a step
\* that another one releases.
LEMMA MainLoad ==
  ASSUME IInv, ~Idle("main"), Idle("isr"),
         todo' = [todo EXCEPT !["main"] = Tail(@)], "LOAD" \notin reg'["main"],
         \A t \in Timers : "LOAD" \in tcsr'[t] =>
           \/ Loads(Head(todo["main"])) /\ Head(todo["main"]).t = t
           \/ /\ "LOAD" \in tcsr[t]
              /\ ~(Head(todo["main"]).m \in {"write", "store"}
                   /\ Head(todo["main"]).t = t)
  PROVE  LoadInv'
<1> DEFINE h == Head(todo["main"])
           r == Tail(todo["main"])
<1>1. /\ ready /\ todo["main"] \in Seq(Steps) /\ todo["main"] # << >>
      /\ r # << >> => Follows(h, Head(r))
      /\ Loads(h) => r # << >>
  BY HeadFacts DEF Ctx
<1>2. todo'["main"] = r /\ todo'["isr"] = << >>
  BY DEF IInv, TypeOK, Ctx, Idle
<1>3. ClearShape(todo["main"])
  BY DEF IInv, QueueInv
<1>4. /\ h.m # "store" => \A t \in Timers : ~Pending(todo["main"], t)
      /\ \A t \in Timers : Pending(todo["main"], t) /\ h.t # t => Pending(r, t)
  BY <1>1, <1>3, TailClear
<1>5. ASSUME NEW t \in Timers, Loads(h), h.t = t
      PROVE  HeadReleases("main", t)'
  <2>1. r # << >> /\ Releases(Head(r), t)
    BY <1>1, <1>5 DEF Follows
  <2> QED
    BY <1>2, <2>1 DEF HeadReleases, Idle
<1>6. ASSUME NEW t \in Timers, "LOAD" \in tcsr[t],
             ~(h.m \in {"write", "store"} /\ h.t = t)
      PROVE  MainReleases(t)'
  <2>1. MainReleases(t)
    BY <1>1, <1>6 DEF IInv, LoadInv, HeadReleases
  <2>2. CASE ClearPending(t)
    <3>1. Pending(r, t)
      BY <1>4, <1>6, <2>2 DEF ClearPending
    <3> QED
      BY <1>2, <3>1 DEF MainReleases, ClearPending
  <2>3. CASE HeadReleases("main", t)
    <3>1. h.m = "started" /\ h.t = t
      BY <1>6, <2>3 DEF HeadReleases, Releases
    <3> QED
      BY <1>5, <3>1 DEF Loads, MainReleases
  <2> QED
    BY <2>1, <2>2, <2>3 DEF MainReleases
<1>7. \A t \in Timers : "LOAD" \in tcsr'[t] => MainReleases(t)'
  BY <1>5, <1>6 DEF MainReleases
<1> QED
  BY <1>2, <1>7 DEF LoadInv, Idle

\* While the main program's next step is not an unconditional write, an
\* enabled timer is a started one.
LEMMA MainEnabled ==
  ASSUME IInv, ready, ~Idle("main") => Head(todo["main"]).m # "store",
         NEW t \in Timers
  PROVE  ~ClearPending(t) /\ ("ENT" \in tcsr[t] => started[t])
<1>1. ~ClearPending(t)
  <2>1. CASE Idle("main")
    BY <2>1 DEF Idle, ClearPending, Pending
  <2>2. CASE ~Idle("main")
    <3>1. todo["main"] \in Seq(Steps) /\ todo["main"] # << >>
          /\ ClearShape(todo["main"])
      BY <2>2 DEF IInv, TypeOK, QueueInv, Ctx, Idle
    <3> QED
      BY <2>2, <3>1, TailClear DEF ClearPending
  <2> QED
    BY <2>1, <2>2
<1> QED
  BY <1>1 DEF IInv, EntInv, EnabledIsStarted

LEMMA MainRead ==
  ASSUME IInv, DoRead("main")
  PROVE  Rest'
<1> DEFINE h == Head(todo["main"])
           r == Tail(todo["main"])
<1>1. /\ ~Idle("main") /\ Idle("isr") /\ h.m = "read"
      /\ todo' = [todo EXCEPT !["main"] = Tail(@)]
      /\ reg' = [reg EXCEPT !["main"] = tcsr[h.t]]
      /\ UNCHANGED <<tcsr, held, ready, started>>
      /\ "main" \in Ctx /\ "isr" \in Ctx
  BY DEF DoRead, AtHead, driver, Ctx
<1>2. /\ ready /\ h.t \in Timers /\ (r # << >> => Follows(h, Head(r)))
  BY <1>1, HeadFacts
<1>3. /\ todo'["main"] = r /\ todo'["isr"] = << >>
      /\ reg'["main"] = tcsr[h.t]
  BY <1>1 DEF IInv, TypeOK, Idle
<1>4. \A t \in Timers : ~ClearPending(t) /\ ("ENT" \in tcsr[t] => started[t])
  BY <1>1, <1>2, MainEnabled
<1>5. \A t \in Timers : "LOAD" \notin tcsr[t]
  BY <1>1, <1>2, <1>4
  DEF IInv, LoadInv, MainReleases, HeadReleases, Releases
<1>6. QueueInv' /\ ContextInv'
  BY <1>1, ExecQueues
<1>7. LoadInv'
  BY <1>1, <1>2, <1>3, <1>5, MainLoad
<1>8. EntInv'
  <2>1. EnabledIsStarted'
    BY <1>1, <1>4 DEF EnabledIsStarted
  <2>2. ASSUME r # << >>
        PROVE  /\ ~Starting(Head(r)) /\ Head(r).m # "stopped"
               /\ Plain(Head(r)) \/ Head(r).m = "ack" => Head(r).t = h.t
    BY <1>1, <1>2, <2>2 DEF Follows, Starting, Plain
  <2> QED
    BY <1>1, <1>2, <1>3, <1>4, <2>1, <2>2 DEF EntInv, Idle, Ctx
<1> QED
  BY <1>6, <1>7, <1>8 DEF Rest

LEMMA PopReg ==
  ASSUME TypeOK, NEW c \in Ctx, Pop(c)
  PROVE  /\ todo' = [todo EXCEPT ![c] = Tail(@)]
         /\ reg'[c] = reg[c] \/ reg'[c] = {}
         /\ \A d \in Ctx : d # c => reg'[d] = reg[d] /\ todo'[d] = todo[d]
         /\ todo'[c] = Tail(todo[c])
  BY DEF TypeOK, Pop

\* What a write of v to t does to the bits the invariant is about.
LEMMA WriteBits ==
  ASSUME TypeOK, NEW t \in Timers, NEW v, BusWrite(t, v)
  PROVE  /\ \A b \in {"LOAD", "ENT"} : b \in tcsr'[t] <=> b \in v
         /\ \A u \in Timers : u # t => tcsr'[u] = tcsr[u]
  BY DEF TypeOK, BusWrite, AfterWrite

LEMMA MainWrite ==
  ASSUME IInv, DoWrite("main")
  PROVE  Rest'
<1> DEFINE h == Head(todo["main"])
           r == Tail(todo["main"])
           v == (reg["main"] \cup h.set) \ h.clr
<1>1. /\ ~Idle("main") /\ Idle("isr") /\ h.m = "write"
      /\ BusWrite(h.t, v) /\ Pop("main") /\ UNCHANGED <<ready, started>>
      /\ "main" \in Ctx /\ "isr" \in Ctx /\ TypeOK
  BY DEF DoWrite, AtHead, driver, Ctx, IInv
<1>2. /\ ready /\ h.t \in Timers /\ (r # << >> => Follows(h, Head(r)))
  BY <1>1, HeadFacts
<1>3. /\ todo' = [todo EXCEPT !["main"] = Tail(@)]
      /\ todo'["main"] = r /\ todo'["isr"] = << >>
      /\ reg'["main"] = reg["main"] \/ reg'["main"] = {}
  BY <1>1, PopReg DEF Idle
<1>4. \A t \in Timers : ~ClearPending(t) /\ ("ENT" \in tcsr[t] => started[t])
  BY <1>1, <1>2, MainEnabled
<1>5. /\ "LOAD" \in tcsr'[h.t] <=> "LOAD" \in v
      /\ "ENT" \in tcsr'[h.t] <=> "ENT" \in v
      /\ \A u \in Timers : u # h.t => tcsr'[u] = tcsr[u]
  <2> HIDE DEF v, h
  <2> QED
    BY <1>1, <1>2, WriteBits
<1>6. "LOAD" \notin reg["main"] /\ "LOAD" \notin reg'["main"]
  BY <1>3 DEF IInv, LoadInv
<1>7. QueueInv' /\ ContextInv'
  BY <1>1, <1>3, ExecQueues
<1>8. LoadInv'
  <2>1. "LOAD" \in v => Loads(h)
    BY <1>1, <1>6 DEF Loads
  <2>2. ASSUME NEW t \in Timers, "LOAD" \in tcsr'[t]
        PROVE  \/ Loads(h) /\ h.t = t
               \/ "LOAD" \in tcsr[t] /\ ~(h.m \in {"write", "store"} /\ h.t = t)
    BY <1>5, <2>1, <2>2
  <2> QED
    BY <1>1, <1>3, <1>6, <2>2, MainLoad
<1>9. "ENT" \in v => started[h.t]
  <2>1. CASE "ENT" \in h.set
    BY <1>1, <2>1 DEF IInv, EntInv, Starting
  <2>2. CASE "ENT" \notin h.set /\ "ENT" \in v
    <3>1. Plain(h) /\ "ENT" \in reg["main"]
      BY <1>1, <2>2 DEF Plain
    <3> QED
      BY <1>1, <3>1 DEF IInv, EntInv
  <2> QED
    BY <2>1, <2>2
<1>10. EntInv'
  <2>1. EnabledIsStarted'
    BY <1>1, <1>2, <1>4, <1>5, <1>9 DEF EnabledIsStarted
  <2>2. ASSUME r # << >>
        PROVE  /\ ~Starting(Head(r)) /\ Head(r).m # "ack"
               /\ Head(r).m = "stopped" => Head(r).t = h.t /\ "ENT" \in h.clr
               /\ Plain(Head(r)) => Head(r).t = h.t /\ Plain(h)
    BY <1>1, <1>2, <2>2 DEF Follows, Starting, Plain
  <2>3. "ENT" \in h.clr => "ENT" \notin tcsr'[h.t]
    BY <1>5
  <2>4. Plain(h) /\ "ENT" \in reg["main"] =>
          /\ "ENT" \in tcsr'[h.t] /\ started'[h.t]
    BY <1>1, <1>5, <1>9 DEF Plain
  <2> HIDE DEF v
  <2>5. ASSUME r # << >>
        PROVE  /\ ~Starting(Head(r))
               /\ Head(r).m = "stopped" => "ENT" \notin tcsr'[Head(r).t]
               /\ (Plain(Head(r)) \/ Head(r).m = "ack") /\ "ENT" \in reg'["main"] =>
                    "ENT" \in tcsr'[Head(r).t] /\ started'[Head(r).t]
    BY <1>3, <2>2, <2>3, <2>4, <2>5
  <2> HIDE DEF r, h
  <2> QED
    BY <1>3, <2>1, <2>5 DEF EntInv, Idle, Ctx
<1> QED
  BY <1>7, <1>8, <1>10 DEF Rest

LEMMA MainStore ==
  ASSUME IInv, DoStore("main")
  PROVE  Rest'
<1> DEFINE h == Head(todo["main"])
           r == Tail(todo["main"])
<1>1. /\ ~Idle("main") /\ Idle("isr") /\ h.m = "store"
      /\ BusWrite(h.t, h.set) /\ Pop("main") /\ UNCHANGED <<ready, started>>
      /\ "main" \in Ctx /\ "isr" \in Ctx /\ TypeOK
  BY DEF DoStore, AtHead, driver, Ctx, IInv
<1>2. /\ ready /\ h.t \in Timers /\ (r # << >> => Follows(h, Head(r)))
      /\ todo["main"] \in Seq(Steps) /\ todo["main"] # << >>
  BY <1>1, HeadFacts
<1>3. /\ todo' = [todo EXCEPT !["main"] = Tail(@)]
      /\ todo'["main"] = r /\ todo'["isr"] = << >>
      /\ reg'["main"] = reg["main"] \/ reg'["main"] = {}
  BY <1>1, PopReg DEF Idle
<1>4. /\ \A t \in Timers : Pending(todo["main"], t) /\ h.t # t => Pending(r, t)
      /\ StoresEnt(h) => Pending(r, h.t)
  BY <1>2, TailClear DEF IInv, QueueInv
<1>5. /\ "LOAD" \in tcsr'[h.t] <=> "LOAD" \in h.set
      /\ "ENT" \in tcsr'[h.t] <=> "ENT" \in h.set
      /\ \A u \in Timers : u # h.t => tcsr'[u] = tcsr[u]
  <2> HIDE DEF h
  <2> QED
    BY <1>1, <1>2, WriteBits
<1>6. "LOAD" \notin reg'["main"]
  BY <1>3 DEF IInv, LoadInv
<1>7. QueueInv' /\ ContextInv'
  BY <1>1, <1>3, ExecQueues
<1>8. LoadInv'
  <2>1. "LOAD" \in h.set => Loads(h)
    BY <1>1 DEF Loads
  <2>2. ASSUME NEW t \in Timers, "LOAD" \in tcsr'[t]
        PROVE  \/ Loads(h) /\ h.t = t
               \/ "LOAD" \in tcsr[t] /\ ~(h.m \in {"write", "store"} /\ h.t = t)
    BY <1>5, <2>1, <2>2
  <2> QED
    BY <1>1, <1>3, <1>6, <2>2, MainLoad
<1>9. EntInv'
  <2>1. ASSUME NEW t \in Timers, "ENT" \in tcsr'[t]
        PROVE  started'[t] \/ Pending(r, t)
    <3>1. CASE t = h.t
      BY <1>1, <1>4, <1>5, <2>1, <3>1 DEF StoresEnt
    <3>2. CASE t # h.t
      BY <1>1, <1>2, <1>4, <1>5, <2>1, <3>2
      DEF IInv, EntInv, EnabledIsStarted, ClearPending
    <3> QED
      BY <3>1, <3>2
  <2>2. EnabledIsStarted'
    BY <1>3, <2>1 DEF EnabledIsStarted, ClearPending
  <2>3. r # << >> => /\ ~Starting(Head(r)) /\ ~Plain(Head(r))
                     /\ Head(r).m \notin {"stopped", "ack"}
    BY <1>1, <1>2 DEF Follows, Plain
  <2> HIDE DEF r, h
  <2> QED
    BY <1>3, <2>2, <2>3 DEF EntInv, Idle, Ctx
<1> QED
  BY <1>7, <1>8, <1>9 DEF Rest

LEMMA MainFlags ==
  ASSUME IInv, DoStarted("main") \/ DoPwm("main")
  PROVE  Rest'
<1> DEFINE h == Head(todo["main"])
           r == Tail(todo["main"])
<1>1. /\ ~Idle("main") /\ Idle("isr") /\ h.m \in {"started", "stopped", "pwmOn", "pwmOff"}
      /\ Pop("main") /\ UNCHANGED <<ready, tcsr>>
      /\ "main" \in Ctx /\ "isr" \in Ctx /\ TypeOK
  BY DEF DoStarted, DoPwm, AtHead, Ctx, IInv
<1>2. /\ ready /\ h.t \in Timers /\ (r # << >> => Follows(h, Head(r)))
  BY <1>1, HeadFacts
<1>3. /\ todo' = [todo EXCEPT !["main"] = Tail(@)]
      /\ todo'["main"] = r /\ todo'["isr"] = << >>
      /\ reg'["main"] = reg["main"] \/ reg'["main"] = {}
  BY <1>1, PopReg DEF Idle
<1>4. \A t \in Timers : ~ClearPending(t) /\ ("ENT" \in tcsr[t] => started[t])
  BY <1>1, <1>2, MainEnabled
<1>5. "LOAD" \notin reg'["main"]
  BY <1>3 DEF IInv, LoadInv
<1>6. QueueInv' /\ ContextInv'
  BY <1>1, <1>3, ExecQueues
<1>7. LoadInv'
  BY <1>1, <1>3, <1>5, MainLoad
<1>8. /\ h.m = "started" => started' = [started EXCEPT ![h.t] = TRUE]
      /\ h.m = "stopped" => started' = [started EXCEPT ![h.t] = FALSE]
      /\ h.m \in {"pwmOn", "pwmOff"} => started' = started
  BY DEF DoStarted, DoPwm, AtHead
<1>9. h.m = "stopped" => "ENT" \notin tcsr[h.t]
  BY <1>1 DEF IInv, EntInv
<1>10. \A t \in Timers : "ENT" \in tcsr'[t] => started'[t]
  BY <1>1, <1>2, <1>4, <1>8, <1>9 DEF TypeOK
<1>11. EntInv'
  <2>1. EnabledIsStarted'
    BY <1>10 DEF EnabledIsStarted
  <2>2. r # << >> => /\ ~Plain(Head(r)) /\ Head(r).m \notin {"stopped", "ack"}
                     /\ Starting(Head(r)) => started'[Head(r).t]
    BY <1>1, <1>2, <1>8 DEF Follows, Plain, Starting, TypeOK
  <2> HIDE DEF r, h
  <2> QED
    BY <1>3, <2>1, <2>2 DEF EntInv, Idle, Ctx
<1> QED
  BY <1>6, <1>7, <1>11 DEF Rest

-----------------------------------------------------------------------------
(* The steps of the interrupt handler.                                     *)

LEMMA IdleReleases ==
  ASSUME Idle("main"), NEW t
  PROVE  ~MainReleases(t) /\ ~ClearPending(t)
  BY DEF Idle, MainReleases, ClearPending, Pending, HeadReleases

\* The part of the invariant that is about the main program's call, which the
\* handler interrupted.
LEMMA IsrLoad ==
  ASSUME IInv, UNCHANGED ready,
         todo'["main"] = todo["main"], reg'["main"] = reg["main"],
         \A t \in Timers :
           "LOAD" \in tcsr'[t] => MainReleases(t) \/ HeadReleases("isr", t)',
         todo'["isr"] # << >> /\ Head(todo'["isr"]).m # "read"
           /\ "LOAD" \in reg'["isr"] => MainReleases(Head(todo'["isr"]).t)
  PROVE  LoadInv'
<1>1. \A t : MainReleases(t)' <=> MainReleases(t)
  BY DEF MainReleases, ClearPending, HeadReleases, Idle
<1>2. "LOAD" \notin reg'["main"]
  BY DEF IInv, LoadInv
<1>3. \A t \in Timers :
        "LOAD" \in tcsr'[t] => MainReleases(t)' \/ HeadReleases("isr", t)'
  BY <1>1
<1>4. (~Idle("isr") /\ Head(todo["isr"]).m # "read" /\ "LOAD" \in reg["isr"]
         => MainReleases(Head(todo["isr"]).t))'
  BY DEF MainReleases, ClearPending, HeadReleases, Idle
<1> QED
  BY <1>2, <1>3, <1>4 DEF LoadInv

LEMMA HandlerEnt ==
  ASSUME IInv, ready, Masked => Idle("main"), UNCHANGED ready,
         todo'["main"] = todo["main"], reg'["main"] = reg["main"],
         ~Idle("main") => /\ UNCHANGED started
                          /\ \A t \in Timers : "ENT" \in tcsr'[t] => "ENT" \in tcsr[t],
         Idle("main") => \A t \in Timers : "ENT" \in tcsr'[t] => started'[t],
         todo'["isr"] # << >> =>
           LET h == Head(todo'["isr"]) IN
           /\ Starting(h) => started'[h.t]
           /\ h.m = "stopped" => "ENT" \notin tcsr'[h.t]
           /\ (Plain(h) \/ h.m = "ack") /\ "ENT" \in reg'["isr"] => "ENT" \in tcsr'[h.t]
  PROVE  EntInv'
<1>1. ready /\ (Masked => Idle("main"))
  OBVIOUS
<1>2. EnabledIsStarted'
  <2>1. CASE Idle("main")
    BY <2>1 DEF EnabledIsStarted
  <2>2. CASE ~Idle("main")
    BY <1>1, <2>2 DEF IInv, EntInv, EnabledIsStarted, ClearPending
  <2> QED
    BY <2>1, <2>2
<1>3. ASSUME todo["main"] # << >>
      PROVE  LET h == Head(todo["main"]) IN
             /\ Starting(h) => started'[h.t]
             /\ h.m = "stopped" => "ENT" \notin tcsr'[h.t]
             /\ (Plain(h) \/ h.m = "ack") /\ "ENT" \in reg["main"] => started'[h.t]
  <2>1. ~Idle("main") /\ "main" \in Ctx
    BY <1>3 DEF Idle, Ctx
  <2>2. Head(todo["main"]).t \in Timers
    BY <2>1, HeadFacts
  <2> QED
    BY <2>1, <2>2 DEF IInv, EntInv
<1>4. ~Masked \/ todo["main"] = << >>
  BY <1>1 DEF Idle
<1> QED
  BY <1>2, <1>3, <1>4 DEF EntInv, Idle, Ctx

LEMMA IsrEnt ==
  ASSUME IInv, ~Idle("isr"), UNCHANGED ready,
         todo'["main"] = todo["main"], reg'["main"] = reg["main"],
         ~Idle("main") => /\ UNCHANGED started
                          /\ \A t \in Timers : "ENT" \in tcsr'[t] => "ENT" \in tcsr[t],
         Idle("main") => \A t \in Timers : "ENT" \in tcsr'[t] => started'[t],
         todo'["isr"] # << >> =>
           LET h == Head(todo'["isr"]) IN
           /\ Starting(h) => started'[h.t]
           /\ h.m = "stopped" => "ENT" \notin tcsr'[h.t]
           /\ (Plain(h) \/ h.m = "ack") /\ "ENT" \in reg'["isr"] => "ENT" \in tcsr'[h.t]
  PROVE  EntInv'
<1>1. ready
  BY HeadFacts DEF Ctx
<1>2. Masked => Idle("main")
  BY DEF IInv, ContextInv
<1> QED
  BY <1>1, <1>2, HandlerEnt

\* The step after a step of the handler works on the same timer, unless it
\* reads or the main program is idle.
LEMMA IsrHead ==
  ASSUME IInv, ~Idle("isr")
  PROVE  LET h == Head(todo["isr"])
             r == Tail(todo["isr"])
         IN  /\ ~Idle("main") => Meek(h)
             /\ ~Clears(h) /\ ~StoresEnt(h)
             /\ ~Idle("main") /\ r # << >> =>
                  Meek(Head(r)) /\ (Head(r).m # "read" => Head(r).t = h.t)
<1> DEFINE h == Head(todo["isr"])
           r == Tail(todo["isr"])
<1>1. /\ todo["isr"] \in Seq(Steps) /\ todo["isr"] # << >> /\ r \in Seq(Steps)
      /\ r # << >> => Follows(h, Head(r))
  BY HeadFacts DEF Ctx
<1>2. ClearFree(todo["isr"]) /\ (~Idle("main") => AllMeek(todo["isr"]))
  BY DEF IInv, QueueInv, ContextInv
<1>3. ~Clears(h) /\ ~StoresEnt(h) /\ (~Idle("main") => Meek(h) /\ AllMeek(r))
  BY <1>1, <1>2, TailFree
<1>4. ~Idle("main") /\ r # << >> => Meek(Head(r))
  BY <1>1, <1>3, TailFree
<1> QED
  BY <1>1, <1>3, <1>4 DEF Follows, Meek

\* A copy of TCSR with LOAD set is only kept while the main program releases.
LEMMA IsrCopy ==
  ASSUME IInv, ~Idle("isr"), Head(todo["isr"]).m # "read",
         todo'["isr"] = Tail(todo["isr"]),
         reg'["isr"] = reg["isr"] \/ reg'["isr"] = {}
  PROVE  todo'["isr"] # << >> /\ Head(todo'["isr"]).m # "read"
           /\ "LOAD" \in reg'["isr"] => MainReleases(Head(todo'["isr"]).t)
<1> DEFINE h == Head(todo["isr"])
           r == Tail(todo["isr"])
<1>1. "LOAD" \in reg["isr"] => MainReleases(h.t)
  BY DEF IInv, LoadInv
<1>2. CASE Idle("main")
  BY <1>1, <1>2, IdleReleases
<1>3. CASE ~Idle("main")
  BY <1>1, <1>3, IsrHead
<1> QED
  BY <1>2, <1>3

LEMMA IsrRead ==
  ASSUME IInv, DoRead("isr")
  PROVE  Rest'
<1> DEFINE h == Head(todo["isr"])
           r == Tail(todo["isr"])
<1>1. /\ ~Idle("isr") /\ h.m = "read"
      /\ todo' = [todo EXCEPT !["isr"] = Tail(@)]
      /\ reg' = [reg EXCEPT !["isr"] = tcsr[h.t]]
      /\ UNCHANGED <<tcsr, held, ready, started>>
      /\ "main" \in Ctx /\ "isr" \in Ctx
  BY DEF DoRead, AtHead, driver, Ctx
<1>2. /\ ready /\ h.t \in Timers /\ (r # << >> => Follows(h, Head(r)))
  BY <1>1, HeadFacts
<1>3. /\ todo'["main"] = todo["main"] /\ todo'["isr"] = r
      /\ reg'["main"] = reg["main"] /\ reg'["isr"] = tcsr[h.t]
  BY <1>1 DEF IInv, TypeOK
<1>4. \A t \in Timers : "LOAD" \in tcsr[t] => MainReleases(t)
  BY <1>1, <1>2 DEF IInv, LoadInv, HeadReleases, Releases
<1>5. QueueInv' /\ ContextInv'
  BY <1>1, ExecQueues
<1>6. LoadInv'
  <2>1. r # << >> /\ Head(r).m # "read" /\ "LOAD" \in tcsr[h.t] =>
          MainReleases(Head(r).t)
    BY <1>1, <1>2, <1>4, IdleReleases, IsrHead
  <2> HIDE DEF r, h
  <2> QED
    BY <1>1, <1>3, <1>4, <2>1, IsrLoad
<1>7. EntInv'
  <2>1. r # << >> => /\ ~Starting(Head(r)) /\ Head(r).m # "stopped"
                     /\ Plain(Head(r)) \/ Head(r).m = "ack" => Head(r).t = h.t
    BY <1>1, <1>2 DEF Follows, Starting, Plain
  <2>2. Idle("main") => \A t \in Timers : "ENT" \in tcsr[t] => started[t]
    BY <1>2, MainEnabled
  <2> HIDE DEF r, h
  <2> QED
    BY <1>1, <1>3, <2>1, <2>2, IsrEnt
<1> QED
  BY <1>5, <1>6, <1>7 DEF Rest

LEMMA IsrWrite ==
  ASSUME IInv, DoWrite("isr")
  PROVE  Rest'
<1> DEFINE h == Head(todo["isr"])
           r == Tail(todo["isr"])
           v == (reg["isr"] \cup h.set) \ h.clr
<1>1. /\ ~Idle("isr") /\ h.m = "write"
      /\ BusWrite(h.t, v) /\ Pop("isr") /\ UNCHANGED <<ready, started>>
      /\ "main" \in Ctx /\ "isr" \in Ctx /\ TypeOK
  BY DEF DoWrite, AtHead, driver, Ctx, IInv
<1>2. /\ ready /\ h.t \in Timers /\ (r # << >> => Follows(h, Head(r)))
      /\ Loads(h) => r # << >>
  BY <1>1, HeadFacts
<1>3. /\ todo' = [todo EXCEPT !["isr"] = Tail(@)]
      /\ todo'["isr"] = r /\ todo'["main"] = todo["main"]
      /\ reg'["isr"] = reg["isr"] \/ reg'["isr"] = {}
      /\ reg'["main"] = reg["main"]
  BY <1>1, PopReg
<1>4. /\ "LOAD" \in tcsr'[h.t] <=> "LOAD" \in v
      /\ "ENT" \in tcsr'[h.t] <=> "ENT" \in v
      /\ \A u \in Timers : u # h.t => tcsr'[u] = tcsr[u]
  <2> HIDE DEF v, h
  <2> QED
    BY <1>1, <1>2, WriteBits
<1>5. QueueInv' /\ ContextInv'
  BY <1>1, <1>3, ExecQueues
<1>6. LoadInv'
  <2>1. ASSUME NEW t \in Timers, "LOAD" \in tcsr'[t]
        PROVE  MainReleases(t) \/ HeadReleases("isr", t)'
    <3>1. CASE t # h.t
      BY <1>2, <1>4, <2>1, <3>1 DEF IInv, LoadInv, HeadReleases, Releases
    <3>2. CASE t = h.t /\ "LOAD" \in h.set
      <4>1. Loads(h)
        BY <1>1, <3>2 DEF Loads
      <4>2. r # << >> /\ Releases(Head(r), t)
        BY <1>2, <3>2, <4>1 DEF Follows
      <4> QED
        BY <1>3, <4>2 DEF HeadReleases, Idle
    <3>3. CASE t = h.t /\ "LOAD" \notin h.set
      <4>1. "LOAD" \in reg["isr"]
        BY <1>4, <2>1, <3>3
      <4> QED
        BY <1>1, <3>3, <4>1 DEF IInv, LoadInv
    <3> QED
      BY <3>1, <3>2, <3>3
  <2>2. todo'["isr"] # << >> /\ Head(todo'["isr"]).m # "read"
          /\ "LOAD" \in reg'["isr"] => MainReleases(Head(todo'["isr"]).t)
    BY <1>1, <1>3, IsrCopy
  <2> QED
    BY <1>1, <1>3, <2>1, <2>2, IsrLoad
<1>7. Plain(h) /\ "ENT" \in reg["isr"] => "ENT" \in tcsr[h.t] /\ "ENT" \in v
  BY <1>1 DEF IInv, EntInv, Plain
<1>8. "ENT" \in v => (Starting(h) /\ started[h.t]) \/ "ENT" \in tcsr[h.t]
  <2>1. CASE "ENT" \in h.set
    BY <1>1, <2>1 DEF IInv, EntInv, Starting
  <2>2. CASE "ENT" \notin h.set /\ "ENT" \in v
    <3>1. Plain(h) /\ "ENT" \in reg["isr"]
      BY <1>1, <2>2 DEF Plain
    <3> QED
      BY <1>7, <3>1
  <2> QED
    BY <2>1, <2>2
<1>9. EntInv'
  <2>1. ~Idle("main") => \A t \in Timers : "ENT" \in tcsr'[t] => "ENT" \in tcsr[t]
    <3>1. ~Idle("main") => ~Starting(h)
      BY <1>1, IsrHead DEF Meek
    <3> QED
      BY <1>4, <1>8, <3>1
  <2>2. Idle("main") => \A t \in Timers : "ENT" \in tcsr'[t] => started'[t]
    <3>1. Idle("main") => \A t \in Timers : "ENT" \in tcsr[t] => started[t]
      BY <1>2, MainEnabled
    <3> QED
      BY <1>1, <1>2, <1>4, <1>8, <3>1
  <2>3. r # << >> => /\ ~Starting(Head(r)) /\ Head(r).m # "ack"
                     /\ Head(r).m = "stopped" => Head(r).t = h.t /\ "ENT" \in h.clr
                     /\ Plain(Head(r)) => Head(r).t = h.t /\ Plain(h)
    BY <1>1, <1>2 DEF Follows, Starting, Plain
  <2>4. /\ "ENT" \in h.clr => "ENT" \notin tcsr'[h.t]
        /\ Plain(h) /\ "ENT" \in reg["isr"] => "ENT" \in tcsr'[h.t]
    BY <1>4, <1>7
  <2> HIDE DEF r, h, v
  <2>5. r # << >> =>
          /\ ~Starting(Head(r))
          /\ Head(r).m = "stopped" => "ENT" \notin tcsr'[Head(r).t]
          /\ (Plain(Head(r)) \/ Head(r).m = "ack") /\ "ENT" \in reg'["isr"] =>
               "ENT" \in tcsr'[Head(r).t]
    BY <1>3, <2>3, <2>4
  <2> QED
    BY <1>1, <1>3, <2>1, <2>2, <2>5, IsrEnt
<1> QED
  BY <1>5, <1>6, <1>9 DEF Rest

\* An unconditional write or a change of flags in the handler: only a callback
\* that starts or stops its timer makes one, and then the main program is idle.
LEMMA IsrStore ==
  ASSUME IInv, DoStore("isr")
  PROVE  Rest'
<1> DEFINE h == Head(todo["isr"])
           r == Tail(todo["isr"])
<1>1. /\ ~Idle("isr") /\ h.m = "store"
      /\ BusWrite(h.t, h.set) /\ Pop("isr") /\ UNCHANGED <<ready, started>>
      /\ "main" \in Ctx /\ "isr" \in Ctx /\ TypeOK
  BY DEF DoStore, AtHead, driver, Ctx, IInv
<1>2. /\ ready /\ h.t \in Timers /\ (r # << >> => Follows(h, Head(r)))
      /\ Loads(h) => r # << >>
  BY <1>1, HeadFacts
<1>3. /\ todo' = [todo EXCEPT !["isr"] = Tail(@)]
      /\ todo'["isr"] = r /\ todo'["main"] = todo["main"]
      /\ reg'["isr"] = reg["isr"] \/ reg'["isr"] = {}
      /\ reg'["main"] = reg["main"]
  BY <1>1, PopReg
<1>4. /\ "LOAD" \in tcsr'[h.t] <=> "LOAD" \in h.set
      /\ "ENT" \in tcsr'[h.t] <=> "ENT" \in h.set
      /\ \A u \in Timers : u # h.t => tcsr'[u] = tcsr[u]
  <2> HIDE DEF h
  <2> QED
    BY <1>1, <1>2, WriteBits
<1>5. Idle("main") /\ "ENT" \notin h.set
  BY <1>1, IsrHead DEF Meek, StoresEnt
<1>6. QueueInv' /\ ContextInv'
  BY <1>1, <1>3, ExecQueues
<1>7. LoadInv'
  <2>1. ASSUME NEW t \in Timers, "LOAD" \in tcsr'[t]
        PROVE  MainReleases(t) \/ HeadReleases("isr", t)'
    <3>1. CASE t # h.t
      BY <1>2, <1>4, <2>1, <3>1 DEF IInv, LoadInv, HeadReleases, Releases
    <3>2. CASE t = h.t
      <4>1. Loads(h)
        BY <1>1, <1>4, <2>1, <3>2 DEF Loads
      <4>2. r # << >> /\ Releases(Head(r), t)
        BY <1>2, <3>2, <4>1 DEF Follows
      <4> QED
        BY <1>3, <4>2 DEF HeadReleases, Idle
    <3> QED
      BY <3>1, <3>2
  <2>2. todo'["isr"] # << >> /\ Head(todo'["isr"]).m # "read"
          /\ "LOAD" \in reg'["isr"] => MainReleases(Head(todo'["isr"]).t)
    BY <1>1, <1>3, IsrCopy
  <2> QED
    BY <1>1, <1>3, <2>1, <2>2, IsrLoad
<1>8. EntInv'
  <2>1. \A t \in Timers : "ENT" \in tcsr'[t] => started'[t]
    <3>1. \A t \in Timers : "ENT" \in tcsr[t] => started[t]
      BY <1>2, <1>5, MainEnabled
    <3> QED
      BY <1>1, <1>2, <1>4, <1>5, <3>1
  <2>2. r # << >> => /\ ~Starting(Head(r)) /\ ~Plain(Head(r))
                     /\ Head(r).m \notin {"stopped", "ack"}
    BY <1>1, <1>2 DEF Follows, Plain
  <2> HIDE DEF r, h
  <2> QED
    BY <1>1, <1>3, <1>5, <2>1, <2>2, IsrEnt
<1> QED
  BY <1>6, <1>7, <1>8 DEF Rest

LEMMA IsrFlags ==
  ASSUME IInv, DoStarted("isr") \/ DoPwm("isr")
  PROVE  Rest'
<1> DEFINE h == Head(todo["isr"])
           r == Tail(todo["isr"])
<1>1. /\ ~Idle("isr") /\ h.m \in {"started", "stopped", "pwmOn", "pwmOff"}
      /\ Pop("isr") /\ UNCHANGED <<ready, tcsr>>
      /\ "main" \in Ctx /\ "isr" \in Ctx /\ TypeOK
  BY DEF DoStarted, DoPwm, AtHead, Ctx, IInv
<1>2. /\ ready /\ h.t \in Timers /\ (r # << >> => Follows(h, Head(r)))
      /\ Loads(h) => r # << >>
  BY <1>1, HeadFacts
<1>3. /\ todo' = [todo EXCEPT !["isr"] = Tail(@)]
      /\ todo'["isr"] = r /\ todo'["main"] = todo["main"]
      /\ reg'["isr"] = reg["isr"] \/ reg'["isr"] = {}
      /\ reg'["main"] = reg["main"]
  BY <1>1, PopReg
<1>4. Idle("main")
  BY <1>1, IsrHead DEF Meek
<1>5. QueueInv' /\ ContextInv'
  BY <1>1, <1>3, ExecQueues
<1>6. LoadInv'
  <2>1. ASSUME NEW t \in Timers, "LOAD" \in tcsr'[t]
        PROVE  MainReleases(t) \/ HeadReleases("isr", t)'
    <3>1. MainReleases(t) \/ HeadReleases("isr", t)
      BY <1>1, <1>2, <2>1 DEF IInv, LoadInv
    <3>2. CASE HeadReleases("isr", t)
      <4>1. h.m = "started" /\ h.t = t
        BY <1>1, <3>2 DEF HeadReleases, Releases
      <4>2. r # << >> /\ Releases(Head(r), t)
        BY <1>2, <4>1 DEF Follows, Loads
      <4> QED
        BY <1>3, <4>2 DEF HeadReleases, Idle
    <3> QED
      BY <3>1, <3>2
  <2>2. todo'["isr"] # << >> /\ Head(todo'["isr"]).m # "read"
          /\ "LOAD" \in reg'["isr"] => MainReleases(Head(todo'["isr"]).t)
    BY <1>1, <1>3, IsrCopy
  <2> QED
    BY <1>1, <1>3, <2>1, <2>2, IsrLoad
<1>7. /\ h.m = "started" => started' = [started EXCEPT ![h.t] = TRUE]
      /\ h.m = "stopped" => started' = [started EXCEPT ![h.t] = FALSE]
      /\ h.m \in {"pwmOn", "pwmOff"} => started' = started
  BY DEF DoStarted, DoPwm, AtHead
<1>8. h.m = "stopped" => "ENT" \notin tcsr[h.t]
  BY <1>1 DEF IInv, EntInv
<1>9. EntInv'
  <2>1. \A t \in Timers : "ENT" \in tcsr'[t] => started'[t]
    <3>1. \A t \in Timers : "ENT" \in tcsr[t] => started[t]
      BY <1>2, <1>4, MainEnabled
    <3> QED
      BY <1>1, <1>2, <1>7, <1>8, <3>1 DEF TypeOK
  <2>2. r # << >> => /\ ~Plain(Head(r)) /\ Head(r).m \notin {"stopped", "ack"}
                     /\ Starting(Head(r)) => started'[Head(r).t]
    BY <1>1, <1>2, <1>7 DEF Follows, Plain, Starting, TypeOK
  <2> HIDE DEF r, h
  <2> QED
    BY <1>1, <1>3, <1>4, <2>1, <2>2, IsrEnt
<1> QED
  BY <1>5, <1>6, <1>9 DEF Rest

\* The steps that replace a look or an acknowledgement may be followed by what
\* followed it.
LEMMA ReplaceShape ==
  ASSUME NEW q \in Seq(Steps), q # << >>, Shape(q), Head(q).m \in {"test", "ack"},
         NEW p \in Seq(Steps), p # << >>, Shape(p), p[Len(p)].t = Head(q).t
  PROVE  p \o Tail(q) \in Seq(Steps) /\ Shape(p \o Tail(q))
<1> DEFINE r == Tail(q)
<1>1. r \in Seq(Steps) /\ Shape(r) /\ (r # << >> => Follows(Head(q), Head(r)))
  BY TailFacts, TailShape
<1>2. ~Loads(p[Len(p)])
  BY DEF Shape
<1>3. r # << >> => Follows(p[Len(p)], Head(r))
  <2> HIDE DEF r
  <2> QED
    BY <1>1, <1>2 DEF Follows, Starting, Plain
<1> QED
  BY <1>1, <1>3, JoinShape, JoinFacts

\* A callback that may interrupt a driver call only resets its timer.
LEMMA CallbackBlock ==
  ASSUME NEW t \in Timers, NEW h \in {"stub"} \cup CallbackOps
  PROVE  /\ Block(Callback(h, t)) /\ ClearFree(Callback(h, t))
         /\ Callback(h, t) # << >> => Head(Callback(h, t)) = Read(t)
         /\ ~Masked => AllMeek(Callback(h, t))
<1>1. h \in {"stub", "Reset", "Start", "Stop"}
  BY CallbackAssumption
<1>2. h \in {"Start", "Stop"} => Masked
  BY ExclusionAssumption
<1>3. CASE h = "stub"
  BY <1>3, EmptyBlock DEF Callback
<1>4. CASE h = "Reset"
  <2>1. Callback(h, t) = Reset(t) /\ Head(Reset(t)) = Read(t)
    BY <1>4 DEF Callback, Reset
  <2> QED
    BY <2>1, ResetBlock
<1>5. CASE h = "Start"
  <2>1. Callback(h, t) = Start(t) /\ Head(Start(t)) = Read(t)
    BY <1>5 DEF Callback, Start
  <2> QED
    BY <1>2, <1>5, <2>1, StartBlock
<1>6. CASE h = "Stop"
  <2>1. Callback(h, t) = Stop(t) /\ Head(Stop(t)) = Read(t)
    BY <1>6 DEF Callback, Stop
  <2> QED
    BY <1>2, <1>6, <2>1, StopBlock
<1> QED
  BY <1>1, <1>3, <1>4, <1>5, <1>6

LEMMA AckBlock ==
  ASSUME NEW t \in Timers
  PROVE  LET q == << Read(t), Step("ack", t, {}, {}) >> IN
         /\ Block(q) /\ ClearFree(q) /\ AllMeek(q)
         /\ q # << >> /\ Len(q) = 2 /\ Head(q) = Read(t) /\ q[2].t = t
<1> DEFINE q == << Read(t), Step("ack", t, {}, {}) >>
<1>1. q \in Seq(Steps) /\ Len(q) = 2 /\ q # << >> /\ Head(q) = Read(t)
      /\ q[1] = Read(t) /\ q[2] = Step("ack", t, {}, {})
  BY HandlerTypes
<1> HIDE DEF q
<1>2. Follows(Read(t), Step("ack", t, {}, {}))
  BY DEF Follows, Starting, Plain, Loads, Read, Step
<1>3. ~Loads(Step("ack", t, {}, {})) /\ Opens(Read(t)) /\ q[2].t = t
  BY <1>1 DEF Loads, Opens, Read, Step
<1>4. Shape(q)
  <2>1. \A i \in 1 .. Len(q) - 1 : i = 1
    BY <1>1
  <2> QED
    BY <1>1, <1>2, <1>3, <2>1 DEF Shape
<1>5. \A i \in 1 .. Len(q) : i = 1 \/ i = 2
  BY <1>1
<1>6. ClearFree(q)
  BY <1>1, <1>5 DEF ClearFree, Clears, StoresEnt, Read, Step
<1>7. AllMeek(q)
  BY <1>1, <1>5 DEF AllMeek, Meek, Starting, Read, Step
<1> QED
  BY <1>1, <1>3, <1>4, <1>6, <1>7 DEF Block, q

\* The acknowledging writes: they never enable, and they release what they reset.
LEMMA AcknowledgeShape ==
  ASSUME NEW t \in Timers, NEW copy
  PROVE  LET p == Acknowledge(t, copy) IN
         /\ p \in Seq(Steps) /\ p # << >> /\ Shape(p) /\ ClearFree(p) /\ AllMeek(p)
         /\ p[Len(p)].t = t
         /\ Head(p).m = "write" /\ Head(p).t = t /\ ~Starting(Head(p))
<1> DEFINE p == Acknowledge(t, copy)
<1>1. CASE copy \cap {"ARHT", "CAPT"} = {}
  <2>1. /\ p \in Seq(Steps) /\ Len(p) = 3 /\ p # << >> /\ Head(p) = p[1]
        /\ p[1] = Write(t, {"LOAD"}, {"ENT"}) /\ p[2] = Write(t, {}, {"ENT"})
        /\ p[3] = Write(t, {"INT"}, {"ENT"})
    BY <1>1, HandlerTypes DEF Acknowledge
  <2> HIDE DEF p
  <2>2. Follows(p[1], p[2])
    BY <2>1 DEF Follows, Starting, Plain, Releases, Write, Step
  <2>3. Follows(p[2], p[3])
    BY <2>1 DEF Follows, Starting, Plain, Loads, Write, Step
  <2>4. ~Loads(p[3]) /\ p[3].t = t /\ p[1].t = t
        /\ \A i \in {1, 2, 3} : p[i].m = "write" /\ ~Starting(p[i])
    BY <2>1 DEF Loads, Starting, Write, Step
  <2>5. /\ \A i \in 1 .. Len(p) : i \in {1, 2, 3}
        /\ \A i \in 1 .. Len(p) - 1 : i = 1 \/ i = 2
    BY <2>1
  <2>6. Shape(p)
    BY <2>1, <2>2, <2>3, <2>4, <2>5 DEF Shape
  <2>7. ClearFree(p) /\ AllMeek(p)
    BY <2>4, <2>5 DEF ClearFree, Clears, StoresEnt, AllMeek, Meek
  <2> QED
    BY <2>1, <2>4, <2>6, <2>7 DEF p
<1>2. CASE copy \cap {"ARHT", "CAPT"} # {}
  <2>1. /\ p \in Seq(Steps) /\ Len(p) = 1 /\ p # << >> /\ Head(p) = p[1]
        /\ p[1] = Write(t, {"INT"}, {})
    BY <1>2, HandlerTypes DEF Acknowledge
  <2> HIDE DEF p
  <2>2. ~Loads(p[1]) /\ p[1].t = t /\ p[1].m = "write" /\ ~Starting(p[1])
    BY <2>1 DEF Loads, Starting, Write, Step
  <2>3. (\A i \in 1 .. Len(p) : i = 1) /\ (\A i \in 1 .. Len(p) - 1 : FALSE)
    BY <2>1
  <2>4. Shape(p) /\ ClearFree(p) /\ AllMeek(p)
    BY <2>1, <2>2, <2>3 DEF Shape, ClearFree, Clears, StoresEnt, AllMeek, Meek
  <2> QED
    BY <2>1, <2>2, <2>4 DEF p
<1> QED
  BY <1>1, <1>2

\* The queue and context invariants after the handler put p before the rest of
\* its queue.
LEMMA ReplaceQueues ==
  ASSUME IInv, ~Idle("isr"), Head(todo["isr"]).m \in {"test", "ack"}, UNCHANGED ready,
         NEW p \in Seq(Steps), p # << >>, Shape(p), ClearFree(p), ~Masked => AllMeek(p),
         p[Len(p)].t = Head(todo["isr"]).t,
         todo' = [todo EXCEPT !["isr"] = p \o Tail(todo["isr"])]
  PROVE  /\ QueueInv' /\ ContextInv'
         /\ todo'["main"] = todo["main"]
         /\ todo'["isr"] # << >> /\ Head(todo'["isr"]) = Head(p)
<1> DEFINE r == Tail(todo["isr"])
<1>1. /\ ready /\ todo["isr"] \in Seq(Steps) /\ todo["isr"] # << >>
      /\ r \in Seq(Steps) /\ Shape(todo["isr"])
  BY HeadFacts DEF Ctx, IInv, QueueInv
<1>2. p \o r \in Seq(Steps) /\ Shape(p \o r) /\ p \o r # << >> /\ Head(p \o r) = Head(p)
  BY <1>1, ReplaceShape
<1>3. todo'["main"] = todo["main"] /\ todo'["isr"] = p \o r /\ Ctx = {"main", "isr"}
  BY DEF IInv, TypeOK, Ctx
<1>4. ClearFree(todo["isr"])
  BY DEF IInv, QueueInv
<1>5. ClearFree(p \o r)
  BY <1>1, <1>4, TailFree, JoinFree
<1>6. ASSUME ~Idle("main")
      PROVE  ~Masked /\ AllMeek(p \o r)
  <2>1. ~Masked /\ AllMeek(todo["isr"])
    BY <1>6 DEF IInv, ContextInv
  <2> QED
    BY <1>1, <2>1, TailFree, JoinFree
<1> HIDE DEF r
<1>7. QueueInv'
  BY <1>2, <1>3, <1>5 DEF QueueInv, IInv
<1>8. ContextInv'
  BY <1>1, <1>3, <1>6 DEF ContextInv, Idle
<1> QED
  BY <1>2, <1>3, <1>7, <1>8

LEMMA TestInv ==
  ASSUME IInv, DoTest
  PROVE  Rest'
<1> DEFINE h == Head(todo["isr"])
           r == Tail(todo["isr"])
<1>1. /\ ~Idle("isr") /\ h.m = "test" /\ UNCHANGED <<tcsr, held, ready, started, handler>>
      /\ "main" \in Ctx /\ "isr" \in Ctx /\ TypeOK
  BY DEF DoTest, AtHead, Ctx, IInv
<1>2. /\ ready /\ h.t \in Timers /\ (r # << >> => Follows(h, Head(r)))
  BY <1>1, HeadFacts
<1>3. \A t \in Timers : "LOAD" \in tcsr[t] => MainReleases(t)
  BY <1>1, <1>2 DEF IInv, LoadInv, HeadReleases, Releases
<1>4. Idle("main") => \A t \in Timers : "ENT" \in tcsr[t] => started[t]
  BY <1>2, MainEnabled
<1>5. CASE {"ENIT", "INT"} \subseteq reg["isr"]
  <2> DEFINE a == Callback(handler, h.t)
             b == << Read(h.t), Step("ack", h.t, {}, {}) >>
             p == a \o b
  <2>1. /\ Block(a) /\ ClearFree(a) /\ (~Masked => AllMeek(a))
        /\ a # << >> => Head(a) = Read(h.t)
    BY <1>1, <1>2, CallbackBlock DEF TypeOK
  <2>2. /\ Block(b) /\ ClearFree(b) /\ AllMeek(b)
        /\ b # << >> /\ Len(b) = 2 /\ Head(b) = Read(h.t) /\ b[2].t = h.t
    BY <1>2, AckBlock
  <2>3. todo' = [todo EXCEPT !["isr"] = p \o r] /\ UNCHANGED reg
    BY <1>5 DEF DoTest
  <2> HIDE DEF a, b, r
  <2>4. a \in Seq(Steps) /\ b \in Seq(Steps) /\ b # << >>
    BY <2>1, <2>2, Zenon DEF Block
  <2>5. /\ p \in Seq(Steps) /\ Len(p) = Len(a) + 2 /\ Len(a) \in Nat
        /\ p[Len(a) + 2] = b[2]
    <3>1. 2 \in 1 .. Len(b)
      BY <2>2
    <3>2. /\ p \in Seq(Steps) /\ Len(a) \in Nat /\ Len(p) = Len(a) + Len(b)
          /\ \A i \in 1 .. Len(b) : p[Len(a) + i] = b[i]
      BY <2>4, JoinFacts
    <3> QED
      BY <2>2, <3>1, <3>2
  <2>6. Shape(p) /\ ClearFree(p) /\ (~Masked => AllMeek(p))
    BY <2>1, <2>2, <2>4, JoinBlock, JoinFree DEF Block
  <2>7. Head(p) = Read(h.t)
    <3>1. CASE a = << >>
      BY <2>2, <2>4, <3>1, JoinFacts
    <3>2. CASE a # << >>
      BY <2>1, <2>4, <3>2, JoinFacts
    <3> QED
      BY <3>1, <3>2
  <2>8. p # << >> /\ p[Len(p)].t = h.t
    <3>1. Len(p) # 0 /\ Len(<< >>) = 0
      BY <2>5
    <3> QED
      BY <2>2, <2>5, <3>1
  <2> HIDE DEF p
  <2>9. /\ QueueInv' /\ ContextInv' /\ todo'["main"] = todo["main"]
        /\ todo'["isr"] # << >> /\ Head(todo'["isr"]) = Read(h.t)
    BY <1>1, <2>3, <2>5, <2>6, <2>7, <2>8, ReplaceQueues DEF r
  <2>10. Head(todo'["isr"]).m = "read"
    BY <2>9 DEF Read, Step
  <2>11. reg' = reg
    BY <2>3
  <2>12. LoadInv'
    BY <1>1, <1>3, <2>9, <2>10, <2>11, IsrLoad
  <2>13. EntInv'
    BY <1>1, <1>4, <2>9, <2>10, <2>11, IsrEnt DEF Starting, Plain
  <2> QED
    BY <2>9, <2>12, <2>13 DEF Rest
<1>6. CASE ~({"ENIT", "INT"} \subseteq reg["isr"])
  <2>1. Pop("isr")
    BY <1>6 DEF DoTest
  <2>2. /\ todo' = [todo EXCEPT !["isr"] = Tail(@)]
        /\ todo'["isr"] = r /\ todo'["main"] = todo["main"]
        /\ reg'["isr"] = reg["isr"] \/ reg'["isr"] = {}
        /\ reg'["main"] = reg["main"]
    BY <1>1, <2>1, PopReg
  <2>3. QueueInv' /\ ContextInv'
    BY <1>1, <2>2, ExecQueues
  <2>4. LoadInv'
    <3>1. todo'["isr"] # << >> /\ Head(todo'["isr"]).m # "read"
            /\ "LOAD" \in reg'["isr"] => MainReleases(Head(todo'["isr"]).t)
      BY <1>1, <2>2, IsrCopy
    <3> QED
      BY <1>1, <1>3, <2>2, <3>1, IsrLoad
  <2>5. r # << >> => /\ ~Plain(Head(r)) /\ ~Starting(Head(r))
                     /\ Head(r).m \notin {"stopped", "ack"}
    BY <1>1, <1>2 DEF Follows, Plain
  <2> HIDE DEF r, h
  <2>6. EntInv'
    BY <1>1, <1>4, <2>2, <2>5, IsrEnt
  <2> QED
    BY <2>3, <2>4, <2>6 DEF Rest
<1> QED
  BY <1>5, <1>6

LEMMA AckInv ==
  ASSUME IInv, DoAck
  PROVE  Rest'
<1> DEFINE h == Head(todo["isr"])
           r == Tail(todo["isr"])
           p == Acknowledge(h.t, reg["isr"])
<1>1. /\ ~Idle("isr") /\ h.m = "ack"
      /\ UNCHANGED <<tcsr, held, ready, started, reg>>
      /\ todo' = [todo EXCEPT !["isr"] = p \o r]
      /\ "main" \in Ctx /\ "isr" \in Ctx /\ TypeOK
  BY DEF DoAck, AtHead, Ctx, IInv, driver
<1>2. ready /\ h.t \in Timers
  BY <1>1, HeadFacts
<1>3. /\ p \in Seq(Steps) /\ p # << >> /\ Shape(p) /\ ClearFree(p) /\ AllMeek(p)
      /\ p[Len(p)].t = h.t
      /\ Head(p).m = "write" /\ Head(p).t = h.t /\ ~Starting(Head(p))
  BY <1>2, AcknowledgeShape
<1> HIDE DEF p
<1>4. /\ QueueInv' /\ ContextInv' /\ todo'["main"] = todo["main"]
      /\ todo'["isr"] # << >> /\ Head(todo'["isr"]) = Head(p)
  BY <1>1, <1>3, ReplaceQueues
<1>5. \A t \in Timers : "LOAD" \in tcsr[t] => MainReleases(t)
  BY <1>1, <1>2 DEF IInv, LoadInv, HeadReleases, Releases
<1>6. "LOAD" \in reg["isr"] => MainReleases(h.t)
  BY <1>1 DEF IInv, LoadInv
<1>7. "ENT" \in reg["isr"] => "ENT" \in tcsr[h.t]
  BY <1>1 DEF IInv, EntInv
<1>8. Idle("main") => \A t \in Timers : "ENT" \in tcsr[t] => started[t]
  BY <1>2, MainEnabled
<1>9. LoadInv'
  BY <1>1, <1>3, <1>4, <1>5, <1>6, IsrLoad
<1>10. EntInv'
  BY <1>1, <1>3, <1>4, <1>7, <1>8, IsrEnt
<1> QED
  BY <1>4, <1>9, <1>10 DEF Rest

\* The handler starts with a look at both timers.
LEMMA TakeInv ==
  ASSUME IInv, TakeInterrupt
  PROVE  Rest'
<1> DEFINE q == Service(0) \o Service(1)
<1>1. /\ ready /\ Idle("isr") /\ (Masked => Idle("main"))
      /\ todo' = [todo EXCEPT !["isr"] = q]
      /\ UNCHANGED <<tcsr, held, reg, ready, started>>
      /\ "main" \in Ctx /\ "isr" \in Ctx /\ TypeOK
  BY DEF TakeInterrupt, driver, Ctx, IInv
<1>2. /\ Block(q) /\ ClearFree(q) /\ AllMeek(q) /\ q # << >> /\ Head(q) = Read(0)
  <2>1. 0 \in Timers /\ 1 \in Timers
    BY DEF Timers
  <2>2. Block(q) /\ ClearFree(q) /\ AllMeek(q)
    BY <2>1, ServiceBlock, JoinBlock, JoinFree DEF Block
  <2>3. Head(Service(0)) = Read(0) /\ Len(Service(0)) = 2 /\ Service(0) # << >>
    BY DEF Service
  <2>4. Service(0) \in Seq(Steps) /\ Service(1) \in Seq(Steps)
    BY <2>1, ScriptTypes
  <2>5. Len(q) # 0 /\ Len(<< >>) = 0 /\ Head(q) = Read(0)
    BY <2>3, <2>4, JoinFacts
  <2> QED
    BY <2>2, <2>5
<1> HIDE DEF q
<1>3. todo'["main"] = todo["main"] /\ todo'["isr"] = q
  BY <1>1 DEF TypeOK
<1>4. Head(q).m = "read"
  BY <1>2 DEF Read, Step
<1>5. QueueInv'
  BY <1>2, <1>3 DEF IInv, QueueInv, Ctx, Block
<1>6. ContextInv'
  BY <1>1, <1>2, <1>3 DEF ContextInv, Idle
<1>7. LoadInv'
  <2>1. \A t \in Timers : "LOAD" \in tcsr[t] => MainReleases(t)
    BY <1>1 DEF IInv, LoadInv, HeadReleases
  <2> QED
    BY <1>1, <1>3, <1>4, <2>1, IsrLoad
<1>8. EntInv'
  <2>1. Idle("main") => \A t \in Timers : "ENT" \in tcsr[t] => started[t]
    BY <1>1, MainEnabled
  <2> QED
    BY <1>1, <1>3, <1>4, <2>1, HandlerEnt DEF Starting, Plain
<1> QED
  BY <1>5, <1>6, <1>7, <1>8 DEF Rest

-----------------------------------------------------------------------------
(* The device, a restart, and every step together.                         *)

\* A timer that expires sets INT and nothing the invariant is about.
LEMMA ExpireInv ==
  ASSUME IInv, NEW t \in Timers, Expire(t)
  PROVE  Rest'
<1>1. UNCHANGED <<todo, reg, ready, started>>
  BY DEF Expire, driver
<1>2. \A u \in Timers : \A b \in {"LOAD", "ENT"} : b \in tcsr'[u] <=> b \in tcsr[u]
  BY DEF Expire, IInv, TypeOK
<1>3. QueueInv' /\ ContextInv'
  BY <1>1 DEF IInv, QueueInv, ContextInv, Idle
<1>4. LoadInv'
  BY <1>1, <1>2
  DEF IInv, LoadInv, MainReleases, ClearPending, HeadReleases, Idle
<1>5. EntInv'
  <2>1. EnabledIsStarted'
    BY <1>1, <1>2 DEF IInv, EntInv, EnabledIsStarted, ClearPending
  <2>2. ASSUME NEW c \in Ctx, ~Idle(c)
        PROVE  Head(todo[c]).t \in Timers
    BY <2>2, HeadFacts
  <2> QED
    BY <1>1, <1>2, <2>1, <2>2 DEF IInv, EntInv, Idle
<1> QED
  BY <1>3, <1>4, <1>5 DEF Rest

\* A program just loaded has nothing to do and has not initialised the driver.
LEMMA FreshInv ==
  ASSUME ~ready, \A t \in Timers : ~started[t],
         \A c \in Ctx : todo[c] = << >> /\ reg[c] = {}
  PROVE  Rest
<1>1. "main" \in Ctx /\ "isr" \in Ctx
  BY DEF Ctx
<1>2. QueueInv
  BY <1>1, EmptyBlock, FreeIsShaped DEF QueueInv, Block
<1>3. ContextInv
  BY <1>1 DEF ContextInv, Idle
<1>4. LoadInv
  BY <1>1 DEF LoadInv, Idle
<1>5. EntInv
  BY DEF EntInv, EnabledIsStarted, Idle
<1> QED
  BY <1>2, <1>3, <1>4, <1>5 DEF Rest

LEMMA InitInv == Init => IInv
<1> SUFFICES ASSUME Init
             PROVE  IInv
  OBVIOUS
<1>1. /\ ~ready /\ (\A t \in Timers : ~started[t])
      /\ \A c \in Ctx : todo[c] = << >> /\ reg[c] = {}
  BY DEF Init, Loaded
<1> QED
  BY <1>1, TypeInit, FreshInv DEF IInv, Rest

LEMMA StepInv == IInv /\ [Next]_vars => IInv'
<1> SUFFICES ASSUME IInv, [Next]_vars
             PROVE  IInv'
  OBVIOUS
<1>1. TypeOK'
  BY TypeStep DEF IInv
<1>2. ASSUME NEW c \in Ctx, Exec(c)
      PROVE  Rest'
  <2>1. CASE c = "main"
    BY <1>2, <2>1, MainRead, MainWrite, MainStore, MainFlags DEF Exec
  <2>2. CASE c = "isr"
    BY <1>2, <2>2, IsrRead, IsrWrite, IsrStore, IsrFlags DEF Exec
  <2> QED
    BY <2>1, <2>2 DEF Ctx
<1>3. ASSUME Restart
      PROVE  Rest'
  <2>1. /\ ~ready' /\ (\A t \in Timers : ~started'[t])
        /\ \A c \in Ctx : todo'[c] = << >> /\ reg'[c] = {}
    BY <1>3 DEF Restart, Loaded
  <2>2. "main" \in Ctx /\ "isr" \in Ctx
    BY DEF Ctx
  <2>3. QueueInv'
    BY <2>1, <2>2, EmptyBlock, FreeIsShaped DEF QueueInv, Block
  <2>4. ContextInv'
    BY <2>1, <2>2 DEF ContextInv, Idle
  <2>5. LoadInv' /\ EntInv'
    BY <2>1, <2>2 DEF LoadInv, EntInv, EnabledIsStarted, Idle
  <2> QED
    BY <2>3, <2>4, <2>5 DEF Rest
<1>4. ASSUME UNCHANGED vars
      PROVE  Rest'
  <2>1. UNCHANGED <<tcsr, ready, started, todo, reg>>
    BY <1>4 DEF vars
  <2>2. QueueInv' /\ ContextInv'
    BY <2>1 DEF IInv, QueueInv, ContextInv, Idle
  <2>3. LoadInv'
    BY <2>1 DEF IInv, LoadInv, MainReleases, ClearPending, HeadReleases, Idle
  <2>4. EntInv'
    BY <2>1 DEF IInv, EntInv, EnabledIsStarted, ClearPending, Idle
  <2> QED
    BY <2>2, <2>3, <2>4 DEF Rest
<1>5. Rest'
  BY <1>2, <1>3, <1>4, CallInv, ExpireInv, TestInv, AckInv, TakeInv DEF Next, Isr
<1> QED
  BY <1>1, <1>5 DEF IInv, Rest

-----------------------------------------------------------------------------
(* The theorems.                                                           *)

LEMMA Invariance == Spec => []IInv
  BY InitInv, StepInv, PTL DEF Spec

\* XTmrCtr_Reset, XTmrCtr_Start and the interrupt handler set the LOAD bit of a
\* timer with one bus write and clear it with another one.  Whatever calls and
\* interrupts happen in between, the bit is clear again when no call is in
\* progress: no timer is left standing still.
THEOREM ResetsAreReleased == Spec => []LoadReleased
<1>1. IInv => LoadReleased
  BY IdleLoads DEF LoadReleased, HeadReleases
<1> QED
  BY <1>1, Invariance, PTL

\* The IsStarted flag of a timer is set whenever its enable bit is, through
\* interrupts, stale copies of TCSR, callbacks and restarts of the program.
THEOREM NoTimerBehindTheDriver == Spec => []EnabledIsStarted
<1>1. IInv => EnabledIsStarted
  BY DEF IInv, EntInv
<1> QED
  BY <1>1, Invariance, PTL

LEMMA EnablingStep ==
  ASSUME Masked, IInv, [Next]_vars, NEW t \in Timers,
         "ENT" \in tcsr'[t], "ENT" \notin tcsr[t]
  PROVE  \E c \in Ctx : ~Idle(c) /\ "ENT" \in Head(todo[c]).set
<1>1. TypeOK
  BY DEF IInv
<1>2. tcsr' # tcsr
  OBVIOUS
<1>3. ~\E u \in Timers : Expire(u)
  BY <1>1 DEF Expire, TypeOK
<1>4. PICK c \in Ctx : DoWrite(c) \/ DoStore(c)
  BY <1>2, <1>3 DEF Next, CallInitialize, CallInitHw, CallPwm, CallPwmConfigure,
     CallPwmSwitch, CallSetHandler,
     CallClearStats, CallOnTimer, CallInPlace, CallSelfTest, CallSetOptions, Call, Begin,
     Exec, DoRead, DoStarted, DoPwm,
     TakeInterrupt, Isr, DoTest, DoAck, Restart, vars
<1> DEFINE h == Head(todo[c])
           v == (reg[c] \cup h.set) \ h.clr
<1>5. ~Idle(c) /\ h.t \in Timers
  <2>1. ~Idle(c)
    BY <1>4 DEF DoWrite, DoStore, AtHead
  <2> QED
    BY <2>1, HeadFacts
<1>6. CASE DoStore(c)
  <2>1. BusWrite(h.t, h.set)
    BY <1>6 DEF DoStore
  <2>2. t = h.t /\ "ENT" \in h.set
    <3> HIDE DEF h
    <3> QED
      BY <1>1, <1>5, <2>1, WriteBits
  <2> QED
    BY <1>5, <2>2
<1>7. CASE DoWrite(c)
  <2>1. BusWrite(h.t, v) /\ h.m = "write"
    BY <1>7 DEF DoWrite, AtHead
  <2>2. t = h.t /\ "ENT" \in v
    <3> HIDE DEF h, v
    <3> QED
      BY <1>1, <1>5, <2>1, WriteBits
  <2>3. CASE "ENT" \notin h.set
    <3>1. Plain(h) /\ "ENT" \in reg[c]
      BY <2>1, <2>2, <2>3 DEF Plain
    <3>2. "ENT" \in tcsr[h.t]
      BY <1>5, <3>1 DEF IInv, EntInv
    <3> QED
      BY <2>2, <3>2
  <2> QED
    BY <1>5, <2>3
<1> QED
  BY <1>4, <1>6, <1>7

\* If the application keeps the interrupt out of its driver calls, a timer that
\* is off is enabled by a step that says so, and never by the write-back of a
\* TCSR value read while it was still running.
THEOREM NothingRevivesATimer == Masked => (Spec => OnlyStartEnables)
<1> SUFFICES ASSUME Masked
             PROVE  Spec => OnlyStartEnables
  OBVIOUS
<1>1. IInv /\ [Next]_vars =>
        [\A t \in Timers :
           "ENT" \in tcsr[t]' /\ "ENT" \notin tcsr[t] =>
             \E c \in Ctx : ~Idle(c) /\ "ENT" \in Head(todo[c]).set]_vars
  BY EnablingStep
<1> QED
  BY <1>1, Invariance, PTL DEF Spec, OnlyStartEnables

-----------------------------------------------------------------------------
(* The handler keeps the modes.                                            *)

LEMMA GentleTail ==
  ASSUME NEW q \in Seq(Steps), q # << >>, GentleQueue(q)
  PROVE  /\ Gentle(Head(q)) /\ GentleQueue(Tail(q))
         /\ Tail(q) # << >> => Copied(Head(q), Head(Tail(q)))
<1> DEFINE r == Tail(q)
<1>1. /\ r \in Seq(Steps) /\ Len(q) \in Nat \ {0} /\ Len(r) = Len(q) - 1
      /\ Head(q) = q[1]
      /\ \A i \in 1 .. Len(q) - 1 : r[i] = q[i + 1]
      /\ (r = << >> <=> Len(q) = 1)
  BY TailFacts
<1>2. /\ \A i \in 1 .. Len(q) : Gentle(q[i])
      /\ \A i \in 1 .. Len(q) - 1 : Copied(q[i], q[i + 1])
  BY DEF GentleQueue
<1>3. r # << >> => Head(r) = r[1]
  BY <1>1
<1> HIDE DEF r
<1>4. Gentle(Head(q))
  BY <1>1, <1>2
<1>5. GentleQueue(r)
  <2>1. ASSUME NEW i \in 1 .. Len(r)
        PROVE  Gentle(r[i])
    BY <1>1, <1>2
  <2>2. ASSUME NEW i \in 1 .. Len(r) - 1
        PROVE  Copied(r[i], r[i + 1])
    <3>1. /\ i \in 1 .. Len(q) - 1 /\ i + 1 \in 1 .. Len(q) - 1
          /\ r[i] = q[i + 1] /\ r[i + 1] = q[(i + 1) + 1]
      BY <1>1
    <3> QED
      BY <1>2, <3>1
  <2> QED
    BY <2>1, <2>2 DEF GentleQueue
<1>6. ASSUME r # << >>
      PROVE  Copied(Head(q), Head(r))
  <2>1. 1 \in 1 .. Len(q) - 1 /\ r[1] = q[1 + 1]
    BY <1>1, <1>6
  <2> QED
    BY <1>1, <1>2, <1>3, <1>6, <2>1
<1> QED
  BY <1>4, <1>5, <1>6 DEF r

LEMMA GentleJoin ==
  ASSUME NEW p \in Seq(Steps), NEW q \in Seq(Steps), GentleQueue(p), GentleQueue(q),
         q # << >> => ~UsesCopy(Head(q))
  PROVE  GentleQueue(p \o q)
<1> DEFINE s == p \o q
           m == Len(p)
<1>1. /\ m \in Nat /\ Len(q) \in Nat /\ Len(s) = m + Len(q)
      /\ \A i \in 1 .. m : s[i] = p[i]
      /\ \A i \in 1 .. Len(q) : s[m + i] = q[i]
      /\ (q # << >> => Head(q) = q[1])
      /\ (Len(q) > 0 => q # << >>)
  BY JoinFacts
<1> HIDE DEF s
<1>2. ASSUME NEW i \in 1 .. Len(s)
      PROVE  \/ i \in 1 .. m
             \/ \E j \in 1 .. Len(q) : i = m + j
  <2>1. CASE i > m
    <3>1. i - m \in 1 .. Len(q) /\ i = m + (i - m)
      BY <1>1, <2>1
    <3> QED
      BY <3>1
  <2> QED
    BY <1>1, <2>1
<1>3. ASSUME NEW i \in 1 .. Len(s)
      PROVE  Gentle(s[i])
  BY <1>1, <1>2 DEF GentleQueue
<1>4. ASSUME NEW i \in 1 .. Len(s) - 1
      PROVE  Copied(s[i], s[i + 1])
  <2>1. CASE i < m
    <3>1. i \in 1 .. m - 1 /\ i \in 1 .. m /\ i + 1 \in 1 .. m
      BY <1>1, <2>1
    <3>2. s[i] = p[i] /\ s[i + 1] = p[i + 1]
      BY <1>1, <3>1
    <3> QED
      BY <3>1, <3>2 DEF GentleQueue
  <2>2. CASE i = m
    <3>1. 1 \in 1 .. Len(q) /\ s[m + 1] = q[1] /\ q # << >>
      BY <1>1, <2>2
    <3> QED
      BY <1>1, <2>2, <3>1 DEF Copied
  <2>3. CASE i > m
    <3>1. PICK j \in 1 .. Len(q) - 1 : i = m + j
      <4>1. i - m \in 1 .. Len(q) - 1 /\ i = m + (i - m)
        BY <1>1, <2>3
      <4> QED
        BY <4>1
    <3>2. j \in 1 .. Len(q) /\ j + 1 \in 1 .. Len(q) /\ i + 1 = m + (j + 1)
      BY <1>1, <3>1
    <3>3. s[i] = q[j] /\ s[i + 1] = q[j + 1]
      BY <1>1, <3>1, <3>2
    <3> QED
      BY <3>1, <3>3 DEF GentleQueue
  <2> QED
    BY <1>1, <2>1, <2>2, <2>3
<1> QED
  BY <1>3, <1>4 DEF GentleQueue, s

\* A short queue is gentle if its steps are.
LEMMA GentleShort ==
  /\ GentleQueue(<< >>)
  /\ \A a : Gentle(a) => GentleQueue(<< a >>)
  /\ \A a, b : Gentle(a) /\ Gentle(b) /\ Copied(a, b) => GentleQueue(<< a, b >>)
  /\ \A a, b, c : Gentle(a) /\ Gentle(b) /\ Gentle(c) /\ Copied(a, b) /\ Copied(b, c)
                    => GentleQueue(<< a, b, c >>)
<1>1. GentleQueue(<< >>)
  BY DEF GentleQueue
<1>2. ASSUME NEW a, Gentle(a)
      PROVE  GentleQueue(<< a >>)
  <2> DEFINE q == << a >>
  <2>1. Len(q) = 1 /\ q[1] = a
    OBVIOUS
  <2> HIDE DEF q
  <2>2. (\A i \in 1 .. Len(q) : i = 1) /\ (\A i \in 1 .. Len(q) - 1 : FALSE)
    BY <2>1
  <2>3. GentleQueue(q)
    BY <1>2, <2>1, <2>2 DEF GentleQueue
  <2> QED
    BY <2>3 DEF q
<1>3. ASSUME NEW a, NEW b, Gentle(a), Gentle(b), Copied(a, b)
      PROVE  GentleQueue(<< a, b >>)
  <2> DEFINE q == << a, b >>
  <2>1. Len(q) = 2 /\ q[1] = a /\ q[2] = b
    OBVIOUS
  <2> HIDE DEF q
  <2>2. (\A i \in 1 .. Len(q) : i \in {1, 2}) /\ (\A i \in 1 .. Len(q) - 1 : i = 1)
    BY <2>1
  <2>3. GentleQueue(q)
    BY <1>3, <2>1, <2>2 DEF GentleQueue
  <2> QED
    BY <2>3 DEF q
<1>4. ASSUME NEW a, NEW b, NEW c, Gentle(a), Gentle(b), Gentle(c), Copied(a, b), Copied(b, c)
      PROVE  GentleQueue(<< a, b, c >>)
  <2> DEFINE q == << a, b, c >>
  <2>1. Len(q) = 3 /\ q[1] = a /\ q[2] = b /\ q[3] = c
    OBVIOUS
  <2> HIDE DEF q
  <2>2. (\A i \in 1 .. Len(q) : i \in {1, 2, 3}) /\ (\A i \in 1 .. Len(q) - 1 : i \in {1, 2})
    BY <2>1
  <2>3. GentleQueue(q)
    BY <1>4, <2>1, <2>2 DEF GentleQueue
  <2> QED
    BY <2>3 DEF q
<1> QED
  BY <1>1, <1>2, <1>3, <1>4

\* What the handler queues, unless its callback starts the timer.
LEMMA GentleHandler ==
  ASSUME NEW t \in Timers
  PROVE  /\ GentleQueue(Service(t)) /\ Head(Service(t)) = Read(t)
         /\ \A h \in {"stub"} \cup CallbackOps : h # "Start" => GentleQueue(Callback(h, t))
         /\ \A copy : /\ GentleQueue(Acknowledge(t, copy))
                      /\ Head(Acknowledge(t, copy)).t = t
                      /\ Acknowledge(t, copy) # << >>
         /\ GentleQueue(<< Read(t), Step("ack", t, {}, {}) >>)
<1>1. /\ Gentle(Read(t)) /\ Gentle(Step("test", t, {}, {})) /\ Gentle(Step("ack", t, {}, {}))
      /\ Gentle(Step("stopped", t, {}, {}))
      /\ \A set \in SUBSET {"LOAD", "INT"}, clr \in SUBSET {"ENT"} : Gentle(Write(t, set, clr))
  BY DEF Gentle, Read, Write, Step
<1>2. /\ Copied(Read(t), Step("test", t, {}, {})) /\ Copied(Read(t), Step("ack", t, {}, {}))
      /\ \A set, clr : /\ Copied(Read(t), Write(t, set, clr))
                       /\ Copied(Write(t, set, clr), Step("stopped", t, {}, {}))
                       /\ \A more, less : Copied(Write(t, more, less), Write(t, set, clr))
  BY DEF Copied, UsesCopy, Read, Write, Step
<1>3. GentleQueue(Service(t)) /\ Head(Service(t)) = Read(t)
  BY <1>1, <1>2, GentleShort DEF Service
<1>4. ASSUME NEW h \in {"stub"} \cup CallbackOps, h # "Start"
      PROVE  GentleQueue(Callback(h, t))
  <2>1. h \in {"stub", "Reset", "Stop"}
    BY <1>4, CallbackAssumption
  <2>2. CASE h = "stub"
    BY <2>2, GentleShort DEF Callback
  <2>3. CASE h = "Reset"
    BY <1>1, <1>2, <2>3, GentleShort DEF Callback, Reset
  <2>4. CASE h = "Stop"
    BY <1>1, <1>2, <2>4, GentleShort DEF Callback, Stop
  <2> QED
    BY <2>1, <2>2, <2>3, <2>4
<1>5. ASSUME NEW copy
      PROVE  /\ GentleQueue(Acknowledge(t, copy))
             /\ Head(Acknowledge(t, copy)).t = t /\ Acknowledge(t, copy) # << >>
  <2>1. GentleQueue(Acknowledge(t, copy))
    BY <1>1, <1>2, GentleShort DEF Acknowledge
  <2> QED
    BY <2>1, AcknowledgeShape
<1>6. GentleQueue(<< Read(t), Step("ack", t, {}, {}) >>)
  BY <1>1, <1>2, GentleShort
<1> QED
  BY <1>3, <1>4, <1>5, <1>6

\* Only steps of the handler, an expiry or a restart happen while it runs.
LEMMA WhileHandling ==
  ASSUME [Next]_vars, ~Idle("isr")
  PROVE  \/ Exec("isr") \/ Isr \/ Restart \/ UNCHANGED vars
         \/ \E t \in Timers : Expire(t)
<1>1. ASSUME NEW t \in Timers, CallOnTimer(t)
      PROVE  FALSE
  BY <1>1 DEF CallOnTimer, CallInPlace, CallSelfTest, CallSetOptions, Call, Begin
<1>2. ~(CallInitialize \/ CallInitHw \/ CallPwm \/ CallSetHandler \/ CallClearStats)
  BY DEF CallInitialize, CallInitHw, CallPwm, CallPwmConfigure, CallPwmSwitch,
     CallSetHandler, CallClearStats, Call, Begin
<1>3. ~Exec("main")
  BY DEF Exec, DoRead, DoWrite, DoStore, DoStarted, DoPwm, AtHead
<1>4. ~TakeInterrupt
  BY DEF TakeInterrupt
<1> QED
  BY <1>1, <1>2, <1>3, <1>4 DEF Next, Ctx

\* A gentle write of a copy with the timer's modes leaves these modes.
LEMMA WriteModes ==
  ASSUME TypeOK, NEW t \in Timers, NEW s, Gentle(s), NEW copy, Modes(copy) = Modes(tcsr[t]),
         BusWrite(t, (copy \cup s.set) \ s.clr)
  PROVE  \A u \in Timers : Modes(tcsr'[u]) = Modes(tcsr[u])
<1>1. tcsr' = [tcsr EXCEPT ![t] = AfterWrite(@, (copy \cup s.set) \ s.clr,
                                             StillHolds(t, (copy \cup s.set) \ s.clr))]
  BY DEF BusWrite
<1>2. Modes(AfterWrite(tcsr[t], (copy \cup s.set) \ s.clr,
                       StillHolds(t, (copy \cup s.set) \ s.clr)))
        = Modes(copy)
  BY DEF Modes, AfterWrite, Gentle
<1> QED
  BY <1>1, <1>2 DEF TypeOK

\* The handler's queue and copy after its head was taken.
LEMMA CopyPop ==
  ASSUME TypeOK, CopyInv, ~Idle("isr"), handler # "Start",
         todo'["isr"] = Tail(todo["isr"]),
         Tail(todo["isr"]) # << >> /\ UsesCopy(Head(Tail(todo["isr"]))) =>
           Modes(reg'["isr"]) = Modes(tcsr'[Head(Tail(todo["isr"])).t])
  PROVE  CopyInv'
<1>1. todo["isr"] \in Seq(Steps) /\ todo["isr"] # << >>
  BY DEF TypeOK, Ctx, Idle
<1>2. GentleQueue(Tail(todo["isr"]))
  BY <1>1, GentleTail DEF CopyInv
<1> QED
  BY <1>2 DEF CopyInv, Idle

LEMMA CopyRead ==
  ASSUME TypeOK, CopyInv, DoRead("isr"), handler # "Start"
  PROVE  CopyInv' /\ \A u \in Timers : Modes(tcsr'[u]) = Modes(tcsr[u])
<1> DEFINE q == todo["isr"]
<1>1. ~Idle("isr") /\ q \in Seq(Steps) /\ q # << >> /\ Head(q).m = "read"
  BY DEF DoRead, AtHead, TypeOK, Ctx, Idle
<1>2. /\ tcsr' = tcsr /\ reg'["isr"] = tcsr[Head(q).t] /\ todo'["isr"] = Tail(q)
  BY DEF DoRead, TypeOK, Ctx
<1>3. GentleQueue(q)
  BY <1>1 DEF CopyInv
<1>4. Tail(q) # << >> /\ UsesCopy(Head(Tail(q))) => Head(Tail(q)).t = Head(q).t
  BY <1>1, <1>3, GentleTail DEF Copied
<1> QED
  BY <1>1, <1>2, <1>4, CopyPop

LEMMA CopyWrite ==
  ASSUME TypeOK, CopyInv, DoWrite("isr"), handler # "Start"
  PROVE  CopyInv' /\ \A u \in Timers : Modes(tcsr'[u]) = Modes(tcsr[u])
<1> DEFINE q == todo["isr"]
           h == Head(q)
<1>1. ~Idle("isr") /\ q \in Seq(Steps) /\ q # << >> /\ h.m = "write" /\ h.t \in Timers
  <2>1. ~Idle("isr") /\ h.m = "write"
    BY DEF DoWrite, AtHead
  <2> QED
    BY <2>1, QueueTypes DEF TypeOK, Ctx, Idle
<1>2. /\ BusWrite(h.t, (reg["isr"] \cup h.set) \ h.clr) /\ Pop("isr")
  BY DEF DoWrite
<1>3. GentleQueue(q) /\ Modes(reg["isr"]) = Modes(tcsr[h.t])
  BY <1>1 DEF CopyInv, UsesCopy
<1>4. /\ Gentle(h)
      /\ Tail(q) # << >> /\ UsesCopy(Head(Tail(q))) => Head(Tail(q)).t = h.t
  BY <1>1, <1>3, GentleTail DEF Copied
<1>5. \A u \in Timers : Modes(tcsr'[u]) = Modes(tcsr[u])
  <2> HIDE DEF h
  <2> QED
    BY <1>1, <1>2, <1>3, <1>4, WriteModes
<1>6. todo'["isr"] = Tail(q)
  BY <1>2 DEF Pop, TypeOK, Ctx
<1>7. Tail(q) # << >> => reg'["isr"] = reg["isr"]
  <2>1. Tail(q) # << >> => Len(q) # 1
    BY <1>1, TailFacts
  <2> QED
    BY <1>2, <2>1 DEF Pop
<1> QED
  BY <1>1, <1>3, <1>4, <1>5, <1>6, <1>7, CopyPop

\* The other steps of a call, and a look that found no interrupt.
LEMMA CopyFlags ==
  ASSUME TypeOK, CopyInv, ~Idle("isr"), handler # "Start", Pop("isr"), UNCHANGED tcsr,
         ~UsesCopy(Head(todo["isr"])), Head(todo["isr"]).m # "read"
  PROVE  CopyInv' /\ \A u \in Timers : Modes(tcsr'[u]) = Modes(tcsr[u])
<1> DEFINE q == todo["isr"]
<1>1. q \in Seq(Steps) /\ q # << >> /\ GentleQueue(q)
  BY DEF TypeOK, Ctx, Idle, CopyInv
<1>2. Tail(q) # << >> => ~UsesCopy(Head(Tail(q)))
  BY <1>1, GentleTail DEF Copied, UsesCopy
<1>3. todo'["isr"] = Tail(q)
  BY DEF Pop, TypeOK, Ctx
<1> QED
  BY <1>2, <1>3, CopyPop

LEMMA CopyHandler ==
  ASSUME TypeOK, CopyInv, ~Idle("isr"), handler # "Start", Isr
  PROVE  CopyInv' /\ \A u \in Timers : Modes(tcsr'[u]) = Modes(tcsr[u])
<1> DEFINE q == todo["isr"]
           t == Head(q).t
           r == Tail(q)
<1>1. /\ q \in Seq(Steps) /\ q # << >> /\ GentleQueue(q) /\ t \in Timers
      /\ r \in Seq(Steps) /\ GentleQueue(r)
      /\ r # << >> => Copied(Head(q), Head(r))
  <2>1. q \in Seq(Steps) /\ q # << >> /\ GentleQueue(q)
    BY DEF TypeOK, Ctx, Idle, CopyInv
  <2> QED
    BY <2>1, GentleTail, QueueTypes DEF Ctx
<1> HIDE DEF t, r
<1>2. ASSUME DoTest, {"ENIT", "INT"} \subseteq reg["isr"]
      PROVE  CopyInv' /\ tcsr' = tcsr
  <2> DEFINE cb == Callback(handler, t)
             look == << Read(t), Step("ack", t, {}, {}) >>
  <2>1. todo'["isr"] = cb \o look \o r /\ UNCHANGED <<tcsr, handler>>
    BY <1>2 DEF DoTest, TypeOK, Ctx, t, r
  <2>2. Head(q).m = "test"
    BY <1>2 DEF DoTest, AtHead
  <2>3. /\ cb \in Seq(Steps) /\ look \in Seq(Steps)
        /\ GentleQueue(cb) /\ GentleQueue(look)
    BY <1>1, HandlerTypes, GentleHandler DEF TypeOK
  <2>4. r # << >> => ~UsesCopy(Head(r))
    BY <1>1, <2>2 DEF Copied
  <2>5. look # << >> /\ Head(look) = Read(t) /\ ~UsesCopy(Read(t))
    BY AckBlock, <1>1 DEF UsesCopy, Read, Step
  <2>6. cb # << >> => Head(cb) = Read(t)
    BY <1>1, CallbackBlock DEF TypeOK
  <2> HIDE DEF cb, look
  <2>7. look \o r \in Seq(Steps) /\ GentleQueue(look \o r) /\ Head(look \o r) = Read(t)
    BY <1>1, <2>3, <2>4, <2>5, GentleJoin, JoinFacts
  <2>8. GentleQueue(cb \o (look \o r))
    BY <2>3, <2>5, <2>7, GentleJoin
  <2>9. Head(cb \o (look \o r)) = Read(t)
    BY <2>3, <2>6, <2>7, JoinFacts
  <2>10. cb \o look \o r = cb \o (look \o r)
    BY <1>1, <2>3
  <2> QED
    BY <2>1, <2>5, <2>8, <2>9, <2>10 DEF CopyInv
<1>3. ASSUME DoTest, ~({"ENIT", "INT"} \subseteq reg["isr"])
      PROVE  CopyInv' /\ \A u \in Timers : Modes(tcsr'[u]) = Modes(tcsr[u])
  <2>1. Pop("isr") /\ UNCHANGED tcsr /\ Head(q).m = "test"
    BY <1>3 DEF DoTest, AtHead
  <2> QED
    BY <2>1, CopyFlags DEF UsesCopy
<1>4. ASSUME DoAck
      PROVE  CopyInv' /\ tcsr' = tcsr
  <2> DEFINE p == Acknowledge(t, reg["isr"])
  <2>1. /\ todo'["isr"] = p \o r /\ UNCHANGED <<tcsr, handler, reg>>
    BY <1>4 DEF DoAck, driver, TypeOK, Ctx, t, r
  <2>2. Head(q).m = "ack"
    BY <1>4 DEF DoAck, AtHead
  <2>3. Modes(reg["isr"]) = Modes(tcsr[t])
    BY <2>2 DEF CopyInv, UsesCopy, t
  <2>4. p \in Seq(Steps) /\ p # << >> /\ GentleQueue(p) /\ Head(p).t = t
    BY <1>1, HandlerTypes, GentleHandler
  <2>5. r # << >> => ~UsesCopy(Head(r))
    BY <1>1, <2>2 DEF Copied
  <2> HIDE DEF p
  <2>6. GentleQueue(p \o r) /\ Head(p \o r).t = t
    BY <1>1, <2>4, <2>5, GentleJoin, JoinFacts
  <2> QED
    BY <2>1, <2>3, <2>6 DEF CopyInv
<1> QED
  BY <1>2, <1>3, <1>4 DEF Isr

\* While the handler runs, with no callback that starts the timer, every step
\* keeps the modes and the invariant.
LEMMA HandlingStep ==
  ASSUME TypeOK, CopyInv, [Next]_vars, ~Idle("isr"), handler # "Start"
  PROVE  CopyInv' /\ \A u \in Timers : Modes(tcsr'[u]) = Modes(tcsr[u])
<1>1. CASE Exec("isr")
  <2>1. ASSUME DoStore("isr")
        PROVE  FALSE
    <3>1. Head(todo["isr"]).m = "store"
      BY <2>1 DEF DoStore, AtHead
    <3> QED
      BY <3>1, GentleTail DEF CopyInv, Gentle, TypeOK, Ctx, Idle
  <2>2. ASSUME DoStarted("isr") \/ DoPwm("isr")
        PROVE  /\ Pop("isr") /\ UNCHANGED tcsr
               /\ Head(todo["isr"]).m \in {"started", "stopped", "pwmOn", "pwmOff"}
    BY <2>2 DEF DoStarted, DoPwm, AtHead
  <2> QED
    BY <1>1, <2>1, <2>2, CopyRead, CopyWrite, CopyFlags DEF Exec, UsesCopy
<1>2. CASE Isr
  BY <1>2, CopyHandler
<1>3. CASE Restart
  BY <1>3 DEF Restart, Loaded, CopyInv, Idle, Ctx
<1>4. CASE UNCHANGED vars
  BY <1>4 DEF vars, CopyInv, Idle
<1>5. ASSUME NEW t \in Timers, Expire(t)
      PROVE  CopyInv' /\ \A u \in Timers : Modes(tcsr'[u]) = Modes(tcsr[u])
  <2>1. \A u \in Timers : Modes(tcsr'[u]) = Modes(tcsr[u])
    BY <1>5 DEF Expire, TypeOK, Modes
  <2>2. UNCHANGED <<todo, reg, handler>>
    BY <1>5 DEF Expire, driver
  <2>3. Head(todo["isr"]).t \in Timers
    BY QueueTypes DEF Ctx
  <2> QED
    BY <2>1, <2>2, <2>3 DEF CopyInv, Idle
<1> QED
  BY <1>1, <1>2, <1>3, <1>4, <1>5, WhileHandling

\* The invariant begins with the interrupt.
LEMMA CopyStep ==
  ASSUME TypeOK, CopyInv, [Next]_vars
  PROVE  CopyInv'
<1>1. CASE ~Idle("isr") /\ handler # "Start"
  BY <1>1, HandlingStep
<1>2. CASE ~Idle("isr") /\ handler = "Start"
  <2>1. UNCHANGED handler \/ Restart
    BY <1>2, WhileHandling DEF Exec, DoRead, DoWrite, DoStore, DoStarted, DoPwm, Isr, DoTest,
       DoAck, Expire, driver, vars
  <2> QED
    BY <1>2, <2>1 DEF CopyInv, Restart, Loaded, Idle, Ctx
<1>3. CASE Idle("isr")
  <2>1. CASE TakeInterrupt
    <3>1. todo'["isr"] = Service(0) \o Service(1)
      BY <2>1 DEF TakeInterrupt, TypeOK, Ctx
    <3>2. 0 \in Timers /\ 1 \in Timers
      BY DEF Timers
    <3>3. /\ \A t \in Timers : /\ Service(t) \in Seq(Steps) /\ Service(t) # << >>
                               /\ GentleQueue(Service(t)) /\ Head(Service(t)) = Read(t)
                               /\ ~UsesCopy(Read(t))
      BY ScriptTypes, GentleHandler DEF UsesCopy, Read, Step, Service
    <3>4. GentleQueue(todo'["isr"]) /\ Head(todo'["isr"]) = Read(0)
      BY <3>1, <3>2, <3>3, GentleJoin, JoinFacts
    <3> QED
      BY <3>2, <3>3, <3>4 DEF CopyInv
  <2>2. CASE ~TakeInterrupt
    <3>1. todo'["isr"] = << >>
      <4>1. ASSUME NEW t \in Timers, CallOnTimer(t) \/ Expire(t)
            PROVE  todo'["isr"] = << >>
        BY <1>3, <4>1 DEF CallOnTimer, CallInPlace, CallSelfTest, CallSetOptions, Call, Begin,
                          Expire, Idle, TypeOK, Ctx
      <4>2. ASSUME CallInitialize \/ CallInitHw \/ CallPwm \/ CallSetHandler \/ CallClearStats
            PROVE  todo'["isr"] = << >>
        BY <1>3, <4>2 DEF CallInitialize, CallInitHw, CallPwm, CallPwmConfigure, CallPwmSwitch,
           CallSetHandler, CallClearStats,
           Call, Begin, Idle, TypeOK, Ctx
      <4>3. ASSUME Exec("main")
            PROVE  todo'["isr"] = << >>
        BY <1>3, <4>3 DEF Exec, DoRead, DoWrite, DoStore, DoStarted, DoPwm, Pop, Idle, TypeOK, Ctx
      <4>4. ~Exec("isr") /\ ~Isr
        BY <1>3 DEF Exec, DoRead, DoWrite, DoStore, DoStarted, DoPwm, Isr, DoTest, DoAck, AtHead
      <4>5. Restart \/ UNCHANGED vars => todo'["isr"] = << >>
        BY <1>3 DEF Restart, Loaded, vars, Idle, Ctx
      <4> QED
        BY <2>2, <4>1, <4>2, <4>3, <4>4, <4>5 DEF Next, Ctx
    <3> QED
      BY <3>1 DEF CopyInv, Idle
  <2> QED
    BY <2>1, <2>2
<1> QED
  BY <1>1, <1>2, <1>3

\* Whatever is called, interrupted and called back (but for a start), the
\* handler leaves the mode bits of both timers as it found them.
THEOREM AcknowledgingKeepsModes == Spec => HandlerKeepsModes
<1>1. Init => TypeOK /\ CopyInv
  BY TypeInit DEF Init, Loaded, CopyInv, Idle, Ctx
<1>2. TypeOK /\ CopyInv /\ [Next]_vars => (TypeOK /\ CopyInv)'
  BY TypeStep, CopyStep
<1>3. TypeOK /\ CopyInv /\ [Next]_vars =>
        [~Idle("isr") /\ handler # "Start" =>
           \A t \in Timers : Modes(tcsr[t]') = Modes(tcsr[t])]_vars
  BY HandlingStep
<1> QED
  BY <1>1, <1>2, <1>3, PTL DEF Spec, HandlerKeepsModes
=============================================================================
