--------------------------- MODULE NiteFuryProofs ---------------------------
(***************************************************************************)
(* What main() does with the card, for every interleaving with its timers  *)
(* and for kills and reruns at any access: it uses the timer driver as     *)
(* TmrCtr describes it, so that what is proved of TmrCtr holds of the      *)
(* program; it streams only from a configured generator, stops it when it  *)
(* succeeds, keeps the LEDs of a timer together and counts each expiry of  *)
(* its own run once.                                                       *)
(***************************************************************************)
EXTENDS NiteFury, SequenceTheorems, TLAPS

\* In what main() has still to do, b may come right after a.
Follows(a, b) ==
  \/ a = "open" /\ b = "release"
  \/ a = "release" /\ b = "low"
  \/ a = "low" /\ b = "high"
  \/ a = "high" /\ b \in {"format", "close"}
  \/ a = "format" /\ b = "motionEn"
  \/ a = "motionEn" /\ b = "bckgndId"
  \/ a = "bckgndId" /\ b = "overlay"
  \/ a = "overlay" /\ b = "auto"
  \/ a = "auto" /\ b = "start"
  \/ a = "start" /\ b = "led0"
  \/ a = "led0" /\ b = "led1"
  \/ a = "led1" /\ b = "led2"
  \/ a = "led2" /\ b = "led3"
  \/ a = "led3" /\ b = "initialize"
  \/ a = "initialize" /\ b = "start0"
  \/ a = "start0" /\ b = "start1"
  \/ a = "start1" /\ b = "poll1"
  \/ a = "poll1" /\ b = "poll0"
  \/ a = "toggle1" /\ b = "toggle2"
  \/ a = "toggle2" /\ b = "poll0"
  \/ a = "toggle0" /\ b = "toggle3"
  \/ a = "toggle3" /\ b = "stream"
  \/ a = "disable" /\ b = "low"

Chain(s) == \A i \in 1 .. Len(s) - 1 : Follows(s[i], s[i + 1])

\* A stretch of the program from a to b.
Stretch(s, a, b) ==
  /\ s \in Seq(StepNames) /\ s # << >> /\ Chain(s)
  /\ s[1] = a /\ s[Len(s)] = b

\* The steps that use the timer driver, or come after it was initialised.
Loop == {"poll1", "poll0", "toggle0", "toggle1", "toggle2", "toggle3", "stream"}
NeedsDriver == {"start0", "start1"} \cup Loop

ScriptInv ==
  /\ script \in Seq(StepNames)
  /\ Chain(script)

\* Before the initialisation the driver is as it was loaded, and so a rerun
\* changes nothing of it.
DriverInv ==
  /\ ~ready => T!Loaded(ready, started, pwmEnabled, handler, interrupts, todo, reg)
  /\ script # << >> /\ Head(script) \in NeedsDriver => ready

-----------------------------------------------------------------------------
LEMMA Join ==
  ASSUME NEW s, NEW t, NEW a, NEW b, NEW c, NEW d,
         Stretch(s, a, b), Stretch(t, c, d), Follows(b, c)
  PROVE  Stretch(s \o t, a, d)
<1>1. /\ s \in Seq(StepNames) /\ t \in Seq(StepNames)
      /\ Len(s) \in Nat /\ Len(s) > 0 /\ Len(t) \in Nat /\ Len(t) > 0
  BY EmptySeq, LenProperties DEF Stretch
<1>2. /\ s \o t \in Seq(StepNames) /\ Len(s \o t) = Len(s) + Len(t)
      /\ \A i \in 1 .. Len(s) + Len(t) :
           (s \o t)[i] = IF i <= Len(s) THEN s[i] ELSE t[i - Len(s)]
  BY <1>1, ConcatProperties
<1>3. (s \o t)[1] = a /\ (s \o t)[Len(s \o t)] = d /\ s \o t # << >>
  BY <1>1, <1>2 DEF Stretch
<1>4. ASSUME NEW i \in 1 .. Len(s \o t) - 1
      PROVE  Follows((s \o t)[i], (s \o t)[i + 1])
  <2>1. CASE i < Len(s)
    <3>1. i \in 1 .. Len(s) - 1 /\ i + 1 <= Len(s)
      BY <2>1, <1>1, <1>2
    <3>2. Follows(s[i], s[i + 1])
      BY <3>1 DEF Stretch, Chain
    <3> QED BY <3>1, <3>2, <1>1, <1>2
  <2>2. CASE i = Len(s)
    <3>1. (s \o t)[i] = b /\ (s \o t)[i + 1] = c
      BY <2>2, <1>1, <1>2 DEF Stretch
    <3> QED BY <3>1
  <2>3. CASE i > Len(s)
    <3>1. /\ i - Len(s) \in 1 .. Len(t) - 1
          /\ (s \o t)[i] = t[i - Len(s)]
          /\ (s \o t)[i + 1] = t[i - Len(s) + 1]
      BY <2>3, <1>1, <1>2
    <3>2. Follows(t[i - Len(s)], t[i - Len(s) + 1])
      BY <3>1 DEF Stretch, Chain
    <3> QED BY <3>1, <3>2
  <2> QED BY <2>1, <2>2, <2>3, <1>1, <1>2
<1> QED BY <1>2, <1>3, <1>4 DEF Stretch, Chain

LEMMA MainStretch == Stretch(Main, "open", "poll0")
<1>1. Stretch(<< "open", "release" >>, "open", "release")
  BY DEF Stretch, Chain, Follows, StepNames
<1>2. Stretch(TpgReset, "low", "high")
  BY DEF Stretch, Chain, Follows, StepNames, TpgReset
<1>3. Stretch(TpgSetup, "format", "start")
  BY DEF Stretch, Chain, Follows, StepNames, TpgSetup
<1>4. Stretch(<< "led0", "led1", "led2", "led3" >>, "led0", "led3")
  BY DEF Stretch, Chain, Follows, StepNames
<1>5. Stretch(StartTimers, "initialize", "start1")
  BY DEF Stretch, Chain, Follows, StepNames, StartTimers
<1>6. Stretch(Polling, "poll1", "poll0")
  BY DEF Stretch, Chain, Follows, StepNames, Polling
<1>7. Stretch(BringUp, "low", "start")
  BY <1>2, <1>3, Join DEF Follows, BringUp
<1>8. Stretch(<< "open", "release" >> \o BringUp, "open", "start")
  BY <1>1, <1>7, Join DEF Follows
<1>9. Stretch((<< "open", "release" >> \o BringUp) \o << "led0", "led1", "led2", "led3" >>,
              "open", "led3")
  BY <1>4, <1>8, Join DEF Follows
<1>10. Stretch(((<< "open", "release" >> \o BringUp) \o << "led0", "led1", "led2", "led3" >>)
                 \o StartTimers, "open", "start1")
  BY <1>5, <1>9, Join DEF Follows
<1> QED BY <1>6, <1>10, Join DEF Follows, Main

-----------------------------------------------------------------------------
\* What is left of the program after its first step, or after that step is
\* replaced by another stretch.
LEMMA TailChain ==
  ASSUME ScriptInv, script # << >>
  PROVE  /\ Head(script) \in StepNames
         /\ Tail(script) \in Seq(StepNames) /\ Chain(Tail(script))
         /\ Tail(script) # << >> => Follows(Head(script), Head(Tail(script)))
<1>1. /\ Len(script) \in Nat /\ Len(script) > 0 /\ Head(script) = script[1]
      /\ Head(script) \in StepNames
      /\ Tail(script) \in Seq(StepNames) /\ Len(Tail(script)) = Len(script) - 1
      /\ \A i \in 1 .. Len(script) - 1 : Tail(script)[i] = script[i + 1]
  BY EmptySeq, LenProperties, HeadTailProperties DEF ScriptInv
<1>2. Chain(Tail(script))
  <2> SUFFICES ASSUME NEW i \in 1 .. Len(Tail(script)) - 1
               PROVE  Follows(Tail(script)[i], Tail(script)[i + 1])
    BY DEF Chain
  <2>1. i + 1 \in 1 .. Len(script) - 1
    BY <1>1
  <2>2. Follows(script[i + 1], script[i + 2])
    BY <1>1, <2>1 DEF ScriptInv, Chain
  <2>3. i \in 1 .. Len(script) - 1 /\ i + 1 \in 1 .. Len(script) - 1
    BY <1>1
  <2>4. Tail(script)[i] = script[i + 1] /\ Tail(script)[i + 1] = script[(i + 1) + 1]
    BY <1>1, <2>3
  <2> QED BY <1>1, <2>2, <2>4
<1>3. ASSUME Tail(script) # << >> PROVE Follows(Head(script), Head(Tail(script)))
  <2>1. Len(Tail(script)) > 0 /\ Head(Tail(script)) = Tail(script)[1]
    BY <1>1, <1>3, EmptySeq, LenProperties, HeadTailProperties
  <2>2. Tail(script)[1] = script[2] /\ 1 \in 1 .. Len(script) - 1
    BY <1>1, <2>1
  <2>3. Follows(script[1], script[1 + 1])
    BY <2>2 DEF ScriptInv, Chain
  <2> QED BY <1>1, <2>1, <2>2, <2>3
<1> QED BY <1>1, <1>2, <1>3

LEMMA StretchHead ==
  ASSUME NEW s, NEW a, NEW b, Stretch(s, a, b)
  PROVE  s \in Seq(StepNames) /\ Chain(s) /\ s # << >> /\ Head(s) = a
BY HeadTailProperties DEF Stretch

\* What the branches of the program put in the place of what was left of it.
LEMMA Branches ==
  /\ Stretch(Polling, "poll1", "poll0")
  /\ Stretch(ShutDown, "disable", "close")
  /\ Stretch(Toggles(0) \o << "stream" >>, "toggle0", "stream")
  /\ Stretch(Toggles(1), "toggle1", "toggle2")
<1>1. Stretch(Polling, "poll1", "poll0")
  BY DEF Stretch, Chain, Follows, StepNames, Polling
<1>2. /\ Stretch(<< "disable" >>, "disable", "disable")
      /\ Stretch(TpgReset, "low", "high") /\ Stretch(<< "close" >>, "close", "close")
  BY DEF Stretch, Chain, Follows, StepNames, TpgReset
<1>3. Stretch(<< "disable" >> \o TpgReset, "disable", "high")
  BY <1>2, Join DEF Follows
<1>4. Stretch(ShutDown, "disable", "close")
  BY <1>2, <1>3, Join DEF Follows, ShutDown
<1>5. /\ Stretch(Toggles(0), "toggle0", "toggle3")
      /\ Stretch(<< "stream" >>, "stream", "stream")
      /\ Stretch(Toggles(1), "toggle1", "toggle2")
  BY DEF Stretch, Chain, Follows, StepNames, Toggles
<1>6. Stretch(Toggles(0) \o << "stream" >>, "toggle0", "stream")
  BY <1>5, Join DEF Follows
<1> QED BY <1>1, <1>4, <1>5, <1>6
-----------------------------------------------------------------------------
(* The program and its use of the timer driver.                            *)

UInv == ScriptInv /\ DriverInv

LEMMA UseInit == Init => UInv
<1> SUFFICES ASSUME Init PROVE UInv
  OBVIOUS
<1>1. ScriptInv /\ Head(script) = "open"
  BY MainStretch, StretchHead DEF Init, ScriptInv
<1>2. DriverInv
  BY <1>1 DEF Init, T!Init, DriverInv, NeedsDriver, Loop
<1> QED BY <1>1, <1>2 DEF UInv

\* A step that goes on to the next one and leaves the driver alone.
LEMMA GoesOn ==
  ASSUME UInv, script # << >>, script' = Tail(script), ready' = ready,
         ready \/ Head(script) # "initialize"
  PROVE  ScriptInv' /\ (script' # << >> /\ Head(script') \in NeedsDriver => ready')
<1>1. ScriptInv'
  BY TailChain DEF UInv, ScriptInv, Chain
<1>2. ASSUME script' # << >>, Head(script') \in NeedsDriver PROVE ready'
  <2>1. Follows(Head(script), Head(script'))
    BY <1>2, TailChain DEF UInv
  <2>2. Head(script) \in NeedsDriver \cup {"initialize"}
    BY <1>2, <2>1 DEF Follows, NeedsDriver, Loop
  <2> QED BY <2>2 DEF UInv, DriverInv
<1> QED BY <1>1, <1>2

LEMMA DriverKept ==
  ASSUME UInv, UNCHANGED timers
  PROVE  ~ready' => T!Loaded(ready', started', pwmEnabled', handler', interrupts', todo', reg')
BY DEF UInv, DriverInv, timers, driver, T!Loaded

\* The steps that leave the driver alone.
LEMMA UseElsewhere ==
  ASSUME UInv,
         \/ Open \/ SetLine \/ ControlTpg \/ Streaming2 \/ Close
         \/ \E group \in TpgGroups : SetTpg(group)
         \/ \E i \in Leds : SetLed(i)
  PROVE  UInv' /\ UNCHANGED timers
<1>1. script # << >> /\ UNCHANGED timers
  BY DEF Open, SetLine, ControlTpg, Streaming2, Close, SetTpg, SetLed, At
<1>2. Head(script) # "initialize"
  BY DEF Open, SetLine, ControlTpg, Streaming2, Close, SetTpg, SetLed, At, TpgGroups, Leds,
         Led, Toggle
<1>3. \/ script' = Tail(script) \/ script' = << >> \/ script' = ShutDown
  BY DEF Open, SetLine, ControlTpg, Streaming2, Close, SetTpg, SetLed, Continue, Then,
         Return
<1>4. ready' = ready
  BY <1>1 DEF timers, driver
<1>5. ScriptInv' /\ (script' # << >> /\ Head(script') \in NeedsDriver => ready')
  <2>1. CASE script' = Tail(script)
    BY <2>1, <1>1, <1>2, <1>4, GoesOn
  <2>2. CASE script' = << >>
    BY <2>2 DEF ScriptInv, Chain
  <2>3. CASE script' = ShutDown
    BY <2>3, Branches, StretchHead DEF ScriptInv, NeedsDriver, Loop
  <2> QED BY <1>3, <2>1, <2>2, <2>3
<1> QED BY <1>1, <1>5, DriverKept DEF UInv, DriverInv

LEMMA UseInitialize ==
  ASSUME UInv, InitializeTimers
  PROVE  UInv' /\ T!CallInitialize
<1>1. script # << >> /\ script' = Tail(script) /\ T!CallInitialize /\ ready'
  BY DEF InitializeTimers, At, Continue, Then
<1>2. ScriptInv'
  BY <1>1, TailChain DEF UInv, ScriptInv, Chain
<1> QED BY <1>1, <1>2 DEF UInv, DriverInv

LEMMA UseStart ==
  ASSUME UInv, NEW t \in T!Timers, StartTimer(t)
  PROVE  UInv' /\ T!CallOnTimer(t)
<1>1. /\ script # << >> /\ script' = Tail(script) /\ UNCHANGED driver
      /\ T!Begin(T!Start(t)) /\ Head(script) \in {"start0", "start1"}
  BY DEF StartTimer, At, T!Timers
<1>2. ready /\ ready'
  BY <1>1 DEF UInv, DriverInv, NeedsDriver, driver
<1>3. T!CallOnTimer(t)
  BY <1>1, <1>2 DEF T!CallOnTimer, T!CallInPlace, T!Call, driver, T!driver
<1> QED BY <1>1, <1>2, <1>3, GoesOn DEF UInv, DriverInv

\* The program after a poll: it goes on to the LEDs, or polls again.
AfterPoll(t) ==
  IF "INT" \in tcsr[t] THEN IF t = 0 THEN "toggle0" ELSE "toggle1"
                       ELSE IF t = 0 THEN "poll1" ELSE "poll0"

LEMMA PollScript ==
  ASSUME UInv, NEW t \in T!Timers, Poll(t)
  PROVE  ScriptInv' /\ (script' # << >> => Head(script') = AfterPoll(t))
<1>1. /\ script # << >>
      /\ \/ t = 0 /\ Head(script) = "poll0"
         \/ t = 1 /\ Head(script) = "poll1"
  BY DEF Poll, At, T!Timers
<1>2. /\ Tail(script) \in Seq(StepNames) /\ Chain(Tail(script))
      /\ t = 1 /\ Tail(script) # << >> => Head(Tail(script)) = "poll0"
  BY <1>1, TailChain DEF UInv, Follows
<1>3. CASE t = 0 /\ "INT" \in tcsr[t]
  BY <1>3, Branches, StretchHead DEF Poll, Then, ScriptInv, AfterPoll
<1>4. CASE t = 1 /\ "INT" \in tcsr[t]
  <2>1. script' = Toggles(1) \o Tail(script)
    BY <1>4 DEF Poll, Then
  <2>2. CASE Tail(script) = << >>
    <3>1. script' = Toggles(1)
      BY <2>1, <2>2, Branches, StretchHead, ConcatEmptySeq
    <3> QED BY <1>4, <3>1, Branches, StretchHead DEF ScriptInv, AfterPoll
  <2>3. CASE Tail(script) # << >>
    <3>1. Stretch(Tail(script), "poll0", Tail(script)[Len(Tail(script))])
      BY <1>2, <1>4, <2>3, HeadTailProperties DEF Stretch
    <3>2. Stretch(script', "toggle1", Tail(script)[Len(Tail(script))])
      BY <2>1, <3>1, Branches, Join DEF Follows
    <3> QED BY <1>4, <3>2, StretchHead DEF ScriptInv, AfterPoll
  <2> QED BY <2>2, <2>3
<1>5. CASE t = 0 /\ "INT" \notin tcsr[t]
  BY <1>5, Branches, StretchHead DEF Poll, Then, ScriptInv, AfterPoll
<1>6. CASE t = 1 /\ "INT" \notin tcsr[t]
  BY <1>6, <1>2 DEF Poll, Then, ScriptInv, Chain, AfterPoll
<1> QED BY <1>3, <1>4, <1>5, <1>6 DEF T!Timers

LEMMA UsePoll ==
  ASSUME UInv, NEW t \in T!Timers, Poll(t)
  PROVE  UInv' /\ (T!CallOnTimer(t) \/ UNCHANGED timers)
<1>1. /\ script # << >> /\ UNCHANGED driver
      /\ Head(script) \in {"poll0", "poll1"}
  BY DEF Poll, At, T!Timers, timers
<1>2. ready /\ ready'
  BY <1>1 DEF UInv, DriverInv, NeedsDriver, Loop, driver
<1>3. T!CallOnTimer(t) \/ UNCHANGED timers
  BY <1>1, <1>2 DEF Poll, T!CallOnTimer, T!CallInPlace, T!Call, driver, T!driver
<1> QED BY <1>2, <1>3, PollScript DEF UInv, DriverInv

LEMMA UseDriver ==
  ASSUME UInv, Driver
  PROVE  UInv' /\ T!Exec("main")
<1>1. T!Exec("main") /\ script' = script
  BY DEF Driver
<1>2. ~T!Idle("main")
  BY <1>1 DEF T!Exec, T!DoRead, T!DoWrite, T!DoStore, T!DoStarted, T!DoPwm, T!AtHead
<1>3. ready
  BY <1>2 DEF UInv, DriverInv, T!Loaded, T!Idle, T!Ctx
<1>4. ready' = ready
  BY <1>1 DEF T!Exec, T!DoRead, T!DoWrite, T!DoStore, T!DoStarted, T!DoPwm, T!driver
<1> QED BY <1>1, <1>3, <1>4 DEF UInv, ScriptInv, DriverInv

LEMMA UseExpire ==
  ASSUME UInv, NEW t \in T!Timers, Expire(t)
  PROVE  UInv' /\ T!Expire(t)
BY DEF Expire, T!Expire, T!driver, UInv, ScriptInv, DriverInv, T!Loaded

LEMMA UseRestart ==
  ASSUME UInv, Restart
  PROVE  UInv' /\ (T!Restart \/ UNCHANGED timers)
<1>1. ScriptInv' /\ Head(script') = "open"
  BY MainStretch, StretchHead DEF Restart, ScriptInv
<1>2. T!Loaded(ready', started', pwmEnabled', handler', interrupts', todo', reg')
  BY DEF Restart
<1>3. UInv'
  BY <1>1, <1>2 DEF UInv, DriverInv, NeedsDriver, Loop
<1>4. CASE ready
  BY <1>4, <1>2, <1>3 DEF Restart, T!Restart
<1>5. CASE ~ready
  BY <1>5, <1>2, <1>3 DEF Restart, UInv, DriverInv, T!Loaded, timers, driver
<1> QED BY <1>3, <1>4, <1>5

\* The part of TmrCtr that the program uses.
Uses ==
  \/ T!CallInitialize \/ T!Exec("main") \/ T!Restart
  \/ \E t \in T!Timers : T!CallOnTimer(t) \/ T!Expire(t)
  \/ UNCHANGED timers

LEMMA UseStep ==
  ASSUME UInv, [Next]_vars
  PROVE  UInv' /\ Uses
<1>1. CASE UNCHANGED vars
  BY <1>1 DEF vars, timers, driver, UInv, ScriptInv, DriverInv, T!Loaded, Uses
<1>2. CASE \/ Open \/ SetLine \/ ControlTpg \/ Streaming2 \/ Close
           \/ \E group \in TpgGroups : SetTpg(group)
           \/ \E i \in Leds : SetLed(i)
  BY <1>2, UseElsewhere DEF Uses
<1>3. CASE InitializeTimers
  BY <1>3, UseInitialize DEF Uses
<1>4. CASE \E t \in T!Timers : StartTimer(t)
  BY <1>4, UseStart DEF Uses
<1>5. CASE \E t \in T!Timers : Poll(t)
  BY <1>5, UsePoll DEF Uses
<1>6. CASE Driver
  BY <1>6, UseDriver DEF Uses
<1>7. CASE Restart
  BY <1>7, UseRestart DEF Uses
<1>8. CASE \E t \in T!Timers : Expire(t)
  BY <1>8, UseExpire DEF Uses
<1> QED BY <1>1, <1>2, <1>3, <1>4, <1>5, <1>6, <1>7, <1>8 DEF Next, Program

LEMMA UsesTheDriver == Uses => [T!Next]_T!vars
BY DEF Uses, T!Next, T!Ctx, T!vars, timers, driver

LEMMA UseInvariant == Spec => []UInv
<1>1. UInv /\ [Next]_vars => UInv'
  BY UseStep
<1> QED BY UseInit, <1>1, PTL DEF Spec

\* Every access of main() to the timers is a step of the driver as TmrCtr has
\* it: no call before the initialisation, one at a time, a rerun included.
THEOREM TimersAreUsedAsDescribed == Spec => TimersRefined
<1>1. Init => T!Init
  BY DEF Init
<1>2. UInv /\ [Next]_vars => [T!Next]_T!vars
  BY UseStep, UsesTheDriver
<1> QED BY <1>1, <1>2, UseInvariant, PTL DEF Spec, TimersRefined, T!Spec

-----------------------------------------------------------------------------
(* What is proved of the driver holds of the program.                      *)

S == INSTANCE TmrCtrProofs
       WITH Calls <- {"Start", "Reset"}, OptionSets <- {}, CallbackOps <- {},
            Masked <- FALSE, StatsModulus <- 1

LEMMA SameConstants ==
  /\ S!Timers = T!Timers /\ S!Ctx = T!Ctx /\ S!Bits = T!Bits
  /\ S!OptionsTable = T!OptionsTable /\ S!Moves = T!Moves /\ S!Steps = T!Steps
  /\ S!vars = T!vars /\ S!driver = T!driver
BY DEF S!Timers, T!Timers, S!Ctx, T!Ctx, S!Bits, T!Bits, S!OptionsTable, T!OptionsTable,
   S!Moves, T!Moves, S!Steps, T!Steps, S!vars, T!vars, S!driver, T!driver

LEMMA SameScripts ==
  ASSUME NEW t
  PROVE  /\ S!Start(t) = T!Start(t) /\ S!Reset(t) = T!Reset(t)
         /\ S!InitTimer(t) = T!InitTimer(t) /\ S!Read(t) = T!Read(t)
BY DEF S!Start, T!Start, S!Reset, T!Reset, S!InitTimer, T!InitTimer, S!Read, T!Read,
   S!Write, T!Write, S!Store, T!Store, S!Step, T!Step

LEMMA SameTypes == S!TypeOK <=> T!TypeOK
BY SameConstants DEF S!TypeOK, T!TypeOK

LEMMA SameExec == ASSUME NEW c PROVE S!Exec(c) <=> T!Exec(c)
<1>1. S!Pop(c) <=> T!Pop(c)
  BY DEF S!Pop, T!Pop
<1>2. ASSUME NEW m PROVE S!AtHead(c, m) <=> T!AtHead(c, m)
  BY DEF S!AtHead, T!AtHead, S!Idle, T!Idle
<1>3. ASSUME NEW t, NEW v PROVE S!BusWrite(t, v) <=> T!BusWrite(t, v)
  <2>1. \A old, h : S!AfterWrite(old, v, h) = T!AfterWrite(old, v, h)
    BY DEF S!AfterWrite, T!AfterWrite
  <2>2. S!StillHolds(t, v) = T!StillHolds(t, v)
    BY DEF S!StillHolds, T!StillHolds
  <2> QED BY <2>1, <2>2, Zenon DEF S!BusWrite, T!BusWrite
<1>4. S!DoRead(c) <=> T!DoRead(c)
  BY <1>2, Zenon DEF S!DoRead, T!DoRead, S!driver, T!driver
<1>5. S!DoWrite(c) <=> T!DoWrite(c)
  BY <1>1, <1>2, <1>3, Zenon DEF S!DoWrite, T!DoWrite, S!driver, T!driver
<1>6. S!DoStore(c) <=> T!DoStore(c)
  BY <1>1, <1>2, <1>3, Zenon DEF S!DoStore, T!DoStore, S!driver, T!driver
<1>7. S!DoStarted(c) <=> T!DoStarted(c)
  BY <1>1, <1>2 DEF S!DoStarted, T!DoStarted
<1>8. S!DoPwm(c) <=> T!DoPwm(c)
  BY <1>1, <1>2 DEF S!DoPwm, T!DoPwm
<1> QED BY <1>4, <1>5, <1>6, <1>7, <1>8 DEF S!Exec, T!Exec

LEMMA SameCalls ==
  /\ T!CallInitialize => S!CallInitialize
  /\ \A t : T!CallOnTimer(t) => S!CallOnTimer(t)
<1>1. ASSUME NEW q PROVE S!Begin(q) <=> T!Begin(q)
  BY DEF S!Begin, T!Begin, S!Idle, T!Idle
<1>2. S!InitHwSteps = T!InitHwSteps /\ S!Stopped = T!Stopped
  <2>1. S!Stopped = T!Stopped
    BY DEF S!Stopped, T!Stopped, S!Timers, T!Timers
  <2>2. S!InitTimer(0) = T!InitTimer(0) /\ S!InitTimer(1) = T!InitTimer(1)
    BY SameScripts
  <2> QED BY <2>1, <2>2 DEF S!InitHwSteps, T!InitHwSteps
<1>3. S!CfgInitialize <=> T!CfgInitialize
  BY DEF S!CfgInitialize, T!CfgInitialize
<1>4. T!CallInitialize => S!CallInitialize
  BY <1>1, <1>2, <1>3, Zenon DEF S!CallInitialize, T!CallInitialize, S!driver, T!driver
<1>5. ASSUME NEW t, T!CallOnTimer(t) PROVE S!CallOnTimer(t)
  <2>1. /\ ready /\ UNCHANGED T!driver
        /\ T!Begin(T!Start(t)) \/ T!Begin(T!Reset(t))
    BY <1>5 DEF T!CallOnTimer, T!CallInPlace, T!CallSelfTest, T!CallSetOptions, T!Call
  <2>2. S!Begin(S!Start(t)) \/ S!Begin(S!Reset(t))
    BY <1>1, <2>1, SameScripts
  <2> QED BY <2>1, <2>2 DEF S!CallOnTimer, S!CallInPlace, S!Call, S!driver, T!driver
<1> QED BY <1>4, <1>5

LEMMA SameExpire == ASSUME NEW t PROVE T!Expire(t) => S!Expire(t)
<1>1. T!Enabled(t) <=> S!Enabled(t)
  BY DEF T!Enabled, S!Enabled, T!Timers, S!Timers
<1> QED BY <1>1 DEF T!Expire, S!Expire, T!Counting, S!Counting, T!driver, S!driver

LEMMA SameLoaded ==
  ASSUME NEW a, NEW b, NEW c, NEW d, NEW e, NEW f, NEW g
  PROVE  T!Loaded(a, b, c, d, e, f, g) <=> S!Loaded(a, b, c, d, e, f, g)
BY DEF T!Loaded, S!Loaded, T!Timers, S!Timers, T!Ctx, S!Ctx

LEMMA SameRestart == T!Restart => S!Restart
BY SameLoaded DEF T!Restart, S!Restart

LEMMA SameInit == T!Init => S!Init
BY SameLoaded DEF T!Init, S!Init, T!Timers, S!Timers

LEMMA UsesTheProved == Uses => [S!Next]_S!vars
<1>1. T!Exec("main") => S!Exec("main")
  BY SameExec
<1> QED BY <1>1, SameCalls, SameExpire, SameRestart
        DEF Uses, S!Next, S!Ctx, S!Timers, T!Timers, S!vars, timers, driver

LEMMA Assumptions ==
  /\ {"Start", "Reset"} \subseteq S!CallNames
  /\ {} \subseteq SUBSET DOMAIN S!OptionsTable
  /\ 1 \in Nat \ {0}
  /\ {} \subseteq {"Reset", "Start", "Stop"}
  /\ FALSE \in BOOLEAN
  /\ {} \cap {"Start", "Stop"} # {} => FALSE
BY DEF S!CallNames

LEMMA SpecOfTheDriver == Spec => S!Spec
<1>1. Init => S!Init
  BY SameInit DEF Init
<1>2. UInv /\ [Next]_vars => [S!Next]_S!vars
  BY UseStep, UsesTheProved
<1> QED BY <1>1, <1>2, UseInvariant, PTL DEF Spec, S!Spec

\* No reset of a timer stays unreleased, and no timer runs that the driver takes
\* for stopped, whatever the program was doing when it was killed.
THEOREM TimersAreRight == Spec => [](T!EnabledIsStarted /\ T!LoadReleased)
<1>1. S!Spec => []S!EnabledIsStarted
  BY S!NoTimerBehindTheDriver, Assumptions
<1>2. S!Spec => []S!LoadReleased
  BY S!ResetsAreReleased, Assumptions
<1>3. S!EnabledIsStarted => T!EnabledIsStarted
  BY SameScripts DEF S!EnabledIsStarted, T!EnabledIsStarted, S!ClearPending,
                     T!ClearPending, S!Pending, T!Pending,
     S!Store, T!Store, S!Step, T!Step, S!Timers, T!Timers
<1>4. S!LoadReleased => T!LoadReleased
  BY DEF S!LoadReleased, T!LoadReleased, S!Idle, T!Idle, S!Timers, T!Timers
<1> QED BY <1>1, <1>2, <1>3, <1>4, SpecOfTheDriver, PTL

LEMMA DriverTypes == Spec => []T!TypeOK
<1>1. S!Spec => []S!TypeOK
  BY S!TypeCorrect, Assumptions
<1> QED BY <1>1, SameTypes, SpecOfTheDriver, PTL
-----------------------------------------------------------------------------
(* The card.                                                               *)

\* What each step of the program can rely on when it is next.
Setup == {"format", "motionEn", "bckgndId", "overlay", "auto", "start"}
Ready == {"led0", "led1", "led2", "led3", "initialize", "start0", "start1"} \cup Loop

Knows(h) ==
  /\ h = "high" => apCtrl = {}
  /\ h = "close" => apCtrl = {} /\ line
  /\ h \in Setup \cup Ready => line
  /\ h \in (Setup \ {"format"}) \cup Ready => "format" \in tpg
  /\ h \in {"overlay", "auto", "start"} \cup Ready => "bckgndId" \in tpg
  /\ h \in {"auto", "start"} \cup Ready => "overlay" \in tpg
  /\ h = "start" => apCtrl = {"restart"}
  /\ h \in Ready => apCtrl = {"restart", "start"}

CardInv ==
  /\ status # "none" => script = << >>
  /\ StoppedOnSuccess
  /\ script # << >> => Knows(Head(script))

LEMMA CardInit == Init => CardInv
BY MainStretch, StretchHead
   DEF Init, CardInv, StoppedOnSuccess, Knows, Setup, Ready, Loop

LEMMA CardGoesOn ==
  ASSUME UInv, CardInv, script # << >>, status' = status, script' = Tail(script),
         \A n : Follows(Head(script), n) => Knows(n)'
  PROVE  CardInv'
<1>1. status' = "none"
  BY DEF CardInv
<1>2. script' # << >> => Knows(Head(script))'
  BY TailChain DEF UInv
<1> QED BY <1>1, <1>2 DEF CardInv, StoppedOnSuccess

LEMMA CardAtLine == ASSUME UInv, CardInv, SetLine PROVE CardInv'
<1>1. script # << >> /\ status' = status /\ script' = Tail(script) /\ Knows(Head(script))
  BY DEF SetLine, At, Continue, Then, CardInv
<1>2. ASSUME NEW n, Follows(Head(script), n) PROVE Knows(n)'
  <2>1. CASE At("release") /\ line' = TRUE /\ UNCHANGED <<tpg, apCtrl>>
    BY <2>1, <1>2 DEF At, Follows, Knows, Setup, Ready, Loop
  <2>2. CASE At("low") /\ line' = FALSE /\ tpg' \in {{}, tpg} /\ apCtrl' = {}
    BY <2>2, <1>2 DEF At, Follows, Knows, Setup, Ready, Loop
  <2>3. CASE At("high") /\ line' = TRUE /\ UNCHANGED <<tpg, apCtrl>>
    BY <2>3, <1>1, <1>2 DEF At, Follows, Knows, Setup, Ready, Loop
  <2> QED BY <2>1, <2>2, <2>3 DEF SetLine
<1> QED BY <1>1, <1>2, CardGoesOn

LEMMA CardAtTpg ==
  ASSUME UInv, CardInv, NEW group \in TpgGroups, SetTpg(group) PROVE CardInv'
<1>1. /\ script # << >> /\ status' = status /\ script' = Tail(script) /\ Knows(Head(script))
      /\ Head(script) = group /\ UNCHANGED <<line, apCtrl>> /\ line
      /\ tpg \subseteq tpg' /\ (group # "motionEn" => group \in tpg')
  BY DEF SetTpg, At, Continue, Then, CardInv, Knows, TpgGroups, Setup
<1>2. ASSUME NEW n, Follows(Head(script), n) PROVE Knows(n)'
  BY <1>1, <1>2 DEF TpgGroups, Follows, Knows, Setup, Ready, Loop
<1> QED BY <1>1, <1>2, CardGoesOn

LEMMA CardAtControl == ASSUME UInv, CardInv, ControlTpg PROVE CardInv'
<1>1. script # << >> /\ status' = status /\ script' = Tail(script) /\ Knows(Head(script))
  BY DEF ControlTpg, At, Continue, Then, CardInv
<1>2. ASSUME NEW n, Follows(Head(script), n) PROVE Knows(n)'
  <2>1. CASE At("auto") /\ apCtrl' = {"restart"}
    BY <2>1, <1>1, <1>2 DEF ControlTpg, At, Follows, Knows, Setup, Ready, Loop
  <2>2. CASE At("start") /\ apCtrl' = (apCtrl \cap {"restart"}) \cup {"start"}
    <3>1. apCtrl' = {"restart", "start"} /\ n = "led0" /\ UNCHANGED <<line, tpg>>
      BY <2>2, <1>1, <1>2 DEF ControlTpg, At, Follows, Knows
    <3> QED BY <3>1, <2>2, <1>1 DEF At, Knows, Setup, Ready, Loop
  <2>3. CASE At("disable") /\ apCtrl' = {}
    BY <2>3, <1>2 DEF At, Follows, Knows, Setup, Ready, Loop
  <2> QED BY <2>1, <2>2, <2>3 DEF ControlTpg
<1> QED BY <1>1, <1>2, CardGoesOn

\* The steps that leave the generator alone.
LEMMA CardElsewhere ==
  ASSUME UInv, CardInv,
         \/ InitializeTimers \/ \E i \in Leds : SetLed(i)
         \/ \E t \in T!Timers : StartTimer(t)
  PROVE  CardInv'
<1>1. /\ script # << >> /\ status' = status /\ script' = Tail(script) /\ Knows(Head(script))
      /\ UNCHANGED <<line, tpg, apCtrl>>
  BY DEF InitializeTimers, SetLed, StartTimer, card, At, Continue, Then, CardInv
<1>2. Head(script) \in Ready
  BY DEF InitializeTimers, SetLed, StartTimer, At, Leds, T!Timers, Led, Toggle, Ready, Loop
<1>3. ASSUME NEW n, Follows(Head(script), n) PROVE Knows(n)'
  BY <1>1, <1>2, <1>3 DEF Follows, Knows, Setup, Ready, Loop
<1> QED BY <1>1, <1>3, CardGoesOn

LEMMA CardAtPoll ==
  ASSUME UInv, CardInv, NEW t \in T!Timers, Poll(t) PROVE CardInv'
<1>1. /\ script # << >> /\ status' = status /\ status = "none"
      /\ Knows(Head(script)) /\ Head(script) \in Ready
      /\ UNCHANGED <<line, tpg, apCtrl>>
  BY DEF Poll, Then, At, card, CardInv, T!Timers, Ready, Loop
<1>2. script' # << >> => Head(script') \in Loop
  BY PollScript DEF AfterPoll, Loop
<1> QED BY <1>1, <1>2 DEF CardInv, StoppedOnSuccess, Knows, Setup, Ready, Loop

LEMMA CardAtEnds ==
  ASSUME UInv, CardInv, Open \/ Streaming2 \/ Close
  PROVE  CardInv'
<1>1. /\ script # << >> /\ status = "none" /\ Knows(Head(script))
      /\ UNCHANGED <<line, tpg, apCtrl>>
  BY DEF Open, Streaming2, Close, At, card, CardInv
<1>2. CASE Open /\ Continue
  <2>1. ASSUME NEW n, Follows(Head(script), n) PROVE Knows(n)'
    BY <1>2, <2>1 DEF Open, At, Follows, Knows, Setup, Ready, Loop
  <2> QED BY <1>1, <1>2, <2>1, CardGoesOn DEF Continue, Then
<1>3. CASE Return("FAILURE")
  BY <1>3 DEF Return, CardInv, StoppedOnSuccess
<1>4. CASE Streaming2 /\ Then(ShutDown)
  BY <1>1, <1>4, Branches, StretchHead
     DEF Then, CardInv, StoppedOnSuccess, Knows, Setup, Ready, Loop
<1>5. CASE Close
  BY <1>1, <1>5 DEF Close, At, Return, Knows, CardInv, StoppedOnSuccess
<1> QED BY <1>2, <1>3, <1>4, <1>5 DEF Open, Streaming2

LEMMA CardStep == UInv /\ CardInv /\ [Next]_vars => CardInv'
<1> SUFFICES ASSUME UInv, CardInv, [Next]_vars PROVE CardInv'
  OBVIOUS
<1>1. CASE UNCHANGED vars
  BY <1>1 DEF vars, card, CardInv, StoppedOnSuccess, Knows
<1>2. CASE Driver \/ \E t \in T!Timers : Expire(t)
  BY <1>2 DEF Driver, Expire, card, CardInv, StoppedOnSuccess, Knows
<1>3. CASE Restart
  BY <1>3, MainStretch, StretchHead
     DEF Restart, CardInv, StoppedOnSuccess, Knows, Setup, Ready, Loop
<1> QED BY <1>1, <1>2, <1>3, CardAtLine, CardAtTpg, CardAtControl, CardElsewhere,
           CardAtPoll, CardAtEnds DEF Next, Program

LEMMA CardInvariant == Spec => [](UInv /\ CardInv)
<1>1. UInv /\ CardInv /\ [Next]_vars => (UInv /\ CardInv)'
  BY UseStep, CardStep
<1> QED BY UseInit, CardInit, <1>1, PTL DEF Spec

\* Whatever the earlier run was doing when it was killed, streaming begins only
\* with the generator out of reset, running by itself, and configured.
THEOREM StreamsFromConfiguredGenerator == Spec => []StreamsConfigured
<1>1. UInv /\ CardInv => StreamsConfigured
  BY DEF CardInv, StreamsConfigured, At, Knows, Setup, Ready, Loop
<1> QED BY <1>1, CardInvariant, PTL

\* A program that succeeds leaves the generator stopped and its reset released.
THEOREM SuccessStopsGenerator == Spec => []StoppedOnSuccess
<1>1. UInv /\ CardInv => StoppedOnSuccess
  BY DEF CardInv
<1> QED BY <1>1, CardInvariant, PTL
-----------------------------------------------------------------------------
(* Types, and the LEDs.                                                    *)

CardTypes ==
  /\ status \in {"none", "SUCCESS", "FAILURE"}
  /\ leds \in [Leds -> BOOLEAN]
  /\ line \in BOOLEAN
  /\ tpg \subseteq TpgGroups
  /\ apCtrl \subseteq {"restart", "start"}
  /\ expired \in [T!Timers -> BOOLEAN]
  /\ phase \in [T!Timers -> BOOLEAN]

LEMMA TypesInit == Init => CardTypes
BY DEF Init, CardTypes

LEMMA TypesStep == T!TypeOK /\ CardTypes /\ [Next]_vars => CardTypes'
<1> SUFFICES ASSUME T!TypeOK, CardTypes, [Next]_vars PROVE CardTypes'
  OBVIOUS
<1>1. CASE UNCHANGED vars
  BY <1>1 DEF vars, card, CardTypes
<1>2. CASE Open \/ SetLine \/ ControlTpg \/ Streaming2 \/ Close \/ InitializeTimers
  BY <1>2 DEF Open, SetLine, ControlTpg, Streaming2, Close, InitializeTimers,
              Continue, Then, Return, card, CardTypes
<1>3. ASSUME NEW group \in TpgGroups, SetTpg(group) PROVE CardTypes'
  BY <1>3 DEF SetTpg, Continue, Then, CardTypes
<1>4. ASSUME NEW i \in Leds, SetLed(i) PROVE CardTypes'
  BY <1>4 DEF SetLed, Continue, Then, CardTypes
<1>5. ASSUME NEW t \in T!Timers, StartTimer(t) PROVE CardTypes'
  <2>1. phase' \in [T!Timers -> BOOLEAN]
    BY <1>5 DEF StartTimer
  <2> QED BY <1>5, <2>1 DEF StartTimer, card, CardTypes
<1>6. ASSUME NEW t \in T!Timers, Poll(t) PROVE CardTypes'
  BY <1>6 DEF Poll, Then, card, CardTypes
<1>7. CASE Driver \/ Restart
  BY <1>7 DEF Driver, Restart, card, CardTypes
<1>8. ASSUME NEW t \in T!Timers, Expire(t) PROVE CardTypes'
  BY <1>8 DEF Expire, T!TypeOK, card, CardTypes
<1> QED BY <1>1, <1>2, <1>3, <1>4, <1>5, <1>6, <1>7, <1>8 DEF Next, Program

\* The timers and their driver, the program and the card keep their types.
THEOREM TypeCorrect == Spec => []TypeOK
<1>1. T!TypeOK /\ UInv /\ CardTypes => TypeOK
  BY DEF TypeOK, UInv, ScriptInv, CardTypes
<1>2. Spec => []CardTypes
  BY TypesInit, TypesStep, DriverTypes, PTL DEF Spec
<1> QED BY <1>1, <1>2, DriverTypes, UseInvariant, PTL

\* The LEDs of a timer are as they were to each other when the loop began, or,
\* between its two toggles, the other way round.
Together(t) == phase[t] <=> \A i, j \in Pair[t + 1] : leds[i] = leds[j]

LedsAt(h) ==
  /\ h \in Loop \ {"toggle2"} => Together(1)
  /\ h \in Loop \ {"toggle3"} => Together(0)
  /\ h = "toggle2" => (phase[1] <=> leds[1] # leds[2])
  /\ h = "toggle3" => (phase[0] <=> leds[0] # leds[3])

LedInv == script # << >> => LedsAt(Head(script))

LEMMA Pairs ==
  /\ Together(0) <=> (phase[0] <=> leds[0] = leds[3])
  /\ Together(1) <=> (phase[1] <=> leds[1] = leds[2])
BY DEF Together, Pair

LEMMA LedInit == Init => LedInv
<1>1. LedsAt("open")
  BY DEF LedsAt, Loop
<1> QED BY <1>1, MainStretch, StretchHead DEF Init, LedInv

LEMMA LedGoesOn ==
  ASSUME UInv, LedInv, script # << >>, script' = Tail(script),
         \A n : Follows(Head(script), n) => LedsAt(n)'
  PROVE  LedInv'
BY TailChain DEF UInv, LedInv

\* Toggling the first LED of a pair puts it out of step, toggling the second
\* puts it right again.
LEMMA LedAtToggle ==
  ASSUME UInv, CardTypes, LedInv, NEW i \in Leds, At(Toggle(i)), phase' = phase,
         leds' = [leds EXCEPT ![i] = ~@], NEW n, Follows(Toggle(i), n)
  PROVE  LedsAt(n)'
<1>1. LedsAt(Toggle(i))
  BY DEF At, LedInv
<1>2. \A j \in Leds : leds'[j] = IF j = i THEN ~leds[j] ELSE leds[j]
  BY DEF CardTypes
<1>3. CASE i = 0
  <2>1. n = "toggle3" /\ leds'[0] = ~leds[0] /\ \A j \in 1 .. 3 : leds'[j] = leds[j]
    BY <1>2, <1>3 DEF Toggle, Follows, Leds
  <2>2. Together(1) /\ (phase[0] <=> leds[0] = leds[3])
    BY <1>1, <1>3, Pairs DEF Toggle, LedsAt, Loop
  <2>3. Together(1)' /\ (phase[0] <=> leds[0] # leds[3])'
    BY <2>1, <2>2 DEF Together, Pair, CardTypes, Leds
  <2> QED BY <2>1, <2>3 DEF LedsAt
<1>4. CASE i = 1
  <2>1. n = "toggle2" /\ leds'[1] = ~leds[1] /\ \A j \in {0, 2, 3} : leds'[j] = leds[j]
    BY <1>2, <1>4 DEF Toggle, Follows, Leds
  <2>2. Together(0) /\ (phase[1] <=> leds[1] = leds[2])
    BY <1>1, <1>4, Pairs DEF Toggle, LedsAt, Loop
  <2>3. Together(0)' /\ (phase[1] <=> leds[1] # leds[2])'
    BY <2>1, <2>2 DEF Together, Pair, CardTypes, Leds
  <2> QED BY <2>1, <2>3 DEF LedsAt
<1>5. CASE i = 2
  <2>1. n = "poll0" /\ leds'[2] = ~leds[2] /\ \A j \in {0, 1, 3} : leds'[j] = leds[j]
    BY <1>2, <1>5 DEF Toggle, Follows, Leds
  <2>2. Together(0) /\ (phase[1] <=> leds[1] # leds[2])
    BY <1>1, <1>5 DEF Toggle, LedsAt, Loop
  <2>3. Together(0)' /\ Together(1)'
    BY <2>1, <2>2 DEF Together, Pair, CardTypes, Leds
  <2> QED BY <2>1, <2>3 DEF LedsAt
<1>6. CASE i = 3
  <2>1. n = "stream" /\ leds'[3] = ~leds[3] /\ \A j \in 0 .. 2 : leds'[j] = leds[j]
    BY <1>2, <1>6 DEF Toggle, Follows, Leds
  <2>2. Together(1) /\ (phase[0] <=> leds[0] # leds[3])
    BY <1>1, <1>6 DEF Toggle, LedsAt, Loop
  <2>3. Together(0)' /\ Together(1)'
    BY <2>1, <2>2 DEF Together, Pair, CardTypes, Leds
  <2> QED BY <2>1, <2>3 DEF LedsAt
<1> QED BY <1>3, <1>4, <1>5, <1>6 DEF Leds

LEMMA LedAtLed ==
  ASSUME UInv, CardTypes, LedInv, NEW i \in Leds, SetLed(i) PROVE LedInv'
<1>1. script # << >> /\ script' = Tail(script) /\ phase' = phase
  BY DEF SetLed, At, Continue, Then
<1>2. ASSUME NEW n, Follows(Head(script), n) PROVE LedsAt(n)'
  <2>1. CASE At(Led(i))
    <3>1. n \notin Loop
      BY <2>1, <1>2 DEF At, Led, Leds, Follows, Loop
    <3> QED BY <3>1 DEF LedsAt, Loop
  <2>2. CASE At(Toggle(i)) /\ leds' = [leds EXCEPT ![i] = ~@]
    BY <1>1, <1>2, <2>2, LedAtToggle DEF At
  <2> QED BY <2>1, <2>2 DEF SetLed
<1> QED BY <1>1, <1>2, LedGoesOn

\* The loop begins with the timers: this is where the phase is taken.
LEMMA LedAtStart ==
  ASSUME UInv, LedInv, NEW t \in T!Timers, StartTimer(t) PROVE LedInv'
<1>1. /\ script # << >> /\ script' = Tail(script) /\ UNCHANGED leds
      /\ phase' = [u \in T!Timers |-> \A i, j \in Pair[u + 1] : leds[i] = leds[j]]
      /\ Head(script) \in {"start0", "start1"}
  BY DEF StartTimer, At, card, T!Timers
<1>2. Together(0)' /\ Together(1)'
  BY <1>1 DEF Together, T!Timers
<1>3. ASSUME NEW n, Follows(Head(script), n) PROVE LedsAt(n)'
  BY <1>1, <1>2, <1>3 DEF Follows, LedsAt, Loop
<1> QED BY <1>1, <1>3, LedGoesOn

LEMMA LedAtPoll ==
  ASSUME UInv, LedInv, NEW t \in T!Timers, Poll(t) PROVE LedInv'
<1>1. /\ script # << >> /\ UNCHANGED <<leds, phase>> /\ LedsAt(Head(script))
      /\ Head(script) \in {"poll0", "poll1"}
  BY DEF Poll, Then, At, card, T!Timers, LedInv
<1>2. Together(0) /\ Together(1)
  BY <1>1 DEF LedsAt, Loop
<1>3. script' # << >> => Head(script') \in {"toggle0", "toggle1", "poll0", "poll1"}
  BY PollScript DEF AfterPoll
<1> QED BY <1>1, <1>2, <1>3 DEF LedInv, LedsAt, Together

\* The steps before and after the loop.
LEMMA LedElsewhere ==
  ASSUME UInv, LedInv,
         \/ Open \/ SetLine \/ ControlTpg \/ Streaming2 \/ Close \/ InitializeTimers
         \/ \E group \in TpgGroups : SetTpg(group)
  PROVE  LedInv'
<1>1. \/ script' = << >>
      \/ Streaming2 /\ script' = ShutDown
      \/ ~Streaming2 /\ script' = Tail(script) /\ script # << >>
  BY DEF Open, SetLine, ControlTpg, Streaming2, Close, InitializeTimers, SetTpg,
         At, Continue, Then, Return
<1>2. CASE script' = << >>
  BY <1>2 DEF LedInv
<1>3. CASE script' = ShutDown
  BY <1>3, Branches, StretchHead DEF LedInv, LedsAt, Loop
<1>4. CASE ~Streaming2 /\ script' = Tail(script) /\ script # << >>
  <2>1. Head(script) \in StepNames \ (Loop \cup {"start1"})
    BY <1>4, TailChain DEF UInv, Open, SetLine, ControlTpg, Close, InitializeTimers,
                           SetTpg, TpgGroups, At,
                StepNames, Loop
  <2>2. ASSUME NEW n, Follows(Head(script), n) PROVE LedsAt(n)'
    <3>1. n \notin Loop
      BY <2>1, <2>2 DEF Follows, Loop
    <3> QED BY <3>1 DEF LedsAt, Loop
  <2> QED BY <1>4, <2>2, LedGoesOn
<1> QED BY <1>1, <1>2, <1>3, <1>4

LEMMA LedStep == UInv /\ CardTypes /\ LedInv /\ [Next]_vars => LedInv'
<1> SUFFICES ASSUME UInv, CardTypes, LedInv, [Next]_vars PROVE LedInv'
  OBVIOUS
<1>1. CASE UNCHANGED vars
  BY <1>1 DEF vars, card, LedInv, LedsAt, Together
<1>2. CASE Driver \/ \E t \in T!Timers : Expire(t)
  BY <1>2 DEF Driver, Expire, card, LedInv, LedsAt, Together
<1>3. CASE Restart
  <2>1. LedsAt("open")'
    BY DEF LedsAt, Loop
  <2> QED BY <1>3, <2>1, MainStretch, StretchHead DEF Restart, LedInv
<1> QED BY <1>1, <1>2, <1>3, LedElsewhere, LedAtLed, LedAtStart, LedAtPoll DEF Next, Program

\* The two LEDs of a timer blink together, as they began.
THEOREM PairsBlinkTogether == Spec => []LedsTogether
<1>1. LedInv => LedsTogether
  BY DEF LedInv, LedsAt, Loop, LedsTogether, Together, At, T!Timers
<1>2. Spec => []CardTypes
  BY TypesInit, TypesStep, DriverTypes, PTL DEF Spec
<1> QED BY <1>1, <1>2, LedInit, LedStep, UseInvariant, PTL DEF Spec
-----------------------------------------------------------------------------
(* The timers between two polls.                                           *)

\* A timer that counts, and what the program knows of it; and one that was
\* initialised and not started yet.
Live(t) ==
  /\ started[t] /\ tcsr[t] \in {{"ENT"}, {"ENT", "INT"}}
  /\ expired[t] <=> "INT" \in tcsr[t]
  /\ "INT" \in tcsr[t] => held[t]
Blank(t) == ~started[t] /\ tcsr[t] = {} /\ ~expired[t]

\* The calls in progress, step by step.
queue == todo["main"]
Held(t)    == T!Store(t, {"LOAD"})
Cleared(t) == T!Store(t, {"INT", "LOAD"})
Flagged(t) == T!Step("started", t, {}, {})
On(t)      == T!Write(t, {"ENT"}, {})

Initializing ==
  /\ ~started[0] /\ ~expired[0] /\ ~started[1] /\ ~expired[1]
  /\ \/ queue = << Cleared(0), T!Store(0, {}), Cleared(1), T!Store(1, {}) >>
     \/ queue = << T!Store(0, {}), Cleared(1), T!Store(1, {}) >> /\ tcsr[0] = {"LOAD"}
     \/ queue = << Cleared(1), T!Store(1, {}) >> /\ tcsr[0] = {}
     \/ queue = << T!Store(1, {}) >> /\ tcsr[0] = {} /\ tcsr[1] = {"LOAD"}
     \/ queue = << >> /\ tcsr[0] = {} /\ tcsr[1] = {}

Starting(t) ==
  /\ ~expired[t]
  /\ \/ queue = << T!Read(t), Held(t), Flagged(t), On(t) >> /\ Blank(t)
     \/ queue = << Held(t), Flagged(t), On(t) >> /\ Blank(t) /\ reg["main"] = {}
     \/ /\ queue = << Flagged(t), On(t) >> /\ tcsr[t] = {"LOAD"} /\ ~started[t]
        /\ reg["main"] = {}
     \/ /\ queue = << On(t) >> /\ tcsr[t] = {"LOAD"} /\ started[t]
        /\ reg["main"] = {}

Resetting(t) ==
  /\ started[t] /\ ~expired[t]
  /\ \/ /\ queue = << T!Read(t), T!Write(t, {"LOAD"}, {}), T!Write(t, {}, {}) >>
        /\ tcsr[t] = {"ENT", "INT"} /\ held[t]
     \/ /\ queue = << T!Write(t, {"LOAD"}, {}), T!Write(t, {}, {}) >>
        /\ tcsr[t] = {"ENT", "INT"} /\ held[t] /\ reg["main"] = {"ENT", "INT"}
     \/ /\ queue = << T!Write(t, {}, {}) >>
        /\ tcsr[t] = {"ENT", "LOAD"} /\ reg["main"] = {"ENT", "INT"}

Begun == Blank(1) /\ (Starting(0) \/ (queue = << >> /\ Live(0)))
Running ==
  \/ Live(0) /\ Live(1) /\ queue = << >>
  \/ Live(0) /\ (Starting(1) \/ Resetting(1))
  \/ Live(1) /\ Resetting(0)

StageInv ==
  /\ \A t \in T!Timers : tcsr[t] \subseteq {"INT", "ENT", "LOAD"}
  /\ todo["isr"] = << >>
  /\ ~ready => \A t \in T!Timers : ~expired[t]
  /\ ready => Initializing \/ Begun \/ Running
  /\ ready /\ script # << >> =>
       /\ Head(script) = "start0" => Initializing
       /\ Head(script) = "start1" => Begun
       /\ Head(script) \in Loop => Running

-----------------------------------------------------------------------------
LEMMA ExecStep ==
  ASSUME T!TypeOK, T!Exec("main"), NEW s \in T!Steps, NEW rest,
         Head(queue) = s, Tail(queue) = rest
  PROVE  /\ queue' = rest /\ todo'["isr"] = todo["isr"] /\ ready' = ready
         /\ s.m = "read" => /\ reg'["main"] = tcsr[s.t]
                            /\ UNCHANGED <<tcsr, held, started>>
         /\ s.m = "write" => /\ T!BusWrite(s.t, (reg["main"] \cup s.set) \ s.clr)
                             /\ started' = started
         /\ s.m = "store" => T!BusWrite(s.t, s.set) /\ started' = started
         /\ s.m = "started" => /\ started' = [started EXCEPT ![s.t] = TRUE]
                               /\ UNCHANGED <<tcsr, held>>
         /\ s.m # "read" /\ Len(queue) # 1 => reg' = reg
<1>1. todo \in [T!Ctx -> Seq(T!Steps)] /\ reg \in [T!Ctx -> SUBSET T!Bits]
  BY DEF T!TypeOK
<1>2. todo' = [todo EXCEPT !["main"] = Tail(@)]
  BY DEF T!Exec, T!DoRead, T!DoWrite, T!DoStore, T!DoStarted, T!DoPwm, T!Pop
<1>3. queue' = rest /\ todo'["isr"] = todo["isr"]
  BY <1>1, <1>2 DEF queue, T!Ctx
<1>4. T!AtHead("main", s.m)
  BY DEF T!Exec, T!DoRead, T!DoWrite, T!DoStore, T!DoStarted, T!DoPwm, T!AtHead, queue
<1> QED BY <1>1, <1>3, <1>4
        DEF T!Exec, T!DoRead, T!DoWrite, T!DoStore, T!DoStarted, T!DoPwm, T!AtHead, T!Pop,
            T!driver, T!Ctx, queue

\* The bits that main() can find in the control registers.
UsedBits == {"INT", "ENT", "LOAD"}
WithinUse == \A t \in T!Timers : tcsr[t] \subseteq UsedBits => tcsr'[t] \subseteq UsedBits

\* What a step of a call leaves alone: the other timer, and what the program
\* knows.
Others(t) ==
  /\ \A u \in T!Timers : u # t => /\ tcsr'[u] = tcsr[u] /\ held'[u] = held[u]
                                  /\ started'[u] = started[u]
  /\ expired' = expired /\ WithinUse

LEMMA BusStep ==
  ASSUME T!TypeOK, NEW t \in T!Timers, NEW v \in SUBSET T!Bits, T!BusWrite(t, v)
  PROVE  /\ tcsr'[t] = T!AfterWrite(tcsr[t], v, held'[t])
         /\ held'[t] \in BOOLEAN
         /\ "LOAD" \in v => ~held'[t]
         /\ \A u \in T!Timers : u # t => tcsr'[u] = tcsr[u] /\ held'[u] = held[u]
         /\ v \subseteq UsedBits => WithinUse
BY DEF T!TypeOK, T!BusWrite, T!StillHolds, T!AfterWrite, UsedBits, WithinUse

LEMMA InTheCalls ==
  ASSUME NEW t \in T!Timers
  PROVE  /\ Cleared(t) \in T!Steps /\ T!Store(t, {}) \in T!Steps /\ Held(t) \in T!Steps
         /\ T!Read(t) \in T!Steps /\ Flagged(t) \in T!Steps /\ On(t) \in T!Steps
         /\ T!Write(t, {"LOAD"}, {}) \in T!Steps /\ T!Write(t, {}, {}) \in T!Steps
BY DEF Cleared, Held, Flagged, On, T!Store, T!Read, T!Write, T!Step, T!Steps, T!Moves,
       T!Bits

LEMMA StartingStep ==
  ASSUME T!TypeOK, NEW t \in T!Timers, Starting(t), Driver
  PROVE  (Starting(t)' \/ (queue' = << >> /\ Live(t)')) /\ Others(t)
<1>1. T!Exec("main") /\ expired' = expired /\ script' = script
  BY DEF Driver
<1>2. /\ tcsr[t] \in SUBSET T!Bits /\ started \in [T!Timers -> BOOLEAN]
      /\ reg["main"] \in SUBSET T!Bits
  BY DEF T!TypeOK, T!Ctx
<1>3. CASE queue = << T!Read(t), Held(t), Flagged(t), On(t) >> /\ Blank(t)
  <2>1. Head(queue) = T!Read(t) /\ Tail(queue) = << Held(t), Flagged(t), On(t) >>
    BY <1>3
  <2>2. /\ queue' = << Held(t), Flagged(t), On(t) >> /\ reg'["main"] = tcsr[t]
        /\ UNCHANGED <<tcsr, held, started>> /\ Others(t)
    BY <1>1, <2>1, InTheCalls, ExecStep DEF T!Read, T!Step, Others, WithinUse
  <2> QED BY <1>1, <1>3, <2>2 DEF Starting, Blank
<1>4. CASE queue = << Held(t), Flagged(t), On(t) >> /\ Blank(t) /\ reg["main"] = {}
  <2>1. Head(queue) = Held(t) /\ Tail(queue) = << Flagged(t), On(t) >> /\ Len(queue) # 1
    BY <1>4
  <2>2. /\ queue' = << Flagged(t), On(t) >> /\ reg' = reg
        /\ T!BusWrite(t, {"LOAD"}) /\ started' = started
    BY <1>1, <2>1, InTheCalls, ExecStep DEF Held, T!Store, T!Step
  <2>3. Others(t) /\ tcsr'[t] = {"LOAD"}
    BY <1>1, <1>4, <2>2, BusStep DEF Others, UsedBits, T!Bits, T!AfterWrite, Blank
  <2> QED BY <1>1, <1>4, <2>2, <2>3 DEF Starting, Blank
<1>5. CASE /\ queue = << Flagged(t), On(t) >> /\ tcsr[t] = {"LOAD"} /\ ~started[t]
           /\ reg["main"] = {}
  <2>1. Head(queue) = Flagged(t) /\ Tail(queue) = << On(t) >> /\ Len(queue) # 1
    BY <1>5
  <2>2. /\ queue' = << On(t) >> /\ reg' = reg
        /\ started' = [started EXCEPT ![t] = TRUE] /\ UNCHANGED <<tcsr, held>>
    BY <1>1, <2>1, InTheCalls, ExecStep DEF Flagged, T!Step
  <2>3. Others(t) /\ started'[t]
    BY <1>1, <1>2, <2>2 DEF Others, WithinUse
  <2> QED BY <1>1, <1>5, <2>2, <2>3 DEF Starting
<1>6. CASE queue = << On(t) >> /\ tcsr[t] = {"LOAD"} /\ started[t] /\ reg["main"] = {}
  <2>1. Head(queue) = On(t) /\ Tail(queue) = << >>
    BY <1>6
  <2>2. /\ queue' = << >> /\ T!BusWrite(t, {"ENT"}) /\ started' = started
    <3>1. On(t).m = "write" /\ On(t).t = t /\ On(t).set = {"ENT"} /\ On(t).clr = {}
      BY DEF On, T!Write, T!Step
    <3>2. /\ queue' = << >> /\ T!BusWrite(t, (reg["main"] \cup {"ENT"}) \ {})
          /\ started' = started
      BY <1>1, <2>1, <3>1, InTheCalls, ExecStep
    <3>3. (reg["main"] \cup {"ENT"}) \ {} = {"ENT"}
      BY <1>6
    <3> QED BY <3>2, <3>3
  <2>3. Others(t) /\ tcsr'[t] = {"ENT"}
    BY <1>1, <1>6, <2>2, BusStep DEF Others, UsedBits, T!Bits, T!AfterWrite
  <2> QED BY <1>1, <1>6, <2>2, <2>3 DEF Starting, Live
<1> QED BY <1>3, <1>4, <1>5, <1>6 DEF Starting

LEMMA ResettingStep ==
  ASSUME T!TypeOK, NEW t \in T!Timers, Resetting(t), Driver
  PROVE  (Resetting(t)' \/ (queue' = << >> /\ Live(t)')) /\ Others(t)
<1>1. T!Exec("main") /\ expired' = expired /\ script' = script
  BY DEF Driver
<1>2. CASE /\ queue = << T!Read(t), T!Write(t, {"LOAD"}, {}), T!Write(t, {}, {}) >>
           /\ tcsr[t] = {"ENT", "INT"} /\ held[t]
  <2>1. /\ Head(queue) = T!Read(t)
        /\ Tail(queue) = << T!Write(t, {"LOAD"}, {}), T!Write(t, {}, {}) >>
    BY <1>2
  <2>2. /\ queue' = << T!Write(t, {"LOAD"}, {}), T!Write(t, {}, {}) >>
        /\ reg'["main"] = tcsr[t]
        /\ UNCHANGED <<tcsr, held, started>> /\ Others(t)
    BY <1>1, <2>1, InTheCalls, ExecStep DEF T!Read, T!Step, Others, WithinUse
  <2> QED BY <1>1, <1>2, <2>2 DEF Resetting
<1>3. CASE /\ queue = << T!Write(t, {"LOAD"}, {}), T!Write(t, {}, {}) >>
           /\ tcsr[t] = {"ENT", "INT"} /\ held[t] /\ reg["main"] = {"ENT", "INT"}
  <2>1. /\ Head(queue) = T!Write(t, {"LOAD"}, {}) /\ Tail(queue) = << T!Write(t, {}, {}) >>
        /\ Len(queue) # 1
    BY <1>3
  <2>2. /\ queue' = << T!Write(t, {}, {}) >> /\ reg' = reg
        /\ T!BusWrite(t, {"ENT", "INT", "LOAD"}) /\ started' = started
    <3>1. ({"ENT", "INT"} \cup {"LOAD"}) \ {} = {"ENT", "INT", "LOAD"}
      OBVIOUS
    <3> QED BY <1>1, <1>3, <2>1, <3>1, InTheCalls, ExecStep DEF T!Write, T!Step
  <2>3. Others(t) /\ tcsr'[t] = {"ENT", "LOAD"} /\ started'[t]
    BY <1>1, <1>3, <2>2, BusStep DEF Others, UsedBits, T!Bits, T!AfterWrite, Resetting
  <2> QED BY <1>1, <1>3, <2>2, <2>3 DEF Resetting
<1>4. CASE /\ queue = << T!Write(t, {}, {}) >>
           /\ tcsr[t] = {"ENT", "LOAD"} /\ reg["main"] = {"ENT", "INT"}
  <2>1. Head(queue) = T!Write(t, {}, {}) /\ Tail(queue) = << >>
    BY <1>4
  <2>2. /\ queue' = << >> /\ T!BusWrite(t, {"ENT", "INT"}) /\ started' = started
    <3> DEFINE w == T!Write(t, {}, {})
    <3>1. w.m = "write" /\ w.t = t /\ w.set = {} /\ w.clr = {}
      BY DEF T!Write, T!Step
    <3>2. w \in T!Steps /\ Head(queue) = w /\ Tail(queue) = << >>
      BY <2>1, InTheCalls
    <3> HIDE DEF w
    <3>3. /\ queue' = << >> /\ T!BusWrite(t, (reg["main"] \cup {}) \ {})
          /\ started' = started
      BY <1>1, <3>1, <3>2, ExecStep
    <3>4. (reg["main"] \cup {}) \ {} = {"ENT", "INT"}
      BY <1>4
    <3> QED BY <3>3, <3>4
  <2>3. Others(t) /\ tcsr'[t] = {"ENT"} /\ started'[t]
    BY <1>1, <1>4, <2>2, BusStep DEF Others, UsedBits, T!Bits, T!AfterWrite, Resetting
  <2> QED BY <1>1, <1>4, <2>2, <2>3 DEF Resetting, Live
<1> QED BY <1>2, <1>3, <1>4 DEF Resetting

LEMMA InitializingStep ==
  ASSUME T!TypeOK, Initializing, Driver
  PROVE  Initializing' /\ WithinUse
<1>1. T!Exec("main") /\ expired' = expired /\ script' = script /\ queue # << >>
  BY DEF Driver, T!Exec, T!DoRead, T!DoWrite, T!DoStore, T!DoStarted, T!DoPwm, T!AtHead,
     T!Idle, queue
<1>2. ASSUME NEW t \in T!Timers, NEW v \in SUBSET T!Bits, NEW rest,
             Head(queue) = T!Store(t, v), Tail(queue) = rest
      PROVE  /\ queue' = rest /\ started' = started
             /\ tcsr'[t] = T!AfterWrite(tcsr[t], v, held'[t])
             /\ "LOAD" \in v => ~held'[t]
             /\ \A u \in T!Timers : u # t => tcsr'[u] = tcsr[u]
             /\ v \subseteq UsedBits => WithinUse
  <2>1. T!Store(t, v) \in T!Steps
    BY DEF T!Store, T!Step, T!Steps, T!Moves
  <2>2. queue' = rest /\ T!BusWrite(t, v) /\ started' = started
    BY <1>1, <1>2, <2>1, ExecStep DEF T!Store, T!Step
  <2> QED BY <2>2, BusStep
<1>3. /\ {"INT", "LOAD"} \in SUBSET T!Bits /\ {"INT", "LOAD"} \subseteq UsedBits
      /\ {} \in SUBSET T!Bits /\ {} \subseteq UsedBits
      /\ 0 \in T!Timers /\ 1 \in T!Timers /\ 0 # 1
      /\ \A old, holds : ~holds => T!AfterWrite(old, {"INT", "LOAD"}, holds) = {"LOAD"}
  BY DEF T!Bits, T!Timers, UsedBits, T!AfterWrite
<1>4. CASE queue = << Cleared(0), T!Store(0, {}), Cleared(1), T!Store(1, {}) >>
  <2>1. /\ Head(queue) = T!Store(0, {"INT", "LOAD"})
        /\ Tail(queue) = << T!Store(0, {}), Cleared(1), T!Store(1, {}) >>
    BY <1>4 DEF Cleared
  <2>2. /\ queue' = << T!Store(0, {}), Cleared(1), T!Store(1, {}) >>
        /\ tcsr'[0] = {"LOAD"} /\ started' = started /\ WithinUse
    <3>1. /\ queue' = << T!Store(0, {}), Cleared(1), T!Store(1, {}) >>
          /\ tcsr'[0] = T!AfterWrite(tcsr[0], {"INT", "LOAD"}, held'[0]) /\ ~held'[0]
          /\ started' = started /\ WithinUse
      BY <1>2, <1>3, <2>1
    <3> QED BY <1>3, <3>1
  <2> QED BY <1>1, <2>2 DEF Initializing
<1>5. CASE queue = << T!Store(0, {}), Cleared(1), T!Store(1, {}) >> /\ tcsr[0] = {"LOAD"}
  <2>1. /\ Head(queue) = T!Store(0, {})
        /\ Tail(queue) = << Cleared(1), T!Store(1, {}) >>
    BY <1>5
  <2>2. /\ queue' = << Cleared(1), T!Store(1, {}) >>
        /\ tcsr'[0] = {} /\ started' = started /\ WithinUse
    BY <1>2, <1>3, <1>5, <2>1 DEF T!AfterWrite
  <2> QED BY <1>1, <2>2 DEF Initializing
<1>6. CASE queue = << Cleared(1), T!Store(1, {}) >> /\ tcsr[0] = {}
  <2>1. /\ Head(queue) = T!Store(1, {"INT", "LOAD"}) /\ Tail(queue) = << T!Store(1, {}) >>
    BY <1>6 DEF Cleared
  <2>2. /\ queue' = << T!Store(1, {}) >>
        /\ tcsr'[0] = {} /\ tcsr'[1] = {"LOAD"} /\ started' = started /\ WithinUse
    <3>1. /\ queue' = << T!Store(1, {}) >> /\ tcsr'[0] = tcsr[0]
          /\ tcsr'[1] = T!AfterWrite(tcsr[1], {"INT", "LOAD"}, held'[1]) /\ ~held'[1]
          /\ started' = started /\ WithinUse
      BY <1>2, <1>3, <2>1
    <3> QED BY <1>3, <1>6, <3>1
  <2> QED BY <1>1, <2>2 DEF Initializing
<1>7. CASE queue = << T!Store(1, {}) >> /\ tcsr[0] = {} /\ tcsr[1] = {"LOAD"}
  <2>1. Head(queue) = T!Store(1, {}) /\ Tail(queue) = << >>
    BY <1>7
  <2>2. /\ queue' = << >>
        /\ tcsr'[0] = {} /\ tcsr'[1] = {} /\ started' = started /\ WithinUse
    BY <1>2, <1>3, <1>7, <2>1 DEF T!AfterWrite
  <2> QED BY <1>1, <2>2 DEF Initializing
<1> QED BY <1>1, <1>4, <1>5, <1>6, <1>7 DEF Initializing

\* A timer expires only while it counts, and then holds.
LEMMA ExpireStep ==
  ASSUME T!TypeOK, CardTypes, StageInv, NEW u \in T!Timers, Expire(u)
  PROVE  /\ \A t \in T!Timers : /\ Live(t) => Live(t)'
                                /\ Blank(t) => Blank(t)'
                                /\ Starting(t) => Starting(t)'
                                /\ Resetting(t) => Resetting(t)'
         /\ Initializing => Initializing'
         /\ UNCHANGED <<todo, ready, script, started>>
         /\ \A t \in T!Timers : tcsr'[t] \subseteq {"INT", "ENT", "LOAD"}
         /\ \A t \in T!Timers : ~started[t] /\ ~expired[t] => ~expired'[t]
<1>1. UNCHANGED <<todo, reg, ready, script, started>> /\ queue' = queue
  BY DEF Expire, T!Expire, T!driver, queue
<1>2. \A t \in T!Timers : tcsr[t] \subseteq {"INT", "ENT", "LOAD"}
  BY DEF StageInv
<1>3. /\ "ENT" \in tcsr[u] /\ "LOAD" \notin tcsr[u] /\ ~held[u]
      /\ tcsr[u] \cap {"ARHT", "CAPT"} = {}
  BY <1>2 DEF Expire, T!Expire, T!Counting, T!Enabled
<1>4. /\ tcsr'[u] = tcsr[u] \cup {"INT"} /\ held'[u] /\ expired'[u] = started[u]
      /\ \A t \in T!Timers : t # u => /\ tcsr'[t] = tcsr[t] /\ held'[t] = held[t]
                                      /\ expired'[t] = expired[t]
  BY <1>3 DEF Expire, T!Expire, T!TypeOK, CardTypes
<1>5. ASSUME NEW t \in T!Timers
      PROVE  /\ Live(t) => Live(t)'
             /\ Blank(t) => Blank(t)'
             /\ Starting(t) => Starting(t)'
             /\ Resetting(t) => Resetting(t)'
  <2>1. CASE t # u
    BY <1>1, <1>4, <2>1 DEF Live, Blank, Starting, Resetting, T!Read, T!Write, T!Step,
       Held, Flagged, On, T!Store
  <2>2. CASE t = u
    <3>1. Live(t) => Live(t)'
      BY <1>1, <1>3, <1>4, <2>2 DEF Live
    <3>2. ~Blank(t) /\ ~Starting(t) /\ ~Resetting(t)
      BY <1>3, <2>2 DEF Blank, Starting, Resetting
    <3> QED BY <3>1, <3>2
  <2> QED BY <2>1, <2>2
<1>6. Initializing => Initializing'
  <2> SUFFICES ASSUME Initializing PROVE Initializing'
    OBVIOUS
  <2>1. 0 \in T!Timers /\ 1 \in T!Timers
    BY DEF T!Timers
  <2>2. ~started'[0] /\ ~expired'[0] /\ ~started'[1] /\ ~expired'[1]
    BY <1>1, <1>4, <2>1 DEF Initializing
  <2>3. tcsr[0] \in {{}, {"LOAD"}} => tcsr'[0] = tcsr[0]
    BY <1>3, <1>4, <2>1
  <2>4. tcsr[1] \in {{}, {"LOAD"}} => tcsr'[1] = tcsr[1]
    BY <1>3, <1>4, <2>1
  <2> QED BY <1>1, <2>2, <2>3, <2>4 DEF Initializing
<1>7. \A t \in T!Timers : tcsr'[t] \subseteq {"INT", "ENT", "LOAD"}
  BY <1>2, <1>4
<1> QED BY <1>1, <1>4, <1>5, <1>6, <1>7

\* What is left of the call in progress by a step of it.
LEMMA StageDriver == ASSUME T!TypeOK, CardTypes, UInv, StageInv, Driver PROVE StageInv'
<1>1. /\ ready /\ ready' /\ script' = script /\ queue # << >> /\ todo'["isr"] = << >>
  <2>1. T!Exec("main") /\ script' = script
    BY DEF Driver
  <2>2. queue # << >> /\ ready' = ready /\ todo' = [todo EXCEPT !["main"] = Tail(@)]
    BY <2>1 DEF T!Exec, T!DoRead, T!DoWrite, T!DoStore, T!DoStarted, T!DoPwm, T!AtHead,
       T!Idle, T!driver, T!Pop, queue
  <2>3. ready
    BY <2>2 DEF UInv, DriverInv, T!Loaded, T!Ctx, queue
  <2>4. todo'["isr"] = << >>
    BY <2>2 DEF T!TypeOK, T!Ctx, StageInv
  <2> QED BY <2>1, <2>2, <2>3, <2>4
<1>2. 0 \in T!Timers /\ 1 \in T!Timers /\ \A t \in T!Timers : t = 0 \/ t = 1
  BY DEF T!Timers
<1>3. ASSUME Initializing PROVE Initializing' /\ WithinUse
  BY <1>3, InitializingStep
<1>4. ASSUME Begun PROVE Begun' /\ WithinUse
  <2>1. Starting(0) /\ Blank(1)
    BY <1>1, <1>4 DEF Begun
  <2>2. (Starting(0)' \/ (queue' = << >> /\ Live(0)')) /\ Others(0)
    BY <1>2, <2>1, StartingStep
  <2>3. Blank(1)'
    BY <1>2, <2>1, <2>2 DEF Others, Blank
  <2> QED BY <2>2, <2>3 DEF Begun, Others
<1>5. ASSUME Running PROVE Running' /\ WithinUse
  <2>1. CASE Live(0) /\ (Starting(1) \/ Resetting(1))
    <3>1. (Starting(1)' \/ Resetting(1)' \/ (queue' = << >> /\ Live(1)')) /\ Others(1)
      BY <1>2, <2>1, StartingStep, ResettingStep
    <3>2. Live(0)'
      BY <1>2, <2>1, <3>1 DEF Others, Live
    <3> QED BY <3>1, <3>2 DEF Running, Others
  <2>2. CASE Live(1) /\ Resetting(0)
    <3>1. (Resetting(0)' \/ (queue' = << >> /\ Live(0)')) /\ Others(0)
      BY <1>2, <2>2, ResettingStep
    <3>2. Live(1)'
      BY <1>2, <2>2, <3>1 DEF Others, Live
    <3> QED BY <3>1, <3>2 DEF Running, Others
  <2> QED BY <1>1, <1>5, <2>1, <2>2 DEF Running
<1>6. WithinUse /\ (Initializing \/ Begun \/ Running)'
  BY <1>1, <1>3, <1>4, <1>5 DEF StageInv
<1>7. \A t \in T!Timers : tcsr'[t] \subseteq {"INT", "ENT", "LOAD"}
  BY <1>6 DEF StageInv, WithinUse, UsedBits
<1>8. /\ Initializing => Initializing'
      /\ Begun => Begun'
      /\ Running => Running'
  BY <1>3, <1>4, <1>5
<1> QED BY <1>1, <1>6, <1>7, <1>8 DEF StageInv

LEMMA StageInit == Init => StageInv
BY DEF Init, T!Init, T!Loaded, StageInv, T!Ctx

LEMMA StageExpire ==
  ASSUME T!TypeOK, CardTypes, UInv, StageInv, NEW u \in T!Timers, Expire(u) PROVE StageInv'
<1>1. 0 \in T!Timers /\ 1 \in T!Timers
  BY DEF T!Timers
<1>2. queue' = queue /\ UNCHANGED <<todo, ready, script>>
  BY ExpireStep DEF queue
<1>3. /\ Initializing => Initializing'
      /\ Begun => Begun'
      /\ Running => Running'
  BY <1>1, <1>2, ExpireStep DEF Begun, Running
<1>4. ~ready' => \A t \in T!Timers : ~expired'[t]
  BY <1>2, ExpireStep DEF UInv, DriverInv, T!Loaded, StageInv
<1> QED BY <1>2, <1>3, <1>4, ExpireStep DEF StageInv

LEMMA StageRestart == ASSUME UInv, StageInv, Restart PROVE StageInv'
<1>1. ~ready' /\ todo'["isr"] = << >>
  BY DEF Restart, T!Loaded, T!Ctx
<1> QED BY <1>1 DEF Restart, StageInv

LEMMA TwoPairs ==
  ASSUME NEW X, NEW a \in X, NEW b \in X, NEW c \in X, NEW d \in X
  PROVE  << a, b >> \o << c, d >> = << a, b, c, d >>
<1>1. ASSUME NEW p \in Seq(X), NEW q \in Seq(X), NEW r \in Seq(X),
             Len(p) = 2, Len(q) = 2, Len(r) = 4,
             r[1] = p[1], r[2] = p[2], r[3] = q[1], r[4] = q[2]
      PROVE  p \o q = r
  <2>1. /\ p \o q \in Seq(X) /\ Len(p \o q) = Len(p) + Len(q)
        /\ \A i \in 1 .. Len(p) + Len(q) :
             (p \o q)[i] = IF i <= Len(p) THEN p[i] ELSE q[i - Len(p)]
    BY ConcatProperties
  <2>2. /\ Len(p \o q) = 4
        /\ \A i \in 1 .. 4 : (p \o q)[i] = IF i <= 2 THEN p[i] ELSE q[i - 2]
    BY <1>1, <2>1
  <2>3. /\ (p \o q)[1] = p[1] /\ (p \o q)[2] = p[2]
        /\ (p \o q)[3] = q[1] /\ (p \o q)[4] = q[2]
    BY <2>2
  <2>4. \A i \in 1 .. Len(r) : i = 1 \/ i = 2 \/ i = 3 \/ i = 4
    BY <1>1
  <2>5. \A i \in 1 .. Len(r) : (p \o q)[i] = r[i]
    BY <1>1, <2>3, <2>4
  <2> QED BY <1>1, <2>1, <2>2, <2>5, SeqEqual
<1>2. << a, b >> \in Seq(X) /\ << c, d >> \in Seq(X) /\ << a, b, c, d >> \in Seq(X)
  OBVIOUS
<1> QED BY <1>1, <1>2

\* Nothing is started when the driver is initialised, so it clears both timers.
LEMMA StageInitialize ==
  ASSUME T!TypeOK, CardTypes, UInv, StageInv, InitializeTimers PROVE StageInv'
<1>1. /\ T!CallInitialize /\ ready' /\ script # << >> /\ Head(script) = "initialize"
      /\ script' = Tail(script) /\ expired' = expired
  BY DEF InitializeTimers, At, Continue, Then
<1>2. ~ready /\ started = [t \in T!Timers |-> FALSE]
  BY <1>1 DEF T!CallInitialize, UInv, DriverInv, T!Loaded
<1>3. T!Begin(T!InitHwSteps) /\ started' = started
  BY <1>1, <1>2 DEF T!CallInitialize, T!CfgInitialize, T!driver
<1>4. T!InitHwSteps = << Cleared(0), T!Store(0, {}), Cleared(1), T!Store(1, {}) >>
  <2>1. T!Stopped = {0, 1}
    BY <1>2 DEF T!Stopped, T!Timers
  <2>2. T!InitHwSteps = T!InitTimer(0) \o T!InitTimer(1)
    BY <2>1 DEF T!InitHwSteps
  <2>3. \A t : T!InitTimer(t) = << Cleared(t), T!Store(t, {}) >>
    BY DEF T!InitTimer, Cleared
  <2>4. ASSUME NEW a \in T!Steps, NEW b \in T!Steps, NEW c \in T!Steps, NEW d \in T!Steps
        PROVE  << a, b >> \o << c, d >> = << a, b, c, d >>
    BY TwoPairs
  <2>5. 0 \in T!Timers /\ 1 \in T!Timers
    BY DEF T!Timers
  <2> QED BY <2>2, <2>3, <2>4, <2>5, InTheCalls
<1>5. /\ queue' = T!InitHwSteps /\ todo'["isr"] = << >> /\ tcsr' = tcsr
  BY <1>3 DEF T!Begin, T!Idle, T!TypeOK, T!Ctx, queue
<1>6. Initializing'
  BY <1>1, <1>2, <1>3, <1>4, <1>5 DEF Initializing, StageInv, T!Timers
<1>7. script' # << >> => Head(script') = "start0"
  BY <1>1, TailChain DEF UInv, Follows
<1> QED BY <1>1, <1>5, <1>6, <1>7 DEF StageInv, Loop

LEMMA StageStart ==
  ASSUME T!TypeOK, CardTypes, UInv, StageInv, NEW t \in T!Timers, StartTimer(t)
  PROVE  StageInv'
<1>1. /\ T!Begin(T!Start(t)) /\ UNCHANGED driver /\ script # << >> /\ queue = << >>
      /\ script' = Tail(script) /\ expired' = expired
      /\ \/ t = 0 /\ Head(script) = "start0"
         \/ t = 1 /\ Head(script) = "start1"
  BY DEF StartTimer, At, T!Idle, T!Timers, queue
<1>2. ready /\ ready' /\ started' = started
  BY <1>1 DEF UInv, DriverInv, NeedsDriver, driver
<1>3. T!Start(t) = << T!Read(t), Held(t), Flagged(t), On(t) >>
  BY DEF T!Start, Held, Flagged, On
<1>4. /\ queue' = T!Start(t) /\ todo'["isr"] = << >> /\ tcsr' = tcsr /\ held' = held
  BY <1>1 DEF T!Begin, T!Idle, T!TypeOK, T!Ctx, queue
<1>5. CASE t = 0 /\ Head(script) = "start0"
  <2>1. Blank(0) /\ Blank(1)
    BY <1>1, <1>2, <1>5 DEF StageInv, Initializing, Blank
  <2>2. Begun'
    BY <1>1, <1>2, <1>3, <1>4, <1>5, <2>1 DEF Begun, Starting, Blank
  <2>3. script' # << >> => Head(script') = "start1"
    BY <1>1, <1>5, TailChain DEF UInv, Follows
  <2> QED BY <1>2, <1>4, <2>2, <2>3 DEF StageInv, Loop
<1>6. CASE t = 1 /\ Head(script) = "start1"
  <2>1. Live(0) /\ Blank(1)
    BY <1>1, <1>2, <1>6 DEF StageInv, Begun, Starting
  <2>2. Running'
    BY <1>1, <1>2, <1>3, <1>4, <1>6, <2>1 DEF Running, Starting, Blank, Live
  <2>3. script' # << >> => Head(script') \in Loop
    BY <1>1, <1>6, TailChain DEF UInv, Follows, Loop
  <2> QED BY <1>2, <1>4, <2>2, <2>3 DEF StageInv, Loop
<1> QED BY <1>1, <1>5, <1>6

\* Between two calls both timers run.
LEMMA BothLive ==
  ASSUME UInv, StageInv, script # << >>, Head(script) \in Loop, queue = << >>
  PROVE  ready /\ Live(0) /\ Live(1)
<1>1. ready
  BY DEF UInv, DriverInv, NeedsDriver
<1> QED BY <1>1 DEF StageInv, Running, Starting, Resetting

LEMMA StagePoll ==
  ASSUME T!TypeOK, CardTypes, UInv, StageInv, NEW t \in T!Timers, Poll(t)
  PROVE  StageInv'
<1>1. script # << >> /\ queue = << >> /\ Head(script) \in Loop
  BY DEF Poll, At, T!Idle, queue, T!Timers, Loop
<1>2. ready /\ Live(0) /\ Live(1)
  BY <1>1, BothLive
<1>3. script' # << >> => Head(script') \in Loop
  BY PollScript DEF AfterPoll, Loop
<1>4. CASE "INT" \notin tcsr[t]
  <2>1. UNCHANGED <<timers, expired>>
    BY <1>4 DEF Poll
  <2> QED BY <1>1, <1>2, <1>3, <2>1 DEF timers, driver, StageInv, Running, Live, queue, Loop
<1>5. CASE "INT" \in tcsr[t]
  <2>1. /\ T!Begin(T!Reset(t)) /\ UNCHANGED driver
        /\ expired' = [expired EXCEPT ![t] = FALSE]
    BY <1>5 DEF Poll
  <2>2. T!Reset(t) = << T!Read(t), T!Write(t, {"LOAD"}, {}), T!Write(t, {}, {}) >>
    BY DEF T!Reset
  <2>3. /\ queue' = T!Reset(t) /\ todo'["isr"] = << >> /\ tcsr' = tcsr /\ held' = held
        /\ ready' /\ started' = started
    BY <1>2, <2>1 DEF T!Begin, T!Idle, T!TypeOK, T!Ctx, queue, driver
  <2>4. ~expired'[t] /\ \A u \in T!Timers : u # t => expired'[u] = expired[u]
    BY <2>1 DEF CardTypes
  <2>5. Live(t) /\ (t = 0 \/ t = 1) /\ 0 \in T!Timers /\ 1 \in T!Timers
    BY <1>2 DEF T!Timers
  <2>6. Resetting(t)'
    BY <1>5, <2>2, <2>3, <2>4, <2>5 DEF Resetting, Live
  <2>7. \A u \in {0, 1} : u # t => Live(u)'
    BY <1>2, <2>3, <2>4, <2>5 DEF Live
  <2>8. Running'
    BY <2>5, <2>6, <2>7 DEF Running
  <2> QED BY <1>3, <2>3, <2>8 DEF StageInv, Loop
<1> QED BY <1>4, <1>5

\* The steps that leave the timers alone.
LEMMA StageElsewhere ==
  ASSUME UInv, StageInv,
         \/ Open \/ SetLine \/ ControlTpg \/ Streaming2 \/ Close
         \/ \E group \in TpgGroups : SetTpg(group)
         \/ \E i \in Leds : SetLed(i)
  PROVE  StageInv'
<1>1. /\ UNCHANGED <<timers, expired>> /\ script # << >>
      /\ \/ script' = << >> \/ script' = ShutDown \/ script' = Tail(script)
  BY DEF Open, SetLine, ControlTpg, Streaming2, Close, SetTpg, SetLed, At, Continue, Then,
         Return
<1>2. /\ Initializing' <=> Initializing
      /\ Begun' <=> Begun
      /\ Running' <=> Running
  BY <1>1 DEF timers, driver, Initializing, Begun, Running, Starting, Resetting, Live,
              Blank, queue
<1>3. CASE script' \in {<< >>, ShutDown}
  <2>1. script' # << >> => Head(script') = "disable"
    BY <1>3, Branches, StretchHead
  <2> QED BY <1>1, <1>2, <2>1 DEF StageInv, timers, driver, Loop
<1>4. CASE script' = Tail(script) /\ script' # << >>
  <2>1. Follows(Head(script), Head(script'))
    BY <1>1, <1>4, TailChain DEF UInv
  <2>2. Head(script) \notin {"initialize", "start0", "start1"}
    BY DEF Open, SetLine, ControlTpg, Streaming2, Close, SetTpg, SetLed, At, TpgGroups,
           Leds,
           Led, Toggle
  <2>3. /\ Head(script') \notin {"start0", "start1"}
        /\ Head(script') \in Loop => Head(script) \in Loop
    BY <2>1, <2>2 DEF Follows, Loop
  <2> QED BY <1>1, <1>2, <2>3 DEF StageInv, timers, driver, Loop
<1> QED BY <1>1, <1>3, <1>4 DEF StageInv, timers, driver

LEMMA StageStep == T!TypeOK /\ CardTypes /\ UInv /\ StageInv /\ [Next]_vars => StageInv'
<1> SUFFICES ASSUME T!TypeOK, CardTypes, UInv, StageInv, [Next]_vars PROVE StageInv'
  OBVIOUS
<1>1. CASE UNCHANGED vars
  BY <1>1 DEF vars, timers, driver, StageInv, Initializing, Begun, Running, Starting,
              Resetting,
              Live, Blank, queue
<1> QED BY <1>1, StageInitialize, StageStart, StagePoll, StageDriver, StageExpire, StageRestart,
           StageElsewhere DEF Next, Program

\* Whenever the loop polls, both timers run, and the expiry a timer shows is one
\* of this run that was not handled yet.
THEOREM ExpiriesAreCounted == Spec => []ExpiriesCounted
<1>1. UInv /\ StageInv => ExpiriesCounted
  <2> SUFFICES ASSUME UInv, StageInv, NEW t \in T!Timers, At("poll1") \/ At("poll0")
               PROVE  expired[t] <=> "INT" \in tcsr[t]
    BY DEF ExpiriesCounted
  <2>1. Live(0) /\ Live(1)
    BY BothLive DEF At, T!Idle, queue, Loop
  <2> QED BY <2>1 DEF Live, T!Timers
<1>2. Spec => []CardTypes
  BY TypesInit, TypesStep, DriverTypes, PTL DEF Spec
<1> QED BY <1>1, <1>2, DriverTypes, UseInvariant, StageInit, StageStep, PTL DEF Spec
=============================================================================
