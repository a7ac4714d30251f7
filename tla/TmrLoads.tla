------------------------------ MODULE TmrLoads ------------------------------
(***************************************************************************)
(* The load registers of the timer/counter, for an application that uses   *)
(* the PWM functions: TmrCtr with the writes of TLR put between the steps  *)
(* of the calls that make them, and the arithmetic of XTmrCtr_PwmConfigure *)
(* in words of a given size.                                               *)
(*                                                                         *)
(* Such an application takes no interrupts: it never sets the option, and  *)
(* initialisation clears it.  It may use every other call.  Where there    *)
(* are two operators, the first is the code with a mistake.                *)
(***************************************************************************)
EXTENDS TmrCtr, Integers

CONSTANTS Word,       \* the numbers are 0 .. Word - 1: 2^32 in C
          Clock,      \* SysClkPeriod, in nanoseconds
          Requests    \* the waves asked for

ASSUME NoInterruptsAssumption ==
  /\ "SetHandler" \notin Calls /\ "ClearStats" \notin Calls
  /\ \A opts \in OptionSets : "INT_MODE" \notin opts
ASSUME ClockAssumption == Word \in Nat /\ Clock \in 1 .. Word - 1
ASSUME RequestsAssumption == Requests \subseteq [period : 0 .. Word - 1, high : 0 .. Word - 1]

NoWave == [period |-> 0, high |-> 0]

VARIABLES
  tlr,       \* the two load registers
  loads,     \* the writes of them that the call in progress has still to make
  wave,      \* the last request that XTmrCtr_PwmConfigure accepted in this run,
             \* while no other call has written a load register
  rewritten  \* the timers whose TCSR was stored whole since PWM was enabled

loadVars == <<tlr, loads, wave, rewritten>>

-----------------------------------------------------------------------------
\* XTC_ROUND_DIV; the dividend is a word too.
RoundDivDown(a, b) == a \div b
RoundDiv(a, b) == ((a + b \div 2) % Word) \div b

\* The number of clocks to load for a time.
Clocks(time) == (RoundDiv(time, Clock) - 2) % Word

ValidPeriodOnly(r) == r.period >= 2 * Clock
Valid(r) == r.period >= r.high /\ r.period >= 2 * Clock /\ r.high >= 2 * Clock

\* A write of v to the load register of t when the call has left n of its steps.
Load(n, t, v) == [left |-> n, t |-> t, v |-> v]

-----------------------------------------------------------------------------
\* XTmrCtr_InitHw clears the load register of each timer that is not started
\* before it resets the timer.
InitHwLoads == (IF 0 \in Stopped THEN << Load(Len(InitHwSteps), 0, 0) >> ELSE << >>)
            \o (IF 1 \in Stopped THEN << Load(2, 1, 0) >> ELSE << >>)

\* These three calls store TCSR without regard to what it was.
Initialize ==
  /\ CallInitialize \/ CallInitHw
  /\ IF todo'["main"] = << >> THEN UNCHANGED <<loads, wave, rewritten>>
     ELSE loads' = InitHwLoads /\ wave' = NoWave /\ rewritten' = rewritten \cup Stopped
  /\ UNCHANGED tlr

TestTimer(t) ==
  /\ CallSelfTest(t)
  /\ loads' = << Load(4, t, 0) >> /\ wave' = NoWave /\ rewritten' = rewritten \cup {t}
  /\ UNCHANGED tlr

SetOptionsOf(t) ==
  /\ CallSetOptions(t)
  /\ rewritten' = rewritten \cup {t}
  /\ UNCHANGED <<tlr, loads, wave>>

Configure(r) ==
  /\ CallPwmConfigure(Valid(r))
  /\ IF Valid(r)
     THEN /\ loads' = << Load(4, 0, Clocks(r.period)), Load(4, 1, Clocks(r.high)) >>
          /\ wave' = r
     ELSE UNCHANGED <<loads, wave>>
  /\ UNCHANGED <<tlr, rewritten>>

SetResetValue(t, v) ==
  /\ ready /\ Begin(<< >>)
  /\ tlr' = [tlr EXCEPT ![t] = v]
  /\ wave' = NoWave
  /\ UNCHANGED <<driver, loads, rewritten>>

LoadIsNext == loads # << >> /\ Head(loads).left = Len(todo["main"])

WriteLoad ==
  /\ LoadIsNext
  /\ tlr' = [tlr EXCEPT ![Head(loads).t] = Head(loads).v]
  /\ loads' = Tail(loads)
  /\ UNCHANGED <<vars, wave, rewritten>>

\* What else happens without a write of a load register.
Others ==
  /\ \/ CallPwmSwitch
     \/ \E t \in Timers : CallInPlace(t) \/ Expire(t)
  /\ UNCHANGED loadVars

\* The next step of a call, unless the write of a load register comes first.
StepOfCall ==
  /\ ~LoadIsNext /\ Exec("main")
  /\ rewritten' = IF Head(todo["main"]).m = "pwmOn" THEN {} ELSE rewritten
  /\ UNCHANGED <<tlr, loads, wave>>

RestartLoads ==
  /\ Restart
  /\ loads' = << >> /\ wave' = NoWave /\ rewritten' = {}
  /\ UNCHANGED tlr

LoadsInit ==
  /\ Init
  /\ tlr = [t \in Timers |-> 0] /\ loads = << >> /\ wave = NoWave /\ rewritten = {}

LoadsNext ==
  \/ Initialize
  \/ \E r \in Requests : Configure(r)
  \/ \E t \in Timers, v \in {0, Word - 1} : SetResetValue(t, v)
  \/ \E t \in Timers : TestTimer(t) \/ SetOptionsOf(t)
  \/ WriteLoad
  \/ Others
  \/ StepOfCall
  \/ RestartLoads

LoadsSpec == LoadsInit /\ [][LoadsNext]_<<vars, loadVars>>

-----------------------------------------------------------------------------
\* IsPwmEnabled tells the truth about a timer between two calls, unless
\* XTmrCtr_InitHw, XTmrCtr_SetOptions or XTmrCtr_SelfTest has overwritten its
\* register since XTmrCtr_PwmEnable: they clear the mode and leave the flag.  No
\* other call, refused or not, does so, nor a kill at any access.
PwmFlagTruthful ==
  ready /\ Idle("main") =>
    \A t \in Timers : "PWM" \in tcsr[t] <=> pwmEnabled /\ t \notin rewritten

\* While PWM is enabled the load registers hold the wave asked for last, to half
\* a clock: a request that is refused half way, a kill between the two loads,
\* calls on the single timers, disabling and enabling again change nothing of
\* it.  (Whether the timer makes a wave of it is PwmFlagTruthful's matter.)  A
\* period so near to the largest number that the rounding overflows is
\* excepted: the code accepts it, and loads another one.
Near(time, clocks) == Clock * (clocks + 2) \in time - Clock \div 2 .. time + Clock \div 2

WaveAsAsked ==
  /\ ready /\ Idle("main") /\ pwmEnabled /\ wave # NoWave
  /\ wave.period + Clock \div 2 < Word
  => Near(wave.period, tlr[0]) /\ Near(wave.high, tlr[1])

-----------------------------------------------------------------------------
(* What comments and a check of the driver say and the code does not do.   *)

\* XTmrCtr_PwmEnable returns at once if IsPwmEnabled is set: "PWM already
\* running" (xtmrctr.c:611).
RunningIfFlagged ==
  ready /\ Idle("main") /\ pwmEnabled => \A t \in Timers : "PWM" \in tcsr[t]

\* XTmrCtr_PwmConfigure returns "the duty cycle that will possibly be achieved"
\* (xtmrctr.c:519): there is one, the number it divides by is not 0.
DutyDefined == wave # NoWave => Clocks(wave.period) # 0

\* XTC_MAX_LOAD_VALUE: a period that is too long is refused (xtmrctr.c:569).
LongPeriodRefused == wave # NoWave => Near(wave.period, Clocks(wave.period))
=============================================================================
