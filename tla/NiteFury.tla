------------------------------ MODULE NiteFury ------------------------------
(***************************************************************************)
(* main() of src/main.c: it brings up the test pattern generator (TPG),    *)
(* the LEDs and the timers of the card, blinks the LEDs from its polling   *)
(* loop until timer 0 expires, streams video, and stops the TPG again.     *)
(*                                                                         *)
(* The timers and their driver are those of TmrCtr, of which main() uses   *)
(* XTmrCtr_Start and XTmrCtr_Reset, and no interrupt.  Every access to the *)
(* card is a step of its own; the program may be killed between any two,   *)
(* and the card keeps the state it was left in.  streaming2() is one step  *)
(* here, with its two results (its own module is FrameStream).             *)
(***************************************************************************)
EXTENDS Naturals, Sequences

VARIABLES
  tcsr, held, ready, started, pwmEnabled, handler, interrupts, todo, reg,
             \* the timers and their driver, as in TmrCtr
  script,    \* what main() still has to do, unless it branches
  status,    \* what main() returned
  leds,      \* the data registers of the LED GPIOs, gpioInst[0 .. 3]
  line,      \* the reset line of the TPG: FALSE holds it in reset
  tpg,       \* the registers of the TPG that hold what main() writes there
  apCtrl,    \* the bits of the TPG's control register
  expired,   \* expired[t]: t expired in this run and was not reset since
  phase      \* whether the two LEDs of timer 0, and of timer 1, began equal

driver == <<ready, started, pwmEnabled, handler, interrupts>>
timers == <<tcsr, held, driver, todo, reg>>
card   == <<leds, line, tpg, apCtrl>>
vars   == <<timers, script, status, card, expired, phase>>

\* The driver of tmrInst, with the functions and the options main() uses.
T == INSTANCE TmrCtr
       WITH Calls <- {"Start", "Reset"}, OptionSets <- {}, CallbackOps <- {},
            Masked <- FALSE, StatsModulus <- 1

Leds == 0 .. 3
Pair == << {0, 3}, {1, 2} >>      \* Pair[t + 1]: the LEDs that timer t blinks
TpgGroups == {"format", "motionEn", "bckgndId", "overlay"}

-----------------------------------------------------------------------------
(* The program.  Of the TPG's registers "format" stands for height, width, *)
(* color format and motion speed, "overlay" for the box and the overlay id.*)
(* A definition that precedes another and is used nowhere is the same code *)
(* with a mistake.                                                         *)

TpgReset == << "low", "high" >>

TpgSetup == << "format", "motionEn", "bckgndId", "overlay", "auto", "start" >>
BringUpResetLast == TpgSetup \o TpgReset
BringUp == TpgReset \o TpgSetup

StartTimersFirst == << "start0", "start1", "initialize" >>
StartTimers == << "initialize", "start0", "start1" >>

TogglesOne(t) == IF t = 1 THEN << "toggle1" >> ELSE << "toggle0" >>
TogglesWrongGpio(t) == IF t = 1 THEN << "toggle1", "toggle2" >>
                                ELSE << "toggle0", "toggle4" >>
Toggles(t) == IF t = 1 THEN << "toggle1", "toggle2" >> ELSE << "toggle0", "toggle3" >>

Polling == << "poll1", "poll0" >>

ShutDownOnlyClose == << "close" >>
ShutDown == << "disable" >> \o TpgReset \o << "close" >>

Main == << "open", "release" >> \o BringUp
        \o << "led0", "led1", "led2", "led3" >> \o StartTimers \o Polling

-----------------------------------------------------------------------------
\* main() is at this step, and no call of the timer driver is in progress.
At(step) == script # << >> /\ Head(script) = step /\ T!Idle("main")
Then(steps) == script' = steps /\ UNCHANGED <<status, phase>>
Continue == Then(Tail(script))
Return(result) == script' = << >> /\ status' = result /\ UNCHANGED phase

Open ==
  /\ At("open")
  /\ Continue \/ Return("FAILURE")
  /\ UNCHANGED <<timers, card, expired>>

\* The TPG in reset stops; whether its data registers are cleared too, the
\* program does not say.
SetLine ==
  /\ \/ At("release") /\ line' = TRUE /\ UNCHANGED <<tpg, apCtrl>>
     \/ At("low") /\ line' = FALSE /\ tpg' \in {{}, tpg} /\ apCtrl' = {}
     \/ At("high") /\ line' = TRUE /\ UNCHANGED <<tpg, apCtrl>>
  /\ Continue
  /\ UNCHANGED <<timers, leds, expired>>

\* XV_tpg_Set_motionEn writes only while the pattern is the color bars.
SetTpg(group) ==
  /\ At(group)
  /\ tpg' = IF line /\ (group = "motionEn" => "bckgndId" \in tpg)
            THEN tpg \cup {group} ELSE tpg
  /\ Continue
  /\ UNCHANGED <<timers, leds, line, apCtrl, expired>>

ControlTpg ==
  /\ \/ At("auto") /\ apCtrl' = {"restart"}
     \/ At("start") /\ apCtrl' = (apCtrl \cap {"restart"}) \cup {"start"}
     \/ At("disable") /\ apCtrl' = {}
  /\ Continue
  /\ UNCHANGED <<timers, leds, line, tpg, expired>>

Led(i) == << "led0", "led1", "led2", "led3" >>[i + 1]
Toggle(i) == << "toggle0", "toggle1", "toggle2", "toggle3" >>[i + 1]

SetLed(i) ==
  /\ \/ At(Led(i)) /\ \E v \in BOOLEAN : leds' = [leds EXCEPT ![i] = v]   \* rand() % 2
     \/ At(Toggle(i)) /\ leds' = [leds EXCEPT ![i] = ~@]
  /\ Continue
  /\ UNCHANGED <<timers, line, tpg, apCtrl, expired>>

\* XTmrCtr_Initialize finds the device and, in a program just loaded, no timer
\* that is marked as started.
InitializeTimers ==
  /\ At("initialize")
  /\ T!CallInitialize /\ ready'
  /\ Continue
  /\ UNCHANGED <<card, expired>>

StartTimer(t) ==
  /\ At(<< "start0", "start1" >>[t + 1])
  /\ T!Begin(T!Start(t))
  /\ UNCHANGED driver
  /\ script' = Tail(script)
  /\ phase' = [u \in T!Timers |-> \A i, j \in Pair[u + 1] : leds[i] = leds[j]]
  /\ UNCHANGED <<status, card, expired>>

\* XTmrCtr_IsExpired reads TCSR; the loop variable x counts timer 0's expiries.
Poll(t) ==
  /\ At(<< "poll0", "poll1" >>[t + 1])
  /\ IF "INT" \in tcsr[t]
     THEN /\ T!Begin(T!Reset(t))
          /\ UNCHANGED driver
          /\ expired' = [expired EXCEPT ![t] = FALSE]
          /\ Then(Toggles(t) \o IF t = 0 THEN << "stream" >> ELSE Tail(script))
     ELSE /\ Then(IF t = 0 THEN Polling ELSE Tail(script))
          /\ UNCHANGED <<timers, expired>>
  /\ UNCHANGED card

Streaming2 ==
  /\ At("stream")
  /\ Then(ShutDown) \/ Return("FAILURE")
  /\ UNCHANGED <<timers, card, expired>>

Close ==
  /\ At("close")
  /\ Return("SUCCESS")
  /\ UNCHANGED <<timers, card, expired>>

-----------------------------------------------------------------------------
\* The steps of a driver call in progress.
Driver == T!Exec("main") /\ UNCHANGED <<script, status, card, expired, phase>>

\* The device counts on, whatever the program does.
Expire(t) ==
  /\ T!Expire(t)
  /\ expired' = [expired EXCEPT ![t] = started[t]]
  /\ UNCHANGED <<script, status, card, phase>>

\* The program has ended or is killed, and is run again.
Restart ==
  /\ T!Loaded(ready', started', pwmEnabled', handler', interrupts', todo', reg')
  /\ script' = Main
  /\ status' = "none"
  /\ expired' = [t \in T!Timers |-> FALSE]
  /\ phase' = [t \in T!Timers |-> TRUE]
  /\ UNCHANGED <<tcsr, held, card>>

Init ==
  /\ T!Init
  /\ script = Main
  /\ status = "none"
  /\ leds = [i \in Leds |-> FALSE] /\ line = FALSE /\ tpg = {} /\ apCtrl = {}
  /\ expired = [t \in T!Timers |-> FALSE]
  /\ phase = [t \in T!Timers |-> TRUE]

Program ==
  \/ Open \/ SetLine \/ ControlTpg \/ InitializeTimers \/ Streaming2 \/ Close
  \/ \E group \in TpgGroups : SetTpg(group)
  \/ \E i \in Leds : SetLed(i)
  \/ \E t \in T!Timers : StartTimer(t) \/ Poll(t)
  \/ Driver

Next == Program \/ Restart \/ \E t \in T!Timers : Expire(t)

Spec == Init /\ [][Next]_vars

\* The program runs on, and a timer that counts rolls over in the end.
FairSpec == Spec /\ WF_vars(Program) /\ \A t \in T!Timers : WF_vars(Expire(t))

-----------------------------------------------------------------------------
(* Properties.                                                             *)

StepNames ==
  {"open", "release", "low", "high", "format", "motionEn", "bckgndId", "overlay",
   "auto", "start", "led0", "led1", "led2", "led3", "initialize", "start0",
   "start1", "poll1", "poll0", "toggle0", "toggle1", "toggle2", "toggle3",
   "stream", "disable", "close"}

TypeOK ==
  /\ T!TypeOK
  /\ script \in Seq(StepNames)
  /\ status \in {"none", "SUCCESS", "FAILURE"}
  /\ leds \in [Leds -> BOOLEAN]
  /\ line \in BOOLEAN
  /\ tpg \subseteq TpgGroups
  /\ apCtrl \subseteq {"restart", "start"}
  /\ expired \in [T!Timers -> BOOLEAN]
  /\ phase \in [T!Timers -> BOOLEAN]

\* main() uses the timer driver as TmrCtr describes it: no call before the
\* initialisation (the assertions that would notice are compiled out), one call
\* at a time.  So what holds of TmrCtr holds of the timers of this program.
TimersRefined == T!Spec

\* Between two polls the loop sees exactly the expiries of this run that it did
\* not handle yet: one left in the card by a run that was killed does not count,
\* none is handled twice and none is lost.
ExpiriesCounted ==
  \A t \in T!Timers :
    At("poll1") \/ At("poll0") => (expired[t] <=> "INT" \in tcsr[t])

\* The two LEDs of a timer blink together: whenever the loop polls they are
\* equal, or different, as they were when the loop began.
LedsTogether ==
  At("poll1") \/ At("poll0") \/ At("stream") =>
    \A t \in T!Timers : phase[t] <=> \A i, j \in Pair[t + 1] : leds[i] = leds[j]

\* When streaming begins the TPG is out of reset, runs by itself and has its
\* format, its pattern and its overlay, whatever state an earlier run left it in.
StreamsConfigured ==
  At("stream") => /\ line
                  /\ apCtrl = {"restart", "start"}
                  /\ {"format", "bckgndId", "overlay"} \subseteq tpg

\* A program that succeeds leaves the TPG stopped, with its reset released.
StoppedOnSuccess == status = "SUCCESS" => apCtrl = {} /\ line

\* The polling loop ends: timer 0 was initialised and started so that it counts
\* and expires, whatever state an earlier run left it in.
PollingEnds == At("poll1") ~> (At("stream") \/ At("open"))

-----------------------------------------------------------------------------
\* main.c:123 enables the motion of the color bars, with a function that "sets
\* motion enable for color bar pattern" (xv_tpg.c:199).
MotionEnabled == At("stream") => "motionEn" \in tpg
=============================================================================
