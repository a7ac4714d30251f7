--------------------------- MODULE TmrLoadsProofs ---------------------------
(***************************************************************************)
(* The timer/counter driver for an application that uses no interrupts:    *)
(* the flag IsPwmEnabled tells the truth of every timer whose register no  *)
(* initialisation, option word or self test has overwritten, disabling PWM *)
(* keeps the configuration, and the load registers hold the wave that was  *)
(* asked for, for every word size, clock and set of requests.              *)
(*                                                                         *)
(* PwmInv says of the queue of the call in progress where it leads: no     *)
(* step leads away from there, and each timer is there or has a step       *)
(* before it that takes it there.                                          *)
(***************************************************************************)
EXTENDS TmrLoads, TmrCtrProofs

Configuration == {"DOWN", "ARHT", "CAPT", "CASC"}

All(x) == [t \in Timers |-> x]

\* Where the call in progress leads each timer: PWM on, off, or off by
\* XTmrCtr_PwmDisable; and where the flag says the timer is.
Goals == [Timers -> {"on", "off", "disabling"}]
Flag == [t \in Timers |-> IF pwmEnabled /\ t \notin rewritten THEN "on" ELSE "off"]
LastMove(q) == IF q = << >> THEN "none" ELSE q[Len(q)].m
Goal(q) == IF LastMove(q) = "pwmOn" THEN All("on")
           ELSE IF LastMove(q) = "pwmOff" THEN All("disabling") ELSE Flag

\* A step that does not lead away from the goal, and one that takes timer t there.
KeepsTo(s, g) ==
  /\ s.m \in {"read", "write", "store", "stopped", "pwmOn", "pwmOff"}
  /\ "ENIT" \notin s.set
  /\ g[s.t] = "on" => s.m # "store" /\ "PWM" \notin s.clr
  /\ g[s.t] # "on" => "PWM" \notin s.set
  /\ g[s.t] = "disabling" => s.m # "store" /\ (s.set \cup s.clr) \cap Configuration = {}
  /\ s.m = "pwmOn" => g = All("on")
  /\ s.m = "pwmOff" => g = All("disabling")
Settles(s, t, g) ==
  /\ s.t = t
  /\ \/ g[t] = "on" /\ s.m = "write" /\ "PWM" \in s.set
     \/ g[t] # "on" /\ s.m = "write" /\ "PWM" \in s.clr
     \/ g[t] # "on" /\ s.m = "store"

\* b, if it writes the copy back, comes right after a read of the same timer, or
\* after a write that changes none of its modes.
CopyOf(a, b) ==
  b.m = "write" =>
    /\ a.t = b.t
    /\ a.m = "read" \/ (a.m = "write" /\ a.set \cup a.clr \subseteq {"ENT", "INT", "LOAD"})

Steady(q, g) == /\ \A i \in 1 .. Len(q) : KeepsTo(q[i], g)
                /\ \A i \in 1 .. Len(q) - 1 : CopyOf(q[i], q[i + 1])
Settled(q, t, g) == \E i \in 1 .. Len(q) : Settles(q[i], t, g)

At(t, g) == "PWM" \in tcsr[t] <=> g[t] = "on"
Going(q, g) ==
  /\ Steady(q, g)
  /\ q # << >> /\ Head(q).m = "write" => Modes(reg["main"]) = Modes(tcsr[Head(q).t])
  /\ \A t \in Timers : Settled(q, t, g) \/ At(t, g)

\* XTmrCtr_Start takes a timer out of its mode and back, by the copy it read.
StartAgain(t) == << Step("started", t, {}, {}), Write(t, {"ENT"}, {}) >>
StartingAfresh(q, t) ==
  \/ q = Start(t) /\ At(t, Flag)
  \/ /\ q \in {Tail(Start(t)), StartAgain(t), << Write(t, {"ENT"}, {}) >>}
     /\ "PWM" \in reg["main"] <=> Flag[t] = "on"
InStart(q) == \E t \in Timers : /\ StartingAfresh(q, t)
                                /\ \A u \in Timers \ {t} : At(u, Flag)

\* What StepOfCall does to the timers that were rewritten.
Remembers == rewritten' = IF Head(todo["main"]).m = "pwmOn" THEN {} ELSE rewritten

NoInterrupt == "ENIT" \notin reg["main"] /\ \A t \in Timers : "ENIT" \notin tcsr[t]

PwmInv ==
  /\ Idle("isr") /\ NoInterrupt
  /\ ~ready => ~pwmEnabled
  /\ ready => InStart(todo["main"]) \/ Going(todo["main"], Goal(todo["main"]))

-----------------------------------------------------------------------------
(* Queues.                                                                 *)

LEMMA SteadyTail ==
  ASSUME NEW q \in Seq(Steps), q # << >>, NEW g, Steady(q, g)
  PROVE  /\ KeepsTo(Head(q), g) /\ Steady(Tail(q), g)
         /\ Tail(q) # << >> => CopyOf(Head(q), Head(Tail(q)))
<1> DEFINE r == Tail(q)
<1>1. /\ r \in Seq(Steps) /\ Len(q) \in Nat \ {0} /\ Len(r) = Len(q) - 1
      /\ Head(q) = q[1]
      /\ \A i \in 1 .. Len(q) - 1 : r[i] = q[i + 1]
      /\ (r = << >> <=> Len(q) = 1)
  BY TailFacts
<1>2. /\ \A i \in 1 .. Len(q) : KeepsTo(q[i], g)
      /\ \A i \in 1 .. Len(q) - 1 : CopyOf(q[i], q[i + 1])
  BY DEF Steady
<1>3. r # << >> => Head(r) = r[1]
  BY <1>1
<1> HIDE DEF r
<1>4. KeepsTo(Head(q), g)
  BY <1>1, <1>2
<1>5. ASSUME NEW i \in 1 .. Len(r)
      PROVE  KeepsTo(r[i], g)
  BY <1>1, <1>2
<1>6. ASSUME NEW i \in 1 .. Len(r) - 1
      PROVE  CopyOf(r[i], r[i + 1])
  <2>1. /\ i \in 1 .. Len(q) - 1 /\ i + 1 \in 1 .. Len(q) - 1
        /\ r[i] = q[i + 1] /\ r[i + 1] = q[(i + 1) + 1]
    BY <1>1
  <2> QED BY <1>2, <2>1
<1>7. ASSUME r # << >>
      PROVE  CopyOf(Head(q), Head(r))
  <2>1. 1 \in 1 .. Len(q) - 1 /\ r[1] = q[1 + 1]
    BY <1>1, <1>7
  <2> QED BY <1>1, <1>2, <1>3, <1>7, <2>1
<1>8. Steady(r, g)
  BY <1>5, <1>6 DEF Steady
<1> QED BY <1>4, <1>7, <1>8 DEF r

LEMMA SettledTail ==
  ASSUME NEW q \in Seq(Steps), q # << >>, NEW t, NEW g, Settled(q, t, g)
  PROVE  Settles(Head(q), t, g) \/ Settled(Tail(q), t, g)
<1> DEFINE r == Tail(q)
<1>1. /\ Len(q) \in Nat \ {0} /\ Len(r) = Len(q) - 1 /\ Head(q) = q[1]
      /\ \A i \in 1 .. Len(q) - 1 : r[i] = q[i + 1]
  BY TailFacts
<1> HIDE DEF r
<1>2. PICK i \in 1 .. Len(q) : Settles(q[i], t, g)
  BY DEF Settled
<1>3. CASE i = 1
  BY <1>1, <1>2, <1>3
<1>4. CASE i # 1
  <2>1. PICK j \in 1 .. Len(q) - 1 : i = j + 1
    <3>1. i - 1 \in 1 .. Len(q) - 1 /\ i = (i - 1) + 1
      BY <1>1, <1>4
    <3> QED BY <3>1
  <2>2. j \in 1 .. Len(r) /\ Settles(r[j], t, g)
    BY <1>1, <1>2, <2>1
  <2> QED BY <2>2 DEF Settled, r
<1> QED BY <1>3, <1>4

LEMMA LastTail ==
  ASSUME NEW q \in Seq(Steps), q # << >>
  PROVE  IF Tail(q) = << >> THEN LastMove(q) = Head(q).m ELSE LastMove(Tail(q)) = LastMove(q)
<1> DEFINE r == Tail(q)
<1>1. /\ Len(q) \in Nat \ {0} /\ Len(r) = Len(q) - 1 /\ Head(q) = q[1]
      /\ \A i \in 1 .. Len(q) - 1 : r[i] = q[i + 1]
      /\ (r = << >> <=> Len(q) = 1)
  BY TailFacts
<1> HIDE DEF r
<1>2. r # << >> => r[Len(r)] = q[Len(q)]
  <2>1. ASSUME r # << >> PROVE Len(q) - 1 \in 1 .. Len(q) - 1 /\ (Len(q) - 1) + 1 = Len(q)
    BY <1>1, <2>1
  <2> QED BY <1>1, <2>1
<1>3. r = << >> => q[Len(q)] = Head(q)
  BY <1>1
<1> QED BY <1>2, <1>3 DEF LastMove, r

\* A part of a call: it does not depend on the copy that is left by another.
Segment(q, g) == /\ q \in Seq(Steps) /\ Steady(q, g)
                 /\ q # << >> => Head(q).m # "write"

LEMMA SegmentJoin ==
  ASSUME NEW g, NEW p, NEW q, Segment(p, g), Segment(q, g)
  PROVE  /\ Segment(p \o q, g)
         /\ \A t : Settled(p, t, g) \/ Settled(q, t, g) => Settled(p \o q, t, g)
         /\ q # << >> => LastMove(p \o q) = LastMove(q)
<1> DEFINE s == p \o q
           m == Len(p)
<1>1. p \in Seq(Steps) /\ q \in Seq(Steps)
  BY DEF Segment
<1>2. /\ s \in Seq(Steps) /\ m \in Nat /\ Len(q) \in Nat /\ Len(s) = m + Len(q)
      /\ \A i \in 1 .. m : s[i] = p[i]
      /\ \A i \in 1 .. Len(q) : s[m + i] = q[i]
      /\ (q # << >> => Head(q) = q[1] /\ Len(q) \in 1 .. Len(q))
      /\ (Len(q) > 0 => q # << >>)
      /\ (p # << >> => Head(s) = Head(p))
      /\ (p = << >> => s = q)
  BY <1>1, JoinFacts
<1>3. s # << >> => Head(s).m # "write"
  BY <1>2 DEF Segment
<1>4. q # << >> => s # << >>
  BY <1>1
<1> HIDE DEF s
<1>5. ASSUME NEW i \in 1 .. Len(s)
      PROVE  i \in 1 .. m \/ \E j \in 1 .. Len(q) : i = m + j
  <2>1. CASE i > m
    <3>1. i - m \in 1 .. Len(q) /\ i = m + (i - m)
      BY <1>2, <2>1
    <3> QED BY <3>1
  <2>2. CASE i <= m
    BY <1>2, <2>2
  <2> QED BY <1>2, <2>1, <2>2
<1>6. ASSUME NEW i \in 1 .. Len(s)
      PROVE  KeepsTo(s[i], g)
  BY <1>2, <1>5 DEF Segment, Steady
<1>7. ASSUME NEW i \in 1 .. Len(s) - 1
      PROVE  CopyOf(s[i], s[i + 1])
  <2>1. CASE i < m
    <3>1. i \in 1 .. m - 1 /\ i \in 1 .. m /\ i + 1 \in 1 .. m
      BY <1>2, <2>1
    <3>2. s[i] = p[i] /\ s[i + 1] = p[i + 1]
      BY <1>2, <3>1
    <3> QED BY <3>1, <3>2 DEF Segment, Steady
  <2>2. CASE i = m
    <3>1. Len(q) > 0 /\ 1 \in 1 .. Len(q)
      BY <1>2, <2>2
    <3>2. s[i + 1] = q[1] /\ q[1].m # "write"
      BY <1>2, <2>2, <3>1 DEF Segment
    <3> QED BY <3>2 DEF CopyOf
  <2>3. CASE i > m
    <3>1. PICK j \in 1 .. Len(q) - 1 : i = m + j
      <4>1. i - m \in 1 .. Len(q) - 1 /\ i = m + (i - m)
        BY <1>2, <2>3
      <4> QED BY <4>1
    <3>2. j \in 1 .. Len(q) /\ j + 1 \in 1 .. Len(q) /\ i + 1 = m + (j + 1)
      BY <1>2, <3>1
    <3>3. s[i] = q[j] /\ s[i + 1] = q[j + 1]
      BY <1>2, <3>1, <3>2
    <3> QED BY <3>1, <3>3 DEF Segment, Steady
  <2> QED BY <1>2, <2>1, <2>2, <2>3
<1>8. Segment(s, g)
  BY <1>2, <1>3, <1>6, <1>7 DEF Segment, Steady
<1>9. ASSUME NEW t, Settled(p, t, g) \/ Settled(q, t, g)
      PROVE  Settled(s, t, g)
  <2>1. CASE Settled(p, t, g)
    <3>1. PICK i \in 1 .. m : Settles(p[i], t, g)
      BY <2>1 DEF Settled
    <3>2. i \in 1 .. Len(s) /\ Settles(s[i], t, g)
      BY <1>2, <3>1
    <3> QED BY <3>2 DEF Settled
  <2>2. CASE Settled(q, t, g)
    <3>1. PICK i \in 1 .. Len(q) : Settles(q[i], t, g)
      BY <2>2 DEF Settled
    <3>2. m + i \in 1 .. Len(s) /\ Settles(s[m + i], t, g)
      BY <1>2, <3>1
    <3> QED BY <3>2 DEF Settled
  <2> QED BY <1>9, <2>1, <2>2
<1>10. ASSUME q # << >>
       PROVE  LastMove(s) = LastMove(q)
  BY <1>2, <1>4, <1>10 DEF LastMove
<1> QED BY <1>8, <1>9, <1>10 DEF s

LEMMA SegmentShort ==
  ASSUME NEW g
  PROVE  /\ Segment(<< >>, g)
         /\ \A a \in Steps : KeepsTo(a, g) /\ a.m # "write" => Segment(<< a >>, g)
         /\ \A a, b \in Steps :
              KeepsTo(a, g) /\ KeepsTo(b, g) /\ a.m # "write" /\ CopyOf(a, b) =>
                Segment(<< a, b >>, g)
         /\ \A a, b, c \in Steps :
              /\ KeepsTo(a, g) /\ KeepsTo(b, g) /\ KeepsTo(c, g)
              /\ a.m # "write" /\ CopyOf(a, b) /\ CopyOf(b, c)
              => Segment(<< a, b, c >>, g)
<1>1. Segment(<< >>, g)
  BY DEF Segment, Steady
<1>2. ASSUME NEW a \in Steps, KeepsTo(a, g), a.m # "write"
      PROVE  Segment(<< a >>, g)
  <2> DEFINE q == << a >>
  <2>1. q \in Seq(Steps) /\ Len(q) = 1 /\ q[1] = a /\ Head(q) = a
    OBVIOUS
  <2> HIDE DEF q
  <2>2. (\A i \in 1 .. Len(q) : i = 1) /\ (\A i \in 1 .. Len(q) - 1 : FALSE)
    BY <2>1
  <2>3. Segment(q, g)
    BY <1>2, <2>1, <2>2 DEF Segment, Steady
  <2> QED BY <2>3 DEF q
<1>3. ASSUME NEW a \in Steps, NEW b \in Steps,
             KeepsTo(a, g), KeepsTo(b, g), a.m # "write", CopyOf(a, b)
      PROVE  Segment(<< a, b >>, g)
  <2> DEFINE q == << a, b >>
  <2>1. q \in Seq(Steps) /\ Len(q) = 2 /\ q[1] = a /\ q[2] = b /\ Head(q) = a
    OBVIOUS
  <2> HIDE DEF q
  <2>2. (\A i \in 1 .. Len(q) : i \in {1, 2}) /\ (\A i \in 1 .. Len(q) - 1 : i = 1)
    BY <2>1
  <2>3. Segment(q, g)
    BY <1>3, <2>1, <2>2 DEF Segment, Steady
  <2> QED BY <2>3 DEF q
<1>4. ASSUME NEW a \in Steps, NEW b \in Steps, NEW c \in Steps,
             KeepsTo(a, g), KeepsTo(b, g), KeepsTo(c, g),
             a.m # "write", CopyOf(a, b), CopyOf(b, c)
      PROVE  Segment(<< a, b, c >>, g)
  <2> DEFINE q == << a, b, c >>
  <2>1. q \in Seq(Steps) /\ Len(q) = 3 /\ q[1] = a /\ q[2] = b /\ q[3] = c /\ Head(q) = a
    OBVIOUS
  <2> HIDE DEF q
  <2>2. (\A i \in 1 .. Len(q) : i \in {1, 2, 3}) /\ (\A i \in 1 .. Len(q) - 1 : i \in {1, 2})
    BY <2>1
  <2>3. Segment(q, g)
    BY <1>4, <2>1, <2>2 DEF Segment, Steady
  <2> QED BY <2>3 DEF q
<1> QED BY <1>1, <1>2, <1>3, <1>4

-----------------------------------------------------------------------------
(* What the calls queue.                                                   *)

LEMMA ModifySegment ==
  ASSUME NEW t \in Timers, NEW set \in SUBSET Bits, NEW clr \in SUBSET Bits, NEW g,
         KeepsTo(Write(t, set, clr), g)
  PROVE  /\ Segment(Modify(t, set, clr), g)
         /\ Settles(Write(t, set, clr), t, g) => Settled(Modify(t, set, clr), t, g)
         /\ Modify(t, set, clr) # << >>
<1>1. /\ Read(t) \in Steps /\ Write(t, set, clr) \in Steps
      /\ KeepsTo(Read(t), g) /\ Read(t).m # "write" /\ CopyOf(Read(t), Write(t, set, clr))
  BY StepTypes DEF KeepsTo, CopyOf, Read, Write, Step
<1>2. Segment(Modify(t, set, clr), g)
  BY <1>1, SegmentShort DEF Modify
<1>3. Len(Modify(t, set, clr)) = 2 /\ Modify(t, set, clr)[2] = Write(t, set, clr)
  BY DEF Modify
<1>4. 2 \in 1 .. Len(Modify(t, set, clr)) /\ Modify(t, set, clr) # << >>
  BY <1>3 DEF Modify
<1> QED BY <1>2, <1>3, <1>4 DEF Settled

LEMMA StopSegment ==
  ASSUME NEW t \in Timers, NEW g
  PROVE  Segment(Stop(t), g) /\ Segment(Reset(t), g)
<1>1. {"ENT"} \in SUBSET Bits /\ {"LOAD"} \in SUBSET Bits /\ {} \in SUBSET Bits
  BY DEF Bits
<1>2. /\ Read(t) \in Steps /\ Write(t, {}, {"ENT"}) \in Steps
      /\ Write(t, {"LOAD"}, {}) \in Steps /\ Write(t, {}, {}) \in Steps
      /\ Step("stopped", t, {}, {}) \in Steps
  BY <1>1, StepTypes DEF Moves
<1>3. /\ KeepsTo(Read(t), g) /\ KeepsTo(Write(t, {}, {"ENT"}), g)
      /\ KeepsTo(Write(t, {"LOAD"}, {}), g) /\ KeepsTo(Write(t, {}, {}), g)
      /\ KeepsTo(Step("stopped", t, {}, {}), g)
  BY DEF KeepsTo, Read, Write, Step, Configuration
<1>4. /\ CopyOf(Read(t), Write(t, {}, {"ENT"})) /\ CopyOf(Read(t), Write(t, {"LOAD"}, {}))
      /\ CopyOf(Write(t, {"LOAD"}, {}), Write(t, {}, {}))
      /\ CopyOf(Write(t, {}, {"ENT"}), Step("stopped", t, {}, {}))
      /\ Read(t).m # "write"
  BY DEF CopyOf, Read, Write, Step
<1>5. Segment(Stop(t), g)
  BY <1>2, <1>3, <1>4, SegmentShort DEF Stop
<1>6. Segment(Reset(t), g)
  BY <1>2, <1>3, <1>4, SegmentShort DEF Reset
<1> QED BY <1>5, <1>6

LEMMA InitTimerSegment ==
  ASSUME NEW t \in Timers, NEW g, g[t] = "off"
  PROVE  Segment(InitTimer(t), g) /\ Settled(InitTimer(t), t, g)
<1> DEFINE a == Store(t, {"INT", "LOAD"})
           b == Store(t, {})
<1>1. a \in Steps /\ b \in Steps
  BY StepTypes DEF Bits
<1>2. KeepsTo(a, g) /\ KeepsTo(b, g) /\ a.m # "write" /\ CopyOf(a, b)
      /\ Settles(a, t, g)
  BY DEF KeepsTo, CopyOf, Settles, Store, Step
<1>3. InitTimer(t) = << a, b >>
  BY DEF InitTimer
<1> HIDE DEF a, b
<1>4. Segment(<< a, b >>, g)
  BY <1>1, <1>2, SegmentShort
<1>5. Settled(<< a, b >>, t, g)
  <2>1. 1 \in 1 .. Len(<< a, b >>) /\ << a, b >>[1] = a
    OBVIOUS
  <2> QED BY <1>2, <2>1 DEF Settled
<1> QED BY <1>3, <1>4, <1>5

LEMMA SelfTestSegment ==
  ASSUME NEW t \in Timers, NEW g, g[t] = "off"
  PROVE  /\ Segment(SelfTest(t), g) /\ Settled(SelfTest(t), t, g)
         /\ LastMove(SelfTest(t)) = "store"
<1> DEFINE q == SelfTest(t)
<1>1. /\ q \in Seq(Steps) /\ Len(q) = 4 /\ Head(q) = q[1] /\ q # << >>
      /\ q[1] = Store(t, {"INT", "LOAD"}) /\ q[2] = Store(t, {"ENT"})
      /\ q[3] = Store(t, {"INT", "LOAD"}) /\ q[4] = Store(t, {})
  BY ScriptTypes DEF SelfTest
<1> HIDE DEF q
<1>2. \A i \in 1 .. Len(q) : i \in {1, 2, 3, 4}
  BY <1>1
<1>3. \A i \in 1 .. Len(q) : KeepsTo(q[i], g) /\ q[i].m = "store"
  BY <1>1, <1>2 DEF KeepsTo, Store, Step
<1>4. \A i \in 1 .. Len(q) - 1 : i + 1 \in 1 .. Len(q)
  BY <1>1
<1>5. Segment(q, g)
  BY <1>1, <1>3, <1>4 DEF Segment, Steady, CopyOf, Store, Step
<1>6. 1 \in 1 .. Len(q) /\ Settles(q[1], t, g)
  BY <1>1 DEF Settles, Store, Step
<1>7. Settled(q, t, g)
  BY <1>6 DEF Settled
<1>8. LastMove(q) = "store"
  BY <1>1 DEF LastMove, Store, Step
<1> QED BY <1>5, <1>7, <1>8 DEF q

\* No option stands for the PWM bit, and an application without interrupts does
\* not pass the one that enables them.
LEMMA SetOptionsSegment ==
  ASSUME NEW t \in Timers, NEW opts \in OptionSets, NEW g, g[t] = "off"
  PROVE  /\ Segment(SetOptions(t, opts), g) /\ Settled(SetOptions(t, opts), t, g)
         /\ LastMove(SetOptions(t, opts)) = "store"
<1> DEFINE set == UNION { OptionsTable[o] : o \in opts }
<1>1. /\ opts \subseteq DOMAIN OptionsTable /\ "INT_MODE" \notin opts
      /\ \A o \in DOMAIN OptionsTable \ {"INT_MODE"} :
           "PWM" \notin OptionsTable[o] /\ "ENIT" \notin OptionsTable[o]
  BY OptionsAssumption, NoInterruptsAssumption DEF OptionsTable
<1>2. "PWM" \notin set /\ "ENIT" \notin set
  BY <1>1
<1>3. set \in SUBSET Bits
  <2>1. \A o \in DOMAIN OptionsTable : OptionsTable[o] \subseteq Bits
    BY DEF OptionsTable, Bits
  <2> QED BY <1>1, <2>1
<1>4. SetOptions(t, opts) = << Store(t, set) >>
  BY DEF SetOptions
<1> HIDE DEF set
<1>5. /\ Store(t, set) \in Steps /\ Store(t, set).m = "store"
      /\ KeepsTo(Store(t, set), g) /\ Settles(Store(t, set), t, g)
  BY <1>2, <1>3, StepTypes DEF KeepsTo, Settles, Store, Step
<1>6. \A a : << a >> # << >> /\ Len(<< a >>) = 1 /\ << a >>[1] = a /\ 1 \in 1 .. Len(<< a >>)
  OBVIOUS
<1> QED BY <1>4, <1>5, <1>6, SegmentShort DEF Settled, LastMove

\* The last step of enabling and of disabling.
LEMMA FlagSegment ==
  /\ Segment(<< Step("pwmOn", 0, {}, {}) >>, All("on"))
  /\ Segment(<< Step("pwmOff", 0, {}, {}) >>, All("disabling"))
  /\ LastMove(<< Step("pwmOn", 0, {}, {}) >>) = "pwmOn"
  /\ LastMove(<< Step("pwmOff", 0, {}, {}) >>) = "pwmOff"
<1>1. Step("pwmOn", 0, {}, {}) \in Steps /\ Step("pwmOff", 0, {}, {}) \in Steps
  BY StepTypes DEF Timers, Moves
<1>2. /\ KeepsTo(Step("pwmOn", 0, {}, {}), All("on"))
      /\ KeepsTo(Step("pwmOff", 0, {}, {}), All("disabling"))
  BY DEF KeepsTo, Step, All, Timers
<1>3. Step("pwmOn", 0, {}, {}).m = "pwmOn" /\ Step("pwmOff", 0, {}, {}).m = "pwmOff"
  BY DEF Step
<1>4. \A a : << a >> # << >> /\ Len(<< a >>) = 1 /\ << a >>[1] = a
  OBVIOUS
<1> QED BY <1>1, <1>2, <1>3, <1>4, SegmentShort DEF LastMove

LEMMA EnableLeadsOn ==
  /\ Segment(PwmEnable, All("on")) /\ LastMove(PwmEnable) = "pwmOn"
  /\ \A t \in Timers : Settled(PwmEnable, t, All("on"))
<1> DEFINE m(t) == Modify(t, {"PWM", "GEN"}, {})
           p2 == m(0) \o m(1)
           p3 == p2 \o Reset(0)
           p4 == p3 \o Reset(1)
           p5 == p4 \o Modify(0, {"ENALL"}, {})
<1>1. Timers = {0, 1} /\ {"PWM", "GEN"} \in SUBSET Bits /\ {"ENALL"} \in SUBSET Bits
      /\ {} \in SUBSET Bits
  BY DEF Timers, Bits
<1>2. \A t \in Timers : Segment(m(t), All("on")) /\ Settled(m(t), t, All("on"))
  <2>1. \A t \in Timers : /\ KeepsTo(Write(t, {"PWM", "GEN"}, {}), All("on"))
                          /\ Settles(Write(t, {"PWM", "GEN"}, {}), t, All("on"))
    BY DEF KeepsTo, Settles, Write, Step, All
  <2> QED BY <1>1, <2>1, ModifySegment
<1>3. Segment(Modify(0, {"ENALL"}, {}), All("on"))
  <2>1. KeepsTo(Write(0, {"ENALL"}, {}), All("on"))
    BY <1>1 DEF KeepsTo, Write, Step, All
  <2> QED BY <1>1, <2>1, ModifySegment
<1>4. Segment(p2, All("on")) /\ \A t \in Timers : Settled(p2, t, All("on"))
  <2> HIDE DEF m
  <2> QED BY <1>1, <1>2, SegmentJoin
<1>5. Segment(p3, All("on")) /\ \A t \in Timers : Settled(p3, t, All("on"))
  <2> HIDE DEF p2
  <2> QED BY <1>1, <1>4, StopSegment, SegmentJoin
<1>6. Segment(p4, All("on")) /\ \A t \in Timers : Settled(p4, t, All("on"))
  <2> HIDE DEF p3
  <2> QED BY <1>1, <1>5, StopSegment, SegmentJoin
<1>7. Segment(p5, All("on")) /\ \A t \in Timers : Settled(p5, t, All("on"))
  <2> HIDE DEF p4
  <2> QED BY <1>3, <1>6, SegmentJoin
<1>8. PwmEnable = p5 \o << Step("pwmOn", 0, {}, {}) >>
  BY DEF PwmEnable
<1> HIDE DEF p5
<1>9. << Step("pwmOn", 0, {}, {}) >> # << >>
  OBVIOUS
<1> QED BY <1>7, <1>8, <1>9, FlagSegment, SegmentJoin

LEMMA DisableLeadsOff ==
  /\ Segment(PwmDisable, All("disabling")) /\ LastMove(PwmDisable) = "pwmOff"
  /\ \A t \in Timers : Settled(PwmDisable, t, All("disabling"))
<1> DEFINE m(t) == Modify(t, {}, {"PWM", "GEN"})
           p2 == Stop(0) \o Stop(1)
           p3 == p2 \o Reset(0)
           p4 == p3 \o Reset(1)
           p5 == p4 \o m(0)
           p6 == p5 \o m(1)
<1>1. Timers = {0, 1} /\ {"PWM", "GEN"} \in SUBSET Bits /\ {} \in SUBSET Bits
  BY DEF Timers, Bits
<1>2. \A t \in Timers : Segment(m(t), All("disabling")) /\ Settled(m(t), t, All("disabling"))
  <2>1. \A t \in Timers : /\ KeepsTo(Write(t, {}, {"PWM", "GEN"}), All("disabling"))
                          /\ Settles(Write(t, {}, {"PWM", "GEN"}), t, All("disabling"))
    BY DEF KeepsTo, Settles, Write, Step, Configuration, All
  <2> QED BY <1>1, <2>1, ModifySegment
<1> HIDE DEF m
<1>3. Segment(p2, All("disabling"))
  BY <1>1, StopSegment, SegmentJoin
<1>4. Segment(p3, All("disabling"))
  <2> HIDE DEF p2
  <2> QED BY <1>1, <1>3, StopSegment, SegmentJoin
<1>5. Segment(p4, All("disabling"))
  <2> HIDE DEF p3
  <2> QED BY <1>1, <1>4, StopSegment, SegmentJoin
<1>6. Segment(p5, All("disabling")) /\ Settled(p5, 0, All("disabling"))
  <2> HIDE DEF p4
  <2> QED BY <1>1, <1>2, <1>5, SegmentJoin
<1>7. Segment(p6, All("disabling")) /\ \A t \in Timers : Settled(p6, t, All("disabling"))
  <2> HIDE DEF p5
  <2> QED BY <1>1, <1>2, <1>6, SegmentJoin
<1>8. PwmDisable = p6 \o << Step("pwmOff", 0, {}, {}) >>
  BY DEF PwmDisable, m
<1> HIDE DEF p6
<1>9. << Step("pwmOff", 0, {}, {}) >> # << >>
  OBVIOUS
<1> QED BY <1>7, <1>8, <1>9, FlagSegment, SegmentJoin

\* Calls that end with an access to the device lead nowhere else.
LEMMA LastAccess ==
  ASSUME NEW t \in Timers
  PROVE  /\ LastMove(Stop(t)) = "stopped" /\ LastMove(Reset(t)) = "write"
         /\ LastMove(InitTimer(t)) = "store"
         /\ \A set, clr : LastMove(Modify(t, set, clr)) = "write"
         /\ LastMove(<< >>) = "none"
<1>1. LastMove(Stop(t)) = "stopped"
  <2>1. Stop(t) # << >> /\ Len(Stop(t)) = 3 /\ Stop(t)[3].m = "stopped"
    BY DEF Stop, Step
  <2> QED BY <2>1 DEF LastMove
<1>2. LastMove(Reset(t)) = "write"
  <2>1. Reset(t) # << >> /\ Len(Reset(t)) = 3 /\ Reset(t)[3].m = "write"
    BY DEF Reset, Write, Step
  <2> QED BY <2>1 DEF LastMove
<1>3. LastMove(InitTimer(t)) = "store"
  <2>1. InitTimer(t) # << >> /\ Len(InitTimer(t)) = 2 /\ InitTimer(t)[2].m = "store"
    BY DEF InitTimer, Store, Step
  <2> QED BY <2>1 DEF LastMove
<1>4. ASSUME NEW set, NEW clr
      PROVE  LastMove(Modify(t, set, clr)) = "write"
  <2>1. /\ Modify(t, set, clr) # << >> /\ Len(Modify(t, set, clr)) = 2
        /\ Modify(t, set, clr)[2].m = "write"
    BY DEF Modify, Write, Step
  <2> QED BY <2>1 DEF LastMove
<1> QED BY <1>1, <1>2, <1>3, <1>4 DEF LastMove

LEMMA InitHwLeadsOff ==
  ASSUME Stopped # {}, NEW g, \A t \in Stopped : g[t] = "off"
  PROVE  /\ Segment(InitHwSteps, g) /\ LastMove(InitHwSteps) = "store"
         /\ \A t \in Stopped : Settled(InitHwSteps, t, g)
<1> DEFINE a == IF 0 \in Stopped THEN InitTimer(0) ELSE << >>
           b == IF 1 \in Stopped THEN InitTimer(1) ELSE << >>
<1>1. Timers = {0, 1} /\ InitHwSteps = a \o b /\ Stopped \subseteq Timers
  BY DEF Timers, InitHwSteps, Stopped
<1>2. InitTimer(1) # << >>
  BY DEF InitTimer
<1>3. /\ Segment(a, g) /\ Segment(b, g)
      /\ 0 \in Stopped => Settled(a, 0, g)
      /\ 1 \in Stopped => Settled(b, 1, g)
  BY <1>1, InitTimerSegment, SegmentShort
<1>4. 1 \in Stopped => b # << >> /\ LastMove(b) = "store"
  BY <1>1, <1>2, LastAccess
<1>5. 1 \notin Stopped => b = << >> /\ LastMove(a) = "store"
  BY <1>1, LastAccess
<1> HIDE DEF a, b
<1>6. Segment(a \o b, g) /\ \A t \in Stopped : Settled(a \o b, t, g)
  BY <1>1, <1>3, SegmentJoin
<1>7. LastMove(a \o b) = "store"
  <2>1. CASE 1 \in Stopped
    <3>1. Segment(a, g) /\ Segment(b, g) /\ b # << >>
      BY <1>3, <1>4, <2>1
    <3>2. LastMove(a \o b) = LastMove(b)
      BY <3>1, SegmentJoin DEF LastMove
    <3> QED BY <1>4, <2>1, <3>2
  <2>2. CASE 1 \notin Stopped
    <3>1. a \o b = a
      BY <1>3, <1>5, <2>2 DEF Segment
    <3> QED BY <1>5, <2>2, <3>1
  <2> QED BY <2>1, <2>2
<1> QED BY <1>1, <1>6, <1>7

LEMMA ConfigureKeeps ==
  ASSUME NEW running, NEW valid, NEW g \in [Timers -> {"on", "off"}]
  PROVE  /\ Segment(PwmConfigure(running, valid), g)
         /\ LastMove(PwmConfigure(running, valid)) = "write"
<1> DEFINE modes(t) == PwmModes(t)
           capt(t) == Modify(t, {}, {"CAPT"})
           a == IF 0 \in running THEN Stop(0) ELSE << >>
           b == IF 1 \in running THEN Stop(1) ELSE << >>
           p2 == a \o b
           p3 == p2 \o modes(0)
           p4 == p3 \o modes(1)
           c2 == capt(0) \o capt(1)
           c == IF valid THEN c2 ELSE << >>
<1>1. /\ Timers = {0, 1} /\ {"CAPT"} \in SUBSET Bits /\ {} \in SUBSET Bits
      /\ {"DOWN", "ARHT"} \in SUBSET Bits /\ {"CASC", "GEN"} \in SUBSET Bits
  BY DEF Timers, Bits
<1>2. \A t \in Timers : /\ Segment(modes(t), g) /\ modes(t) # << >>
                        /\ LastMove(modes(t)) = "write"
  <2>1. \A t \in Timers : KeepsTo(Write(t, {"DOWN", "ARHT"}, {"CASC", "GEN"}), g)
    BY DEF KeepsTo, Write, Step
  <2> QED BY <1>1, <2>1, ModifySegment, LastAccess DEF PwmModes
<1>3. \A t \in Timers : /\ Segment(capt(t), g) /\ capt(t) # << >>
                        /\ LastMove(capt(t)) = "write"
  <2>1. \A t \in Timers : KeepsTo(Write(t, {}, {"CAPT"}), g)
    BY DEF KeepsTo, Write, Step
  <2> QED BY <1>1, <2>1, ModifySegment, LastAccess
<1> HIDE DEF modes, capt
<1>4. Segment(a, g) /\ Segment(b, g)
  BY <1>1, StopSegment, SegmentShort
<1>5. Segment(p2, g)
  <2> HIDE DEF a, b
  <2> QED BY <1>4, SegmentJoin
<1>6. Segment(p3, g)
  <2> HIDE DEF p2
  <2> QED BY <1>1, <1>2, <1>5, SegmentJoin
<1>7. Segment(p4, g) /\ LastMove(p4) = "write"
  <2> HIDE DEF p3
  <2> QED BY <1>1, <1>2, <1>6, SegmentJoin
<1>8. Segment(c2, g) /\ LastMove(c2) = "write" /\ c2 # << >>
  <2>1. Segment(c2, g) /\ LastMove(c2) = "write"
    BY <1>1, <1>3, SegmentJoin
  <2> QED BY <2>1 DEF LastMove
<1>9. PwmConfigure(running, valid) = p4 \o c
  BY DEF PwmConfigure, modes, capt
<1> HIDE DEF p4, c2
<1>10. CASE valid
  BY <1>7, <1>8, <1>9, <1>10, SegmentJoin
<1>11. CASE ~valid
  <2>1. p4 \o c = p4
    BY <1>7, <1>11 DEF Segment
  <2> QED BY <1>7, <1>9, <2>1
<1> QED BY <1>10, <1>11

-----------------------------------------------------------------------------
(* The invariant between the calls and at their begin.                     *)

LEMMA NotInStart == ~InStart(<< >>)
<1>1. \A t \in Timers : /\ Start(t) # << >> /\ StartAgain(t) # << >>
                        /\ << Write(t, {"ENT"}, {}) >> # << >>
  BY DEF Start, StartAgain
<1>2. \A t \in Timers : Tail(Start(t)) # << >>
  BY DEF Start
<1> QED BY <1>1, <1>2 DEF InStart, StartingAfresh

LEMMA IdleTruth ==
  ASSUME PwmInv, ready, Idle("main"), NEW t \in Timers
  PROVE  At(t, Flag)
<1>1. todo["main"] = << >> /\ Goal(<< >>) = Flag
  BY DEF Idle, Goal, LastMove
<1>2. ~Settled(<< >>, t, Flag)
  BY DEF Settled
<1> QED BY <1>1, <1>2, NotInStart DEF PwmInv, Going

LEMMA BeginPwm ==
  ASSUME TypeOK, PwmInv, NEW steps, NEW g, Begin(steps), Segment(steps, g), Goal(steps)' = g,
         UNCHANGED pwmEnabled, ready' \/ ready' = ready,
         \A t \in Timers : Settled(steps, t, g) \/ At(t, g)
  PROVE  PwmInv'
<1>1. /\ todo'["main"] = steps /\ todo'["isr"] = << >> /\ UNCHANGED <<tcsr, reg>>
  BY DEF Begin, Idle, TypeOK, Ctx
<1>2. ~ready' => ~pwmEnabled'
  BY DEF PwmInv
<1>3. Going(steps, g)'
  BY <1>1 DEF Going, Segment, At, Settled, Steady
<1>4. Goal(todo["main"])' = g
  BY <1>1 DEF Goal, Flag
<1>5. Going(todo["main"], Goal(todo["main"]))'
  BY <1>1, <1>3, <1>4 DEF Going, At, Settled, Steady
<1> QED BY <1>1, <1>2, <1>5 DEF PwmInv, NoInterrupt, Idle

\* Calls that queue nothing.
LEMMA BeginNone ==
  ASSUME TypeOK, PwmInv, Begin(<< >>), UNCHANGED <<ready, pwmEnabled, rewritten>>
  PROVE  PwmInv'
<1>1. UNCHANGED <<tcsr, reg, todo>>
  BY DEF Begin, Idle, TypeOK, Ctx
<1> QED BY <1>1 DEF PwmInv, NoInterrupt, Idle, InStart, StartingAfresh, Going, At, Flag, Goal

\* Calls that lead each timer to where the flag will say it is.
LEMMA BeginCall ==
  ASSUME TypeOK, PwmInv, NEW steps, NEW g, Begin(steps), Segment(steps, g), g = Flag',
         LastMove(steps) \notin {"pwmOn", "pwmOff"},
         UNCHANGED pwmEnabled, ready' \/ ready' = ready,
         \A t \in Timers : Settled(steps, t, g) \/ At(t, g)
  PROVE  PwmInv'
<1>1. Goal(steps)' = g
  BY DEF Goal
<1> QED BY <1>1, BeginPwm

LEMMA InitializePwm ==
  ASSUME IInv, PwmInv, Initialize
  PROVE  PwmInv'
<1>1. /\ TypeOK /\ (~ready => Stopped = Timers) /\ UNCHANGED pwmEnabled
      /\ Idle("main") /\ Stopped \subseteq Timers
  BY DEF IInv, ContextInv, Stopped, Initialize, CallInitialize, CallInitHw, Call, CfgInitialize,
         Begin, driver
<1>2. CASE todo'["main"] = << >>
  <2>1. UNCHANGED rewritten
    BY <1>2 DEF Initialize
  <2>2. Begin(<< >>) /\ UNCHANGED ready
    <3>1. Stopped # {} => InitHwSteps # << >>
      <4>1. /\ 0 \in Stopped \/ 1 \in Stopped <=> Stopped # {}
            /\ Len(InitTimer(0)) = 2 /\ Len(InitTimer(1)) = 2
            /\ InitTimer(0) \in Seq(Steps) /\ InitTimer(1) \in Seq(Steps)
        BY <1>1, ScriptTypes DEF Timers, InitTimer
      <4> QED BY <4>1 DEF InitHwSteps
    <3>2. ASSUME NEW q, Begin(q)
          PROVE  todo'["main"] = q
      BY <1>1, <3>2 DEF Begin, TypeOK, Ctx
    <3>3. CASE CallInitHw
      BY <1>2, <3>2, <3>3 DEF CallInitHw, Call, driver
    <3>4. CASE CallInitialize
      BY <1>2, <3>1, <3>2, <3>4 DEF CallInitialize, driver
    <3> QED BY <3>3, <3>4 DEF Initialize
  <2> QED BY <1>1, <2>1, <2>2, BeginNone
<1>3. CASE todo'["main"] # << >>
  <2>1. rewritten' = rewritten \cup Stopped
    BY <1>3 DEF Initialize
  <2>2. Begin(InitHwSteps) /\ (ready' \/ ready' = ready)
    <3>1. ASSUME Begin(<< >>)
          PROVE  FALSE
      BY <1>1, <1>3, <3>1 DEF Begin, TypeOK, Ctx
    <3> QED BY <3>1 DEF Initialize, CallInitialize, CfgInitialize, CallInitHw, Call, driver
  <2>3. Stopped # {}
    <3>1. ASSUME Stopped = {}
          PROVE  InitHwSteps = << >>
      BY <3>1 DEF InitHwSteps
    <3> QED BY <1>1, <1>3, <2>2, <3>1 DEF Begin, TypeOK, Ctx
  <2>4. PICK g : g = Flag'
    OBVIOUS
  <2>5. \A t \in Stopped : g[t] = "off"
    BY <1>1, <2>1, <2>4 DEF Flag
  <2>6. \A t \in Timers \ Stopped : At(t, g)
    <3>1. ASSUME NEW t \in Timers \ Stopped
          PROVE  At(t, g)
      <4>1. ready /\ g[t] = Flag[t]
        BY <1>1, <2>1, <2>4 DEF Flag
      <4> QED BY <1>1, <4>1, IdleTruth DEF At
    <3> QED BY <3>1
  <2> QED BY <1>1, <2>2, <2>3, <2>4, <2>5, <2>6, InitHwLeadsOff, BeginCall
<1> QED BY <1>2, <1>3

\* The two other calls that store TCSR whole.
LEMMA RewritePwm ==
  ASSUME IInv, PwmInv, NEW t \in Timers, TestTimer(t) \/ SetOptionsOf(t)
  PROVE  PwmInv'
<1>1. /\ TypeOK /\ ready /\ UNCHANGED <<ready, pwmEnabled>> /\ Idle("main")
      /\ rewritten' = rewritten \cup {t}
  BY DEF IInv, TestTimer, SetOptionsOf, CallSelfTest, CallSetOptions, Call, Begin, driver
<1>2. PICK g : g = Flag'
  OBVIOUS
<1>3. /\ g[t] = "off"
      /\ \A u \in Timers \ {t} : g[u] = Flag[u]
  BY <1>1, <1>2 DEF Flag
<1>4. \A u \in Timers \ {t} : At(u, g)
  BY <1>1, <1>3, IdleTruth DEF At
<1>5. PICK steps : /\ Begin(steps) /\ Segment(steps, g) /\ Settled(steps, t, g)
                   /\ LastMove(steps) = "store"
  BY <1>3, SelfTestSegment, SetOptionsSegment
  DEF TestTimer, SetOptionsOf, CallSelfTest, CallSetOptions, Call
<1> QED BY <1>1, <1>2, <1>4, <1>5, BeginCall

LEMMA ConfigurePwm ==
  ASSUME IInv, PwmInv, NEW r, Configure(r)
  PROVE  PwmInv'
<1>1. /\ TypeOK /\ ready /\ UNCHANGED <<ready, pwmEnabled, rewritten>> /\ Idle("main")
      /\ Begin(PwmConfigure(Timers \ Stopped, Valid(r)))
  BY DEF IInv, Configure, CallPwmConfigure, Call, Begin, driver
<1>2. PICK g : g = Flag
  OBVIOUS
<1>3. g = Flag' /\ g \in [Timers -> {"on", "off"}]
  BY <1>1, <1>2 DEF Flag
<1>4. \A t \in Timers : At(t, g)
  BY <1>1, <1>2, IdleTruth
<1> QED BY <1>1, <1>3, <1>4, ConfigureKeeps, BeginCall

\* The calls that write no load register.
LEMMA OthersPwm ==
  ASSUME IInv, PwmInv, CallPwmSwitch \/ \E t \in Timers : CallInPlace(t),
         UNCHANGED rewritten
  PROVE  PwmInv'
<1>1. /\ TypeOK /\ ready /\ UNCHANGED <<ready, pwmEnabled>> /\ Idle("main")
      /\ Flag' = Flag
  BY DEF IInv, CallPwmSwitch, CallInPlace, Call, Begin, driver, Flag
<1>2. PICK g : g = Flag
  OBVIOUS
<1>3. \A t \in Timers : At(t, g)
  BY <1>1, <1>2, IdleTruth
<1>4. CASE CallPwmSwitch
  <2>1. CASE Begin(PwmEnable)
    <3>1. Goal(PwmEnable)' = All("on")
      BY EnableLeadsOn DEF Goal
    <3> QED BY <1>1, <2>1, <3>1, EnableLeadsOn, BeginPwm
  <2>2. CASE Begin(PwmDisable)
    <3>1. Goal(PwmDisable)' = All("disabling")
      BY DisableLeadsOff DEF Goal
    <3> QED BY <1>1, <2>2, <3>1, DisableLeadsOff, BeginPwm
  <2>3. CASE Begin(<< >>)
    BY <1>1, <2>3, BeginNone
  <2> QED BY <1>4, <2>1, <2>2, <2>3 DEF CallPwmSwitch, Call
<1>5. ASSUME NEW t \in Timers, CallInPlace(t)
      PROVE  PwmInv'
  <2>1. CASE Begin(Stop(t)) \/ Begin(Reset(t))
    BY <1>1, <1>2, <1>3, <2>1, StopSegment, LastAccess, BeginCall
  <2>2. CASE Begin(Start(t))
    <3>1. /\ todo'["main"] = Start(t) /\ todo'["isr"] = << >> /\ UNCHANGED <<tcsr, reg>>
      BY <1>1, <2>2 DEF Begin, Idle, TypeOK, Ctx
    <3>2. \A u \in Timers : At(u, Flag)'
      BY <1>1, <1>2, <1>3, <3>1 DEF At
    <3>3. InStart(todo["main"])'
      BY <3>1, <3>2 DEF InStart, StartingAfresh
    <3> QED BY <1>1, <3>1, <3>3 DEF PwmInv, NoInterrupt, Idle
  <2> QED BY <1>5, <2>1, <2>2 DEF CallInPlace, Call
<1> QED BY <1>4, <1>5

-----------------------------------------------------------------------------
(* The invariant and the steps of a call.                                  *)

LEMMA Advance ==
  ASSUME TypeOK, PwmInv, ready, ~Idle("main"),
         NEW g, g = Goal(todo["main"]), Going(todo["main"], g),
         UNCHANGED ready, todo'["main"] = Tail(todo["main"]), todo'["isr"] = << >>,
         NoInterrupt', Remembers,
         CASE Head(todo["main"]).m = "pwmOn" -> pwmEnabled' = TRUE
           [] Head(todo["main"]).m = "pwmOff" -> pwmEnabled' = FALSE
           [] OTHER -> pwmEnabled' = pwmEnabled,
         \A t \in Timers : Settles(Head(todo["main"]), t, g) \/ At(t, g) => At(t, g)',
         Tail(todo["main"]) # << >> /\ Head(Tail(todo["main"])).m = "write" =>
           Modes(reg'["main"]) = Modes(tcsr'[Head(Tail(todo["main"])).t])
  PROVE  PwmInv'
<1> DEFINE q == todo["main"]
           h == Head(q)
           r == Tail(q)
<1>1. q \in Seq(Steps) /\ q # << >>
  BY DEF TypeOK, Idle, Ctx
<1>2. KeepsTo(h, g) /\ Steady(r, g)
  BY <1>1, SteadyTail DEF Going
<1>3. \A t \in Timers : Settled(r, t, g) \/ At(t, g)'
  BY <1>1, SettledTail DEF Going
<1>4. IF r = << >> THEN LastMove(q) = h.m ELSE LastMove(r) = LastMove(q)
  BY <1>1, LastTail
<1>5. CASE r # << >>
  <2>1. LastMove(r) \notin {"pwmOn", "pwmOff"} => Flag' = Flag
    <3>1. All("on") # All("disabling") /\ Flag # All("disabling")
      BY DEF All, Flag, Timers
    <3>2. ASSUME Flag = All("on")
          PROVE  pwmEnabled /\ rewritten \cap Timers = {}
      <4>1. ASSUME NEW t \in Timers
            PROVE  pwmEnabled /\ t \notin rewritten
        <5>1. Flag[t] = "on"
          BY <3>2, <4>1 DEF All
        <5> QED BY <4>1, <5>1 DEF Flag
      <4>2. 0 \in Timers
        BY DEF Timers
      <4> QED BY <4>1, <4>2
    <3>3. ASSUME LastMove(r) \notin {"pwmOn", "pwmOff"}
          PROVE  g = Flag /\ h.m # "pwmOff" /\ (h.m = "pwmOn" => g = All("on"))
      BY <1>2, <1>4, <1>5, <3>1, <3>3 DEF KeepsTo, Goal
    <3> QED BY <3>2, <3>3 DEF Flag, Remembers
  <2>2. Goal(todo["main"])' = g
    BY <1>4, <1>5, <2>1 DEF Goal
  <2>3. Steady(todo'["main"], g) /\ \A t \in Timers : Settled(todo'["main"], t, g) \/ At(t, g)'
    BY <1>2, <1>3
  <2>4. Going(todo["main"], g)'
    BY <1>5, <2>3 DEF Going, Steady, Settled
  <2> QED BY <2>2, <2>4 DEF PwmInv, Idle, Going
<1>6. CASE r = << >>
  <2>1. ASSUME NEW t \in Timers
        PROVE  Flag'[t] = "on" <=> g[t] = "on"
    <3>1. CASE h.m = "pwmOn"
      BY <1>2, <1>4, <1>6, <3>1 DEF Goal, Flag, All, Remembers
    <3>2. CASE h.m = "pwmOff"
      BY <1>2, <1>4, <1>6, <3>2 DEF Goal, Flag, All
    <3>3. CASE h.m \notin {"pwmOn", "pwmOff"}
      BY <1>4, <1>6, <3>3 DEF Goal, Flag, Remembers
    <3> QED BY <3>1, <3>2, <3>3
  <2>2. \A t \in Timers : At(t, Flag)'
    <3>1. \A t \in Timers : ~Settled(r, t, g)
      BY <1>6 DEF Settled
    <3> QED BY <1>3, <2>1, <3>1 DEF At
  <2>3. Going(<< >>, Flag)'
    BY <2>2 DEF Going, Steady
  <2>4. todo'["main"] = << >> /\ Goal(todo["main"])' = Flag'
    BY <1>6 DEF Goal, LastMove
  <2> QED BY <2>3, <2>4 DEF PwmInv, Idle, Going
<1> QED BY <1>5, <1>6

\* What the head of the queue is, and what follows it.
LEMMA GoingHead ==
  ASSUME TypeOK, ~Idle("main"), NEW g, Going(todo["main"], g)
  PROVE  LET h == Head(todo["main"])
             r == Tail(todo["main"])
         IN  /\ h \in Steps /\ h.t \in Timers /\ KeepsTo(h, g)
             /\ h.m = "write" => Modes(reg["main"]) = Modes(tcsr[h.t])
             /\ r # << >> => CopyOf(h, Head(r))
             /\ r # << >> <=> Len(todo["main"]) # 1
<1>1. todo["main"] \in Seq(Steps) /\ todo["main"] # << >>
  BY DEF TypeOK, Idle, Ctx
<1> QED BY <1>1, QueueTypes, SteadyTail, TailFacts DEF Going, Ctx

LEMMA ReadGoesOn ==
  ASSUME TypeOK, PwmInv, ready, Remembers, DoRead("main"),
         NEW g, g = Goal(todo["main"]), Going(todo["main"], g)
  PROVE  PwmInv'
<1> DEFINE h == Head(todo["main"])
           r == Tail(todo["main"])
<1>1. /\ ~Idle("main") /\ h.m = "read" /\ UNCHANGED <<tcsr, driver>>
      /\ reg' = [reg EXCEPT !["main"] = tcsr[h.t]] /\ todo' = [todo EXCEPT !["main"] = r]
  BY DEF DoRead, AtHead
<1>2. h.t \in Timers /\ (r # << >> => CopyOf(h, Head(r)))
  BY <1>1, GoingHead
<1>3. /\ reg'["main"] = tcsr[h.t] /\ todo'["main"] = r /\ todo'["isr"] = << >>
      /\ UNCHANGED <<ready, pwmEnabled>>
  BY <1>1 DEF TypeOK, Ctx, PwmInv, Idle, driver
<1> HIDE DEF h, r
<1>4. r # << >> /\ Head(r).m = "write" => Modes(reg'["main"]) = Modes(tcsr'[Head(r).t])
  BY <1>1, <1>2, <1>3 DEF CopyOf
<1>5. \A t \in Timers : Settles(h, t, g) \/ At(t, g) => At(t, g)'
  BY <1>1 DEF Settles, At
<1>6. NoInterrupt'
  BY <1>1, <1>2, <1>3 DEF NoInterrupt, PwmInv
<1> QED BY <1>1, <1>3, <1>4, <1>5, <1>6, Advance DEF h, r

LEMMA ModeBits ==
  ASSUME NEW a, NEW b, Modes(a) = Modes(b)
  PROVE  \A bit \in Bits \ {"ENT", "INT", "LOAD"} : bit \in a <=> bit \in b
BY DEF Modes

LEMMA WriteGoesOn ==
  ASSUME TypeOK, PwmInv, ready, Remembers, DoWrite("main"),
         NEW g, g = Goal(todo["main"]), Going(todo["main"], g)
  PROVE  PwmInv'
<1> DEFINE h == Head(todo["main"])
           r == Tail(todo["main"])
           copy == reg["main"]
<1>1. /\ ~Idle("main") /\ h.m = "write" /\ BusWrite(h.t, (copy \cup h.set) \ h.clr)
      /\ Pop("main") /\ UNCHANGED driver
  BY DEF DoWrite, AtHead
<1>2. /\ h \in Steps /\ h.t \in Timers /\ KeepsTo(h, g) /\ (r # << >> => CopyOf(h, Head(r)))
      /\ Modes(copy) = Modes(tcsr[h.t]) /\ (r # << >> <=> Len(todo["main"]) # 1)
  BY <1>1, GoingHead
<1>3. /\ todo'["main"] = r /\ todo'["isr"] = << >> /\ UNCHANGED <<ready, pwmEnabled>>
      /\ reg'["main"] \in {copy, {}} /\ (r # << >> => reg'["main"] = copy)
  BY <1>1, <1>2 DEF TypeOK, Ctx, PwmInv, Idle, driver, Pop
<1> HIDE DEF h, r, copy
<1>4. /\ \A u \in Timers : u # h.t => tcsr'[u] = tcsr[u]
      /\ "PWM" \in tcsr'[h.t] <=> ("PWM" \in copy \/ "PWM" \in h.set) /\ "PWM" \notin h.clr
      /\ "ENIT" \in tcsr'[h.t] <=> ("ENIT" \in copy \/ "ENIT" \in h.set) /\ "ENIT" \notin h.clr
      /\ h.set \cup h.clr \subseteq {"ENT", "INT", "LOAD"} => Modes(tcsr'[h.t]) = Modes(copy)
  <2>1. tcsr' = [tcsr EXCEPT ![h.t] = AfterWrite(@, (copy \cup h.set) \ h.clr,
                                          StillHolds(h.t, (copy \cup h.set) \ h.clr))]
    BY <1>1 DEF BusWrite
  <2>2. /\ \A u \in Timers : u # h.t => tcsr'[u] = tcsr[u]
        /\ tcsr'[h.t] = AfterWrite(tcsr[h.t], (copy \cup h.set) \ h.clr,
                                   StillHolds(h.t, (copy \cup h.set) \ h.clr))
    BY <1>2, <2>1 DEF TypeOK
  <2> HIDE DEF h, r, copy
  <2>3. h.set \cup h.clr \subseteq {"ENT", "INT", "LOAD"} => Modes(tcsr'[h.t]) = Modes(copy)
    BY <2>2 DEF AfterWrite, Modes
  <2>4. \A b \in {"PWM", "ENIT"} :
          b \in tcsr'[h.t] <=> (b \in copy \/ b \in h.set) /\ b \notin h.clr
    BY <2>2 DEF AfterWrite
  <2> QED BY <2>2, <2>3, <2>4
<1>5. "PWM" \in copy <=> "PWM" \in tcsr[h.t]
  BY <1>2, ModeBits DEF Bits
<1>6. r # << >> /\ Head(r).m = "write" => Modes(reg'["main"]) = Modes(tcsr'[Head(r).t])
  BY <1>1, <1>2, <1>3, <1>4 DEF CopyOf
<1>7. ASSUME NEW t \in Timers, Settles(h, t, g) \/ At(t, g)
      PROVE  At(t, g)'
  <2>1. CASE t # h.t
    BY <1>4, <1>7, <2>1 DEF Settles, At
  <2>2. CASE t = h.t
    BY <1>1, <1>2, <1>4, <1>5, <1>7, <2>2 DEF Settles, At, KeepsTo
  <2> QED BY <2>1, <2>2
<1>8. NoInterrupt'
  BY <1>2, <1>3, <1>4 DEF NoInterrupt, PwmInv, KeepsTo, copy
<1> QED BY <1>1, <1>3, <1>6, <1>7, <1>8, Advance DEF h, r

LEMMA StoreGoesOn ==
  ASSUME TypeOK, PwmInv, ready, Remembers, DoStore("main"),
         NEW g, g = Goal(todo["main"]), Going(todo["main"], g)
  PROVE  PwmInv'
<1> DEFINE h == Head(todo["main"])
           r == Tail(todo["main"])
<1>1. /\ ~Idle("main") /\ h.m = "store" /\ BusWrite(h.t, h.set) /\ Pop("main") /\ UNCHANGED driver
  BY DEF DoStore, AtHead
<1>2. /\ h \in Steps /\ h.t \in Timers /\ KeepsTo(h, g) /\ (r # << >> => CopyOf(h, Head(r)))
  BY <1>1, GoingHead
<1>3. /\ todo'["main"] = r /\ todo'["isr"] = << >> /\ UNCHANGED <<ready, pwmEnabled>>
      /\ reg'["main"] \in {reg["main"], {}}
  BY <1>1 DEF TypeOK, Ctx, PwmInv, Idle, driver, Pop
<1>4. /\ \A u \in Timers : u # h.t => tcsr'[u] = tcsr[u]
      /\ \A b \in Bits \ {"INT"} : b \in tcsr'[h.t] <=> b \in h.set
  BY <1>1, <1>2 DEF TypeOK, BusWrite, AfterWrite
<1> HIDE DEF h, r
<1>5. ~(r # << >> /\ Head(r).m = "write")
  BY <1>1, <1>2 DEF CopyOf
<1>6. ASSUME NEW t \in Timers, Settles(h, t, g) \/ At(t, g)
      PROVE  At(t, g)'
  <2>1. g[h.t] # "on" /\ "PWM" \notin h.set
    BY <1>1, <1>2 DEF KeepsTo
  <2> QED BY <1>4, <1>6, <2>1 DEF Settles, At, Bits
<1>7. NoInterrupt'
  BY <1>2, <1>3, <1>4 DEF NoInterrupt, PwmInv, KeepsTo, Bits
<1> QED BY <1>1, <1>3, <1>5, <1>6, <1>7, Advance DEF h, r

LEMMA FlagGoesOn ==
  ASSUME TypeOK, PwmInv, ready, Remembers, DoStarted("main") \/ DoPwm("main"),
         NEW g, g = Goal(todo["main"]), Going(todo["main"], g)
  PROVE  PwmInv'
<1> DEFINE h == Head(todo["main"])
           r == Tail(todo["main"])
<1>1. /\ ~Idle("main") /\ h.m \in {"started", "stopped", "pwmOn", "pwmOff"} /\ Pop("main")
      /\ UNCHANGED <<tcsr, ready>>
      /\ CASE h.m = "pwmOn" -> pwmEnabled' = TRUE
           [] h.m = "pwmOff" -> pwmEnabled' = FALSE
           [] OTHER -> pwmEnabled' = pwmEnabled
  BY DEF DoStarted, DoPwm, AtHead
<1>2. /\ h \in Steps /\ h.t \in Timers /\ KeepsTo(h, g) /\ (r # << >> => CopyOf(h, Head(r)))
  BY <1>1, GoingHead
<1>3. /\ todo'["main"] = r /\ todo'["isr"] = << >> /\ reg'["main"] \in {reg["main"], {}}
  BY <1>1 DEF TypeOK, Ctx, PwmInv, Idle, Pop
<1> HIDE DEF h, r
<1>4. ~(r # << >> /\ Head(r).m = "write")
  BY <1>1, <1>2 DEF CopyOf
<1>5. \A t \in Timers : Settles(h, t, g) \/ At(t, g) => At(t, g)'
  BY <1>1 DEF Settles, At
<1>6. NoInterrupt'
  BY <1>1, <1>3 DEF NoInterrupt, PwmInv
<1> QED BY <1>1, <1>3, <1>4, <1>5, <1>6, Advance DEF h, r

\* XTmrCtr_Start takes the mode of its timer away and gives it back.
LEMMA StartSteps ==
  ASSUME NEW t \in Timers
  PROVE  LET q1 == Start(t)
             q2 == Tail(q1)
             q3 == StartAgain(t)
             q4 == << Write(t, {"ENT"}, {}) >>
         IN  /\ Head(q1) = Read(t) /\ Head(q2) = Store(t, {"LOAD"}) /\ Tail(q2) = q3
             /\ Head(q3) = Step("started", t, {}, {}) /\ Tail(q3) = q4
             /\ Head(q4) = Write(t, {"ENT"}, {}) /\ Tail(q4) = << >>
             /\ Len(q2) = 3 /\ Len(q3) = 2 /\ Len(q4) = 1
BY DEF Start, StartAgain

\* The head of the queue tells what is executed.
LEMMA WhatNext ==
  ASSUME Exec("main"), NEW h, h = Head(todo["main"])
  PROVE  /\ ~Idle("main")
         /\ h.m = "read" => DoRead("main")
         /\ h.m = "write" => DoWrite("main")
         /\ h.m = "store" => DoStore("main")
         /\ h.m = "started" => DoStarted("main")
BY DEF Exec, DoRead, DoWrite, DoStore, DoStarted, DoPwm, AtHead

\* What a step with no effect but on the device leaves.
LEMMA PopMain ==
  ASSUME TypeOK, Idle("isr"), Pop("main")
  PROVE  /\ todo'["main"] = Tail(todo["main"]) /\ todo'["isr"] = << >>
         /\ reg'["main"] = IF Len(todo["main"]) = 1 THEN {} ELSE reg["main"]
BY DEF Pop, TypeOK, Ctx, Idle

LEMMA StartGoesOn ==
  ASSUME TypeOK, PwmInv, ready, InStart(todo["main"]), Exec("main"), Remembers
  PROVE  PwmInv'
<1>1. PICK t \in Timers : /\ StartingAfresh(todo["main"], t)
                          /\ \A u \in Timers \ {t} : At(u, Flag)
  BY DEF InStart
<1> DEFINE h == Head(todo["main"])
           r == Tail(todo["main"])
<1>0. UNCHANGED rewritten
  <2>1. h \in {Read(t), Store(t, {"LOAD"}), Step("started", t, {}, {}), Write(t, {"ENT"}, {})}
    BY <1>1, StartSteps DEF StartingAfresh
  <2>2. h.m # "pwmOn"
    BY <2>1 DEF Read, Write, Store, Step
  <2> QED BY <2>2 DEF Remembers
<1>2. CASE todo["main"] = Start(t) /\ At(t, Flag)
  <2>1. h = Read(t)
    BY <1>2, StartSteps
  <2>2. h.t = t /\ DoRead("main")
    BY <2>1, WhatNext DEF Read, Step
  <2>3. /\ todo'["main"] = Tail(Start(t)) /\ todo'["isr"] = << >>
        /\ reg'["main"] = tcsr[t] /\ UNCHANGED <<tcsr, ready, pwmEnabled>>
    BY <1>2, <2>2 DEF DoRead, TypeOK, Ctx, PwmInv, Idle, driver
  <2>4. StartingAfresh(Tail(Start(t)), t)' /\ \A u \in Timers \ {t} : At(u, Flag)'
    BY <1>0, <1>1, <1>2, <2>3 DEF StartingAfresh, At, Flag
  <2>5. InStart(todo["main"])'
    BY <2>3, <2>4 DEF InStart, StartingAfresh
  <2> QED BY <2>3, <2>5 DEF PwmInv, NoInterrupt, Idle
<1>3. CASE "PWM" \in reg["main"] <=> Flag[t] = "on"
  <2>1. CASE todo["main"] = Tail(Start(t))
    <3>1. h = Store(t, {"LOAD"}) /\ r = StartAgain(t) /\ Len(todo["main"]) = 3
      BY <2>1, StartSteps
    <3>2. h.t = t /\ h.set = {"LOAD"} /\ DoStore("main")
      BY <3>1, WhatNext DEF Store, Step
    <3>3. /\ todo'["main"] = StartAgain(t) /\ todo'["isr"] = << >> /\ reg'["main"] = reg["main"]
          /\ UNCHANGED <<ready, pwmEnabled>>
          /\ tcsr' = [tcsr EXCEPT ![t] = AfterWrite(@, {"LOAD"}, StillHolds(t, {"LOAD"}))]
      <4>1. Pop("main") /\ UNCHANGED <<ready, pwmEnabled>> 
            /\ tcsr' = [tcsr EXCEPT ![h.t] = AfterWrite(@, h.set, StillHolds(h.t, h.set))]
        BY <3>2 DEF DoStore, driver, BusWrite
      <4>2. Idle("isr")
        BY DEF PwmInv
      <4>3. /\ todo'["main"] = r /\ todo'["isr"] = << >>
            /\ reg'["main"] = IF Len(todo["main"]) = 1 THEN {} ELSE reg["main"]
        BY <4>1, <4>2, PopMain
      <4> HIDE DEF h, r
      <4> QED BY <3>1, <3>2, <4>1, <4>3
    <3>4. /\ \A u \in Timers \ {t} : tcsr'[u] = tcsr[u]
          /\ "ENIT" \notin tcsr'[t]
      BY <3>3 DEF AfterWrite, TypeOK
    <3>5. InStart(todo["main"])'
      BY <1>0, <1>1, <1>3, <3>3, <3>4 DEF InStart, StartingAfresh, At, Flag
    <3> QED BY <3>3, <3>4, <3>5 DEF PwmInv, NoInterrupt, Idle
  <2>2. CASE todo["main"] = StartAgain(t)
    <3>1. h = Step("started", t, {}, {}) /\ r = << Write(t, {"ENT"}, {}) >> /\ Len(todo["main"]) = 2
      BY <2>2, StartSteps
    <3>2. DoStarted("main")
      BY <3>1, WhatNext DEF Step
    <3>3. /\ todo'["main"] = << Write(t, {"ENT"}, {}) >> /\ todo'["isr"] = << >>
          /\ reg'["main"] = reg["main"] /\ UNCHANGED <<tcsr, ready, pwmEnabled>>
      <4>1. Pop("main") /\ UNCHANGED <<tcsr, ready, pwmEnabled>>
        BY <3>2 DEF DoStarted
      <4>2. Idle("isr")
        BY DEF PwmInv
      <4>3. /\ todo'["main"] = r /\ todo'["isr"] = << >>
            /\ reg'["main"] = IF Len(todo["main"]) = 1 THEN {} ELSE reg["main"]
        BY <4>1, <4>2, PopMain
      <4> HIDE DEF h, r
      <4> QED BY <3>1, <4>1, <4>3
    <3>4. InStart(todo["main"])'
      BY <1>0, <1>1, <1>3, <3>3 DEF InStart, StartingAfresh, At, Flag
    <3> QED BY <3>3, <3>4 DEF PwmInv, NoInterrupt, Idle
  <2>3. CASE todo["main"] = << Write(t, {"ENT"}, {}) >>
    <3>1. h = Write(t, {"ENT"}, {}) /\ r = << >> /\ Len(todo["main"]) = 1
      BY <2>3, StartSteps
    <3>2. /\ h.t = t /\ h.set = {"ENT"} /\ h.clr = {} /\ DoWrite("main")
      BY <3>1, WhatNext DEF Write, Step
    <3>3. /\ todo'["main"] = << >> /\ todo'["isr"] = << >> /\ reg'["main"] = {}
          /\ UNCHANGED <<ready, pwmEnabled>>
          /\ tcsr' = [tcsr EXCEPT ![t] = AfterWrite(@, (reg["main"] \cup {"ENT"}) \ {},
                                             StillHolds(t, (reg["main"] \cup {"ENT"}) \ {}))]
      <4>1. /\ Pop("main") /\ UNCHANGED <<ready, pwmEnabled>>
            /\ tcsr' = [tcsr EXCEPT ![h.t] = AfterWrite(@, (reg["main"] \cup h.set) \ h.clr,
                                             StillHolds(h.t, (reg["main"] \cup h.set) \ h.clr))]
        BY <3>2 DEF DoWrite, driver, BusWrite
      <4>2. Idle("isr")
        BY DEF PwmInv
      <4>3. /\ todo'["main"] = r /\ todo'["isr"] = << >>
            /\ reg'["main"] = IF Len(todo["main"]) = 1 THEN {} ELSE reg["main"]
        BY <4>1, <4>2, PopMain
      <4> HIDE DEF h, r
      <4> QED BY <3>1, <3>2, <4>1, <4>3
    <3>4. /\ \A u \in Timers : u # t => tcsr'[u] = tcsr[u]
          /\ "PWM" \in tcsr'[t] <=> "PWM" \in reg["main"]
          /\ "ENIT" \in tcsr'[t] <=> "ENIT" \in reg["main"]
      <4>1. /\ \A u \in Timers : u # t => tcsr'[u] = tcsr[u]
            /\ tcsr'[t] = AfterWrite(tcsr[t], (reg["main"] \cup {"ENT"}) \ {},
                                     StillHolds(t, (reg["main"] \cup {"ENT"}) \ {}))
        BY <3>3 DEF TypeOK
      <4>2. \A b \in {"PWM", "ENIT"} : b \in tcsr'[t] <=> b \in reg["main"]
        BY <4>1 DEF AfterWrite
      <4> QED BY <4>1, <4>2
    <3>5. \A u \in Timers : At(u, Flag)'
      BY <1>0, <1>1, <1>3, <3>3, <3>4 DEF At, Flag
    <3>6. Goal(<< >>)' = Flag'
      BY DEF Goal, LastMove
    <3>7. Going(todo["main"], Flag)'
      BY <3>3, <3>5 DEF Going, Steady
    <3>8. Going(todo["main"], Goal(todo["main"]))'
      BY <3>3, <3>6, <3>7 DEF Goal, LastMove
    <3> QED BY <3>3, <3>4, <3>8 DEF PwmInv, NoInterrupt, Idle
  <2> QED BY <1>1, <2>1, <2>2, <2>3, StartSteps, <1>2 DEF StartingAfresh
<1> QED BY <1>1, <1>2, <1>3 DEF StartingAfresh

LEMMA PwmStep ==
  ASSUME IInv, PwmInv, [LoadsNext]_<<vars, loadVars>>
  PROVE  PwmInv'
<1>1. TypeOK /\ (~ready => Idle("main")) /\ Idle("isr")
  BY DEF IInv, ContextInv, PwmInv, Ctx
<1>2. CASE StepOfCall
  <2>1. ready /\ Exec("main") /\ Remembers
    BY <1>1, <1>2
    DEF StepOfCall, Remembers, Exec, DoRead, DoWrite, DoStore, DoStarted, DoPwm, AtHead
  <2>2. CASE InStart(todo["main"])
    BY <1>1, <2>1, <2>2, StartGoesOn
  <2>3. CASE Going(todo["main"], Goal(todo["main"]))
    BY <1>1, <2>1, <2>3, ReadGoesOn, WriteGoesOn, StoreGoesOn, FlagGoesOn DEF Exec
  <2> QED BY <2>1, <2>2, <2>3 DEF PwmInv
<1>3. ASSUME NEW t \in Timers, Expire(t), UNCHANGED rewritten
      PROVE  PwmInv'
  <2>1. \A u \in Timers : tcsr'[u] \in {tcsr[u], tcsr[u] \cup {"INT"}}
    BY <1>1, <1>3 DEF Expire, TypeOK
  <2>2. UNCHANGED <<ready, pwmEnabled, todo, reg, rewritten>>
    BY <1>3 DEF Expire, driver
  <2>3. \A u \in Timers : /\ Modes(tcsr'[u]) = Modes(tcsr[u])
                          /\ "PWM" \in tcsr'[u] <=> "PWM" \in tcsr[u]
                          /\ "ENIT" \in tcsr'[u] <=> "ENIT" \in tcsr[u]
    BY <2>1 DEF Modes
  <2>4. \A u \in Timers, g \in Goals : At(u, g)' <=> At(u, g)
    BY <2>3 DEF At
  <2>5. Flag \in Goals /\ Flag' = Flag /\ Goal(todo["main"]) \in Goals
        /\ Goal(todo["main"])' = Goal(todo["main"])
    BY <2>2 DEF Flag, Goals, Goal, All
  <2>6. InStart(todo["main"]) => InStart(todo["main"])'
    BY <2>2, <2>4, <2>5 DEF InStart, StartingAfresh
  <2>7. ASSUME Going(todo["main"], Goal(todo["main"]))
        PROVE  Going(todo["main"], Goal(todo["main"]))'
    <3>1. ~Idle("main") => Head(todo["main"]).t \in Timers
      BY <1>1, QueueTypes DEF Ctx
    <3>2. todo["main"] # << >> /\ Head(todo["main"]).m = "write" =>
            Modes(reg'["main"]) = Modes(tcsr'[Head(todo["main"]).t])
      BY <2>2, <2>3, <2>7, <3>1 DEF Going, Idle
    <3> QED BY <2>2, <2>4, <2>5, <2>7, <3>2 DEF Going, Settled
  <2> QED BY <2>2, <2>3, <2>6, <2>7 DEF PwmInv, NoInterrupt, Idle
<1>4. CASE Others
  BY <1>3, <1>4, OthersPwm DEF Others, loadVars
<1>5. CASE RestartLoads
  BY <1>5 DEF RestartLoads, Restart, Loaded, PwmInv, NoInterrupt, Idle, Ctx
<1>6. ASSUME NEW t \in Timers, NEW v, SetResetValue(t, v)
      PROVE  PwmInv'
  BY <1>1, <1>6, BeginNone DEF SetResetValue, driver
<1>7. CASE WriteLoad \/ UNCHANGED <<vars, loadVars>>
  BY <1>7 DEF WriteLoad, vars, loadVars, PwmInv, NoInterrupt, Idle, InStart, StartingAfresh,
     Going, At, Flag, Goal
<1> QED BY <1>2, <1>4, <1>5, <1>6, <1>7, InitializePwm, RewritePwm, ConfigurePwm DEF LoadsNext

-----------------------------------------------------------------------------
(* TmrLoads makes the steps of TmrCtr, and between them the writes of the  *)
(* load registers.                                                         *)

LEMMA LoadsStepIsStep ==
  ASSUME TypeOK, [LoadsNext]_<<vars, loadVars>>
  PROVE  [Next]_vars
<1>1. ASSUME NEW t \in Timers, NEW v, SetResetValue(t, v)
      PROVE  UNCHANGED vars
  <2>1. Begin(<< >>) /\ UNCHANGED driver
    BY <1>1 DEF SetResetValue
  <2>2. todo' = todo
    BY <2>1 DEF Begin, Idle, TypeOK
  <2> QED BY <2>1, <2>2 DEF Begin, driver, vars
<1>2. ASSUME NEW r, Configure(r)
      PROVE  CallPwm
  BY <1>2 DEF Configure, CallPwm, Valid
<1> QED
  BY <1>1, <1>2
  DEF LoadsNext, Initialize, TestTimer, SetOptionsOf, WriteLoad, Others, StepOfCall, RestartLoads,
      Next, CallOnTimer, CallPwm, Ctx

LEMMA LoadsTypes == LoadsSpec => []IInv
<1>1. LoadsInit => IInv
  BY InitInv DEF LoadsInit
<1>2. IInv /\ [LoadsNext]_<<vars, loadVars>> => IInv'
  BY LoadsStepIsStep, StepInv DEF IInv
<1> QED
  BY <1>1, <1>2, PTL DEF LoadsSpec

\* TmrLoads implements TmrCtr: what is proved of the driver holds of it while
\* the load registers are written.
THEOREM LoadsImplement == LoadsSpec => Spec
<1>1. LoadsInit => Init
  BY DEF LoadsInit
<1>2. IInv /\ [LoadsNext]_<<vars, loadVars>> => [Next]_vars
  BY LoadsStepIsStep DEF IInv
<1> QED
  BY <1>1, <1>2, LoadsTypes, PTL DEF LoadsSpec, Spec

-----------------------------------------------------------------------------
(* The flag, and what disabling keeps.                                     *)

LEMMA PwmInitially == LoadsInit => PwmInv
BY DEF LoadsInit, Init, Loaded, PwmInv, NoInterrupt, Idle, Ctx

LEMMA PwmInvariance == LoadsSpec => []PwmInv
<1>1. IInv /\ PwmInv /\ [LoadsNext]_<<vars, loadVars>> => PwmInv'
  BY PwmStep
<1> QED
  BY <1>1, PwmInitially, LoadsTypes, PTL DEF LoadsSpec

\* IsPwmEnabled tells the truth about a timer between two calls, whichever
\* calls an application without interrupts makes, unless initialisation, the
\* options or the self test have overwritten its register since PWM was enabled.
THEOREM PwmFlagTellsTheTruth == LoadsSpec => []PwmFlagTruthful
<1>1. PwmInv => PwmFlagTruthful
  BY IdleTruth DEF PwmFlagTruthful, At, Flag
<1> QED
  BY <1>1, PwmInvariance, PTL

\* A call that ends with the flag being taken away is not XTmrCtr_Start.
LEMMA DisablingIsGoing ==
  ASSUME PwmInv, ready, LastMove(todo["main"]) = "pwmOff"
  PROVE  Going(todo["main"], All("disabling"))
<1>1. ASSUME InStart(todo["main"])
      PROVE  FALSE
  <2>1. PICK t \in Timers : StartingAfresh(todo["main"], t)
    BY <1>1 DEF InStart
  <2>2. /\ Start(t) # << >> /\ Len(Start(t)) = 4 /\ Start(t)[4].m = "write"
        /\ Tail(Start(t)) # << >> /\ Len(Tail(Start(t))) = 3 /\ Tail(Start(t))[3].m = "write"
        /\ StartAgain(t) # << >> /\ Len(StartAgain(t)) = 2 /\ StartAgain(t)[2].m = "write"
        /\ << Write(t, {"ENT"}, {}) >> # << >> /\ Len(<< Write(t, {"ENT"}, {}) >>) = 1
        /\ << Write(t, {"ENT"}, {}) >>[1].m = "write"
    BY DEF Start, StartAgain, Write, Step
  <2> QED BY <2>1, <2>2 DEF StartingAfresh, LastMove
<1>2. Goal(todo["main"]) = All("disabling")
  BY DEF Goal
<1> QED BY <1>1, <1>2 DEF PwmInv

LEMMA DisablingStep ==
  ASSUME IInv, PwmInv, [Next]_vars, ~Idle("main"), ready',
         todo["main"][Len(todo["main"])].m = "pwmOff", NEW t \in Timers
  PROVE  tcsr'[t] \cap Configuration = tcsr[t] \cap Configuration
<1>1. TypeOK /\ Idle("isr") /\ ready /\ LastMove(todo["main"]) = "pwmOff"
  BY DEF IInv, ContextInv, PwmInv, LastMove, Ctx, Idle
<1>2. Going(todo["main"], All("disabling"))
  BY <1>1, DisablingIsGoing
<1>3. CASE tcsr' = tcsr
  BY <1>3
<1>4. CASE \E u \in Timers : Expire(u)
  <2>1. tcsr'[t] \in {tcsr[t], tcsr[t] \cup {"INT"}}
    BY <1>1, <1>4 DEF Expire, TypeOK
  <2> QED BY <2>1 DEF Configuration
<1>5. CASE DoStore("main")
  BY <1>1, <1>2, <1>5, GoingHead DEF DoStore, AtHead, KeepsTo, All
<1>6. CASE DoWrite("main")
  <2> DEFINE h == Head(todo["main"])
             copy == reg["main"]
  <2>1. /\ h.m = "write" /\ BusWrite(h.t, (copy \cup h.set) \ h.clr)
    BY <1>6 DEF DoWrite, AtHead
  <2>2. h.t \in Timers /\ KeepsTo(h, All("disabling")) /\ Modes(copy) = Modes(tcsr[h.t])
    BY <1>1, <1>2, <2>1, GoingHead
  <2>3. tcsr'[t] = IF t = h.t THEN AfterWrite(tcsr[t], (copy \cup h.set) \ h.clr,
                                              StillHolds(t, (copy \cup h.set) \ h.clr))
                   ELSE tcsr[t]
    BY <1>1, <2>1, <2>2 DEF BusWrite, TypeOK
  <2>4. (h.set \cup h.clr) \cap Configuration = {}
    BY <2>2 DEF KeepsTo, All
  <2>5. copy \cap Configuration = tcsr[h.t] \cap Configuration
    BY <2>2, ModeBits DEF Configuration, Bits
  <2> HIDE DEF h, copy
  <2>6. "INT" \notin Configuration
    BY DEF Configuration
  <2> QED BY <2>3, <2>4, <2>5, <2>6 DEF AfterWrite
<1>7. ~CallInitialize /\ ~CallInitHw /\ ~CallPwm /\ ~CallSetHandler /\ ~CallClearStats
      /\ \A u \in Timers : ~CallOnTimer(u)
  BY DEF CallInitialize, CallInitHw, CallPwm, CallPwmSwitch, CallPwmConfigure, CallSetHandler,
     CallClearStats, CallOnTimer, CallInPlace, CallSelfTest, CallSetOptions, Call, Begin
<1>8. ~Exec("isr") /\ ~Isr /\ ~Restart
  BY <1>1 DEF Exec, DoRead, DoWrite, DoStore, DoStarted, DoPwm, AtHead, Isr, DoTest, DoAck,
     Restart, Loaded
<1>9. Exec("main") => DoStore("main") \/ DoWrite("main") \/ tcsr' = tcsr
  BY DEF Exec, DoRead, DoStarted, DoPwm
<1> QED
  BY <1>3, <1>4, <1>5, <1>6, <1>7, <1>8, <1>9 DEF Next, Ctx, TakeInterrupt, vars

\* XTmrCtr_PwmDisable leaves the count direction and the reload mode of both
\* timers alone from its first access to its last, while the timers expire.
THEOREM DisablingKeepsConfiguration == LoadsSpec => PwmDisableKeepsConfiguration
<1>1. IInv /\ PwmInv /\ [Next]_vars =>
        [~Idle("main") /\ todo["main"][Len(todo["main"])].m = "pwmOff" /\ ready' =>
           \A t \in Timers : tcsr[t]' \cap {"DOWN", "ARHT", "CAPT", "CASC"}
                           = tcsr[t] \cap {"DOWN", "ARHT", "CAPT", "CASC"}]_vars
  BY DisablingStep DEF Configuration
<1> QED
  BY <1>1, PwmInvariance, LoadsTypes, LoadsImplement, PTL DEF Spec, PwmDisableKeepsConfiguration

-----------------------------------------------------------------------------
(* The load registers hold the wave, or the call in progress writes it.    *)

Asked(t) == Clocks(IF t = 0 THEN wave.period ELSE wave.high)

Carried == loads = << >> /\ (wave # NoWave => \A t \in Timers : tlr[t] = Asked(t))
Configuring ==
  /\ wave # NoWave /\ Len(todo["main"]) >= 4
  /\ \/ loads = << Load(4, 0, Asked(0)), Load(4, 1, Asked(1)) >>
     \/ tlr[0] = Asked(0) /\ loads = << Load(4, 1, Asked(1)) >>
Clearing ==
  /\ wave = NoWave
  /\ \/ loads = << Load(4, 0, 0), Load(2, 1, 0) >> /\ Len(todo["main"]) >= 4
     \/ \E n \in {2, 4}, t \in Timers : loads = << Load(n, t, 0) >> /\ Len(todo["main"]) >= n

LoadsInv ==
  /\ DOMAIN tlr = Timers
  /\ ~ready => loads = << >> /\ wave = NoWave
  /\ wave # NoWave => wave \in Requests /\ Valid(wave)
  /\ Carried \/ Configuring \/ Clearing

LEMMA IdleCarries ==
  ASSUME LoadsInv, Idle("main")
  PROVE  Carried
<1>1. Len(todo["main"]) = 0
  BY DEF Idle
<1> QED BY <1>1 DEF LoadsInv, Configuring, Clearing

\* A call that writes no load register.
LEMMA CarriedOn ==
  ASSUME LoadsInv, Idle("main"), UNCHANGED <<loads, ready, wave, tlr>>
  PROVE  LoadsInv'
BY IdleCarries DEF LoadsInv, Carried, Asked

LEMMA InitializeClears ==
  ASSUME IInv, LoadsInv, Initialize
  PROVE  LoadsInv'
<1>1. TypeOK /\ Idle("main") /\ UNCHANGED tlr /\ (ready => ready')
  BY DEF IInv, Initialize, CallInitialize, CallInitHw, Call, CfgInitialize, Begin, driver
<1>2. CASE todo'["main"] = << >>
  <2>1. UNCHANGED <<loads, wave>> /\ Carried
    BY <1>1, <1>2, IdleCarries DEF Initialize
  <2> QED BY <1>1, <2>1 DEF LoadsInv, Carried, Asked, Valid
<1>3. CASE todo'["main"] # << >>
  <2>1. Begin(InitHwSteps) /\ ready' /\ todo'["main"] = InitHwSteps
    BY <1>1, <1>3 DEF Initialize, CallInitialize, CallInitHw, Call, CfgInitialize, Begin, driver,
       TypeOK, Ctx
  <2>2. loads' = InitHwLoads /\ wave' = NoWave
    BY <1>3 DEF Initialize
  <2>3. /\ 0 \in Timers /\ 1 \in Timers
        /\ Len(InitTimer(0)) = 2 /\ Len(InitTimer(1)) = 2
        /\ InitTimer(0) \in Seq(Steps) /\ InitTimer(1) \in Seq(Steps)
    BY ScriptTypes DEF Timers, InitTimer
  <2>4. CASE 0 \in Stopped /\ 1 \in Stopped
    <3>1. Len(InitHwSteps) = 4
      BY <2>3, <2>4 DEF InitHwSteps, InitTimer
    <3>2. loads' = << Load(4, 0, 0), Load(2, 1, 0) >>
      <4>1. loads' = << Load(4, 0, 0) >> \o << Load(2, 1, 0) >>
        BY <2>2, <2>4, <3>1 DEF InitHwLoads
      <4>2. ASSUME NEW x, NEW y
            PROVE  << x >> \o << y >> = << x, y >>
        <5> DEFINE c == << x >> \o << y >>
                   d == << x, y >>
        <5>1. << x >> \in Seq({x, y}) /\ << y >> \in Seq({x, y}) /\ d \in Seq({x, y})
          OBVIOUS
        <5>2. c \in Seq({x, y}) /\ Len(c) = 2 /\ c[1] = x /\ c[2] = y
              /\ Len(d) = 2 /\ d[1] = x /\ d[2] = y
          BY <5>1
        <5>3. \A i \in 1 .. 2 : i \in {1, 2}
          OBVIOUS
        <5> HIDE DEF c, d
        <5>4. c = d
          BY <5>1, <5>2, <5>3, SeqEqual
        <5> QED BY <5>4 DEF c, d
      <4> QED BY <4>1, <4>2
    <3> QED BY <1>1, <2>1, <2>2, <3>1, <3>2 DEF LoadsInv, Clearing, NoWave
  <2>5. CASE 0 \in Stopped /\ 1 \notin Stopped
    <3>1. Len(InitHwSteps) = 2
      BY <2>3, <2>5 DEF InitHwSteps, InitTimer
    <3>2. loads' = << Load(2, 0, 0) >>
      BY <2>2, <2>5, <3>1 DEF InitHwLoads
    <3>3. Clearing'
      BY <2>1, <2>2, <2>3, <3>1, <3>2 DEF Clearing, NoWave
    <3> QED BY <1>1, <2>1, <2>2, <3>3 DEF LoadsInv, NoWave
  <2>6. CASE 0 \notin Stopped /\ 1 \in Stopped
    <3>1. Len(InitHwSteps) = 2
      BY <2>3, <2>6 DEF InitHwSteps, InitTimer
    <3>2. loads' = << Load(2, 1, 0) >>
      BY <2>2, <2>6 DEF InitHwLoads
    <3>3. Clearing'
      BY <2>1, <2>2, <2>3, <3>1, <3>2 DEF Clearing, NoWave
    <3> QED BY <1>1, <2>1, <2>2, <3>3 DEF LoadsInv, NoWave
  <2>7. CASE 0 \notin Stopped /\ 1 \notin Stopped
    BY <1>3, <2>1, <2>7 DEF InitHwSteps
  <2> QED BY <2>4, <2>5, <2>6, <2>7
<1> QED BY <1>2, <1>3

LEMMA TestClears ==
  ASSUME IInv, LoadsInv, NEW t \in Timers, TestTimer(t)
  PROVE  LoadsInv'
<1>1. /\ TypeOK /\ ready /\ ready' /\ UNCHANGED tlr /\ wave' = NoWave
      /\ loads' = << Load(4, t, 0) >> /\ todo'["main"] = SelfTest(t)
  BY DEF IInv, TestTimer, CallSelfTest, Call, Begin, driver, TypeOK, Ctx
<1>2. Len(SelfTest(t)) = 4
  BY DEF SelfTest
<1>3. Clearing'
  BY <1>1, <1>2 DEF Clearing, NoWave
<1> QED BY <1>1, <1>3 DEF LoadsInv, NoWave

LEMMA LongConfigure ==
  ASSUME NEW running
  PROVE  Len(PwmConfigure(running, TRUE)) \in Nat /\ Len(PwmConfigure(running, TRUE)) >= 4
<1> DEFINE a == IF 0 \in running THEN Stop(0) ELSE << >>
           b == IF 1 \in running THEN Stop(1) ELSE << >>
           p == a \o b \o PwmModes(0) \o PwmModes(1)
           q == Modify(0, {}, {"CAPT"}) \o Modify(1, {}, {"CAPT"})
<1>1. 0 \in Timers /\ 1 \in Timers /\ {"CAPT"} \in SUBSET Bits /\ {} \in SUBSET Bits
  BY DEF Timers, Bits
<1>2. /\ a \in Seq(Steps) /\ b \in Seq(Steps)
      /\ PwmModes(0) \in Seq(Steps) /\ PwmModes(1) \in Seq(Steps)
  BY <1>1, ScriptTypes
<1>3. q \in Seq(Steps) /\ Len(q) = 4
  <2>1. \A t \in Timers : /\ Modify(t, {}, {"CAPT"}) \in Seq(Steps)
                          /\ Len(Modify(t, {}, {"CAPT"})) = 2
    BY <1>1, StepTypes DEF Modify
  <2>2. ASSUME NEW m \in Seq(Steps), NEW n \in Seq(Steps), Len(m) = 2, Len(n) = 2
        PROVE  m \o n \in Seq(Steps) /\ Len(m \o n) = 4
    BY <2>2, JoinFacts
  <2> QED BY <1>1, <2>1, <2>2
<1> HIDE DEF a, b
<1>4. p \in Seq(Steps)
  BY <1>2
<1>5. PwmConfigure(running, TRUE) = p \o q
  BY DEF PwmConfigure, a, b
<1>6. Len(p) \in Nat
  BY <1>4
<1> HIDE DEF p, q
<1>7. Len(p \o q) = Len(p) + Len(q)
  BY <1>3, <1>4, JoinFacts
<1>8. Len(p) + Len(q) \in Nat /\ Len(p) + Len(q) >= 4
  BY <1>3, <1>6
<1> QED BY <1>5, <1>7, <1>8, Zenon

LEMMA ConfigureWrites ==
  ASSUME TypeOK, LoadsInv, NEW r \in Requests, Configure(r)
  PROVE  LoadsInv'
<1>1. /\ ready /\ Idle("main") /\ UNCHANGED <<ready, tlr>>
      /\ todo'["main"] = PwmConfigure(Timers \ Stopped, Valid(r))
  BY DEF Configure, CallPwmConfigure, Call, Begin, driver, TypeOK, Ctx
<1>2. CASE Valid(r)
  <2>1. /\ loads' = << Load(4, 0, Clocks(r.period)), Load(4, 1, Clocks(r.high)) >>
        /\ wave' = r
    BY <1>2 DEF Configure
  <2>2. Len(todo'["main"]) >= 4
    <3>1. Valid(r) = TRUE
      BY <1>2 DEF Valid
    <3> QED BY <1>1, <3>1, LongConfigure
  <2>3. wave' # NoWave
    <3>1. Clock \in Nat \ {0} /\ r.period \in Nat /\ r.period >= 2 * Clock
      BY <1>2, ClockAssumption, RequestsAssumption DEF Valid
    <3>2. r.period # 0
      BY <3>1
    <3> QED BY <2>1, <3>2 DEF NoWave
  <2>4. Asked(0)' = Clocks(r.period) /\ Asked(1)' = Clocks(r.high)
    BY <2>1 DEF Asked
  <2>5. Configuring'
    BY <2>1, <2>2, <2>3, <2>4 DEF Configuring, NoWave
  <2> QED BY <1>1, <1>2, <2>1, <2>5 DEF LoadsInv, Valid
<1>3. CASE ~Valid(r)
  BY <1>1, <1>3, CarriedOn DEF Configure
<1> QED BY <1>2, <1>3

LEMMA WriteCarries ==
  ASSUME LoadsInv, WriteLoad
  PROVE  LoadsInv'
<1>1. /\ UNCHANGED <<vars, wave>> /\ loads # << >> /\ Head(loads).left = Len(todo["main"])
      /\ tlr' = [tlr EXCEPT ![Head(loads).t] = Head(loads).v] /\ loads' = Tail(loads)
  BY DEF WriteLoad, LoadIsNext
<1>2. /\ UNCHANGED <<todo, ready, wave>> /\ DOMAIN tlr = Timers /\ DOMAIN tlr' = Timers
      /\ Timers = {0, 1}
  BY <1>1 DEF vars, LoadsInv, Timers
<1>3. \A t \in Timers : Asked(t)' = Asked(t)
  BY <1>2 DEF Asked
<1>4. CASE Configuring
  <2>1. CASE loads = << Load(4, 0, Asked(0)), Load(4, 1, Asked(1)) >>
    <3>1. /\ Head(loads) = Load(4, 0, Asked(0))
          /\ Tail(loads) = << Load(4, 1, Asked(1)) >>
      BY <2>1
    <3>2. tlr'[0] = Asked(0)
      BY <1>1, <1>2, <3>1 DEF Load
    <3>3. loads' = << Load(4, 1, Asked(1)) >>
      BY <1>1, <3>1
    <3>4. Configuring'
      BY <1>2, <1>3, <1>4, <3>2, <3>3 DEF Configuring, NoWave
    <3> QED BY <1>1, <1>2, <1>4, <3>3, <3>4 DEF LoadsInv, Configuring, Valid
  <2>2. CASE tlr[0] = Asked(0) /\ loads = << Load(4, 1, Asked(1)) >>
    <3>1. Head(loads) = Load(4, 1, Asked(1)) /\ Tail(loads) = << >>
      BY <2>2
    <3>2. tlr'[0] = Asked(0) /\ tlr'[1] = Asked(1)
      BY <1>1, <1>2, <2>2, <3>1 DEF Load
    <3>3. Carried'
      BY <1>1, <1>2, <1>3, <3>1, <3>2 DEF Carried
    <3> QED BY <1>1, <1>2, <3>1, <3>3, <1>4 DEF LoadsInv, Configuring, Valid
  <2> QED BY <1>4, <2>1, <2>2 DEF Configuring
<1>5. CASE Clearing
  <2>1. CASE loads = << Load(4, 0, 0), Load(2, 1, 0) >>
    <3>1. /\ Head(loads) = Load(4, 0, 0) /\ Tail(loads) = << Load(2, 1, 0) >>
      BY <2>1
    <3>2. Len(todo["main"]) = 4
      <4>1. Load(4, 0, 0).left = 4
        BY DEF Load
      <4> QED BY <1>1, <3>1, <4>1
    <3>3. Clearing'
      BY <1>1, <1>2, <1>5, <3>1, <3>2 DEF Clearing, NoWave
    <3> QED BY <1>2, <1>5, <2>1, <3>3 DEF LoadsInv, Clearing
  <2>2. ASSUME NEW n, NEW t, loads = << Load(n, t, 0) >>
        PROVE  LoadsInv'
    <3>1. Tail(loads) = << >>
      BY <2>2
    <3>2. Carried'
      BY <1>1, <1>2, <1>5, <3>1 DEF Carried, Clearing, NoWave
    <3> QED BY <1>1, <1>2, <1>5, <3>1, <3>2 DEF LoadsInv, Clearing
  <2> QED BY <1>5, <2>1, <2>2 DEF Clearing
<1> QED BY <1>1, <1>4, <1>5 DEF LoadsInv, Carried

LEMMA OthersCarry ==
  ASSUME IInv, LoadsInv, UNCHANGED <<tlr, loads, wave>>,
         Others \/ \E t \in Timers : SetOptionsOf(t)
  PROVE  LoadsInv'
<1>1. CASE CallPwmSwitch \/ \E t \in Timers : CallInPlace(t) \/ SetOptionsOf(t)
  <2>1. Idle("main") /\ UNCHANGED ready
    BY <1>1 DEF CallPwmSwitch, CallInPlace, SetOptionsOf, CallSetOptions, Call, Begin, driver
  <2> QED BY <2>1, CarriedOn
<1>2. CASE \E t \in Timers : Expire(t)
  <2>1. UNCHANGED <<ready, todo>>
    BY <1>2 DEF Expire, driver
  <2> QED BY <2>1 DEF LoadsInv, Carried, Configuring, Clearing, Asked, Valid
<1> QED BY <1>1, <1>2 DEF Others

LEMMA StepCarries ==
  ASSUME IInv, LoadsInv, StepOfCall
  PROVE  LoadsInv'
<1>1. /\ TypeOK /\ UNCHANGED <<tlr, loads, wave>> /\ ~LoadIsNext
      /\ UNCHANGED ready /\ ~Idle("main") /\ todo'["main"] = Tail(todo["main"])
  BY DEF IInv, StepOfCall, Exec, DoRead, DoWrite, DoStore, DoStarted, DoPwm, AtHead, Pop, driver,
     TypeOK, Ctx
<1>2. Len(todo["main"]) \in Nat /\ Len(todo'["main"]) = Len(todo["main"]) - 1
  <2>1. todo["main"] \in Seq(Steps) /\ todo["main"] # << >>
    BY <1>1 DEF TypeOK, Idle, Ctx
  <2> QED BY <1>1, <2>1, TailFacts
<1>3. Asked(0)' = Asked(0) /\ Asked(1)' = Asked(1) /\ \A t \in Timers : Asked(t)' = Asked(t)
  BY <1>1 DEF Asked
<1>4. CASE Carried
  BY <1>1, <1>3, <1>4 DEF LoadsInv, Carried, Valid
<1>5. CASE Configuring
  <2>1. loads # << >> /\ Head(loads).left = 4
    BY <1>5 DEF Configuring, Load
  <2>2. Len(todo'["main"]) >= 4
    BY <1>1, <1>2, <1>5, <2>1 DEF LoadIsNext, Configuring
  <2>3. Configuring'
    BY <1>1, <1>3, <1>5, <2>2 DEF Configuring, NoWave
  <2> QED BY <1>1, <2>3 DEF LoadsInv, Valid
<1>6. CASE Clearing
  <2>1. ASSUME NEW n \in {2, 4}, Len(todo["main"]) >= n, loads # << >>, Head(loads).left = n
        PROVE  Len(todo'["main"]) >= n
    BY <1>1, <1>2, <2>1 DEF LoadIsNext
  <2>2. CASE loads = << Load(4, 0, 0), Load(2, 1, 0) >> /\ Len(todo["main"]) >= 4
    <3>1. loads # << >> /\ Head(loads).left = 4
      BY <2>2 DEF Load
    <3>2. Clearing'
      BY <1>1, <1>6, <2>1, <2>2, <3>1 DEF Clearing, NoWave
    <3> QED BY <1>1, <3>2 DEF LoadsInv, Valid
  <2>3. ASSUME NEW n \in {2, 4}, NEW t \in Timers, loads = << Load(n, t, 0) >>,
               Len(todo["main"]) >= n
        PROVE  LoadsInv'
    <3>1. loads # << >> /\ Head(loads).left = n
      BY <2>3 DEF Load
    <3>2. Clearing'
      BY <1>1, <1>6, <2>1, <2>3, <3>1 DEF Clearing, NoWave
    <3> QED BY <1>1, <3>2 DEF LoadsInv, Valid
  <2> QED BY <1>6, <2>2, <2>3 DEF Clearing
<1> QED BY <1>4, <1>5, <1>6 DEF LoadsInv

LEMMA LoadsInitially == LoadsInit => LoadsInv
BY DEF LoadsInit, LoadsInv, Carried, NoWave

LEMMA LoadsStep ==
  ASSUME IInv, LoadsInv, [LoadsNext]_<<vars, loadVars>>
  PROVE  LoadsInv'
<1>1. ASSUME NEW t \in Timers, NEW v, SetResetValue(t, v)
      PROVE  LoadsInv'
  <2>1. /\ Idle("main") /\ UNCHANGED <<ready, loads>> /\ wave' = NoWave
        /\ tlr' = [tlr EXCEPT ![t] = v]
    BY <1>1 DEF SetResetValue, Begin, driver
  <2>2. loads = << >>
    BY <2>1, IdleCarries DEF Carried
  <2> QED BY <2>1, <2>2 DEF LoadsInv, Carried, NoWave
<1>2. CASE RestartLoads
  BY <1>2 DEF RestartLoads, Restart, LoadsInv, Carried, NoWave
<1>3. CASE UNCHANGED <<vars, loadVars>>
  BY <1>3 DEF vars, loadVars, LoadsInv, Carried, Configuring, Clearing, Asked, Valid
<1>4. TypeOK
  BY DEF IInv
<1> QED
  BY <1>1, <1>2, <1>3, <1>4, InitializeClears, TestClears, ConfigureWrites, WriteCarries,
     OthersCarry, StepCarries
  DEF LoadsNext, Others, SetOptionsOf, loadVars


-----------------------------------------------------------------------------
(* The clocks that are loaded come near the time.                          *)

LEMMA Dividing ==
  ASSUME NEW a \in Nat, NEW b \in Nat \ {0}
  PROVE  a \div b \in Nat /\ b * (a \div b) <= a /\ a < b * (a \div b) + b
OBVIOUS

LEMMA Remaining ==
  ASSUME NEW a \in Nat, NEW b \in Nat \ {0}, a < b
  PROVE  a % b = a
OBVIOUS

\* Half a clock is added before the division, and what is left of the word after
\* it and after the subtraction of the two clocks is everything.
LEMMA ClocksAreNear ==
  ASSUME NEW time \in 0 .. Word - 1, time >= 2 * Clock, time + Clock \div 2 < Word
  PROVE  Near(time, Clocks(time))
<1> DEFINE half == Clock \div 2
           sum == time + half
           q == sum \div Clock
<1>1. Word \in Nat /\ Clock \in Nat \ {0} /\ time \in Nat
  BY ClockAssumption
<1>2. half \in Nat /\ 2 * half <= Clock /\ Clock < 2 * half + 2
  BY <1>1, Dividing
<1> HIDE DEF half
<1>3. sum \in Nat /\ sum < Word /\ 2 * Clock <= sum
  BY <1>1, <1>2 DEF half
<1>4. sum % Word = sum
  BY <1>1, <1>3, Remaining
<1> HIDE DEF sum
<1>5. q \in Nat /\ Clock * q <= sum /\ sum < Clock * q + Clock
  BY <1>1, <1>3, Dividing
<1>6. q >= 2 /\ q < Word
  BY <1>1, <1>3, <1>5
<1>7. Clocks(time) = q - 2
  <2>1. RoundDiv(time, Clock) = q
    BY <1>4 DEF RoundDiv, sum, half
  <2> HIDE DEF q
  <2>2. q - 2 \in Nat /\ q - 2 < Word
    BY <1>1, <1>5, <1>6
  <2>3. (q - 2) % Word = q - 2
    BY <1>1, <2>2, Remaining
  <2> QED BY <2>1, <2>3 DEF Clocks
<1> HIDE DEF q
<1>8. Clock * q \in Nat /\ (q - 2) + 2 = q
  BY <1>1, <1>5
<1>9. time - half <= Clock * q /\ Clock * q <= time + half
  BY <1>1, <1>2, <1>5, <1>8 DEF sum
<1>10. Clock * q \in time - half .. time + half
  BY <1>1, <1>2, <1>8, <1>9
<1> QED BY <1>7, <1>8, <1>10 DEF Near, half

LEMMA LoadsInvariance == LoadsSpec => []LoadsInv
<1>1. IInv /\ LoadsInv /\ [LoadsNext]_<<vars, loadVars>> => LoadsInv'
  BY LoadsStep
<1> QED
  BY <1>1, LoadsInitially, LoadsTypes, PTL DEF LoadsSpec

\* Between two calls, while PWM is enabled, both load registers hold the wave
\* that was asked for last, to half a clock: through refused requests, calls on
\* the single timers, disabling and enabling again, and a kill of the program
\* between the two writes.
THEOREM WaveComesOut == LoadsSpec => []WaveAsAsked
<1>1. ASSUME LoadsInv
      PROVE  WaveAsAsked
  <2> SUFFICES ASSUME Idle("main"), wave # NoWave, wave.period + Clock \div 2 < Word
               PROVE  Near(wave.period, tlr[0]) /\ Near(wave.high, tlr[1])
    BY DEF WaveAsAsked
  <2>1. tlr[0] = Clocks(wave.period) /\ tlr[1] = Clocks(wave.high)
    BY <1>1, IdleCarries DEF Carried, Asked, Timers
  <2>2. /\ wave.period \in 0 .. Word - 1 /\ wave.high \in 0 .. Word - 1 /\ Valid(wave)
    BY <1>1, RequestsAssumption DEF LoadsInv
  <2>3. Word \in Nat /\ Clock \div 2 \in Nat
    BY ClockAssumption, Dividing
  <2>4. wave.high + Clock \div 2 < Word
    BY <2>2, <2>3 DEF Valid
  <2> QED BY <2>1, <2>2, <2>4, ClocksAreNear DEF Valid
<1> QED
  BY <1>1, LoadsInvariance, PTL

===================================
