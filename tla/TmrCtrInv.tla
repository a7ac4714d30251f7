----------------------------- MODULE TmrCtrInv -----------------------------
(***************************************************************************)
(* The inductive invariants behind LoadReleased, EnabledIsStarted,         *)
(* OnlyStartEnables and HandlerKeepsModes.  What a call still has to do is *)
(* a queue of steps; the invariant says how steps follow each other in     *)
(* such a queue, and what the step at its head knows of the device.        *)
(***************************************************************************)
EXTENDS TmrCtr

\* Steps that set LOAD or leave it set, and steps that release it.
Loads(s) == \/ s.m \in {"write", "store"} /\ "LOAD" \in s.set
            \/ s.m = "started"
Releases(s, t) == /\ s.m \in {"write", "store", "started"}
                  /\ s.t = t
                  /\ "LOAD" \notin s.set

\* A write that sets ENT, and one that leaves ENT as it was in the copy.
Starting(s) == s.m = "write" /\ "ENT" \in s.set
Plain(s) == s.m = "write" /\ "ENT" \notin s.set \cup s.clr

Clears(s) == s.m = "store" /\ s.set = {}
StoresEnt(s) == s.m = "store" /\ "ENT" \in s.set

\* b may come right after a.
Follows(a, b) ==
  /\ b.m \in {"write", "started", "stopped", "test", "ack"} => b.t = a.t
  /\ b.m = "stopped" => a.m = "write" /\ "ENT" \in a.clr
  /\ Starting(b) => a.m = "started"
  /\ Plain(b) => a.m = "read" \/ Plain(a)
  /\ b.m = "ack" => a.m = "read"
  /\ Loads(a) => Releases(b, a.t)

Shape(q) ==
  /\ \A i \in 1 .. Len(q) - 1 : Follows(q[i], q[i + 1])
  /\ q # << >> => ~Loads(q[Len(q)])

\* Unconditional clearing writes come only among unconditional writes, and a
\* timer enabled by one is cleared by a later one (XTmrCtr_SelfTest).
ClearShape(q) ==
  /\ \A i \in 1 .. Len(q) : Clears(q[i]) => \A j \in 1 .. i : q[j].m = "store"
  /\ \A i \in 1 .. Len(q) :
       StoresEnt(q[i]) => \E j \in i + 1 .. Len(q) : q[j] = Store(q[i].t, {})
ClearFree(q) == \A i \in 1 .. Len(q) : ~Clears(q[i]) /\ ~StoresEnt(q[i])

\* Steps of an interrupt that leave the flags, and a stopped timer, alone.
Meek(s) == s.m \in {"read", "write", "test", "ack"} /\ ~Starting(s)
AllMeek(q) == \A i \in 1 .. Len(q) : Meek(q[i])

QueueInv ==
  /\ \A c \in Ctx : Shape(todo[c])
  /\ ClearShape(todo["main"])
  /\ ClearFree(todo["isr"])

ContextInv ==
  /\ ~ready => /\ \A t \in Timers : ~started[t]
               /\ \A c \in Ctx : Idle(c)
  /\ Masked /\ ~Idle("isr") => Idle("main")
  /\ ~Idle("isr") /\ ~Idle("main") => AllMeek(todo["isr"])

HeadReleases(c, t) == ~Idle(c) /\ Releases(Head(todo[c]), t)
MainReleases(t) == ClearPending(t) \/ HeadReleases("main", t)

LoadInv ==
  /\ "LOAD" \notin reg["main"]
  /\ ~Idle("isr") /\ Head(todo["isr"]).m # "read" /\ "LOAD" \in reg["isr"] =>
       MainReleases(Head(todo["isr"]).t)
  /\ ready => \A t \in Timers :
       "LOAD" \in tcsr[t] => MainReleases(t) \/ HeadReleases("isr", t)

EntInv ==
  /\ EnabledIsStarted
  /\ \A c \in Ctx : ~Idle(c) =>
       LET h == Head(todo[c]) IN
       /\ Starting(h) => started[h.t]
       /\ h.m = "stopped" => "ENT" \notin tcsr[h.t]
       /\ (Plain(h) \/ h.m = "ack") /\ "ENT" \in reg[c] =>
            /\ c = "isr" \/ Masked => "ENT" \in tcsr[h.t]
            /\ c = "main" => started[h.t]

IInv == TypeOK /\ QueueInv /\ ContextInv /\ LoadInv /\ EntInv

\* Steps that change no mode bit unless by a copy of TCSR, and queues in which
\* a copy is of the very timer it is used for.
Gentle(s) == /\ s.m \in {"read", "write", "stopped", "test", "ack"}
             /\ s.set \subseteq {"LOAD", "INT"} /\ s.clr \subseteq {"ENT"}
UsesCopy(s) == s.m \in {"write", "ack"}
Copied(a, b) == UsesCopy(b) => a.m \in {"read", "write"} /\ a.t = b.t

GentleQueue(q) == /\ \A i \in 1 .. Len(q) : Gentle(q[i])
                  /\ \A i \in 1 .. Len(q) - 1 : Copied(q[i], q[i + 1])

\* The handler's copy of TCSR has the mode bits of the timer it is used for: the
\* main program is preempted, and an expiry is no mode.
CopyInv ==
  handler # "Start" /\ ~Idle("isr") =>
    /\ GentleQueue(todo["isr"])
    /\ UsesCopy(Head(todo["isr"])) => Modes(reg["isr"]) = Modes(tcsr[Head(todo["isr"]).t])
=============================================================================
