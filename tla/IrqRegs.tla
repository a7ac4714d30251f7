------------------------------- MODULE IrqRegs -------------------------------
(***************************************************************************)
(* The interrupt registers of the general purpose I/O, the BRAM            *)
(* controller, the system monitor and the test pattern generator, with the *)
(* functions of their drivers and the interrupt handler of the generator.  *)
(*                                                                         *)
(* A bit of the status register is set by an event and toggled by a write  *)
(* of 1.  Every bus access is a step; events come between any two, and the *)
(* handler between any two steps of the application.  The application      *)
(* either polls, from one thread, or leaves the status to the handler,     *)
(* which only the generator's driver has.                                  *)
(*                                                                         *)
(* Where there are two operators, the first is the code with a mistake.    *)
(***************************************************************************)
EXTENDS Integers

CONSTANT NumSources   \* interrupt sources of the device

ASSUME NumSourcesAssumption == NumSources \in Nat \ {0}

Sources == 1 .. NumSources   \* of the generator: 1 is DONE, 2 is READY

VARIABLES
  dev,        \* the device
  polled,     \* the application polls, the handler is not connected
  gie,        \* global interrupt enable
  ier,        \* interrupt enable register
  isr,        \* interrupt status register
  op,         \* the application's call that has read its register, or "none"
  arg,        \* its mask
  held,       \* what it has read
  told,       \* what the application knows to be pending
  taken,      \* the sources it has cleared and not yet served
  hpc,        \* the handler: "off", "status", "look" or "call"
  status,     \* the handler's local Status
  at,         \* the source the handler looks at
  callbacks,  \* the sources with a callback
  happened,   \* the sources with an event since their bit was cleared
  owed        \* the sources with an event since they were served, and with
              \* someone to serve them: a polling application or a callback

app     == <<op, arg, held, told, taken>>
handler == <<hpc, status, at>>
vars == <<dev, polled, gie, ier, isr, app, handler, callbacks, happened, owed>>

-----------------------------------------------------------------------------
\* A write to the status register toggles the bits that are 1 in what is
\* written; it is meant to forget the events of the sources in cleared.
Toggled(bits, w) == (bits \ w) \cup (w \ bits)

WriteStatus(w, cleared) ==
  /\ isr' = Toggled(isr, w)
  /\ happened' = happened \ cleared

\* What the clearing functions write, given what they read.
WrittenUnmasked(read, mask) == read
Written(read, mask) == read \cap mask

Running == hpc = "off" /\ op = "none"   \* the application may make a call

InterruptGlobalEnable ==
  /\ Running /\ dev # "bram"
  /\ gie' = TRUE
  /\ UNCHANGED <<dev, polled, ier, isr, app, handler, callbacks, happened, owed>>

InterruptGlobalDisable ==
  /\ Running /\ dev # "bram"
  /\ gie' = FALSE
  /\ UNCHANGED <<dev, polled, ier, isr, app, handler, callbacks, happened, owed>>

\* The reads of the functions that read, change and write.
InterruptEnable(mask) ==
  /\ Running
  /\ op' = "enable" /\ arg' = mask /\ held' = ier
  /\ UNCHANGED <<dev, polled, gie, ier, isr, told, taken, handler, callbacks, happened,
                 owed>>

InterruptDisable(mask) ==
  /\ Running
  /\ op' = "disable" /\ arg' = mask /\ held' = ier
  /\ UNCHANGED <<dev, polled, gie, ier, isr, told, taken, handler, callbacks, happened,
                 owed>>

InterruptClear(mask) ==
  /\ Running /\ polled /\ dev # "tpg"
  /\ op' = "clear" /\ arg' = mask /\ held' = isr
  /\ UNCHANGED <<dev, polled, gie, ier, isr, told, taken, handler, callbacks, happened,
                 owed>>

\* The writes.
WriteEnable ==
  /\ hpc = "off" /\ op = "enable"
  /\ ier' = held \cup arg /\ op' = "none"
  /\ UNCHANGED <<dev, polled, gie, isr, arg, held, told, taken, handler, callbacks,
                 happened, owed>>

WriteDisable ==
  /\ hpc = "off" /\ op = "disable"
  /\ ier' = held \ arg /\ op' = "none"
  /\ UNCHANGED <<dev, polled, gie, isr, arg, held, told, taken, handler, callbacks,
                 happened, owed>>

WriteClear ==
  /\ hpc = "off" /\ op = "clear"
  /\ WriteStatus(Written(held, arg), held \cap arg)
  /\ op' = "none" /\ taken' = taken \cup (held \cap arg)
  /\ UNCHANGED <<dev, polled, gie, ier, arg, held, told, handler, callbacks, owed>>

\* The application reads the generator's status before it clears it, as its
\* handler does; the other devices' clearing functions read it themselves.
InterruptGetStatus ==
  /\ Running /\ polled /\ dev = "tpg"
  /\ told' = isr
  /\ UNCHANGED <<dev, polled, gie, ier, isr, op, arg, held, taken, handler, callbacks,
                 happened, owed>>

\* XV_tpg_InterruptClear writes its mask without a read, so that a caller must
\* know the bits of the mask to be pending.
TpgInterruptClear(mask) ==
  /\ Running /\ polled /\ dev = "tpg" /\ mask \subseteq told
  /\ WriteStatus(mask, mask)
  /\ told' = told \ mask /\ taken' = taken \cup mask
  /\ UNCHANGED <<dev, polled, gie, ier, op, arg, held, handler, callbacks, owed>>

\* The polling application serves what it has cleared.
Serve ==
  /\ Running /\ taken # {}
  /\ owed' = owed \ taken /\ taken' = {}
  /\ UNCHANGED <<dev, polled, gie, ier, isr, op, arg, held, told, handler, callbacks,
                 happened>>

SetCallback(s) ==
  /\ Running /\ dev = "tpg" /\ ~gie
  /\ callbacks' = callbacks \cup {s}
  /\ UNCHANGED <<dev, polled, gie, ier, isr, app, handler, happened, owed>>

App ==
  \/ InterruptGlobalEnable \/ InterruptGlobalDisable
  \/ \E mask \in SUBSET Sources :
       \/ InterruptEnable(mask) \/ InterruptDisable(mask) \/ InterruptClear(mask)
       \/ TpgInterruptClear(mask)
  \/ WriteEnable \/ WriteDisable \/ WriteClear
  \/ InterruptGetStatus \/ Serve
  \/ \E s \in Sources : SetCallback(s)

-----------------------------------------------------------------------------
\* XVTpg_InterruptHandler: the processor enters it while the interrupt is
\* raised, and it reads the status once.
Raised == gie /\ isr \cap ier # {}

EnterHandler ==
  /\ hpc = "off" /\ ~polled /\ Raised
  /\ hpc' = "status"
  /\ UNCHANGED <<dev, polled, gie, ier, isr, app, status, at, callbacks, happened, owed>>

ReadStatus ==
  /\ hpc = "status"
  /\ hpc' = "look" /\ status' = isr /\ at' = 1
  /\ UNCHANGED <<dev, polled, gie, ier, isr, app, callbacks, happened, owed>>

\* Past the last source the handler returns.
AheadNever(s) == "look"
AheadElse(s)  == "off"
Ahead(s)      == IF s = NumSources THEN "off" ELSE "look"

\* The source is cleared before its callback is called.
TakeStatus ==
  /\ hpc = "look" /\ at \in status
  /\ hpc' = "call"
  /\ WriteStatus(status, {at})
  /\ UNCHANGED <<dev, polled, gie, ier, app, status, at, callbacks, owed>>
Take ==
  /\ hpc = "look" /\ at \in status
  /\ hpc' = "call"
  /\ WriteStatus({at}, {at})
  /\ UNCHANGED <<dev, polled, gie, ier, app, status, at, callbacks, owed>>

Skip ==
  /\ hpc = "look" /\ at \notin status
  /\ hpc' = Ahead(at) /\ at' = at + 1
  /\ UNCHANGED <<dev, polled, gie, ier, isr, app, status, callbacks, happened, owed>>

\* A source without a callback is passed over.
CallBack ==
  /\ hpc = "call"
  /\ hpc' = Ahead(at) /\ at' = at + 1
  /\ owed' = owed \ ({at} \cap callbacks)
  /\ UNCHANGED <<dev, polled, gie, ier, isr, app, status, callbacks, happened>>

Handler == EnterHandler \/ ReadStatus \/ Take \/ Skip \/ CallBack

\* An event of the device; the generator latches the enabled ones only.
Event(s) ==
  /\ dev = "tpg" => s \in ier
  /\ isr' = isr \cup {s} /\ happened' = happened \cup {s}
  /\ owed' = IF polled \/ s \in callbacks THEN owed \cup {s} ELSE owed
  /\ UNCHANGED <<dev, polled, gie, ier, app, handler, callbacks>>

-----------------------------------------------------------------------------
Init ==
  /\ dev \in {"gpio", "bram", "sysmon", "tpg"}
  /\ polled \in BOOLEAN /\ (dev # "tpg" => polled)
  /\ gie = FALSE /\ ier = {} /\ isr = {}
  /\ op = "none" /\ arg = {} /\ held = {} /\ told = {} /\ taken = {}
  /\ hpc = "off" /\ status = {} /\ at = 1
  /\ callbacks = {} /\ happened = {} /\ owed = {}

Next == App \/ Handler \/ \E s \in Sources : Event(s)

\* The handler runs when the interrupt is raised, and to its end.
Spec == Init /\ [][Next]_vars /\ WF_vars(Handler)

-----------------------------------------------------------------------------
TypeOK ==
  /\ dev \in {"gpio", "bram", "sysmon", "tpg"} /\ polled \in BOOLEAN /\ gie \in BOOLEAN
  /\ ier \subseteq Sources /\ isr \subseteq Sources
  /\ op \in {"none", "enable", "disable", "clear"}
  /\ arg \subseteq Sources /\ held \subseteq Sources
  /\ told \subseteq Sources /\ taken \subseteq Sources
  /\ hpc \in {"off", "status", "look", "call"} /\ status \subseteq Sources
  /\ at \in 1 .. NumSources + 1 /\ (hpc \in {"look", "call"} => at \in Sources)
  /\ callbacks \subseteq Sources /\ happened \subseteq Sources /\ owed \subseteq Sources

\* A source is pending exactly if it had an event since it was cleared: no
\* write to the toggling register (xgpio_intr.c:200 "only clear the interrupts
\* that are specified without affecting any others") drops a pending source or
\* raises one that had no event, whatever comes between the read and the write.
PendingExact == isr = happened

\* No event is lost: until its source is served, it is pending, or cleared by
\* someone who is about to serve it.  The generator's handler clears before it
\* calls back, so an event during the callback is pending again.
Taken == taken \cup (IF hpc = "call" THEN {at} ELSE {})
NoEventLost == owed \subseteq isr \cup Taken

\* While the interrupt of a source stays enabled, the handler serves each of its
\* events, however many come from the other source.
EventsServed ==
  \A s \in Sources :
    (~polled /\ s \in owed) ~> (s \notin owed \/ ~gie \/ s \notin ier)
=============================================================================
