---------------------------- MODULE FrameStream ----------------------------
(***************************************************************************)
(* streaming2() of src/main.c: frames come from the card by DMA into a     *)
(* private buffer, are unpacked row by row into the shared memory          *)
(* /video_stream_shm, and a counter in that memory tells other processes   *)
(* that a new frame is there.  The unit of data is the row: a DMA read     *)
(* delivers any number of rows, and a row is the number of the frame it    *)
(* belongs to.                                                             *)
(*                                                                         *)
(* The program runs on ARM and orders none of its stores to the shared     *)
(* memory: another process sees each location follow the program at its    *)
(* own pace (rowsSeen, signalSeen).  The shared memory object is never     *)
(* unlinked nor cleared, so it outlives the program.                       *)
(***************************************************************************)
EXTENDS Naturals, Sequences

CONSTANTS Height,          \* rows of a frame, FRAME_HEIGHT
          CounterModulus,  \* the frame counter is a uint32_t: 2^32 in C
          MaxFrames        \* bound: no frame after this one is begun

ASSUME HeightAssumption  == Height \in Nat \ {0}
ASSUME CounterAssumption == CounterModulus \in Nat \ {0}

Rows == 0 .. Height - 1
Resources == {"buffer", "shm_fd", "map", "fd_read"}

VARIABLES
  pc,         \* where streaming2() is
  owned,      \* the resources it holds
  releasing,  \* the resources it still releases before it returns
  result,     \* its return value
  total,      \* total_read, in rows
  row,        \* the next row to unpack
  frame,      \* number of the frame being read
  input,      \* input_buffer: the frame each of its rows belongs to
  out,        \* the rows of the shared memory, as the program wrote them
  signal,     \* frame_counter (n), and the frame it announced last (f)
  rowsSeen,   \* the shared memory as another process sees it
  signalSeen,
  pressed     \* a key was pressed

control == <<pc, owned, releasing, result>>
data    == <<total, row, frame, input>>
shared  == <<out, signal>>
seen    == <<rowsSeen, signalSeen>>
vars    == <<control, data, shared, seen, pressed>>

-----------------------------------------------------------------------------
\* Which resources each way out of the function releases, in this order.  The
\* first operator of each pair is the code with a mistake.
ReleaseAfterLeak ==
  [malloc |-> << >>, shm_open |-> <<"buffer">>,
   ftruncate |-> <<"shm_fd", "buffer">>, mmap |-> <<"shm_fd", "buffer">>,
   open |-> <<"map", "shm_fd", "buffer">>,
   pread |-> <<"map", "shm_fd", "buffer">>,
   kbhit |-> <<"map", "shm_fd", "fd_read", "buffer">>]
ReleaseAfter ==
  [malloc |-> << >>, shm_open |-> <<"buffer">>,
   ftruncate |-> <<"shm_fd", "buffer">>, mmap |-> <<"shm_fd", "buffer">>,
   open |-> <<"map", "shm_fd", "buffer">>,
   pread |-> <<"map", "shm_fd", "buffer", "fd_read">>,
   kbhit |-> <<"map", "shm_fd", "fd_read", "buffer">>]

Leave(status) ==
  /\ pc' = "release"
  /\ releasing' = ReleaseAfter[pc]
  /\ result' = status
  /\ UNCHANGED owned

Goto(next) == pc' = next /\ UNCHANGED <<owned, releasing, result>>

\* A system call that provides a resource, or fails.
Acquire(at, resource, next) ==
  /\ pc = at
  /\ \/ /\ pc' = next
        /\ owned' = owned \cup {resource}
        /\ UNCHANGED <<releasing, result>>
     \/ Leave("FAILURE")
  /\ UNCHANGED <<data, shared, seen, pressed>>

Malloc  == Acquire("malloc", "buffer", "shm_open")
ShmOpen == Acquire("shm_open", "shm_fd", "ftruncate")
Mmap    == Acquire("mmap", "map", "open")
OpenDma == Acquire("open", "fd_read", "kbhit")

\* The object is created with, or already has, the size it is given here.
Ftruncate ==
  /\ pc = "ftruncate"
  /\ Goto("mmap") \/ Leave("FAILURE")
  /\ UNCHANGED <<data, shared, seen, pressed>>

KeyIgnored == FALSE
KeyPressed == pressed

\* while(!kbhit()): kbhit puts the key back, so it is seen again.
Kbhit ==
  /\ pc = "kbhit"
  /\ \/ KeyPressed /\ Leave("SUCCESS") /\ UNCHANGED data
     \/ /\ ~KeyPressed
        /\ frame < MaxFrames
        /\ Goto("pread")
        /\ total' = 0
        /\ frame' = frame + 1
        /\ UNCHANGED <<row, input>>
  /\ UNCHANGED <<shared, seen, pressed>>

\* The test after the read loop, which a read of 0 bytes leaves early.
CompleteUnchecked(n) == TRUE
Complete(n) == n = Height

EndRead(n) ==
  IF Complete(n) THEN Goto("unpack") /\ row' = 0
                 ELSE Leave("FAILURE") /\ UNCHANGED row

Pread ==
  /\ pc = "pread"
  /\ \/ \E n \in 1 .. Height - total :
          /\ total' = total + n
          /\ input' = [i \in Rows |->
                         IF i \in total .. total + n - 1 THEN frame ELSE input[i]]
          /\ IF total + n = Height THEN EndRead(total + n)
                                   ELSE UNCHANGED <<control, row>>
     \/ EndRead(total) /\ UNCHANGED <<total, input>>           \* it returned 0
     \/ Leave("FAILURE") /\ UNCHANGED <<total, row, input>>    \* it failed
  /\ UNCHANGED <<frame, shared, seen, pressed>>

UnpackRow ==
  /\ pc = "unpack"
  /\ out' = [out EXCEPT ![row] = input[row]]
  /\ row' = row + 1
  /\ IF row + 1 = Height THEN Goto("signal") ELSE UNCHANGED control
  /\ UNCHANGED <<total, frame, input, signal, seen, pressed>>

AdvanceWide(n) == n + 1
Advance(n) == (n + 1) % CounterModulus

\* (*frame_counter)++
Signal ==
  /\ pc = "signal"
  /\ signal' = [n |-> Advance(signal.n), f |-> frame]
  /\ Goto("kbhit")
  /\ UNCHANGED <<data, out, seen, pressed>>

Release ==
  /\ pc = "release"
  /\ IF releasing = << >>
     THEN pc' = "returned" /\ UNCHANGED <<owned, releasing>>
     ELSE /\ owned' = owned \ {Head(releasing)}
          /\ releasing' = Tail(releasing)
          /\ UNCHANGED pc
  /\ UNCHANGED <<result, data, shared, seen, pressed>>

-----------------------------------------------------------------------------
Init ==
  /\ pc = "malloc" /\ owned = {} /\ releasing = << >> /\ result = "none"
  /\ total = 0 /\ row = 0 /\ frame = 0
  /\ input = [r \in Rows |-> 0]
  /\ out = [r \in Rows |-> 0] /\ signal = [n |-> 0, f |-> 0]
  /\ rowsSeen = out /\ signalSeen = signal
  /\ pressed = FALSE

Press == /\ ~pressed /\ pressed' = TRUE
         /\ UNCHANGED <<control, data, shared, seen>>

\* A store of the program becomes visible to another process.
RowVisible(r) == /\ rowsSeen' = [rowsSeen EXCEPT ![r] = out[r]]
                 /\ UNCHANGED <<control, data, shared, signalSeen, pressed>>
SignalVisible == /\ signalSeen' = signal
                 /\ UNCHANGED <<control, data, shared, rowsSeen, pressed>>

\* The program ends, or is killed at any point, and is run again.  The kernel
\* takes back what it owned; the shared memory stays as it is.
Restart ==
  /\ pc' = "malloc" /\ owned' = {} /\ releasing' = << >> /\ result' = "none"
  /\ total' = 0 /\ row' = 0
  /\ input' = [r \in Rows |-> 0]
  /\ pressed' = FALSE
  /\ UNCHANGED <<frame, shared, seen>>

Streaming2 == \/ Malloc \/ ShmOpen \/ Ftruncate \/ Mmap \/ OpenDma
              \/ Kbhit \/ Pread \/ UnpackRow \/ Signal \/ Release

Next == \/ Streaming2 \/ Press \/ Restart
        \/ SignalVisible \/ \E r \in Rows : RowVisible(r)

Spec == Init /\ [][Next]_vars

\* The program runs on, and every DMA read returns in the end.
FairSpec == Spec /\ WF_vars(Streaming2)

-----------------------------------------------------------------------------
(* Properties.                                                             *)

PcValues == {"malloc", "shm_open", "ftruncate", "mmap", "open", "kbhit", "pread",
             "unpack", "signal", "release", "returned"}

TypeOK ==
  /\ pc \in PcValues
  /\ owned \in SUBSET Resources
  /\ releasing \in Seq(Resources)
  /\ result \in {"none", "SUCCESS", "FAILURE"}
  /\ total \in 0 .. Height
  /\ row \in 0 .. Height
  /\ frame \in Nat
  /\ input \in [Rows -> Nat]
  /\ out \in [Rows -> Nat] /\ rowsSeen \in [Rows -> Nat]
  /\ signal \in [n : 0 .. CounterModulus - 1, f : Nat]
  /\ signalSeen \in [n : 0 .. CounterModulus - 1, f : Nat]
  /\ pressed \in BOOLEAN

\* Whichever call fails, and whenever the key is pressed, streaming2() returns
\* with every resource released exactly once: what it still has to release is
\* what it owns, without repetition.
ReleasesExactly ==
  /\ pc = "release" =>
       /\ owned = { releasing[i] : i \in DOMAIN releasing }
       /\ \A i, j \in DOMAIN releasing : releasing[i] = releasing[j] => i = j
  /\ pc = "returned" => owned = {}

\* In the order of the program's stores the shared memory is a FrameFeed: the
\* counter advances, by one, only over a frame of which every row is there,
\* whatever the reads returned and even if earlier runs were killed half way.
Feed == INSTANCE FrameFeed
          WITH drawing <- frame, rows <- out,
               counter <- signal.n, announced <- signal.f
FeedRefined == Feed!Spec

\* A pressed key ends the stream.
KeyEnds == pressed ~> (pc = "returned" \/ ~pressed)

-----------------------------------------------------------------------------
\* "Signal new frame is ready" (main.c:260): a process that sees the counter
\* announce a frame sees the rows of that frame, or of one after it.
ReadyWhenSignalled == \A r \in Rows : rowsSeen[r] >= signalSeen.f
=============================================================================
