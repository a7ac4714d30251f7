------------------------- MODULE FrameStreamProofs -------------------------
(***************************************************************************)
(* Theorems about streaming2(), for frames of any height and a counter of  *)
(* any width: nothing leaks, and the stream implements FrameFeed.          *)
(***************************************************************************)
EXTENDS FrameStream, TLAPS

\* What the function owns at each place, before it starts to release.
OwnedAt ==
  [malloc |-> {}, shm_open |-> {"buffer"}, ftruncate |-> {"buffer", "shm_fd"},
   mmap |-> {"buffer", "shm_fd"}, open |-> {"buffer", "shm_fd", "map"},
   kbhit |-> Resources, pread |-> Resources, unpack |-> Resources,
   signal |-> Resources]

OwnedInv == pc \in DOMAIN OwnedAt => owned = OwnedAt[pc]

\* The buffer holds the frame being read up to total, and the shared memory
\* the frame being unpacked up to row.
FrameInv ==
  /\ pc \in {"pread", "unpack", "signal"} => signal.f < frame
  /\ signal.f <= frame
  /\ pc = "pread" => total < Height /\ \A i \in Rows : i < total => input[i] = frame
  /\ pc = "unpack" => /\ row < Height
                      /\ \A i \in Rows : input[i] = frame
                      /\ \A i \in Rows : i < row => out[i] = frame
  /\ pc = "signal" => \A i \in Rows : out[i] = frame

IInv == TypeOK /\ ReleasesExactly /\ OwnedInv /\ FrameInv

-----------------------------------------------------------------------------
LEMMA InitInv == Init => IInv
<1> SUFFICES ASSUME Init
             PROVE  IInv
  OBVIOUS
<1>1. TypeOK
  BY HeightAssumption, CounterAssumption DEF Init, TypeOK, PcValues, Resources, Rows
<1>2. ReleasesExactly /\ OwnedInv /\ FrameInv
  BY <1>1 DEF Init, TypeOK, ReleasesExactly, OwnedInv, OwnedAt, FrameInv
<1> QED
  BY <1>1, <1>2 DEF IInv

LEMMA AdvanceType ==
  ASSUME NEW n \in 0 .. CounterModulus - 1
  PROVE  Advance(n) \in 0 .. CounterModulus - 1
  BY CounterAssumption DEF Advance

\* What the function owns when it begins to release it.
LEMMA LeaveInv ==
  ASSUME NEW status \in {"SUCCESS", "FAILURE"},
         IInv, Leave(status), pc \in DOMAIN ReleaseAfter
  PROVE  /\ pc' = "release" /\ releasing' \in Seq(Resources)
         /\ owned' \in SUBSET Resources
         /\ result' \in {"none", "SUCCESS", "FAILURE"}
         /\ ReleasesExactly' /\ OwnedInv'
<1>1. pc \in {"malloc", "shm_open", "ftruncate", "mmap", "open", "pread", "kbhit"}
      /\ owned = OwnedAt[pc]
  BY DEF ReleaseAfter, IInv, OwnedInv, OwnedAt
<1>2. /\ releasing' \in Seq(Resources)
      /\ \A i, j \in DOMAIN releasing' : releasing'[i] = releasing'[j] => i = j
      /\ owned = { releasing'[i] : i \in DOMAIN releasing' }
  <2>1. CASE pc = "malloc"
    BY <1>1, <2>1 DEF Leave, ReleaseAfter, OwnedAt, Resources
  <2>2. CASE pc = "shm_open"
    BY <1>1, <2>2 DEF Leave, ReleaseAfter, OwnedAt, Resources
  <2>3. CASE pc \in {"ftruncate", "mmap"}
    BY <1>1, <2>3 DEF Leave, ReleaseAfter, OwnedAt, Resources
  <2>4. CASE pc = "open"
    BY <1>1, <2>4 DEF Leave, ReleaseAfter, OwnedAt, Resources
  <2>5. CASE pc = "pread"
    BY <1>1, <2>5 DEF Leave, ReleaseAfter, OwnedAt, Resources
  <2>6. CASE pc = "kbhit"
    BY <1>1, <2>6 DEF Leave, ReleaseAfter, OwnedAt, Resources
  <2> QED
    BY <1>1, <2>1, <2>2, <2>3, <2>4, <2>5, <2>6
<1>3. pc' = "release" /\ owned' = owned /\ result' = status
  BY DEF Leave
<1>4. owned \in SUBSET Resources
  BY DEF IInv, TypeOK
<1> QED
  BY <1>2, <1>3, <1>4 DEF ReleasesExactly, OwnedInv, OwnedAt

LEMMA AcquireInv ==
  ASSUME IInv, Malloc \/ ShmOpen \/ Ftruncate \/ Mmap \/ OpenDma
  PROVE  IInv'
<1>1. UNCHANGED <<data, shared, seen, pressed>>
  BY DEF Malloc, ShmOpen, Ftruncate, Mmap, OpenDma, Acquire
<1>2. pc \in {"malloc", "shm_open", "ftruncate", "mmap", "open"}
  BY DEF Malloc, ShmOpen, Ftruncate, Mmap, OpenDma, Acquire
<1>3. CASE Leave("FAILURE")
  <2>1. pc \in DOMAIN ReleaseAfter
    BY <1>2 DEF ReleaseAfter
  <2>2. /\ pc' = "release" /\ releasing' \in Seq(Resources)
        /\ owned' \in SUBSET Resources
        /\ result' \in {"none", "SUCCESS", "FAILURE"}
        /\ ReleasesExactly' /\ OwnedInv'
    BY <1>3, <2>1, LeaveInv
  <2>3. TypeOK'
    BY <1>1, <2>2 DEF IInv, TypeOK, PcValues, data, shared, seen
  <2>4. FrameInv'
    BY <1>1, <2>2 DEF IInv, FrameInv, data, shared
  <2> QED
    BY <2>2, <2>3, <2>4 DEF IInv
<1>4. CASE ~Leave("FAILURE")
  <2>1. /\ pc' \in {"shm_open", "ftruncate", "mmap", "open", "kbhit"}
        /\ owned' = OwnedAt[pc']
        /\ UNCHANGED <<releasing, result>>
    BY <1>2, <1>4 DEF IInv, OwnedInv, OwnedAt, Resources, Goto,
       Malloc, ShmOpen, Ftruncate, Mmap, OpenDma, Acquire
  <2>2. owned' \in SUBSET Resources
    BY <2>1 DEF OwnedAt, Resources
  <2>3. TypeOK'
    BY <1>1, <2>1, <2>2 DEF IInv, TypeOK, PcValues, data, shared, seen
  <2>4. FrameInv' /\ ReleasesExactly' /\ OwnedInv'
    BY <1>1, <2>1 DEF IInv, FrameInv, ReleasesExactly, OwnedInv, data, shared
  <2> QED
    BY <2>3, <2>4 DEF IInv
<1> QED
  BY <1>3, <1>4

LEMMA KbhitInv ==
  ASSUME IInv, Kbhit
  PROVE  IInv'
<1>1. UNCHANGED <<shared, seen, pressed, row, input>> /\ pc = "kbhit"
  BY DEF Kbhit, data
<1>2. CASE Leave("SUCCESS") /\ UNCHANGED data
  <2>1. /\ pc' = "release" /\ releasing' \in Seq(Resources)
        /\ owned' \in SUBSET Resources
        /\ result' \in {"none", "SUCCESS", "FAILURE"}
        /\ ReleasesExactly' /\ OwnedInv'
    BY <1>1, <1>2, LeaveInv DEF ReleaseAfter
  <2>2. TypeOK'
    BY <1>1, <1>2, <2>1 DEF IInv, TypeOK, PcValues, data, shared, seen
  <2>3. FrameInv'
    BY <1>1, <1>2, <2>1 DEF IInv, FrameInv, data, shared
  <2> QED
    BY <2>1, <2>2, <2>3 DEF IInv
<1>3. CASE Goto("pread") /\ total' = 0 /\ frame' = frame + 1
  <2>1. TypeOK'
    BY <1>1, <1>3, HeightAssumption
    DEF IInv, TypeOK, PcValues, shared, seen, Goto
  <2>2. ReleasesExactly' /\ OwnedInv'
    BY <1>1, <1>3 DEF IInv, ReleasesExactly, OwnedInv, OwnedAt, Goto
  <2>3. FrameInv'
    BY <1>1, <1>3, HeightAssumption DEF IInv, TypeOK, FrameInv, Rows, shared, Goto
  <2> QED
    BY <2>1, <2>2, <2>3 DEF IInv
<1> QED
  BY <1>2, <1>3 DEF Kbhit

LEMMA PreadInv ==
  ASSUME IInv, Pread
  PROVE  IInv'
<1>1. /\ UNCHANGED <<frame, shared, seen, pressed>>
      /\ pc = "pread" /\ total \in 0 .. Height /\ total < Height
      /\ Height \in Nat /\ owned = Resources /\ signal.f < frame
      /\ \A i \in Rows : i < total => input[i] = frame
  BY HeightAssumption DEF Pread, IInv, TypeOK, FrameInv, OwnedInv, OwnedAt
<1>2. ASSUME Leave("FAILURE"), UNCHANGED row, total' \in 0 .. Height,
             input' \in [Rows -> Nat]
      PROVE  IInv'
  <2>1. /\ pc' = "release" /\ releasing' \in Seq(Resources)
        /\ owned' \in SUBSET Resources
        /\ result' \in {"none", "SUCCESS", "FAILURE"}
        /\ ReleasesExactly' /\ OwnedInv'
    BY <1>1, <1>2, LeaveInv DEF ReleaseAfter
  <2>2. TypeOK'
    BY <1>1, <1>2, <2>1 DEF IInv, TypeOK, PcValues, shared, seen
  <2>3. FrameInv'
    BY <1>1, <1>2, <2>1 DEF IInv, FrameInv, shared
  <2> QED
    BY <2>1, <2>2, <2>3 DEF IInv
<1>3. ASSUME Goto("unpack"), row' = 0, total' = Height,
             input' \in [Rows -> Nat], \A i \in Rows : input'[i] = frame
      PROVE  IInv'
  <2>1. TypeOK'
    BY <1>1, <1>3 DEF IInv, TypeOK, PcValues, shared, seen, Goto
  <2>2. ReleasesExactly' /\ OwnedInv'
    BY <1>1, <1>3 DEF IInv, ReleasesExactly, OwnedInv, OwnedAt, Goto
  <2>3. FrameInv'
    BY <1>1, <1>3, HeightAssumption DEF IInv, FrameInv, Rows, shared, Goto
  <2> QED
    BY <2>1, <2>2, <2>3 DEF IInv
<1>4. ASSUME NEW n \in 1 .. Height - total,
             total' = total + n,
             input' = [i \in Rows |->
                         IF i \in total .. total + n - 1 THEN frame ELSE input[i]],
             IF total + n = Height THEN EndRead(total + n)
                                   ELSE UNCHANGED <<control, row>>
      PROVE  IInv'
  <2>1. total' \in 0 .. Height
    BY <1>1, <1>4
  <2>2. input' \in [Rows -> Nat] /\ \A i \in Rows : i < total' => input'[i] = frame
    BY <1>1, <1>4 DEF IInv, TypeOK, Rows
  <2>3. CASE total + n = Height
    BY <1>3, <1>4, <2>2, <2>3 DEF EndRead, Complete, Rows
  <2>4. CASE total + n # Height
    <3>1. UNCHANGED <<control, row>> /\ total' < Height
      BY <1>1, <1>4, <2>4
    <3>2. TypeOK'
      BY <1>1, <2>1, <2>2, <3>1 DEF IInv, TypeOK, control, shared, seen
    <3>3. ReleasesExactly' /\ OwnedInv'
      BY <3>1 DEF IInv, ReleasesExactly, OwnedInv, control
    <3>4. FrameInv'
      BY <1>1, <2>2, <3>1 DEF IInv, FrameInv, control, shared
    <3> QED
      BY <3>2, <3>3, <3>4 DEF IInv
  <2> QED
    BY <2>3, <2>4
<1>5. CASE EndRead(total) /\ UNCHANGED <<total, input>>
  <2>1. Leave("FAILURE") /\ UNCHANGED row
    BY <1>1, <1>5 DEF EndRead, Complete
  <2> QED
    BY <1>1, <1>2, <1>5, <2>1 DEF IInv, TypeOK
<1>6. CASE Leave("FAILURE") /\ UNCHANGED <<total, row, input>>
  BY <1>1, <1>2, <1>6 DEF IInv, TypeOK
<1> QED
  BY <1>4, <1>5, <1>6 DEF Pread

LEMMA UnpackInv ==
  ASSUME IInv, UnpackRow
  PROVE  IInv'
<1>1. /\ UNCHANGED <<total, frame, input, signal, seen, pressed>>
      /\ pc = "unpack" /\ row \in 0 .. Height /\ row < Height /\ row' = row + 1
      /\ Height \in Nat /\ owned = Resources /\ signal.f < frame
      /\ UNCHANGED <<owned, releasing, result>>
      /\ pc' = IF row + 1 = Height THEN "signal" ELSE "unpack"
  BY HeightAssumption
  DEF UnpackRow, IInv, TypeOK, FrameInv, OwnedInv, OwnedAt, Goto, control
<1>2. /\ \A i \in Rows : input[i] = frame
      /\ out' = [out EXCEPT ![row] = frame]
      /\ out' \in [Rows -> Nat]
      /\ \A i \in Rows : i < row' => out'[i] = frame
  <2>1. \A i \in Rows : input[i] = frame
    BY <1>1 DEF IInv, FrameInv
  <2>2. row \in Rows /\ frame \in Nat /\ out \in [Rows -> Nat]
    BY <1>1 DEF IInv, TypeOK, Rows
  <2>3. out' = [out EXCEPT ![row] = frame]
    BY <2>1, <2>2 DEF UnpackRow
  <2>4. \A i \in Rows : i < row => out[i] = frame
    BY <1>1 DEF IInv, FrameInv
  <2>5. \A i \in Rows : i < row' => i < row \/ i = row
    BY <1>1 DEF Rows
  <2> QED
    BY <2>1, <2>2, <2>3, <2>4, <2>5
<1>3. TypeOK'
  BY <1>1, <1>2 DEF IInv, TypeOK, PcValues, seen
<1>4. ReleasesExactly' /\ OwnedInv'
  BY <1>1 DEF IInv, ReleasesExactly, OwnedInv, OwnedAt
<1>5. FrameInv'
  BY <1>1, <1>2 DEF IInv, FrameInv, Rows
<1> QED
  BY <1>3, <1>4, <1>5 DEF IInv

LEMMA SignalInv ==
  ASSUME IInv, Signal
  PROVE  IInv'
<1>1. /\ UNCHANGED <<data, out, seen, pressed>> /\ pc = "signal"
      /\ pc' = "kbhit" /\ UNCHANGED <<owned, releasing, result>>
      /\ signal' = [n |-> Advance(signal.n), f |-> frame]
  BY DEF Signal, Goto
<1>2. signal' \in [n : 0 .. CounterModulus - 1, f : Nat] /\ frame \in Nat
  BY <1>1, AdvanceType DEF IInv, TypeOK
<1>3. TypeOK'
  BY <1>1, <1>2 DEF IInv, TypeOK, PcValues, data, seen
<1>4. ReleasesExactly' /\ OwnedInv'
  BY <1>1 DEF IInv, ReleasesExactly, OwnedInv, OwnedAt
<1>5. FrameInv'
  BY <1>1, <1>2 DEF IInv, FrameInv, data
<1> QED
  BY <1>3, <1>4, <1>5 DEF IInv

LEMMA ReleaseInv ==
  ASSUME IInv, Release
  PROVE  IInv'
<1>1. UNCHANGED <<result, data, shared, seen, pressed>> /\ pc = "release"
  BY DEF Release
<1>2. CASE releasing = << >>
  <2>1. pc' = "returned" /\ UNCHANGED <<owned, releasing>> /\ owned = {}
    BY <1>1, <1>2 DEF Release, IInv, ReleasesExactly
  <2>2. TypeOK' /\ FrameInv'
    BY <1>1, <2>1 DEF IInv, TypeOK, PcValues, FrameInv, data, shared, seen
  <2>3. ReleasesExactly' /\ OwnedInv'
    BY <2>1 DEF ReleasesExactly, OwnedInv, OwnedAt
  <2> QED
    BY <2>2, <2>3 DEF IInv
<1>3. CASE releasing # << >>
  <2>1. /\ owned' = owned \ {Head(releasing)}
        /\ releasing' = Tail(releasing) /\ UNCHANGED pc
        /\ releasing \in Seq(Resources)
    BY <1>1, <1>3 DEF Release, IInv, TypeOK
  <2>2. /\ releasing' \in Seq(Resources)
        /\ DOMAIN releasing = 1 .. Len(releasing)
        /\ DOMAIN releasing' = 1 .. Len(releasing) - 1
        /\ Len(releasing) \in Nat \ {0}
        /\ \A i \in DOMAIN releasing' : releasing'[i] = releasing[i + 1]
        /\ Head(releasing) = releasing[1]
    BY <1>3, <2>1
  <2>3. ReleasesExactly'
    <3>1. \A i, j \in DOMAIN releasing : releasing[i] = releasing[j] => i = j
      BY <1>1 DEF IInv, ReleasesExactly
    <3>2. \A i, j \in DOMAIN releasing' : releasing'[i] = releasing'[j] => i = j
      BY <2>2, <3>1
    <3>3. owned = { releasing[i] : i \in DOMAIN releasing }
      BY <1>1 DEF IInv, ReleasesExactly
    <3>4. ASSUME NEW x \in owned'
          PROVE  \E i \in DOMAIN releasing' : x = releasing'[i]
      <4>1. PICK k \in DOMAIN releasing : x = releasing[k]
        BY <2>1, <3>3, <3>4
      <4>2. k # 1
        BY <2>1, <2>2, <3>4, <4>1
      <4>3. k - 1 \in DOMAIN releasing' /\ (k - 1) + 1 = k
        BY <2>2, <4>1, <4>2
      <4> QED
        BY <2>2, <4>1, <4>3
    <3>5. ASSUME NEW i \in DOMAIN releasing'
          PROVE  releasing'[i] \in owned'
      <4>1. i + 1 \in DOMAIN releasing /\ 1 \in DOMAIN releasing /\ i + 1 # 1
        BY <2>2, <3>5
      <4>2. releasing[i + 1] # releasing[1]
        BY <3>1, <4>1
      <4> QED
        BY <2>1, <2>2, <3>3, <4>1, <4>2
    <3>6. owned' = { releasing'[i] : i \in DOMAIN releasing' }
      BY <3>4, <3>5
    <3> QED
      BY <1>1, <2>1, <3>2, <3>6 DEF ReleasesExactly
  <2>4. TypeOK' /\ FrameInv' /\ OwnedInv'
    BY <1>1, <2>1, <2>2
    DEF IInv, TypeOK, FrameInv, OwnedInv, OwnedAt, data, shared, seen
  <2> QED
    BY <2>3, <2>4 DEF IInv
<1> QED
  BY <1>2, <1>3

\* The steps of the environment.
LEMMA EnvironmentInv ==
  ASSUME IInv,
         \/ Press \/ Restart \/ SignalVisible \/ UNCHANGED vars
         \/ \E r \in Rows : RowVisible(r)
  PROVE  IInv'
<1>1. CASE Restart
  <2>1. TypeOK'
    <3>1. 0 \in 0 .. Height
      BY HeightAssumption
    <3>2. /\ pc' \in PcValues /\ owned' = {} /\ releasing' = << >>
          /\ result' = "none" /\ pressed' = FALSE /\ input' \in [Rows -> Nat]
      BY <1>1 DEF Restart, PcValues
    <3>3. owned' \in SUBSET Resources /\ releasing' \in Seq(Resources)
          /\ total' \in 0 .. Height /\ row' \in 0 .. Height
      BY <1>1, <3>1 DEF Restart
    <3>4. UNCHANGED <<frame, out, signal, rowsSeen, signalSeen>>
      BY <1>1 DEF Restart, shared, seen
    <3> QED
      BY <3>2, <3>3, <3>4 DEF IInv, TypeOK
  <2>2. ReleasesExactly' /\ OwnedInv'
    BY <1>1 DEF Restart, ReleasesExactly, OwnedInv, OwnedAt
  <2>3. FrameInv'
    BY <1>1 DEF Restart, IInv, FrameInv, shared
  <2> QED
    BY <2>1, <2>2, <2>3 DEF IInv
<1>2. ASSUME UNCHANGED <<control, data, shared>>, pressed' \in BOOLEAN,
             rowsSeen' \in [Rows -> Nat],
             signalSeen' \in [n : 0 .. CounterModulus - 1, f : Nat]
      PROVE  IInv'
  <2>1. TypeOK'
    BY <1>2 DEF IInv, TypeOK, control, data, shared
  <2>2. ReleasesExactly' /\ OwnedInv' /\ FrameInv'
    BY <1>2 DEF IInv, ReleasesExactly, OwnedInv, FrameInv, control, data, shared
  <2> QED
    BY <2>1, <2>2 DEF IInv
<1>3. CASE Press
  BY <1>2, <1>3 DEF Press, IInv, TypeOK, seen
<1>4. CASE SignalVisible
  BY <1>2, <1>4 DEF SignalVisible, IInv, TypeOK
<1>5. ASSUME NEW r \in Rows, RowVisible(r)
      PROVE  IInv'
  BY <1>2, <1>5 DEF RowVisible, IInv, TypeOK
<1>6. CASE UNCHANGED vars
  BY <1>2, <1>6 DEF vars, IInv, TypeOK, seen
<1> QED
  BY <1>1, <1>3, <1>4, <1>5, <1>6

LEMMA StepInv == IInv /\ [Next]_vars => IInv'
  BY AcquireInv, KbhitInv, PreadInv, UnpackInv, SignalInv, ReleaseInv, EnvironmentInv
  DEF Next, Streaming2

-----------------------------------------------------------------------------
\* Whichever call fails, whenever the key is pressed and however often the
\* program is killed, what streaming2() still has to release on its way out is
\* exactly what it owns, and it returns owning nothing.
THEOREM ReleasesCorrect == Spec => []ReleasesExactly
<1>1. IInv => ReleasesExactly
  BY DEF IInv
<1> QED
  BY <1>1, InitInv, StepInv, PTL DEF Spec

\* Every variable keeps its type; the counter stays within its width.
THEOREM TypeCorrect == Spec => []TypeOK
<1>1. IInv => TypeOK
  BY DEF IInv
<1> QED
  BY <1>1, InitInv, StepInv, PTL DEF Spec

LEMMA FeedInit == Init => Feed!Init
  BY DEF Init, Feed!Init, Rows, Feed!Rows

LEMMA FeedStep == IInv /\ [Next]_vars => [Feed!Next]_Feed!vars
<1> SUFFICES ASSUME IInv, [Next]_vars
             PROVE  [Feed!Next]_Feed!vars
  OBVIOUS
<1>1. CASE UNCHANGED <<frame, shared>>
  BY <1>1 DEF shared, Feed!vars
<1>2. CASE Kbhit
  <2>1. UNCHANGED shared /\ (frame' = frame + 1 \/ UNCHANGED data)
    BY <1>2 DEF Kbhit
  <2>2. CASE frame' = frame + 1
    BY <2>1, <2>2 DEF Feed!Next, Feed!NextFrame, shared
  <2>3. CASE UNCHANGED data
    BY <1>1, <2>1, <2>3 DEF data
  <2> QED
    BY <2>1, <2>2, <2>3
<1>3. CASE UnpackRow
  <2>1. row \in Rows /\ input[row] = frame
    BY <1>3, HeightAssumption DEF UnpackRow, IInv, TypeOK, FrameInv, Rows
  <2>2. Feed!Draw(row)
    BY <1>3, <2>1 DEF UnpackRow, Feed!Draw
  <2> QED
    BY <2>1, <2>2 DEF Feed!Next, Rows, Feed!Rows
<1>4. CASE Signal
  <2>1. signal.f # frame /\ \A r \in Rows : out[r] = frame
    BY <1>4 DEF Signal, IInv, TypeOK, FrameInv
  <2>2. Feed!Announce
    BY <1>4, <2>1 DEF Signal, Advance, Feed!Announce, data, Rows, Feed!Rows
  <2> QED
    BY <2>2 DEF Feed!Next
<1>5. CASE Malloc \/ ShmOpen \/ Ftruncate \/ Mmap \/ OpenDma \/ Pread \/ Release
  BY <1>1, <1>5
  DEF Malloc, ShmOpen, Ftruncate, Mmap, OpenDma, Acquire, Pread, Release, data
<1>6. CASE \/ Press \/ Restart \/ SignalVisible \/ UNCHANGED vars
           \/ \E r \in Rows : RowVisible(r)
  BY <1>1, <1>6 DEF Press, Restart, SignalVisible, RowVisible, vars, data
<1> QED
  BY <1>2, <1>3, <1>4, <1>5, <1>6 DEF Next, Streaming2

\* streaming2() implements FrameFeed: in the order of its stores the counter is
\* only ever advanced over a whole new frame.
THEOREM FeedCorrect == Spec => FeedRefined
<1>1. Spec => []IInv
  BY InitInv, StepInv, PTL DEF Spec
<1> QED
  BY <1>1, FeedInit, FeedStep, PTL DEF Spec, FeedRefined, Feed!Spec
=============================================================================
