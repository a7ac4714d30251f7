----------------------------- MODULE VideoModes -----------------------------
(***************************************************************************)
(* The search for a video mode (src/xlnx_libs/video_common/xvidc.c): four  *)
(* functions ask for the identifier of the mode with a given timing, the   *)
(* identifier is then used to fill in the description of a video stream.   *)
(*                                                                         *)
(* A search goes through the custom table, if one is registered, then      *)
(* bisects the part of the standard table with the interlaced or with the  *)
(* progressive modes, which is sorted by width, goes back to the first     *)
(* mode of that width and forward to the first that agrees in the rest.    *)
(* Every turn of a loop is a step: the loops have no bound of their own,   *)
(* and end only because the table is what it is.                           *)
(*                                                                         *)
(* Left out: the functions that return or print a string.                  *)
(***************************************************************************)
EXTENDS Integers, Sequences

CONSTANTS Table,          \* XVidC_VideoTimingModes
          ProgStart,      \* XVIDC_VM_PROG_START: the first progressive mode
          CustomTables,   \* tables the user may register
          Queries         \* what is asked: see QueriesAssumption

\* The fields of XVidC_VideoTiming, as positions in a tuple.
HActive == 1
HFrontPorch == 2
HSyncWidth == 3
HBackPorch == 4
HTotal == 5
VActive == 7
F0PVFrontPorch == 8
F0PVSyncWidth == 9
F0PVBackPorch == 10
F0PVTotal == 11
F1VFrontPorch == 12
F1VSyncWidth == 13
F1VBackPorch == 14
F1VTotal == 15
VSyncPolarity == 16
Timings == [1 .. 16 -> Nat]

\* The identifiers that are no index of the table.
NumSupported == Len(Table)
NotSupported == NumSupported + 3
Custom       == NumSupported + 4

\* Indices of the table start at 0.
Row(i)   == Table[i + 1]
Width(i) == Row(i).t[HActive]

\* The modes a search bisects.
Kind(intl) == IF intl THEN 0 .. ProgStart - 1 ELSE ProgStart .. NumSupported - 1

Functions == {"id", "extensive", "blanking", "rb"}

ASSUME TableAssumption ==
  /\ Table \in Seq([name : STRING, rate : Nat, rb : {0, 1}, t : Timings])
  /\ ProgStart \in 1 .. NumSupported - 1
  /\ \A intl \in BOOLEAN : \A i, j \in Kind(intl) : i < j => Width(i) <= Width(j)
  /\ Width(ProgStart - 1) # Width(ProgStart)

\* Only the interlaced modes have a second field, and the modes of the same size
\* and rate follow each other.
Alike(i, j) ==
  Row(i).rate = Row(j).rate /\ \A f \in {HActive, VActive} : Row(i).t[f] = Row(j).t[f]
ASSUME GroupsAssumption ==
  \A intl \in BOOLEAN : \A i \in Kind(intl) :
    /\ Row(i).t[F1VTotal] # 0 <=> intl
    /\ \A j \in Kind(intl) : Alike(i, j) => \A k \in i .. j : Alike(i, k)

U16 == 65536    \* the line counts are unsigned 16-bit numbers

\* The parts of a frame's, or of each field's, vertical blanking add up; the
\* frame that a mode is packed into has so few lines that 16 bits hold them.
SumsUp(t, intl) ==
  /\ t[F0PVTotal] = t[VActive] + t[F0PVFrontPorch] + t[F0PVSyncWidth] + t[F0PVBackPorch]
  /\ IF intl
     THEN t[F1VTotal] = t[VActive] + t[F1VFrontPorch] + t[F1VSyncWidth] + t[F1VBackPorch]
     ELSE \A f \in {F1VTotal, F1VFrontPorch, F1VSyncWidth, F1VBackPorch} : t[f] = 0
Consistent(t) ==
  SumsUp(t, t[F1VTotal] # 0) /\ 2 * (t[F0PVTotal] + t[F1VTotal]) < U16
ASSUME LinesAssumption == \A i \in 0 .. NumSupported - 1 : Consistent(Row(i).t)

\* Identifiers of a custom table may not conflict with reserved ones: this is
\* what XVidC_RegisterCustomTimingModes() asserts.
ASSUME CustomAssumption ==
  \A t \in CustomTables :
    t \in Seq([id : { n \in Nat : n > Custom }, rate : Nat, rb : {0, 1}, t : Timings])

QueryType == [fn : Functions, t : Timings, rate : Nat, intl : BOOLEAN, rb : 0 .. 2]
ASSUME QueriesAssumption == Queries \subseteq QueryType

NoQuery  == [fn |-> "none"]
NoStream == [format |-> "none"]

VARIABLES custom,       \* XVidC_CustomTimingModes, the empty sequence without one
          registered,   \* XVidC_CustomTimingModes # NULL
          pc,           \* where the search is
          query,        \* its arguments
          low, high, mid,
          result,       \* VmId, what it returns
          stream        \* the stream the result is used for

search == <<low, high, mid>>
table == <<custom, registered>>
vars == <<table, pc, query, search, result, stream>>

-----------------------------------------------------------------------------
(* What the functions are made of.  Where there are two operators, the     *)
(* first is the code with a mistake.                                       *)

\* XVidC_GetVideoModeData and XVidC_GetCustomVideoModeData: Known says that
\* the pointer is not NULL.
KnownToEnd(id) == id <= NumSupported
Known(id) == id < NumSupported \/ \E i \in DOMAIN custom : custom[i].id = id
FirstIn(s, P(_)) == CHOOSE i \in DOMAIN s : P(s[i]) /\ \A j \in 1 .. i - 1 : ~P(s[j])
VideoModeData(id) ==
  IF id < NumSupported THEN Row(id)
  ELSE LET Wanted(r) == r.id = id IN custom[FirstIn(custom, Wanted)]

\* XVidC_GetVideoFormat, XVidC_IsInterlaced
IsInterlaced(id) == VideoModeData(id).t[F1VTotal] # 0

\* The fields an extensive search compares besides size and rate.
ExtensiveFields(q) ==
  {HTotal, F0PVTotal, HFrontPorch, F0PVFrontPorch, HSyncWidth, F0PVSyncWidth, VSyncPolarity}
    \cup IF q.intl THEN {F1VTotal, F1VFrontPorch, F1VSyncWidth} ELSE {}

AgreesButForRate(q, r) == r.t[VActive] = q.t[VActive]
Agrees(q, r) ==
  /\ r.t[VActive] = q.t[VActive]
  /\ r.rate = q.rate
  /\ q.fn = "extensive" => \A f \in ExtensiveFields(q) : r.t[f] = q.t[f]

Matches(q, r) == r.t[HActive] = q.t[HActive] /\ Agrees(q, r)

\* The fields XVidC_GetVideoModeIdWBlanking compares.
BlankingFields ==
  {HActive, VActive, HTotal, F0PVTotal, HFrontPorch, HSyncWidth, HBackPorch,
   F0PVFrontPorch, F0PVSyncWidth, F0PVBackPorch}

\* XVidC_IsVtmRb: no mode has the kind 0, and none in the table the kind 2.
IsVtmRbAtMost(r, n) == r.rb <= n
IsVtmRb(r, n) == r.rb # 0 /\ r.rb = n

\* What a function makes of the identifier that the search returns.
Finish(q, id) ==
  CASE q.fn \in {"id", "extensive"} -> pc' = "returned" /\ result' = id
    [] q.fn = "blanking" ->
         /\ pc' = "returned"
         /\ result' = IF /\ Known(id)
                         /\ \A f \in BlankingFields : VideoModeData(id).t[f] = q.t[f]
                      THEN id ELSE NotSupported
    [] q.fn = "rb" -> IF Known(id) THEN pc' = "walk" /\ result' = id
                                   ELSE pc' = "returned" /\ result' = NotSupported

-----------------------------------------------------------------------------
\* XVidC_RegisterCustomTimingModes: it fails, and changes nothing, if there is
\* a table already.
Register(t) ==
  /\ pc = "idle" /\ ~registered
  /\ custom' = t /\ registered' = TRUE
  /\ UNCHANGED <<pc, query, search, result, stream>>

\* XVidC_UnregisterCustomTimingModes
Unregister ==
  /\ pc = "idle" /\ registered
  /\ custom' = <<>> /\ registered' = FALSE
  /\ UNCHANGED <<pc, query, search, result, stream>>

\* The begin of a search: the custom table, whatever the kind asked for.
InCustom(q) == \E i \in DOMAIN custom : Matches(q, custom[i])
CustomId(q) == LET Wanted(r) == Matches(q, r) IN custom[FirstIn(custom, Wanted)].id

Call(q) ==
  /\ pc = "idle"
  /\ query' = q
  /\ IF registered /\ InCustom(q)
     THEN Finish(q, CustomId(q)) /\ UNCHANGED search
     ELSE /\ pc' = "bisect"
          /\ low' = IF q.intl THEN 0 ELSE ProgStart
          /\ high' = (IF q.intl THEN ProgStart ELSE NumSupported) - 1
          /\ mid' = 0
          /\ UNCHANGED result
  /\ UNCHANGED <<table, stream>>

\* One turn of the loop that bisects, or its end.  Mid is 0 only in the
\* interlaced modes; the numbers are unsigned, so High may not become -1.
AtFirstNever(m) == FALSE
AtFirst(m) == m = 0
GoRightNot(m) == low' = m /\ UNCHANGED high
GoRight(m) == low' = m + 1 /\ UNCHANGED high

Bisect ==
  /\ pc = "bisect"
  /\ LET m == (low + high) \div 2 IN
     IF low > high
     THEN Finish(query, NotSupported) /\ UNCHANGED search
     ELSE /\ mid' = m
          /\ \/ /\ query.t[HActive] = Width(m)
                /\ pc' = "rewind" /\ UNCHANGED <<low, high, result>>
             \/ /\ query.t[HActive] < Width(m) /\ AtFirst(m)
                /\ Finish(query, NotSupported) /\ UNCHANGED <<low, high>>
             \/ /\ query.t[HActive] < Width(m) /\ ~AtFirst(m)
                /\ high' = m - 1 /\ UNCHANGED <<low, pc, result>>
             \/ /\ query.t[HActive] > Width(m)
                /\ GoRight(m) /\ UNCHANGED <<pc, result>>
  /\ UNCHANGED <<table, query, stream>>

\* Back to the first mode of this width, one step at a time.
CanRewindToOne(m) == m > 1 /\ Width(m - 1) = query.t[HActive]
CanRewind(m) == m > 0 /\ Width(m - 1) = query.t[HActive]

Rewind ==
  /\ pc = "rewind"
  /\ IF CanRewind(mid) THEN mid' = mid - 1 /\ UNCHANGED pc
                       ELSE pc' = "scan" /\ UNCHANGED mid
  /\ UNCHANGED <<table, query, low, high, result, stream>>

\* Forward through the modes of this width.  No bound: after the last mode of
\* the table the code reads behind it.
OtherWidthNever(m) == FALSE
OtherWidth(m) == Width(m) # query.t[HActive]

Scan ==
  /\ pc = "scan" /\ mid < NumSupported
  /\ IF OtherWidth(mid)
     THEN Finish(query, NotSupported) /\ UNCHANGED mid
     ELSE IF Agrees(query, Row(mid))
          THEN Finish(query, mid) /\ UNCHANGED mid
          ELSE mid' = mid + 1 /\ UNCHANGED <<pc, result>>
  /\ UNCHANGED <<table, query, low, high, stream>>

\* Whatever is behind the table: it ends the search, or is taken for a mode.
\* That the search ends here is a choice of the model: of memory that went on
\* to agree in the width alone the code would read ever more.
ScanBehindTable ==
  /\ pc = "scan" /\ mid = NumSupported
  /\ \E id \in {NotSupported, NumSupported} : Finish(query, id)
  /\ UNCHANGED <<table, query, search, stream>>

\* One turn of the loop of XVidC_GetVideoModeIdRb, which takes the next
\* identifier for the next mode.  A NULL pointer is used unchecked.
DiffersNotReread(id) == FALSE
Differs(id) ==
  LET r == VideoModeData(id) IN
  \/ r.t[VActive] # query.t[VActive] \/ r.t[HActive] # query.t[HActive]
  \/ r.rate # query.rate
  \/ query.intl /\ ~IsInterlaced(id)

Walk ==
  /\ pc = "walk"
  /\ IF ~Known(result)
     THEN pc' = "crashed" /\ UNCHANGED result
     ELSE IF Differs(result)
          THEN pc' = "returned" /\ result' = NotSupported
          ELSE IF IsVtmRb(VideoModeData(result), query.rb)
               THEN pc' = "returned" /\ UNCHANGED result
               ELSE result' = result + 1 /\ UNCHANGED pc
  /\ UNCHANGED <<table, query, search, stream>>

-----------------------------------------------------------------------------
\* What XVidC_SetVideoStream fills in, apart from the colours.
Stream2D(id) ==
  [id |-> id, t |-> VideoModeData(id).t, rate |-> VideoModeData(id).rate,
   intl |-> IsInterlaced(id), format |-> "2D"]

\* The timing with frame packing: the fields, or the left and the right
\* picture, are stacked in one progressive frame with the blanking between.
PackedShort(s) == [s.t EXCEPT ![VActive] = 2 * s.t[VActive], ![F0PVTotal] = 2 * s.t[F0PVTotal]]
Packed(s) ==
  LET blank0 == s.t[F0PVTotal] - s.t[VActive]
      blank1 == s.t[F1VTotal] - s.t[VActive]
  IN IF s.intl
     THEN [s.t EXCEPT ![VActive] = (4 * s.t[VActive] + blank0 + 2 * blank1) % U16,
                      ![F0PVTotal] = (2 * s.t[F0PVTotal] + 2 * s.t[F1VTotal]) % U16,
                      ![F1VFrontPorch] = 0, ![F1VSyncWidth] = 0,
                      ![F1VBackPorch] = 0, ![F1VTotal] = 0]
     ELSE [s.t EXCEPT ![VActive] = (2 * s.t[VActive] + blank0) % U16,
                      ![F0PVTotal] = (2 * s.t[F0PVTotal]) % U16]

SetVideoStream ==
  /\ pc = "returned" /\ Known(result)
  /\ stream' = Stream2D(result)
  /\ UNCHANGED <<table, pc, query, search, result>>

\* XVidC_Set3DVideoStream returns XST_FAILURE for every other format, with the
\* stream already filled in.
Set3DVideoStream(format) ==
  /\ pc = "returned" /\ Known(result)
  /\ LET s == Stream2D(result) IN
     stream' = [s EXCEPT !.format = format,
                         !.t = IF format = "frame packing" THEN Packed(s) ELSE @,
                         !.intl = @ /\ format # "frame packing"]
  /\ UNCHANGED <<table, pc, query, search, result>>

\* The caller is done with identifier and stream.
Leave ==
  /\ pc = "returned"
  /\ pc' = "idle" /\ query' = NoQuery /\ result' = NotSupported /\ stream' = NoStream
  /\ low' = 0 /\ high' = 0 /\ mid' = 0
  /\ UNCHANGED table

Init ==
  /\ custom = <<>> /\ registered = FALSE
  /\ pc = "idle" /\ query = NoQuery /\ result = NotSupported /\ stream = NoStream
  /\ low = 0 /\ high = 0 /\ mid = 0

Search == Bisect \/ Rewind \/ Scan \/ ScanBehindTable \/ Walk

Next ==
  \/ \E t \in CustomTables : Register(t)
  \/ Unregister
  \/ \E q \in Queries : Call(q)
  \/ Search
  \/ SetVideoStream
  \/ \E format \in {"frame packing", "side by side"} : Set3DVideoStream(format)
  \/ Leave

Spec == Init /\ [][Next]_vars

\* A called function runs.
LiveSpec == Spec /\ WF_vars(Search)

-----------------------------------------------------------------------------
(* Properties.                                                             *)

TypeOK ==
  /\ custom \in CustomTables \cup {<<>>} /\ registered \in BOOLEAN
  /\ pc \in {"idle", "bisect", "rewind", "scan", "walk", "returned", "crashed"}
  /\ query \in QueryType \cup {NoQuery}
  /\ low \in 0 .. NumSupported /\ high \in 0 .. NumSupported /\ mid \in 0 .. NumSupported
  /\ result \in Nat
  /\ pc \in {"bisect", "rewind", "scan", "walk"} => query # NoQuery

\* Without a custom mode that matches, XVidC_GetVideoModeId and ...IdExtensive
\* return the first mode of the kind asked for that matches, and no mode only
\* if there is none: the bisection, which looks at the width alone and stops
\* in the middle of a run of equal widths, loses no mode.  (What is behind the
\* table can only be taken for a mode where there is none.)
FirstMatch ==
  pc = "returned" /\ query.fn \in {"id", "extensive"} /\ ~InCustom(query) =>
    IF result < NumSupported
    THEN /\ result \in Kind(query.intl) /\ Matches(query, Row(result))
         /\ \A i \in Kind(query.intl) : i < result => ~Matches(query, Row(i))
    ELSE \A i \in Kind(query.intl) : ~Matches(query, Row(i))

\* The forward loop, which has no bound, leaves the table only when the widest
\* modes were asked for and none of them agrees in the rest.
BehindTableOnlyForWidest ==
  pc = "scan" /\ mid = NumSupported =>
    /\ query.t[HActive] = Width(NumSupported - 1)
    /\ \A i \in Kind(query.intl) : ~Matches(query, Row(i))

\* XVidC_GetVideoModeIdRb uses the NULL pointer only for a custom mode or for
\* the size and rate of the table's last mode: every other walk ends at a mode
\* that differs.
CrashOnlyAfterLast ==
  pc = "crashed" =>
    \/ InCustom(query)
    \/ /\ \A f \in {HActive, VActive} : Row(NumSupported - 1).t[f] = query.t[f]
       /\ Row(NumSupported - 1).rate = query.rate

\* The modes of the standard table that XVidC_GetVideoModeIdRb is asked for.
Wanted(q) ==
  { i \in Kind(q.intl) : /\ \A f \in {HActive, VActive} : Row(i).t[f] = q.t[f]
                         /\ Row(i).rate = q.rate /\ Row(i).rb = q.rb }

\* XVidC_GetVideoModeIdRb finds the mode with reduced blanking although it
\* looks only at the modes that follow the first of that size and rate.
ReducedBlankingFound ==
  pc = "returned" /\ query.fn = "rb" /\ query.rb = 1 /\ ~InCustom(query) =>
    IF Wanted(query) = {} THEN result = NotSupported ELSE result \in Wanted(query)

\* The timing of a stream that was set adds up, after frame packing too, if its
\* mode is one of the standard table or a custom one whose own timing does.
StreamConsistent ==
  stream # NoStream /\ Consistent(VideoModeData(stream.id).t) => SumsUp(stream.t, stream.intl)

\* Every search ends, although no loop counts: the bisection narrows, and the
\* runs of equal widths end at another width.  Of a search that went behind the
\* table this says nothing: the model ends it there.
SearchEnds == pc = "bisect" ~> pc \in {"returned", "crashed"}

-----------------------------------------------------------------------------
(* What comments say that is not so.                                       *)

\* xvidc.c:303 "returns the Video Mode ID that matches": the identifier that
\* is returned is the enumerator of the row that was found, for which Ids
\* gives the enumerators in their order.
IdNamesRow(Ids) ==
  pc = "returned" /\ result < NumSupported => Ids[result + 1] = Row(result).name

\* xvidc.c:612 "0 = No reduced blanking": the mode without is found.
FullBlankingFound ==
  pc = "returned" /\ query.fn = "rb" /\ query.rb = 0 /\ ~InCustom(query) =>
    (Wanted(query) # {} => result \in Wanted(query))
=============================================================================
