--------------------------- MODULE VideoModesProofs ---------------------------
(***************************************************************************)
(* The searches of VideoModes are right for every table whose two parts    *)
(* are sorted by width and do not meet at the same width, and for every    *)
(* custom table and every question: they return the first mode that        *)
(* matches, and leave the table only behind modes of the width asked for.  *)
(* If the modes of one size and rate follow each other, the walk finds the *)
(* one with reduced blanking; if the rows add up, so do the streams.       *)
(***************************************************************************)
EXTENDS VideoModes, SequenceTheorems, WellFoundedInduction, TLAPS

Searching == pc \in {"bisect", "rewind", "scan", "walk"}

\* The types the argument needs.
Types ==
  /\ pc \in {"idle", "bisect", "rewind", "scan", "walk", "returned", "crashed"}
  /\ Searching => query \in QueryType
  /\ pc = "walk" => query.fn = "rb"

\* The width asked for, and the ends of the part that is bisected.
Asked == query.t[HActive]
Lo == IF query.intl THEN 0 ELSE ProgStart
Hi == (IF query.intl THEN ProgStart ELSE NumSupported) - 1

\* Bisecting, no mode of the width asked for is outside low .. high.
Narrowing ==
  pc = "bisect" =>
    /\ low \in Int /\ high \in Int /\ Lo <= low /\ high <= Hi
    /\ \A i \in Kind(query.intl) : Width(i) = Asked => low <= i /\ i <= high

\* Going back, mid has that width.
Rewinding == pc = "rewind" => mid \in Kind(query.intl) /\ Width(mid) = Asked

\* Going forward, no mode before mid matches, and mid or the one before has the
\* width asked for.
Scanning ==
  pc = "scan" =>
    /\ mid \in Int
    /\ \/ mid \in Kind(query.intl) /\ Width(mid) = Asked
       \/ mid - 1 \in Kind(query.intl) /\ Width(mid - 1) = Asked
    /\ \A i \in Kind(query.intl) : i < mid => ~Matches(query, Row(i))

IInv == Types /\ Narrowing /\ Rewinding /\ Scanning /\ FirstMatch

-----------------------------------------------------------------------------
LEMMA Numbers ==
  /\ NumSupported \in Nat /\ NotSupported = NumSupported + 3
  /\ ProgStart \in Nat /\ 1 <= ProgStart /\ ProgStart <= NumSupported - 1
  /\ Width(ProgStart - 1) # Width(ProgStart)
  /\ \A i \in 0 .. NumSupported - 1 : Width(i) \in Nat
<1>1. Table \in Seq([name : STRING, rate : Nat, rb : {0, 1}, t : Timings])
  BY TableAssumption
<1>2. NumSupported \in Nat
  BY <1>1 DEF NumSupported
<1>3. ASSUME NEW i \in 0 .. NumSupported - 1 PROVE Width(i) \in Nat
  <2>1. i + 1 \in 1 .. Len(Table)
    BY <1>2 DEF NumSupported
  <2>2. Row(i) \in [name : STRING, rate : Nat, rb : {0, 1}, t : Timings]
    BY <1>1, <2>1, ElementOfSeq DEF Row
  <2>3. Row(i).t \in [1 .. 16 -> Nat]
    BY <2>2 DEF Timings
  <2> QED BY <2>3 DEF Width, HActive
<1> QED BY <1>2, <1>3, TableAssumption DEF NotSupported

LEMMA KindIs ==
  ASSUME NEW intl \in BOOLEAN
  PROVE  /\ Kind(intl) = (IF intl THEN 0 ELSE ProgStart)
                           .. (IF intl THEN ProgStart ELSE NumSupported) - 1
         /\ \A i, j \in Kind(intl) : i < j => Width(i) <= Width(j)
         /\ Kind(intl) \subseteq 0 .. NumSupported - 1
         /\ \A i \in Kind(intl) : Width(i) \in Nat
<1>1. Kind(intl) = (IF intl THEN 0 ELSE ProgStart)
                     .. (IF intl THEN ProgStart ELSE NumSupported) - 1
  BY DEF Kind
<1>2. \A i, j \in Kind(intl) : i < j => Width(i) <= Width(j)
  BY TableAssumption
<1>3. Kind(intl) \subseteq 0 .. NumSupported - 1
  BY <1>1, Numbers
<1> QED BY <1>1, <1>2, <1>3, Numbers

LEMMA Between ==
  ASSUME NEW intl \in BOOLEAN, NEW i \in Kind(intl), NEW k \in Kind(intl), NEW j \in Int,
         i <= j, j <= k
  PROVE  j \in Kind(intl)
BY Numbers DEF Kind

\* Both kinds end where the width changes: the neighbour of a mode that has the
\* same width is of the same kind.
LEMMA NeighbourSameKind ==
  ASSUME NEW intl \in BOOLEAN, NEW i \in Int, i - 1 \in 0 .. NumSupported - 1,
         i \in 0 .. NumSupported - 1, Width(i - 1) = Width(i)
  PROVE  i \in Kind(intl) <=> i - 1 \in Kind(intl)
<1>1. i # ProgStart
  BY Numbers
<1> QED BY <1>1, Numbers, KindIs

LEMMA MatchesWidth ==
  ASSUME NEW q, NEW i, Matches(q, Row(i))
  PROVE  Width(i) = q.t[HActive]
BY DEF Matches, Width

\* A search that ends with no mode, although it looked at the width alone.
LEMMA FinishNone ==
  ASSUME Types, Searching, UNCHANGED <<table, query>>, Finish(query, NotSupported),
         \A i \in Kind(query.intl) : ~Matches(query, Row(i))
  PROVE  IInv'
<1>1. query.fn \in Functions /\ query \in QueryType
  BY DEF Types, QueryType
<1>2. pc' \in {"returned", "walk"} /\ (pc' = "walk" => query.fn = "rb")
  BY <1>1 DEF Finish, Functions
<1>3. query.fn \in {"id", "extensive"} => result' = NotSupported
  BY DEF Finish
<1>4. ~(NotSupported < NumSupported)
  BY Numbers
<1>5. FirstMatch'
  <2> SUFFICES ASSUME (pc = "returned" /\ query.fn \in {"id", "extensive"} /\ ~InCustom(query))'
               PROVE  ~(result' < NumSupported)
    BY DEF FirstMatch
  <2> QED BY <1>3, <1>4
<1>6. Types'
  BY <1>1, <1>2 DEF Types, Searching
<1> QED BY <1>2, <1>5, <1>6 DEF IInv, Narrowing, Rewinding, Scanning

LEMMA InitIInv == Init => IInv
BY DEF Init, IInv, Types, Searching, Narrowing, Rewinding, Scanning, FirstMatch

LEMMA CallKeeps ==
  ASSUME IInv, NEW q \in Queries, Call(q)
  PROVE  IInv'
<1>1. q \in QueryType /\ query' = q /\ q.intl \in BOOLEAN /\ q.fn \in Functions
  BY QueriesAssumption DEF Call, QueryType
<1>2. CASE registered /\ InCustom(q)
  <2>1. Finish(q, CustomId(q)) /\ UNCHANGED table
    BY <1>2 DEF Call
  <2>2. pc' \in {"returned", "walk"} /\ (pc' = "walk" => q.fn = "rb")
    BY <1>1, <2>1 DEF Finish, Functions
  <2>3. InCustom(query)'
    BY <1>1, <1>2, <2>1 DEF InCustom, table
  <2> QED BY <1>1, <2>2, <2>3
          DEF IInv, Types, Searching, Narrowing, Rewinding, Scanning, FirstMatch
<1>3. CASE ~(registered /\ InCustom(q))
  <2>1. /\ pc' = "bisect"
        /\ low' = IF q.intl THEN 0 ELSE ProgStart
        /\ high' = (IF q.intl THEN ProgStart ELSE NumSupported) - 1
    BY <1>3 DEF Call
  <2>2. low' \in Int /\ high' \in Int /\ Lo' = low' /\ Hi' = high'
    BY <1>1, <2>1, Numbers DEF Lo, Hi
  <2>3. \A i \in Kind(query.intl)' : low' <= i /\ i <= high'
    BY <1>1, <2>1, KindIs, Numbers
  <2> QED BY <1>1, <2>1, <2>2, <2>3
          DEF IInv, Types, Searching, Narrowing, Rewinding, Scanning, FirstMatch
<1> QED BY <1>2, <1>3

Middle == (low + high) \div 2

\* The middle of what is left to bisect is a mode of the kind asked for.
LEMMA MiddleOfKind ==
  ASSUME IInv, pc = "bisect", ~(low > high)
  PROVE  /\ Middle \in Kind(query.intl) /\ Width(Middle) \in Nat
         /\ Middle \in Int /\ low <= Middle /\ Middle <= high
<1>1. query.intl \in BOOLEAN /\ low \in Int /\ high \in Int /\ Lo <= low /\ high <= Hi
  BY DEF IInv, Types, Searching, Narrowing, QueryType
<1>2. Middle \in Int /\ low <= Middle /\ Middle <= high
  BY <1>1 DEF Middle
<1> QED BY <1>1, <1>2, KindIs, Numbers DEF Lo, Hi

\* The bisection gives up only where there is no mode of the width asked for.
GivesUp == low > high \/ (query.t[HActive] < Width(Middle) /\ AtFirst(Middle))

LEMMA BisectFails ==
  ASSUME IInv, Bisect, GivesUp
  PROVE  Finish(query, NotSupported) /\ \A i \in Kind(query.intl) : ~Matches(query, Row(i))
<1>1. /\ pc = "bisect" /\ query \in QueryType /\ query.intl \in BOOLEAN
      /\ query.t[HActive] \in Nat
  <2>1. pc = "bisect" /\ query \in QueryType
    BY DEF Bisect, IInv, Types, Searching
  <2> QED BY <2>1 DEF QueryType, Timings, HActive
<1>2. /\ low \in Int /\ high \in Int
      /\ \A i \in Kind(query.intl) : Width(i) = Asked => low <= i /\ i <= high
  BY <1>1 DEF IInv, Narrowing
<1>3. CASE low > high
  <2>1. Finish(query, NotSupported)
    BY <1>3 DEF Bisect
  <2>2. ASSUME NEW i \in Kind(query.intl), Matches(query, Row(i)) PROVE FALSE
    <3>1. Width(i) = Asked
      BY <2>2, MatchesWidth DEF Asked
    <3> QED BY <3>1, <1>1, <1>2, <1>3, KindIs, Numbers
  <2> QED BY <2>1, <2>2
<1>4. CASE ~(low > high)
  <2>1. query.t[HActive] < Width(Middle) /\ AtFirst(Middle)
    BY <1>4 DEF GivesUp
  <2>2. Middle \in Kind(query.intl) /\ Width(Middle) \in Nat
    BY <1>1, <1>4, MiddleOfKind
  <2>3. Finish(query, NotSupported)
    BY <1>1, <1>4, <2>1, <2>2 DEF Bisect, Middle
  <2>4. ASSUME NEW i \in Kind(query.intl), Matches(query, Row(i)) PROVE FALSE
    <3>1. Width(i) = query.t[HActive]
      BY <2>4, MatchesWidth
    <3>2. Middle = 0 /\ i \in Nat
      BY <2>1, <1>1, KindIs, Numbers DEF AtFirst
    <3>3. Width(Middle) <= Width(i)
      BY <3>2, <2>2, <1>1, KindIs
    <3> QED BY <3>1, <3>3, <2>1, <2>2, <1>1
  <2> QED BY <2>3, <2>4
<1> QED BY <1>3, <1>4

LEMMA BisectKeeps ==
  ASSUME IInv, Bisect
  PROVE  IInv'
<1> DEFINE m == (low + high) \div 2
<1>1. /\ pc = "bisect" /\ query \in QueryType /\ query.intl \in BOOLEAN
      /\ Searching /\ Types /\ query.t[HActive] \in Nat
  <2>1. pc = "bisect" /\ Searching /\ Types /\ query \in QueryType
    BY DEF Bisect, IInv, Types, Searching
  <2> QED BY <2>1 DEF QueryType, Timings, HActive
<1>2. /\ low \in Int /\ high \in Int /\ Lo <= low /\ high <= Hi
      /\ \A i \in Kind(query.intl) : Width(i) = Asked => low <= i /\ i <= high
  BY <1>1 DEF IInv, Narrowing
<1>3. UNCHANGED <<table, query>>
  BY DEF Bisect
<1>4. CASE low > high
  <2>1. GivesUp
    BY <1>4 DEF GivesUp
  <2> QED BY <2>1, <1>1, <1>3, BisectFails, FinishNone
<1>5. CASE ~(low > high)
  <2>1. m \in Int /\ low <= m /\ m <= high
    BY <1>2, <1>5
  <2>2. m \in Kind(query.intl) /\ Width(m) \in Nat
    BY <2>1, <1>1, <1>2, KindIs, Numbers DEF Lo, Hi
  <2>3. /\ mid' = m
        /\ \/ /\ query.t[HActive] = Width(m)
              /\ pc' = "rewind"
           \/ /\ query.t[HActive] < Width(m) /\ AtFirst(m)
              /\ Finish(query, NotSupported)
           \/ /\ query.t[HActive] < Width(m) /\ ~AtFirst(m)
              /\ high' = m - 1 /\ UNCHANGED <<low, pc, result>>
           \/ /\ query.t[HActive] > Width(m)
              /\ GoRight(m) /\ UNCHANGED <<pc, result>>
    BY <1>5 DEF Bisect
  <2>4. CASE query.t[HActive] = Width(m)
    <3>1. mid' = m /\ pc' = "rewind"
      BY <2>3, <2>4, <2>2, <1>1
    <3> QED BY <3>1, <2>2, <2>4, <1>1, <1>3
            DEF IInv, Types, Searching, Narrowing, Rewinding, Scanning, FirstMatch, Asked
  <2>5. CASE query.t[HActive] < Width(m) /\ AtFirst(m)
    BY <2>5, <1>1, <1>3, BisectFails, FinishNone DEF GivesUp, Middle
  <2>6. CASE query.t[HActive] < Width(m) /\ ~AtFirst(m)
    <3>1. high' = m - 1 /\ low' = low /\ pc' = "bisect"
      BY <2>3, <2>6, <2>2, <1>1
    <3>2. ASSUME NEW i \in Kind(query.intl), Width(i) = Asked
          PROVE  low <= i /\ i <= m - 1
      <4>1. low <= i /\ i \in Int
        BY <3>2, <1>1, <1>2, KindIs, Numbers
      <4>2. ~(m <= i)
        <5> SUFFICES ASSUME m <= i PROVE FALSE
          OBVIOUS
        <5>1. Width(m) <= Width(i)
          BY <2>1, <2>2, <4>1, <1>1, KindIs
        <5> QED BY <5>1, <3>2, <2>2, <2>6, <1>1 DEF Asked
      <4> QED BY <4>1, <4>2, <2>1
    <3>3. Lo' = Lo /\ Hi' = Hi /\ Asked' = Asked /\ Kind(query.intl)' = Kind(query.intl)
      BY <1>3 DEF Lo, Hi, Asked
    <3>4. m - 1 \in Int /\ m - 1 <= Hi
      BY <1>2, <2>1, <1>1, Numbers DEF Hi
    <3>5. Narrowing'
      BY <3>1, <3>2, <3>3, <3>4, <1>2 DEF Narrowing
    <3> QED BY <3>1, <3>5, <1>1, <1>3
            DEF IInv, Types, Searching, Rewinding, Scanning, FirstMatch
  <2>7. CASE query.t[HActive] > Width(m)
    <3>1. low' = m + 1 /\ high' = high /\ pc' = "bisect"
      BY <2>3, <2>7, <2>2, <1>1 DEF GoRight
    <3>2. ASSUME NEW i \in Kind(query.intl), Width(i) = Asked
          PROVE  m + 1 <= i /\ i <= high
      <4>1. i <= high /\ i \in Int
        BY <3>2, <1>1, <1>2, KindIs, Numbers
      <4>2. ~(i <= m)
        <5> SUFFICES ASSUME i <= m PROVE FALSE
          OBVIOUS
        <5>1. Width(i) <= Width(m)
          BY <2>1, <2>2, <4>1, <1>1, KindIs
        <5> QED BY <5>1, <3>2, <2>2, <2>7, <1>1 DEF Asked
      <4> QED BY <4>1, <4>2, <2>1
    <3>3. Lo' = Lo /\ Hi' = Hi /\ Asked' = Asked /\ Kind(query.intl)' = Kind(query.intl)
      BY <1>3 DEF Lo, Hi, Asked
    <3>4. m + 1 \in Int /\ Lo <= m + 1
      BY <1>2, <2>1, <1>1, Numbers DEF Lo
    <3>5. Narrowing'
      BY <3>1, <3>2, <3>3, <3>4, <1>2 DEF Narrowing
    <3> QED BY <3>1, <3>5, <1>1, <1>3
            DEF IInv, Types, Searching, Rewinding, Scanning, FirstMatch
  <2> QED BY <2>2, <2>4, <2>5, <2>6, <2>7, <1>1
<1> QED BY <1>2, <1>4, <1>5

LEMMA RewindKeeps ==
  ASSUME IInv, Rewind
  PROVE  IInv'
<1>1. /\ pc = "rewind" /\ query \in QueryType /\ query.intl \in BOOLEAN
      /\ mid \in Kind(query.intl) /\ Width(mid) = Asked
  <2>1. pc = "rewind" /\ query \in QueryType
    BY DEF Rewind, IInv, Types, Searching
  <2> QED BY <2>1 DEF IInv, Rewinding, QueryType
<1>2. mid \in Int /\ mid \in 0 .. NumSupported - 1
  BY <1>1, KindIs, Numbers
<1>3. UNCHANGED <<table, query>>
  BY DEF Rewind
<1>4. CASE CanRewind(mid)
  <2>1. mid' = mid - 1 /\ pc' = "rewind"
    BY <1>1, <1>4 DEF Rewind
  <2>2. mid - 1 \in 0 .. NumSupported - 1 /\ Width(mid - 1) = Width(mid)
    BY <1>1, <1>2, <1>4, Numbers DEF CanRewind, Asked
  <2>3. mid - 1 \in Kind(query.intl)
    BY <2>2, <1>1, <1>2, NeighbourSameKind
  <2> QED BY <2>1, <2>2, <2>3, <1>1, <1>3
          DEF IInv, Types, Searching, Narrowing, Rewinding, Scanning, FirstMatch, Asked
<1>5. CASE ~CanRewind(mid)
  <2>1. mid' = mid /\ pc' = "scan"
    BY <1>1, <1>5 DEF Rewind
  <2>2. ASSUME NEW i \in Kind(query.intl), i < mid
        PROVE  ~Matches(query, Row(i))
    <3> SUFFICES ASSUME Matches(query, Row(i)) PROVE FALSE
      OBVIOUS
    <3>1. Width(i) = Asked
      BY MatchesWidth DEF Asked
    <3>2. i \in Int /\ mid > 0 /\ i <= mid - 1 /\ mid - 1 \in Kind(query.intl)
      <4>1. i \in 0 .. NumSupported - 1
        BY <1>1, KindIs
      <4>2. i \in Int /\ 0 <= i
        BY <4>1, Numbers
      <4>3. mid - 1 \in Int /\ mid > 0 /\ i <= mid - 1 /\ mid - 1 <= mid
        BY <4>2, <2>2, <1>2
      <4> QED BY <4>2, <4>3, <1>1, Between
    <3>3. Width(i) <= Width(mid - 1) /\ Width(mid - 1) <= Width(mid)
      BY <3>2, <1>1, <1>2, KindIs
    <3>4. Width(mid - 1) # Asked
      BY <3>2, <1>5 DEF CanRewind, Asked
    <3>5. Width(i) \in Nat /\ Width(mid - 1) \in Nat /\ Width(mid) \in Nat
      BY <3>2, <1>1, KindIs
    <3> QED BY <3>1, <3>3, <3>4, <3>5, <1>1
  <2>3. Scanning'
    BY <2>1, <2>2, <1>1, <1>2, <1>3 DEF Scanning, Asked
  <2> QED BY <2>1, <2>3, <1>1, <1>3
          DEF IInv, Types, Searching, Narrowing, Rewinding, FirstMatch
<1> QED BY <1>4, <1>5

\* What holds while going forward, said of the current index.
LEMMA ScanFacts ==
  ASSUME IInv, pc = "scan"
  PROVE  /\ query \in QueryType /\ query.intl \in BOOLEAN /\ Types /\ Searching
         /\ query.fn \in Functions
         /\ mid \in Int /\ 0 <= mid /\ mid <= NumSupported
         /\ mid < NumSupported /\ Width(mid) = Asked => mid \in Kind(query.intl)
         /\ \A i \in Kind(query.intl) : i < mid => ~Matches(query, Row(i))
         /\ \/ mid \in Kind(query.intl) /\ Width(mid) = Asked
            \/ mid - 1 \in Kind(query.intl) /\ Width(mid - 1) = Asked
<1>1. query \in QueryType /\ Types /\ Searching /\ Scanning
  BY DEF IInv, Types, Searching
<1>2. query.intl \in BOOLEAN /\ query.fn \in Functions
  BY <1>1 DEF QueryType
<1>3. /\ mid \in Int
      /\ \/ mid \in Kind(query.intl) /\ Width(mid) = Asked
         \/ mid - 1 \in Kind(query.intl) /\ Width(mid - 1) = Asked
      /\ \A i \in Kind(query.intl) : i < mid => ~Matches(query, Row(i))
  BY <1>1 DEF Scanning
<1>4. 0 <= mid /\ mid <= NumSupported
  BY <1>2, <1>3, KindIs, Numbers
<1>5. ASSUME mid < NumSupported, Width(mid) = Asked
      PROVE  mid \in Kind(query.intl)
  <2>1. CASE mid - 1 \in Kind(query.intl) /\ Width(mid - 1) = Asked
    <3>1. mid - 1 \in 0 .. NumSupported - 1 /\ mid \in 0 .. NumSupported - 1
      BY <2>1, <1>2, <1>3, <1>4, <1>5, KindIs, Numbers
    <3> QED BY <2>1, <3>1, <1>2, <1>3, <1>5, NeighbourSameKind
  <2> QED BY <2>1, <1>3
<1> QED BY <1>1, <1>2, <1>3, <1>4, <1>5

\* Where the width has changed, or the table ends, no mode is left to match.
LEMMA NoneLeft ==
  ASSUME IInv, pc = "scan", mid = NumSupported \/ OtherWidth(mid)
  PROVE  \A i \in Kind(query.intl) : ~Matches(query, Row(i))
<1> SUFFICES ASSUME NEW i \in Kind(query.intl), Matches(query, Row(i)) PROVE FALSE
  OBVIOUS
<1>1. Width(i) = Asked /\ i \in 0 .. NumSupported - 1 /\ ~(i < mid)
  BY MatchesWidth, ScanFacts, KindIs DEF Asked
<1>2. mid \in 0 .. NumSupported - 1 /\ Width(mid) # Asked /\ i > mid
  BY <1>1, ScanFacts, Numbers DEF OtherWidth, Asked
<1>3. mid - 1 \in Kind(query.intl) /\ Width(mid - 1) = Asked
  BY <1>2, ScanFacts
<1>4. mid \in Kind(query.intl)
  <2>1. query.intl \in BOOLEAN
    BY ScanFacts
  <2>2. i \in Int /\ mid \in Int /\ mid - 1 <= mid /\ mid <= i
    BY <1>1, <1>2, Numbers
  <2> QED BY <2>1, <2>2, <1>3, Between
<1>5. Width(mid - 1) <= Width(mid) /\ Width(mid) <= Width(i)
  BY <1>2, <1>3, <1>4, ScanFacts, KindIs, Numbers
<1>6. Width(i) \in Nat /\ Width(mid) \in Nat
  BY <1>4, ScanFacts, KindIs
<1> QED BY <1>1, <1>2, <1>3, <1>5, <1>6

LEMMA ScanKeeps ==
  ASSUME IInv, Scan
  PROVE  IInv'
<1>1. pc = "scan" /\ mid < NumSupported /\ UNCHANGED <<table, query>>
  BY DEF Scan
<1>2. CASE OtherWidth(mid)
  <2>1. Finish(query, NotSupported)
    BY <1>2 DEF Scan
  <2> QED BY <2>1, <1>1, <1>2, ScanFacts, NoneLeft, FinishNone
<1>3. CASE ~OtherWidth(mid) /\ Agrees(query, Row(mid))
  <2>1. Finish(query, mid) /\ mid' = mid
    BY <1>3 DEF Scan
  <2>2. mid \in Kind(query.intl) /\ Matches(query, Row(mid))
    BY <1>1, <1>3, ScanFacts DEF OtherWidth, Matches, Width, Asked
  <2>3. pc' \in {"returned", "walk"} /\ (pc' = "walk" => query.fn = "rb")
    BY <2>1, <1>1, ScanFacts DEF Finish, Functions
  <2>4. query.fn \in {"id", "extensive"} => result' = mid
    BY <2>1 DEF Finish
  <2>5. FirstMatch'
    <3> SUFFICES ASSUME (pc = "returned" /\ query.fn \in {"id", "extensive"} /\ ~InCustom(query))'
                 PROVE  /\ mid < NumSupported
                        /\ mid \in Kind(query.intl) /\ Matches(query, Row(mid))
                        /\ \A i \in Kind(query.intl) : i < mid => ~Matches(query, Row(i))
      BY <2>4, <1>1 DEF FirstMatch
    <3> QED BY <2>2, <1>1, ScanFacts
  <2> QED BY <2>3, <2>5, <1>1, ScanFacts
          DEF IInv, Types, Searching, Narrowing, Rewinding, Scanning
<1>4. CASE ~OtherWidth(mid) /\ ~Agrees(query, Row(mid))
  <2>1. mid' = mid + 1 /\ pc' = pc
    BY <1>4 DEF Scan
  <2>2. mid \in Kind(query.intl) /\ Width(mid) = Asked
    BY <1>1, <1>4, ScanFacts DEF OtherWidth, Asked
  <2>3. ~Matches(query, Row(mid))
    BY <1>4 DEF Matches
  <2>4. \A i \in Kind(query.intl) : i < mid + 1 => ~Matches(query, Row(i))
    <3> SUFFICES ASSUME NEW i \in Kind(query.intl), i < mid + 1
                 PROVE  ~Matches(query, Row(i))
      OBVIOUS
    <3>1. i < mid \/ i = mid
      BY <1>1, ScanFacts, KindIs, Numbers
    <3> QED BY <3>1, <2>3, <1>1, ScanFacts
  <2>5. mid + 1 \in Int /\ (mid + 1) - 1 = mid
    BY <1>1, ScanFacts
  <2>6. Scanning'
    BY <2>1, <2>2, <2>4, <2>5, <1>1 DEF Scanning, Asked
  <2> QED BY <2>1, <2>6, <1>1, ScanFacts
          DEF IInv, Types, Searching, Narrowing, Rewinding, FirstMatch
<1> QED BY <1>2, <1>3, <1>4

LEMMA ScanBehindTableKeeps ==
  ASSUME IInv, ScanBehindTable
  PROVE  IInv'
<1>1. pc = "scan" /\ mid = NumSupported /\ UNCHANGED <<table, query>>
  BY DEF ScanBehindTable
<1>2. PICK id \in {NotSupported, NumSupported} : Finish(query, id)
  BY DEF ScanBehindTable
<1>3. pc' \in {"returned", "walk"} /\ (pc' = "walk" => query.fn = "rb")
  BY <1>1, <1>2, ScanFacts DEF Finish, Functions
<1>4. query.fn \in {"id", "extensive"} => ~(result' < NumSupported)
  <2>1. query.fn \in {"id", "extensive"} => result' = id
    BY <1>2 DEF Finish
  <2>2. ~(id < NumSupported)
    BY Numbers
  <2> QED BY <2>1, <2>2
<1>5. \A i \in Kind(query.intl) : ~Matches(query, Row(i))
  BY <1>1, NoneLeft
<1>6. FirstMatch'
  <2> SUFFICES ASSUME (pc = "returned" /\ query.fn \in {"id", "extensive"} /\ ~InCustom(query))'
               PROVE  ~(result' < NumSupported)
    BY <1>1, <1>5 DEF FirstMatch
  <2> QED BY <1>1, <1>4
<1> QED BY <1>1, <1>3, <1>6, ScanFacts
        DEF IInv, Types, Searching, Narrowing, Rewinding, Scanning

LEMMA WalkKeeps ==
  ASSUME IInv, Walk
  PROVE  IInv'
<1>1. pc = "walk" /\ pc' \in {"crashed", "returned", "walk"} /\ UNCHANGED <<table, query>>
  BY DEF Walk
<1>2. query \in QueryType /\ query.fn = "rb"
  BY <1>1 DEF IInv, Types, Searching
<1> QED BY <1>1, <1>2
        DEF IInv, Types, Searching, Narrowing, Rewinding, Scanning, FirstMatch

\* The steps that are not part of a search.
LEMMA OthersKeep ==
  ASSUME IInv,
         \/ \E t \in CustomTables : Register(t)
         \/ Unregister
         \/ SetVideoStream
         \/ \E format \in {"frame packing", "side by side"} : Set3DVideoStream(format)
         \/ Leave
         \/ UNCHANGED vars
  PROVE  IInv'
<1>1. CASE \E t \in CustomTables : Register(t)
  <2>1. pc = "idle" /\ pc' = "idle"
    BY <1>1 DEF Register
  <2> QED BY <2>1 DEF IInv, Types, Searching, Narrowing, Rewinding, Scanning, FirstMatch
<1>2. CASE Unregister
  <2>1. pc = "idle" /\ pc' = "idle"
    BY <1>2 DEF Unregister
  <2> QED BY <2>1 DEF IInv, Types, Searching, Narrowing, Rewinding, Scanning, FirstMatch
<1>3. CASE Leave
  <2>1. pc' = "idle"
    BY <1>3 DEF Leave
  <2> QED BY <2>1 DEF IInv, Types, Searching, Narrowing, Rewinding, Scanning, FirstMatch
<1>4. CASE UNCHANGED <<table, pc, query, search, result>>
  BY <1>4 DEF table, search, IInv, Types, Searching, Narrowing, Rewinding, Scanning,
              FirstMatch, InCustom, Asked, Lo, Hi
<1> QED BY <1>1, <1>2, <1>3, <1>4 DEF SetVideoStream, Set3DVideoStream, vars

LEMMA NextKeeps ==
  ASSUME IInv, [Next]_vars
  PROVE  IInv'
<1>1. CASE \E q \in Queries : Call(q)
  BY <1>1, CallKeeps
<1>2. CASE Search
  BY <1>2, BisectKeeps, RewindKeeps, ScanKeeps, ScanBehindTableKeeps, WalkKeeps DEF Search
<1> QED BY <1>1, <1>2, OthersKeep DEF Next

LEMMA InvariantHolds == Spec => []IInv
BY InitIInv, NextKeeps, PTL DEF Spec

\* For every sorted table: the search returns the first mode that matches, and
\* none only if there is none.
THEOREM SearchCorrect == Spec => []FirstMatch
<1>1. IInv => FirstMatch
  BY DEF IInv
<1> QED BY <1>1, InvariantHolds, PTL

\* For every sorted table: the forward loop leaves it only behind modes of the
\* width asked for, none of which matches.
THEOREM LeavesTableAtEnd == Spec => []BehindTableOnlyForWidest
<1>1. IInv => BehindTableOnlyForWidest
  <2> SUFFICES ASSUME IInv, pc = "scan", mid = NumSupported
               PROVE  /\ query.t[HActive] = Width(NumSupported - 1)
                      /\ \A i \in Kind(query.intl) : ~Matches(query, Row(i))
    BY DEF BehindTableOnlyForWidest
  <2>1. mid \notin Kind(query.intl)
    BY ScanFacts, KindIs, Numbers
  <2> QED BY <2>1, ScanFacts, NoneLeft DEF Asked
<1> QED BY <1>1, InvariantHolds, PTL

-----------------------------------------------------------------------------
(* What the tables hold.                                                   *)

\* A set of numbers that is not empty has a least one.
LEMMA Least ==
  ASSUME NEW S \in SUBSET Nat, S # {}
  PROVE  \E m \in S : \A k \in S : m <= k
<1> DEFINE R == OpToRel(<, Nat)
<1>1. IsWellFoundedOn(R, Nat)
  BY NatLessThanWellFounded
<1>2. \E m \in S : \A k \in S : <<k, m>> \notin R
  <2> HIDE DEF R
  <2> QED BY <1>1, WFMin
<1>3. \A k, m \in Nat : k < m => <<k, m>> \in R
  BY DEF OpToRel
<1> HIDE DEF R
<1>4. PICK m \in S : \A k \in S : <<k, m>> \notin R
  BY <1>2
<1>5. ASSUME NEW k \in S PROVE m <= k
  <2>1. k \in Nat /\ m \in Nat
    OBVIOUS
  <2>2. ~(k < m)
    BY <1>3, <1>4, <2>1
  <2> QED BY <2>1, <2>2
<1> QED BY <1>5

LEMMA RowData ==
  ASSUME NEW i \in 0 .. NumSupported - 1
  PROVE  Row(i).t \in Timings /\ Row(i).rate \in Nat /\ Row(i).rb \in {0, 1}
<1>1. i + 1 \in 1 .. Len(Table)
  BY Numbers DEF NumSupported
<1>2. Row(i) \in [name : STRING, rate : Nat, rb : {0, 1}, t : Timings]
  BY <1>1, TableAssumption, ElementOfSeq DEF Row
<1> QED BY <1>2

CustomRows == [id : { n \in Nat : n > Custom }, rate : Nat, rb : {0, 1}, t : Timings]

LEMMA CustomData ==
  ASSUME TypeOK
  PROVE  /\ DOMAIN custom = 1 .. Len(custom) /\ Len(custom) \in Nat
         /\ \A j \in DOMAIN custom : j \in Nat /\ custom[j] \in CustomRows
<1>1. custom \in Seq(CustomRows)
  <2>1. <<>> \in Seq(CustomRows)
    OBVIOUS
  <2> QED BY <2>1, CustomAssumption DEF TypeOK, CustomRows
<1>2. DOMAIN custom = 1 .. Len(custom) /\ Len(custom) \in Nat
  BY <1>1
<1> QED BY <1>1, <1>2, ElementOfSeq

\* The mode found in the custom table is one of those looked for.
LEMMA CustomFound ==
  ASSUME TypeOK, NEW q, InCustom(q)
  PROVE  \E j \in DOMAIN custom : CustomId(q) = custom[j].id
<1> DEFINE S == { j \in DOMAIN custom : Matches(q, custom[j]) }
<1> DEFINE P(j) == Matches(q, custom[j]) /\ \A k \in 1 .. j - 1 : ~Matches(q, custom[k])
<1>1. PICK m \in S : \A k \in S : m <= k
  <2>1. S \in SUBSET Nat /\ S # {}
    BY CustomData DEF InCustom
  <2> QED BY <2>1, Least
<1>2. m \in DOMAIN custom /\ P(m)
  <2>1. m \in Nat /\ DOMAIN custom = 1 .. Len(custom) /\ Len(custom) \in Nat
    BY CustomData
  <2>2. ASSUME NEW k \in 1 .. m - 1, Matches(q, custom[k]) PROVE FALSE
    <3>1. k \in S /\ k < m
      BY <2>1, <2>2
    <3> QED BY <3>1, <1>1, <2>1
  <2> QED BY <2>2
<1>3. CustomId(q) = custom[CHOOSE j \in DOMAIN custom : P(j)].id
  BY DEF CustomId, FirstIn
<1> HIDE DEF P
<1>4. (CHOOSE j \in DOMAIN custom : P(j)) \in DOMAIN custom
  BY <1>2
<1> QED BY <1>3, <1>4

LEMMA CustomRead ==
  ASSUME TypeOK, NEW id, id \notin 0 .. NumSupported - 1, id \in Nat, Known(id)
  PROVE  \E j \in DOMAIN custom : VideoModeData(id) = custom[j]
<1> DEFINE S == { j \in DOMAIN custom : custom[j].id = id }
<1> DEFINE P(j) == custom[j].id = id /\ \A k \in 1 .. j - 1 : ~(custom[k].id = id)
<1>0. ~(id < NumSupported)
  BY Numbers
<1>1. PICK m \in S : \A k \in S : m <= k
  <2>1. S \in SUBSET Nat /\ S # {}
    BY <1>0, CustomData DEF Known
  <2> QED BY <2>1, Least
<1>2. m \in DOMAIN custom /\ P(m)
  <2>1. m \in Nat /\ DOMAIN custom = 1 .. Len(custom) /\ Len(custom) \in Nat
    BY CustomData
  <2>2. ASSUME NEW k \in 1 .. m - 1, custom[k].id = id PROVE FALSE
    <3>1. k \in S /\ k < m
      BY <2>1, <2>2
    <3> QED BY <3>1, <1>1, <2>1
  <2> QED BY <2>2
<1>3. VideoModeData(id) = custom[CHOOSE j \in DOMAIN custom : P(j)]
  BY <1>0 DEF VideoModeData, FirstIn
<1> HIDE DEF P
<1>4. (CHOOSE j \in DOMAIN custom : P(j)) \in DOMAIN custom
  BY <1>2
<1> QED BY <1>3, <1>4

LEMMA ModeData ==
  ASSUME TypeOK, NEW id \in Nat, Known(id)
  PROVE  VideoModeData(id).t \in Timings
<1>1. CASE id \in 0 .. NumSupported - 1
  BY <1>1, RowData, Numbers DEF VideoModeData
<1>2. CASE id \notin 0 .. NumSupported - 1
  BY <1>2, CustomRead, CustomData DEF CustomRows
<1> QED BY <1>1, <1>2

\* The only identifiers above the standard ones are those of custom modes.
LEMMA NotKnown ==
  ASSUME TypeOK
  PROVE  /\ ~Known(NumSupported) /\ ~Known(NotSupported)
         /\ \A id \in 0 .. NumSupported - 1 : Known(id) /\ VideoModeData(id) = Row(id)
<1>1. \A j \in DOMAIN custom : custom[j].id \in Nat /\ custom[j].id > NumSupported + 4
  BY CustomData DEF CustomRows, Custom
<1>2. \A id \in 0 .. NumSupported - 1 : id < NumSupported
  BY Numbers
<1>3. \A id \in {NumSupported, NotSupported} :
        ~(id < NumSupported) /\ \A j \in DOMAIN custom : custom[j].id # id
  BY <1>1, Numbers
<1> QED BY <1>2, <1>3 DEF Known, VideoModeData

-----------------------------------------------------------------------------
(* The types.                                                              *)

LEMMA FinishTypes ==
  ASSUME NEW q \in QueryType, NEW id \in Nat, Finish(q, id)
  PROVE  /\ pc' \in {"returned", "walk"} /\ result' \in Nat
         /\ pc' = "walk" => q.fn = "rb" /\ result' = id /\ Known(id)
         /\ q.fn = "rb" => IF Known(id) THEN pc' = "walk"
                                        ELSE pc' = "returned" /\ result' = NotSupported
<1>1. q.fn \in Functions /\ NotSupported \in Nat
  BY Numbers DEF QueryType
<1>2. CASE q.fn \in {"id", "extensive"}
  BY <1>2 DEF Finish
<1>3. CASE q.fn = "blanking"
  BY <1>1, <1>3 DEF Finish
<1>4. CASE q.fn = "rb"
  BY <1>1, <1>4 DEF Finish
<1> QED BY <1>1, <1>2, <1>3, <1>4 DEF Functions

\* The parts of TypeOK that a search changes.
SearchTypes ==
  /\ low \in 0 .. NumSupported /\ high \in 0 .. NumSupported /\ mid \in 0 .. NumSupported
  /\ result \in Nat

LEMMA SearchTypesEnough ==
  ASSUME TypeOK, UNCHANGED <<table, query>>, query # NoQuery, SearchTypes',
         pc' \in {"bisect", "rewind", "scan", "walk", "returned", "crashed"}
  PROVE  TypeOK'
BY DEF TypeOK, SearchTypes, table

LEMMA InSearch ==
  ASSUME TypeOK, IInv, Search
  PROVE  /\ Searching /\ query \in QueryType /\ query # NoQuery /\ query.intl \in BOOLEAN
         /\ SearchTypes /\ UNCHANGED <<table, query, stream>>
<1>1. Searching /\ UNCHANGED <<table, query, stream>>
  BY DEF Search, Bisect, Rewind, Scan, ScanBehindTable, Walk, Searching
<1>2. query \in QueryType /\ query # NoQuery
  BY <1>1 DEF IInv, Types, TypeOK, Searching
<1> QED BY <1>1, <1>2 DEF QueryType, TypeOK, SearchTypes

LEMMA CallTypes ==
  ASSUME TypeOK, NEW q \in Queries, Call(q)
  PROVE  TypeOK'
<1>1. q \in QueryType /\ query' = q /\ UNCHANGED table
  BY QueriesAssumption DEF Call
<1>2. q # NoQuery /\ NoQuery \notin QueryType
  <2>1. q.fn \in Functions /\ \A r \in QueryType : r.fn \in Functions
    BY <1>1 DEF QueryType
  <2> QED BY <2>1 DEF Functions, NoQuery
<1>3. CASE registered /\ InCustom(q)
  <2>1. Finish(q, CustomId(q)) /\ UNCHANGED search
    BY <1>3 DEF Call
  <2>2. CustomId(q) \in Nat
    BY <1>3, CustomFound, CustomData DEF CustomRows
  <2>3. pc' \in {"returned", "walk"} /\ result' \in Nat
    BY <1>1, <2>1, <2>2, FinishTypes
  <2> QED BY <1>1, <1>2, <2>1, <2>3 DEF TypeOK, table, search
<1>4. CASE ~(registered /\ InCustom(q))
  <2>1. /\ pc' = "bisect" /\ mid' = 0 /\ result' = result
        /\ low' = IF q.intl THEN 0 ELSE ProgStart
        /\ high' = (IF q.intl THEN ProgStart ELSE NumSupported) - 1
    BY <1>4 DEF Call
  <2>2. q.intl \in BOOLEAN
    BY <1>1 DEF QueryType
  <2>3. low' \in 0 .. NumSupported /\ high' \in 0 .. NumSupported /\ mid' \in 0 .. NumSupported
    BY <2>1, <2>2, Numbers
  <2> QED BY <1>1, <1>2, <2>1, <2>3 DEF TypeOK, table
<1> QED BY <1>3, <1>4

LEMMA BisectTypes ==
  ASSUME TypeOK, IInv, Bisect
  PROVE  TypeOK'
<1>1. /\ query \in QueryType /\ query # NoQuery /\ query.intl \in BOOLEAN /\ SearchTypes
      /\ UNCHANGED <<table, query>> /\ pc = "bisect" /\ query.t[HActive] \in Nat
  BY InSearch DEF Search, Bisect, QueryType, Timings, HActive
<1>2. NotSupported \in Nat
  BY Numbers
<1>3. CASE GivesUp
  <2>1. pc' \in {"returned", "walk"} /\ result' \in Nat
    BY <1>1, <1>2, <1>3, BisectFails, FinishTypes
  <2>2. low' = low /\ high' = high /\ mid' \in {mid, Middle}
    <3>1. CASE low > high
      BY <3>1 DEF Bisect, search
    <3>2. CASE ~(low > high)
      <4>1. query.t[HActive] < Width(Middle) /\ AtFirst(Middle) /\ Width(Middle) \in Nat
        BY <1>1, <1>3, <3>2, MiddleOfKind DEF GivesUp
      <4> QED BY <1>1, <3>2, <4>1 DEF Bisect, Middle
    <3> QED BY <3>1, <3>2
  <2>3. mid' \in 0 .. NumSupported
    <3>1. CASE low > high
      BY <3>1, <1>1 DEF Bisect, search, SearchTypes
    <3>2. CASE ~(low > high)
      BY <1>1, <2>2, <3>2, MiddleOfKind, KindIs, Numbers DEF SearchTypes
    <3> QED BY <3>1, <3>2
  <2> QED BY <1>1, <2>1, <2>2, <2>3, SearchTypesEnough DEF SearchTypes
<1>4. CASE ~GivesUp
  <2>1. ~(low > high)
    BY <1>4 DEF GivesUp
  <2>2. Middle \in Kind(query.intl) /\ Width(Middle) \in Nat /\ Middle \in 0 .. NumSupported - 1
    BY <1>1, <2>1, MiddleOfKind, KindIs
  <2>3. ~(query.t[HActive] < Width(Middle) /\ AtFirst(Middle))
    BY <1>4 DEF GivesUp
  <2>4. /\ mid' = Middle
        /\ \/ pc' = "rewind" /\ UNCHANGED <<low, high, result>>
           \/ Middle # 0 /\ high' = Middle - 1 /\ UNCHANGED <<low, pc, result>>
           \/ low' = Middle + 1 /\ UNCHANGED <<high, pc, result>>
    BY <1>1, <2>1, <2>2, <2>3 DEF Bisect, Middle, GoRight, AtFirst
  <2>5. SearchTypes' /\ pc' \in {"bisect", "rewind"}
    BY <1>1, <2>2, <2>4, Numbers DEF SearchTypes
  <2> QED BY <1>1, <2>5, SearchTypesEnough
<1> QED BY <1>3, <1>4

LEMMA WalkTypes ==
  ASSUME TypeOK, IInv, Walk
  PROVE  TypeOK'
<1>1. /\ query # NoQuery /\ SearchTypes
      /\ UNCHANGED <<table, query, search>> /\ pc = "walk"
  BY InSearch DEF Search, Walk
<1>2. result' \in {result, result + 1, NotSupported} /\ pc' \in {"crashed", "returned", "walk"}
  BY <1>1 DEF Walk
<1>3. SearchTypes'
  BY <1>1, <1>2, Numbers DEF SearchTypes, search
<1> QED BY <1>1, <1>2, <1>3, SearchTypesEnough

LEMMA ScanTypes ==
  ASSUME TypeOK, IInv, Rewind \/ Scan \/ ScanBehindTable
  PROVE  TypeOK'
<1>1. /\ query \in QueryType /\ query # NoQuery /\ SearchTypes /\ query.intl \in BOOLEAN
      /\ UNCHANGED <<table, query>>
  BY InSearch DEF Search
<1>2. CASE Rewind
  <2>1. mid \in 0 .. NumSupported - 1
    BY <1>1, <1>2, KindIs DEF Rewind, IInv, Rewinding
  <2>2. UNCHANGED <<low, high, result>> /\ pc' \in {"rewind", "scan"} /\ mid' \in 0 .. NumSupported
    BY <1>2, <2>1, Numbers DEF Rewind, CanRewind
  <2> QED BY <1>1, <2>2, SearchTypesEnough DEF SearchTypes
<1>3. CASE Scan
  <2>1. UNCHANGED <<low, high>> /\ pc = "scan" /\ mid \in Nat /\ mid < NumSupported
    BY <1>1, <1>3, Numbers DEF Scan, SearchTypes
  <2>2. /\ mid' \in 0 .. NumSupported
        /\ \/ UNCHANGED <<pc, result>>
           \/ \E id \in Nat : Finish(query, id)
    BY <1>1, <1>3, <2>1, Numbers DEF Scan, SearchTypes
  <2>3. pc' \in {"scan", "returned", "walk"} /\ result' \in Nat
    BY <1>1, <2>1, <2>2, FinishTypes DEF SearchTypes
  <2> QED BY <1>1, <2>1, <2>2, <2>3, SearchTypesEnough DEF SearchTypes
<1>4. CASE ScanBehindTable
  <2>1. UNCHANGED search /\ \E id \in {NotSupported, NumSupported} : Finish(query, id)
    BY <1>4 DEF ScanBehindTable
  <2>2. pc' \in {"returned", "walk"} /\ result' \in Nat
    BY <1>1, <2>1, FinishTypes, Numbers
  <2> QED BY <1>1, <2>1, <2>2, SearchTypesEnough DEF SearchTypes, search
<1> QED BY <1>2, <1>3, <1>4

LEMMA TypesKept ==
  ASSUME TypeOK, IInv, [Next]_vars
  PROVE  TypeOK'
<1>1. CASE \E q \in Queries : Call(q)
  BY <1>1, CallTypes
<1>2. CASE Search
  BY <1>2, BisectTypes, ScanTypes, WalkTypes DEF Search
<1>3. CASE (\E t \in CustomTables : Register(t)) \/ Unregister
  BY <1>3 DEF Register, Unregister, TypeOK, search
<1>4. CASE UNCHANGED <<table, pc, query, search, result>>
  BY <1>4 DEF TypeOK, table, search
<1>5. CASE Leave
  BY <1>5, Numbers DEF Leave, TypeOK, table
<1> QED BY <1>1, <1>2, <1>3, <1>4, <1>5 DEF Next, SetVideoStream, Set3DVideoStream, vars

LEMMA InitTypes == Init => TypeOK
<1> SUFFICES ASSUME Init PROVE TypeOK
  OBVIOUS
<1>1. 0 \in 0 .. NumSupported /\ NotSupported \in Nat
  BY Numbers
<1> QED BY <1>1 DEF Init, TypeOK

\* For every table and every question: the indices stay in the table or one
\* behind it, the unsigned numbers of the bisection never below 0.
THEOREM TypesHold == Spec => []TypeOK
BY InitTypes, TypesKept, InvariantHolds, PTL DEF Spec

-----------------------------------------------------------------------------
(* XVidC_GetVideoModeIdRb.                                                 *)

\* Row i is of the size and rate asked for.
Fits(q, i) ==
  Row(i).rate = q.rate /\ \A f \in {HActive, VActive} : Row(i).t[f] = q.t[f]

\* Going from mode to mode, the mode or the one before is of the kind, size and
\* rate asked for, and no mode wanted was passed.
Walking ==
  pc = "walk" /\ ~InCustom(query) =>
    /\ result \in 0 .. NumSupported
    /\ \/ result \in Kind(query.intl) /\ Fits(query, result)
       \/ result - 1 \in Kind(query.intl) /\ Fits(query, result - 1)
    /\ query.rb = 1 => \A i \in Wanted(query) : result <= i

AnswerInv == Walking /\ CrashOnlyAfterLast /\ ReducedBlankingFound

LEMMA WantedIs ==
  ASSUME NEW q, NEW i
  PROVE  i \in Wanted(q) <=> i \in Kind(q.intl) /\ Fits(q, i) /\ Row(i).rb = q.rb
BY DEF Wanted, Fits

LEMMA WantedMatches ==
  ASSUME NEW q, NEW i \in Wanted(q), q.fn # "extensive"
  PROVE  Matches(q, Row(i))
BY WantedIs DEF Fits, Matches, Agrees

LEMMA FitsIsAlike ==
  ASSUME NEW q, NEW i, NEW j, Fits(q, i)
  PROVE  Fits(q, j) <=> Alike(i, j)
BY DEF Fits, Alike

\* The answer that there is no mode, which two identifiers stand for.
LEMMA NoneAnswered ==
  ASSUME TypeOK, query \in QueryType, UNCHANGED <<table, query>>,
         NEW id \in {NotSupported, NumSupported}, Finish(query, id),
         \A i \in Kind(query.intl) : ~Matches(query, Row(i))
  PROVE  AnswerInv'
<1>1. /\ pc' \in {"returned", "walk"}
      /\ query.fn = "rb" => pc' = "returned" /\ result' = NotSupported
      /\ (pc' = "walk" => query.fn = "rb")
  <2>1. id \in Nat
    BY Numbers
  <2> QED BY <2>1, FinishTypes, NotKnown
<1>2. query.fn = "rb" => Wanted(query) = {}
  BY WantedMatches, WantedIs
<1> QED BY <1>1, <1>2
        DEF AnswerInv, Walking, CrashOnlyAfterLast, ReducedBlankingFound, Wanted

LEMMA CallAnswers ==
  ASSUME TypeOK, NEW q \in Queries, Call(q)
  PROVE  AnswerInv'
<1>1. q \in QueryType /\ query' = q /\ UNCHANGED table
  BY QueriesAssumption DEF Call
<1>2. CASE registered /\ InCustom(q)
  <2>1. Finish(q, CustomId(q)) /\ CustomId(q) \in Nat
    BY <1>2, CustomFound, CustomData DEF Call, CustomRows
  <2>2. pc' \in {"returned", "walk"}
    BY <1>1, <2>1, FinishTypes
  <2>3. InCustom(query)'
    BY <1>1, <1>2 DEF InCustom, table
  <2> QED BY <2>2, <2>3 DEF AnswerInv, Walking, CrashOnlyAfterLast, ReducedBlankingFound
<1>3. CASE ~(registered /\ InCustom(q))
  <2>1. pc' = "bisect"
    BY <1>3 DEF Call
  <2> QED BY <2>1 DEF AnswerInv, Walking, CrashOnlyAfterLast, ReducedBlankingFound
<1> QED BY <1>2, <1>3

LEMMA ScanAnswers ==
  ASSUME TypeOK, IInv, Scan
  PROVE  AnswerInv'
<1>1. /\ query \in QueryType /\ query.intl \in BOOLEAN /\ pc = "scan" /\ mid < NumSupported
      /\ UNCHANGED <<table, query>> /\ mid \in Nat
  BY InSearch, Numbers DEF Search, Scan, SearchTypes
<1>2. CASE OtherWidth(mid)
  <2>1. Finish(query, NotSupported)
    BY <1>2 DEF Scan
  <2> QED BY <2>1, <1>1, <1>2, NoneLeft, NoneAnswered
<1>3. CASE ~OtherWidth(mid) /\ Agrees(query, Row(mid))
  <2>1. Finish(query, mid)
    BY <1>3 DEF Scan
  <2>2. mid \in Kind(query.intl) /\ Fits(query, mid)
    BY <1>1, <1>3, ScanFacts DEF OtherWidth, Agrees, Width, Asked, Fits
  <2>3. Known(mid) /\ mid \in 0 .. NumSupported
    BY <1>1, NotKnown, Numbers
  <2>4. /\ pc' \in {"returned", "walk"} /\ (pc' = "walk" => query.fn = "rb" /\ result' = mid)
        /\ query.fn = "rb" => pc' = "walk"
    BY <1>1, <2>1, <2>3, FinishTypes
  <2>5. query.fn = "rb" => \A i \in Wanted(query) : mid <= i
    <3> SUFFICES ASSUME query.fn = "rb", NEW i \in Wanted(query) PROVE mid <= i
      OBVIOUS
    <3>1. Matches(query, Row(i)) /\ i \in Kind(query.intl)
      BY WantedMatches, WantedIs
    <3>2. ~(i < mid)
      BY <3>1, <1>1, ScanFacts
    <3> QED BY <3>1, <3>2, <1>1, KindIs, Numbers
  <2>6. Walking'
    BY <1>1, <2>2, <2>3, <2>4, <2>5 DEF Walking, Wanted, Fits
  <2> QED BY <1>1, <2>4, <2>6 DEF AnswerInv, CrashOnlyAfterLast, ReducedBlankingFound
<1>4. CASE ~OtherWidth(mid) /\ ~Agrees(query, Row(mid))
  <2>1. pc' = "scan"
    BY <1>1, <1>4 DEF Scan
  <2> QED BY <2>1 DEF AnswerInv, Walking, CrashOnlyAfterLast, ReducedBlankingFound
<1> QED BY <1>2, <1>3, <1>4

LEMMA BisectAnswers ==
  ASSUME TypeOK, IInv, Bisect
  PROVE  AnswerInv'
<1>1. /\ query \in QueryType /\ query.intl \in BOOLEAN /\ query.t[HActive] \in Nat
      /\ UNCHANGED <<table, query>> /\ pc = "bisect"
  BY InSearch DEF Search, Bisect, QueryType, Timings, HActive
<1>2. CASE GivesUp
  BY <1>1, <1>2, BisectFails, NoneAnswered
<1>3. CASE ~GivesUp
  <2>1. ~(low > high)
    BY <1>3 DEF GivesUp
  <2>2. Width(Middle) \in Nat /\ ~(query.t[HActive] < Width(Middle) /\ AtFirst(Middle))
    BY <1>1, <1>3, <2>1, MiddleOfKind DEF GivesUp
  <2>3. pc' \in {"bisect", "rewind"}
    BY <1>1, <2>1, <2>2 DEF Bisect, Middle, GoRight
  <2> QED BY <2>3 DEF AnswerInv, Walking, CrashOnlyAfterLast, ReducedBlankingFound
<1> QED BY <1>2, <1>3

\* A mode that fits does not differ.
LEMMA FitsNotDiffers ==
  ASSUME TypeOK, query.intl \in BOOLEAN, NEW i \in Kind(query.intl)
  PROVE  Fits(query, i) <=> ~Differs(i)
<1>1. VideoModeData(i) = Row(i)
  BY KindIs, NotKnown
<1>2. query.intl => Row(i).t[F1VTotal] # 0
  BY GroupsAssumption
<1> QED BY <1>1, <1>2 DEF Fits, Differs, IsInterlaced

LEMMA WalkAnswers ==
  ASSUME TypeOK, IInv, AnswerInv, Walk
  PROVE  AnswerInv'
<1>1. /\ query \in QueryType /\ query.intl \in BOOLEAN /\ pc = "walk"
      /\ UNCHANGED <<table, query>> /\ result \in Nat
  BY InSearch DEF Search, Walk, SearchTypes
<1>2. pc' \in {"walk", "returned", "crashed"}
  BY <1>1 DEF Walk
<1>3. CASE InCustom(query)
  <2>1. InCustom(query)'
    BY <1>1, <1>3 DEF InCustom, table
  <2> QED BY <2>1 DEF AnswerInv, Walking, CrashOnlyAfterLast, ReducedBlankingFound
<1>4. CASE ~InCustom(query)
  <2>1. /\ result \in 0 .. NumSupported
        /\ \/ result \in Kind(query.intl) /\ Fits(query, result)
           \/ result - 1 \in Kind(query.intl) /\ Fits(query, result - 1)
        /\ query.rb = 1 => \A i \in Wanted(query) : result <= i
    BY <1>1, <1>4 DEF AnswerInv, Walking
  <2>2. Known(result) <=> result < NumSupported
    BY <2>1, NotKnown, Numbers
  <2>3. CASE ~Known(result)
    <3>1. result = NumSupported /\ pc' = "crashed"
      BY <2>1, <2>2, <2>3, Numbers DEF Walk
    <3>2. Fits(query, NumSupported - 1)
      BY <2>1, <3>1, <1>1, KindIs, Numbers
    <3>3. CrashOnlyAfterLast'
      BY <3>2, <1>1 DEF CrashOnlyAfterLast, Fits
    <3> QED BY <3>1, <3>3 DEF AnswerInv, Walking, ReducedBlankingFound
  <2>4. CASE Known(result) /\ Differs(result)
    <3>1. pc' = "returned" /\ result' = NotSupported
      BY <2>4 DEF Walk
    <3>2. ~(result \in Kind(query.intl) /\ Fits(query, result))
      BY <2>4, <1>1, FitsNotDiffers
    <3>3. query.rb = 1 => Wanted(query) = {}
      <4> SUFFICES ASSUME query.rb = 1, NEW i \in Wanted(query) PROVE FALSE
        OBVIOUS
      <4>1. i \in Kind(query.intl) /\ Fits(query, i) /\ result <= i
        BY <2>1, WantedIs
      <4>2. result \in (result - 1) .. i /\ i \in Int
        BY <4>1, <1>1, KindIs
      <4>3. result - 1 \in Kind(query.intl) /\ Fits(query, result - 1)
        BY <2>1, <3>2
      <4>4. Alike(result - 1, result)
        BY <4>1, <4>2, <4>3, <1>1, FitsIsAlike, GroupsAssumption
      <4>5. Fits(query, result)
        BY <4>3, <4>4, FitsIsAlike
      <4>6. result \in Kind(query.intl)
        BY <4>1, <4>2, <4>3, <1>1, Between
      <4> QED BY <4>5, <4>6, <3>2
    <3> QED BY <3>1, <3>3, <1>1
            DEF AnswerInv, Walking, CrashOnlyAfterLast, ReducedBlankingFound, Wanted
  <2>5. CASE Known(result) /\ ~Differs(result)
    <3>1. VideoModeData(result) = Row(result) /\ result \in 0 .. NumSupported - 1
      BY <2>1, <2>2, <2>5, NotKnown, Numbers
    <3>2. Fits(query, result)
      BY <2>5, <3>1 DEF Differs, Fits
    <3>3. result \in Kind(query.intl)
      <4>1. CASE result - 1 \in Kind(query.intl) /\ Fits(query, result - 1)
        <5>1. Width(result - 1) = Width(result)
          BY <4>1, <3>2 DEF Fits, Width
        <5> QED BY <5>1, <4>1, <3>1, <1>1, KindIs, NeighbourSameKind
      <4> QED BY <4>1, <2>1
    <3>4. CASE IsVtmRb(Row(result), query.rb)
      <4>1. pc' = "returned" /\ result' = result
        BY <2>5, <3>1, <3>4 DEF Walk
      <4>2. result \in Wanted(query)
        BY <3>2, <3>3, <3>4, WantedIs DEF IsVtmRb
      <4> QED BY <4>1, <4>2, <1>1
              DEF AnswerInv, Walking, CrashOnlyAfterLast, ReducedBlankingFound, Wanted
    <3>5. CASE ~IsVtmRb(Row(result), query.rb)
      <4>1. pc' = "walk" /\ result' = result + 1
        BY <1>1, <2>5, <3>1, <3>5 DEF Walk
      <4>2. query.rb = 1 => \A i \in Wanted(query) : result + 1 <= i
        <5> SUFFICES ASSUME query.rb = 1, NEW i \in Wanted(query) PROVE result + 1 <= i
          OBVIOUS
        <5>1. result <= i /\ i \in Int
          BY <2>1, <1>1, WantedIs, KindIs
        <5>2. i # result
          BY <3>5, WantedIs DEF IsVtmRb
        <5> QED BY <5>1, <5>2, <1>1
      <4>3. (result + 1) - 1 = result /\ result + 1 \in 0 .. NumSupported
        BY <3>1, Numbers
      <4>4. Walking'
        BY <4>1, <4>2, <4>3, <3>2, <3>3, <1>1 DEF Walking, Wanted, Fits
      <4> QED BY <4>1, <4>4 DEF AnswerInv, CrashOnlyAfterLast, ReducedBlankingFound
    <3> QED BY <3>4, <3>5
  <2> QED BY <2>3, <2>4, <2>5
<1> QED BY <1>3, <1>4

LEMMA AnswersKept ==
  ASSUME TypeOK, IInv, AnswerInv, [Next]_vars
  PROVE  AnswerInv'
<1>1. CASE \E q \in Queries : Call(q)
  BY <1>1, CallAnswers
<1>2. CASE Bisect \/ Scan \/ Walk
  BY <1>2, BisectAnswers, ScanAnswers, WalkAnswers
<1>3. CASE ScanBehindTable
  <2>1. /\ query \in QueryType /\ UNCHANGED <<table, query>> /\ pc = "scan" /\ mid = NumSupported
        /\ \E id \in {NotSupported, NumSupported} : Finish(query, id)
    BY <1>3, InSearch DEF Search, ScanBehindTable
  <2> QED BY <2>1, NoneLeft, NoneAnswered
<1>4. CASE UNCHANGED <<table, pc, query, result>>
  BY <1>4 DEF table, AnswerInv, Walking, CrashOnlyAfterLast, ReducedBlankingFound,
              InCustom, Wanted, Fits
<1>5. CASE pc' \in {"idle", "scan", "rewind"}
  BY <1>5 DEF AnswerInv, Walking, CrashOnlyAfterLast, ReducedBlankingFound
<1> QED BY <1>1, <1>2, <1>3, <1>4, <1>5
        DEF Next, Search, Register, Unregister, Rewind, Leave, SetVideoStream,
            Set3DVideoStream, vars, search

LEMMA AnswersHold == Spec => []AnswerInv
<1>1. Init => AnswerInv
  BY DEF Init, AnswerInv, Walking, CrashOnlyAfterLast, ReducedBlankingFound
<1> QED BY <1>1, AnswersKept, TypesHold, InvariantHolds, PTL DEF Spec

\* For every table in which the modes of one size and rate follow each other:
\* XVidC_GetVideoModeIdRb finds the mode with reduced blanking if there is one.
THEOREM RbSearchCorrect == Spec => []ReducedBlankingFound
<1>1. AnswerInv => ReducedBlankingFound
  BY DEF AnswerInv
<1> QED BY <1>1, AnswersHold, PTL

\* For every such table: it uses the NULL pointer only behind a custom mode or
\* for the size and rate of the last mode.
THEOREM CrashesAtEnd == Spec => []CrashOnlyAfterLast
<1>1. AnswerInv => CrashOnlyAfterLast
  BY DEF AnswerInv
<1> QED BY <1>1, AnswersHold, PTL

-----------------------------------------------------------------------------
(* The streams.                                                            *)

\* There is a stream only while the identifier is at hand.
StreamInv ==
  /\ pc # "returned" => stream = NoStream
  /\ StreamConsistent

\* What packing makes of the numbers of lines.
LEMMA SixteenBits ==
  ASSUME NEW n \in Nat, n < U16
  PROVE  n % U16 = n
BY DEF U16

\* The lines of a packed frame, active and in all: of two fields t0 and t1 lines
\* long, of which v are active, and of two frames t0 lines long.
TwoFieldsActive(v, t0, t1) == (4 * v + (t0 - v) + 2 * (t1 - v)) % U16
TwoFieldsTotal(t0, t1)     == (2 * t0 + 2 * t1) % U16
TwoFramesActive(v, t0)     == (2 * v + (t0 - v)) % U16
TwoFramesTotal(t0)         == (2 * t0) % U16

LEMMA TwoFields ==
  ASSUME NEW v \in Nat, NEW t0 \in Nat, NEW t1 \in Nat, NEW p0 \in Nat, NEW p1 \in Nat,
         t0 = v + p0, t1 = v + p1, 2 * (t0 + t1) < U16
  PROVE  /\ TwoFieldsActive(v, t0, t1) \in Nat
         /\ TwoFieldsTotal(t0, t1) = TwoFieldsActive(v, t0, t1) + p0
<1> DEFINE active == 4 * v + (t0 - v) + 2 * (t1 - v)
<1> DEFINE total == 2 * t0 + 2 * t1
<1>1. /\ active \in Nat /\ active < U16 /\ total \in Nat /\ total < U16
      /\ total = active + p0
  BY DEF U16
<1>2. TwoFieldsActive(v, t0, t1) = active % U16 /\ TwoFieldsTotal(t0, t1) = total % U16
  BY DEF TwoFieldsActive, TwoFieldsTotal
<1> HIDE DEF active, total
<1>3. active % U16 = active /\ total % U16 = total
  BY <1>1, SixteenBits
<1> QED BY <1>1, <1>2, <1>3

LEMMA TwoFrames ==
  ASSUME NEW v \in Nat, NEW t0 \in Nat, NEW p0 \in Nat, t0 = v + p0, 2 * t0 < U16
  PROVE  /\ TwoFramesActive(v, t0) \in Nat
         /\ TwoFramesTotal(t0) = TwoFramesActive(v, t0) + p0
<1> DEFINE active == 2 * v + (t0 - v)
<1> DEFINE total == 2 * t0
<1>1. /\ active \in Nat /\ active < U16 /\ total \in Nat /\ total < U16
      /\ total = active + p0
  BY DEF U16
<1>2. TwoFramesActive(v, t0) = active % U16 /\ TwoFramesTotal(t0) = total % U16
  BY DEF TwoFramesActive, TwoFramesTotal
<1> HIDE DEF active, total
<1>3. active % U16 = active /\ total % U16 = total
  BY <1>1, SixteenBits
<1> QED BY <1>1, <1>2, <1>3

LEMMA PackedFields ==
  ASSUME NEW s, NEW t \in Timings, s.t = t, s.intl \in BOOLEAN
  PROVE  /\ s.intl =>
              /\ Packed(s)[VActive] = TwoFieldsActive(t[VActive], t[F0PVTotal], t[F1VTotal])
              /\ Packed(s)[F0PVTotal] = TwoFieldsTotal(t[F0PVTotal], t[F1VTotal])
              /\ \A f \in {F1VTotal, F1VFrontPorch, F1VSyncWidth, F1VBackPorch} :
                   Packed(s)[f] = 0
         /\ ~s.intl =>
              /\ Packed(s)[VActive] = TwoFramesActive(t[VActive], t[F0PVTotal])
              /\ Packed(s)[F0PVTotal] = TwoFramesTotal(t[F0PVTotal])
              /\ \A f \in {F1VTotal, F1VFrontPorch, F1VSyncWidth, F1VBackPorch} :
                   Packed(s)[f] = t[f]
         /\ \A f \in {F0PVFrontPorch, F0PVSyncWidth, F0PVBackPorch} : Packed(s)[f] = t[f]
<1> USE DEF VActive, F0PVTotal, F1VTotal, F0PVFrontPorch, F0PVSyncWidth, F0PVBackPorch,
            F1VFrontPorch, F1VSyncWidth, F1VBackPorch
<1>1. DOMAIN t = 1 .. 16
  BY DEF Timings
<1>2. CASE s.intl
  <2> DEFINE a == TwoFieldsActive(t[VActive], t[F0PVTotal], t[F1VTotal])
  <2> DEFINE b == TwoFieldsTotal(t[F0PVTotal], t[F1VTotal])
  <2>1. Packed(s) = [t EXCEPT ![VActive] = a, ![F0PVTotal] = b, ![F1VFrontPorch] = 0,
                              ![F1VSyncWidth] = 0, ![F1VBackPorch] = 0, ![F1VTotal] = 0]
    BY <1>2 DEF Packed, TwoFieldsActive, TwoFieldsTotal
  <2> HIDE DEF a, b
  <2>2. /\ Packed(s)[VActive] = a /\ Packed(s)[F0PVTotal] = b
        /\ \A f \in {F1VTotal, F1VFrontPorch, F1VSyncWidth, F1VBackPorch} : Packed(s)[f] = 0
        /\ \A f \in {F0PVFrontPorch, F0PVSyncWidth, F0PVBackPorch} : Packed(s)[f] = t[f]
    BY <1>1, <2>1
  <2> QED BY <1>2, <2>2 DEF a, b
<1>3. CASE ~s.intl
  <2> DEFINE a == TwoFramesActive(t[VActive], t[F0PVTotal])
  <2> DEFINE b == TwoFramesTotal(t[F0PVTotal])
  <2>1. Packed(s) = [t EXCEPT ![VActive] = a, ![F0PVTotal] = b]
    BY <1>3 DEF Packed, TwoFramesActive, TwoFramesTotal
  <2> HIDE DEF a, b
  <2>2. /\ Packed(s)[VActive] = a /\ Packed(s)[F0PVTotal] = b
        /\ \A f \in {F1VTotal, F1VFrontPorch, F1VSyncWidth, F1VBackPorch} : Packed(s)[f] = t[f]
        /\ \A f \in {F0PVFrontPorch, F0PVSyncWidth, F0PVBackPorch} : Packed(s)[f] = t[f]
    BY <1>1, <2>1
  <2> QED BY <1>3, <2>2 DEF a, b
<1> QED BY <1>2, <1>3

LEMMA PackedSumsUp ==
  ASSUME NEW s, NEW t \in Timings, s.t = t, s.intl \in BOOLEAN,
         s.intl <=> t[F1VTotal] # 0, Consistent(t)
  PROVE  SumsUp(Packed(s), FALSE)
<1>1. /\ t[VActive] \in Nat /\ t[F0PVTotal] \in Nat /\ t[F1VTotal] \in Nat
      /\ t[F0PVFrontPorch] \in Nat /\ t[F0PVSyncWidth] \in Nat /\ t[F0PVBackPorch] \in Nat
      /\ t[F1VFrontPorch] \in Nat /\ t[F1VSyncWidth] \in Nat /\ t[F1VBackPorch] \in Nat
  BY DEF Timings, VActive, F0PVTotal, F1VTotal, F0PVFrontPorch, F0PVSyncWidth, F0PVBackPorch,
         F1VFrontPorch, F1VSyncWidth, F1VBackPorch
<1> DEFINE p0 == t[F0PVFrontPorch] + t[F0PVSyncWidth] + t[F0PVBackPorch]
<1> DEFINE p1 == t[F1VFrontPorch] + t[F1VSyncWidth] + t[F1VBackPorch]
<1>2. /\ t[F0PVTotal] = t[VActive] + t[F0PVFrontPorch] + t[F0PVSyncWidth] + t[F0PVBackPorch]
      /\ 2 * (t[F0PVTotal] + t[F1VTotal]) < U16
  BY DEF Consistent, SumsUp
<1>3. p0 \in Nat /\ p1 \in Nat /\ t[F0PVTotal] = t[VActive] + p0
  BY <1>1, <1>2
<1>4. ASSUME Packed(s)[F0PVTotal] = Packed(s)[VActive] + p0, Packed(s)[VActive] \in Nat,
             \A f \in {F1VTotal, F1VFrontPorch, F1VSyncWidth, F1VBackPorch} : Packed(s)[f] = 0
      PROVE  SumsUp(Packed(s), FALSE)
  <2>1. \A f \in {F0PVFrontPorch, F0PVSyncWidth, F0PVBackPorch} : Packed(s)[f] = t[f]
    BY PackedFields
  <2> QED BY <1>1, <1>4, <2>1 DEF SumsUp
<1>5. CASE t[F1VTotal] # 0
  <2>1. t[F1VTotal] = t[VActive] + p1
    <3>1. t[F1VTotal] = t[VActive] + t[F1VFrontPorch] + t[F1VSyncWidth] + t[F1VBackPorch]
      BY <1>5 DEF Consistent, SumsUp
    <3> QED BY <1>1, <3>1
  <2>2. /\ Packed(s)[VActive] = TwoFieldsActive(t[VActive], t[F0PVTotal], t[F1VTotal])
        /\ Packed(s)[F0PVTotal] = TwoFieldsTotal(t[F0PVTotal], t[F1VTotal])
        /\ \A f \in {F1VTotal, F1VFrontPorch, F1VSyncWidth, F1VBackPorch} : Packed(s)[f] = 0
    BY <1>5, PackedFields
  <2>3. /\ Packed(s)[F0PVTotal] = Packed(s)[VActive] + p0 /\ Packed(s)[VActive] \in Nat
    <3>1. /\ TwoFieldsActive(t[VActive], t[F0PVTotal], t[F1VTotal]) \in Nat
          /\ TwoFieldsTotal(t[F0PVTotal], t[F1VTotal])
               = TwoFieldsActive(t[VActive], t[F0PVTotal], t[F1VTotal]) + p0
      <4> HIDE DEF p0, p1
      <4> QED BY <1>1, <1>2, <1>3, <2>1, TwoFields
    <3> HIDE DEF p0, p1
    <3> QED BY <2>2, <3>1
  <2> QED BY <1>4, <2>2, <2>3
<1>6. CASE t[F1VTotal] = 0
  <2>1. \A f \in {F1VTotal, F1VFrontPorch, F1VSyncWidth, F1VBackPorch} : t[f] = 0
    BY <1>6 DEF Consistent, SumsUp
  <2>2. 2 * t[F0PVTotal] < U16
    BY <1>1, <1>2, <1>6 DEF U16
  <2>3. /\ Packed(s)[VActive] = TwoFramesActive(t[VActive], t[F0PVTotal])
        /\ Packed(s)[F0PVTotal] = TwoFramesTotal(t[F0PVTotal])
        /\ \A f \in {F1VTotal, F1VFrontPorch, F1VSyncWidth, F1VBackPorch} : Packed(s)[f] = 0
    BY <1>6, <2>1, PackedFields
  <2>4. /\ Packed(s)[F0PVTotal] = Packed(s)[VActive] + p0 /\ Packed(s)[VActive] \in Nat
    <3>1. /\ TwoFramesActive(t[VActive], t[F0PVTotal]) \in Nat
          /\ TwoFramesTotal(t[F0PVTotal]) = TwoFramesActive(t[VActive], t[F0PVTotal]) + p0
      <4> HIDE DEF p0
      <4> QED BY <1>1, <1>3, <2>2, TwoFrames
    <3> HIDE DEF p0
    <3> QED BY <2>3, <3>1
  <2> QED BY <1>4, <2>3, <2>4
<1> QED BY <1>5, <1>6, Zenon

\* A mode's data is a function of the custom table and the identifier.
DataIn(c, id) ==
  IF id < NumSupported THEN Row(id)
  ELSE LET Named(r) == r.id = id IN c[FirstIn(c, Named)]

LEMMA DataKept ==
  ASSUME NEW id, stream'.id = id, UNCHANGED custom
  PROVE  VideoModeData(stream.id)' = VideoModeData(id)
<1>1. VideoModeData(stream.id)' = DataIn(custom', stream'.id)
  BY Zenon DEF VideoModeData, DataIn, FirstIn
<1>2. VideoModeData(id) = DataIn(custom, id)
  BY DEF VideoModeData, DataIn
<1> QED BY <1>1, <1>2

\* The stream of a mode, packed and not.
LEMMA PackedStream ==
  ASSUME TypeOK, NEW id \in Nat, Known(id), UNCHANGED table,
         stream'.id = id, stream'.t = Packed(Stream2D(id)), stream'.intl = FALSE
  PROVE  StreamConsistent'
<1> DEFINE t == VideoModeData(id).t
<1>1. t \in Timings
  BY ModeData
<1>2. VideoModeData(stream.id)'.t = t
  BY DataKept DEF table
<1>3. /\ Stream2D(id).t = t /\ Stream2D(id).intl \in BOOLEAN
      /\ Stream2D(id).intl <=> t[F1VTotal] # 0
  BY DEF Stream2D, IsInterlaced
<1> HIDE DEF t
<1>4. Consistent(t) => SumsUp(stream'.t, FALSE)
  BY <1>1, <1>3, PackedSumsUp
<1> QED BY <1>2, <1>4 DEF StreamConsistent

LEMMA PlainStream ==
  ASSUME TypeOK, NEW id \in Nat, Known(id), UNCHANGED table,
         stream'.id = id, stream'.format # "frame packing",
         stream'.t = VideoModeData(id).t, stream'.intl = IsInterlaced(id)
  PROVE  StreamConsistent'
<1> DEFINE t == VideoModeData(id).t
<1>1. VideoModeData(stream.id)'.t = t
  BY DataKept DEF table
<1>2. stream'.t = t /\ stream'.intl = (t[F1VTotal] # 0)
  BY DEF IsInterlaced
<1> HIDE DEF t
<1>3. Consistent(t) => SumsUp(t, t[F1VTotal] # 0)
  BY DEF Consistent
<1> QED BY <1>1, <1>2, <1>3 DEF StreamConsistent

LEMMA StreamsKept ==
  ASSUME TypeOK, StreamInv, [Next]_vars
  PROVE  StreamInv'
<1>1. CASE SetVideoStream
  <2>1. /\ Known(result) /\ result \in Nat /\ pc' = "returned" /\ UNCHANGED table
        /\ stream' = Stream2D(result)
    BY <1>1 DEF SetVideoStream, TypeOK
  <2>2. /\ stream'.id = result /\ stream'.format = "2D" /\ stream'.t = VideoModeData(result).t
        /\ stream'.intl = IsInterlaced(result)
    BY <2>1 DEF Stream2D
  <2>3. StreamConsistent'
    BY <2>1, <2>2, PlainStream
  <2> QED BY <2>1, <2>3 DEF StreamInv
<1>2. CASE \E format \in {"frame packing", "side by side"} : Set3DVideoStream(format)
  <2>1. PICK format \in {"frame packing", "side by side"} : Set3DVideoStream(format)
    BY <1>2
  <2>2. /\ Known(result) /\ result \in Nat /\ pc' = "returned" /\ UNCHANGED table
        /\ stream' = [Stream2D(result) EXCEPT
             !.format = format,
             !.t = IF format = "frame packing" THEN Packed(Stream2D(result)) ELSE @,
             !.intl = @ /\ format # "frame packing"]
    BY <2>1 DEF Set3DVideoStream, TypeOK
  <2>3. CASE format = "frame packing"
    <3>1. /\ stream'.id = result /\ stream'.t = Packed(Stream2D(result))
          /\ stream'.intl = FALSE
      BY <2>2, <2>3 DEF Stream2D
    <3> QED BY <2>2, <3>1, PackedStream DEF StreamInv
  <2>4. CASE format # "frame packing"
    <3>1. /\ stream'.id = result /\ stream'.format # "frame packing"
          /\ stream'.t = VideoModeData(result).t /\ stream'.intl = IsInterlaced(result)
      BY <2>2, <2>4 DEF Stream2D, IsInterlaced
    <3> QED BY <2>2, <3>1, PlainStream DEF StreamInv
  <2> QED BY <2>1, <2>3, <2>4
<1>3. CASE UNCHANGED <<table, pc, stream>>
  <2>1. VideoModeData(stream.id)' = VideoModeData(stream.id)
    BY <1>3, DataKept DEF table
  <2> QED BY <1>3, <2>1 DEF StreamInv, StreamConsistent
<1>4. CASE pc # "returned" /\ UNCHANGED stream
  BY <1>4 DEF StreamInv, StreamConsistent
<1>5. CASE Leave
  BY <1>5 DEF Leave, StreamInv, StreamConsistent
<1>6. CASE \/ Unregister \/ \E t \in CustomTables : Register(t)
           \/ \E q \in Queries : Call(q)
  BY <1>4, <1>6 DEF Register, Unregister, Call
<1>7. CASE Search
  BY <1>4, <1>7 DEF Search, Bisect, Rewind, Scan, ScanBehindTable, Walk
<1> QED BY <1>1, <1>2, <1>3, <1>5, <1>6, <1>7 DEF Next, vars

LEMMA StreamsHold == Spec => []StreamInv
<1>1. Init => StreamInv
  BY DEF Init, StreamInv, StreamConsistent
<1> QED BY <1>1, StreamsKept, TypesHold, PTL DEF Spec

\* For every table of timings that add up: those of the streams do, packed ones
\* too.
THEOREM StreamsSumUp == Spec => []StreamConsistent
<1>1. StreamInv => StreamConsistent
  BY DEF StreamInv
<1> QED BY <1>1, StreamsHold, PTL
=============================================================================
