---------------------------- MODULE MCVideoModes ----------------------------
(***************************************************************************)
(* VideoModes on the real table: each of its modes is asked for with every *)
(* function, and so are modes that it has not.                             *)
(***************************************************************************)
EXTENDS VideoModes, VideoTimings

\* A custom mode that hides a standard one, its variant with reduced blanking,
\* and a mode of a size that the table has not.
Shadow == [id |-> 213, rate |-> 60, rb |-> 0,
           t |-> <<1920, 100, 44, 136, 2200, 1, 1080, 4, 5, 36, 1125, 0, 0, 0, 0, 1>>]
ShadowRb == [Shadow EXCEPT !.id = 214, !.rb = 1]
Panel == [id |-> 220, rate |-> 60, rb |-> 0,
          t |-> <<800, 40, 48, 40, 928, 0, 480, 13, 3, 29, 525, 0, 0, 0, 0, 0>>]
SomeTables == {<<Shadow, ShadowRb>>, <<Panel>>}

Ask(fn, r, intl, rb) == [fn |-> fn, t |-> r.t, rate |-> r.rate, intl |-> intl, rb |-> rb]

AllRows == { XVidC_VideoTimingModes[i] : i \in DOMAIN XVidC_VideoTimingModes }
Custom3 == {Shadow, ShadowRb, Panel}

\* A rate, a width and a vertical total that are in no row of that size.
Odd(r) == {[r EXCEPT !.rate = 1], [r EXCEPT !.t[1] = @ + 1], [r EXCEPT !.t[11] = @ + 3]}

AllQueries ==
  LET asked == AllRows \cup Custom3 \cup UNION { Odd(r) : r \in AllRows } IN
  { Ask("id", r, intl, 0) : r \in asked, intl \in BOOLEAN }
    \cup { Ask("extensive", r, r.t[15] # 0, 0) : r \in asked }
    \cup { Ask("blanking", r, r.t[15] # 0, 0) : r \in asked }
    \cup { Ask("rb", r, r.t[15] # 0, rb) : r \in AllRows \cup Custom3, rb \in 0 .. 2 }

\* Those whose answer is the subject of a comment.
FewQueries ==
  { Ask(fn, r, FALSE, 0) : fn \in {"id", "rb"},
                           r \in { x \in AllRows : x.t[1] \in {1280, 1920, 7680} /\ x.t[15] = 0 } }

First == Len(InterlacedModes)

IdNamesItsRow == IdNamesRow(XVidC_VideoMode)
=============================================================================
