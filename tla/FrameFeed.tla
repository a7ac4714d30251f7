----------------------------- MODULE FrameFeed -----------------------------
(***************************************************************************)
(* What streaming2() (src/main.c) promises to the readers of the shared    *)
(* memory /video_stream_shm: frames are drawn one after the other, row by  *)
(* row, and the frame counter in front of the rows advances by one exactly *)
(* when all the rows hold the new frame.  A frame may be given up half     *)
(* drawn (the program is killed); it is then never announced.              *)
(***************************************************************************)
EXTENDS Naturals

CONSTANTS Height,          \* FRAME_HEIGHT
          CounterModulus   \* the counter has 32 bits: 2^32 in C

Rows == 0 .. Height - 1

VARIABLES drawing,   \* number of the frame being drawn
          rows,      \* the frame each row was drawn from, 0 for none
          counter,   \* the frame counter
          announced  \* the frame the counter announced last

vars == <<drawing, rows, counter, announced>>

Init == /\ drawing = 0
        /\ rows = [r \in Rows |-> 0]
        /\ counter = 0
        /\ announced = 0

NextFrame == /\ drawing' = drawing + 1
             /\ UNCHANGED <<rows, counter, announced>>

Draw(r) == /\ rows' = [rows EXCEPT ![r] = drawing]
           /\ UNCHANGED <<drawing, counter, announced>>

Announce == /\ announced # drawing
            /\ \A r \in Rows : rows[r] = drawing
            /\ counter' = (counter + 1) % CounterModulus
            /\ announced' = drawing
            /\ UNCHANGED <<drawing, rows>>

Next == NextFrame \/ Announce \/ \E r \in Rows : Draw(r)

Spec == Init /\ [][Next]_vars
=============================================================================
