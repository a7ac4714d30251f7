------------------------------- MODULE Settings -------------------------------
(***************************************************************************)
(* What the drivers promise of a device's settings: a call changes those   *)
(* it is asked to change to the values it is given, and is done when all   *)
(* are changed; no other setting ever changes.  A setting is a set, and on *)
(* the way each of its elements is as before or as asked.  The program may *)
(* be killed at any time, the card keeps what it has.                      *)
(***************************************************************************)
VARIABLES value,    \* setting -> what reading it back gives
          asked     \* some settings -> what the current call shall make them

NoCall == [s \in {} |-> {}]

Init == asked = NoCall

Ask ==
  /\ asked = NoCall
  /\ \E S \in SUBSET DOMAIN value : DOMAIN asked' = S
  /\ UNCHANGED value

Change ==
  /\ DOMAIN value' = DOMAIN value
  /\ \A s \in DOMAIN value \ DOMAIN asked : value'[s] = value[s]
  /\ \A s \in DOMAIN asked :
       /\ value[s] \cap asked[s] \subseteq value'[s]
       /\ value'[s] \subseteq value[s] \cup asked[s]
  /\ \/ UNCHANGED asked
     \/ asked' = NoCall /\ \A s \in DOMAIN asked : value'[s] = asked[s]

Kill == asked' = NoCall /\ UNCHANGED value

Next == Ask \/ Change \/ Kill

Spec == Init /\ [][Next]_<<value, asked>>
=============================================================================
