----------------------------- MODULE MCTmrLoads -----------------------------
(***************************************************************************)
(* TmrLoads with requests at the bounds of what is accepted, between two   *)
(* clocks, and so long that the rounding overflows.                        *)
(***************************************************************************)
EXTENDS TmrLoads

Request(p, h) == [period |-> p, high |-> h]

SomeRequests ==
  {Request(8, 8), Request(7, 7), Request(23, 10), Request(23, 5), Request(10, 23),
   Request(29, 25), Request(31, 11)}
=============================================================================
