----------------------------- MODULE MCJudgeNodes -----------------------------
(* Two nodes and three requests for TLC. *)
EXTENDS JudgeNodes

CONSTANTS n1, n2

MCNewRow == [life : {"live"}, status : {"online"}, load : {0}, cap : {1}]

(* A node is taken into maintenance with a load that it cannot have, set   *)
(* back online with one submission running, given a limit of two, or given *)
(* a status that it cannot have.                                           *)
MCBody ==
  {[NoPatch EXCEPT !.set = {"status", "load"}, !.status = "maintenance", !.load = -1],
   [NoPatch EXCEPT !.set = {"status", "load"}, !.load = 1],
   [NoPatch EXCEPT !.set = {"cap"}, !.cap = 2],
   [NoPatch EXCEPT !.set = {"status"}, !.status = "other"]}
=============================================================================
