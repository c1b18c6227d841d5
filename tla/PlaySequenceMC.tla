--------------------------- MODULE PlaySequenceMC ---------------------------
(***************************************************************************)
(* Small sessions with play_sequence for TLC.                              *)
(***************************************************************************)
EXTENDS PlaySequence, SampleCommands

CONSTANT MCUnknown

Plan(steps, stop_on_error) == [steps |-> steps, stop_on_error |-> stop_on_error, nested |-> FALSE]

MCCommands ==
  {KeyfobTx, CoercedTx, BlockedTx, BadPathTx, Capture(60, 1), TwoSweeps, Proposal("grant_list")}

(* Two transmissions of which the second may be over the budget; one that  *)
(* is asked for after one that is refused; an unknown step, with and       *)
(* without stopping at it; and two that do not validate.                   *)
MCPlans ==
  { Plan(<<KeyfobTx, KeyfobTx>>, TRUE),
    Plan(<<BlockedTx, CoercedTx, KeyfobTx>>, FALSE),
    Plan(<<Proposal("grant_list"), CoercedTx>>, TRUE),
    Plan(<<MCUnknown, KeyfobTx>>, TRUE),
    Plan(<<MCUnknown, Proposal("grant_list")>>, FALSE),
    Plan(<<KeyfobTx>>, TRUE),
    Plan(<<BadPathTx, Capture(60, 1), TwoSweeps>>, FALSE),
    [Plan(<<KeyfobTx, KeyfobTx>>, TRUE) EXCEPT !.nested = TRUE] }
=============================================================================
