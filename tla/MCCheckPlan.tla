---------------------------- MODULE MCCheckPlan ----------------------------
(* Every sequence of at most MaxChecks -check values, with and without a   *)
(* policy path, or with a blank one.                                       *)
EXTENDS CheckPlan

CONSTANT MaxChecks

MCCheckValues == SupportedCheck \cup {"", "unknown"}

MCRequest ==
    [checks : UNION {[1..n -> MCCheckValues] : n \in 0..MaxChecks},
     policyPath : {"", " ", "policy"}]
=============================================================================
