------------------------------ MODULE MCAlertEngine ------------------------------
(***************************************************************************)
(* AlertEngine for TLC: rules are alike but for what clients save in them. *)
(***************************************************************************)
EXTENDS AlertEngine, TLC

\* Rule ids are interchangeable.
RuleSymmetry == Permutations(RuleIds)
================================================================================
