---------------------------- MODULE MCValidator -----------------------------
(***************************************************************************)
(* Charts are interchangeable: lists are merged chart by chart, and the    *)
(* order in which files and lists are found is any.                        *)
(***************************************************************************)
EXTENDS Validator, TLC

MCSymmetry == Permutations(Ids)
=============================================================================
