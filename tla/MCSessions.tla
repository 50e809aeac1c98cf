------------------------------ MODULE MCSessions ------------------------------
(* Workers differ in nothing but the request they serve. *)
EXTENDS Sessions, TLC

CONSTANTS admin, user, w1, w2

Workers == Permutations(Worker)
=============================================================================
