--------------------------- MODULE MCImportPromotion ---------------------------
(***************************************************************************)
(* Constants of ImportPromotion for TLC: an import from Azure with two line *)
(* items, the first of which costs nothing, and a payment request, which    *)
(* always has one.                                                          *)
(***************************************************************************)
EXTENDS ImportPromotion

CONSTANTS azure, request

MCImports == {azure, request}
MCItems == [i \in MCImports |-> IF i = azure THEN 2 ELSE 1]
MCEvenParts == [i \in MCImports |-> IF i = azure THEN {1} ELSE {}]
===============================================================================
