------------------------------ MODULE MCCreditLots ------------------------------
(***************************************************************************)
(* Constants of CreditLots for TLC: a free kind of lot, and a paid one whose *)
(* unit price is rounded and whose journals are rounded too.                *)
(***************************************************************************)
EXTENDS CreditLots

CONSTANTS c1, c2

MCCallers == {c1, c2}
MCOffers == {[credits |-> 2, paid |-> 25], [credits |-> 1, paid |-> 0]}
MCNeeds == {1, 2}
MCSymmetry == {[c \in MCCallers |-> c], [c \in MCCallers |-> IF c = c1 THEN c2 ELSE c1]}
===============================================================================
