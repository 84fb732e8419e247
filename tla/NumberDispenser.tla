---------------------------- MODULE NumberDispenser ----------------------------
(***************************************************************************)
(* What callers of FinanceModule._next_formatted_number rely on: each scope *)
(* (one scope per kind of journal, one for credit lots) hands out           *)
(* identifiers <<series, number>>, and every identifier handed out is later *)
(* than all earlier ones of its scope.  Numbers may be skipped, a scope may *)
(* stop handing out numbers, but it never goes back, until an administrator *)
(* sets it back by hand.  NumberSequence is shown to implement this.        *)
(***************************************************************************)
EXTENDS Integers

CONSTANT Scopes

VARIABLES
  high,      \* high[s]: the last identifier scope s handed out
  trusted    \* scopes nobody has set back

Later(a, b) == \/ a[1] < b[1]
               \/ a[1] = b[1] /\ a[2] < b[2]

Init == /\ high = [s \in Scopes |-> <<0, 0>>]
        /\ trusted = Scopes

\* One call of the dispenser takes one identifier, in one step.
Issue(s) == /\ s \in trusted => Later(high[s], high'[s])
            /\ \A t \in Scopes \ {s} : high'[t] = high[t]
            /\ UNCHANGED trusted

SetBack(s) == trusted' = trusted \ {s} /\ UNCHANGED high

Next == \E s \in Scopes : Issue(s) \/ SetBack(s)

Spec == Init /\ [][Next]_<<high, trusted>>
===============================================================================
