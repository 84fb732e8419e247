--------------------------- MODULE MCNumberSequence ---------------------------
EXTENDS NumberSequence, TLC

CONSTANTS c1, c2, c3, billing

CallerSymmetry == Permutations(Callers)

\* Two account numbers for each scope.
AccountNumbers == [s \in Scopes |-> {<<s, 1>>, <<s, 2>>}]

NewSequence(s, max) == [scope |-> s, account |-> <<s, 1>>, series |-> 1,
                        last |-> 0, max |-> max, status |-> Active]

OneScope == <<NewSequence(billing, 1)>>
===============================================================================
