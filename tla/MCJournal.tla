------------------------------- MODULE MCJournal -------------------------------
EXTENDS Journal, TLC

CONSTANTS c1, c2, c3, import, credit, sales, typo, january

CallerSymmetry == Permutations(Callers)

AllInJanuary == [k \in Keys |-> january]

\* Two costs against one payable, as the billing import writes them; a cost, its
\* refund, and nothing to pay; the journal of a product, empty until something is
\* bought; and lines that do not balance.
LinesOfKeys == [k \in Keys |-> CASE k = import -> <<1, 2, -3>> [] k = credit -> <<1, -1, 0>>
                                   [] k = sales -> <<>> [] OTHER -> <<1, -2>>]
===============================================================================
