------------------------------- MODULE MCBatchJob -------------------------------
EXTENDS BatchJob

CONSTANT m1

Recurring == [enabled |-> TRUE, recurrence |-> "recurring", limit |-> 0, until |-> 0,
              parses |-> TRUE, minutes |-> Minutes]
Once == [Recurring EXCEPT !.recurrence = "once"]
RunForOne == [Recurring EXCEPT !.recurrence = "run_for", !.limit = 1]
UntilOne == [Recurring EXCEPT !.recurrence = "run_until", !.until = 1]
Broken == [Once EXCEPT !.parses = FALSE]

\* In the order of their names: Broken breaks off the ticks that come to it.
RunForOneBroken == <<RunForOne, Broken>>

\* The job is taken off, or given an end.
Edits == {UntilOne, [Recurring EXCEPT !.enabled = FALSE]}
===============================================================================
