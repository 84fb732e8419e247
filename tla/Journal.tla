-------------------------------- MODULE Journal --------------------------------
(***************************************************************************)
(* Journals and fiscal periods of the finance module: creating a journal    *)
(* with its lines, submitting, approving, rejecting, posting and reversing  *)
(* it, and closing, reopening, locking and unlocking its period.            *)
(*                                                                          *)
(* Every call reads, checks and writes with SQL statements of its own that  *)
(* commit one by one, so an action is one statement with the Python code up *)
(* to the next: what a call has checked may be out of date when it writes.  *)
(* update_status_v1 writes the status unconditionally, and writes NULL into *)
(* the two links (reversed_by, reversal_of) it is given no value for;       *)
(* closing a period is a conditional update.                                *)
(***************************************************************************)
EXTENDS Integers, Sequences, FiniteSets, SequencesExt

CONSTANTS
  Callers,          \* coroutines running an operation
  Keys,             \* posting keys of the events that are journalised
  Periods,
  PeriodOf,         \* PeriodOf[k]: the period of the journal with key k
  LinesOf,          \* LinesOf[k]: its lines, debit minus credit of each
  Collecting,       \* keys of the journals product configurations name
  Operations,       \* the operations that are called in this instance
  MaxCalls,         \* bound: operations started
  MaxReversals,     \* bound: how often a reversal is itself reversed
  MaxFailures       \* bound: operations cut short by an error or a restart

\* Amounts are in 0.0001 of the currency, to which create_journal rounds every debit
\* and credit: a difference within the tolerance of 0.00001 is none.  A purchase adds
\* one amount on both sides.
Balanced(lines) == SumFunction(lines) = 0
Negated(lines) == [i \in DOMAIN lines |-> -lines[i]]

\* Some first part of the lines balances.
BalancedOnce(lines) == \E n \in 1 .. Len(lines) : Balanced(SubSeq(lines, 1, n))

ASSUME JournalAssumption ==
  /\ IsFiniteSet(Callers)
  /\ PeriodOf \in [Keys -> Periods]
  /\ LinesOf \in [Keys -> Seq(Int)]
  /\ Collecting \subseteq Keys
  /\ Operations \subseteq {"create", "system", "submit", "approve", "reject", "reverse",
                           "append", "close", "reopen", "lock", "unlock"}
  /\ MaxCalls \in Nat /\ MaxReversals \in Nat /\ MaxFailures \in Nat

\* The events whose journal tells when it is not written to the end: no first part of
\* its lines balances.  Costs that are all positive, against one payable, are like that;
\* the billing import also writes costs of zero and below.
Telling ==
  {k \in Keys : \A lines \in {LinesOf[k], Negated(LinesOf[k])} :
     \A n \in 1 .. Len(lines) - 1 : ~Balanced(SubSeq(lines, 1, n))}

VARIABLES
  journals,    \* finance_journals with their lines, by recid
  period,      \* element_status of each period
  pc,          \* where each caller is
  cur,         \* cur[c]: what c knows: its journal, its key, the lines to write
  calls, failures

counters == <<calls, failures>>
vars == <<journals, period, pc, cur, calls, failures>>

-----------------------------------------------------------------------------
(* Journals and periods *)

Draft == "DRAFT"
PendingApproval == "PENDING_APPROVAL"
Posted == "POSTED"
Reversed == "REVERSED"

Open == "OPEN"
PeriodClosed == "CLOSED"
Locked == "LOCKED"

\* The posting key of a journal, of its reversal ("REV-" put before it), of
\* the reversal of that, ...: the key of the event and the number of "REV-".
PostingKey == Keys \X (0 .. MaxReversals)

ReversalKey(key) == <<key[1], key[2] + 1>>

\* The lines of the event, or for a reversal their opposites.
LinesWith(key) == IF key[2] % 2 = 0 THEN LinesOf[key[1]] ELSE Negated(LinesOf[key[1]])

\* A recid of 0 stands for NULL.
JournalRow == [key : PostingKey, status : {Draft, PendingApproval, Posted, Reversed},
               lines : Seq(Int), reversed_by : Nat, reversal_of : Nat]

PeriodOfJournal(j) == PeriodOf[journals[j].key[1]]

WithKey(key) == {j \in DOMAIN journals : journals[j].key = key}

\* update_status_v1
SetStatus(j, status, reversed_by, reversal_of) ==
  journals' = [journals EXCEPT ![j] = [@ EXCEPT !.status = status, !.reversed_by = reversed_by,
                                                !.reversal_of = reversal_of]]

\* What a caller remembers of its call.
Nothing == [op |-> "none", recid |-> 0, original |-> 0, key |-> <<>>, lines |-> <<>>]

-----------------------------------------------------------------------------
(* Calls *)

Starts(c, op) == /\ pc[c] = "idle"
                 /\ op \in Operations
                 /\ calls < MaxCalls
                 /\ calls' = calls + 1
                 /\ UNCHANGED failures

At(c, step) == pc[c] = step /\ UNCHANGED counters

Goes(c, step) == pc' = [pc EXCEPT ![c] = step]

\* The call returns or raises.
Ends(c) == Goes(c, "idle") /\ cur' = [cur EXCEPT ![c] = Nothing]

\* Go on to the next statement if the check holds, raise otherwise.
Check(c, holds, step) == IF holds THEN Goes(c, step) /\ UNCHANGED cur ELSE Ends(c)

-----------------------------------------------------------------------------
(* create_journal, create_and_post_system_journal *)

Create(c, op, k) ==
  /\ op \in {"create", "system"}
  /\ Starts(c, op)
  /\ Goes(c, "lookup")
  /\ cur' = [cur EXCEPT ![c] = [Nothing EXCEPT !.op = op, !.key = <<k, 0>>, !.lines = LinesOf[k]]]
  /\ UNCHANGED <<journals, period>>

\* Mutant: lines that do not balance are written too.
LookupUnchecked(c) ==
  /\ At(c, "lookup")
  /\ \/ \E j \in WithKey(cur[c].key) :
          IF cur[c].op = "create" THEN Ends(c)
          ELSE Goes(c, "post") /\ cur' = [cur EXCEPT ![c].recid = j]
     \/ WithKey(cur[c].key) = {} /\ Check(c, TRUE, "insert")
  /\ UNCHANGED <<journals, period>>

\* get_by_posting_key_v1, and the check that the lines to be written balance.
Lookup(c) ==
  /\ At(c, "lookup")
  /\ \/ \E j \in WithKey(cur[c].key) :
          IF cur[c].op = "create" THEN Ends(c)
          ELSE Goes(c, "post") /\ cur' = [cur EXCEPT ![c].recid = j]
     \/ /\ WithKey(cur[c].key) = {}
        /\ Check(c, Balanced(cur[c].lines), "insert")
  /\ UNCHANGED <<journals, period>>

\* Journal j has its row and all lines but the rest: write on, or go on to post
\* it, or be done.
LinesLeft(c, j, rest) ==
  IF rest = <<>> /\ cur[c].op \in {"create", "append"} THEN Ends(c)
  ELSE /\ Goes(c, IF rest # <<>> THEN "line" ELSE "post")
       /\ cur' = [cur EXCEPT ![c].recid = j, ![c].lines = rest]

\* The name of a keyed journal is its key, and names are unique (unique index
\* UQ_finance_journals_name), so a second insert fails.
Insert(c) ==
  /\ At(c, "insert")
  /\ IF WithKey(cur[c].key) = {}
     THEN /\ journals' = Append(journals, [key |-> cur[c].key, status |-> Draft, lines |-> <<>>,
                                           reversed_by |-> 0, reversal_of |-> 0])
          /\ LinesLeft(c, Len(journals) + 1, cur[c].lines)
     ELSE Ends(c) /\ UNCHANGED journals
  /\ UNCHANGED period

\* create_lines_batch_v1: one transaction for each line.
InsertLine(c) ==
  /\ At(c, "line")
  /\ journals' = [journals EXCEPT ![cur[c].recid].lines = Append(@, Head(cur[c].lines))]
  /\ LinesLeft(c, cur[c].recid, Tail(cur[c].lines))
  /\ UNCHANGED period

\* _append_balanced_journal_lines: a purchase adds its debit and its credit to
\* the journal of the product's configuration, whatever the journal's status.
AppendTo(c, j) ==
  /\ Starts(c, "append")
  /\ journals[j].key[1] \in Collecting
  /\ Goes(c, "line")
  /\ cur' = [cur EXCEPT ![c] = [Nothing EXCEPT !.op = "append", !.recid = j, !.lines = <<1, -1>>]]
  /\ UNCHANGED <<journals, period>>

-----------------------------------------------------------------------------
(* post_journal *)

PostRead(c) ==
  /\ At(c, "post")
  /\ Check(c, journals[cur[c].recid].status \in {Draft, PendingApproval}, "post_period")
  /\ UNCHANGED <<journals, period>>

PostPeriod(c) ==
  /\ At(c, "post_period")
  /\ Check(c, period[PeriodOfJournal(cur[c].recid)] = Open, "post_lines")
  /\ UNCHANGED <<journals, period>>

\* Mutant: only an empty journal is refused.
PostLinesUnchecked(c) ==
  /\ At(c, "post_lines")
  /\ Check(c, journals[cur[c].recid].lines # <<>>, "post_write")
  /\ UNCHANGED <<journals, period>>

PostLines(c) ==
  /\ At(c, "post_lines")
  /\ LET lines == journals[cur[c].recid].lines
     IN  Check(c, lines # <<>> /\ Balanced(lines), "post_write")
  /\ UNCHANGED <<journals, period>>

PostWrite(c) ==
  /\ At(c, "post_write")
  /\ SetStatus(cur[c].recid, Posted, 0, 0)
  /\ IF cur[c].op = "reverse" THEN Goes(c, "mark_original") /\ UNCHANGED cur ELSE Ends(c)
  /\ UNCHANGED period

-----------------------------------------------------------------------------
(* submit_journal_for_approval, approve_journal, reject_journal *)

\* A call that begins by reading journal j and refusing it in another status.
Opens(c, op, j, status, step) ==
  /\ Starts(c, op)
  /\ journals[j].status = status
  /\ Goes(c, step)
  /\ cur' = [cur EXCEPT ![c] = [Nothing EXCEPT !.op = op, !.recid = j]]
  /\ UNCHANGED <<journals, period>>

Submit(c, j) == Opens(c, "submit", j, Draft, "submit_lines")
Approve(c, j) == Opens(c, "approve", j, PendingApproval, "post")
Reject(c, j) == Opens(c, "reject", j, PendingApproval, "reject_write")

SubmitLines(c) ==
  /\ At(c, "submit_lines")
  /\ LET lines == journals[cur[c].recid].lines
     IN  Check(c, lines # <<>> /\ Balanced(lines), "submit_write")
  /\ UNCHANGED <<journals, period>>

SubmitWrite(c) ==
  /\ At(c, "submit_write")
  /\ SetStatus(cur[c].recid, PendingApproval, 0, 0)
  /\ Ends(c)
  /\ UNCHANGED period

RejectWrite(c) ==
  /\ At(c, "reject_write")
  /\ SetStatus(cur[c].recid, Draft, 0, 0)
  /\ Ends(c)
  /\ UNCHANGED period

-----------------------------------------------------------------------------
(* reverse_journal *)

ReverseJournal(c, j) ==
  /\ journals[j].key[2] < MaxReversals
  /\ Opens(c, "reverse", j, Posted, "reverse_period")

ReversePeriod(c) ==
  /\ At(c, "reverse_period")
  /\ Check(c, period[PeriodOfJournal(cur[c].recid)] = Open, "reverse_lines")
  /\ UNCHANGED <<journals, period>>

\* The reversal gets the lines of the original with debit and credit exchanged.
ReverseLines(c) ==
  /\ At(c, "reverse_lines")
  /\ LET j == cur[c].recid
     IN  IF journals[j].lines # <<>>
         THEN /\ Goes(c, "lookup")
              /\ cur' = [cur EXCEPT ![c] =
                   [Nothing EXCEPT !.op = "reverse", !.original = j,
                                   !.key = ReversalKey(journals[j].key),
                                   !.lines = Negated(journals[j].lines)]]
         ELSE Ends(c)
  /\ UNCHANGED <<journals, period>>

MarkOriginal(c) ==
  /\ At(c, "mark_original")
  /\ SetStatus(cur[c].original, Reversed, cur[c].recid, 0)
  /\ Goes(c, "mark_reversal")
  /\ UNCHANGED <<period, cur>>

MarkReversal(c) ==
  /\ At(c, "mark_reversal")
  /\ SetStatus(cur[c].recid, Posted, 0, cur[c].original)
  /\ Ends(c)
  /\ UNCHANGED period

-----------------------------------------------------------------------------
(* close_period, reopen_period, lock_period, unlock_period *)

\* vw_finance_period_close_blockers: the journals of the period not posted yet.
Blockers(p) == {j \in DOMAIN journals : /\ PeriodOfJournal(j) = p
                                        /\ journals[j].status \in {Draft, PendingApproval}}

CloseCheck(c, p) ==
  /\ Starts(c, "close")
  /\ period[p] = Open
  /\ Blockers(p) = {}
  /\ Goes(c, "close")
  /\ cur' = [cur EXCEPT ![c] = [Nothing EXCEPT !.op = "close", !.key = <<p>>]]
  /\ UNCHANGED <<journals, period>>

CloseWrite(c) ==
  /\ At(c, "close")
  /\ LET p == cur[c].key[1]
     IN  period' = IF period[p] = Open THEN [period EXCEPT ![p] = PeriodClosed] ELSE period
  /\ Ends(c)
  /\ UNCHANGED journals

\* The conditional updates; the read before them decides nothing more.
MovePeriod(c, op, p, from, to) ==
  /\ Starts(c, op)
  /\ period[p] = from
  /\ period' = [period EXCEPT ![p] = to]
  /\ UNCHANGED <<journals, pc, cur>>

ReopenPeriod(c, p) == MovePeriod(c, "reopen", p, PeriodClosed, Open)
LockPeriod(c, p) == MovePeriod(c, "lock", p, PeriodClosed, Locked)
UnlockPeriod(c, p) == MovePeriod(c, "unlock", p, Locked, PeriodClosed)

\* A call is cut short between two statements.
Fail(c) ==
  /\ pc[c] # "idle"
  /\ failures < MaxFailures
  /\ failures' = failures + 1
  /\ Ends(c)
  /\ UNCHANGED <<journals, period, calls>>

-----------------------------------------------------------------------------
Init ==
  /\ journals = <<>>
  /\ period = [p \in Periods |-> Open]
  /\ pc = [c \in Callers |-> "idle"]
  /\ cur = [c \in Callers |-> Nothing]
  /\ calls = 0 /\ failures = 0

Next ==
  \E c \in Callers :
    \/ \E k \in Keys, op \in {"create", "system"} : Create(c, op, k)
    \/ Lookup(c) \/ Insert(c) \/ InsertLine(c)
    \/ PostRead(c) \/ PostPeriod(c) \/ PostLines(c) \/ PostWrite(c)
    \/ \E j \in DOMAIN journals : Submit(c, j) \/ Approve(c, j) \/ Reject(c, j)
                                \/ ReverseJournal(c, j) \/ AppendTo(c, j)
    \/ SubmitLines(c) \/ SubmitWrite(c) \/ RejectWrite(c)
    \/ ReversePeriod(c) \/ ReverseLines(c) \/ MarkOriginal(c) \/ MarkReversal(c)
    \/ \E p \in Periods : CloseCheck(c, p) \/ ReopenPeriod(c, p) \/ LockPeriod(c, p)
                          \/ UnlockPeriod(c, p)
    \/ CloseWrite(c) \/ Fail(c)

Spec == Init /\ [][Next]_vars

-----------------------------------------------------------------------------
(* Properties *)

(* Every variable stays in its type; a caller only holds recids of journals *)
(* that exist, and 0 for none.                                              *)
TypeOK ==
  /\ journals \in Seq(JournalRow)
  /\ period \in [Periods -> {Open, PeriodClosed, Locked}]
  /\ \A c \in Callers : cur[c].recid \in 0 .. Len(journals)
  /\ calls \in 0 .. MaxCalls /\ failures \in 0 .. MaxFailures

InBooks(j) == journals[j].status \in {Posted, Reversed}

\* While no call is cut short, the lines a journal has and the lines that calls
\* have yet to write to it balance, also when several calls write at once.
BalancesInTheEnd ==
  failures = 0 =>
    \A j \in DOMAIN journals :
      LET writers == {c \in Callers : pc[c] = "line" /\ cur[c].recid = j}
      IN  SumFunction(journals[j].lines)
            + SumFunctionOnSet([c \in Callers |-> SumFunction(cur[c].lines)], writers) = 0

\* Whatever is in the books has all the lines of its event, or for a reversal
\* their opposites, although lines are written one by one while other calls
\* may already submit, approve or post the journal, and a call that is cut short
\* leaves some out: unless a first part of those lines balances.  Then such a part may
\* have been posted, and the books hold no more than the lines of the event so far.
\* Journals that purchases write to have no such lines.
PostedIsComplete ==
  \A j \in DOMAIN journals : InBooks(j) /\ journals[j].key[1] \notin Collecting =>
    LET lines == journals[j].lines
        all == LinesWith(journals[j].key)
    IN  /\ BalancedOnce(lines)
        /\ IsPrefix(lines, all)
        /\ journals[j].key[1] \in Telling => lines = all

\* A reversed journal names its reversal, which has its lines with debit and
\* credit exchanged: the two cancel each other.  Lines may still be added to one of
\* them if a first part balances, and purchases go on writing to a journal that has
\* been reversed: there the reversal is a journal that balanced when it was posted.
ReversedIsCancelled ==
  \A j \in DOMAIN journals : journals[j].status = Reversed =>
    /\ journals[j].reversed_by \in DOMAIN journals
    /\ LET reversal == journals[journals[j].reversed_by]
           k == journals[j].key[1]
       IN  /\ reversal.key = ReversalKey(journals[j].key)
           /\ BalancedOnce(reversal.lines)
           /\ k \in Telling \ Collecting => reversal.lines = Negated(journals[j].lines)

\* The books are sound: what is posted balanced and, where the lines tell, is complete,
\* and what is reversed is cancelled (post_journal, reverse_journal).
BooksAreSound == TypeOK /\ PostedIsComplete /\ ReversedIsCancelled
===============================================================================
