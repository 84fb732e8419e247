---------------------------- MODULE NumberSequence ----------------------------
(***************************************************************************)
(* Number sequences of the finance module: the rows of finance_numbers and  *)
(* the operations on them.                                                  *)
(*                                                                          *)
(* A journal or a credit lot is named with the next number of the active    *)
(* sequence of its scope.  When the active sequence is used up the caller   *)
(* closes it and inserts the next series ("rollover"), and an administrator *)
(* may do the same early with shift_sequence.  Each SQL statement is atomic *)
(* and commits by itself; between two statements any other caller may run   *)
(* its own, so an action of this module is one statement together with the  *)
(* Python code up to the next one.                                          *)
(*                                                                          *)
(* One prefix is modelled ("JRN" or "LOT"): no statement relates rows of    *)
(* two prefixes.                                                            *)
(***************************************************************************)
EXTENDS Integers, Sequences, FiniteSets

CONSTANTS
  Callers,          \* coroutines running an operation of the finance module
  Scopes,           \* element_scope: billing_import, credit_purchase, ...
  Accounts,         \* Accounts[s]: the account numbers sequences of s may use
  Configured,       \* the rows at the start, one active sequence per scope
  AllocationSize,   \* element_allocation_size of every sequence
  MaxCalls,         \* bound: operations started
  MaxEdits,         \* bound: edits and deletions by an administrator
  MaxFailures       \* bound: operations cut short by an error or a restart

ASSUME SequenceAssumption ==
  /\ AllocationSize \in Nat \ {0}
  /\ MaxCalls \in Nat /\ MaxEdits \in Nat /\ MaxFailures \in Nat

\* Every scope has account numbers of its own.  upsert_v1 matches a row by
\* prefix, account number and series but not by scope, so two scopes that
\* shared an account number would overwrite each other's rows.
ASSUME AccountAssumption ==
  /\ \A s \in Scopes : Accounts[s] # {}
  /\ \A s, t \in Scopes : s # t => Accounts[s] \cap Accounts[t] = {}

VARIABLES
  rows,        \* finance_numbers, by recid; a deleted row keeps its place
  pc,          \* where each caller is
  cur,         \* cur[c]: the row c last read, and what it is about to write
  issued,      \* history: the blocks handed out, in order
  tampered,    \* history: scopes an administrator set back, re-opened or deleted from
  abandoned,   \* history: scopes in which a close was not followed by its insert
  calls, edits, failures

table == <<rows, issued>>
history == <<tampered, abandoned>>
counters == <<calls, edits, failures>>
vars == <<rows, pc, cur, issued, tampered, abandoned, calls, edits, failures>>

-----------------------------------------------------------------------------
(* Rows *)

Closed == 0
Active == 1
Deleted == 2      \* no row with this recid any more

AccountNumber == UNION {Accounts[s] : s \in Scopes}

Row == [scope : Scopes, account : AccountNumber, series : Nat, last : Nat,
        max : Nat, status : {Closed, Active, Deleted}]

ASSUME ConfiguredAssumption ==
  /\ Configured \in Seq(Row)
  /\ \A r \in DOMAIN Configured :
       /\ Configured[r].account \in Accounts[Configured[r].scope]
       /\ Configured[r].series > 0 /\ Configured[r].last = 0
       /\ Configured[r].status = Active
       /\ \A q \in DOMAIN Configured \ {r} : Configured[q].scope # Configured[r].scope

\* cur[c] while c works: the row read, its recid, and the account number the
\* next series will have.
Read(r, account) == [recid |-> r, row |-> rows[r], next |-> account]

Nothing == [recid |-> 0]

Memory == {Nothing} \cup [recid : {0}, scope : Scopes]
          \cup [recid : Nat \ {0}, row : Row, next : AccountNumber]

HasRoom(row) == row.last + AllocationSize <= row.max

ActiveRows(s) == {r \in DOMAIN rows : rows[r].scope = s /\ rows[r].status = Active}

\* TOP (1) ... ORDER BY element_series_number DESC, recid DESC
Before(q, r) == \/ rows[q].series < rows[r].series
                \/ rows[q].series = rows[r].series /\ q < r

Top(s) == {r \in ActiveRows(s) : \A q \in ActiveRows(s) \ {r} : Before(q, r)}

BlockType == [scope : Scopes, series : Nat, from : Nat, to : Nat]

Block(row) == [scope |-> row.scope, series |-> row.series,
               from |-> row.last + 1, to |-> row.last + AllocationSize]

\* The UPDATE of next_number_by_scope_v1 and of next_number_v1.
Take(r) == /\ rows[r].status = Active
           /\ HasRoom(rows[r])
           /\ rows' = [rows EXCEPT ![r].last = @ + AllocationSize]
           /\ issued' = Append(issued, Block(rows[r]))

\* The MERGE of upsert_v1 without a recid: a row with the same account number
\* and series is overwritten, whatever its scope; otherwise a row is inserted.
Matching(row) == {r \in DOMAIN rows : /\ rows[r].status # Deleted
                                      /\ rows[r].account = row.account
                                      /\ rows[r].series = row.series}

Upsert(row) == IF Matching(row) = {}
               THEN rows' = Append(rows, row)
               ELSE rows' = [r \in DOMAIN rows |->
                               IF r \in Matching(row) THEN row ELSE rows[r]]

\* The row that follows one that was read when it was active.
NextSeries(row, account) ==
  [scope |-> row.scope, account |-> account, series |-> row.series + 1,
   last |-> 0, max |-> row.max, status |-> Active]

-----------------------------------------------------------------------------
(* _next_formatted_number *)

Starts(c) == /\ pc[c] = "idle"
             /\ calls < MaxCalls
             /\ calls' = calls + 1
             /\ UNCHANGED <<edits, failures>>

Goes(c, step) == pc' = [pc EXCEPT ![c] = step]

\* The call returns, or raises: nothing of it is left.
Ends(c) == Goes(c, "idle") /\ cur' = [cur EXCEPT ![c] = Nothing]

\* No row is updated: none is active, or the topmost active one is used up.
NoneLeft(s) == \A r \in Top(s) : ~HasRoom(rows[r])

NextNumberByScope(c, s) ==
  /\ Starts(c)
  /\ \/ /\ \E r \in Top(s) : Take(r)
        /\ UNCHANGED <<pc, cur>>
     \/ /\ NoneLeft(s)
        /\ Goes(c, "read")
        /\ cur' = [cur EXCEPT ![c] = [recid |-> 0, scope |-> s]]
        /\ UNCHANGED table
  /\ UNCHANGED history

\* get_by_scope_v1 returns one JSON object; with two active rows the result
\* does not parse and the call raises, with none there is nothing to roll over.
ReadCurrent(c) ==
  /\ pc[c] = "read"
  /\ LET found == ActiveRows(cur[c].scope)
     IN  IF Cardinality(found) = 1
         THEN \E r \in found : /\ Goes(c, "close")
                               /\ cur' = [cur EXCEPT ![c] = Read(r, rows[r].account)]
         ELSE Ends(c)
  /\ UNCHANGED <<table, history, counters>>

\* Mutant: the close does not ask whether the row is active still.
CloseAnyway(c) ==
  /\ pc[c] = "close"
  /\ rows' = [rows EXCEPT ![cur[c].recid].status = Closed]
  /\ Goes(c, "insert")
  /\ UNCHANGED <<cur, issued, history, counters>>

\* close_sequence_v1: conditional on the row being active still.
Close(c) ==
  /\ pc[c] = "close"
  /\ LET r == cur[c].recid
     IN  IF rows[r].status = Active
         THEN /\ rows' = [rows EXCEPT ![r].status = Closed]
              /\ Goes(c, "insert")
         ELSE /\ Goes(c, "replaced")
              /\ UNCHANGED rows
  /\ UNCHANGED <<cur, issued, history, counters>>

\* Somebody else closed it: go on with the replacement, if it is there.
ReadReplacement(c) ==
  /\ pc[c] = "replaced"
  /\ IF Cardinality(ActiveRows(cur[c].row.scope)) = 1
     THEN Goes(c, "retry") /\ UNCHANGED cur
     ELSE Ends(c)
  /\ UNCHANGED <<table, history, counters>>

\* Mutant: a row is inserted only for an account number that has none.
InsertUnlessPresent(c) ==
  /\ pc[c] = "insert"
  /\ IF \E r \in DOMAIN rows : rows[r].account = cur[c].next
     THEN UNCHANGED rows
     ELSE Upsert(NextSeries(cur[c].row, cur[c].next))
  /\ Goes(c, "inserted")
  /\ UNCHANGED <<cur, issued, history, counters>>

Insert(c) ==
  /\ pc[c] = "insert"
  /\ Upsert(NextSeries(cur[c].row, cur[c].next))
  /\ Goes(c, "inserted")
  /\ UNCHANGED <<cur, issued, history, counters>>

\* The row just inserted is read back; two active rows do not parse.
ReadBack(c) ==
  /\ pc[c] = "inserted"
  /\ IF Cardinality(ActiveRows(cur[c].row.scope)) > 1
     THEN Ends(c)
     ELSE Goes(c, "retry") /\ UNCHANGED cur
  /\ UNCHANGED <<table, history, counters>>

Retry(c) ==
  /\ pc[c] = "retry"
  /\ LET s == cur[c].row.scope
     IN  \/ \E r \in Top(s) : Take(r)
         \/ NoneLeft(s) /\ UNCHANGED table
  /\ Ends(c)
  /\ UNCHANGED <<history, counters>>

\* next_number: the next block of one sequence, no rollover.
NextNumber(c, r) ==
  /\ Starts(c)
  /\ Take(r)
  /\ UNCHANGED <<pc, cur, history>>

-----------------------------------------------------------------------------
(* shift_sequence *)

ShiftRead(c, r, account) ==
  /\ Starts(c)
  /\ rows[r].status = Active
  /\ Goes(c, "shift")
  /\ cur' = [cur EXCEPT ![c] = Read(r, account)]
  /\ UNCHANGED <<table, history>>

\* Mutant: the shift goes on when somebody else closed the sequence.
ShiftCloseAnyway(c) ==
  /\ pc[c] = "shift"
  /\ rows' = [rows EXCEPT ![cur[c].recid].status = Closed]
  /\ Goes(c, "shift insert")
  /\ UNCHANGED <<cur, issued, history, counters>>

ShiftClose(c) ==
  /\ pc[c] = "shift"
  /\ IF rows[cur[c].recid].status = Active
     THEN /\ rows' = [rows EXCEPT ![cur[c].recid].status = Closed]
          /\ Goes(c, "shift insert")
          /\ UNCHANGED cur
     ELSE /\ Ends(c)
          /\ UNCHANGED rows
  /\ UNCHANGED <<issued, history, counters>>

ShiftInsert(c) ==
  /\ pc[c] = "shift insert"
  /\ Upsert(NextSeries(cur[c].row, cur[c].next))
  /\ Ends(c)
  /\ UNCHANGED <<issued, history, counters>>

-----------------------------------------------------------------------------
(* upsert_number with a recid (the edit form) and delete_number *)

\* The form shows the row; the administrator may raise its two numbers, and
\* nothing is checked until it is saved.
EditRead(c, r, last, max) ==
  /\ pc[c] = "idle"
  /\ edits < MaxEdits
  /\ edits' = edits + 1
  /\ rows[r].status # Deleted
  /\ Goes(c, "edit")
  /\ cur' = [cur EXCEPT ![c] = [recid |-> r, next |-> rows[r].account,
                                row |-> [rows[r] EXCEPT !.last = last, !.max = max]]]
  /\ UNCHANGED <<table, history, calls, failures>>

\* max_number may not be set below the last_number the row has now.
EditCheck(c) ==
  /\ pc[c] = "edit"
  /\ LET row == rows[cur[c].recid]
     IN  IF row.status # Deleted /\ cur[c].row.max < row.last
         THEN Ends(c)
         ELSE Goes(c, "edit write") /\ UNCHANGED cur
  /\ UNCHANGED <<table, history, counters>>

\* The MERGE with a recid writes every column of the form, last_number and
\* status included; a row deleted meanwhile is inserted again.
SetsBack(old, new) == \/ new.last < old.last
                      \/ old.status # Active /\ new.status = Active

EditWrite(c) ==
  /\ pc[c] = "edit write"
  /\ LET r == cur[c].recid
         row == cur[c].row
     IN  /\ IF rows[r].status = Deleted
            THEN rows' = Append(rows, row)
            ELSE rows' = [rows EXCEPT ![r] = row]
         /\ tampered' = IF SetsBack(rows[r], row) THEN tampered \cup {row.scope} ELSE tampered
  /\ Ends(c)
  /\ UNCHANGED <<issued, abandoned, counters>>

Delete(r) ==
  /\ edits < MaxEdits
  /\ edits' = edits + 1
  /\ rows[r].status # Deleted
  /\ rows' = [rows EXCEPT ![r].status = Deleted]
  /\ tampered' = tampered \cup {rows[r].scope}
  /\ UNCHANGED <<pc, cur, issued, abandoned, calls, failures>>

\* An operation is cut short between two statements: the database does not
\* answer, or the process stops.  What was committed stays.
Fail(c) ==
  /\ pc[c] # "idle"
  /\ failures < MaxFailures
  /\ failures' = failures + 1
  /\ abandoned' = IF pc[c] \in {"insert", "shift insert"}
                  THEN abandoned \cup {cur[c].row.scope} ELSE abandoned
  /\ Ends(c)
  /\ UNCHANGED <<table, tampered, calls, edits>>

-----------------------------------------------------------------------------
Init ==
  /\ rows = Configured
  /\ pc = [c \in Callers |-> "idle"]
  /\ cur = [c \in Callers |-> Nothing]
  /\ issued = <<>>
  /\ tampered = {} /\ abandoned = {}
  /\ calls = 0 /\ edits = 0 /\ failures = 0

Next ==
  \/ \E c \in Callers :
       \/ \E s \in Scopes : NextNumberByScope(c, s)
       \/ ReadCurrent(c) \/ Close(c) \/ ReadReplacement(c)
       \/ Insert(c) \/ ReadBack(c) \/ Retry(c)
       \/ ShiftClose(c) \/ ShiftInsert(c)
       \/ EditCheck(c) \/ EditWrite(c) \/ Fail(c)
       \/ \E r \in DOMAIN rows :
            \/ NextNumber(c, r)
            \/ \E a \in Accounts[rows[r].scope] : ShiftRead(c, r, a)
            \/ \E l \in {0, AllocationSize}, m \in {0, AllocationSize} :
                 EditRead(c, r, rows[r].last + l, rows[r].max + m)
  \/ \E r \in DOMAIN rows : Delete(r)

Spec == Init /\ [][Next]_vars

-----------------------------------------------------------------------------
(* Properties *)

(* Every variable stays in its type, and every row keeps an account number  *)
(* of its own scope, whatever is rolled over, shifted or edited.            *)
TypeOK ==
  /\ rows \in Seq(Row)
  /\ pc \in [Callers -> {"idle", "read", "close", "replaced", "insert", "inserted", "retry",
                         "shift", "shift insert", "edit", "edit write"}]
  /\ cur \in [Callers -> Memory]
  /\ \A r \in DOMAIN rows : rows[r].account \in Accounts[rows[r].scope]
  /\ issued \in Seq(BlockType)
  /\ tampered \subseteq Scopes /\ abandoned \subseteq Scopes
  /\ calls \in 0 .. MaxCalls /\ edits \in 0 .. MaxEdits /\ failures \in 0 .. MaxFailures

\* Identifiers of a scope are handed out in increasing order, whoever rolls
\* the sequence over or shifts it in between: so no journal and no credit lot
\* is ever given the number of another one.  This ends for a scope in which an
\* administrator saved an old form, which writes the old last_number and the
\* old status back, or deleted a row.
Precedes(a, b) == \/ a.series < b.series
                  \/ a.series = b.series /\ a.to < b.from

NumbersGoForward ==
  \A i, j \in DOMAIN issued :
    i < j /\ issued[i].scope = issued[j].scope /\ issued[i].scope \notin tampered
      => Precedes(issued[i], issued[j])

\* Two calls that race for an exhausted sequence, or a call and a shift, leave
\* one active sequence: with two, get_by_scope_v1 would return two objects
\* where the caller parses one, and no call could roll the scope over again.
OneActiveSequence ==
  \A s \in Scopes \ tampered : Cardinality(ActiveRows(s)) <= 1

\* A scope is without an active sequence only between the close and the insert
\* of some rollover or shift, or for good once one was cut short there.
InactiveOnlyWhileReplaced ==
  \A s \in {Configured[r].scope : r \in DOMAIN Configured} \ (tampered \cup abandoned) :
    ActiveRows(s) = {} =>
      \E c \in Callers : pc[c] \in {"insert", "shift insert"} /\ cur[c].row.scope = s

\* The rows and the interleaving of statements behave like a dispenser that
\* takes one identifier per call in one step.
LastIssued(s) ==
  LET of == {i \in DOMAIN issued : issued[i].scope = s}
  IN  IF of = {} THEN <<0, 0>>
      ELSE LET i == CHOOSE i \in of : \A j \in of : j <= i
           IN  <<issued[i].series, issued[i].to>>

Dispenser == INSTANCE NumberDispenser WITH high <- [s \in Scopes |-> LastIssued(s)],
                                           trusted <- Scopes \ tampered

DispensesNumbers == Dispenser!Spec
===============================================================================
