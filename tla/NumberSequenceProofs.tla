------------------------- MODULE NumberSequenceProofs -------------------------
(***************************************************************************)
(* Proofs about NumberSequence, for every set of callers and scopes, every  *)
(* configuration of the sequences and every bound.                          *)
(*                                                                          *)
(* The key of a row (scope, account number, series) never changes once it   *)
(* is there (KeyInv): MERGE finds only rows with the same account number,   *)
(* so of the same scope, and the same series.  On top of that, in a scope   *)
(* no administrator has set back (ScopeInv): the active row has the highest *)
(* series, only the caller that closed a row may insert the next one, and   *)
(* nothing above its last_number was handed out of a row; and while no row  *)
(* is active somebody is about to insert one (ReplacedInv).                 *)
(***************************************************************************)
EXTENDS NumberSequence, FiniteSetTheorems, TLAPS

Working == {"close", "replaced", "insert", "inserted", "retry",
            "shift", "shift insert", "edit", "edit write"}

SameKey(a, b) == a.scope = b.scope /\ a.account = b.account /\ a.series = b.series

\* What c read is still the row's key, whatever became of the rest of the row.
Reading(c) == /\ cur[c] \in [recid : Nat \ {0}, row : Row, next : AccountNumber]
              /\ cur[c].recid \in DOMAIN rows
              /\ SameKey(rows[cur[c].recid], cur[c].row)
              /\ cur[c].next \in Accounts[cur[c].row.scope]

KeyInv == /\ TypeOK
          /\ \A c \in Callers : pc[c] \in Working => Reading(c)

KeysKept == /\ DOMAIN rows \subseteq DOMAIN rows'
            /\ \A r \in DOMAIN rows : SameKey(rows'[r], rows[r])

RowsOK == /\ rows \in Seq(Row)
          /\ \A r \in DOMAIN rows : rows[r].account \in Accounts[rows[r].scope]

-----------------------------------------------------------------------------
(* Rows *)

\* What an appended row leaves as it was.
LEMMA AppendedRow ==
  ASSUME NEW S, NEW seq \in Seq(S), NEW row \in S
  PROVE  /\ Append(seq, row) \in Seq(S)
         /\ DOMAIN Append(seq, row) = DOMAIN seq \cup {Len(seq) + 1}
         /\ Len(seq) + 1 \notin DOMAIN seq
         /\ \A r \in DOMAIN seq : seq[r] \in S /\ Append(seq, row)[r] = seq[r]
         /\ Append(seq, row)[Len(seq) + 1] = row
  OBVIOUS

\* A sequence some of whose elements are replaced.
LEMMA ReplacedRows ==
  ASSUME NEW S, NEW seq \in Seq(S), NEW new, DOMAIN new = DOMAIN seq,
         new = [r \in DOMAIN seq |-> new[r]], \A r \in DOMAIN seq : new[r] \in S
  PROVE  new \in Seq(S)
  OBVIOUS

LEMMA RowFields ==
  ASSUME NEW row \in Row
  PROVE  /\ row.scope \in Scopes /\ row.account \in AccountNumber /\ row.series \in Nat
         /\ row.last \in Nat /\ row.max \in Nat /\ row.status \in {Closed, Active, Deleted}
  BY DEF Row

\* The next series of a sequence belongs to the same scope.
LEMMA NextSeriesRow ==
  ASSUME NEW row \in Row, NEW a \in AccountNumber
  PROVE  /\ NextSeries(row, a) \in Row
         /\ NextSeries(row, a).scope = row.scope
         /\ NextSeries(row, a).account = a
         /\ NextSeries(row, a).series = row.series + 1
         /\ NextSeries(row, a).last = 0
         /\ NextSeries(row, a).status = Active
  BY RowFields DEF Row, NextSeries

LEMMA AccountOfScope ==
  ASSUME NEW s \in Scopes, NEW a \in Accounts[s]
  PROVE  /\ a \in AccountNumber
         /\ \A t \in Scopes : a \in Accounts[t] => s = t
  BY AccountAssumption DEF AccountNumber

\* Updates of columns that are not part of the key.
LEMMA ColumnUpdates ==
  ASSUME NEW row \in Row
  PROVE  /\ [row EXCEPT !.last = @ + AllocationSize] \in Row
         /\ SameKey([row EXCEPT !.last = @ + AllocationSize], row)
         /\ [row EXCEPT !.status = Closed] \in Row
         /\ SameKey([row EXCEPT !.status = Closed], row)
         /\ [row EXCEPT !.status = Deleted] \in Row
         /\ SameKey([row EXCEPT !.status = Deleted], row)
  BY SequenceAssumption DEF Row, SameKey, Closed, Deleted, Active

\* The row of one recid is replaced by one with the same key.
LEMMA OneRowChanged ==
  ASSUME RowsOK, NEW r \in DOMAIN rows, NEW row \in Row, SameKey(row, rows[r]),
         rows' = [rows EXCEPT ![r] = row]
  PROVE  RowsOK' /\ KeysKept
  <1>1. /\ DOMAIN rows' = DOMAIN rows
        /\ rows' = [q \in DOMAIN rows |-> rows'[q]]
        /\ rows'[r] = row
        /\ \A q \in DOMAIN rows \ {r} : rows'[q] = rows[q]
    OBVIOUS
  <1>a. \A q \in DOMAIN rows : rows[q] \in Row
    BY DEF RowsOK
  <1>b. \A q \in DOMAIN rows : rows'[q] \in Row /\ SameKey(rows'[q], rows[q])
    BY <1>1, <1>a DEF SameKey
  <1>2. rows' \in Seq(Row)
    BY <1>1, <1>b, ReplacedRows DEF RowsOK
  <1> QED
    BY <1>1, <1>b, <1>2 DEF RowsOK, KeysKept, SameKey

\* A row is added at the end.
LEMMA OneRowMore ==
  ASSUME RowsOK, NEW row \in Row, row.account \in Accounts[row.scope],
         rows' = Append(rows, row)
  PROVE  RowsOK' /\ KeysKept
  <1>1. rows \in Seq(Row)
    BY DEF RowsOK
  <1> QED
    BY <1>1, AppendedRow DEF RowsOK, KeysKept, SameKey

\* The MERGE by account number and series keeps every key: a row it finds has
\* the key of the row it writes.
LEMMA UpsertKeepsKeys ==
  ASSUME RowsOK, NEW row \in Row, row.account \in Accounts[row.scope], Upsert(row)
  PROVE  RowsOK' /\ KeysKept
  <1>1. CASE Matching(row) = {}
    BY <1>1, OneRowMore DEF Upsert
  <1>2. CASE Matching(row) # {}
    <2>1. rows' = [r \in DOMAIN rows |-> IF r \in Matching(row) THEN row ELSE rows[r]]
      BY <1>2 DEF Upsert
    <2>2. ASSUME NEW r \in Matching(row)
          PROVE  SameKey(row, rows[r])
      <3>1. /\ r \in DOMAIN rows /\ rows[r].account = row.account
            /\ rows[r].series = row.series
        BY DEF Matching
      <3>2. rows[r] \in Row
        BY <3>1 DEF RowsOK
      <3>3. rows[r].scope = row.scope
        BY <3>1, <3>2, RowFields, AccountOfScope DEF RowsOK
      <3> QED
        BY <3>1, <3>3 DEF SameKey
    <2>3. /\ DOMAIN rows' = DOMAIN rows
          /\ rows' = [q \in DOMAIN rows |-> rows'[q]]
      BY <2>1
    <2>4. \A q \in DOMAIN rows : rows'[q] \in Row /\ SameKey(rows'[q], rows[q])
      BY <2>1, <2>2 DEF RowsOK, SameKey
    <2>5. rows' \in Seq(Row)
      BY <2>3, <2>4, ReplacedRows DEF RowsOK
    <2> QED
      BY <2>3, <2>4, <2>5 DEF RowsOK, KeysKept, SameKey
  <1> QED
    BY <1>1, <1>2

LEMMA BlockOfRow ==
  ASSUME NEW row \in Row
  PROVE  Block(row) \in BlockType
  BY SequenceAssumption DEF Row, Block, BlockType
-----------------------------------------------------------------------------
(* Keys *)

Steps == {"idle", "read", "close", "replaced", "insert", "inserted", "retry",
          "shift", "shift insert", "edit", "edit write"}

RestOK == /\ issued \in Seq(BlockType)
          /\ tampered \subseteq Scopes /\ abandoned \subseteq Scopes
          /\ calls \in 0 .. MaxCalls /\ edits \in 0 .. MaxEdits /\ failures \in 0 .. MaxFailures

LEMMA TypeParts ==
  TypeOK <=> RowsOK /\ pc \in [Callers -> Steps] /\ cur \in [Callers -> Memory] /\ RestOK
  BY DEF TypeOK, RowsOK, Steps, RestOK

\* A row that kept its key is still what was read.
LEMMA ReadingKept ==
  ASSUME KeysKept, NEW c \in Callers, Reading(c), cur'[c] = cur[c]
  PROVE  Reading(c)'
  BY DEF KeysKept, Reading, SameKey

\* A caller that moves to its next step, the others reading what they read.
LEMMA Moved ==
  ASSUME KeyInv, KeysKept, RowsOK', RestOK', NEW c \in Callers, NEW step \in Steps,
         pc' = [pc EXCEPT ![c] = step], NEW m \in Memory, cur' = [cur EXCEPT ![c] = m],
         step \in Working => Reading(c)'
  PROVE  KeyInv'
  <1>1. pc \in [Callers -> Steps] /\ cur \in [Callers -> Memory]
    BY TypeParts DEF KeyInv
  <1>2. pc' \in [Callers -> Steps] /\ cur' \in [Callers -> Memory]
    BY <1>1
  <1>3. TypeOK'
    BY <1>2 DEF TypeOK, RowsOK, Steps, RestOK
  <1>4. ASSUME NEW d \in Callers, pc'[d] \in Working
        PROVE  Reading(d)'
    <2>1. CASE d = c
      BY <1>1, <1>4, <2>1
    <2>2. CASE d # c
      <3>1. pc'[d] = pc[d] /\ cur'[d] = cur[d]
        BY <1>1, <2>2
      <3> QED
        BY <1>4, <3>1, ReadingKept DEF KeyInv
    <2> QED
      BY <2>1, <2>2
  <1> QED
    BY <1>3, <1>4 DEF KeyInv

\* The same without a new reading.
LEMMA MovedOn ==
  ASSUME KeyInv, KeysKept, RowsOK', RestOK', NEW c \in Callers, NEW step \in Steps,
         pc' = [pc EXCEPT ![c] = step], cur' = cur, step \in Working => Reading(c)
  PROVE  KeyInv'
  <1>1. cur \in [Callers -> Memory]
    BY TypeParts DEF KeyInv
  <1>2. cur' = [cur EXCEPT ![c] = cur[c]] /\ cur[c] \in Memory /\ cur'[c] = cur[c]
    BY <1>1
  <1>3. step \in Working => Reading(c)'
    BY <1>2, ReadingKept
  <1> QED
    BY <1>2, <1>3, Moved

LEMMA Ended ==
  ASSUME KeyInv, KeysKept, RowsOK', RestOK', NEW c \in Callers, Ends(c)
  PROVE  KeyInv'
  <1>1. "idle" \in Steps /\ "idle" \notin Working /\ Nothing \in Memory
    BY DEF Steps, Working, Memory
  <1> QED
    BY <1>1, Moved DEF Ends, Goes

\* Nobody moves.
LEMMA Stayed ==
  ASSUME KeyInv, KeysKept, RowsOK', RestOK', pc' = pc, cur' = cur
  PROVE  KeyInv'
  <1>1. TypeOK'
    BY TypeParts DEF KeyInv, TypeOK, RowsOK, Steps, RestOK
  <1> QED
    BY <1>1, ReadingKept DEF KeyInv

LEMMA Taken ==
  ASSUME KeyInv, NEW r \in DOMAIN rows, Take(r)
  PROVE  RowsOK' /\ KeysKept /\ issued' \in Seq(BlockType)
  <1>1. RowsOK /\ RestOK
    BY TypeParts DEF KeyInv
  <1>2. rows[r] \in Row
    BY <1>1 DEF RowsOK
  <1>3. Block(rows[r]) \in BlockType
    BY <1>2, BlockOfRow
  <1>4. issued' \in Seq(BlockType)
    BY <1>1, <1>3, AppendedRow DEF Take, RestOK
  <1> DEFINE new == [rows[r] EXCEPT !.last = @ + AllocationSize]
  <1>5. new \in Row /\ SameKey(new, rows[r]) /\ rows' = [rows EXCEPT ![r] = new]
    BY <1>2, ColumnUpdates DEF Take
  <1> HIDE DEF new
  <1> QED
    BY <1>1, <1>4, <1>5, OneRowChanged

LEMMA StatusChanged ==
  ASSUME KeyInv, NEW r \in DOMAIN rows, NEW s \in {Closed, Deleted},
         rows' = [rows EXCEPT ![r].status = s]
  PROVE  RowsOK' /\ KeysKept
  <1>1. RowsOK /\ rows[r] \in Row
    BY TypeParts DEF KeyInv, RowsOK
  <1> DEFINE new == [rows[r] EXCEPT !.status = s]
  <1>2. new \in Row /\ SameKey(new, rows[r]) /\ rows' = [rows EXCEPT ![r] = new]
    BY <1>1, ColumnUpdates
  <1> HIDE DEF new
  <1> QED
    BY <1>1, <1>2, OneRowChanged

LEMMA Unchanged ==
  ASSUME KeyInv, UNCHANGED rows
  PROVE  RowsOK' /\ KeysKept
  BY TypeParts DEF KeyInv, RowsOK, KeysKept, SameKey

LEMMA NewReading ==
  ASSUME KeyInv, NEW r \in DOMAIN rows, NEW row \in Row, SameKey(row, rows[r]),
         NEW a \in Accounts[row.scope]
  PROVE  [recid |-> r, row |-> row, next |-> a] \in
            Memory \cap [recid : Nat \ {0}, row : Row, next : AccountNumber]
  <1>1. r \in Nat \ {0}
    BY TypeParts DEF KeyInv, RowsOK
  <1>2. a \in AccountNumber
    BY RowFields, AccountOfScope
  <1> QED
    BY <1>1, <1>2 DEF Memory

LEMMA KeyInit == Init => KeyInv
  <1> SUFFICES ASSUME Init PROVE KeyInv
    OBVIOUS
  <1>1. RowsOK
    BY ConfiguredAssumption DEF Init, RowsOK
  <1>2. pc \in [Callers -> Steps] /\ \A c \in Callers : pc[c] \notin Working
    BY DEF Init, Steps, Working
  <1>3. cur \in [Callers -> Memory]
    BY DEF Init, Memory
  <1>4. RestOK
    BY SequenceAssumption DEF Init, RestOK
  <1> QED
    BY <1>1, <1>2, <1>3, <1>4, TypeParts DEF KeyInv

LEMMA KeyStep == KeyInv /\ [Next]_vars => KeyInv'
  <1> SUFFICES ASSUME KeyInv, [Next]_vars PROVE KeyInv'
    OBVIOUS
  <1> USE DEF Goes
  <1>1. RowsOK /\ pc \in [Callers -> Steps] /\ cur \in [Callers -> Memory] /\ RestOK
    BY TypeParts DEF KeyInv
  <1>2. \A c \in Callers : pc[c] \in Working => Reading(c)
    BY DEF KeyInv
  <1>3. UNCHANGED rows => RowsOK' /\ KeysKept
    BY Unchanged
  <1>4. \A r \in DOMAIN rows : rows[r] \in Row /\ rows[r].account \in Accounts[rows[r].scope]
    BY <1>1 DEF RowsOK
  <1>5. ASSUME NEW c \in Callers, NEW s \in Scopes, NextNumberByScope(c, s)
        PROVE  KeyInv'
    <2>1. CASE /\ \E r \in Top(s) : Take(r)
               /\ UNCHANGED <<pc, cur>>
      <3>1. PICK r \in Top(s) : Take(r)
        BY <2>1
      <3>2. r \in DOMAIN rows
        BY DEF Top, ActiveRows
      <3>3. RestOK'
        BY <1>1, <1>5, <3>1, <3>2, Taken, SequenceAssumption
           DEF RestOK, NextNumberByScope, Starts, history
      <3> QED
        BY <2>1, <3>1, <3>2, <3>3, Taken, Stayed
    <2>2. CASE /\ NoneLeft(s)
               /\ Goes(c, "read")
               /\ cur' = [cur EXCEPT ![c] = [recid |-> 0, scope |-> s]]
               /\ UNCHANGED table
      <3>1. RestOK'
        BY <1>1, <1>5, <2>2, SequenceAssumption DEF RestOK, NextNumberByScope, Starts, history, table
      <3>2. [recid |-> 0, scope |-> s] \in Memory /\ "read" \in Steps /\ "read" \notin Working
        BY DEF Memory, Steps, Working
      <3> QED
        BY <1>3, <2>2, <3>1, <3>2, Moved DEF table
    <2> QED
      BY <1>5, <2>1, <2>2 DEF NextNumberByScope
  <1>6. ASSUME NEW c \in Callers, ReadCurrent(c)
        PROVE  KeyInv'
    <2>1. RestOK' /\ UNCHANGED rows
      BY <1>1, <1>6 DEF RestOK, ReadCurrent, table, history, counters
    <2>2. CASE Ends(c)
      BY <1>3, <2>1, <2>2, Ended
    <2>3. ASSUME NEW r \in ActiveRows(cur[c].scope), Goes(c, "close"),
                 cur' = [cur EXCEPT ![c] = Read(r, rows[r].account)]
          PROVE  KeyInv'
      <3>1. r \in DOMAIN rows
        BY DEF ActiveRows
      <3>2. Read(r, rows[r].account) \in
               Memory \cap [recid : Nat \ {0}, row : Row, next : AccountNumber]
        BY <1>4, <3>1, NewReading DEF Read, SameKey
      <3>3. cur'[c] = Read(r, rows[r].account)
        BY <1>1, <2>3
      <3>4. Reading(c)'
        BY <1>4, <2>1, <3>1, <3>2, <3>3 DEF Reading, Read, SameKey
      <3>5. "close" \in Steps
        BY DEF Steps
      <3> QED
        BY <1>3, <2>1, <2>3, <3>2, <3>4, <3>5, Moved
    <2> QED
      BY <1>6, <2>2, <2>3 DEF ReadCurrent
  <1>7. ASSUME NEW c \in Callers, Close(c)
        PROVE  KeyInv'
    <2>1. RestOK' /\ cur' = cur /\ Reading(c)
      BY <1>1, <1>2, <1>7 DEF RestOK, Close, history, counters, Working
    <2>2. cur[c].recid \in DOMAIN rows
      BY <2>1 DEF Reading
    <2>3. RowsOK' /\ KeysKept
      BY <1>3, <1>7, <2>2, StatusChanged DEF Close
    <2>4. "insert" \in Steps /\ "replaced" \in Steps
      BY DEF Steps
    <2> QED
      BY <1>7, <2>1, <2>3, <2>4, MovedOn DEF Close
  <1>8. ASSUME NEW c \in Callers, ReadReplacement(c)
        PROVE  KeyInv'
    <2>1. RestOK' /\ UNCHANGED rows /\ Reading(c) /\ "retry" \in Steps
      BY <1>1, <1>2, <1>8 DEF RestOK, ReadReplacement, table, history, counters, Working, Steps
    <2> QED
      BY <1>3, <1>8, <2>1, MovedOn, Ended DEF ReadReplacement
  <1>9. ASSUME NEW c \in Callers, Reading(c), Upsert(NextSeries(cur[c].row, cur[c].next))
        PROVE  RowsOK' /\ KeysKept
    <2>1. /\ cur[c].row \in Row /\ cur[c].next \in AccountNumber
          /\ cur[c].next \in Accounts[cur[c].row.scope]
      BY <1>9 DEF Reading
    <2> QED
      BY <1>1, <1>9, <2>1, NextSeriesRow, UpsertKeepsKeys
  <1>10. ASSUME NEW c \in Callers, Insert(c)
         PROVE  KeyInv'
    <2>1. RestOK' /\ cur' = cur /\ Reading(c) /\ "inserted" \in Steps
      BY <1>1, <1>2, <1>10 DEF RestOK, Insert, history, counters, Working, Steps
    <2> QED
      BY <1>9, <1>10, <2>1, MovedOn DEF Insert
  <1>11. ASSUME NEW c \in Callers, ReadBack(c)
         PROVE  KeyInv'
    <2>1. RestOK' /\ UNCHANGED rows /\ Reading(c) /\ "retry" \in Steps
      BY <1>1, <1>2, <1>11 DEF RestOK, ReadBack, table, history, counters, Working, Steps
    <2> QED
      BY <1>3, <1>11, <2>1, MovedOn, Ended DEF ReadBack
  <1>12. ASSUME NEW c \in Callers, Retry(c)
         PROVE  KeyInv'
    <2>1. CASE \E r \in Top(cur[c].row.scope) : Take(r)
      <3>1. PICK r \in Top(cur[c].row.scope) : Take(r)
        BY <2>1
      <3>2. r \in DOMAIN rows
        BY DEF Top, ActiveRows
      <3>3. RestOK'
        BY <1>1, <1>12, <3>1, <3>2, Taken DEF RestOK, Retry, history, counters
      <3> QED
        BY <1>12, <3>1, <3>2, <3>3, Taken, Ended DEF Retry
    <2>2. CASE UNCHANGED table
      <3>1. RestOK' /\ UNCHANGED rows
        BY <1>1, <1>12, <2>2 DEF RestOK, Retry, table, history, counters
      <3> QED
        BY <1>3, <1>12, <3>1, Ended DEF Retry
    <2> QED
      BY <1>12, <2>1, <2>2 DEF Retry
  <1>13. ASSUME NEW c \in Callers, NEW r \in DOMAIN rows, NextNumber(c, r)
         PROVE  KeyInv'
    <2>1. RestOK'
      BY <1>1, <1>13, Taken, SequenceAssumption DEF RestOK, NextNumber, Starts, history
    <2> QED
      BY <1>13, <2>1, Taken, Stayed DEF NextNumber
  <1>14. ASSUME NEW c \in Callers, NEW r \in DOMAIN rows, NEW a \in Accounts[rows[r].scope],
                ShiftRead(c, r, a)
         PROVE  KeyInv'
    <2>0. /\ UNCHANGED <<rows, issued, tampered, abandoned, edits, failures>>
          /\ calls < MaxCalls /\ calls' = calls + 1 /\ "shift" \in Steps
      BY <1>14 DEF ShiftRead, Starts, table, history, Steps
    <2>1. RestOK' /\ UNCHANGED rows /\ "shift" \in Steps
      BY <1>1, <2>0, SequenceAssumption DEF RestOK
    <2>2. Read(r, a) \in Memory \cap [recid : Nat \ {0}, row : Row, next : AccountNumber]
      BY <1>4, NewReading DEF Read, SameKey
    <2>3. cur' = [cur EXCEPT ![c] = Read(r, a)] /\ cur'[c] = Read(r, a)
      BY <1>1, <1>14 DEF ShiftRead
    <2>4. Reading(c)'
      BY <1>4, <2>1, <2>2, <2>3 DEF Reading, Read, SameKey
    <2> QED
      BY <1>3, <1>14, <2>1, <2>2, <2>3, <2>4, Moved DEF ShiftRead
  <1>15. ASSUME NEW c \in Callers, ShiftClose(c)
         PROVE  KeyInv'
    <2>1. RestOK' /\ Reading(c) /\ "shift insert" \in Steps
      BY <1>1, <1>2, <1>15 DEF RestOK, ShiftClose, history, counters, Working, Steps
    <2>2. cur[c].recid \in DOMAIN rows
      BY <2>1 DEF Reading
    <2>3. RowsOK' /\ KeysKept
      BY <1>3, <1>15, <2>2, StatusChanged DEF ShiftClose
    <2> QED
      BY <1>15, <2>1, <2>3, MovedOn, Ended DEF ShiftClose
  <1>16. ASSUME NEW c \in Callers, ShiftInsert(c)
         PROVE  KeyInv'
    <2>1. RestOK' /\ Reading(c)
      BY <1>1, <1>2, <1>16 DEF RestOK, ShiftInsert, history, counters, Working
    <2> QED
      BY <1>9, <1>16, <2>1, Ended DEF ShiftInsert
  <1>17. ASSUME NEW c \in Callers, NEW r \in DOMAIN rows,
                NEW l \in {0, AllocationSize}, NEW m \in {0, AllocationSize},
                EditRead(c, r, rows[r].last + l, rows[r].max + m)
         PROVE  KeyInv'
    <2> DEFINE row == [rows[r] EXCEPT !.last = rows[r].last + l, !.max = rows[r].max + m]
               seen == [recid |-> r, row |-> row, next |-> rows[r].account]
    <2>0. /\ UNCHANGED <<rows, issued, tampered, abandoned, calls, failures>>
          /\ edits < MaxEdits /\ edits' = edits + 1 /\ "edit" \in Steps
      BY <1>17 DEF EditRead, table, history, Steps
    <2>1. RestOK' /\ UNCHANGED rows /\ "edit" \in Steps
      BY <1>1, <2>0, SequenceAssumption DEF RestOK
    <2>a. rows[r] \in Row /\ rows[r].last + l \in Nat /\ rows[r].max + m \in Nat
      BY <1>4, RowFields, SequenceAssumption
    <2>2. row \in Row /\ SameKey(row, rows[r])
      BY <2>a DEF Row, SameKey
    <2>3. cur' = [cur EXCEPT ![c] = [recid |-> r, next |-> rows[r].account, row |-> row]]
      BY <1>17 DEF EditRead
    <2> HIDE DEF row
    <2>4. seen \in Memory \cap [recid : Nat \ {0}, row : Row, next : AccountNumber]
      BY <1>4, <2>2, NewReading DEF SameKey
    <2>5. cur' = [cur EXCEPT ![c] = seen] /\ cur'[c] = seen
      BY <1>1, <2>3
    <2>6. Reading(c)'
      BY <1>4, <2>1, <2>2, <2>4, <2>5 DEF Reading, SameKey
    <2> HIDE DEF seen
    <2> QED
      BY <1>3, <1>17, <2>1, <2>4, <2>5, <2>6, Moved DEF EditRead
  <1>18. ASSUME NEW c \in Callers, EditCheck(c)
         PROVE  KeyInv'
    <2>1. RestOK' /\ UNCHANGED rows /\ Reading(c) /\ "edit write" \in Steps
      BY <1>1, <1>2, <1>18 DEF RestOK, EditCheck, table, history, counters, Working, Steps
    <2> QED
      BY <1>3, <1>18, <2>1, MovedOn, Ended DEF EditCheck
  <1>19. ASSUME NEW c \in Callers, EditWrite(c)
         PROVE  KeyInv'
    <2>1. Reading(c)
      BY <1>2, <1>19 DEF EditWrite, Working
    <2>2. /\ cur[c].row \in Row /\ cur[c].recid \in DOMAIN rows
          /\ SameKey(cur[c].row, rows[cur[c].recid])
      BY <2>1 DEF Reading, SameKey
    <2>3. cur[c].row.account \in Accounts[cur[c].row.scope] /\ cur[c].row.scope \in Scopes
      BY <1>4, <2>2, RowFields DEF SameKey
    <2>4. RowsOK' /\ KeysKept
      BY <1>1, <1>19, <2>2, <2>3, OneRowChanged, OneRowMore DEF EditWrite
    <2>5. RestOK'
      BY <1>1, <1>19, <2>3 DEF RestOK, EditWrite, counters
    <2> QED
      BY <1>19, <2>4, <2>5, Ended DEF EditWrite
  <1>20. ASSUME NEW c \in Callers, Fail(c)
         PROVE  KeyInv'
    <2>1. pc[c] \in Working => cur[c].row.scope \in Scopes
      BY <1>2, RowFields DEF Reading
    <2>0. /\ UNCHANGED <<rows, issued, tampered, calls, edits>>
          /\ failures < MaxFailures /\ failures' = failures + 1
          /\ abandoned' = abandoned \/ abandoned' = abandoned \cup {cur[c].row.scope}
          /\ abandoned' # abandoned => pc[c] \in Working
      BY <1>20 DEF Fail, table, Working
    <2>2. RestOK' /\ UNCHANGED rows
      BY <1>1, <2>0, <2>1, SequenceAssumption DEF RestOK
    <2> QED
      BY <1>3, <1>20, <2>2, Ended DEF Fail
  <1>21. ASSUME NEW r \in DOMAIN rows, Delete(r)
         PROVE  KeyInv'
    <2>1. RowsOK' /\ KeysKept
      BY <1>21, StatusChanged DEF Delete
    <2>2. RestOK'
      BY <1>1, <1>4, <1>21, SequenceAssumption, RowFields DEF RestOK, Delete
    <2> QED
      BY <1>21, <2>1, <2>2, Stayed DEF Delete
  <1>22. CASE UNCHANGED vars
    <2>1. RestOK'
      BY <1>1, <1>22 DEF RestOK, vars
    <2> QED
      BY <1>3, <1>22, <2>1, Stayed DEF vars
  <1> QED
    BY <1>5, <1>6, <1>7, <1>8, <1>10, <1>11, <1>12, <1>13, <1>14, <1>15, <1>16, <1>17,
       <1>18, <1>19, <1>20, <1>21, <1>22 DEF Next

\* The state of a number sequence and of its callers has its type: rows keep
\* account numbers of their own scope, whatever is rolled over or edited.
THEOREM TypeCorrect == Spec => []TypeOK
  <1>1. KeyInv => TypeOK
    BY DEF KeyInv
  <1> QED
    BY <1>1, KeyInit, KeyStep, PTL DEF Spec

-----------------------------------------------------------------------------
(* Scopes nobody has set back *)

InsertsFor(c, s) == pc[c] \in {"insert", "shift insert"} /\ cur[c].row.scope = s

ActiveIsNewest(s) ==
  \A r, q \in DOMAIN rows :
    rows[r].scope = s /\ rows[q].scope = s /\ rows[r].status = Active /\ r # q
      => rows[q].series < rows[r].series

InsertsWhatItClosed(s) ==
  \A c \in Callers : InsertsFor(c, s) =>
    \A r \in DOMAIN rows : rows[r].scope = s =>
      rows[r].status # Active /\ rows[r].series <= cur[c].row.series

OneInserts(s) == \A c, d \in Callers : InsertsFor(c, s) /\ InsertsFor(d, s) => c = d

Covers(r, b) == /\ r \in DOMAIN rows /\ rows[r].scope = b.scope
                /\ rows[r].series = b.series /\ b.to <= rows[r].last

IssuedIsCovered(s) ==
  \A i \in DOMAIN issued : issued[i].scope = s => \E r \in DOMAIN rows : Covers(r, issued[i])

IssuedInOrder(s) ==
  \A i, j \in DOMAIN issued :
    i < j /\ issued[i].scope = s /\ issued[j].scope = s => Precedes(issued[i], issued[j])

RowsInv(s) == ActiveIsNewest(s) /\ InsertsWhatItClosed(s) /\ OneInserts(s)

IssuedInv(s) == IssuedIsCovered(s) /\ IssuedInOrder(s)

ScopeInv == \A s \in Scopes \ tampered : RowsInv(s) /\ IssuedInv(s)

IInv == KeyInv /\ ScopeInv

\* Steps that neither activate a row of s nor bring a new series, nor make
\* another caller one that inserts into s.
Milder(s) ==
  /\ \A r \in DOMAIN rows' : rows'[r].scope = s =>
       \/ /\ r \in DOMAIN rows /\ rows[r].scope = s /\ rows'[r].series = rows[r].series
          /\ rows'[r].status = Active => rows[r].status = Active
       \/ /\ r \notin DOMAIN rows /\ rows'[r].status # Active
          /\ \E q \in DOMAIN rows : /\ rows[q].scope = s /\ rows[q].status # Active
                                    /\ rows'[r].series = rows[q].series
  /\ \A c \in Callers : InsertsFor(c, s)' => InsertsFor(c, s) /\ cur'[c] = cur[c]

\* No number of a row of s is taken back.
LastKept(s) ==
  \A r \in DOMAIN rows : rows[r].scope = s =>
    r \in DOMAIN rows' /\ SameKey(rows'[r], rows[r]) /\ rows[r].last <= rows'[r].last

LEMMA MilderKeeps ==
  ASSUME NEW s \in Scopes, RowsInv(s), Milder(s)
  PROVE  RowsInv(s)'
  <1>1. ActiveIsNewest(s)'
    <2> SUFFICES ASSUME NEW r \in DOMAIN rows', NEW q \in DOMAIN rows', rows'[r].scope = s,
                        rows'[q].scope = s, rows'[r].status = Active, r # q
                 PROVE  rows'[q].series < rows'[r].series
      BY DEF ActiveIsNewest
    <2>1. /\ r \in DOMAIN rows /\ rows[r].scope = s /\ rows'[r].series = rows[r].series
          /\ rows[r].status = Active
      BY DEF Milder
    <2>2. PICK p \in DOMAIN rows : rows[p].scope = s /\ p # r /\ rows'[q].series = rows[p].series
      BY <2>1 DEF Milder
    <2> QED
      BY <2>1, <2>2 DEF RowsInv, ActiveIsNewest
  <1>2. InsertsWhatItClosed(s)'
    <2> SUFFICES ASSUME NEW c \in Callers, InsertsFor(c, s)',
                        NEW r \in DOMAIN rows', rows'[r].scope = s
                 PROVE  rows'[r].status # Active /\ rows'[r].series <= cur'[c].row.series
      BY DEF InsertsWhatItClosed
    <2>1. InsertsFor(c, s) /\ cur'[c] = cur[c]
      BY DEF Milder
    <2>2. \A q \in DOMAIN rows : rows[q].scope = s =>
            rows[q].status # Active /\ rows[q].series <= cur[c].row.series
      BY <2>1 DEF RowsInv, InsertsWhatItClosed
    <2> QED
      BY <2>1, <2>2 DEF Milder
  <1>3. OneInserts(s)'
    BY DEF RowsInv, OneInserts, Milder
  <1> QED
    BY <1>1, <1>2, <1>3 DEF RowsInv

LEMMA IssuedKept ==
  ASSUME KeyInv, KeyInv', NEW s \in Scopes, IssuedInv(s), LastKept(s), issued' = issued
  PROVE  IssuedInv(s)'
  <1>1. IssuedInOrder(s)'
    BY DEF IssuedInv, IssuedInOrder
  <1>2. IssuedIsCovered(s)'
    <2> SUFFICES ASSUME NEW i \in DOMAIN issued, issued[i].scope = s
                 PROVE  \E r \in DOMAIN rows' : Covers(r, issued[i])'
      BY DEF IssuedIsCovered
    <2>1. PICK r \in DOMAIN rows : Covers(r, issued[i])
      BY DEF IssuedInv, IssuedIsCovered
    <2>2. /\ r \in DOMAIN rows' /\ SameKey(rows'[r], rows[r]) /\ rows[r].last <= rows'[r].last
      BY <2>1 DEF LastKept, Covers
    <2>3. rows[r] \in Row /\ rows'[r] \in Row /\ issued[i] \in BlockType
      <3>1. rows \in Seq(Row) /\ rows' \in Seq(Row) /\ issued \in Seq(BlockType)
        BY DEF KeyInv, TypeOK
      <3> QED
        BY <2>1, <2>2, <3>1 DEF Covers
    <2>4. rows[r].last \in Nat /\ rows'[r].last \in Nat /\ issued[i].to \in Nat
      BY <2>3, RowFields DEF BlockType
    <2> QED
      BY <2>1, <2>2, <2>4 DEF Covers, SameKey
  <1> QED
    BY <1>1, <1>2 DEF IssuedInv

LEMMA SameRows ==
  ASSUME KeyInv, NEW s \in Scopes, UNCHANGED rows,
         \A c \in Callers : InsertsFor(c, s)' => InsertsFor(c, s) /\ cur'[c] = cur[c]
  PROVE  Milder(s) /\ LastKept(s)
  <1>1. \A r \in DOMAIN rows : rows[r].last \in Nat
    BY TypeParts, RowFields DEF KeyInv, RowsOK
  <1> QED
    BY <1>1 DEF Milder, LastKept, SameKey

\* A step in which one caller moves on and inserts for nobody afterwards.
LEMMA NoMoreInserters ==
  ASSUME KeyInv, NEW c \in Callers, NEW step \in Steps \ {"insert", "shift insert"},
         pc' = [pc EXCEPT ![c] = step], NEW m, cur' = [cur EXCEPT ![c] = m], NEW s \in Scopes
  PROVE  \A d \in Callers : InsertsFor(d, s)' => InsertsFor(d, s) /\ cur'[d] = cur[d]
  <1>1. pc \in [Callers -> Steps] /\ cur \in [Callers -> Memory]
    BY TypeParts DEF KeyInv
  <1> SUFFICES ASSUME NEW d \in Callers, InsertsFor(d, s)'
               PROVE  InsertsFor(d, s) /\ cur'[d] = cur[d]
    OBVIOUS
  <1>2. pc'[c] = step
    BY <1>1
  <1>3. d # c
    BY <1>2 DEF InsertsFor
  <1>4. pc'[d] = pc[d] /\ cur'[d] = cur[d]
    BY <1>1, <1>3
  <1> QED
    BY <1>4 DEF InsertsFor

LEMMA NoMoreInsertersOn ==
  ASSUME KeyInv, NEW c \in Callers, NEW step \in Steps \ {"insert", "shift insert"},
         pc' = [pc EXCEPT ![c] = step], cur' = cur, NEW s \in Scopes
  PROVE  \A d \in Callers : InsertsFor(d, s)' => InsertsFor(d, s) /\ cur'[d] = cur[d]
  <1>1. cur' = [cur EXCEPT ![c] = cur[c]]
    BY TypeParts DEF KeyInv
  <1> QED
    BY <1>1, NoMoreInserters

LEMMA NoMoreInsertersEnd ==
  ASSUME KeyInv, NEW c \in Callers, Ends(c), NEW s \in Scopes
  PROVE  \A d \in Callers : InsertsFor(d, s)' => InsertsFor(d, s) /\ cur'[d] = cur[d]
  <1>1. "idle" \in Steps \ {"insert", "shift insert"}
    BY DEF Steps
  <1> QED
    BY <1>1, NoMoreInserters DEF Ends, Goes

\* A block is taken from the topmost active row: it comes after everything
\* issued in the scope before.
LEMMA TakeInOrder ==
  ASSUME KeyInv, KeyInv', NEW s \in Scopes, RowsInv(s), IssuedInv(s),
         NEW r \in DOMAIN rows, Take(r),
         \A c \in Callers : InsertsFor(c, s)' => InsertsFor(c, s) /\ cur'[c] = cur[c]
  PROVE  RowsInv(s)' /\ IssuedInv(s)'
  <1> DEFINE new == [rows[r] EXCEPT !.last = @ + AllocationSize]
             b == Block(rows[r])
             n == Len(issued) + 1
  <1>1. rows[r] \in Row /\ rows \in Seq(Row) /\ issued \in Seq(BlockType)
    BY TypeParts DEF KeyInv, RowsOK, RestOK
  <1>2. \A q \in DOMAIN rows : rows[q] \in Row /\ rows[q].last \in Nat /\ rows[q].series \in Nat
    BY <1>1, RowFields
  <1>3. /\ new.scope = rows[r].scope /\ new.account = rows[r].account
        /\ new.series = rows[r].series /\ new.status = rows[r].status
        /\ new.last = rows[r].last + AllocationSize
    BY <1>1 DEF Row
  <1>4. /\ DOMAIN rows' = DOMAIN rows /\ rows'[r] = new
        /\ \A q \in DOMAIN rows \ {r} : rows'[q] = rows[q]
    BY DEF Take
  <1>5. Milder(s) /\ LastKept(s)
    <2> HIDE DEF new
    <2>1. rows[r].last <= new.last
      BY <1>2, <1>3, SequenceAssumption
    <2> QED
      BY <1>2, <1>3, <1>4, <2>1 DEF Milder, LastKept, SameKey
  <1>6. RowsInv(s)'
    BY <1>5, MilderKeeps
  <1>7. /\ b \in BlockType /\ b.scope = rows[r].scope /\ b.series = rows[r].series
        /\ b.from = rows[r].last + 1 /\ b.to = rows[r].last + AllocationSize
    BY <1>1, BlockOfRow DEF Block
  <1>8. /\ issued' = Append(issued, b) /\ DOMAIN issued' = DOMAIN issued \cup {n}
        /\ n \notin DOMAIN issued /\ issued'[n] = b
        /\ \A i \in DOMAIN issued : issued'[i] = issued[i] /\ issued[i] \in BlockType
        /\ \A i \in DOMAIN issued : i < n /\ ~(n < i)
    BY <1>1, <1>7, AppendedRow DEF Take
  <1> HIDE DEF new, b, n
  <1>9. ASSUME NEW i \in DOMAIN issued, issued[i].scope = s, rows[r].scope = s
        PROVE  Precedes(issued[i], b)
    <2>1. PICK q \in DOMAIN rows : Covers(q, issued[i])
      BY <1>9 DEF IssuedInv, IssuedIsCovered
    <2>2. issued[i].to \in Nat /\ issued[i].series \in Nat
      BY <1>8 DEF BlockType
    <2>3. CASE q = r
      BY <1>2, <1>7, <2>1, <2>2, <2>3 DEF Covers, Precedes
    <2>4. CASE q # r
      BY <1>7, <1>9, <2>1, <2>4 DEF Covers, Precedes, RowsInv, ActiveIsNewest, Take
    <2> QED
      BY <2>3, <2>4
  <1>10. IssuedInOrder(s)'
    <2> SUFFICES ASSUME NEW i \in DOMAIN issued', NEW j \in DOMAIN issued', i < j,
                        issued'[i].scope = s, issued'[j].scope = s
                 PROVE  Precedes(issued'[i], issued'[j])
      BY DEF IssuedInOrder
    <2>0. n \in Nat
      BY <1>1 DEF n
    <2>1. i \in DOMAIN issued
      BY <1>8, <2>0
    <2>2. CASE j = n
      BY <1>7, <1>8, <1>9, <2>1, <2>2
    <2>3. CASE j # n
      BY <1>8, <2>1, <2>3 DEF IssuedInv, IssuedInOrder
    <2> QED
      BY <2>2, <2>3
  <1>11. IssuedIsCovered(s)'
    <2> SUFFICES ASSUME NEW i \in DOMAIN issued', issued'[i].scope = s
                 PROVE  \E q \in DOMAIN rows' : Covers(q, issued[i])'
      BY DEF IssuedIsCovered
    <2>1. CASE i = n
      <3>1. Covers(r, issued[i])'
        BY <1>2, <1>3, <1>4, <1>7, <1>8, <2>1, SequenceAssumption DEF Covers
      <3> QED
        BY <1>4, <3>1
    <2>2. CASE i # n
      <3>1. i \in DOMAIN issued /\ issued'[i] = issued[i]
        BY <1>8, <2>2
      <3>2. PICK q \in DOMAIN rows : Covers(q, issued[i])
        BY <3>1 DEF IssuedInv, IssuedIsCovered
      <3>3. issued[i].to \in Nat
        BY <1>8, <3>1 DEF BlockType
      <3>4. Covers(q, issued[i])'
        BY <1>2, <1>3, <1>4, <3>1, <3>2, <3>3, SequenceAssumption DEF Covers
      <3> QED
        BY <1>4, <3>4
    <2> QED
      BY <2>1, <2>2
  <1> QED
    BY <1>6, <1>10, <1>11 DEF IssuedInv

LEMMA RowsTyped ==
  ASSUME KeyInv
  PROVE  /\ rows \in Seq(Row) /\ RowsOK
         /\ \A q \in DOMAIN rows : /\ rows[q] \in Row /\ rows[q].scope \in Scopes
                                  /\ rows[q].series \in Nat /\ rows[q].last \in Nat
                                  /\ rows[q].account \in Accounts[rows[q].scope]
  BY TypeParts, RowFields DEF KeyInv, RowsOK

\* c closes its row, which is active, and will insert the next one.
ClosesRow(c) ==
  /\ pc' \in {[pc EXCEPT ![c] = "insert"], [pc EXCEPT ![c] = "shift insert"]}
  /\ cur' = cur
  /\ rows[cur[c].recid].status = Active
  /\ rows' = [rows EXCEPT ![cur[c].recid].status = Closed]

\* c inserts the next row and goes on.
InsertsRow(c) ==
  /\ pc[c] \in {"insert", "shift insert"}
  /\ \E step \in Steps \ {"insert", "shift insert"} : pc' = [pc EXCEPT ![c] = step]
  /\ \A d \in Callers \ {c} : cur'[d] = cur[d]
  /\ Upsert(NextSeries(cur[c].row, cur[c].next))

\* A caller that closes the active row of a scope becomes the one inserter.
LEMMA ClosedByOne ==
  ASSUME KeyInv, NEW s \in Scopes, RowsInv(s), NEW c \in Callers, Reading(c), ClosesRow(c)
  PROVE  RowsInv(s)' /\ LastKept(s)
  <1> DEFINE r == cur[c].recid
             new == [rows[r] EXCEPT !.status = Closed]
  <1>1. rows \in Seq(Row) /\ pc \in [Callers -> Steps]
    BY TypeParts DEF KeyInv, RowsOK
  <1>2. /\ r \in DOMAIN rows /\ rows[r].scope = cur[c].row.scope
        /\ rows[r].series = cur[c].row.series
    BY DEF Reading, SameKey
  <1>3. \A q \in DOMAIN rows : rows[q] \in Row /\ rows[q].series \in Nat /\ rows[q].last \in Nat
    BY RowsTyped
  <1>4. /\ new.scope = rows[r].scope /\ new.account = rows[r].account
        /\ new.series = rows[r].series /\ new.last = rows[r].last /\ new.status # Active
    BY <1>2, <1>3 DEF Row, Closed, Active
  <1>5. /\ DOMAIN rows' = DOMAIN rows /\ rows'[r] = new
        /\ \A q \in DOMAIN rows \ {r} : rows'[q] = rows[q]
    BY <1>2 DEF ClosesRow
  <1>6. cur' = cur /\ \A d \in Callers \ {c} : pc'[d] = pc[d]
    BY <1>1 DEF ClosesRow
  <1>a. rows[r].status = Active
    BY DEF ClosesRow
  <1> HIDE DEF r, new
  <1>7. LastKept(s)
    BY <1>3, <1>4, <1>5 DEF LastKept, SameKey
  <1>8. CASE cur[c].row.scope # s
    <2>1. \A d \in Callers : InsertsFor(d, s)' => InsertsFor(d, s) /\ cur'[d] = cur[d]
      BY <1>6, <1>8 DEF InsertsFor
    <2>2. Milder(s)
      BY <1>4, <1>5, <2>1 DEF Milder
    <2> QED
      BY <1>7, <2>2, MilderKeeps
  <1>9. CASE cur[c].row.scope = s
    <2>1. \A q \in DOMAIN rows \ {r} : rows[q].scope = s =>
            rows[q].series < rows[r].series /\ rows[q].status # Active
      BY <1>2, <1>3, <1>9, <1>a DEF RowsInv, ActiveIsNewest
    <2>2. \A d \in Callers : ~InsertsFor(d, s)
      BY <1>2, <1>9, <1>a DEF RowsInv, InsertsWhatItClosed
    <2>3. \A d \in Callers : InsertsFor(d, s)' => d = c
      BY <1>6, <2>2 DEF InsertsFor
    <2>4. \A q \in DOMAIN rows : rows[q].scope = s =>
            rows'[q].status # Active /\ rows'[q].series <= cur'[c].row.series
      BY <1>2, <1>3, <1>4, <1>5, <1>6, <2>1
    <2>5. \A q \in DOMAIN rows : rows'[q].scope = rows[q].scope
      BY <1>4, <1>5
    <2>6. ActiveIsNewest(s)'
      BY <1>5, <2>4, <2>5 DEF ActiveIsNewest
    <2>7. InsertsWhatItClosed(s)'
      BY <1>5, <2>3, <2>4, <2>5 DEF InsertsWhatItClosed
    <2>8. OneInserts(s)'
      BY <2>3 DEF OneInserts
    <2> QED
      BY <1>7, <2>6, <2>7, <2>8 DEF RowsInv
  <1> QED
    BY <1>8, <1>9

\* The inserter's row is new, in its own scope and above every series there.
LEMMA InsertedByOne ==
  ASSUME KeyInv, NEW s \in Scopes, RowsInv(s), NEW c \in Callers, Reading(c), InsertsRow(c)
  PROVE  RowsInv(s)' /\ LastKept(s)
  <1> DEFINE row == NextSeries(cur[c].row, cur[c].next)
             n == Len(rows) + 1
  <1>1. rows \in Seq(Row) /\ pc \in [Callers -> Steps] /\ RowsOK
    BY TypeParts DEF KeyInv, RowsOK
  <1>2. /\ cur[c].row \in Row /\ cur[c].next \in AccountNumber
        /\ cur[c].next \in Accounts[cur[c].row.scope]
    BY DEF Reading
  <1>3. /\ row \in Row /\ row.scope = cur[c].row.scope /\ row.account = cur[c].next
        /\ row.series = cur[c].row.series + 1 /\ row.status = Active
    BY <1>2, NextSeriesRow
  <1> HIDE DEF row
  <1>4. \A q \in DOMAIN rows : rows[q] \in Row /\ rows[q].series \in Nat /\ rows[q].last \in Nat
    BY RowsTyped
  <1>5. cur[c].row.series \in Nat /\ cur[c].row.scope \in Scopes
    BY <1>2, RowFields
  <1>6. \A q \in Matching(row) : q \in DOMAIN rows /\ rows[q].scope = row.scope
                                /\ rows[q].series = row.series
    <2> SUFFICES ASSUME NEW q \in Matching(row)
                 PROVE  q \in DOMAIN rows /\ rows[q].scope = row.scope /\ rows[q].series = row.series
      OBVIOUS
    <2>1. q \in DOMAIN rows /\ rows[q].account = row.account /\ rows[q].series = row.series
      BY DEF Matching
    <2>2. rows[q].account \in Accounts[rows[q].scope] /\ rows[q].scope \in Scopes
      BY <1>1, <1>4, <2>1, RowFields DEF RowsOK
    <2> QED
      BY <1>2, <1>3, <1>5, <2>1, <2>2, AccountOfScope
  <1>7. \A d \in Callers : InsertsFor(d, s)' => d # c /\ InsertsFor(d, s) /\ cur'[d] = cur[d]
    <2> SUFFICES ASSUME NEW d \in Callers, InsertsFor(d, s)'
                 PROVE  d # c /\ InsertsFor(d, s) /\ cur'[d] = cur[d]
      OBVIOUS
    <2>1. d # c
      BY <1>1 DEF InsertsFor, InsertsRow
    <2>2. pc'[d] = pc[d] /\ cur'[d] = cur[d]
      BY <1>1, <2>1 DEF InsertsRow
    <2> QED
      BY <2>1, <2>2 DEF InsertsFor
  <1>8. ASSUME Matching(row) = {}
        PROVE  /\ DOMAIN rows' = DOMAIN rows \cup {n} /\ n \notin DOMAIN rows
               /\ rows'[n] = row /\ \A q \in DOMAIN rows : rows'[q] = rows[q]
    <2>1. rows' = Append(rows, row)
      BY <1>8 DEF Upsert, InsertsRow, row
    <2> QED
      BY <1>1, <1>3, <2>1, AppendedRow
  <1> HIDE DEF n
  <1>9. CASE cur[c].row.scope # s
    <2>1. /\ DOMAIN rows \subseteq DOMAIN rows'
          /\ \A q \in DOMAIN rows : rows[q].scope = s => rows'[q] = rows[q]
          /\ \A q \in DOMAIN rows' : rows'[q].scope = s =>
               q \in DOMAIN rows /\ rows'[q] = rows[q]
      <3>1. CASE Matching(row) = {}
        BY <1>3, <1>8, <1>9, <3>1
      <3>2. CASE Matching(row) # {}
        <4>1. rows' = [q \in DOMAIN rows |-> IF q \in Matching(row) THEN row ELSE rows[q]]
          BY <3>2 DEF Upsert, InsertsRow, row
        <4> QED
          BY <1>3, <1>6, <1>9, <4>1
      <3> QED
        BY <3>1, <3>2
    <2>2. Milder(s) /\ LastKept(s)
      BY <1>4, <1>7, <2>1 DEF Milder, LastKept, SameKey
    <2> QED
      BY <2>2, MilderKeeps
  <1>10. CASE cur[c].row.scope = s
    <2>1. InsertsFor(c, s)
      BY <1>10 DEF InsertsFor, InsertsRow
    <2>2. \A q \in DOMAIN rows : rows[q].scope = s =>
            rows[q].status # Active /\ rows[q].series <= cur[c].row.series
      BY <2>1 DEF RowsInv, InsertsWhatItClosed
    <2>3. Matching(row) = {}
      BY <1>3, <1>4, <1>5, <1>6, <1>10, <2>2
    <2>4. ActiveIsNewest(s)'
      BY <1>3, <1>4, <1>5, <1>8, <2>2, <2>3 DEF ActiveIsNewest
    <2>5. \A d \in Callers : ~InsertsFor(d, s)'
      BY <1>7, <2>1 DEF RowsInv, OneInserts
    <2>6. InsertsWhatItClosed(s)' /\ OneInserts(s)'
      BY <2>5 DEF InsertsWhatItClosed, OneInserts
    <2>7. LastKept(s)
      BY <1>4, <1>8, <2>3 DEF LastKept, SameKey
    <2> QED
      BY <2>4, <2>6, <2>7 DEF RowsInv
  <1> QED
    BY <1>9, <1>10

\* A saved form that does not set its scope back.
LEMMA EditedMildly ==
  ASSUME KeyInv, KeyInv', NEW s \in Scopes, NEW c \in Callers, Reading(c), EditWrite(c),
         s \notin tampered'
  PROVE  Milder(s) /\ LastKept(s)
  <1> DEFINE r == cur[c].recid
             row == cur[c].row
             n == Len(rows) + 1
  <1>1. rows \in Seq(Row)
    BY TypeParts DEF KeyInv, RowsOK
  <1>2. /\ r \in DOMAIN rows /\ row \in Row /\ SameKey(rows[r], row)
    BY DEF Reading
  <1>3. \A q \in DOMAIN rows : rows[q] \in Row /\ rows[q].last \in Nat
    BY <1>1, RowFields
  <1>4. row.last \in Nat
    BY <1>2, RowFields
  <1>5. row.scope = s => /\ rows[r].last <= row.last
                         /\ row.status = Active => rows[r].status = Active
    <2>1. row.scope = s => ~SetsBack(rows[r], row)
      BY DEF EditWrite
    <2> QED
      BY <1>2, <1>3, <1>4, <2>1 DEF SetsBack
  <1>6. \A d \in Callers : InsertsFor(d, s)' => InsertsFor(d, s) /\ cur'[d] = cur[d]
    BY NoMoreInsertersEnd DEF EditWrite
  <1>7. CASE rows[r].status = Deleted
    <2>1. /\ DOMAIN rows' = DOMAIN rows \cup {n} /\ n \notin DOMAIN rows
          /\ rows'[n] = row /\ \A q \in DOMAIN rows : rows'[q] = rows[q]
      <3>1. rows' = Append(rows, row)
        BY <1>7 DEF EditWrite
      <3> QED
        BY <1>1, <1>2, <3>1, AppendedRow
    <2> HIDE DEF n, row, r
    <2>2. rows[r].status # Active
      BY <1>7 DEF Deleted, Active
    <2>3. \A q \in DOMAIN rows' : rows'[q].scope = s =>
            \/ q \in DOMAIN rows /\ rows'[q] = rows[q]
            \/ /\ q \notin DOMAIN rows /\ rows'[q].status # Active
               /\ rows[r].scope = s /\ rows'[q].series = rows[r].series
      BY <1>2, <1>5, <2>1, <2>2 DEF SameKey
    <2>4. Milder(s)
      BY <1>2, <1>6, <2>2, <2>3 DEF Milder
    <2> QED
      BY <1>3, <2>1, <2>4 DEF LastKept, SameKey
  <1>8. CASE rows[r].status # Deleted
    <2>1. /\ DOMAIN rows' = DOMAIN rows /\ rows'[r] = row
          /\ \A q \in DOMAIN rows \ {r} : rows'[q] = rows[q]
      BY <1>2, <1>8 DEF EditWrite
    <2> HIDE DEF row, r
    <2>2. Milder(s)
      BY <1>2, <1>5, <1>6, <2>1 DEF Milder, SameKey
    <2>3. LastKept(s)
      BY <1>2, <1>3, <1>5, <2>1 DEF LastKept, SameKey
    <2> QED
      BY <2>2, <2>3
  <1> QED
    BY <1>7, <1>8

\* Deleting a row sets its scope back; no other scope sees it.
LEMMA DeletedElsewhere ==
  ASSUME KeyInv, NEW s \in Scopes, NEW r \in DOMAIN rows, Delete(r), s \notin tampered'
  PROVE  Milder(s) /\ LastKept(s)
  <1>1. rows[r].scope # s
    BY DEF Delete
  <1>2. rows' = [rows EXCEPT ![r].status = Deleted]
    BY DEF Delete
  <1>3. /\ DOMAIN rows' = DOMAIN rows
        /\ \A q \in DOMAIN rows \ {r} : rows'[q] = rows[q]
    BY <1>2
  <1>4. rows'[r].scope = rows[r].scope
    BY <1>2, RowsTyped DEF Row
  <1>5. \A c \in Callers : InsertsFor(c, s)' => InsertsFor(c, s) /\ cur'[c] = cur[c]
    BY DEF Delete, InsertsFor
  <1>6. Milder(s)
    BY <1>1, <1>3, <1>4, <1>5 DEF Milder
  <1> QED
    BY <1>1, <1>3, <1>6, RowsTyped DEF LastKept, SameKey

LEMMA ScopeInit == Init => ScopeInv
  <1> SUFFICES ASSUME Init, NEW s \in Scopes PROVE RowsInv(s) /\ IssuedInv(s)
    BY DEF ScopeInv
  <1>1. ActiveIsNewest(s)
    BY ConfiguredAssumption DEF Init, ActiveIsNewest
  <1>2. \A c \in Callers : ~InsertsFor(c, s)
    BY DEF Init, InsertsFor
  <1>3. InsertsWhatItClosed(s) /\ OneInserts(s)
    BY <1>2 DEF InsertsWhatItClosed, OneInserts
  <1>4. DOMAIN issued = {}
    BY DEF Init
  <1> QED
    BY <1>1, <1>3, <1>4 DEF RowsInv, IssuedInv, IssuedIsCovered, IssuedInOrder

LEMMA ScopeStep == KeyInv /\ KeyInv' /\ ScopeInv /\ [Next]_vars => ScopeInv'
  <1> SUFFICES ASSUME KeyInv, KeyInv', ScopeInv, [Next]_vars, NEW s \in Scopes \ tampered'
               PROVE  RowsInv(s)' /\ IssuedInv(s)'
    BY DEF ScopeInv
  <1> USE DEF Goes
  <1>1. tampered \subseteq tampered'
    <2>1. ASSUME NEW c \in Callers, ReadCurrent(c) \/ Close(c) \/ ReadReplacement(c) \/ Insert(c)
                                     \/ ReadBack(c) \/ Retry(c)
          PROVE  tampered' = tampered
      BY <2>1 DEF ReadCurrent, Close, ReadReplacement, Insert, ReadBack, Retry, history
    <2>2. ASSUME NEW c \in Callers, ShiftClose(c) \/ ShiftInsert(c) \/ EditCheck(c) \/ Fail(c)
          PROVE  tampered' = tampered
      BY <2>2 DEF ShiftClose, ShiftInsert, EditCheck, Fail, history
    <2>3. ASSUME NEW c \in Callers, NEW t \in Scopes, NextNumberByScope(c, t)
          PROVE  tampered' = tampered
      BY <2>3 DEF NextNumberByScope, Starts, history
    <2>4. ASSUME NEW c \in Callers, NEW r \in DOMAIN rows,
                 \/ NextNumber(c, r)
                 \/ \E a \in Accounts[rows[r].scope] : ShiftRead(c, r, a)
                 \/ \E l \in {0, AllocationSize}, m \in {0, AllocationSize} :
                      EditRead(c, r, rows[r].last + l, rows[r].max + m)
          PROVE  tampered' = tampered
      BY <2>4 DEF NextNumber, ShiftRead, EditRead, Starts, history
    <2>5. ASSUME NEW c \in Callers, EditWrite(c) PROVE tampered \subseteq tampered'
      BY <2>5 DEF EditWrite
    <2>6. ASSUME NEW r \in DOMAIN rows, Delete(r) PROVE tampered \subseteq tampered'
      BY <2>6 DEF Delete
    <2> QED
      BY <2>1, <2>2, <2>3, <2>4, <2>5, <2>6 DEF Next, vars
  <1>2. RowsInv(s) /\ IssuedInv(s)
    BY <1>1 DEF ScopeInv
  <1>3. \A c \in Callers : pc[c] \in Working => Reading(c)
    BY DEF KeyInv
  <1>4. ASSUME issued' = issued, UNCHANGED rows,
               \A d \in Callers : InsertsFor(d, s)' => InsertsFor(d, s) /\ cur'[d] = cur[d]
        PROVE  RowsInv(s)' /\ IssuedInv(s)'
    <2>1. Milder(s) /\ LastKept(s)
      BY <1>4, SameRows
    <2> QED
      BY <1>2, <1>4, <2>1, MilderKeeps, IssuedKept
  <1>5. ASSUME NEW c \in Callers, NEW t \in Scopes, NextNumberByScope(c, t)
        PROVE  RowsInv(s)' /\ IssuedInv(s)'
    <2>1. CASE /\ \E r \in Top(t) : Take(r)
               /\ UNCHANGED <<pc, cur>>
      <3>1. PICK r \in Top(t) : Take(r)
        BY <2>1
      <3>2. r \in DOMAIN rows
        BY DEF Top, ActiveRows
      <3>3. \A d \in Callers : InsertsFor(d, s)' => InsertsFor(d, s) /\ cur'[d] = cur[d]
        BY <2>1 DEF InsertsFor
      <3> QED
        BY <1>2, <3>1, <3>2, <3>3, TakeInOrder
    <2>2. CASE /\ NoneLeft(t)
               /\ Goes(c, "read")
               /\ cur' = [cur EXCEPT ![c] = [recid |-> 0, scope |-> t]]
               /\ UNCHANGED table
      <3>1. "read" \in Steps \ {"insert", "shift insert"}
        BY DEF Steps
      <3> QED
        BY <1>4, <2>2, <3>1, NoMoreInserters DEF table
    <2> QED
      BY <1>5, <2>1, <2>2 DEF NextNumberByScope
  <1>6. ASSUME NEW c \in Callers, ReadCurrent(c)
        PROVE  RowsInv(s)' /\ IssuedInv(s)'
    <2>1. UNCHANGED table /\ "close" \in Steps \ {"insert", "shift insert"}
      BY <1>6 DEF ReadCurrent, Steps
    <2>2. \/ Ends(c)
          \/ \E m : pc' = [pc EXCEPT ![c] = "close"] /\ cur' = [cur EXCEPT ![c] = m]
      BY <1>6 DEF ReadCurrent
    <2> QED
      BY <1>4, <2>1, <2>2, NoMoreInserters, NoMoreInsertersEnd DEF table
  <1>7. ASSUME NEW c \in Callers, ClosesRow(c), Reading(c), issued' = issued
        PROVE  RowsInv(s)' /\ IssuedInv(s)'
    BY <1>2, <1>7, ClosedByOne, IssuedKept
  <1>8. ASSUME NEW c \in Callers, Close(c)
        PROVE  RowsInv(s)' /\ IssuedInv(s)'
    <2>1. issued' = issued /\ cur' = cur /\ Reading(c)
      BY <1>3, <1>8 DEF Close, Working
    <2>2. CASE rows[cur[c].recid].status = Active
      <3>1. ClosesRow(c)
        BY <1>8, <2>2 DEF Close, ClosesRow
      <3> QED
        BY <1>7, <2>1, <3>1
    <2>3. CASE rows[cur[c].recid].status # Active
      <3>1. /\ UNCHANGED rows /\ pc' = [pc EXCEPT ![c] = "replaced"]
            /\ "replaced" \in Steps \ {"insert", "shift insert"}
        BY <1>8, <2>3 DEF Close, Steps
      <3> QED
        BY <1>4, <2>1, <3>1, NoMoreInsertersOn
    <2> QED
      BY <2>2, <2>3
  <1>9. ASSUME NEW c \in Callers, ReadReplacement(c) \/ ReadBack(c)
        PROVE  RowsInv(s)' /\ IssuedInv(s)'
    <2>1. UNCHANGED table /\ "retry" \in Steps \ {"insert", "shift insert"}
      BY <1>9 DEF ReadReplacement, ReadBack, Steps
    <2>2. Ends(c) \/ (pc' = [pc EXCEPT ![c] = "retry"] /\ cur' = cur)
      BY <1>9 DEF ReadReplacement, ReadBack
    <2> QED
      BY <1>4, <2>1, <2>2, NoMoreInsertersOn, NoMoreInsertersEnd DEF table
  <1>10. ASSUME NEW c \in Callers, Insert(c) \/ ShiftInsert(c)
         PROVE  RowsInv(s)' /\ IssuedInv(s)'
    <2>1. issued' = issued /\ Reading(c)
      BY <1>3, <1>10 DEF Insert, ShiftInsert, Working
    <2>2. \A d \in Callers \ {c} : cur'[d] = cur[d]
      BY <1>10, TypeParts DEF KeyInv, Insert, ShiftInsert, Ends
    <2>3. "inserted" \in Steps \ {"insert", "shift insert"} /\ "idle" \in Steps \ {"insert", "shift insert"}
      BY DEF Steps
    <2>4. InsertsRow(c)
      BY <1>10, <2>2, <2>3 DEF Insert, ShiftInsert, InsertsRow, Ends
    <2> QED
      BY <1>2, <2>1, <2>4, InsertedByOne, IssuedKept
  <1>11. ASSUME NEW c \in Callers, Retry(c)
         PROVE  RowsInv(s)' /\ IssuedInv(s)'
    <2>1. \A d \in Callers : InsertsFor(d, s)' => InsertsFor(d, s) /\ cur'[d] = cur[d]
      BY <1>11, NoMoreInsertersEnd DEF Retry
    <2>2. CASE \E r \in Top(cur[c].row.scope) : Take(r)
      <3>1. PICK r \in Top(cur[c].row.scope) : Take(r)
        BY <2>2
      <3>2. r \in DOMAIN rows
        BY DEF Top, ActiveRows
      <3> QED
        BY <1>2, <2>1, <3>1, <3>2, TakeInOrder
    <2>3. CASE UNCHANGED table
      BY <1>4, <2>1, <2>3 DEF table
    <2> QED
      BY <1>11, <2>2, <2>3 DEF Retry
  <1>12. ASSUME NEW c \in Callers, NEW r \in DOMAIN rows, NextNumber(c, r)
         PROVE  RowsInv(s)' /\ IssuedInv(s)'
    <2>1. \A d \in Callers : InsertsFor(d, s)' => InsertsFor(d, s) /\ cur'[d] = cur[d]
      BY <1>12 DEF NextNumber, InsertsFor
    <2> QED
      BY <1>2, <1>12, <2>1, TakeInOrder DEF NextNumber
  <1>13. ASSUME NEW c \in Callers, NEW r \in DOMAIN rows, NEW a \in Accounts[rows[r].scope],
                ShiftRead(c, r, a)
         PROVE  RowsInv(s)' /\ IssuedInv(s)'
    <2>1. /\ UNCHANGED table /\ "shift" \in Steps \ {"insert", "shift insert"}
          /\ pc' = [pc EXCEPT ![c] = "shift"] /\ cur' = [cur EXCEPT ![c] = Read(r, a)]
      BY <1>13 DEF ShiftRead, Steps
    <2> QED
      BY <1>4, <2>1, NoMoreInserters DEF table
  <1>14. ASSUME NEW c \in Callers, ShiftClose(c)
         PROVE  RowsInv(s)' /\ IssuedInv(s)'
    <2>1. issued' = issued /\ Reading(c)
      BY <1>3, <1>14 DEF ShiftClose, Working
    <2>2. CASE rows[cur[c].recid].status = Active
      <3>1. ClosesRow(c)
        BY <1>14, <2>2 DEF ShiftClose, ClosesRow
      <3> QED
        BY <1>7, <2>1, <3>1
    <2>3. CASE rows[cur[c].recid].status # Active
      <3>1. UNCHANGED rows /\ Ends(c)
        BY <1>14, <2>3 DEF ShiftClose
      <3> QED
        BY <1>4, <2>1, <3>1, NoMoreInsertersEnd
    <2> QED
      BY <2>2, <2>3
  <1>15. ASSUME NEW c \in Callers, NEW r \in DOMAIN rows,
                NEW l \in {0, AllocationSize}, NEW m \in {0, AllocationSize},
                EditRead(c, r, rows[r].last + l, rows[r].max + m)
         PROVE  RowsInv(s)' /\ IssuedInv(s)'
    <2>1. /\ UNCHANGED table /\ "edit" \in Steps \ {"insert", "shift insert"}
          /\ pc' = [pc EXCEPT ![c] = "edit"] /\ \E x : cur' = [cur EXCEPT ![c] = x]
      BY <1>15 DEF EditRead, Steps
    <2> QED
      BY <1>4, <2>1, NoMoreInserters DEF table
  <1>16. ASSUME NEW c \in Callers, EditCheck(c)
         PROVE  RowsInv(s)' /\ IssuedInv(s)'
    <2>1. UNCHANGED table /\ "edit write" \in Steps \ {"insert", "shift insert"}
      BY <1>16 DEF EditCheck, Steps
    <2>2. Ends(c) \/ (pc' = [pc EXCEPT ![c] = "edit write"] /\ cur' = cur)
      BY <1>16 DEF EditCheck
    <2> QED
      BY <1>4, <2>1, <2>2, NoMoreInsertersOn, NoMoreInsertersEnd DEF table
  <1>17. ASSUME NEW c \in Callers, EditWrite(c)
         PROVE  RowsInv(s)' /\ IssuedInv(s)'
    <2>1. issued' = issued /\ Reading(c)
      BY <1>3, <1>17 DEF EditWrite, Working
    <2> QED
      BY <1>2, <1>17, <2>1, EditedMildly, MilderKeeps, IssuedKept
  <1>18. ASSUME NEW c \in Callers, Fail(c)
         PROVE  RowsInv(s)' /\ IssuedInv(s)'
    BY <1>4, <1>18, NoMoreInsertersEnd DEF Fail, table
  <1>19. ASSUME NEW r \in DOMAIN rows, Delete(r)
         PROVE  RowsInv(s)' /\ IssuedInv(s)'
    <2>1. issued' = issued
      BY <1>19 DEF Delete
    <2> QED
      BY <1>2, <1>19, <2>1, DeletedElsewhere, MilderKeeps, IssuedKept
  <1>20. CASE UNCHANGED vars
    BY <1>4, <1>20 DEF vars, InsertsFor
  <1> QED
    BY <1>5, <1>6, <1>8, <1>9, <1>10, <1>11, <1>12, <1>13, <1>14, <1>15, <1>16, <1>17,
       <1>18, <1>19, <1>20 DEF Next

\* The inductive invariant.
THEOREM InvHolds == Spec => []IInv
  <1>1. Init => IInv
    BY KeyInit, ScopeInit DEF IInv
  <1>2. IInv /\ [Next]_vars => IInv'
    BY KeyStep, ScopeStep DEF IInv
  <1> QED
    BY <1>1, <1>2, PTL DEF Spec

\* However rollovers, shifts and edits interleave, the identifiers of a scope
\* no administrator set back are handed out in increasing order: none twice.
THEOREM NumbersUnique == Spec => []NumbersGoForward
  <1>1. IInv => NumbersGoForward
    <2> SUFFICES ASSUME IInv, NEW i \in DOMAIN issued, NEW j \in DOMAIN issued, i < j,
                        issued[i].scope = issued[j].scope, issued[i].scope \notin tampered
                 PROVE  Precedes(issued[i], issued[j])
      BY DEF NumbersGoForward
    <2>1. issued \in Seq(BlockType)
      BY TypeParts DEF IInv, KeyInv, RestOK
    <2>2. issued[i].scope \in Scopes
      <3>1. issued[i] \in BlockType
        BY <2>1
      <3> QED
        BY <3>1 DEF BlockType
    <2> QED
      BY <2>2 DEF IInv, ScopeInv, IssuedInv, IssuedInOrder
  <1> QED
    BY <1>1, InvHolds, PTL

\* A scope nobody set back never has two active sequences, so looking the
\* active one up returns one row.
THEOREM ActiveUnique == Spec => []OneActiveSequence
  <1>1. IInv => OneActiveSequence
    <2> SUFFICES ASSUME IInv, NEW s \in Scopes \ tampered PROVE Cardinality(ActiveRows(s)) <= 1
      BY DEF OneActiveSequence
    <2>1. \A r, q \in ActiveRows(s) : r = q
      <3> SUFFICES ASSUME NEW r \in ActiveRows(s), NEW q \in ActiveRows(s), r # q
                   PROVE  FALSE
        OBVIOUS
      <3>1. rows[q].series < rows[r].series /\ rows[r].series < rows[q].series
        BY DEF IInv, ScopeInv, RowsInv, ActiveIsNewest, ActiveRows
      <3>2. rows[q].series \in Nat /\ rows[r].series \in Nat
        BY RowsTyped DEF IInv, ActiveRows
      <3> QED
        BY <3>1, <3>2
    <2>2. CASE ActiveRows(s) = {}
      BY <2>2, FS_EmptySet
    <2>3. CASE ActiveRows(s) # {}
      <3>1. PICK r : r \in ActiveRows(s)
        BY <2>3
      <3>2. ActiveRows(s) = {r}
        BY <2>1, <3>1
      <3> QED
        BY <3>2, FS_Singleton
    <2> QED
      BY <2>2, <2>3
  <1> QED
    BY <1>1, InvHolds, PTL

-----------------------------------------------------------------------------
(* The dispenser *)

LastIn(seq, s) ==
  LET of == {i \in DOMAIN seq : seq[i].scope = s}
  IN  IF of = {} THEN <<0, 0>>
      ELSE LET i == CHOOSE i \in of : \A j \in of : j <= i
           IN  <<seq[i].series, seq[i].to>>

IsLast(seq, s, i) == /\ i \in DOMAIN seq /\ seq[i].scope = s
                     /\ \A j \in DOMAIN seq : seq[j].scope = s => j <= i

NoneOf(seq, s) == \A i \in DOMAIN seq : seq[i].scope # s

\* There is a last block wherever there is one at all.
HasLast == \A s \in Scopes : NoneOf(issued, s) \/ \E i \in DOMAIN issued : IsLast(issued, s, i)

LEMMA LastOfNone ==
  ASSUME NEW seq, NEW s, NoneOf(seq, s)
  PROVE  LastIn(seq, s) = <<0, 0>>
  <1>1. {i \in DOMAIN seq : seq[i].scope = s} = {}
    BY DEF NoneOf
  <1> QED
    BY <1>1 DEF LastIn

LEMMA LastOfSome ==
  ASSUME NEW seq \in Seq(BlockType), NEW s, NEW i, IsLast(seq, s, i)
  PROVE  LastIn(seq, s) = <<seq[i].series, seq[i].to>>
  <1> DEFINE of == {j \in DOMAIN seq : seq[j].scope = s}
  <1>1. i \in of /\ \A j \in of : j <= i
    BY DEF IsLast
  <1>2. \A k \in of : (\A j \in of : j <= k) => k = i
    <2>1. DOMAIN seq \subseteq Nat
      OBVIOUS
    <2> QED
      BY <1>1, <2>1
  <1>3. (CHOOSE k \in of : \A j \in of : j <= k) = i
    BY <1>1, <1>2
  <1>4. of # {}
    BY <1>1
  <1> HIDE DEF of
  <1>5. LastIn(seq, s) = IF of = {} THEN <<0, 0>>
                         ELSE LET k == CHOOSE k \in of : \A j \in of : j <= k
                              IN  <<seq[k].series, seq[k].to>>
    BY DEF LastIn, of
  <1> QED
    BY <1>3, <1>4, <1>5

\* What a step does to the blocks handed out and to the scopes set back.
HandsOut(b) == /\ issued' = Append(issued, b) /\ UNCHANGED tampered
               /\ b.from <= b.to /\ 0 < b.to

SetsScopeBack == UNCHANGED issued /\ \E s \in Scopes : tampered' = tampered \cup {s}

LEMMA TakeHandsOut ==
  ASSUME KeyInv, NEW r \in DOMAIN rows, Take(r), UNCHANGED tampered
  PROVE  \E b \in BlockType : HandsOut(b)
  <1>1. rows[r] \in Row
    BY RowsTyped
  <1>2. Block(rows[r]) \in BlockType
    BY <1>1, BlockOfRow
  <1>3. Block(rows[r]).from <= Block(rows[r]).to /\ 0 < Block(rows[r]).to
    BY <1>1, SequenceAssumption DEF Block, Row
  <1> QED
    BY <1>2, <1>3 DEF Take, HandsOut

LEMMA StepOfDispenser ==
  ASSUME KeyInv, [Next]_vars
  PROVE  \/ \E b \in BlockType : HandsOut(b)
         \/ SetsScopeBack
         \/ UNCHANGED <<issued, tampered>>
  <1>1. CASE UNCHANGED vars
    BY <1>1 DEF vars
  <1>2. ASSUME NEW c \in Callers, NEW s \in Scopes, NextNumberByScope(c, s)
        PROVE  (\E b \in BlockType : HandsOut(b)) \/ UNCHANGED <<issued, tampered>>
    BY <1>2, TakeHandsOut DEF NextNumberByScope, Top, ActiveRows, table, history
  <1>3. ASSUME NEW c \in Callers, Retry(c)
        PROVE  (\E b \in BlockType : HandsOut(b)) \/ UNCHANGED <<issued, tampered>>
    BY <1>3, TakeHandsOut DEF Retry, Top, ActiveRows, table, history
  <1>4. ASSUME NEW c \in Callers, NEW r \in DOMAIN rows, NextNumber(c, r)
        PROVE  \E b \in BlockType : HandsOut(b)
    BY <1>4, TakeHandsOut DEF NextNumber, history
  <1>5. ASSUME NEW c \in Callers, ReadCurrent(c) \/ Close(c) \/ ReadReplacement(c) \/ Insert(c)
                                  \/ ReadBack(c) \/ ShiftClose(c) \/ ShiftInsert(c) \/ EditCheck(c)
                                  \/ Fail(c)
        PROVE  UNCHANGED <<issued, tampered>>
    <2>1. CASE ReadCurrent(c) \/ ReadReplacement(c) \/ ReadBack(c) \/ EditCheck(c)
      BY <2>1 DEF ReadCurrent, ReadReplacement, ReadBack, EditCheck, table, history
    <2>2. CASE Close(c) \/ Insert(c) \/ ShiftClose(c) \/ ShiftInsert(c)
      BY <2>2 DEF Close, Insert, ShiftClose, ShiftInsert, history
    <2>3. CASE Fail(c)
      BY <2>3 DEF Fail, table
    <2> QED
      BY <1>5, <2>1, <2>2, <2>3
  <1>6. ASSUME NEW c \in Callers, NEW r \in DOMAIN rows,
               \/ \E a \in Accounts[rows[r].scope] : ShiftRead(c, r, a)
               \/ \E l \in {0, AllocationSize}, m \in {0, AllocationSize} :
                    EditRead(c, r, rows[r].last + l, rows[r].max + m)
        PROVE  UNCHANGED <<issued, tampered>>
    BY <1>6 DEF ShiftRead, EditRead, table, history
  <1>7. ASSUME NEW c \in Callers, EditWrite(c)
        PROVE  SetsScopeBack \/ UNCHANGED <<issued, tampered>>
    <2>1. pc[c] = "edit write"
      BY <1>7 DEF EditWrite
    <2>2. UNCHANGED issued /\ (tampered' = tampered \/ tampered' = tampered \cup {cur[c].row.scope})
      BY <1>7 DEF EditWrite
    <2>3. Reading(c)
      BY <2>1 DEF KeyInv, Working
    <2>4. cur[c].row.scope \in Scopes
      BY <2>3, RowFields DEF Reading
    <2> QED
      BY <2>2, <2>4 DEF SetsScopeBack
  <1>8. ASSUME NEW r \in DOMAIN rows, Delete(r)
        PROVE  SetsScopeBack
    BY <1>8, RowsTyped DEF Delete, SetsScopeBack
  <1> QED
    BY <1>1, <1>2, <1>3, <1>4, <1>5, <1>6, <1>7, <1>8 DEF Next

LEMMA LastKeptOf ==
  ASSUME NEW seq \in Seq(BlockType), NEW b \in BlockType, NEW s, s # b.scope,
         NoneOf(seq, s) \/ \E i \in DOMAIN seq : IsLast(seq, s, i)
  PROVE  /\ LastIn(Append(seq, b), s) = LastIn(seq, s)
         /\ NoneOf(Append(seq, b), s) \/ \E i \in DOMAIN Append(seq, b) : IsLast(Append(seq, b), s, i)
  <1> DEFINE new == Append(seq, b)
  <1>1. /\ new \in Seq(BlockType) /\ DOMAIN new = DOMAIN seq \cup {Len(seq) + 1}
        /\ \A j \in DOMAIN seq : new[j] = seq[j]
        /\ new[Len(seq) + 1] = b
    BY AppendedRow
  <1> HIDE DEF new
  <1>2. CASE NoneOf(seq, s)
    <2>1. NoneOf(new, s)
      BY <1>1, <1>2 DEF NoneOf
    <2> QED
      BY <1>2, <2>1, LastOfNone DEF new
  <1>3. CASE \E i \in DOMAIN seq : IsLast(seq, s, i)
    <2>1. PICK i \in DOMAIN seq : IsLast(seq, s, i)
      BY <1>3
    <2>2. i \in DOMAIN new /\ IsLast(new, s, i)
      BY <1>1, <2>1 DEF IsLast
    <2>3. LastIn(new, s) = LastIn(seq, s)
      BY <1>1, <2>1, <2>2, LastOfSome
    <2> QED
      BY <2>2, <2>3 DEF new
  <1> QED
    BY <1>2, <1>3

LEMMA LastAdded ==
  ASSUME NEW seq \in Seq(BlockType), NEW b \in BlockType
  PROVE  /\ Append(seq, b) \in Seq(BlockType)
         /\ IsLast(Append(seq, b), b.scope, Len(seq) + 1)
         /\ LastIn(Append(seq, b), b.scope) = <<b.series, b.to>>
  <1> DEFINE new == Append(seq, b)
  <1>1. /\ new \in Seq(BlockType) /\ DOMAIN new = DOMAIN seq \cup {Len(seq) + 1}
        /\ new[Len(seq) + 1] = b /\ DOMAIN seq = 1 .. Len(seq) /\ Len(seq) \in Nat
    BY AppendedRow
  <1> HIDE DEF new
  <1>2. IsLast(new, b.scope, Len(seq) + 1)
    BY <1>1 DEF IsLast
  <1>3. LastIn(new, b.scope) = <<b.series, b.to>>
    BY <1>1, <1>2, LastOfSome
  <1> QED
    BY <1>1, <1>2, <1>3 DEF new

LEMMA HasLastStep == KeyInv /\ HasLast /\ [Next]_vars => HasLast'
  <1> SUFFICES ASSUME KeyInv, HasLast, [Next]_vars PROVE HasLast'
    OBVIOUS
  <1>1. issued \in Seq(BlockType)
    BY TypeParts DEF KeyInv, RestOK
  <1>2. CASE UNCHANGED issued
    BY <1>2 DEF HasLast
  <1>3. ASSUME NEW b \in BlockType, HandsOut(b) PROVE HasLast'
    <2> SUFFICES ASSUME NEW s \in Scopes
                 PROVE  NoneOf(issued', s) \/ \E i \in DOMAIN issued' : IsLast(issued', s, i)
      BY DEF HasLast
    <2>1. CASE s = b.scope
      BY <1>1, <1>3, <2>1, LastAdded DEF HandsOut, IsLast
    <2>2. CASE s # b.scope
      BY <1>1, <1>3, <2>2, LastKeptOf DEF HandsOut, HasLast
    <2> QED
      BY <2>1, <2>2
  <1> QED
    BY <1>2, <1>3, StepOfDispenser DEF SetsScopeBack

\* A block handed out in a scope nobody set back is later than the last one.
LEMMA LaterThanLast ==
  ASSUME KeyInv, HasLast, ScopeInv', NEW b \in BlockType, HandsOut(b),
         b.scope \in Scopes, b.scope \notin tampered
  PROVE  Dispenser!Later(LastIn(issued, b.scope), <<b.series, b.to>>)
  <1> DEFINE s == b.scope
             n == Len(issued) + 1
  <1>1. issued \in Seq(BlockType)
    BY TypeParts DEF KeyInv, RestOK
  <1>2. b.series \in Nat /\ b.to \in Nat /\ b.from \in Nat /\ 0 < b.to /\ b.from <= b.to
    BY DEF BlockType, HandsOut
  <1>3. CASE NoneOf(issued, s)
    BY <1>2, <1>3, LastOfNone DEF Dispenser!Later
  <1>4. CASE \E i \in DOMAIN issued : IsLast(issued, s, i)
    <2>1. PICK i \in DOMAIN issued : IsLast(issued, s, i)
      BY <1>4
    <2>2. LastIn(issued, s) = <<issued[i].series, issued[i].to>>
      BY <1>1, <2>1, LastOfSome
    <2>3. /\ issued'[i] = issued[i] /\ issued'[n] = b /\ i < n
          /\ i \in DOMAIN issued' /\ n \in DOMAIN issued'
      BY <1>1, AppendedRow DEF HandsOut
    <2>4. Precedes(issued[i], b)
      BY <2>1, <2>3 DEF ScopeInv, IssuedInv, IssuedInOrder, HandsOut, IsLast
    <2>5. issued[i] \in BlockType
      BY <1>1
    <2> QED
      BY <1>2, <2>2, <2>4, <2>5 DEF Precedes, Dispenser!Later, BlockType
  <1> QED
    BY <1>3, <1>4 DEF HasLast

\* The number sequences implement the dispenser: a call that hands out a block takes
\* one later identifier of its scope in one step, an edit that sets a scope back
\* gives the scope up, and every other statement of a rollover, a shift or an edit
\* goes unnoticed.
THEOREM SequencesDispense == Spec => DispensesNumbers
  <1> DEFINE high == [s \in Scopes |-> LastIssued(s)]
             trusted == Scopes \ tampered
  <1>0. \A s \in Scopes : LastIssued(s) = LastIn(issued, s) /\ LastIssued(s)' = LastIn(issued', s)
    BY DEF LastIssued, LastIn
  <1>1. Init => Dispenser!Init /\ HasLast
    BY LastOfNone, <1>0 DEF Init, Dispenser!Init, HasLast, NoneOf
  <1>2. KeyInv /\ HasLast /\ ScopeInv' /\ [Next]_vars => [Dispenser!Next]_<<high, trusted>>
    <2> SUFFICES ASSUME KeyInv, HasLast, ScopeInv', [Next]_vars
                 PROVE  Dispenser!Next \/ UNCHANGED <<high, trusted>>
      OBVIOUS
    <2>1. issued \in Seq(BlockType)
      BY TypeParts DEF KeyInv, RestOK
    <2>2. CASE UNCHANGED <<issued, tampered>>
      BY <2>2, <1>0
    <2>3. CASE SetsScopeBack
      <3>1. PICK s \in Scopes : tampered' = tampered \cup {s}
        BY <2>3 DEF SetsScopeBack
      <3>2. trusted' = trusted \ {s}
        BY <3>1
      <3>3. UNCHANGED high
        BY <2>3, <1>0 DEF SetsScopeBack
      <3>4. Dispenser!SetBack(s)
        BY <3>2, <3>3 DEF Dispenser!SetBack
      <3> QED
        BY <3>4 DEF Dispenser!Next
    <2>4. ASSUME NEW b \in BlockType, HandsOut(b) PROVE Dispenser!Next
      <3>1. b.scope \in Scopes
        BY DEF BlockType
      <3>2. \A t \in Scopes \ {b.scope} : high'[t] = high[t]
        <4> SUFFICES ASSUME NEW t \in Scopes, t # b.scope PROVE LastIn(issued', t) = LastIn(issued, t)
          BY <1>0
        <4> QED
          BY <2>1, <2>4, LastKeptOf DEF HandsOut, HasLast
      <3>3. high[b.scope] = LastIn(issued, b.scope) /\ high'[b.scope] = <<b.series, b.to>>
        BY <2>1, <2>4, <3>1, <1>0, LastAdded DEF HandsOut
      <3>4. b.scope \in trusted => Dispenser!Later(high[b.scope], high'[b.scope])
        BY <2>4, <3>1, <3>3, LaterThanLast
      <3>5. UNCHANGED trusted
        BY <2>4 DEF HandsOut
      <3>6. Dispenser!Issue(b.scope)
        BY <3>2, <3>4, <3>5 DEF Dispenser!Issue
      <3> QED
        BY <3>1, <3>6 DEF Dispenser!Next
    <2> QED
      BY <2>2, <2>3, <2>4, StepOfDispenser
  <1>3. IInv => KeyInv /\ ScopeInv
    BY DEF IInv
  <1> QED
    BY <1>1, <1>2, <1>3, InvHolds, HasLastStep, PTL DEF Spec, DispensesNumbers, Dispenser!Spec
-----------------------------------------------------------------------------
(* Scopes without an active row *)

Inserts == {"insert", "shift insert"}

Edits == {"edit", "edit write"}

\* A form shows an active row as active: else saving it would close the row
\* with nobody about to insert the next one.
Forms(s) ==
  \A c \in Callers :
    pc[c] \in Edits /\ cur[c].row.scope = s /\ rows[cur[c].recid].status = Active
      => cur[c].row.status = Active

Replaced(s) == ActiveRows(s) = {} => \E c \in Callers : InsertsFor(c, s)

ConfiguredScopes == {Configured[r].scope : r \in DOMAIN Configured}

ReplacedInv == /\ \A s \in Scopes \ tampered : Forms(s)
               /\ \A s \in ConfiguredScopes \ (tampered \cup abandoned) : Replaced(s)

\* What a step does to the rows of s, to the forms and to the inserters.
NoneRevived(s) ==
  \A r \in DOMAIN rows :
    rows[r].scope = s /\ rows'[r].status = Active => rows[r].status = Active

ActiveKept(s) ==
  \A r \in DOMAIN rows : rows[r].scope = s /\ rows[r].status = Active =>
    r \in DOMAIN rows' /\ rows'[r].scope = s /\ rows'[r].status = Active

FormKept(c) ==
  pc'[c] \in Edits =>
    \/ pc[c] \in Edits /\ cur'[c] = cur[c]
    \/ /\ cur'[c].recid \in DOMAIN rows
       /\ cur'[c].row.scope = rows[cur'[c].recid].scope
       /\ cur'[c].row.status = rows[cur'[c].recid].status

OthersStay(c) == \A d \in Callers \ {c} : pc'[d] = pc[d] /\ cur'[d] = cur[d]

InsertersKept(s) == \A c \in Callers : InsertsFor(c, s) => InsertsFor(c, s)'

LEMMA FormsKept ==
  ASSUME KeyInv, NEW s \in Scopes, Forms(s), NoneRevived(s), \A c \in Callers : FormKept(c)
  PROVE  Forms(s)'
  <1> SUFFICES ASSUME NEW c \in Callers, pc'[c] \in Edits, cur'[c].row.scope = s,
                      rows'[cur'[c].recid].status = Active
               PROVE  cur'[c].row.status = Active
    BY DEF Forms
  <1>1. CASE pc[c] \in Edits /\ cur'[c] = cur[c]
    <2>1. Reading(c)
      BY <1>1 DEF KeyInv, Working, Edits
    <2>2. cur[c].recid \in DOMAIN rows /\ rows[cur[c].recid].scope = s
      BY <1>1, <2>1 DEF Reading, SameKey
    <2> QED
      BY <1>1, <2>2 DEF Forms, NoneRevived
  <1>2. CASE /\ cur'[c].recid \in DOMAIN rows
             /\ cur'[c].row.scope = rows[cur'[c].recid].scope
             /\ cur'[c].row.status = rows[cur'[c].recid].status
    BY <1>2 DEF NoneRevived
  <1> QED
    BY <1>1, <1>2 DEF FormKept

LEMMA ReplacedKept ==
  ASSUME NEW s, Replaced(s), ActiveKept(s), InsertersKept(s)
  PROVE  Replaced(s)'
  <1>1. CASE ActiveRows(s) = {}
    BY <1>1 DEF Replaced, InsertersKept
  <1>2. CASE ActiveRows(s) # {}
    <2>1. PICK r \in DOMAIN rows : rows[r].scope = s /\ rows[r].status = Active
      BY <1>2 DEF ActiveRows
    <2>2. r \in DOMAIN rows' /\ rows'[r].scope = s /\ rows'[r].status = Active
      BY <2>1 DEF ActiveKept
    <2> QED
      BY <2>2 DEF Replaced, ActiveRows
  <1> QED
    BY <1>1, <1>2

\* A caller that was not about to insert moves on, and no status changes.
LEMMA OneMoves ==
  ASSUME KeyInv, NEW c \in Callers, NEW step, pc' = [pc EXCEPT ![c] = step],
         \/ cur' = cur
         \/ \E m : cur' = [cur EXCEPT ![c] = m]
  PROVE  OthersStay(c) /\ pc'[c] = step /\ (cur' = cur => cur'[c] = cur[c])
  <1>1. pc \in [Callers -> Steps] /\ cur \in [Callers -> Memory]
    BY TypeParts DEF KeyInv
  <1> QED
    BY <1>1 DEF OthersStay

LEMMA OneEnds ==
  ASSUME KeyInv, NEW c \in Callers, Ends(c)
  PROVE  OthersStay(c) /\ FormKept(c) /\ pc'[c] = "idle"
  <1>1. OthersStay(c) /\ pc'[c] = "idle"
    BY OneMoves DEF Ends, Goes
  <1> QED
    BY <1>1 DEF FormKept, Edits

LEMMA OthersForms ==
  ASSUME NEW c \in Callers, OthersStay(c), FormKept(c)
  PROVE  \A d \in Callers : FormKept(d)
  BY DEF OthersStay, FormKept

LEMMA OthersInsert ==
  ASSUME NEW c \in Callers, OthersStay(c), NEW s, ~InsertsFor(c, s)
  PROVE  InsertersKept(s)
  BY DEF OthersStay, InsertersKept, InsertsFor

LEMMA TakeKeeps ==
  ASSUME KeyInv, NEW r \in DOMAIN rows, Take(r), NEW s \in Scopes
  PROVE  NoneRevived(s) /\ ActiveKept(s)
  <1> DEFINE new == [rows[r] EXCEPT !.last = @ + AllocationSize]
  <1>1. rows[r] \in Row
    BY RowsTyped
  <1>2. new.scope = rows[r].scope /\ new.status = rows[r].status
    BY <1>1 DEF Row
  <1>3. /\ DOMAIN rows' = DOMAIN rows /\ rows'[r] = new
        /\ \A q \in DOMAIN rows \ {r} : rows'[q] = rows[q]
    BY DEF Take
  <1> HIDE DEF new
  <1> QED
    BY <1>2, <1>3 DEF NoneRevived, ActiveKept

LEMMA UnchangedKeeps ==
  ASSUME UNCHANGED rows, NEW s
  PROVE  NoneRevived(s) /\ ActiveKept(s)
  BY DEF NoneRevived, ActiveKept

\* A closed row is replaced by the one that closed it.
LEMMA CloseReplaced ==
  ASSUME KeyInv, NEW s \in Scopes, NEW c \in Callers, Reading(c), ClosesRow(c),
         pc[c] \notin Inserts
  PROVE  /\ NoneRevived(s) /\ \A d \in Callers : FormKept(d)
         /\ Replaced(s) => Replaced(s)'
  <1> DEFINE r == cur[c].recid
             new == [rows[r] EXCEPT !.status = Closed]
  <1>1. pc \in [Callers -> Steps]
    BY TypeParts DEF KeyInv
  <1>2. r \in DOMAIN rows /\ rows[r].scope = cur[c].row.scope /\ rows[r] \in Row
    BY RowsTyped DEF Reading, SameKey
  <1>3. new.scope = rows[r].scope /\ new.status # Active
    BY <1>2 DEF Row, Closed, Active
  <1>4. /\ DOMAIN rows' = DOMAIN rows /\ rows'[r] = new
        /\ \A q \in DOMAIN rows \ {r} : rows'[q] = rows[q]
    BY <1>2 DEF ClosesRow
  <1>5. OthersStay(c) /\ cur' = cur /\ pc'[c] \in Inserts
    BY <1>1 DEF ClosesRow, OthersStay, Inserts
  <1> HIDE DEF r, new
  <1>6. NoneRevived(s)
    BY <1>3, <1>4 DEF NoneRevived
  <1>7. \A d \in Callers : FormKept(d)
    <2>1. FormKept(c)
      BY <1>5 DEF FormKept, Edits, Inserts
    <2> QED
      BY <1>5, <2>1, OthersForms
  <1>8. ASSUME Replaced(s) PROVE Replaced(s)'
    <2>1. CASE cur[c].row.scope = s
      <3>1. InsertsFor(c, s)'
        BY <1>5, <2>1 DEF InsertsFor, Inserts
      <3> QED
        BY <3>1 DEF Replaced
    <2>2. CASE cur[c].row.scope # s
      <3>1. ActiveKept(s)
        BY <1>2, <1>4, <2>2 DEF ActiveKept
      <3>2. InsertersKept(s)
        BY <1>5, OthersInsert DEF InsertsFor, Inserts
      <3> QED
        BY <1>8, <3>1, <3>2, ReplacedKept
    <2> QED
      BY <2>1, <2>2
  <1> QED
    BY <1>6, <1>7, <1>8

\* The inserted row is the active row of its scope, and a new one unless the
\* scope was set back.
LEMMA InsertReplaces ==
  ASSUME KeyInv, NEW s \in Scopes, NEW c \in Callers, Reading(c), InsertsRow(c),
         pc'[c] \notin Edits
  PROVE  /\ RowsInv(s) => NoneRevived(s)
         /\ \A d \in Callers : FormKept(d)
         /\ Replaced(s) => Replaced(s)'
  <1> DEFINE row == NextSeries(cur[c].row, cur[c].next)
             n == Len(rows) + 1
  <1>1. rows \in Seq(Row) /\ pc \in [Callers -> Steps] /\ RowsOK
    BY TypeParts DEF KeyInv, RowsOK
  <1>2. /\ cur[c].row \in Row /\ cur[c].next \in AccountNumber
        /\ cur[c].next \in Accounts[cur[c].row.scope]
    BY DEF Reading
  <1>3. /\ row \in Row /\ row.scope = cur[c].row.scope /\ row.account = cur[c].next
        /\ row.series = cur[c].row.series + 1 /\ row.status = Active
    BY <1>2, NextSeriesRow
  <1> HIDE DEF row
  <1>4. /\ \A q \in DOMAIN rows : rows[q].series \in Nat /\ rows[q].scope \in Scopes
        /\ cur[c].row.series \in Nat /\ cur[c].row.scope \in Scopes
    BY <1>2, RowsTyped, RowFields
  <1>5. \A q \in Matching(row) : q \in DOMAIN rows /\ rows[q].scope = row.scope
                                /\ rows[q].series = row.series
    <2> SUFFICES ASSUME NEW q \in Matching(row)
                 PROVE  q \in DOMAIN rows /\ rows[q].scope = row.scope /\ rows[q].series = row.series
      OBVIOUS
    <2>1. q \in DOMAIN rows /\ rows[q].account = row.account /\ rows[q].series = row.series
      BY DEF Matching
    <2>2. rows[q].account \in Accounts[rows[q].scope]
      BY <1>1, <2>1 DEF RowsOK
    <2> QED
      BY <1>2, <1>3, <1>4, <2>1, <2>2, AccountOfScope
  <1>6. /\ \A q \in DOMAIN rows : /\ q \in DOMAIN rows'
                                  /\ rows'[q] = rows[q] \/ q \in Matching(row)
        /\ \E q \in DOMAIN rows' : rows'[q] = row
    <2>1. CASE Matching(row) = {}
      <3>1. rows' = Append(rows, row)
        BY <2>1 DEF Upsert, InsertsRow, row
      <3>2. /\ DOMAIN rows' = DOMAIN rows \cup {n}
            /\ rows'[n] = row /\ \A q \in DOMAIN rows : rows'[q] = rows[q]
        BY <1>1, <1>3, <3>1, AppendedRow
      <3> HIDE DEF n
      <3> QED
        BY <3>2
    <2>2. CASE Matching(row) # {}
      <3>1. rows' = [q \in DOMAIN rows |-> IF q \in Matching(row) THEN row ELSE rows[q]]
        BY <2>2 DEF Upsert, InsertsRow, row
      <3> QED
        BY <1>5, <2>2, <3>1
    <2> QED
      BY <2>1, <2>2
  <1>7. OthersStay(c)
    BY <1>1 DEF InsertsRow, OthersStay
  <1>8. \A d \in Callers : FormKept(d)
    <2>1. FormKept(c)
      BY DEF FormKept
    <2> QED
      BY <1>7, <2>1, OthersForms
  <1>9. ASSUME RowsInv(s) PROVE NoneRevived(s)
    <2> SUFFICES ASSUME NEW q \in DOMAIN rows, rows[q].scope = s, rows'[q].status = Active
                 PROVE  rows[q].status = Active
      BY DEF NoneRevived
    <2>1. ASSUME q \in Matching(row) PROVE FALSE
      <3>1. cur[c].row.scope = s /\ rows[q].series = cur[c].row.series + 1
        BY <1>3, <1>5, <2>1
      <3>2. InsertsFor(c, s)
        BY <3>1 DEF InsertsFor, InsertsRow
      <3>3. rows[q].series <= cur[c].row.series
        BY <1>9, <3>2 DEF RowsInv, InsertsWhatItClosed
      <3> QED
        BY <1>4, <3>1, <3>3
    <2> QED
      BY <1>6, <2>1
  <1>10. ASSUME Replaced(s) PROVE Replaced(s)'
    <2>1. CASE cur[c].row.scope = s
      BY <1>3, <1>6, <2>1 DEF Replaced, ActiveRows
    <2>2. CASE cur[c].row.scope # s
      <3>1. ActiveKept(s)
        BY <1>3, <1>5, <1>6, <2>2 DEF ActiveKept
      <3>2. InsertersKept(s)
        BY <1>7, <2>2, OthersInsert DEF InsertsFor
      <3> QED
        BY <1>10, <3>1, <3>2, ReplacedKept
    <2> QED
      BY <2>1, <2>2
  <1> QED
    BY <1>8, <1>9, <1>10

\* A saved form that does not set its scope back closes no active row.
LEMMA EditReplaced ==
  ASSUME KeyInv, KeyInv', NEW s \in Scopes, NEW c \in Callers, Reading(c), EditWrite(c),
         s \notin tampered', Forms(s)
  PROVE  NoneRevived(s) /\ ActiveKept(s)
  <1> DEFINE r == cur[c].recid
             row == cur[c].row
             n == Len(rows) + 1
  <1>1. rows \in Seq(Row)
    BY TypeParts DEF KeyInv, RowsOK
  <1>2. /\ r \in DOMAIN rows /\ row \in Row /\ SameKey(rows[r], row)
    BY DEF Reading
  <1>3. row.scope = s => (row.status = Active <=> rows[r].status = Active)
    <2>1. row.scope = s => ~SetsBack(rows[r], row)
      BY DEF EditWrite
    <2>2. row.scope = s /\ rows[r].status = Active => row.status = Active
      BY DEF Forms, EditWrite, Edits
    <2> QED
      BY <2>1, <2>2 DEF SetsBack
  <1>4. CASE rows[r].status = Deleted
    <2>1. rows' = Append(rows, row)
      BY <1>4 DEF EditWrite
    <2>2. DOMAIN rows' = DOMAIN rows \cup {n} /\ \A q \in DOMAIN rows : rows'[q] = rows[q]
      BY <1>1, <1>2, <2>1, AppendedRow
    <2> HIDE DEF n, row, r
    <2> QED
      BY <2>2 DEF NoneRevived, ActiveKept
  <1>5. CASE rows[r].status # Deleted
    <2>1. /\ DOMAIN rows' = DOMAIN rows /\ rows'[r] = row
          /\ \A q \in DOMAIN rows \ {r} : rows'[q] = rows[q]
      BY <1>2, <1>5 DEF EditWrite
    <2> HIDE DEF row, r
    <2> QED
      BY <1>2, <1>3, <2>1 DEF NoneRevived, ActiveKept, SameKey
  <1> QED
    BY <1>4, <1>5

LEMMA DeleteKeeps ==
  ASSUME KeyInv, NEW s \in Scopes, NEW r \in DOMAIN rows, Delete(r), s \notin tampered'
  PROVE  NoneRevived(s) /\ ActiveKept(s)
  <1> DEFINE new == [rows[r] EXCEPT !.status = Deleted]
  <1>1. /\ DOMAIN rows' = DOMAIN rows /\ rows'[r] = new
        /\ \A q \in DOMAIN rows \ {r} : rows'[q] = rows[q]
    BY DEF Delete
  <1>2. rows[r].scope # s
    BY DEF Delete
  <1> HIDE DEF new
  <1> QED
    BY <1>1, <1>2 DEF NoneRevived, ActiveKept

-----------------------------------------------------------------------------
\* One step, for one scope: its forms and its replacement.
LEMMA StepForScope ==
  ASSUME KeyInv, KeyInv', [Next]_vars, NEW s \in Scopes, s \notin tampered',
         s \notin tampered, RowsInv(s), Forms(s)
  PROVE  /\ Forms(s)'
         /\ Replaced(s) /\ s \notin abandoned' => Replaced(s)'
  <1> USE DEF Goes
  <1>1. ASSUME NoneRevived(s), ActiveKept(s), NEW c \in Callers, OthersStay(c), FormKept(c),
               InsertsFor(c, s) => s \in abandoned'
        PROVE  Forms(s)' /\ (Replaced(s) /\ s \notin abandoned' => Replaced(s)')
    <2>1. Forms(s)'
      BY <1>1, OthersForms, FormsKept
    <2>2. ASSUME Replaced(s), s \notin abandoned' PROVE Replaced(s)'
      <3>1. InsertersKept(s)
        BY <1>1, <2>2, OthersInsert
      <3> QED
        BY <1>1, <2>2, <3>1, ReplacedKept
    <2> QED
      BY <2>1, <2>2
  <1>2. ASSUME NEW c \in Callers, pc[c] \in Working PROVE Reading(c)
    BY <1>2 DEF KeyInv
  <1>3. UNCHANGED rows => NoneRevived(s) /\ ActiveKept(s)
    BY UnchangedKeeps
  <1>4. ASSUME NoneRevived(s), ActiveKept(s), UNCHANGED <<pc, cur>>
        PROVE  Forms(s)' /\ (Replaced(s) => Replaced(s)')
    <2>1. (\A c \in Callers : FormKept(c)) /\ InsertersKept(s)
      BY <1>4 DEF FormKept, InsertersKept, InsertsFor
    <2> QED
      BY <1>4, <2>1, FormsKept, ReplacedKept
  <1>5. ASSUME NEW c \in Callers, NEW t \in Scopes, NextNumberByScope(c, t)
        PROVE  Forms(s)' /\ (Replaced(s) /\ s \notin abandoned' => Replaced(s)')
    <2>1. CASE (\E r \in Top(t) : Take(r)) /\ UNCHANGED <<pc, cur>>
      BY <1>4, <2>1, TakeKeeps DEF Top, ActiveRows
    <2>2. CASE /\ pc' = [pc EXCEPT ![c] = "read"]
               /\ cur' = [cur EXCEPT ![c] = [recid |-> 0, scope |-> t]]
               /\ UNCHANGED table
      <3>0. \E m : cur' = [cur EXCEPT ![c] = m]
        BY <2>2
      <3>1. OthersStay(c) /\ pc'[c] = "read"
        BY <2>2, <3>0, OneMoves
      <3>2. FormKept(c)
        BY <3>1 DEF FormKept, Edits
      <3>3. ~InsertsFor(c, s)
        BY <1>5 DEF NextNumberByScope, Starts, InsertsFor
      <3> QED
        BY <1>1, <1>3, <2>2, <3>1, <3>2, <3>3 DEF table
    <2> QED
      BY <1>5, <2>1, <2>2 DEF NextNumberByScope
  <1>6. ASSUME NEW c \in Callers, ReadCurrent(c)
        PROVE  Forms(s)' /\ (Replaced(s) /\ s \notin abandoned' => Replaced(s)')
    <2>1. ~InsertsFor(c, s) /\ UNCHANGED rows
      BY <1>6 DEF ReadCurrent, InsertsFor, table
    <2>2. OthersStay(c) /\ FormKept(c)
      <3>1. CASE Ends(c)
        BY <3>1, OneEnds
      <3>2. CASE /\ pc' = [pc EXCEPT ![c] = "close"]
                 /\ \E r : cur' = [cur EXCEPT ![c] = Read(r, rows[r].account)]
        <4>1. \E m : cur' = [cur EXCEPT ![c] = m]
          BY <3>2
        <4>2. OthersStay(c) /\ pc'[c] = "close"
          BY <3>2, <4>1, OneMoves
        <4> QED
          BY <4>2 DEF FormKept, Edits
      <3> QED
        BY <1>6, <3>1, <3>2 DEF ReadCurrent
    <2> QED
      BY <1>1, <1>3, <2>1, <2>2
  <1>7. ASSUME NEW c \in Callers, ClosesRow(c), pc[c] \in {"close", "shift"}
        PROVE  Forms(s)' /\ (Replaced(s) /\ s \notin abandoned' => Replaced(s)')
    <2>1. pc[c] \notin Inserts /\ Reading(c)
      BY <1>2, <1>7 DEF Inserts, Working
    <2> QED
      BY <1>7, <2>1, CloseReplaced, FormsKept
  <1>8. ASSUME NEW c \in Callers, UNCHANGED rows, pc[c] \notin Inserts,
               \/ Ends(c)
               \/ /\ cur' = cur
                  /\ \E step : /\ pc' = [pc EXCEPT ![c] = step]
                               /\ step \in Edits => pc[c] \in Edits
        PROVE  Forms(s)' /\ (Replaced(s) /\ s \notin abandoned' => Replaced(s)')
    <2>1. OthersStay(c) /\ FormKept(c)
      <3>1. CASE Ends(c)
        BY <3>1, OneEnds
      <3>2. ASSUME NEW step, pc' = [pc EXCEPT ![c] = step], step \in Edits => pc[c] \in Edits,
                   cur' = cur
            PROVE  OthersStay(c) /\ FormKept(c)
        BY <3>2, OneMoves DEF FormKept
      <3> QED
        BY <1>8, <3>1, <3>2
    <2>2. ~InsertsFor(c, s)
      BY <1>8 DEF Inserts, InsertsFor
    <2> QED
      BY <1>1, <1>3, <1>8, <2>1, <2>2
  <1>9. ASSUME NEW c \in Callers, Close(c)
        PROVE  Forms(s)' /\ (Replaced(s) /\ s \notin abandoned' => Replaced(s)')
    <2>1. CASE rows[cur[c].recid].status = Active
      BY <1>7, <1>9, <2>1 DEF Close, ClosesRow
    <2>2. CASE rows[cur[c].recid].status # Active
      BY <1>8, <1>9, <2>2 DEF Close, Inserts, Edits
    <2> QED
      BY <2>1, <2>2
  <1>10. ASSUME NEW c \in Callers, ReadReplacement(c) \/ ReadBack(c) \/ EditCheck(c)
         PROVE  Forms(s)' /\ (Replaced(s) /\ s \notin abandoned' => Replaced(s)')
    BY <1>8, <1>10 DEF ReadReplacement, ReadBack, EditCheck, Inserts, Edits, table
  <1>11. ASSUME NEW c \in Callers, Insert(c) \/ ShiftInsert(c)
         PROVE  Forms(s)' /\ (Replaced(s) /\ s \notin abandoned' => Replaced(s)')
    <2>1. Reading(c)
      BY <1>2, <1>11 DEF Working, Insert, ShiftInsert
    <2>2. OthersStay(c) /\ pc'[c] \in {"inserted", "idle"}
      BY <1>11, OneMoves, OneEnds DEF Insert, ShiftInsert
    <2>3. InsertsRow(c)
      BY <1>11, <2>2 DEF Insert, ShiftInsert, InsertsRow, Steps, Ends, OthersStay
    <2>4. pc'[c] \notin Edits
      BY <2>2 DEF Edits
    <2> QED
      BY <2>1, <2>3, <2>4, InsertReplaces, FormsKept
  <1>12. ASSUME NEW c \in Callers, Retry(c)
         PROVE  Forms(s)' /\ (Replaced(s) /\ s \notin abandoned' => Replaced(s)')
    <2>1. ~InsertsFor(c, s) /\ OthersStay(c) /\ FormKept(c)
      BY <1>12, OneEnds DEF Retry, InsertsFor
    <2>2. NoneRevived(s) /\ ActiveKept(s)
      BY <1>3, <1>12, TakeKeeps DEF Retry, Top, ActiveRows, table
    <2> QED
      BY <1>1, <2>1, <2>2
  <1>13. ASSUME NEW c \in Callers, NEW r \in DOMAIN rows, NextNumber(c, r)
         PROVE  Forms(s)' /\ (Replaced(s) /\ s \notin abandoned' => Replaced(s)')
    BY <1>4, <1>13, TakeKeeps DEF NextNumber
  <1>14. ASSUME NEW c \in Callers, NEW r \in DOMAIN rows, NEW a, ShiftRead(c, r, a)
         PROVE  Forms(s)' /\ (Replaced(s) /\ s \notin abandoned' => Replaced(s)')
    <2>1. OthersStay(c) /\ pc'[c] = "shift"
      BY <1>14, OneMoves DEF ShiftRead
    <2>2. FormKept(c) /\ ~InsertsFor(c, s) /\ UNCHANGED rows
      BY <1>14, <2>1 DEF ShiftRead, Starts, FormKept, Edits, InsertsFor, table
    <2> QED
      BY <1>1, <1>3, <2>1, <2>2
  <1>15. ASSUME NEW c \in Callers, ShiftClose(c)
         PROVE  Forms(s)' /\ (Replaced(s) /\ s \notin abandoned' => Replaced(s)')
    <2>1. CASE rows[cur[c].recid].status = Active
      BY <1>7, <1>15, <2>1 DEF ShiftClose, ClosesRow
    <2>2. CASE rows[cur[c].recid].status # Active
      BY <1>8, <1>15, <2>2 DEF ShiftClose, Inserts
    <2> QED
      BY <2>1, <2>2
  <1>16. ASSUME NEW c \in Callers, NEW r \in DOMAIN rows, NEW l, NEW m, EditRead(c, r, l, m)
         PROVE  Forms(s)' /\ (Replaced(s) /\ s \notin abandoned' => Replaced(s)')
    <2> DEFINE form == [recid |-> r, next |-> rows[r].account,
                        row |-> [rows[r] EXCEPT !.last = l, !.max = m]]
    <2>1. cur \in [Callers -> Memory] /\ rows[r] \in Row
      BY TypeParts, RowsTyped DEF KeyInv
    <2>2. form.recid = r /\ form.row.scope = rows[r].scope /\ form.row.status = rows[r].status
      BY <2>1 DEF Row
    <2>3. cur' = [cur EXCEPT ![c] = form] /\ cur'[c] = form
      BY <1>16, <2>1 DEF EditRead
    <2> HIDE DEF form
    <2>4. OthersStay(c) /\ ~InsertsFor(c, s) /\ UNCHANGED rows
      BY <1>16, <2>3, OneMoves DEF EditRead, InsertsFor, table
    <2>5. FormKept(c)
      BY <2>2, <2>3 DEF FormKept
    <2> QED
      BY <1>1, <1>3, <2>4, <2>5
  <1>17. ASSUME NEW c \in Callers, EditWrite(c)
         PROVE  Forms(s)' /\ (Replaced(s) /\ s \notin abandoned' => Replaced(s)')
    <2>1. Reading(c)
      BY <1>2, <1>17 DEF Working, EditWrite
    <2>2. OthersStay(c) /\ FormKept(c) /\ ~InsertsFor(c, s)
      BY <1>17, OneEnds DEF EditWrite, InsertsFor
    <2> QED
      BY <1>1, <1>17, <2>1, <2>2, EditReplaced
  <1>18. ASSUME NEW c \in Callers, Fail(c)
         PROVE  Forms(s)' /\ (Replaced(s) /\ s \notin abandoned' => Replaced(s)')
    <2>1. OthersStay(c) /\ FormKept(c) /\ UNCHANGED rows
      BY <1>18, OneEnds DEF Fail, table
    <2>2. InsertsFor(c, s) => s \in abandoned'
      BY <1>18 DEF Fail, InsertsFor
    <2> QED
      BY <1>1, <1>3, <2>1, <2>2
  <1>19. ASSUME NEW r \in DOMAIN rows, Delete(r)
         PROVE  Forms(s)' /\ (Replaced(s) => Replaced(s)')
    BY <1>4, <1>19, DeleteKeeps DEF Delete
  <1>20. CASE UNCHANGED vars
    BY <1>3, <1>4, <1>20 DEF vars
  <1> QED
    BY <1>5, <1>6, <1>9, <1>10, <1>11, <1>12, <1>13, <1>14, <1>15, <1>16, <1>17, <1>18,
       <1>19, <1>20 DEF Next

\* No history forgets a scope.
LEMMA HistoryGrows ==
  ASSUME [Next]_vars
  PROVE  tampered \subseteq tampered' /\ abandoned \subseteq abandoned'
  BY DEF Next, NextNumberByScope, ReadCurrent, Close, ReadReplacement, Insert, ReadBack, Retry,
         NextNumber, ShiftRead, ShiftClose, ShiftInsert, EditRead, EditCheck, EditWrite, Fail,
         Delete, history, vars

LEMMA ReplacedInit == Init => ReplacedInv
  <1> SUFFICES ASSUME Init PROVE ReplacedInv
    OBVIOUS
  <1>1. \A s \in Scopes : Forms(s)
    BY DEF Init, Forms, Edits
  <1>2. \A s \in ConfiguredScopes : Replaced(s)
    BY ConfiguredAssumption DEF Init, ConfiguredScopes, Replaced, ActiveRows
  <1> QED
    BY <1>1, <1>2 DEF ReplacedInv

LEMMA ReplacedStep ==
  KeyInv /\ KeyInv' /\ ScopeInv /\ ReplacedInv /\ [Next]_vars => ReplacedInv'
  <1> SUFFICES ASSUME KeyInv, KeyInv', ScopeInv, ReplacedInv, [Next]_vars PROVE ReplacedInv'
    OBVIOUS
  <1>1. ConfiguredScopes \subseteq Scopes
    BY ConfiguredAssumption, RowFields DEF ConfiguredScopes
  <1>2. tampered \subseteq tampered' /\ abandoned \subseteq abandoned'
    BY HistoryGrows
  <1>3. ASSUME NEW s \in Scopes, s \notin tampered'
        PROVE  Forms(s)' /\ (Replaced(s) /\ s \notin abandoned' => Replaced(s)')
    <2>1. s \notin tampered /\ RowsInv(s) /\ Forms(s)
      BY <1>2, <1>3 DEF ScopeInv, ReplacedInv
    <2> QED
      BY <1>3, <2>1, StepForScope
  <1>4. ASSUME NEW s \in Scopes \ tampered' PROVE Forms(s)'
    BY <1>3
  <1>5. ASSUME NEW s \in ConfiguredScopes \ (tampered' \cup abandoned') PROVE Replaced(s)'
    BY <1>1, <1>2, <1>3 DEF ReplacedInv
  <1> QED
    BY <1>4, <1>5 DEF ReplacedInv, ConfiguredScopes

\* A scope is without an active sequence only while the caller that closed it
\* is about to insert the next one: however calls, shifts and edits interleave,
\* numbering comes back unless that caller was cut short or the scope set back.
THEOREM AlwaysReplaced == Spec => []InactiveOnlyWhileReplaced
  <1>1. ReplacedInv => InactiveOnlyWhileReplaced
    BY DEF ReplacedInv, Replaced, ConfiguredScopes, InsertsFor, InactiveOnlyWhileReplaced
  <1>2. KeyInv /\ ScopeInv /\ ReplacedInv /\ [Next]_vars => (KeyInv /\ ScopeInv /\ ReplacedInv)'
    BY KeyStep, ScopeStep, ReplacedStep
  <1>3. Init => KeyInv /\ ScopeInv /\ ReplacedInv
    BY KeyInit, ScopeInit, ReplacedInit
  <1> QED
    BY <1>1, <1>2, <1>3, PTL DEF Spec
===============================================================================
