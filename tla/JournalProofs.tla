------------------------------ MODULE JournalProofs ------------------------------
(***************************************************************************)
(* Proofs about Journal, for every set of callers, events and periods and    *)
(* every bound: whatever is in the books balanced and, where its lines tell, *)
(* has all the lines of its event, a reversed journal is cancelled by the    *)
(* one it names, and the lines written and those yet to be written balance.  *)
(***************************************************************************)
EXTENDS Journal, Sums

-----------------------------------------------------------------------------
(* The inductive invariant *)

Operating == {"none", "create", "system", "submit", "approve", "reject", "reverse", "append", "close"}
Posting == {"post", "post_period", "post_lines", "post_write"}
Marking == {"mark_original", "mark_reversal"}
Writing == {"submit_lines", "submit_write", "reject_write"}
Reversing == {"reverse_period", "reverse_lines"}
Steps == {"idle", "lookup", "insert", "line", "close"} \cup Posting \cup Marking \cup Writing \cup Reversing

IsMemory(m) ==
  /\ m = [op |-> m.op, recid |-> m.recid, original |-> m.original, key |-> m.key, lines |-> m.lines]
  /\ m.op \in Operating
  /\ m.recid \in 0 .. Len(journals) /\ m.original \in Nat
  /\ m.lines \in Seq(Int)

Shapes ==
  /\ journals \in Seq(JournalRow)
  /\ period \in [Periods -> {Open, PeriodClosed, Locked}]
  /\ pc \in [Callers -> Steps]
  /\ cur = [c \in Callers |-> cur[c]] /\ \A c \in Callers : IsMemory(cur[c])
  /\ calls \in 0 .. MaxCalls /\ failures \in 0 .. MaxFailures

Collects(j) == journals[j].key[1] \in Collecting

\* Journal j could be posted when it had its first lines.
Whole(j) == BalancedOnce(journals[j].lines)

\* Lines with more lines behind them are those of the event.
Part(lines, key) == \E rest \in Seq(Int) : lines \o rest = LinesWith(key)

RowHolds(j) ==
  /\ Collects(j) \/ Part(journals[j].lines, journals[j].key)
  /\ InBooks(j) => Whole(j)
  /\ journals[j].status = Reversed =>
       /\ journals[j].reversed_by \in DOMAIN journals
       /\ journals[journals[j].reversed_by].key = ReversalKey(journals[j].key)
       /\ Whole(journals[j].reversed_by)

\* o is the posted journal that the one with this key is to cancel.
Reverses(o, key) == o \in DOMAIN journals /\ key = ReversalKey(journals[o].key) /\ Whole(o)

\* What the caller knows where it is.
MemoryHolds(step, m) ==
  /\ step \in {"lookup", "insert"} =>
       /\ m.op \in {"create", "system", "reverse"}
       /\ m.key \in PostingKey
       /\ m.key[1] \in Collecting \/ Part(m.lines, m.key)
       /\ (m.op = "reverse" => Reverses(m.original, m.key))
  /\ step \in {"line"} \cup Posting \cup Marking \cup Writing \cup Reversing => m.recid \in DOMAIN journals
  /\ step \in {"line"} \cup Posting \cup Marking =>
       (m.op = "reverse" => Reverses(m.original, journals[m.recid].key))
  /\ step = "line" => /\ m.lines # <<>>
                      /\ Collects(m.recid) \/ Part(journals[m.recid].lines \o m.lines, journals[m.recid].key)
  /\ step \in {"post_write"} \cup Marking \cup Reversing => Whole(m.recid)
  /\ step \in Marking \cup Reversing => m.op = "reverse"
  /\ step \in Reversing => journals[m.recid].key[2] < MaxReversals

\* c is writing lines to a journal no other caller writes lines to.
Writes(c, j) == pc[c] = "line" /\ cur[c].recid = j /\ ~Collects(j)

JournalInv ==
  /\ Shapes
  /\ \A j \in DOMAIN journals : RowHolds(j)
  /\ \A c \in Callers : MemoryHolds(pc[c], cur[c])
  /\ \A c, d \in Callers : \A j \in DOMAIN journals : Writes(c, j) /\ Writes(d, j) => c = d

-----------------------------------------------------------------------------
(* Lines *)

LEMMA EventLines ==
  ASSUME NEW key \in PostingKey
  PROVE  LinesWith(key) \in Seq(Int) /\ LinesWith(key) \in {LinesOf[key[1]], Negated(LinesOf[key[1]])}
<1>1. LinesOf[key[1]] \in Seq(Int)
  BY JournalAssumption DEF PostingKey
<1>2. Negated(LinesOf[key[1]]) \in Seq(Int)
  <2> DEFINE s == LinesOf[key[1]]
  <2>1. s \in Seq(Int) /\ Len(s) \in Nat /\ DOMAIN s = 1 .. Len(s) /\ s \in [1 .. Len(s) -> Int]
    BY <1>1, LenProperties
  <2>2. Negated(s) \in [1 .. Len(s) -> Int]
    BY <2>1 DEF Negated
  <2> QED BY <2>1, <2>2, SeqDef
<1> QED BY <1>1, <1>2 DEF LinesWith

LEMMA ReversalLines ==
  ASSUME NEW key \in PostingKey
  PROVE  LinesWith(ReversalKey(key)) = Negated(LinesWith(key))
<1>1. key[1] \in Keys /\ key[2] \in Nat /\ ReversalKey(key)[1] = key[1] /\ ReversalKey(key)[2] = key[2] + 1
  BY JournalAssumption DEF PostingKey, ReversalKey
<1>2. CASE key[2] % 2 = 0
  <2>1. (key[2] + 1) % 2 = 1
    BY <1>1, <1>2
  <2> QED BY <1>1, <1>2, <2>1 DEF LinesWith
<1>3. CASE key[2] % 2 = 1
  <2>1. (key[2] + 1) % 2 = 0
    BY <1>1, <1>3
  <2>2. Negated(Negated(LinesOf[key[1]])) = LinesOf[key[1]]
    <3> DEFINE s == LinesOf[key[1]]
    <3>1. s \in Seq(Int)
      BY <1>1, JournalAssumption
    <3>2. DOMAIN s = 1 .. Len(s) /\ s \in [1 .. Len(s) -> Int]
      BY <3>1, LenProperties
    <3> HIDE DEF s
    <3> DEFINE n == Negated(s)
    <3>3. DOMAIN n = 1 .. Len(s) /\ \A i \in 1 .. Len(s) : n[i] = -s[i]
      BY <3>2 DEF Negated
    <3> HIDE DEF n
    <3>4. DOMAIN Negated(n) = 1 .. Len(s) /\ \A i \in 1 .. Len(s) : Negated(n)[i] = -n[i]
      BY <3>3 DEF Negated
    <3>5. \A i \in 1 .. Len(s) : Negated(n)[i] = s[i]
      BY <3>2, <3>3, <3>4
    <3>6. Negated(n) = [i \in 1 .. Len(s) |-> Negated(n)[i]]
      BY <3>4 DEF Negated
    <3>7. Negated(n) = s
      BY <3>2, <3>5, <3>6
    <3> QED BY <3>7 DEF n, s
  <2> QED BY <1>1, <1>3, <2>1, <2>2 DEF LinesWith
<1> QED BY <1>1, <1>2, <1>3

\* The opposites of a part of the lines are a part of the lines of the reversal.
LEMMA PartNegated ==
  ASSUME NEW key \in PostingKey, NEW lines \in Seq(Int), Part(lines, key)
  PROVE  Negated(lines) \in Seq(Int) /\ Part(Negated(lines), ReversalKey(key))
<1>1. PICK rest \in Seq(Int) : lines \o rest = LinesWith(key)
  BY DEF Part
<1>2. PICK both : both = lines \o rest
  OBVIOUS
<1>3. /\ both \in Seq(Int) /\ Len(both) = Len(lines) + Len(rest)
      /\ \A i \in 1 .. Len(lines) + Len(rest) :
           both[i] = IF i <= Len(lines) THEN lines[i] ELSE rest[i - Len(lines)]
  BY <1>2, ConcatProperties
<1>4. ASSUME NEW s \in Seq(Int)
      PROVE  /\ Negated(s) \in Seq(Int) /\ Len(Negated(s)) = Len(s)
             /\ \A i \in 1 .. Len(s) : Negated(s)[i] = -s[i]
  <2>1. Len(s) \in Nat /\ DOMAIN s = 1 .. Len(s) /\ s \in [1 .. Len(s) -> Int]
    BY LenProperties
  <2>2. Negated(s) \in [1 .. Len(s) -> Int] /\ \A i \in 1 .. Len(s) : Negated(s)[i] = -s[i]
    BY <2>1 DEF Negated
  <2>3. Negated(s) \in Seq(Int)
    BY <2>1, <2>2, SeqDef
  <2> QED BY <2>1, <2>2, <2>3, LenProperties
<1>5. PICK first, last, all : first = Negated(lines) /\ last = Negated(rest) /\ all = Negated(both)
  OBVIOUS
<1>6. /\ first \in Seq(Int) /\ Len(first) = Len(lines) /\ \A i \in 1 .. Len(lines) : first[i] = -lines[i]
      /\ last \in Seq(Int) /\ Len(last) = Len(rest) /\ \A i \in 1 .. Len(rest) : last[i] = -rest[i]
      /\ all \in Seq(Int) /\ Len(all) = Len(both) /\ \A i \in 1 .. Len(both) : all[i] = -both[i]
      /\ Len(lines) \in Nat /\ Len(rest) \in Nat
  BY <1>3, <1>4, <1>5, LenProperties
<1>7. PICK joined : joined = first \o last
  OBVIOUS
<1>8. /\ joined \in Seq(Int) /\ Len(joined) = Len(lines) + Len(rest)
      /\ \A i \in 1 .. Len(lines) + Len(rest) :
           joined[i] = IF i <= Len(lines) THEN first[i] ELSE last[i - Len(lines)]
  <2>1. first \in Seq(Int) /\ last \in Seq(Int)
    BY <1>6
  <2>2. /\ joined \in Seq(Int) /\ Len(joined) = Len(first) + Len(last)
        /\ \A i \in 1 .. Len(first) + Len(last) :
             joined[i] = IF i <= Len(first) THEN first[i] ELSE last[i - Len(first)]
    BY <1>7, <2>1, ConcatProperties, Zenon
  <2> QED BY <1>6, <2>2
<1>9. ASSUME NEW i \in 1 .. Len(lines) + Len(rest) PROVE joined[i] = all[i]
  <2>1. CASE i <= Len(lines)
    <3>1. joined[i] = first[i] /\ both[i] = lines[i] /\ all[i] = -both[i] /\ i \in 1 .. Len(lines)
      BY <1>3, <1>6, <1>8, <2>1
    <3> QED BY <1>6, <3>1
  <2>2. CASE i > Len(lines)
    <3>1. i - Len(lines) \in 1 .. Len(rest)
      BY <1>6, <2>2
    <3>2. joined[i] = last[i - Len(lines)] /\ both[i] = rest[i - Len(lines)] /\ all[i] = -both[i]
      BY <1>3, <1>6, <1>8, <2>2
    <3> QED BY <1>6, <3>1, <3>2
  <2> QED BY <1>6, <2>1, <2>2
<1>10. joined = all
  BY <1>3, <1>6, <1>8, <1>9, SeqEqual
<1>11. all = LinesWith(ReversalKey(key))
  BY <1>1, <1>2, <1>5, ReversalLines
<1> QED BY <1>5, <1>6, <1>7, <1>10, <1>11 DEF Part

\* A part that goes on leaves the parts before it parts.
LEMMA PartBefore ==
  ASSUME NEW key, NEW lines \in Seq(Int), NEW more \in Seq(Int), Part(lines \o more, key)
  PROVE  Part(lines, key)
<1>1. PICK rest \in Seq(Int) : (lines \o more) \o rest = LinesWith(key)
  BY DEF Part
<1>2. (lines \o more) \o rest = lines \o (more \o rest)
  BY ConcatAssociative
<1>3. more \o rest \in Seq(Int)
  BY ConcatProperties, Zenon
<1> QED BY <1>1, <1>2, <1>3 DEF Part

\* The first lines of lines with others behind them.
LEMMA FirstLines ==
  ASSUME NEW lines \in Seq(Int), NEW rest \in Seq(Int), NEW n \in 1 .. Len(lines)
  PROVE  SubSeq(lines \o rest, 1, n) = SubSeq(lines, 1, n)
<1>1. PICK both : both = lines \o rest
  OBVIOUS
<1>2. Len(lines) \in Nat /\ Len(rest) \in Nat /\ n \in Nat /\ n <= Len(lines)
  BY LenProperties
<1>3. /\ both \in Seq(Int) /\ Len(both) = Len(lines) + Len(rest)
      /\ \A i \in 1 .. Len(lines) : both[i] = lines[i]
  BY <1>1, <1>2, ConcatProperties
<1>4. \A i \in 1 .. n : both[i] \in Int /\ lines[i] \in Int /\ both[i] = lines[i]
  BY <1>2, <1>3, ElementOfSeq
<1>5. PICK a, b : a = SubSeq(both, 1, n) /\ b = SubSeq(lines, 1, n)
  OBVIOUS
<1>6. a \in Seq(Int) /\ Len(a) = n /\ \A i \in 1 .. n : a[i] = both[i]
  BY <1>2, <1>4, <1>5, SubSeqProperties
<1>7. b \in Seq(Int) /\ Len(b) = n /\ \A i \in 1 .. n : b[i] = lines[i]
  BY <1>2, <1>4, <1>5, SubSeqProperties
<1> QED BY <1>1, <1>4, <1>5, <1>6, <1>7, SeqEqual

\* Lines that balance and are some balance once, also with others behind them.
LEMMA BalancedOnceKept ==
  ASSUME NEW lines \in Seq(Int)
  PROVE  /\ lines # <<>> /\ Balanced(lines) => BalancedOnce(lines)
         /\ \A rest \in Seq(Int) : BalancedOnce(lines) => BalancedOnce(lines \o rest)
<1>1. ASSUME lines # <<>>, Balanced(lines) PROVE BalancedOnce(lines)
  <2>1. Len(lines) \in 1 .. Len(lines)
    BY <1>1, EmptySeq, LenProperties
  <2>2. SubSeq(lines, 1, Len(lines)) = lines
    <3>1. PICK b : b = SubSeq(lines, 1, Len(lines))
      OBVIOUS
    <3>2. Len(lines) \in Nat /\ \A i \in 1 .. Len(lines) : lines[i] \in Int
      BY LenProperties, ElementOfSeq
    <3>3. b \in Seq(Int) /\ Len(b) = Len(lines) /\ \A i \in 1 .. Len(lines) : b[i] = lines[i]
      BY <3>1, <3>2, SubSeqProperties
    <3> QED BY <3>1, <3>3, SeqEqual
  <2> QED BY <1>1, <2>1, <2>2 DEF BalancedOnce
<1>2. ASSUME NEW rest \in Seq(Int), BalancedOnce(lines) PROVE BalancedOnce(lines \o rest)
  <2>1. PICK n \in 1 .. Len(lines) : Balanced(SubSeq(lines, 1, n))
    BY <1>2 DEF BalancedOnce
  <2>2. n \in 1 .. Len(lines \o rest)
    <3>1. Len(lines \o rest) = Len(lines) + Len(rest) /\ Len(lines) \in Nat /\ Len(rest) \in Nat
      BY ConcatProperties, LenProperties
    <3> QED BY <3>1
  <2> QED BY <2>1, <2>2, FirstLines DEF BalancedOnce
<1> QED BY <1>1, <1>2

\* Where the lines tell, a part of them that balanced once is all of them.
LEMMA BalancedIsWhole ==
  ASSUME NEW key \in PostingKey, key[1] \in Telling,
         NEW lines \in Seq(Int), Part(lines, key), BalancedOnce(lines)
  PROVE  lines = LinesWith(key)
<1>1. PICK rest \in Seq(Int) : lines \o rest = LinesWith(key)
  BY DEF Part
<1>2. PICK n \in 1 .. Len(lines) : Balanced(SubSeq(lines, 1, n))
  BY DEF BalancedOnce
<1>3. PICK full : full = lines \o rest
  OBVIOUS
<1>4. Len(full) = Len(lines) + Len(rest) /\ Len(lines) \in Nat /\ Len(rest) \in Nat
  BY <1>3, ConcatProperties, LenProperties
<1>5. Balanced(SubSeq(full, 1, n))
  BY <1>2, <1>3, FirstLines
<1>6. full \in {LinesOf[key[1]], Negated(LinesOf[key[1]])}
  BY <1>1, <1>3, EventLines
<1>7. n \notin 1 .. Len(full) - 1
  BY <1>5, <1>6 DEF Telling
<1>8. Len(rest) = 0
  BY <1>2, <1>4, <1>7
<1>9. rest = <<>>
  BY <1>8, EmptySeq
<1> QED BY <1>1, <1>9, ConcatEmptySeq

LEMMA AppendedLines ==
  ASSUME NEW lines \in Seq(Int), NEW rest \in Seq(Int), rest # <<>>
  PROVE  /\ Append(lines, Head(rest)) \in Seq(Int) /\ Tail(rest) \in Seq(Int)
         /\ Append(lines, Head(rest)) \o Tail(rest) = lines \o rest
         /\ \E first \in Seq(Int) : Append(lines, Head(rest)) = lines \o first
<1>1. /\ Head(rest) \in Int /\ Tail(rest) \in Seq(Int) /\ Len(Tail(rest)) = Len(rest) - 1
      /\ \A i \in 1 .. Len(Tail(rest)) : Tail(rest)[i] = rest[i + 1]
  BY HeadTailProperties
<1>2. Len(rest) \in Nat \ {0} /\ Head(rest) = rest[1]
  BY EmptySeq, LenProperties
<1>3. PICK h \in Int, t \in Seq(Int) : h = Head(rest) /\ t = Tail(rest)
  BY <1>1
<1>4. /\ <<h>> \in Seq(Int) /\ Len(<<h>>) = 1 /\ <<h>>[1] = h
  OBVIOUS
<1>5. PICK first \in Seq(Int) : first = <<h>>
  BY <1>4
<1>6. first \o t = rest
  <2>1. /\ first \o t \in Seq(Int) /\ Len(first \o t) = Len(first) + Len(t)
        /\ \A i \in 1 .. Len(first) + Len(t) :
             (first \o t)[i] = IF i <= Len(first) THEN first[i] ELSE t[i - Len(first)]
    BY ConcatProperties, Zenon
  <2>2. PICK both : both = first \o t
    OBVIOUS
  <2>3. Len(first) = 1 /\ Len(first) + Len(t) = Len(rest)
    BY <1>1, <1>2, <1>3, <1>4, <1>5
  <2>4. /\ both \in Seq(Int) /\ Len(both) = Len(rest)
        /\ \A i \in 1 .. Len(rest) : both[i] = IF i <= 1 THEN first[i] ELSE t[i - 1]
    BY <2>1, <2>2, <2>3
  <2>5. \A i \in 1 .. Len(rest) : both[i] = rest[i]
    <3> SUFFICES ASSUME NEW i \in 1 .. Len(rest) PROVE both[i] = rest[i]
      OBVIOUS
    <3>1. CASE i = 1
      BY <1>2, <1>3, <1>4, <1>5, <2>4, <3>1
    <3>2. CASE i > 1
      <4>1. i - 1 \in 1 .. Len(t) /\ (i - 1) + 1 = i
        BY <1>1, <1>2, <1>3, <3>2
      <4>2. t[i - 1] = rest[i]
        BY <1>1, <1>3, <4>1
      <4> QED BY <1>2, <2>4, <3>2, <4>2
    <3> QED BY <1>2, <3>1, <3>2
  <2> QED BY <2>2, <2>4, <2>5, SeqEqual
<1>7. Append(lines, h) = lines \o first
  BY <1>3, <1>5, AppendIsConcat
<1>8. (lines \o first) \o t = lines \o (first \o t)
  BY <1>3, <1>5, ConcatAssociative
<1>9. Append(lines, h) \in Seq(Int)
  BY <1>3, AppendProperties
<1> QED BY <1>1, <1>3, <1>5, <1>6, <1>7, <1>8, <1>9

-----------------------------------------------------------------------------
(* What a step of one caller leaves the others *)

\* Journals stay, with their keys, and what is whole stays whole.
Keeps ==
  /\ journals' \in Seq(JournalRow)
  /\ Len(journals) <= Len(journals')
  /\ \A j \in DOMAIN journals : journals'[j].key = journals[j].key /\ (Whole(j) => Whole(j)')

LEMMA Lengths ==
  ASSUME Shapes
  PROVE  /\ Len(journals) \in Nat /\ DOMAIN journals = 1 .. Len(journals)
         /\ \A j \in DOMAIN journals :
              /\ journals[j] \in JournalRow
              /\ journals[j].key \in PostingKey /\ journals[j].lines \in Seq(Int)
<1>1. Len(journals) \in Nat /\ DOMAIN journals = 1 .. Len(journals)
      /\ journals \in [1 .. Len(journals) -> JournalRow]
  BY LenProperties DEF Shapes
<1> QED BY <1>1 DEF JournalRow

LEMMA MemoryKept ==
  ASSUME NEW step, NEW m, MemoryHolds(step, m), Shapes, Keeps,
         step = "line" => Collects(m.recid) \/ journals'[m.recid].lines = journals[m.recid].lines
  PROVE  MemoryHolds(step, m)'
<1>1. DOMAIN journals \subseteq DOMAIN journals'
  <2>1. /\ Len(journals) \in Nat /\ DOMAIN journals = 1 .. Len(journals)
        /\ Len(journals') \in Nat /\ DOMAIN journals' = 1 .. Len(journals')
    BY Lengths, LenProperties DEF Keeps
  <2> QED BY <2>1 DEF Keeps
<1>2. \A o \in DOMAIN journals : \A key : Reverses(o, key) => Reverses(o, key)'
  BY <1>1 DEF Keeps, Reverses
<1>3. \A o : \A key : Reverses(o, key) => Reverses(o, key)'
  BY <1>2 DEF Reverses
<1>4. /\ step \in {"lookup", "insert"} =>
           /\ m.op \in {"create", "system", "reverse"}
           /\ m.key \in PostingKey
           /\ m.key[1] \in Collecting \/ Part(m.lines, m.key)
           /\ (m.op = "reverse" => Reverses(m.original, m.key)')
  BY <1>3 DEF MemoryHolds
<1>5. step \in {"line"} \cup Posting \cup Marking \cup Writing \cup Reversing =>
         /\ m.recid \in DOMAIN journals /\ m.recid \in DOMAIN journals'
         /\ journals'[m.recid].key = journals[m.recid].key
         /\ (Collects(m.recid)' <=> Collects(m.recid))
         /\ (Whole(m.recid) => Whole(m.recid)')
  BY <1>1 DEF MemoryHolds, Keeps, Collects
<1>6. step \in {"line"} \cup Posting \cup Marking =>
         (m.op = "reverse" => Reverses(m.original, journals[m.recid].key)')
  <2> SUFFICES ASSUME step \in {"line"} \cup Posting \cup Marking, m.op = "reverse"
               PROVE  Reverses(m.original, journals[m.recid].key)'
    OBVIOUS
  <2>1. journals'[m.recid].key = journals[m.recid].key
    BY <1>5
  <2>2. Reverses(m.original, journals[m.recid].key)
    BY DEF MemoryHolds
  <2>3. PICK key : key = journals[m.recid].key
    OBVIOUS
  <2>4. Reverses(m.original, key)'
    BY <1>3, <2>2, <2>3
  <2> QED BY <2>1, <2>3, <2>4
<1>7. step = "line" =>
         /\ m.lines # <<>>
         /\ Collects(m.recid)' \/ Part(journals'[m.recid].lines \o m.lines, journals'[m.recid].key)
  BY <1>5 DEF MemoryHolds
<1>8. step \in {"post_write"} \cup Marking \cup Reversing => Whole(m.recid)'
  BY <1>5 DEF MemoryHolds, Posting
<1>9. step \in Marking \cup Reversing => m.op = "reverse"
  BY DEF MemoryHolds
<1>10. step \in Reversing => journals'[m.recid].key[2] < MaxReversals
  BY <1>5 DEF MemoryHolds
<1> QED BY <1>4, <1>5, <1>6, <1>7, <1>8, <1>9, <1>10 DEF MemoryHolds

LEMMA OneCallerSteps ==
  ASSUME JournalInv, NEW c \in Callers, NEW step \in Steps, NEW m,
         pc' = [pc EXCEPT ![c] = step], cur' = [cur EXCEPT ![c] = m],
         IsMemory(m)', MemoryHolds(step, m)', Keeps,
         period' \in [Periods -> {Open, PeriodClosed, Locked}],
         calls' \in 0 .. MaxCalls, failures' \in 0 .. MaxFailures,
         \A j \in DOMAIN journals' : RowHolds(j)',
         \A j \in DOMAIN journals :
           journals'[j].lines = journals[j].lines \/ Collects(j) \/ Writes(c, j),
         step = "line" => m.recid \notin DOMAIN journals \/ Collects(m.recid) \/ Writes(c, m.recid)
  PROVE  JournalInv'
<1>1. Shapes /\ Len(journals) \in Nat /\ Len(journals') \in Nat
  BY Lengths, LenProperties DEF JournalInv, Keeps
<1>2. /\ pc'[c] = step /\ \A d \in Callers : d # c => pc'[d] = pc[d]
      /\ pc' \in [Callers -> Steps]
  BY <1>1 DEF Shapes
<1>3. /\ cur'[c] = m /\ \A d \in Callers : d # c => cur'[d] = cur[d]
      /\ cur' = [d \in Callers |-> cur'[d]]
  BY <1>1 DEF Shapes
<1>4. \A d \in Callers : IsMemory(cur[d])'
  <2> SUFFICES ASSUME NEW d \in Callers PROVE IsMemory(cur[d])'
    OBVIOUS
  <2>1. CASE d = c
    BY <1>3, <2>1 DEF IsMemory
  <2>2. CASE d # c
    <3>1. PICK n : n = cur[d]
      OBVIOUS
    <3>2. IsMemory(n)
      BY <1>1, <3>1 DEF Shapes
    <3>3. IsMemory(n)'
      BY <1>1, <3>2 DEF IsMemory, Keeps
    <3> QED BY <1>3, <2>2, <3>1, <3>3 DEF IsMemory
  <2> QED BY <2>1, <2>2
<1>5. Shapes'
  BY <1>2, <1>3, <1>4 DEF Shapes, Keeps
<1>6. ASSUME NEW d \in Callers, NEW j \in DOMAIN journals, d # c, pc[d] = "line", cur[d].recid = j
      PROVE  Collects(j) \/ journals'[j].lines = journals[j].lines
  BY <1>6 DEF JournalInv, Writes
<1>7. \A d \in Callers : MemoryHolds(pc[d], cur[d])
  BY DEF JournalInv
<1>8. \A d \in Callers : MemoryHolds(pc[d], cur[d])'
  <2> SUFFICES ASSUME NEW d \in Callers PROVE MemoryHolds(pc[d], cur[d])'
    OBVIOUS
  <2>1. CASE d = c
    BY <1>2, <1>3, <2>1 DEF MemoryHolds, Reverses, Collects, Whole
  <2>2. CASE d # c
    <3>1. PICK s, n : s = pc[d] /\ n = cur[d]
      OBVIOUS
    <3>2. MemoryHolds(s, n)
      BY <1>7, <3>1
    <3>3. s = "line" => Collects(n.recid) \/ journals'[n.recid].lines = journals[n.recid].lines
      BY <1>6, <2>2, <3>1, <3>2 DEF MemoryHolds
    <3>4. MemoryHolds(s, n)'
      BY <1>1, <3>2, <3>3, MemoryKept
    <3> QED BY <1>2, <1>3, <2>2, <3>1, <3>4 DEF MemoryHolds, Reverses, Collects, Whole
  <2> QED BY <2>1, <2>2
<1>9. ASSUME NEW d \in Callers, d # c, NEW j, Writes(c, j)', Writes(d, j)'
      PROVE  FALSE
  <2>1. pc[d] = "line" /\ cur[d].recid = j /\ step = "line" /\ m.recid = j
    BY <1>2, <1>3, <1>9 DEF Writes
  <2>2. j \in DOMAIN journals
    BY <1>7, <2>1 DEF MemoryHolds
  <2>3. ~Collects(j)
    BY <1>9, <2>2 DEF Writes, Collects, Keeps
  <2>4. Writes(c, j) /\ Writes(d, j)
    BY <2>1, <2>2, <2>3 DEF Writes
  <2> QED BY <1>9, <2>2, <2>4 DEF JournalInv
<1>10. \A d, e \in Callers : \A j \in DOMAIN journals' : Writes(d, j)' /\ Writes(e, j)' => d = e
  <2> SUFFICES ASSUME NEW d \in Callers, NEW e \in Callers, NEW j \in DOMAIN journals',
                      Writes(d, j)', Writes(e, j)', d # e
               PROVE  FALSE
    OBVIOUS
  <2>1. CASE d = c
    BY <1>9, <2>1
  <2>2. CASE e = c
    BY <1>9, <2>2
  <2>3. CASE d # c /\ e # c
    <3>1. pc[d] = "line" /\ cur[d].recid = j /\ pc[e] = "line" /\ cur[e].recid = j
      BY <1>2, <1>3, <2>3 DEF Writes
    <3>2. j \in DOMAIN journals
      BY <1>7, <3>1 DEF MemoryHolds
    <3>3. ~Collects(j)
      BY <3>2 DEF Writes, Collects, Keeps
    <3>4. Writes(d, j) /\ Writes(e, j)
      BY <3>1, <3>3 DEF Writes
    <3> QED BY <3>2, <3>4 DEF JournalInv
  <2> QED BY <2>1, <2>2, <2>3
<1> QED BY <1>5, <1>8, <1>10 DEF JournalInv

\* A step that leaves the journals as they are.
LEMMA CallerMoves ==
  ASSUME JournalInv, NEW c \in Callers, NEW step \in Steps, NEW m, UNCHANGED journals,
         pc' = [pc EXCEPT ![c] = step], cur' = [cur EXCEPT ![c] = m],
         IsMemory(m), MemoryHolds(step, m),
         period' \in [Periods -> {Open, PeriodClosed, Locked}],
         calls' \in 0 .. MaxCalls, failures' \in 0 .. MaxFailures,
         step = "line" => Collects(m.recid)
  PROVE  JournalInv'
<1>1. Keeps
  <2>1. \A j \in DOMAIN journals : Whole(j) => Whole(j)'
    BY DEF Whole, Collects
  <2> QED BY <2>1, Lengths DEF JournalInv, Shapes, Keeps
<1>2. \A j \in DOMAIN journals' : RowHolds(j)'
  BY DEF JournalInv, RowHolds, Collects, Part, InBooks, Whole
<1>3. MemoryHolds(step, m)'
  BY DEF MemoryHolds, Reverses, Whole, Collects
<1>4. IsMemory(m)'
  BY DEF IsMemory
<1> QED BY <1>1, <1>2, <1>3, <1>4, OneCallerSteps

LEMMA Forgets ==
  ASSUME Shapes
  PROVE  IsMemory(Nothing) /\ MemoryHolds("idle", Nothing) /\ "idle" \in Steps
<1>1. Len(journals) \in Nat
  BY Lengths
<1> QED BY <1>1 DEF IsMemory, MemoryHolds, Nothing, Operating, Steps, Posting, Marking, Writing, Reversing

\* The call of c ends.
LEMMA CallEnds ==
  ASSUME JournalInv, NEW c \in Callers, Ends(c), UNCHANGED journals,
         period' \in [Periods -> {Open, PeriodClosed, Locked}],
         calls' \in 0 .. MaxCalls, failures' \in 0 .. MaxFailures
  PROVE  JournalInv'
<1>1. IsMemory(Nothing) /\ MemoryHolds("idle", Nothing) /\ "idle" \in Steps /\ "idle" # "line"
  BY Forgets DEF JournalInv
<1>2. PICK m : m = Nothing
  OBVIOUS
<1>3. IsMemory(m) /\ MemoryHolds("idle", m)
  BY <1>1, <1>2
<1>4. pc' = [pc EXCEPT ![c] = "idle"] /\ cur' = [cur EXCEPT ![c] = m]
  BY <1>2 DEF Ends, Goes
<1> QED BY <1>1, <1>3, <1>4, CallerMoves

\* c goes on to another statement with what it knows.
LEMMA CallGoesOn ==
  ASSUME JournalInv, NEW c \in Callers, NEW step \in Steps, step # "line", Goes(c, step),
         UNCHANGED <<journals, period, cur, calls, failures>>, MemoryHolds(step, cur[c])
  PROVE  JournalInv'
<1>1. PICK m : m = cur[c]
  OBVIOUS
<1>2. IsMemory(m) /\ MemoryHolds(step, m)
  BY <1>1 DEF JournalInv, Shapes
<1>3. cur' = [cur EXCEPT ![c] = m]
  BY <1>1 DEF JournalInv, Shapes
<1>4. /\ pc' = [pc EXCEPT ![c] = step]
      /\ period' \in [Periods -> {Open, PeriodClosed, Locked}]
      /\ calls' \in 0 .. MaxCalls /\ failures' \in 0 .. MaxFailures
  BY DEF Goes, JournalInv, Shapes
<1> QED BY <1>2, <1>3, <1>4, CallerMoves

\* A call that is cut short or refused, whatever it checked.
LEMMA Refused ==
  ASSUME JournalInv, NEW c \in Callers, Ends(c), UNCHANGED <<journals, period, calls, failures>>
  PROVE  JournalInv'
BY CallEnds DEF JournalInv, Shapes

\* A call that starts with what it is given.
LEMMA CallStarts ==
  ASSUME JournalInv, NEW c \in Callers, NEW op, NEW step \in Steps, NEW m,
         Starts(c, op), Goes(c, step), cur' = [cur EXCEPT ![c] = m],
         UNCHANGED <<journals, period>>, IsMemory(m), MemoryHolds(step, m),
         step = "line" => Collects(m.recid)
  PROVE  JournalInv'
<1>1. calls' \in 0 .. MaxCalls /\ failures' \in 0 .. MaxFailures
  BY JournalAssumption DEF Starts, JournalInv, Shapes
<1>2. /\ pc' = [pc EXCEPT ![c] = step]
      /\ period' \in [Periods -> {Open, PeriodClosed, Locked}]
  BY DEF Goes, JournalInv, Shapes
<1> QED BY <1>1, <1>2, CallerMoves

-----------------------------------------------------------------------------
(* Starting a call *)

LEMMA CreateStep ==
  ASSUME JournalInv, NEW c \in Callers, NEW op, NEW k \in Keys, Create(c, op, k)
  PROVE  JournalInv'
<1>0. PICK m : m = [Nothing EXCEPT !.op = op, !.key = <<k, 0>>, !.lines = LinesOf[k]]
  OBVIOUS
<1>1. m = [op |-> op, recid |-> 0, original |-> 0, key |-> <<k, 0>>, lines |-> LinesOf[k]]
  BY <1>0 DEF Nothing
<1>2. op \in {"create", "system"} /\ cur' = [cur EXCEPT ![c] = m]
  BY <1>0 DEF Create
<1>3. <<k, 0>> \in PostingKey /\ LinesWith(<<k, 0>>) = LinesOf[k] /\ LinesOf[k] \in Seq(Int)
  BY JournalAssumption DEF PostingKey, LinesWith
<1>4. IsMemory(m)
  <2>1. Len(journals) \in Nat
    BY Lengths DEF JournalInv
  <2> QED BY <1>1, <1>2, <1>3, <2>1 DEF IsMemory, Operating
<1>6. Part(LinesOf[k], <<k, 0>>)
  <2>1. LinesOf[k] \o <<>> = LinesOf[k] /\ <<>> \in Seq(Int)
    BY <1>3, ConcatEmptySeq
  <2> QED BY <1>3, <2>1 DEF Part
<1>5. MemoryHolds("lookup", m) /\ "lookup" \in Steps /\ "lookup" # "line"
  BY <1>1, <1>2, <1>3, <1>6 DEF MemoryHolds, Posting, Marking, Writing, Reversing, Steps
<1> QED BY <1>2, <1>4, <1>5, CallStarts DEF Create

LEMMA OpensStep ==
  ASSUME JournalInv, NEW c \in Callers, NEW op \in {"submit", "approve", "reject", "reverse"},
         NEW j \in DOMAIN journals, NEW status,
         NEW step \in {"submit_lines", "post", "reject_write", "reverse_period"},
         step = "post" => op # "reverse",
         step = "reverse_period" =>
           op = "reverse" /\ status = Posted /\ journals[j].key[2] < MaxReversals,
         Opens(c, op, j, status, step)
  PROVE  JournalInv'
<1>0. PICK m : m = [Nothing EXCEPT !.op = op, !.recid = j]
  OBVIOUS
<1>1. m = [op |-> op, recid |-> j, original |-> 0, key |-> <<>>, lines |-> <<>>]
  BY <1>0 DEF Nothing
<1>2. cur' = [cur EXCEPT ![c] = m]
  BY <1>0 DEF Opens
<1>3. Len(journals) \in Nat /\ DOMAIN journals = 1 .. Len(journals)
  BY Lengths DEF JournalInv
<1>4. IsMemory(m)
  BY <1>1, <1>3 DEF IsMemory, Operating
<1>5. step = "reverse_period" => Whole(j)
  BY DEF Opens, JournalInv, RowHolds, InBooks
<1>6. MemoryHolds(step, m) /\ step \in Steps /\ step # "line"
  BY <1>1, <1>5 DEF MemoryHolds, Posting, Marking, Writing, Reversing, Steps
<1> QED BY <1>2, <1>4, <1>6, CallStarts DEF Opens

LEMMA AppendToStep ==
  ASSUME JournalInv, NEW c \in Callers, NEW j \in DOMAIN journals, AppendTo(c, j)
  PROVE  JournalInv'
<1>0. PICK m : m = [Nothing EXCEPT !.op = "append", !.recid = j, !.lines = <<1, -1>>]
  OBVIOUS
<1>1. m = [op |-> "append", recid |-> j, original |-> 0, key |-> <<>>, lines |-> <<1, -1>>]
  BY <1>0 DEF Nothing
<1>2. cur' = [cur EXCEPT ![c] = m]
  BY <1>0 DEF AppendTo
<1>3. Len(journals) \in Nat /\ DOMAIN journals = 1 .. Len(journals)
  BY Lengths DEF JournalInv
<1>4. IsMemory(m)
  BY <1>1, <1>3 DEF IsMemory, Operating
<1>5. Collects(j) /\ m.recid = j
  BY <1>1 DEF AppendTo, Collects
<1>6. MemoryHolds("line", m) /\ "line" \in Steps
  BY <1>1, <1>5 DEF MemoryHolds, Posting, Marking, Writing, Reversing, Steps
<1> QED BY <1>2, <1>4, <1>5, <1>6, CallStarts DEF AppendTo

LEMMA CloseCheckStep ==
  ASSUME JournalInv, NEW c \in Callers, NEW p \in Periods, CloseCheck(c, p)
  PROVE  JournalInv'
<1>0. PICK m : m = [Nothing EXCEPT !.op = "close", !.key = <<p>>]
  OBVIOUS
<1>1. m = [op |-> "close", recid |-> 0, original |-> 0, key |-> <<p>>, lines |-> <<>>]
  BY <1>0 DEF Nothing
<1>2. cur' = [cur EXCEPT ![c] = m]
  BY <1>0 DEF CloseCheck
<1>3. Len(journals) \in Nat
  BY Lengths DEF JournalInv
<1>4. IsMemory(m)
  BY <1>1, <1>3 DEF IsMemory, Operating
<1>5. MemoryHolds("close", m) /\ "close" \in Steps /\ "close" # "line"
  BY <1>1 DEF MemoryHolds, Posting, Marking, Writing, Reversing, Steps
<1> QED BY <1>2, <1>4, <1>5, CallStarts DEF CloseCheck

\* Periods are reopened, locked and unlocked in one statement.
LEMMA MovePeriodStep ==
  ASSUME JournalInv, NEW c \in Callers, NEW op, NEW p \in Periods, NEW from,
         NEW to \in {Open, PeriodClosed, Locked}, MovePeriod(c, op, p, from, to)
  PROVE  JournalInv'
<1>1. PICK m : m = cur[c]
  OBVIOUS
<1>2. PICK step : step = pc[c]
  OBVIOUS
<1>3. IsMemory(m) /\ MemoryHolds(step, m) /\ step \in Steps /\ step # "line"
  BY <1>1, <1>2 DEF JournalInv, Shapes, MovePeriod, Starts
<1>4. pc' = [pc EXCEPT ![c] = step] /\ cur' = [cur EXCEPT ![c] = m]
  BY <1>1, <1>2 DEF JournalInv, Shapes, MovePeriod
<1>5. period' \in [Periods -> {Open, PeriodClosed, Locked}]
  BY DEF JournalInv, Shapes, MovePeriod
<1>6. calls' \in 0 .. MaxCalls /\ failures' \in 0 .. MaxFailures
  BY JournalAssumption DEF Starts, JournalInv, Shapes, MovePeriod
<1>7. UNCHANGED journals
  BY DEF MovePeriod
<1> QED BY <1>3, <1>4, <1>5, <1>6, <1>7, CallerMoves

LEMMA CloseWriteStep ==
  ASSUME JournalInv, NEW c \in Callers, CloseWrite(c)
  PROVE  JournalInv'
<1>1. period' \in [Periods -> {Open, PeriodClosed, Locked}]
  BY DEF JournalInv, Shapes, CloseWrite
<1>2. calls' \in 0 .. MaxCalls /\ failures' \in 0 .. MaxFailures
  BY DEF JournalInv, Shapes, CloseWrite, At, counters
<1> QED BY <1>1, <1>2, CallEnds DEF CloseWrite

LEMMA FailStep ==
  ASSUME JournalInv, NEW c \in Callers, Fail(c)
  PROVE  JournalInv'
<1>1. period' \in [Periods -> {Open, PeriodClosed, Locked}]
  BY DEF JournalInv, Shapes, Fail
<1>2. calls' \in 0 .. MaxCalls /\ failures' \in 0 .. MaxFailures
  BY JournalAssumption DEF JournalInv, Shapes, Fail
<1> QED BY <1>1, <1>2, CallEnds DEF Fail

-----------------------------------------------------------------------------
(* Checks *)

\* A check on the way to posting, submitting or reversing a journal.
LEMMA ChecksStep ==
  ASSUME JournalInv, NEW c \in Callers, NEW holds \in BOOLEAN, NEW from \in Steps, NEW step \in Steps,
         step # "line", At(c, from), Check(c, holds, step), UNCHANGED <<journals, period>>,
         holds => MemoryHolds(step, cur[c])
  PROVE  JournalInv'
<1>1. CASE holds
  BY <1>1, CallGoesOn DEF Check, At, counters
<1>2. CASE ~holds
  BY <1>2, Refused DEF Check, At, counters
<1> QED BY <1>1, <1>2

LEMMA KnownAt ==
  ASSUME JournalInv, NEW c \in Callers, NEW step, At(c, step)
  PROVE  MemoryHolds(step, cur[c]) /\ IsMemory(cur[c])
BY DEF JournalInv, Shapes, At

LEMMA PostReadStep ==
  ASSUME JournalInv, NEW c \in Callers, PostRead(c)
  PROVE  JournalInv'
<1>1. PICK m : m = cur[c]
  OBVIOUS
<1>2. MemoryHolds("post", m)
  BY <1>1, KnownAt DEF PostRead
<1>3. MemoryHolds("post_period", m)
  BY <1>2 DEF MemoryHolds, Posting, Marking, Writing, Reversing
<1>4. "post" \in Steps /\ "post_period" \in Steps /\ "post_period" # "line"
  BY DEF Steps, Posting
<1>5. MemoryHolds("post_period", cur[c])
  BY <1>1, <1>3
<1> DEFINE holds == journals[cur[c].recid].status \in {Draft, PendingApproval}
<1>6. /\ At(c, "post") /\ Check(c, holds, "post_period") /\ UNCHANGED <<journals, period>>
      /\ holds \in BOOLEAN
  BY DEF PostRead
<1> HIDE DEF holds
<1> QED BY <1>4, <1>5, <1>6, ChecksStep

LEMMA PostPeriodStep ==
  ASSUME JournalInv, NEW c \in Callers, PostPeriod(c)
  PROVE  JournalInv'
<1>1. PICK m : m = cur[c]
  OBVIOUS
<1>2. MemoryHolds("post_period", m)
  BY <1>1, KnownAt DEF PostPeriod
<1>3. MemoryHolds("post_lines", m)
  BY <1>2 DEF MemoryHolds, Posting, Marking, Writing, Reversing
<1>4. "post_period" \in Steps /\ "post_lines" \in Steps /\ "post_lines" # "line"
  BY DEF Steps, Posting
<1>5. MemoryHolds("post_lines", cur[c])
  BY <1>1, <1>3
<1> QED BY <1>4, <1>5, ChecksStep DEF PostPeriod

\* What is to be posted balances.
LEMMA PostLinesStep ==
  ASSUME JournalInv, NEW c \in Callers, PostLines(c)
  PROVE  JournalInv'
<1>1. PICK m : m = cur[c]
  OBVIOUS
<1> DEFINE lines == journals[m.recid].lines
           key == journals[m.recid].key
           holds == lines # <<>> /\ Balanced(lines)
<1>2. MemoryHolds("post_lines", m)
  BY <1>1, KnownAt DEF PostLines
<1>3. m.recid \in DOMAIN journals
  BY <1>2 DEF MemoryHolds, Posting
<1>4. RowHolds(m.recid) /\ key \in PostingKey /\ lines \in Seq(Int)
  BY <1>3, Lengths DEF JournalInv
<1>5. holds => Whole(m.recid)
  BY <1>4, BalancedOnceKept DEF Whole
<1>6. holds => MemoryHolds("post_write", m)
  BY <1>2, <1>5 DEF MemoryHolds, Posting, Marking, Writing, Reversing
<1>7. "post_lines" \in Steps /\ "post_write" \in Steps /\ "post_write" # "line" /\ holds \in BOOLEAN
  BY DEF Steps, Posting
<1>8. holds => MemoryHolds("post_write", cur[c])
  BY <1>1, <1>6
<1>9. At(c, "post_lines") /\ Check(c, holds, "post_write") /\ UNCHANGED <<journals, period>>
  BY <1>1 DEF PostLines
<1> HIDE DEF holds
<1> QED BY <1>7, <1>8, <1>9, ChecksStep

LEMMA SubmitLinesStep ==
  ASSUME JournalInv, NEW c \in Callers, SubmitLines(c)
  PROVE  JournalInv'
<1>1. PICK m : m = cur[c]
  OBVIOUS
<1> DEFINE lines == journals[m.recid].lines
           holds == lines # <<>> /\ Balanced(lines)
<1>2. MemoryHolds("submit_lines", m)
  BY <1>1, KnownAt DEF SubmitLines
<1>3. MemoryHolds("submit_write", m)
  BY <1>2 DEF MemoryHolds, Posting, Marking, Writing, Reversing
<1>4. "submit_lines" \in Steps /\ "submit_write" \in Steps /\ "submit_write" # "line" /\ holds \in BOOLEAN
  BY DEF Steps, Writing
<1>5. MemoryHolds("submit_write", cur[c])
  BY <1>1, <1>3
<1>6. At(c, "submit_lines") /\ Check(c, holds, "submit_write") /\ UNCHANGED <<journals, period>>
  BY <1>1 DEF SubmitLines
<1> HIDE DEF holds
<1> QED BY <1>4, <1>5, <1>6, ChecksStep

LEMMA ReversePeriodStep ==
  ASSUME JournalInv, NEW c \in Callers, ReversePeriod(c)
  PROVE  JournalInv'
<1>1. PICK m : m = cur[c]
  OBVIOUS
<1>2. MemoryHolds("reverse_period", m)
  BY <1>1, KnownAt DEF ReversePeriod
<1>3. MemoryHolds("reverse_lines", m)
  BY <1>2 DEF MemoryHolds, Posting, Marking, Writing, Reversing
<1>4. "reverse_period" \in Steps /\ "reverse_lines" \in Steps /\ "reverse_lines" # "line"
  BY DEF Steps, Reversing
<1>5. MemoryHolds("reverse_lines", cur[c])
  BY <1>1, <1>3
<1> QED BY <1>4, <1>5, ChecksStep DEF ReversePeriod

\* The lines a reversal is to get are the opposites of those the journal has.
LEMMA ReverseLinesStep ==
  ASSUME JournalInv, NEW c \in Callers, ReverseLines(c)
  PROVE  JournalInv'
<1>1. PICK j : j = cur[c].recid
  OBVIOUS
<1>2. MemoryHolds("reverse_lines", cur[c])
  BY KnownAt DEF ReverseLines
<1>3. j \in DOMAIN journals /\ Whole(j) /\ journals[j].key[2] < MaxReversals
  BY <1>1, <1>2 DEF MemoryHolds, Reversing
<1>4. CASE journals[j].lines # <<>>
  <2>1. PICK key, lines : key = journals[j].key /\ lines = journals[j].lines
    OBVIOUS
  <2>2. key \in PostingKey /\ lines \in Seq(Int)
    BY <1>3, <2>1, Lengths DEF JournalInv
  <2>3. ReversalKey(key) \in PostingKey /\ ReversalKey(key)[1] = key[1]
    <3>1. /\ key = <<key[1], key[2]>> /\ key[1] \in Keys
          /\ key[2] \in 0 .. MaxReversals /\ key[2] < MaxReversals /\ MaxReversals \in Nat
      BY <1>3, <2>1, <2>2, JournalAssumption DEF PostingKey
    <3>2. key[2] + 1 \in 0 .. MaxReversals
      BY <3>1
    <3> QED BY <3>1, <3>2 DEF PostingKey, ReversalKey
  <2>4. Negated(lines) \in Seq(Int)
    <3>1. Len(lines) \in Nat /\ DOMAIN lines = 1 .. Len(lines) /\ lines \in [1 .. Len(lines) -> Int]
      BY <2>2, LenProperties
    <3>2. Negated(lines) \in [1 .. Len(lines) -> Int]
      BY <3>1 DEF Negated
    <3> QED BY <3>1, <3>2, SeqDef
  <2>5. key[1] \in Collecting \/ Part(Negated(lines), ReversalKey(key))
    <3>1. key[1] \in Collecting \/ Part(lines, key)
      BY <1>3, <2>1 DEF JournalInv, RowHolds, Collects
    <3> QED BY <2>2, <3>1, PartNegated
  <2>6. PICK m : m = [Nothing EXCEPT !.op = "reverse", !.original = j,
                                     !.key = ReversalKey(journals[j].key),
                                     !.lines = Negated(journals[j].lines)]
    OBVIOUS
  <2>7. m = [op |-> "reverse", recid |-> 0, original |-> j, key |-> ReversalKey(key), lines |-> Negated(lines)]
    BY <2>1, <2>6 DEF Nothing
  <2>8. cur' = [cur EXCEPT ![c] = m] /\ Goes(c, "lookup")
    BY <1>1, <1>4, <2>6 DEF ReverseLines
  <2>9. Len(journals) \in Nat /\ DOMAIN journals = 1 .. Len(journals)
    BY Lengths DEF JournalInv
  <2>10. IsMemory(m)
    BY <1>3, <2>4, <2>7, <2>9 DEF IsMemory, Operating
  <2>11. Reverses(j, ReversalKey(key))
    BY <1>3, <2>1 DEF Reverses
  <2>12. MemoryHolds("lookup", m) /\ "lookup" \in Steps /\ "lookup" # "line"
    BY <2>3, <2>5, <2>7, <2>11 DEF MemoryHolds, Posting, Marking, Writing, Reversing, Steps
  <2>13. /\ pc' = [pc EXCEPT ![c] = "lookup"] /\ UNCHANGED journals
         /\ period' \in [Periods -> {Open, PeriodClosed, Locked}]
         /\ calls' \in 0 .. MaxCalls /\ failures' \in 0 .. MaxFailures
    BY <2>8 DEF Goes, ReverseLines, At, counters, JournalInv, Shapes
  <2> QED BY <2>8, <2>10, <2>12, <2>13, CallerMoves
<1>5. CASE journals[j].lines = <<>>
  BY <1>1, <1>5, Refused DEF ReverseLines, At, counters
<1> QED BY <1>4, <1>5

\* A journal with the key is there already, or the lines are written to a new one.
LEMMA LookupStep ==
  ASSUME JournalInv, NEW c \in Callers, Lookup(c)
  PROVE  JournalInv'
<1>1. PICK was : was = cur[c]
  OBVIOUS
<1>2. MemoryHolds("lookup", was) /\ IsMemory(was)
  BY <1>1, KnownAt DEF Lookup
<1>3. ASSUME NEW j \in WithKey(cur[c].key), cur[c].op # "create",
             Goes(c, "post"), cur' = [cur EXCEPT ![c].recid = j]
      PROVE  JournalInv'
  <2>1. PICK m : m = [was EXCEPT !.recid = j]
    OBVIOUS
  <2>2. cur' = [cur EXCEPT ![c] = m]
    BY <1>1, <1>3, <2>1 DEF JournalInv, Shapes
  <2>3. /\ m.op = was.op /\ m.recid = j /\ m.original = was.original
        /\ m.key = was.key /\ m.lines = was.lines
        /\ m = [op |-> m.op, recid |-> m.recid, original |-> m.original, key |-> m.key, lines |-> m.lines]
    BY <1>2, <2>1 DEF IsMemory
  <2>4. j \in DOMAIN journals /\ journals[j].key = was.key
    BY <1>1, <1>3 DEF WithKey
  <2>5. Len(journals) \in Nat /\ DOMAIN journals = 1 .. Len(journals)
    BY Lengths DEF JournalInv
  <2>6. IsMemory(m)
    BY <1>2, <2>3, <2>4, <2>5 DEF IsMemory
  <2>7. was.op = "reverse" => Reverses(was.original, was.key)
    BY <1>2 DEF MemoryHolds
  <2>8. MemoryHolds("post", m) /\ "post" \in Steps /\ "post" # "line"
    BY <2>3, <2>4, <2>7 DEF MemoryHolds, Posting, Marking, Writing, Reversing, Steps
  <2>9. /\ pc' = [pc EXCEPT ![c] = "post"] /\ UNCHANGED journals
        /\ period' \in [Periods -> {Open, PeriodClosed, Locked}]
        /\ calls' \in 0 .. MaxCalls /\ failures' \in 0 .. MaxFailures
    BY <1>3 DEF Goes, Lookup, At, counters, JournalInv, Shapes
  <2> QED BY <2>2, <2>6, <2>8, <2>9, CallerMoves
<1>4. CASE Ends(c)
  BY <1>4, Refused DEF Lookup, At, counters
<1>5. CASE Check(c, Balanced(cur[c].lines), "insert")
  <2>2. MemoryHolds("insert", was)
    BY <1>2 DEF MemoryHolds, Posting, Marking, Writing, Reversing
  <2>3. MemoryHolds("insert", cur[c]) /\ "insert" \in Steps /\ "lookup" \in Steps /\ "insert" # "line"
    BY <1>1, <2>2 DEF Steps
  <2>4. CASE Ends(c)
    BY <1>4, <2>4
  <2>5. CASE Goes(c, "insert") /\ UNCHANGED cur
    BY <2>3, <2>5, CallGoesOn DEF Lookup, At, counters
  <2> QED BY <1>5, <2>4, <2>5 DEF Check
<1> QED BY <1>3, <1>4, <1>5 DEF Lookup

-----------------------------------------------------------------------------
(* Writing a status *)

\* update_status_v1 leaves keys and lines alone; what it puts in the books is whole.
LEMMA StatusWritten ==
  ASSUME JournalInv, NEW j \in DOMAIN journals, NEW status \in {Draft, PendingApproval, Posted, Reversed},
         NEW reversed_by \in Nat, NEW reversal_of \in Nat, SetStatus(j, status, reversed_by, reversal_of),
         status \in {Posted, Reversed} => Whole(j),
         status = Reversed =>
           /\ reversed_by \in DOMAIN journals /\ Whole(reversed_by)
           /\ journals[reversed_by].key = ReversalKey(journals[j].key)
  PROVE  /\ Keeps /\ DOMAIN journals' = DOMAIN journals
         /\ \A i \in DOMAIN journals' : RowHolds(i)'
         /\ \A i \in DOMAIN journals : journals'[i].lines = journals[i].lines
<1>1. Shapes /\ Len(journals) \in Nat /\ DOMAIN journals = 1 .. Len(journals)
  BY Lengths DEF JournalInv
<1>2. PICK row : row = [journals[j] EXCEPT !.status = status, !.reversed_by = reversed_by,
                                           !.reversal_of = reversal_of]
  OBVIOUS
<1>3. /\ row \in JournalRow /\ row.key = journals[j].key /\ row.lines = journals[j].lines
      /\ row.status = status /\ row.reversed_by = reversed_by
  <2>1. journals[j] \in JournalRow
    BY <1>1, Lengths
  <2> QED BY <1>2, <2>1 DEF JournalRow
<1>4. journals' = [journals EXCEPT ![j] = row]
  BY <1>2 DEF SetStatus
<1>5. /\ journals' \in Seq(JournalRow) /\ Len(journals') = Len(journals)
      /\ \A i \in 1 .. Len(journals) : journals'[i] = IF i = j THEN row ELSE journals[i]
  BY <1>1, <1>3, <1>4, ExceptSeq DEF Shapes
<1>6. DOMAIN journals' = DOMAIN journals
  BY <1>1, <1>5, LenProperties
<1>7. \A i \in DOMAIN journals : journals'[i].key = journals[i].key /\ journals'[i].lines = journals[i].lines
  BY <1>1, <1>3, <1>5
<1>8. \A i \in DOMAIN journals : Whole(i) => Whole(i)'
  BY <1>7 DEF Whole, Collects
<1>9. Keeps
  BY <1>1, <1>5, <1>7, <1>8 DEF Keeps
<1>10. ASSUME NEW i \in DOMAIN journals PROVE RowHolds(i)'
  <2>1. RowHolds(i)
    BY DEF JournalInv
  <2>2. Collects(i)' \/ Part(journals'[i].lines, journals'[i].key)
    BY <1>7, <2>1 DEF RowHolds, Collects
  <2>3. InBooks(i)' => Whole(i)'
    <3>1. CASE i = j
      BY <1>1, <1>3, <1>5, <1>8, <3>1 DEF InBooks
    <3>2. CASE i # j
      BY <1>1, <1>5, <1>8, <2>1, <3>2 DEF InBooks, RowHolds
    <3> QED BY <3>1, <3>2
  <2>4. ASSUME NEW by \in DOMAIN journals, Whole(by), journals[by].key = ReversalKey(journals[i].key),
               journals'[i].reversed_by = by
        PROVE  /\ journals'[i].reversed_by \in DOMAIN journals'
               /\ journals'[journals'[i].reversed_by].key = ReversalKey(journals'[i].key)
               /\ Whole(journals[i].reversed_by)'
    <3>1. journals'[by].key = ReversalKey(journals'[i].key) /\ by \in DOMAIN journals'
      BY <1>6, <1>7, <2>4
    <3>2. Whole(by)'
      BY <1>8, <2>4
    <3> QED BY <2>4, <3>1, <3>2 DEF Whole, Collects
  <2>5. journals'[i].status = Reversed =>
          \E by \in DOMAIN journals : /\ Whole(by) /\ journals[by].key = ReversalKey(journals[i].key)
                                      /\ journals'[i].reversed_by = by
    <3>1. CASE i = j
      BY <1>1, <1>3, <1>5, <3>1
    <3>2. CASE i # j
      BY <1>1, <1>5, <2>1, <3>2 DEF RowHolds
    <3> QED BY <3>1, <3>2
  <2>6. journals'[i].status = Reversed =>
          /\ journals'[i].reversed_by \in DOMAIN journals'
          /\ journals'[journals'[i].reversed_by].key = ReversalKey(journals'[i].key)
          /\ Whole(journals[i].reversed_by)'
    BY <2>4, <2>5
  <2> QED BY <2>2, <2>3, <2>6 DEF RowHolds
<1> QED BY <1>6, <1>7, <1>9, <1>10

\* A status is written and the call goes on, or ends.
LEMMA WriteGoesOn ==
  ASSUME JournalInv, NEW c \in Callers, NEW j \in DOMAIN journals,
         NEW status \in {Draft, PendingApproval, Posted, Reversed},
         NEW reversed_by \in Nat, NEW reversal_of \in Nat, SetStatus(j, status, reversed_by, reversal_of),
         status \in {Posted, Reversed} => Whole(j),
         status = Reversed =>
           /\ reversed_by \in DOMAIN journals /\ Whole(reversed_by)
           /\ journals[reversed_by].key = ReversalKey(journals[j].key),
         NEW step \in Steps, step # "line", NEW m, IsMemory(m), MemoryHolds(step, m),
         pc' = [pc EXCEPT ![c] = step], cur' = [cur EXCEPT ![c] = m],
         UNCHANGED <<period, calls, failures>>
  PROVE  JournalInv'
<1>1. /\ Keeps /\ DOMAIN journals' = DOMAIN journals
      /\ \A i \in DOMAIN journals' : RowHolds(i)'
      /\ \A i \in DOMAIN journals : journals'[i].lines = journals[i].lines
  BY StatusWritten
<1>2. Shapes
  BY DEF JournalInv
<1>3. MemoryHolds(step, m)'
  BY <1>1, <1>2, MemoryKept
<1>4. IsMemory(m)'
  <2>1. /\ Len(journals) \in Nat /\ DOMAIN journals = 1 .. Len(journals)
        /\ Len(journals') \in Nat /\ Len(journals) <= Len(journals')
    BY <1>1, <1>2, Lengths, LenProperties DEF Keeps
  <2> QED BY <2>1 DEF IsMemory
<1>5. /\ period' \in [Periods -> {Open, PeriodClosed, Locked}]
      /\ calls' \in 0 .. MaxCalls /\ failures' \in 0 .. MaxFailures
  BY <1>2 DEF Shapes
<1> QED BY <1>1, <1>3, <1>4, <1>5, OneCallerSteps

LEMMA WriteEnds ==
  ASSUME JournalInv, NEW c \in Callers, NEW j \in DOMAIN journals, NEW status \in {Draft, PendingApproval, Posted},
         NEW reversal_of \in Nat, SetStatus(j, status, 0, reversal_of),
         status = Posted => Whole(j), Ends(c), UNCHANGED <<period, calls, failures>>
  PROVE  JournalInv'
<1>1. PICK m : m = Nothing
  OBVIOUS
<1>2. IsMemory(m) /\ MemoryHolds("idle", m) /\ "idle" \in Steps /\ "idle" # "line"
  BY <1>1, Forgets DEF JournalInv
<1>3. pc' = [pc EXCEPT ![c] = "idle"] /\ cur' = [cur EXCEPT ![c] = m]
  BY <1>1 DEF Ends, Goes
<1>4. status # Reversed /\ status \in {Draft, PendingApproval, Posted, Reversed} /\ 0 \in Nat
  BY DEF Draft, PendingApproval, Posted, Reversed
<1>5. status \in {Posted, Reversed} => Whole(j)
  BY <1>4
<1> QED BY <1>2, <1>3, <1>4, <1>5, WriteGoesOn

LEMMA PostWriteStep ==
  ASSUME JournalInv, NEW c \in Callers, PostWrite(c)
  PROVE  JournalInv'
<1>1. PICK m : m = cur[c]
  OBVIOUS
<1>2. MemoryHolds("post_write", m) /\ IsMemory(m)
  BY <1>1, KnownAt DEF PostWrite
<1>3. m.recid \in DOMAIN journals /\ Whole(m.recid)
  BY <1>2 DEF MemoryHolds, Posting
<1>4. SetStatus(m.recid, Posted, 0, 0) /\ UNCHANGED <<period, calls, failures>>
  BY <1>1 DEF PostWrite, At, counters
<1>5. CASE m.op = "reverse"
  <2>1. MemoryHolds("mark_original", m) /\ "mark_original" \in Steps /\ "mark_original" # "line"
    BY <1>2, <1>5 DEF MemoryHolds, Posting, Marking, Writing, Reversing, Steps
  <2>2. pc' = [pc EXCEPT ![c] = "mark_original"] /\ cur' = [cur EXCEPT ![c] = m]
    BY <1>1, <1>5 DEF PostWrite, Goes, JournalInv, Shapes
  <2>3. Posted # Reversed /\ Posted \in {Draft, PendingApproval, Posted, Reversed} /\ 0 \in Nat
    BY DEF Posted, Reversed
  <2> QED BY <1>2, <1>3, <1>4, <2>1, <2>2, <2>3, WriteGoesOn
<1>6. CASE m.op # "reverse"
  <2>1. Ends(c)
    BY <1>1, <1>6 DEF PostWrite
  <2> QED BY <1>3, <1>4, <2>1, WriteEnds
<1> QED BY <1>5, <1>6

LEMMA SubmitWriteStep ==
  ASSUME JournalInv, NEW c \in Callers, SubmitWrite(c)
  PROVE  JournalInv'
<1>1. PICK j : j = cur[c].recid
  OBVIOUS
<1>2. j \in DOMAIN journals
  BY <1>1, KnownAt DEF SubmitWrite, MemoryHolds, Writing
<1>3. PendingApproval # Posted
  BY DEF PendingApproval, Posted
<1>4. SetStatus(j, PendingApproval, 0, 0) /\ Ends(c) /\ UNCHANGED <<period, calls, failures>>
  BY <1>1 DEF SubmitWrite, At, counters
<1> QED BY <1>2, <1>3, <1>4, WriteEnds

LEMMA RejectWriteStep ==
  ASSUME JournalInv, NEW c \in Callers, RejectWrite(c)
  PROVE  JournalInv'
<1>1. PICK j : j = cur[c].recid
  OBVIOUS
<1>2. j \in DOMAIN journals
  BY <1>1, KnownAt DEF RejectWrite, MemoryHolds, Writing
<1>3. Draft # Posted
  BY DEF Draft, Posted
<1>4. SetStatus(j, Draft, 0, 0) /\ Ends(c) /\ UNCHANGED <<period, calls, failures>>
  BY <1>1 DEF RejectWrite, At, counters
<1> QED BY <1>2, <1>3, <1>4, WriteEnds

\* The original is marked with a reversal that has its lines, exchanged.
LEMMA MarkOriginalStep ==
  ASSUME JournalInv, NEW c \in Callers, MarkOriginal(c)
  PROVE  JournalInv'
<1>1. PICK m : m = cur[c]
  OBVIOUS
<1>2. MemoryHolds("mark_original", m) /\ IsMemory(m)
  BY <1>1, KnownAt DEF MarkOriginal
<1>3. /\ m.recid \in DOMAIN journals /\ Whole(m.recid) /\ m.op = "reverse"
      /\ Reverses(m.original, journals[m.recid].key)
  BY <1>2 DEF MemoryHolds, Marking
<1>4. /\ m.original \in DOMAIN journals /\ Whole(m.original)
      /\ journals[m.recid].key = ReversalKey(journals[m.original].key)
  BY <1>3 DEF Reverses
<1>5. m.recid \in Nat
  BY <1>3, Lengths DEF JournalInv
<1>6. SetStatus(m.original, Reversed, m.recid, 0) /\ UNCHANGED <<period, calls, failures>>
  BY <1>1 DEF MarkOriginal, At, counters
<1>7. MemoryHolds("mark_reversal", m) /\ "mark_reversal" \in Steps /\ "mark_reversal" # "line"
  BY <1>2 DEF MemoryHolds, Posting, Marking, Writing, Reversing, Steps
<1>8. pc' = [pc EXCEPT ![c] = "mark_reversal"] /\ cur' = [cur EXCEPT ![c] = m]
  BY <1>1 DEF MarkOriginal, Goes, JournalInv, Shapes
<1> QED BY <1>2, <1>3, <1>4, <1>5, <1>6, <1>7, <1>8, WriteGoesOn

LEMMA MarkReversalStep ==
  ASSUME JournalInv, NEW c \in Callers, MarkReversal(c)
  PROVE  JournalInv'
<1>1. PICK m : m = cur[c]
  OBVIOUS
<1>2. MemoryHolds("mark_reversal", m) /\ IsMemory(m)
  BY <1>1, KnownAt DEF MarkReversal
<1>3. m.recid \in DOMAIN journals /\ Whole(m.recid) /\ m.original \in Nat
  BY <1>2 DEF MemoryHolds, Marking, IsMemory
<1>4. SetStatus(m.recid, Posted, 0, m.original) /\ Ends(c) /\ UNCHANGED <<period, calls, failures>>
  BY <1>1 DEF MarkReversal, At, counters
<1> QED BY <1>3, <1>4, WriteEnds

-----------------------------------------------------------------------------
(* Writing lines *)

LEMMA RowKept ==
  ASSUME Shapes, Keeps, NEW j \in DOMAIN journals, RowHolds(j), journals'[j] = journals[j]
  PROVE  RowHolds(j)'
<1>1. DOMAIN journals \subseteq DOMAIN journals'
  <2>1. /\ Len(journals) \in Nat /\ DOMAIN journals = 1 .. Len(journals)
        /\ Len(journals') \in Nat /\ DOMAIN journals' = 1 .. Len(journals')
    BY Lengths, LenProperties DEF Keeps
  <2> QED BY <2>1 DEF Keeps
<1>2. Collects(j)' \/ Part(journals'[j].lines, journals'[j].key)
  BY DEF RowHolds, Collects
<1>3. InBooks(j)' => Whole(j)'
  BY DEF InBooks, RowHolds, Keeps
<1>4. ASSUME journals[j].status = Reversed
      PROVE  /\ journals[j].reversed_by \in DOMAIN journals'
             /\ journals'[journals[j].reversed_by].key = ReversalKey(journals[j].key)
             /\ Whole(journals[j].reversed_by)'
  <2>1. PICK by \in DOMAIN journals : /\ by = journals[j].reversed_by /\ Whole(by)
                                      /\ journals[by].key = ReversalKey(journals[j].key)
    BY <1>4 DEF RowHolds
  <2>2. Whole(by)' /\ journals'[by].key = journals[by].key /\ by \in DOMAIN journals'
    BY <1>1, <2>1 DEF Keeps
  <2>3. by = journals'[j].reversed_by
    BY <2>1
  <2> QED BY <2>1, <2>2, <2>3 DEF Whole, Collects
<1> QED BY <1>2, <1>3, <1>4 DEF RowHolds

\* After a row or a line is written the call writes on, posts the journal or ends.
LEMMA LinesLeftStep ==
  ASSUME JournalInv, NEW c \in Callers, NEW was, was = cur[c], IsMemory(was),
         NEW j, j \in DOMAIN journals', NEW rest \in Seq(Int), LinesLeft(c, j, rest),
         UNCHANGED <<period, calls, failures>>, Keeps,
         \A i \in DOMAIN journals' : RowHolds(i)',
         \A i \in DOMAIN journals :
           journals'[i].lines = journals[i].lines \/ Collects(i) \/ Writes(c, i),
         j \notin DOMAIN journals \/ Collects(j) \/ Writes(c, j),
         Collects(j)' \/ Part(journals'[j].lines \o rest, journals'[j].key),
         was.op = "reverse" => Reverses(was.original, journals[j].key)'
  PROVE  JournalInv'
<1>1. /\ Len(journals') \in Nat /\ DOMAIN journals' = 1 .. Len(journals') /\ Len(journals) \in Nat
      /\ Len(journals) <= Len(journals')
  BY LenProperties, Lengths DEF Keeps, JournalInv
<1>2. /\ period' \in [Periods -> {Open, PeriodClosed, Locked}]
      /\ calls' \in 0 .. MaxCalls /\ failures' \in 0 .. MaxFailures
  BY DEF JournalInv, Shapes
<1>3. CASE Ends(c)
  <2>1. PICK m : m = Nothing
    OBVIOUS
  <2>2. IsMemory(m) /\ MemoryHolds("idle", m) /\ "idle" \in Steps /\ "idle" # "line"
    BY <2>1, Forgets DEF JournalInv
  <2>3. pc' = [pc EXCEPT ![c] = "idle"] /\ cur' = [cur EXCEPT ![c] = m]
    BY <1>3, <2>1 DEF Ends, Goes
  <2>4. MemoryHolds("idle", m)'
    BY <2>2, MemoryKept DEF JournalInv
  <2>5. IsMemory(m)'
    BY <1>1, <2>2 DEF IsMemory
  <2> QED BY <1>2, <2>2, <2>3, <2>4, <2>5, OneCallerSteps
<1>4. ASSUME Goes(c, IF rest # <<>> THEN "line" ELSE "post"),
             cur' = [cur EXCEPT ![c].recid = j, ![c].lines = rest]
      PROVE  JournalInv'
  <2>1. PICK step : step = IF rest # <<>> THEN "line" ELSE "post"
    OBVIOUS
  <2>2. PICK m : m = [was EXCEPT !.recid = j, !.lines = rest]
    OBVIOUS
  <2>3. /\ m.op = was.op /\ m.recid = j /\ m.original = was.original
        /\ m.key = was.key /\ m.lines = rest
        /\ m = [op |-> m.op, recid |-> m.recid, original |-> m.original, key |-> m.key, lines |-> m.lines]
    BY <2>2 DEF IsMemory
  <2>4. cur' = [cur EXCEPT ![c] = m]
    BY <1>4, <2>2 DEF JournalInv, Shapes
  <2>5. pc' = [pc EXCEPT ![c] = step] /\ step \in Steps
    BY <1>4, <2>1 DEF Goes, Steps, Posting
  <2>6. IsMemory(m)'
    BY <1>1, <2>3 DEF IsMemory
  <2>7. MemoryHolds("post", m)'
    <3>1. m.op = "reverse" => Reverses(m.original, journals[m.recid].key)'
      BY <2>3 DEF Reverses, Whole, Collects
    <3> QED BY <2>3, <3>1 DEF MemoryHolds, Posting, Marking, Writing, Reversing
  <2>8. ASSUME rest # <<>> PROVE MemoryHolds("line", m)'
    <3>1. m.op = "reverse" => Reverses(m.original, journals[m.recid].key)'
      BY <2>3 DEF Reverses, Whole, Collects
    <3>2. m.lines # <<>> /\ m.recid \in DOMAIN journals'
          /\ (Collects(m.recid)' \/ Part(journals'[m.recid].lines \o m.lines, journals'[m.recid].key))
      BY <2>3, <2>8 DEF Collects
    <3> QED BY <3>1, <3>2 DEF MemoryHolds, Posting, Marking, Writing, Reversing
  <2>9. MemoryHolds(step, m)'
    BY <2>1, <2>7, <2>8
  <2>10. m.recid \notin DOMAIN journals \/ Collects(m.recid) \/ Writes(c, m.recid)
    BY <2>3
  <2> QED BY <1>2, <2>4, <2>5, <2>6, <2>9, <2>10, OneCallerSteps
<1> QED BY <1>3, <1>4 DEF LinesLeft

LEMMA InsertStep ==
  ASSUME JournalInv, NEW c \in Callers, Insert(c)
  PROVE  JournalInv'
<1>1. PICK was : was = cur[c]
  OBVIOUS
<1>2. MemoryHolds("insert", was) /\ IsMemory(was)
  BY <1>1, KnownAt DEF Insert
<1>3. /\ was.key \in PostingKey /\ was.lines \in Seq(Int)
      /\ was.key[1] \in Collecting \/ Part(was.lines, was.key)
      /\ (was.op = "reverse" => Reverses(was.original, was.key))
  BY <1>2 DEF MemoryHolds, IsMemory
<1>4. Shapes /\ Len(journals) \in Nat /\ DOMAIN journals = 1 .. Len(journals)
  BY Lengths DEF JournalInv
<1>5. CASE WithKey(cur[c].key) = {}
  <2>1. PICK row : row = [key |-> was.key, status |-> Draft, lines |-> <<>>, reversed_by |-> 0, reversal_of |-> 0]
    OBVIOUS
  <2>2. row \in JournalRow
    BY <1>3, <2>1 DEF JournalRow
  <2>3. PICK j : j = Len(journals) + 1
    OBVIOUS
  <2>4. journals' = Append(journals, row) /\ LinesLeft(c, j, was.lines) /\ UNCHANGED <<period, calls, failures>>
    BY <1>1, <1>5, <2>1, <2>3 DEF Insert, At, counters
  <2>5. /\ journals' \in Seq(JournalRow) /\ Len(journals') = j /\ journals'[j] = row
        /\ \A i \in 1 .. Len(journals) : journals'[i] = journals[i]
    BY <1>4, <2>2, <2>3, <2>4, AppendProperties DEF Shapes
  <2>6. DOMAIN journals' = 1 .. j /\ j \in Nat /\ j \in DOMAIN journals' /\ j \notin DOMAIN journals
    BY <1>4, <2>3, <2>5, LenProperties
  <2>7. \A i \in DOMAIN journals : Whole(i) => Whole(i)'
    BY <1>4, <2>5 DEF Whole, Collects
  <2>8. Keeps
    BY <1>4, <2>3, <2>5, <2>7 DEF Keeps
  <2>9. LinesWith(was.key) \in Seq(Int) /\ <<>> \o was.lines = was.lines
    BY <1>3, EventLines, ConcatEmptySeq
  <2>10. Part(<<>>, was.key)
    <3>1. <<>> \o LinesWith(was.key) = LinesWith(was.key)
      BY <2>9, ConcatEmptySeq
    <3> QED BY <2>9, <3>1 DEF Part
  <2>11. RowHolds(j)'
    <3>1. Draft # Reversed /\ Draft # Posted
      BY DEF Draft, Reversed, Posted
    <3>2. /\ journals'[j].lines = <<>> /\ journals'[j].key = was.key /\ journals'[j].status = Draft
      BY <2>1, <2>5
    <3> QED BY <2>10, <3>1, <3>2 DEF RowHolds, InBooks
  <2>12. \A i \in DOMAIN journals' : RowHolds(i)'
    <3>1. ASSUME NEW i \in DOMAIN journals PROVE RowHolds(i)'
      <4>1. RowHolds(i) /\ journals'[i] = journals[i]
        BY <1>4, <2>5 DEF JournalInv
      <4> QED BY <1>4, <2>8, <4>1, RowKept
    <3>2. \A i \in DOMAIN journals' : i = j \/ i \in DOMAIN journals
      BY <1>4, <2>3, <2>6
    <3> QED BY <2>11, <3>1, <3>2
  <2>13. \A i \in DOMAIN journals : journals'[i].lines = journals[i].lines
    BY <1>4, <2>5
  <2>14. Collects(j)' \/ Part(journals'[j].lines \o was.lines, journals'[j].key)
    BY <1>3, <2>1, <2>5, <2>9 DEF Collects
  <2>15. was.op = "reverse" => Reverses(was.original, journals[j].key)'
    <3> SUFFICES ASSUME was.op = "reverse" PROVE Reverses(was.original, journals[j].key)'
      OBVIOUS
    <3>1. /\ was.original \in DOMAIN journals /\ was.key = ReversalKey(journals[was.original].key)
          /\ Whole(was.original)
      BY <1>3 DEF Reverses
    <3>2. was.original \in DOMAIN journals' /\ journals'[was.original].key = journals[was.original].key
      BY <1>4, <2>3, <2>5, <2>6, <3>1
    <3>3. Whole(was.original)'
      BY <2>7, <3>1
    <3>4. journals'[j].key = was.key
      BY <2>1, <2>5
    <3> QED BY <3>1, <3>2, <3>3, <3>4 DEF Reverses
  <2> QED BY <1>1, <1>2, <1>3, <2>4, <2>6, <2>8, <2>12, <2>13, <2>14, <2>15, LinesLeftStep
<1>6. CASE WithKey(cur[c].key) # {}
  BY <1>6, Refused DEF Insert, At, counters
<1> QED BY <1>5, <1>6

LEMMA InsertLineStep ==
  ASSUME JournalInv, NEW c \in Callers, InsertLine(c)
  PROVE  JournalInv'
<1>1. PICK was : was = cur[c]
  OBVIOUS
<1>2. MemoryHolds("line", was) /\ IsMemory(was) /\ pc[c] = "line"
  BY <1>1, KnownAt DEF InsertLine, At
<1>3. PICK j, lines, rest, key :
        j = was.recid /\ lines = journals[j].lines /\ rest = was.lines /\ key = journals[j].key
  OBVIOUS
<1>4. /\ j \in DOMAIN journals /\ rest \in Seq(Int) /\ rest # <<>>
      /\ Collects(j) \/ Part(lines \o rest, key)
      /\ (was.op = "reverse" => Reverses(was.original, key))
  BY <1>2, <1>3 DEF MemoryHolds, IsMemory
<1>5. /\ Shapes /\ Len(journals) \in Nat /\ DOMAIN journals = 1 .. Len(journals)
      /\ journals[j] \in JournalRow /\ key \in PostingKey /\ lines \in Seq(Int)
  BY <1>3, <1>4, Lengths DEF JournalInv
<1>6. PICK more, left : more = Append(lines, Head(rest)) /\ left = Tail(rest)
  OBVIOUS
<1>7. /\ more \in Seq(Int) /\ left \in Seq(Int) /\ more \o left = lines \o rest
      /\ \E first \in Seq(Int) : more = lines \o first
  BY <1>4, <1>5, <1>6, AppendedLines
<1>8. PICK row : row = [journals[j] EXCEPT !.lines = more]
  OBVIOUS
<1>9. /\ row \in JournalRow /\ row.key = key /\ row.lines = more
      /\ row.status = journals[j].status /\ row.reversed_by = journals[j].reversed_by
  BY <1>3, <1>5, <1>7, <1>8 DEF JournalRow
<1>10. journals' = [journals EXCEPT ![j] = row] /\ LinesLeft(c, j, left) /\ UNCHANGED <<period, calls, failures>>
  BY <1>1, <1>3, <1>6, <1>8 DEF InsertLine, At, counters
<1>11. /\ journals' \in Seq(JournalRow) /\ Len(journals') = Len(journals)
       /\ \A i \in 1 .. Len(journals) : journals'[i] = IF i = j THEN row ELSE journals[i]
  BY <1>4, <1>5, <1>9, <1>10, ExceptSeq DEF Shapes
<1>12. DOMAIN journals' = DOMAIN journals
  BY <1>5, <1>11, LenProperties
<1>13. journals'[j] = row /\ \A i \in DOMAIN journals : i # j => journals'[i] = journals[i]
  BY <1>4, <1>5, <1>11
<1>14. \A i \in DOMAIN journals : journals'[i].key = journals[i].key
  BY <1>3, <1>9, <1>13
<1>15. Whole(j) => Whole(j)'
  <2>1. BalancedOnce(lines) => BalancedOnce(more)
    BY <1>5, <1>7, BalancedOnceKept
  <2> QED BY <1>3, <1>9, <1>13, <2>1 DEF Whole
<1>16. \A i \in DOMAIN journals : Whole(i) => Whole(i)'
  <2> SUFFICES ASSUME NEW i \in DOMAIN journals, Whole(i) PROVE Whole(i)'
    OBVIOUS
  <2>1. CASE i = j
    BY <1>15, <2>1
  <2>2. CASE i # j
    BY <1>13, <2>2 DEF Whole
  <2> QED BY <2>1, <2>2
<1>17. Keeps
  BY <1>5, <1>11, <1>14, <1>16 DEF Keeps
<1>18. RowHolds(j)'
  <2>1. RowHolds(j)
    BY <1>4 DEF JournalInv
  <2>2. /\ journals'[j].lines = more /\ journals'[j].key = key /\ (Collects(j)' <=> Collects(j))
        /\ journals'[j].status = journals[j].status /\ journals'[j].reversed_by = journals[j].reversed_by
    BY <1>3, <1>9, <1>13 DEF Collects
  <2>3. Collects(j) \/ Part(more, key)
    BY <1>4, <1>7, PartBefore
  <2>4. Collects(j)' \/ Part(journals'[j].lines, journals'[j].key)
    BY <2>2, <2>3
  <2>5. InBooks(j)' => Whole(j)'
    BY <1>4, <1>16, <2>1, <2>2 DEF InBooks, RowHolds
  <2>6. ASSUME journals[j].status = Reversed
        PROVE  /\ journals[j].reversed_by \in DOMAIN journals'
               /\ journals'[journals[j].reversed_by].key = ReversalKey(key)
               /\ Whole(journals[j].reversed_by)'
    <3>1. PICK by \in DOMAIN journals : /\ by = journals[j].reversed_by /\ Whole(by)
                                        /\ journals[by].key = ReversalKey(key)
      BY <1>3, <2>1, <2>6 DEF RowHolds
    <3>2. Whole(by)' /\ journals'[by].key = journals[by].key /\ by \in DOMAIN journals'
      BY <1>12, <1>14, <1>16, <3>1
    <3>3. by = journals'[j].reversed_by
      BY <2>2, <3>1
    <3> QED BY <3>1, <3>2, <3>3 DEF Whole, Collects
  <2> QED BY <2>2, <2>4, <2>5, <2>6 DEF RowHolds
<1>19. \A i \in DOMAIN journals' : RowHolds(i)'
  <2> SUFFICES ASSUME NEW i \in DOMAIN journals, i # j PROVE RowHolds(i)'
    BY <1>12, <1>18
  <2>1. RowHolds(i) /\ journals'[i] = journals[i]
    BY <1>13 DEF JournalInv
  <2> QED BY <1>5, <1>17, <2>1, RowKept
<1>20. \A i \in DOMAIN journals :
         journals'[i].lines = journals[i].lines \/ Collects(i) \/ Writes(c, i)
  BY <1>1, <1>2, <1>3, <1>13 DEF Writes
<1>21. j \in DOMAIN journals' /\ (j \notin DOMAIN journals \/ Collects(j) \/ Writes(c, j))
  BY <1>1, <1>2, <1>3, <1>4, <1>12 DEF Writes
<1>22. Collects(j)' \/ Part(journals'[j].lines \o left, journals'[j].key)
  BY <1>3, <1>4, <1>7, <1>9, <1>13 DEF Collects
<1>23. was.op = "reverse" => Reverses(was.original, journals[j].key)'
  <2> SUFFICES ASSUME was.op = "reverse" PROVE Reverses(was.original, journals[j].key)'
    OBVIOUS
  <2>1. /\ was.original \in DOMAIN journals /\ key = ReversalKey(journals[was.original].key)
        /\ Whole(was.original)
    BY <1>4 DEF Reverses
  <2>2. /\ was.original \in DOMAIN journals' /\ journals'[was.original].key = journals[was.original].key
        /\ Whole(was.original)'
    BY <1>12, <1>14, <1>16, <2>1
  <2>3. journals'[j].key = key
    BY <1>9, <1>13
  <2> QED BY <2>1, <2>2, <2>3 DEF Reverses
<1> QED BY <1>1, <1>2, <1>7, <1>10, <1>17, <1>19, <1>20, <1>21, <1>22, <1>23, LinesLeftStep

-----------------------------------------------------------------------------
(* The invariant *)

LEMMA InitHolds == Init => JournalInv
<1> SUFFICES ASSUME Init PROVE JournalInv
  OBVIOUS
<1>1. Len(journals) = 0 /\ DOMAIN journals = {} /\ journals \in Seq(JournalRow)
  BY EmptySeq DEF Init
<1>2. \A c \in Callers : pc[c] = "idle" /\ cur[c] = Nothing
  BY DEF Init
<1>3. IsMemory(Nothing)
  BY <1>1 DEF IsMemory, Nothing, Operating
<1>4. MemoryHolds("idle", Nothing)
  BY DEF MemoryHolds, Posting, Marking, Writing, Reversing
<1>5. Shapes
  BY <1>1, <1>2, <1>3, JournalAssumption DEF Init, Shapes, Steps
<1>6. \A c \in Callers : MemoryHolds(pc[c], cur[c])
  BY <1>2, <1>4
<1> QED BY <1>1, <1>5, <1>6 DEF JournalInv

LEMMA NextHolds == JournalInv /\ [Next]_vars => JournalInv'
<1> SUFFICES ASSUME JournalInv, [Next]_vars PROVE JournalInv'
  OBVIOUS
<1>1. CASE UNCHANGED vars
  BY <1>1 DEF vars, JournalInv, Shapes, IsMemory, RowHolds, MemoryHolds, Reverses, Writes,
              Collects, Whole, InBooks, Part
<1>2. ASSUME NEW c \in Callers, NEW k \in Keys, NEW op \in {"create", "system"}, Create(c, op, k)
      PROVE  JournalInv'
  BY <1>2, CreateStep
<1>3. ASSUME NEW c \in Callers, Lookup(c) \/ Insert(c) \/ InsertLine(c)
      PROVE  JournalInv'
  BY <1>3, LookupStep, InsertStep, InsertLineStep
<1>4. ASSUME NEW c \in Callers, PostRead(c) \/ PostPeriod(c) \/ PostLines(c) \/ PostWrite(c)
      PROVE  JournalInv'
  BY <1>4, PostReadStep, PostPeriodStep, PostLinesStep, PostWriteStep
<1>5. ASSUME NEW c \in Callers, NEW j \in DOMAIN journals,
             Submit(c, j) \/ Approve(c, j) \/ Reject(c, j) \/ ReverseJournal(c, j) \/ AppendTo(c, j)
      PROVE  JournalInv'
  <2>1. CASE Submit(c, j)
    BY <2>1, OpensStep DEF Submit
  <2>2. CASE Approve(c, j)
    BY <2>2, OpensStep DEF Approve
  <2>3. CASE Reject(c, j)
    BY <2>3, OpensStep DEF Reject
  <2>4. CASE ReverseJournal(c, j)
    BY <2>4, OpensStep DEF ReverseJournal
  <2>5. CASE AppendTo(c, j)
    BY <2>5, AppendToStep
  <2> QED BY <1>5, <2>1, <2>2, <2>3, <2>4, <2>5
<1>6. ASSUME NEW c \in Callers, SubmitLines(c) \/ SubmitWrite(c) \/ RejectWrite(c)
      PROVE  JournalInv'
  BY <1>6, SubmitLinesStep, SubmitWriteStep, RejectWriteStep
<1>7. ASSUME NEW c \in Callers,
             ReversePeriod(c) \/ ReverseLines(c) \/ MarkOriginal(c) \/ MarkReversal(c)
      PROVE  JournalInv'
  BY <1>7, ReversePeriodStep, ReverseLinesStep, MarkOriginalStep, MarkReversalStep
<1>8. ASSUME NEW c \in Callers, NEW p \in Periods,
             CloseCheck(c, p) \/ ReopenPeriod(c, p) \/ LockPeriod(c, p) \/ UnlockPeriod(c, p)
      PROVE  JournalInv'
  <2>1. CASE CloseCheck(c, p)
    BY <2>1, CloseCheckStep
  <2>2. CASE ReopenPeriod(c, p)
    BY <2>2, MovePeriodStep DEF ReopenPeriod
  <2>3. CASE LockPeriod(c, p)
    BY <2>3, MovePeriodStep DEF LockPeriod
  <2>4. CASE UnlockPeriod(c, p)
    BY <2>4, MovePeriodStep DEF UnlockPeriod
  <2> QED BY <1>8, <2>1, <2>2, <2>3, <2>4
<1>9. ASSUME NEW c \in Callers, CloseWrite(c) \/ Fail(c)
      PROVE  JournalInv'
  BY <1>9, CloseWriteStep, FailStep
<1> QED BY <1>1, <1>2, <1>3, <1>4, <1>5, <1>6, <1>7, <1>8, <1>9 DEF Next

\* The invariant holds in every state the finance module's journal calls reach.
THEOREM InvHolds == Spec => []JournalInv
<1>1. Init => JournalInv
  BY InitHolds
<1>2. JournalInv /\ [Next]_vars => JournalInv'
  BY NextHolds
<1> QED BY <1>1, <1>2, PTL DEF Spec

\* Every journal in the books balanced and, where the lines tell, has all the lines of
\* its event, and a reversed one names the reversal that cancels it, however many calls
\* write, post and reverse journals at once and wherever they are cut short
\* (post_journal, reverse_journal).
THEOREM BooksSound == Spec => []BooksAreSound
<1>1. JournalInv => TypeOK
  BY DEF JournalInv, Shapes, IsMemory, TypeOK
<1>2. ASSUME JournalInv PROVE PostedIsComplete
  <2> SUFFICES ASSUME NEW j \in DOMAIN journals, InBooks(j), journals[j].key[1] \notin Collecting,
                      NEW lines, lines = journals[j].lines, NEW key, key = journals[j].key
               PROVE  /\ BalancedOnce(lines) /\ IsPrefix(lines, LinesWith(key))
                      /\ key[1] \in Telling => lines = LinesWith(key)
    BY DEF PostedIsComplete
  <2>1. Part(lines, key) /\ BalancedOnce(lines)
    BY <1>2 DEF JournalInv, RowHolds, Collects, Whole
  <2>2. key \in PostingKey /\ lines \in Seq(Int)
    BY <1>2, Lengths DEF JournalInv
  <2>3. PICK rest \in Seq(Int) : lines \o rest = LinesWith(key)
    BY <2>1 DEF Part
  <2>4. Len(lines \o rest) = Len(lines) + Len(rest) /\ Len(lines) \in Nat /\ Len(rest) \in Nat
    BY <2>2, ConcatProperties, LenProperties
  <2>5. Len(lines) \in 1 .. Len(lines)
    BY <2>1, <2>4 DEF BalancedOnce
  <2>6. SubSeq(lines \o rest, 1, Len(lines)) = SubSeq(lines, 1, Len(lines))
    BY <2>2, <2>5, FirstLines
  <2>7. IsPrefix(lines, LinesWith(key))
    BY <2>3, <2>4, <2>6 DEF IsPrefix
  <2> QED BY <2>1, <2>2, <2>7, BalancedIsWhole
<1>3. ASSUME JournalInv PROVE ReversedIsCancelled
  <2> SUFFICES ASSUME NEW j \in DOMAIN journals, journals[j].status = Reversed,
                      NEW by, by = journals[j].reversed_by, NEW key, key = journals[j].key
               PROVE  /\ by \in DOMAIN journals /\ journals[by].key = ReversalKey(key)
                      /\ BalancedOnce(journals[by].lines)
                      /\ key[1] \in Telling \ Collecting => journals[by].lines = Negated(journals[j].lines)
    BY DEF ReversedIsCancelled
  <2>1. RowHolds(j) /\ InBooks(j)
    BY <1>3 DEF JournalInv, InBooks
  <2>2. by \in DOMAIN journals /\ journals[by].key = ReversalKey(key) /\ BalancedOnce(journals[by].lines)
    BY <2>1 DEF RowHolds, Whole
  <2>3. ASSUME key[1] \in Telling \ Collecting PROVE journals[by].lines = Negated(journals[j].lines)
    <3>1. PICK mine, its, rev : mine = journals[j].lines /\ its = journals[by].lines /\ rev = ReversalKey(key)
      OBVIOUS
    <3>2. key \in PostingKey /\ rev \in PostingKey /\ mine \in Seq(Int) /\ its \in Seq(Int) /\ rev[1] = key[1]
      BY <1>3, <2>2, <3>1, Lengths DEF JournalInv, ReversalKey
    <3>3. Part(mine, key) /\ BalancedOnce(mine)
      BY <2>1, <2>3, <3>1 DEF RowHolds, Collects, Whole
    <3>4. Part(its, rev) /\ BalancedOnce(its)
      <4>1. RowHolds(by)
        BY <1>3, <2>2 DEF JournalInv
      <4> QED BY <2>2, <2>3, <3>1, <3>2, <4>1 DEF RowHolds, Collects
    <3>5. mine = LinesWith(key) /\ its = LinesWith(rev)
      BY <2>3, <3>2, <3>3, <3>4, BalancedIsWhole
    <3> QED BY <3>1, <3>2, <3>5, ReversalLines
  <2> QED BY <2>2, <2>3
<1>4. JournalInv => BooksAreSound
  BY <1>1, <1>2, <1>3 DEF BooksAreSound
<1> QED BY <1>4, InvHolds, PTL

-----------------------------------------------------------------------------
(* Lines that are yet to be written *)

\* What a caller that is there with that memory has yet to write to journal j.
Pending(step, m, j) == IF step = "line" /\ m.recid = j THEN SumFunction(m.lines) ELSE 0

PendingOf(j) == [c \in Callers |-> Pending(pc[c], cur[c], j)]

\* The lines that are to be inserted balance, and those that journals have balance
\* with those that callers have yet to write to them.
BalanceInv ==
  /\ \A c \in Callers : pc[c] = "insert" => Balanced(cur[c].lines)
  /\ failures = 0 => \A j \in DOMAIN journals :
                       SumFunction(journals[j].lines) + SumFunctionOnSet(PendingOf(j), Callers) = 0

OthersStay(c) == \A d \in Callers \ {c} : pc'[d] = pc[d] /\ cur'[d] = cur[d]

LEMMA PendingInt ==
  ASSUME Shapes
  PROVE  \A c \in Callers : \A j : PendingOf(j)[c] \in Int
<1> SUFFICES ASSUME NEW c \in Callers, NEW j PROVE PendingOf(j)[c] \in Int
  OBVIOUS
<1>1. cur[c].lines \in Seq(Int)
  BY DEF Shapes, IsMemory
<1>2. SumFunction(cur[c].lines) \in Int
  BY <1>1, SumSeqInt
<1> QED BY <1>2 DEF PendingOf, Pending

\* The sum over the writers of a journal is that of what is pending.
LEMMA WritersPend ==
  ASSUME Shapes, NEW j
  PROVE  SumFunctionOnSet([c \in Callers |-> SumFunction(cur[c].lines)],
                          {c \in Callers : pc[c] = "line" /\ cur[c].recid = j})
           = SumFunctionOnSet(PendingOf(j), Callers)
<1> DEFINE writers == {c \in Callers : pc[c] = "line" /\ cur[c].recid = j}
           f == [c \in Callers |-> SumFunction(cur[c].lines)]
           p == PendingOf(j)
<1>1. IsFiniteSet(Callers) /\ IsFiniteSet(writers) /\ writers \in SUBSET Callers
  BY JournalAssumption, FS_Subset
<1>2. \A c \in writers : f[c] = p[c]
  BY DEF PendingOf, Pending
<1>3. \A c \in Callers \ writers : p[c] = 0
  BY DEF PendingOf, Pending
<1>4. \A c \in Callers : p[c] \in Int
  BY PendingInt
<1> HIDE DEF writers, f, p
<1>5. SumFunctionOnSet(f, writers) = SumFunctionOnSet(p, writers)
  BY <1>1, <1>2, SumSame
<1>6. SumFunctionOnSet(p, Callers) = SumFunctionOnSet(p, writers)
  BY <1>1, <1>3, <1>4, SumRestricted
<1> QED BY <1>5, <1>6 DEF writers, f, p

LEMMA BalanceKept ==
  ASSUME Shapes, Shapes', BalanceInv, NEW c \in Callers, OthersStay(c),
         pc'[c] = "insert" => Balanced(cur'[c].lines),
         failures' = 0 => failures = 0,
         failures = 0 => \A j \in DOMAIN journals' :
           SumFunction(journals'[j].lines) + Pending(pc'[c], cur'[c], j)
             = IF j \in DOMAIN journals
               THEN SumFunction(journals[j].lines) + Pending(pc[c], cur[c], j) ELSE 0
  PROVE  BalanceInv'
<1>1. ASSUME NEW d \in Callers, pc'[d] = "insert" PROVE Balanced(cur'[d].lines)
  BY <1>1 DEF BalanceInv, OthersStay
<1>2. ASSUME failures' = 0, NEW j \in DOMAIN journals'
      PROVE  SumFunction(journals'[j].lines) + SumFunctionOnSet(PendingOf(j)', Callers) = 0
  <2> DEFINE p == PendingOf(j)
             q == PendingOf(j)'
  <2>1. \A d \in Callers : p[d] \in Int /\ q[d] \in Int
    <3>1. \A d \in Callers : p[d] \in Int
      BY PendingInt
    <3>2. ASSUME NEW d \in Callers PROVE q[d] \in Int
      <4>1. cur'[d].lines \in Seq(Int)
        BY DEF Shapes, IsMemory
      <4>2. SumFunction(cur'[d].lines) \in Int
        BY <4>1, SumSeqInt
      <4> QED BY <4>2 DEF PendingOf, Pending
    <3> QED BY <3>1, <3>2
  <2>2. \A d \in Callers \ {c} : p[d] = q[d]
    BY DEF PendingOf, OthersStay
  <2>3. p[c] = Pending(pc[c], cur[c], j) /\ q[c] = Pending(pc'[c], cur'[c], j)
    BY DEF PendingOf
  <2>4. IsFiniteSet(Callers)
    BY JournalAssumption
  <2>5. \A d \in Callers : j \notin DOMAIN journals => p[d] = 0
    <3>1. j \in 1 .. Len(journals') /\ DOMAIN journals = 1 .. Len(journals) /\ Len(journals) \in Nat
      BY Lengths, LenProperties, <1>2 DEF Shapes
    <3>2. \A d \in Callers : cur[d].recid \in 0 .. Len(journals)
      BY DEF Shapes, IsMemory
    <3> QED BY <3>1, <3>2 DEF PendingOf, Pending
  <2> HIDE DEF p, q
  <2>6. SumFunctionOnSet(q, Callers) = SumFunctionOnSet(p, Callers) + (q[c] - p[c])
    BY <2>1, <2>2, <2>4, SumChanged
  <2>7. SumFunctionOnSet(p, Callers) \in Int
    BY <2>1, <2>4, SumInt
  <2>8. SumFunction(journals'[j].lines) \in Int
    <3>1. journals' \in Seq(JournalRow)
      BY DEF Shapes
    <3>2. journals'[j] \in JournalRow
      BY <1>2, <3>1, ElementOfSeq, LenProperties
    <3>3. journals'[j].lines \in Seq(Int)
      BY <3>2 DEF JournalRow
    <3> QED BY <3>3, SumSeqInt
  <2>9. CASE j \in DOMAIN journals
    <3>1. SumFunction(journals[j].lines) + SumFunctionOnSet(p, Callers) = 0
      BY <1>2, <2>9 DEF BalanceInv, p
    <3>2. SumFunction(journals[j].lines) \in Int
      BY <2>9, Lengths, SumSeqInt
    <3>3. SumFunction(journals'[j].lines) + q[c] = SumFunction(journals[j].lines) + p[c]
      BY <1>2, <2>3, <2>9
    <3>4. p[c] \in Int /\ q[c] \in Int
      BY <2>1
    <3> QED BY <2>6, <2>7, <2>8, <3>1, <3>2, <3>3, <3>4 DEF q
  <2>10. CASE j \notin DOMAIN journals
    <3>1. SumFunctionOnSet(p, Callers) = 0
      BY <2>4, <2>5, <2>10, SumZero
    <3>2. SumFunction(journals'[j].lines) + q[c] = 0
      BY <1>2, <2>3, <2>10
    <3>3. p[c] = 0 /\ q[c] \in Int
      BY <2>1, <2>5, <2>10
    <3> QED BY <2>6, <2>8, <3>1, <3>2, <3>3 DEF q
  <2> QED BY <2>9, <2>10
<1> QED BY <1>1, <1>2 DEF BalanceInv

\* A step that leaves the lines alone, by a caller that does not write lines.
LEMMA BalanceAside ==
  ASSUME Shapes, Shapes', BalanceInv, NEW c \in Callers, OthersStay(c),
         pc[c] # "line", pc'[c] # "line", pc'[c] = "insert" => Balanced(cur'[c].lines),
         failures' = 0 => failures = 0, DOMAIN journals' = DOMAIN journals,
         \A j \in DOMAIN journals : journals'[j].lines = journals[j].lines
  PROVE  BalanceInv'
<1>1. \A j \in DOMAIN journals :
        SumFunction(journals'[j].lines) + Pending(pc'[c], cur'[c], j)
          = SumFunction(journals[j].lines) + Pending(pc[c], cur[c], j)
  BY DEF Pending
<1> QED BY <1>1, BalanceKept

LEMMA StatusOnly ==
  ASSUME Shapes, NEW j, NEW status, NEW reversed_by, NEW reversal_of,
         SetStatus(j, status, reversed_by, reversal_of)
  PROVE  /\ DOMAIN journals' = DOMAIN journals
         /\ \A i \in DOMAIN journals : journals'[i].lines = journals[i].lines
<1>1. \A i \in DOMAIN journals : journals[i] \in JournalRow
  BY Lengths
<1> QED BY <1>1 DEF SetStatus, JournalRow

\* The caller goes where no lines are written.
LEMMA MovesAside ==
  ASSUME Shapes, NEW c \in Callers, NEW step, Goes(c, step), \A d \in Callers \ {c} : cur'[d] = cur[d]
  PROVE  OthersStay(c) /\ pc'[c] = step
BY DEF Shapes, Goes, OthersStay

LEMMA EndsAside ==
  ASSUME Shapes, NEW c \in Callers, Ends(c)
  PROVE  OthersStay(c) /\ pc'[c] = "idle"
<1>1. \A d \in Callers \ {c} : cur'[d] = cur[d]
  BY DEF Ends, Shapes
<1> QED BY <1>1, MovesAside DEF Ends

LEMMA CheckAside ==
  ASSUME Shapes, NEW c \in Callers, NEW holds, NEW step, Check(c, holds, step)
  PROVE  OthersStay(c) /\ pc'[c] \in {"idle", step}
BY MovesAside, EndsAside DEF Check

\* The steps that write no lines.
LEMMA BalanceOthers ==
  ASSUME Shapes, Shapes', BalanceInv, NEW c \in Callers,
         \/ \E k \in Keys, op \in {"create", "system"} : Create(c, op, k)
         \/ PostRead(c) \/ PostPeriod(c) \/ PostLines(c) \/ PostWrite(c)
         \/ \E j \in DOMAIN journals : Submit(c, j) \/ Approve(c, j) \/ Reject(c, j) \/ ReverseJournal(c, j)
         \/ SubmitLines(c) \/ SubmitWrite(c) \/ RejectWrite(c)
         \/ ReversePeriod(c) \/ ReverseLines(c) \/ MarkOriginal(c) \/ MarkReversal(c)
         \/ \E p \in Periods : CloseCheck(c, p)
         \/ CloseWrite(c)
  PROVE  BalanceInv'
<1>1. failures' = failures
  BY DEF Create, PostRead, PostPeriod, PostLines, PostWrite, Submit, Approve, Reject, ReverseJournal, SubmitLines,
         SubmitWrite, RejectWrite, ReversePeriod, ReverseLines, MarkOriginal, MarkReversal, CloseCheck, CloseWrite,
         Opens, Starts, At, counters
<1>2. DOMAIN journals' = DOMAIN journals /\ \A j \in DOMAIN journals : journals'[j].lines = journals[j].lines
  <2>1. journals' = journals \/ \E j, status, by, of : SetStatus(j, status, by, of)
    BY DEF Create, PostRead, PostPeriod, PostLines, PostWrite, Submit, Approve, Reject, ReverseJournal, SubmitLines,
           SubmitWrite, RejectWrite, ReversePeriod, ReverseLines, MarkOriginal, MarkReversal, CloseCheck, CloseWrite,
           Opens
  <2> QED BY <2>1, StatusOnly
<1>3. pc[c] # "line"
  BY DEF Create, PostRead, PostPeriod, PostLines, PostWrite, Submit, Approve, Reject, ReverseJournal, SubmitLines,
         SubmitWrite, RejectWrite, ReversePeriod, ReverseLines, MarkOriginal, MarkReversal, CloseCheck, CloseWrite,
         Opens, Starts, At
<1>4. ASSUME OthersStay(c), pc'[c] \notin {"line", "insert"} PROVE BalanceInv'
  BY <1>1, <1>2, <1>3, <1>4, BalanceAside
<1>5. CASE \/ PostRead(c) \/ PostPeriod(c) \/ PostLines(c) \/ SubmitLines(c) \/ ReversePeriod(c)
  BY <1>4, <1>5, CheckAside DEF PostRead, PostPeriod, PostLines, SubmitLines, ReversePeriod
<1>6. CASE SubmitWrite(c) \/ RejectWrite(c) \/ MarkReversal(c) \/ CloseWrite(c)
  BY <1>4, <1>6, EndsAside DEF SubmitWrite, RejectWrite, MarkReversal, CloseWrite
<1>7. CASE PostWrite(c)
  <2>1. Ends(c) \/ \A d \in Callers \ {c} : cur'[d] = cur[d]
    BY <1>7 DEF PostWrite, Shapes
  <2> QED BY <1>4, <1>7, <2>1, EndsAside, MovesAside DEF PostWrite
<1>8. CASE MarkOriginal(c)
  <2>1. Ends(c) \/ \A d \in Callers \ {c} : cur'[d] = cur[d]
    BY <1>8 DEF MarkOriginal, Shapes
  <2> QED BY <1>4, <1>8, <2>1, EndsAside, MovesAside DEF MarkOriginal
<1>9. CASE ReverseLines(c)
  <2>1. Ends(c) \/ \A d \in Callers \ {c} : cur'[d] = cur[d]
    BY <1>9 DEF ReverseLines, Shapes
  <2> QED BY <1>4, <1>9, <2>1, EndsAside, MovesAside DEF ReverseLines
<1>10. ASSUME NEW k, NEW op, Create(c, op, k) PROVE BalanceInv'
  <2>1. \A d \in Callers \ {c} : cur'[d] = cur[d]
    BY <1>10 DEF Create, Shapes
  <2>2. PICK step \in {"lookup"} : Goes(c, step)
    BY <1>10 DEF Create
  <2>3. OthersStay(c) /\ pc'[c] = step
    BY <2>1, <2>2, MovesAside
  <2> QED BY <1>4, <2>2, <2>3
<1>11. ASSUME NEW j, Submit(c, j) \/ Approve(c, j) \/ Reject(c, j) \/ ReverseJournal(c, j) PROVE BalanceInv'
  <2>1. \A d \in Callers \ {c} : cur'[d] = cur[d]
    BY <1>11 DEF Submit, Approve, Reject, ReverseJournal, Opens, Shapes
  <2>2. PICK step \in {"submit_lines", "post", "reject_write", "reverse_period"} : Goes(c, step)
    BY <1>11 DEF Submit, Approve, Reject, ReverseJournal, Opens
  <2>3. OthersStay(c) /\ pc'[c] = step
    BY <2>1, <2>2, MovesAside
  <2> QED BY <1>4, <2>2, <2>3
<1>12. ASSUME NEW p, CloseCheck(c, p) PROVE BalanceInv'
  <2>1. \A d \in Callers \ {c} : cur'[d] = cur[d]
    BY <1>12 DEF CloseCheck, Shapes
  <2>2. PICK step \in {"close"} : Goes(c, step)
    BY <1>12 DEF CloseCheck
  <2>3. OthersStay(c) /\ pc'[c] = step
    BY <2>1, <2>2, MovesAside
  <2> QED BY <1>4, <2>2, <2>3
<1> QED BY <1>5, <1>6, <1>7, <1>8, <1>9, <1>10, <1>11, <1>12

\* A period is moved, or a call is cut short.
LEMMA BalanceNoCall ==
  ASSUME Shapes, Shapes', BalanceInv, UNCHANGED <<journals, pc, cur, failures>>
  PROVE  BalanceInv'
BY DEF BalanceInv, PendingOf, Pending

LEMMA BalanceFails ==
  ASSUME Shapes, Shapes', BalanceInv, NEW c \in Callers, Fail(c)
  PROVE  BalanceInv'
<1>1. failures' # 0
  BY DEF Fail, Shapes
<1>2. OthersStay(c) /\ pc'[c] = "idle"
  BY EndsAside DEF Fail
<1> QED BY <1>1, <1>2 DEF BalanceInv, OthersStay

LEMMA LookupBalances ==
  ASSUME Shapes, Shapes', BalanceInv, NEW c \in Callers, Lookup(c)
  PROVE  BalanceInv'
<1>1. pc[c] = "lookup" /\ journals' = journals /\ failures' = failures
  BY DEF Lookup, At, counters
<1>2. ASSUME OthersStay(c), pc'[c] # "line", pc'[c] = "insert" => Balanced(cur'[c].lines) PROVE BalanceInv'
  BY <1>1, <1>2, BalanceAside
<1>3. CASE Check(c, Balanced(cur[c].lines), "insert")
  <2>1. CASE Balanced(cur[c].lines)
    BY <1>2, <1>3, <2>1, MovesAside DEF Check
  <2>2. CASE ~Balanced(cur[c].lines)
    BY <1>2, <1>3, <2>2, EndsAside DEF Check
  <2> QED BY <2>1, <2>2
<1>4. ASSUME NEW j, IF cur[c].op = "create" THEN Ends(c) ELSE Goes(c, "post") /\ cur' = [cur EXCEPT ![c].recid = j]
      PROVE  BalanceInv'
  <2>1. CASE Ends(c)
    BY <1>2, <2>1, EndsAside
  <2>2. CASE Goes(c, "post") /\ cur' = [cur EXCEPT ![c].recid = j]
    <3>1. \A d \in Callers \ {c} : cur'[d] = cur[d]
      BY <2>2 DEF Shapes
    <3> QED BY <1>2, <2>2, <3>1, MovesAside
  <2> QED BY <1>4, <2>1, <2>2
<1> QED BY <1>3, <1>4 DEF Lookup

LEMMA PairBalances == SumFunction(<<1, -1>>) = 0
<1> DEFINE s == <<1, -1>>
           t == <<-1>>
<1>1. s \in Seq(Int) /\ s # <<>> /\ Head(s) = 1
  OBVIOUS
<1>2. Tail(s) = t
  <2>1. Tail(s) \in Seq(Int) /\ Len(Tail(s)) = 1 /\ Tail(s)[1] = s[2]
    BY <1>1, HeadTailProperties
  <2>2. Tail(s) = [i \in 1 .. 1 |-> Tail(s)[i]] /\ t = [i \in 1 .. 1 |-> -1] /\ s[2] = -1
    BY <2>1
  <2> QED BY <2>1, <2>2
<1>3. t \in Seq(Int) /\ t # <<>> /\ Head(t) = -1 /\ Tail(t) = <<>>
  OBVIOUS
<1> HIDE DEF s, t
<1>4. SumFunction(s) = Head(s) + SumFunction(Tail(s)) /\ SumFunction(t) = Head(t) + SumFunction(Tail(t))
  BY <1>1, <1>3, SumTail
<1>5. SumFunction(s) = 1 + (-1 + 0)
  BY <1>1, <1>2, <1>3, <1>4, SumSeqEmpty
<1> QED BY <1>5 DEF s

\* A purchase begins to write a pair of lines that balance.
LEMMA AppendToBalances ==
  ASSUME Shapes, Shapes', BalanceInv, NEW c \in Callers, NEW j \in DOMAIN journals, AppendTo(c, j)
  PROVE  BalanceInv'
<1>1. pc[c] = "idle" /\ journals' = journals /\ failures' = failures /\ Goes(c, "line")
  BY DEF AppendTo, Starts
<1>2. \A d \in Callers \ {c} : cur'[d] = cur[d]
  BY DEF AppendTo, Shapes
<1>3. OthersStay(c) /\ pc'[c] = "line"
  BY <1>1, <1>2, MovesAside
<1>4. cur'[c].lines = <<1, -1>>
  <2>1. cur'[c] = [Nothing EXCEPT !.op = "append", !.recid = j, !.lines = <<1, -1>>]
    BY DEF AppendTo, Shapes
  <2> QED BY <2>1 DEF Nothing
<1>5. \A i \in DOMAIN journals : Pending(pc'[c], cur'[c], i) = 0 /\ Pending(pc[c], cur[c], i) = 0
  BY <1>1, <1>3, <1>4, PairBalances DEF Pending
<1> QED BY <1>1, <1>3, <1>5, BalanceKept

\* The lines left are pending: the journal they are left for is the caller's.
LEMMA LeftPends ==
  ASSUME Shapes, NEW c \in Callers, NEW j, NEW rest, LinesLeft(c, j, rest)
  PROVE  /\ OthersStay(c) /\ pc'[c] # "insert"
         /\ \A i : Pending(pc'[c], cur'[c], i) = IF i = j THEN SumFunction(rest) ELSE 0
<1>1. CASE rest = <<>> /\ cur[c].op \in {"create", "append"}
  <2>1. OthersStay(c) /\ pc'[c] = "idle"
    BY <1>1, EndsAside DEF LinesLeft
  <2> QED BY <1>1, <2>1, SumSeqEmpty DEF Pending
<1>2. CASE ~(rest = <<>> /\ cur[c].op \in {"create", "append"})
  <2>1. \A d \in Callers \ {c} : cur'[d] = cur[d]
    BY <1>2 DEF LinesLeft, Shapes
  <2>2. cur'[c] = [cur[c] EXCEPT !.recid = j, !.lines = rest]
    BY <1>2 DEF LinesLeft, Shapes
  <2>3. cur'[c].recid = j /\ cur'[c].lines = rest
    BY <2>2 DEF Shapes, IsMemory
  <2>4. CASE rest = <<>>
    <3>1. OthersStay(c) /\ pc'[c] = "post"
      BY <1>2, <2>1, <2>4, MovesAside DEF LinesLeft
    <3> QED BY <2>4, <3>1, SumSeqEmpty DEF Pending
  <2>5. CASE rest # <<>>
    <3>1. OthersStay(c) /\ pc'[c] = "line"
      BY <1>2, <2>1, <2>5, MovesAside DEF LinesLeft
    <3> QED BY <2>3, <3>1 DEF Pending
  <2> QED BY <2>4, <2>5
<1> QED BY <1>1, <1>2

\* A journal is written with all its lines to come.
LEMMA InsertBalances ==
  ASSUME Shapes, Shapes', BalanceInv, NEW c \in Callers, Insert(c)
  PROVE  BalanceInv'
<1>1. pc[c] = "insert" /\ failures' = failures
  BY DEF Insert, At, counters
<1>2. CASE WithKey(cur[c].key) # {}
  BY <1>1, <1>2, EndsAside, BalanceAside DEF Insert
<1>3. CASE WithKey(cur[c].key) = {}
  <2> DEFINE row == [key |-> cur[c].key, status |-> Draft, lines |-> <<>>, reversed_by |-> 0, reversal_of |-> 0]
  <2>1. PICK rest, n : rest = cur[c].lines /\ n = Len(journals) + 1
    OBVIOUS
  <2>2. journals' = Append(journals, row) /\ LinesLeft(c, n, rest)
    BY <1>3, <2>1 DEF Insert
  <2>3. row.lines = <<>>
    OBVIOUS
  <2>4. SumFunction(rest) = 0
    BY <1>1, <2>1 DEF BalanceInv, Balanced
  <2>5. /\ Len(journals) \in Nat /\ DOMAIN journals = 1 .. Len(journals)
        /\ DOMAIN journals' = 1 .. n
        /\ journals'[n] = row /\ \A i \in DOMAIN journals : journals'[i] = journals[i]
    <3> HIDE DEF row
    <3>1. Len(journals) \in Nat /\ DOMAIN journals = 1 .. Len(journals)
      BY Lengths
    <3>2. Len(journals') = n /\ journals' \in Seq(JournalRow)
      BY <2>1, <2>2 DEF Shapes
    <3>3. journals'[n] = row /\ \A i \in 1 .. Len(journals) : journals'[i] = journals[i]
      BY <2>1, <2>2, <3>1 DEF Shapes
    <3> QED BY <3>1, <3>2, <3>3, LenProperties
  <2> HIDE DEF row
  <2>6. \A i : Pending(pc'[c], cur'[c], i) = 0 /\ Pending(pc[c], cur[c], i) = 0
    BY <1>1, <2>2, <2>4, LeftPends DEF Pending
  <2>7. \A i \in DOMAIN journals' :
          SumFunction(journals'[i].lines) + Pending(pc'[c], cur'[c], i)
            = IF i \in DOMAIN journals
              THEN SumFunction(journals[i].lines) + Pending(pc[c], cur[c], i) ELSE 0
    <3> TAKE i \in DOMAIN journals'
    <3>1. CASE i \in DOMAIN journals
      BY <2>5, <2>6, <3>1
    <3>2. CASE i \notin DOMAIN journals
      <4>1. i = n
        BY <2>1, <2>5, <3>2
      <4>2. SumFunction(journals'[i].lines) = 0
        BY <2>3, <2>5, <4>1, SumSeqEmpty
      <4> QED BY <2>6, <3>2, <4>2
    <3> QED BY <3>1, <3>2
  <2>8. OthersStay(c) /\ pc'[c] # "insert"
    BY <2>2, LeftPends
  <2> QED BY <1>1, <2>7, <2>8, BalanceKept
<1> QED BY <1>2, <1>3

\* A line that was pending is written.
LEMMA LineBalances ==
  ASSUME JournalInv, Shapes', BalanceInv, NEW c \in Callers, InsertLine(c)
  PROVE  BalanceInv'
<1>1. PICK j, rest, lines : j = cur[c].recid /\ rest = cur[c].lines /\ lines = journals[j].lines
  OBVIOUS
<1>2. /\ pc[c] = "line" /\ failures' = failures
      /\ journals' = [journals EXCEPT ![j].lines = Append(@, Head(rest))] /\ LinesLeft(c, j, Tail(rest))
  BY <1>1 DEF InsertLine, At, counters
<1>3. /\ Shapes /\ j \in DOMAIN journals /\ rest \in Seq(Int) /\ rest # <<>>
  BY <1>1, KnownAt DEF InsertLine, JournalInv, MemoryHolds, IsMemory
<1>4. journals[j] \in JournalRow /\ lines \in Seq(Int)
  BY <1>1, <1>3, Lengths
<1>5. Head(rest) \in Int /\ Tail(rest) \in Seq(Int)
  BY <1>3, HeadTailProperties
<1>6. /\ DOMAIN journals' = DOMAIN journals
      /\ journals'[j].lines = Append(lines, Head(rest))
      /\ \A i \in DOMAIN journals : i # j => journals'[i] = journals[i]
  BY <1>1, <1>2, <1>3, <1>4 DEF JournalRow
<1>7. /\ SumFunction(Append(lines, Head(rest))) = SumFunction(lines) + Head(rest)
      /\ SumFunction(rest) = Head(rest) + SumFunction(Tail(rest))
      /\ SumFunction(lines) \in Int /\ SumFunction(Tail(rest)) \in Int
  BY <1>3, <1>4, <1>5, SumAppend, SumTail, SumSeqInt
<1>8. /\ OthersStay(c) /\ pc'[c] # "insert"
      /\ \A i : Pending(pc'[c], cur'[c], i) = IF i = j THEN SumFunction(Tail(rest)) ELSE 0
  BY <1>2, <1>3, LeftPends
<1>9. \A i : Pending(pc[c], cur[c], i) = IF i = j THEN SumFunction(rest) ELSE 0
  BY <1>1, <1>2 DEF Pending
<1>10. \A i \in DOMAIN journals' :
         SumFunction(journals'[i].lines) + Pending(pc'[c], cur'[c], i)
           = SumFunction(journals[i].lines) + Pending(pc[c], cur[c], i)
  <2> TAKE i \in DOMAIN journals'
  <2>1. CASE i = j
    <3>1. \A a, b, h \in Int : (a + h) + b = a + (h + b)
      OBVIOUS
    <3>2. (SumFunction(lines) + Head(rest)) + SumFunction(Tail(rest)) = SumFunction(lines) + SumFunction(rest)
      BY <1>5, <1>7, <3>1
    <3>3. SumFunction(journals'[i].lines) = SumFunction(lines) + Head(rest)
      BY <1>6, <1>7, <2>1
    <3> QED BY <1>1, <1>8, <1>9, <2>1, <3>2, <3>3
  <2>2. CASE i # j
    BY <1>6, <1>8, <1>9, <2>2
  <2> QED BY <2>1, <2>2
<1> QED BY <1>2, <1>3, <1>6, <1>8, <1>10, BalanceKept

LEMMA BalanceStep ==
  ASSUME JournalInv, JournalInv', BalanceInv, [Next]_vars
  PROVE  BalanceInv'
<1>1. Shapes /\ Shapes'
  BY DEF JournalInv
<1>2. CASE UNCHANGED vars
  BY <1>1, <1>2, BalanceNoCall DEF vars
<1>3. ASSUME NEW c \in Callers, NEW p \in Periods, ReopenPeriod(c, p) \/ LockPeriod(c, p) \/ UnlockPeriod(c, p)
      PROVE  BalanceInv'
  <2>1. UNCHANGED <<journals, pc, cur, failures>>
    BY <1>3 DEF ReopenPeriod, LockPeriod, UnlockPeriod, MovePeriod, Starts
  <2> QED BY <1>1, <2>1, BalanceNoCall
<1>4. ASSUME NEW c \in Callers, Lookup(c) \/ Insert(c) \/ InsertLine(c) \/ Fail(c)
      PROVE  BalanceInv'
  BY <1>1, <1>4, LookupBalances, InsertBalances, LineBalances, BalanceFails
<1>5. ASSUME NEW c \in Callers, NEW j \in DOMAIN journals, AppendTo(c, j)
      PROVE  BalanceInv'
  BY <1>1, <1>5, AppendToBalances
<1> QED BY <1>1, <1>2, <1>3, <1>4, <1>5, BalanceOthers DEF Next

\* The lines a journal has and the lines that calls have yet to write to it balance,
\* however many calls write to it at once, as long as none is cut short; for any
\* callers, events, lines and bounds (create_journal, _append_balanced_journal_lines).
THEOREM JournalsBalance == Spec => []BalancesInTheEnd
<1>1. Init => BalanceInv
  <2>1. DOMAIN <<>> = {}
    OBVIOUS
  <2> QED BY <2>1 DEF Init, BalanceInv
<1>2. JournalInv /\ JournalInv' /\ BalanceInv /\ [Next]_vars => BalanceInv'
  BY BalanceStep
<1>3. ASSUME JournalInv, BalanceInv PROVE BalancesInTheEnd
  <2> SUFFICES ASSUME failures = 0, NEW j \in DOMAIN journals
               PROVE  SumFunction(journals[j].lines)
                        + SumFunctionOnSet([c \in Callers |-> SumFunction(cur[c].lines)],
                                           {c \in Callers : pc[c] = "line" /\ cur[c].recid = j}) = 0
    BY DEF BalancesInTheEnd
  <2>1. Shapes
    BY <1>3 DEF JournalInv
  <2> QED BY <1>3, <2>1, WritersPend DEF BalanceInv
<1> QED BY <1>1, <1>2, <1>3, InvHolds, PTL DEF Spec
=============================================================================
