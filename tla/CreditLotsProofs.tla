------------------------------ MODULE CreditLotsProofs ------------------------------
(***************************************************************************)
(* Proofs about CreditLots, for every finite set of callers, every set of    *)
(* offers and needs and every bound: the lots account for every credit, and  *)
(* once all calls have returned the deferred revenue, the events and the     *)
(* wallet agree with the lots.                                               *)
(*                                                                           *)
(* The invariant says of each account how far it is behind the lots by what  *)
(* the calls still at work have in their hands: a purchase that has not been *)
(* posted, credits taken whose event is not written, a wallet yet to be set. *)
(***************************************************************************)
EXTENDS CreditLots, Sums

-----------------------------------------------------------------------------
(* Credits taken *)

Pair == (Nat \ {0}) \X (Nat \ {0})

\* What a call takes from lot l, one number per lot it has taken from.
FromLot(taken, l) == [i \in DOMAIN taken |-> IF taken[i][1] = l THEN taken[i][2] ELSE 0]

\* And the revenue it stands for, at the prices of the lots ls.
Worth(taken, ls) == [i \in DOMAIN taken |-> taken[i][2] * ls[taken[i][1]].price]

LEMMA PairOf ==
  ASSUME NEW taken \in Seq(Pair), NEW i \in DOMAIN taken
  PROVE  taken[i] = <<taken[i][1], taken[i][2]>> /\ taken[i][1] \in Nat \ {0} /\ taken[i][2] \in Nat \ {0}
<1>1. taken[i] \in Pair
  BY LenProperties, ElementOfSeq
<1> QED BY <1>1 DEF Pair

\* The products of prices and credits.
LEMMA Product == \A a, b \in Nat : a * b \in Nat
OBVIOUS

LEMMA UnitPriceNat ==
  ASSUME NEW offer \in Offers
  PROVE  UnitPrice(offer) \in Nat
<1>1. offer.credits \in Nat /\ offer.paid \in Nat
  BY CreditLotsAssumption
<1>2. \A a \in Nat, b \in Nat \ {0} : a \div b \in Nat
  OBVIOUS
<1>3. 2 * offer.paid + offer.credits \in Nat /\ (offer.credits > 0 => 2 * offer.credits \in Nat \ {0})
  BY <1>1
<1> QED BY <1>1, <1>2, <1>3 DEF UnitPrice

\* Rounding to four places adds at most 0.00005 and takes away less.
LEMMA RoundedNear == \A a \in Nat : Round4(a) \in Nat /\ Round4(a) <= a + 5 /\ a <= Round4(a) + 5
<1>1. \A a \in Nat : /\ (a + 5) \div 10 \in Nat /\ 10 * ((a + 5) \div 10) <= a + 5
                   /\ a <= 10 * ((a + 5) \div 10) + 5
  OBVIOUS
<1> QED BY <1>1 DEF Round4

LEMMA FromLotIsSeq ==
  ASSUME NEW taken \in Seq(Pair), NEW l
  PROVE  /\ FromLot(taken, l) \in Seq(Nat) /\ FromLot(taken, l) \in Seq(Int)
         /\ Len(FromLot(taken, l)) = Len(taken)
         /\ IsFiniteSet(DOMAIN FromLot(taken, l))
<1>1. DOMAIN taken = 1 .. Len(taken) /\ Len(taken) \in Nat
  BY LenProperties
<1>2. \A i \in DOMAIN taken : (IF taken[i][1] = l THEN taken[i][2] ELSE 0) \in Nat
  BY PairOf
<1>3. FromLot(taken, l) \in [1 .. Len(taken) -> Nat]
  BY <1>1, <1>2 DEF FromLot
<1>4. FromLot(taken, l) \in Seq(Nat) /\ Len(FromLot(taken, l)) = Len(taken)
  BY <1>1, <1>3
<1>5. FromLot(taken, l) \in Seq(Int)
  BY <1>4, SeqMonotonic
<1>6. DOMAIN FromLot(taken, l) = 1 .. Len(taken)
  BY <1>3
<1>7. IsFiniteSet(1 .. Len(taken))
  BY <1>1, Numbers
<1> QED BY <1>4, <1>5, <1>6, <1>7

LEMMA CreditsTakenNat ==
  ASSUME NEW taken \in Seq(Pair), NEW l
  PROVE  /\ CreditsTaken(taken, l) \in Nat
         /\ \A i \in DOMAIN taken : taken[i][1] = l => CreditsTaken(taken, l) > 0
<1> DEFINE s == FromLot(taken, l)
<1>1. IsFiniteSet(DOMAIN s) /\ DOMAIN s = DOMAIN taken /\ \A i \in DOMAIN s : s[i] \in Nat
  <2>1. IsFiniteSet(DOMAIN s) /\ \A i \in DOMAIN s : s[i] \in Nat
    BY FromLotIsSeq, LenProperties, ElementOfSeq
  <2> QED BY <2>1 DEF FromLot
<1>2. CreditsTaken(taken, l) = SumFunctionOnSet(s, DOMAIN s)
  BY DEF CreditsTaken, FromLot, SumFunction
<1>3. \A i \in DOMAIN taken : taken[i][1] = l => s[i] > 0
  BY PairOf DEF FromLot
<1> HIDE DEF s
<1>4. SumFunctionOnSet(s, DOMAIN s) \in Nat /\ \A i \in DOMAIN s : s[i] <= SumFunctionOnSet(s, DOMAIN s)
  BY <1>1, SumNat, SumAtLeast
<1>5. ASSUME NEW i \in DOMAIN taken, taken[i][1] = l PROVE CreditsTaken(taken, l) > 0
  BY <1>1, <1>2, <1>3, <1>4, <1>5
<1> QED BY <1>2, <1>4, <1>5

\* A call that has taken nothing from a lot.
LEMMA NothingTaken ==
  ASSUME NEW taken \in Seq(Pair), NEW l, \A i \in DOMAIN taken : taken[i][1] # l
  PROVE  CreditsTaken(taken, l) = 0
<1> DEFINE s == FromLot(taken, l)
<1>1. IsFiniteSet(DOMAIN s)
  BY FromLotIsSeq
<1>2. \A i \in DOMAIN s : s[i] = 0
  BY DEF FromLot
<1>3. CreditsTaken(taken, l) = SumFunctionOnSet(s, DOMAIN s)
  BY DEF CreditsTaken, FromLot, SumFunction
<1> HIDE DEF s
<1> QED BY <1>1, <1>2, <1>3, SumZero

LEMMA EmptyTaken == <<>> \in Seq(Pair) /\ \A l : CreditsTaken(<<>>, l) = 0
<1>1. <<>> \in Seq(Pair) /\ DOMAIN <<>> = {}
  OBVIOUS
<1>2. ASSUME NEW l PROVE CreditsTaken(<<>>, l) = 0
  BY <1>1, NothingTaken
<1> QED BY <1>1, <1>2

LEMMA TakenAppended ==
  ASSUME NEW taken \in Seq(Pair), NEW k \in Nat \ {0}, NEW n \in Nat \ {0}, NEW l
  PROVE  CreditsTaken(Append(taken, <<k, n>>), l) = CreditsTaken(taken, l) + IF k = l THEN n ELSE 0
<1> DEFINE more == Append(taken, <<k, n>>)
           s == FromLot(taken, l)
           t == FromLot(more, l)
<1>0. <<k, n>> \in Pair
  BY DEF Pair
<1>1. /\ more \in Seq(Pair) /\ Len(more) = Len(taken) + 1 /\ more[Len(taken) + 1] = <<k, n>>
      /\ \A i \in 1 .. Len(taken) : more[i] = taken[i]
  BY <1>0, AppendProperties
<1>2. Len(taken) \in Nat /\ DOMAIN taken = 1 .. Len(taken) /\ DOMAIN more = 1 .. Len(taken) + 1
  BY <1>1, LenProperties
<1> HIDE DEF more
<1>3. s \in Seq(Int) /\ t \in Seq(Int) /\ Len(s) = Len(taken) /\ Len(t) = Len(taken) + 1
  BY <1>1, FromLotIsSeq
<1>4. \A i \in 1 .. Len(taken) : t[i] = s[i]
  BY <1>1, <1>2 DEF FromLot
<1>5. t[Len(taken) + 1] = IF k = l THEN n ELSE 0
  BY <1>1, <1>2 DEF FromLot
<1>6. CreditsTaken(more, l) = SumFunction(t) /\ CreditsTaken(taken, l) = SumFunction(s)
  BY DEF CreditsTaken, FromLot
<1> HIDE DEF s, t
<1>7. SumFunction(t) = SumFunction(s) + t[Len(s) + 1]
  BY <1>3, <1>4, SumLonger
<1> QED BY <1>3, <1>5, <1>6, <1>7 DEF more

LEMMA TakenShortened ==
  ASSUME NEW taken \in Seq(Pair), taken # <<>>, NEW l
  PROVE  /\ Tail(taken) \in Seq(Pair) /\ Len(Tail(taken)) = Len(taken) - 1
         /\ \A i \in DOMAIN Tail(taken) : i + 1 \in DOMAIN taken /\ Tail(taken)[i] = taken[i + 1]
         /\ 1 \in DOMAIN taken /\ Head(taken) = taken[1]
         /\ CreditsTaken(taken, l) = (IF taken[1][1] = l THEN taken[1][2] ELSE 0) + CreditsTaken(Tail(taken), l)
<1> DEFINE less == Tail(taken)
           s == FromLot(taken, l)
           t == FromLot(less, l)
<1>1. PICK n \in Nat : Len(taken) = n + 1
  <2>1. Len(taken) \in Nat /\ Len(taken) # 0
    BY LenProperties, EmptySeq
  <2>2. Len(taken) - 1 \in Nat /\ Len(taken) = (Len(taken) - 1) + 1
    BY <2>1
  <2> QED BY <2>2
<1>2. /\ less \in Seq(Pair) /\ Len(less) = n
      /\ \A i \in 1 .. n : less[i] = taken[i + 1]
  BY <1>1, HeadTailProperties
<1>3. DOMAIN taken = 1 .. n + 1 /\ DOMAIN less = 1 .. n
  BY <1>1, <1>2, LenProperties
<1>4. Head(taken) = taken[1] /\ 1 \in DOMAIN taken /\ \A i \in 1 .. n : i + 1 \in DOMAIN taken
  BY <1>3
<1> HIDE DEF less
<1>5. s \in Seq(Int) /\ t \in Seq(Int) /\ Len(s) = n + 1 /\ Len(t) = n
  BY <1>1, <1>2, FromLotIsSeq
<1>6. \A i \in 1 .. n : t[i] = s[i + 1]
  BY <1>2, <1>3, <1>4 DEF FromLot
<1>7. s[1] = IF taken[1][1] = l THEN taken[1][2] ELSE 0
  BY <1>4 DEF FromLot
<1>8. CreditsTaken(less, l) = SumFunction(t) /\ CreditsTaken(taken, l) = SumFunction(s)
  BY DEF CreditsTaken, FromLot
<1> HIDE DEF s, t
<1>9. SumFunction(s) = s[1] + SumFunction(t)
  BY <1>5, <1>6, SumShorter
<1>10. CreditsTaken(taken, l) = (IF taken[1][1] = l THEN taken[1][2] ELSE 0) + CreditsTaken(less, l)
  BY <1>7, <1>8, <1>9
<1>11. Len(less) = Len(taken) - 1
  BY <1>1, <1>2
<1> QED BY <1>2, <1>3, <1>4, <1>10, <1>11 DEF less

RevenueFrom(taken, ls) == SumFunction(Worth(taken, ls))

LEMMA RevenueIsWorth == \A taken : Revenue(taken) = RevenueFrom(taken, lots)
BY DEF Revenue, RevenueFrom, Worth

LEMMA LotFields ==
  ASSUME NEW ls \in Seq(Lot), NEW l \in DOMAIN ls
  PROVE  /\ l \in Nat \ {0} /\ ls[l] \in Lot
         /\ ls[l].original \in Nat /\ ls[l].remaining \in Nat /\ ls[l].price \in Nat /\ ls[l].paid \in Nat
         /\ ls[l].sold \in BOOLEAN /\ ls[l].expired \in BOOLEAN
         /\ ls[l].granted \in Nat /\ ls[l].consumed \in Nat /\ ls[l].lapsed \in Nat /\ ls[l].lost \in Nat
<1>1. DOMAIN ls = 1 .. Len(ls) /\ Len(ls) \in Nat
  BY LenProperties
<1>2. ls[l] \in Lot /\ l \in Nat \ {0}
  BY <1>1, ElementOfSeq
<1> QED BY <1>2 DEF Lot

LEMMA LotsAreFinite ==
  ASSUME NEW ls \in Seq(Lot)
  PROVE  IsFiniteSet(DOMAIN ls) /\ DOMAIN ls = 1 .. Len(ls) /\ Len(ls) \in Nat
<1>1. DOMAIN ls = 1 .. Len(ls) /\ Len(ls) \in Nat
  BY LenProperties
<1>2. IsFiniteSet(1 .. Len(ls))
  BY <1>1, Numbers
<1> QED BY <1>1, <1>2

LEMMA WorthIsSeq ==
  ASSUME NEW ls \in Seq(Lot), NEW taken \in Seq(Pair), \A i \in DOMAIN taken : taken[i][1] \in DOMAIN ls
  PROVE  /\ Worth(taken, ls) \in Seq(Nat) /\ Worth(taken, ls) \in Seq(Int)
         /\ Len(Worth(taken, ls)) = Len(taken)
         /\ RevenueFrom(taken, ls) \in Nat
<1> DEFINE w == Worth(taken, ls)
<1>1. DOMAIN taken = 1 .. Len(taken) /\ Len(taken) \in Nat
  BY LenProperties
<1>2. \A i \in DOMAIN taken : taken[i][2] * ls[taken[i][1]].price \in Nat
  <2> TAKE i \in DOMAIN taken
  <2>1. taken[i][2] \in Nat /\ ls[taken[i][1]].price \in Nat
    BY PairOf, LotFields
  <2> QED BY <2>1, Product
<1>3. w \in [1 .. Len(taken) -> Nat]
  BY <1>1, <1>2 DEF Worth
<1> HIDE DEF w
<1>4. w \in Seq(Nat) /\ Len(w) = Len(taken) /\ DOMAIN w = 1 .. Len(taken)
  BY <1>1, <1>3
<1>5. w \in Seq(Int)
  BY <1>4, SeqMonotonic
<1>6. IsFiniteSet(1 .. Len(taken)) /\ \A i \in 1 .. Len(taken) : w[i] \in Nat
  BY <1>1, <1>3, Numbers
<1>7. SumFunctionOnSet(w, DOMAIN w) \in Nat
  BY <1>4, <1>6, SumNat
<1> QED BY <1>4, <1>5, <1>7 DEF RevenueFrom, SumFunction, w

\* Prices do not change.
LEMMA WorthSame ==
  ASSUME NEW ls, NEW ms, NEW taken, \A i \in DOMAIN taken : ms[taken[i][1]].price = ls[taken[i][1]].price
  PROVE  RevenueFrom(taken, ms) = RevenueFrom(taken, ls)
<1>1. Worth(taken, ms) = Worth(taken, ls)
  BY DEF Worth
<1> QED BY <1>1 DEF RevenueFrom

LEMMA WorthShortened ==
  ASSUME NEW ls \in Seq(Lot), NEW taken \in Seq(Pair), taken # <<>>,
         \A i \in DOMAIN taken : taken[i][1] \in DOMAIN ls
  PROVE  RevenueFrom(taken, ls) = taken[1][2] * ls[taken[1][1]].price + RevenueFrom(Tail(taken), ls)
<1> DEFINE less == Tail(taken)
           s == Worth(taken, ls)
           t == Worth(less, ls)
<1>1. /\ less \in Seq(Pair) /\ Len(less) = Len(taken) - 1
      /\ \A i \in DOMAIN less : i + 1 \in DOMAIN taken /\ less[i] = taken[i + 1]
      /\ 1 \in DOMAIN taken
  <2> HIDE DEF less
  <2>1. \A l : /\ less \in Seq(Pair) /\ Len(less) = Len(taken) - 1
               /\ \A i \in DOMAIN less : i + 1 \in DOMAIN taken /\ less[i] = taken[i + 1]
               /\ 1 \in DOMAIN taken
    BY TakenShortened DEF less
  <2> QED BY <2>1
<1> HIDE DEF less
<1>2. DOMAIN less = 1 .. Len(less) /\ Len(less) \in Nat /\ Len(taken) \in Nat
  BY <1>1, LenProperties
<1>3. \A i \in DOMAIN less : less[i][1] \in DOMAIN ls
  BY <1>1
<1>4. s \in Seq(Int) /\ t \in Seq(Int) /\ Len(s) = Len(taken) /\ Len(t) = Len(less)
  BY <1>1, <1>3, WorthIsSeq
<1>5. \A i \in 1 .. Len(t) : t[i] = s[i + 1]
  BY <1>1, <1>2, <1>4 DEF Worth
<1>6. s[1] = taken[1][2] * ls[taken[1][1]].price
  BY <1>1 DEF Worth
<1>7. Len(s) = Len(t) + 1
  BY <1>1, <1>2, <1>4
<1> HIDE DEF s, t
<1>8. SumFunction(s) = s[1] + SumFunction(t)
  BY <1>4, <1>5, <1>7, SumShorter
<1> QED BY <1>6, <1>8 DEF RevenueFrom, s, t, less

-----------------------------------------------------------------------------
(* Changing a lot *)

LEMMA LotReplaced ==
  ASSUME NEW ls \in Seq(Lot), NEW k \in DOMAIN ls, NEW x \in Lot
  PROVE  /\ [ls EXCEPT ![k] = x] \in Seq(Lot)
         /\ DOMAIN [ls EXCEPT ![k] = x] = DOMAIN ls
         /\ [ls EXCEPT ![k] = x][k] = x
         /\ \A l \in DOMAIN ls \ {k} : [ls EXCEPT ![k] = x][l] = ls[l]
<1>1. DOMAIN ls = 1 .. Len(ls)
  BY LenProperties
<1>2. [ls EXCEPT ![k] = x] \in Seq(Lot) 
  BY <1>1, ExceptSeq
<1> QED BY <1>2

LEMMA LotLosing ==
  ASSUME NEW ls \in Seq(Lot), NEW taken \in Seq(Pair)
  PROVE  /\ Losing(taken, ls) \in Seq(Lot) /\ DOMAIN Losing(taken, ls) = DOMAIN ls
         /\ \A l \in DOMAIN ls :
              Losing(taken, ls)[l] = [ls[l] EXCEPT !.lost = ls[l].lost + CreditsTaken(taken, l)]
         /\ taken = <<>> => Losing(taken, ls) = ls
<1> DEFINE ms == Losing(taken, ls)
<1>1. DOMAIN ls = 1 .. Len(ls) /\ Len(ls) \in Nat
  BY LenProperties
<1>2. DOMAIN ms = DOMAIN ls /\ \A l \in DOMAIN ls : ms[l] = [ls[l] EXCEPT !.lost = ls[l].lost + CreditsTaken(taken, l)]
  BY DEF Losing
<1>3. \A l \in DOMAIN ls : ms[l] \in Lot
  <2> TAKE l \in DOMAIN ls
  <2>1. ls[l] \in Lot /\ ls[l].lost \in Nat /\ CreditsTaken(taken, l) \in Nat
    BY LotFields, CreditsTakenNat
  <2>2. ls[l].lost + CreditsTaken(taken, l) \in Nat
    BY <2>1
  <2> QED BY <1>2, <2>1, <2>2 DEF Lot
<1>4. ms \in [1 .. Len(ls) -> Lot]
  BY <1>1, <1>2, <1>3 DEF Losing
<1>5. ms \in Seq(Lot)
  BY <1>1, <1>4
<1>6. ASSUME taken = <<>> PROVE ms = ls
  <2>1. \A l \in DOMAIN ls : ms[l] = ls[l]
    <3> TAKE l \in DOMAIN ls
    <3>1. ls[l] \in Lot /\ ls[l].lost \in Nat /\ CreditsTaken(taken, l) = 0
      BY <1>6, LotFields, EmptyTaken
    <3>2. ls[l].lost + CreditsTaken(taken, l) = ls[l].lost
      BY <3>1
    <3> QED BY <1>2, <3>1, <3>2 DEF Lot
  <2>2. ls \in [1 .. Len(ls) -> Lot]
    BY LenProperties
  <2> QED BY <1>1, <1>4, <2>1, <2>2
<1> QED BY <1>2, <1>5, <1>6

-----------------------------------------------------------------------------
(* The inductive invariant *)

Steps == {"idle", "grant_event", "append", "take", "journal", "consume_event", "expire",
          "expire_event", "sum", "set"}

Listing == UNION {[L -> Nat \ {0}] : L \in SUBSET (Nat \ {0})}

Call == [op : {"none", "create", "purchase", "consume", "expire"}, listed : Listing, need : Nat,
         taken : Seq(Pair), lot : Nat, read : Nat]

Typed == AccountsTyped /\ pc \in [Callers -> Steps] /\ cur \in [Callers -> Call]

\* What a caller remembers fits where it is.
CallerSound(c) ==
  /\ pc[c] = "idle" => cur[c] = Nothing
  /\ DOMAIN cur[c].listed \subseteq DOMAIN lots
  /\ \A i \in DOMAIN cur[c].taken : cur[c].taken[i][1] \in DOMAIN lots
  /\ pc[c] = "take" => DOMAIN cur[c].listed # {} /\ cur[c].need > 0
  /\ pc[c] \in {"journal", "consume_event"} => cur[c].taken # <<>>
  /\ pc[c] \notin {"take", "journal", "consume_event"} => cur[c].taken = <<>>
  /\ pc[c] \in {"grant_event", "append", "expire", "expire_event"} => cur[c].lot \in DOMAIN lots
  /\ pc[c] = "append" => cur[c].op = "purchase"
  /\ cur[c].op = "purchase" => /\ pc[c] \in {"grant_event", "sum", "set", "append"}
                               /\ cur[c].lot \in DOMAIN lots /\ lots[cur[c].lot].sold

Shapes == /\ \A l \in DOMAIN lots : lots[l].granted <= lots[l].original
          /\ \A c \in Callers : CallerSound(c)

\* The deferred revenue account has what the lots were sold for, but for the
\* purchases that have not got there yet.
Owed(l) == IF lots[l].sold THEN lots[l].paid ELSE 0
Pending(c) == IF cur[c].op = "purchase" THEN lots[cur[c].lot].paid ELSE 0
DeferredKept ==
  failures = 0 => deferred = SumFunction([l \in DOMAIN lots |-> Owed(l)])
                             - SumFunction([c \in Callers |-> Pending(c)])

\* Revenue is recognised for what the events say was consumed and for what they
\* are about to say.
Earned(l) == lots[l].price * lots[l].consumed
Due(c) == IF pc[c] = "consume_event" THEN RevenueFrom(cur[c].taken, lots) ELSE 0
RevenueKept ==
  failures = 0 => revenue = SumFunction([l \in DOMAIN lots |-> Earned(l)])
                            + SumFunction([c \in Callers |-> Due(c)])

\* A lot that has expired has an event for what it had left, or a call is about to
\* write it: it read the credits before they grew less.
Explains(c, l) == pc[c] = "expire_event" /\ cur[c].lot = l /\ cur[c].read >= lots[l].remaining
ExpiryKept ==
  failures = 0 =>
    /\ \A c \in Callers : pc[c] = "expire" => cur[c].read >= lots[cur[c].lot].remaining
    /\ \A l \in DOMAIN lots : lots[l].expired => \/ lots[l].lapsed >= lots[l].remaining
                                                 \/ \E c \in Callers : Explains(c, l)

\* A call that has changed what lots have left has yet to set the wallet.
Owes(c) == \/ pc[c] \in {"grant_event", "journal", "consume_event", "expire_event", "sum", "set"}
           \/ pc[c] = "take" /\ cur[c].taken # <<>>
WalletKept == NothingLost /\ ~outdated => wallet = Total \/ \E c \in Callers : Owes(c)

Inv == /\ Typed /\ Shapes /\ CreditsAreAccountedFor
       /\ DeferredKept /\ RevenueKept /\ ExpiryKept /\ WalletKept

-----------------------------------------------------------------------------
(* A step of one caller *)

\* The others stay where they are, and lots keep what they were created with.
Others(c) == \A d \in Callers \ {c} : pc'[d] = pc[d] /\ cur'[d] = cur[d]

LotsStay == /\ DOMAIN lots \subseteq DOMAIN lots'
            /\ \A l \in DOMAIN lots : /\ lots'[l].original = lots[l].original
                                      /\ lots'[l].price = lots[l].price /\ lots'[l].paid = lots[l].paid
                                      /\ lots'[l].sold = lots[l].sold

LEMMA CallFields ==
  ASSUME Typed, NEW c \in Callers
  PROVE  /\ cur[c] \in Call /\ pc[c] \in Steps
         /\ cur[c].listed \in Listing /\ cur[c].need \in Nat /\ cur[c].taken \in Seq(Pair)
         /\ cur[c].lot \in Nat /\ cur[c].read \in Nat
         /\ lots \in Seq(Lot)
BY DEF Typed, Call, AccountsTyped

LEMMA OthersStaySound ==
  ASSUME Typed, Shapes, NEW c \in Callers, Others(c), LotsStay
  PROVE  \A d \in Callers \ {c} : CallerSound(d)'
<1> TAKE d \in Callers \ {c}
<1>1. pc'[d] = pc[d] /\ cur'[d] = cur[d] /\ CallerSound(d)
  BY DEF Others, Shapes
<1>2. DOMAIN lots \subseteq DOMAIN lots' /\ \A l \in DOMAIN lots : lots'[l].sold = lots[l].sold
  BY DEF LotsStay
<1> QED BY <1>1, <1>2 DEF CallerSound

\* What the lots have given goes up by what the call takes.
LEMMA StaysAccounted ==
  ASSUME Typed, CreditsAreAccountedFor, Typed', NEW c \in Callers, Others(c), NEW l \in DOMAIN lots,
         l \in DOMAIN lots',
         lots'[l].original - lots'[l].remaining - lots'[l].consumed - lots'[l].lost
             - CreditsTaken(cur'[c].taken, l)
           = lots[l].original - lots[l].remaining - lots[l].consumed - lots[l].lost
             - CreditsTaken(cur[c].taken, l),
         IsFiniteSet(Callers)
  PROVE  lots'[l].original - lots'[l].remaining
           = lots'[l].consumed + lots'[l].lost
             + SumFunction([d \in Callers |-> CreditsTaken(cur'[d].taken, l)])
<1> DEFINE f == [d \in Callers |-> CreditsTaken(cur[d].taken, l)]
           g == [d \in Callers |-> CreditsTaken(cur'[d].taken, l)]
<1>1. \A d \in Callers : f[d] \in Nat /\ g[d] \in Nat
  <2> TAKE d \in Callers
  <2>1. cur[d].taken \in Seq(Pair)
    BY CallFields
  <2>2. cur'[d].taken \in Seq(Pair)
    BY DEF Typed, Call
  <2> QED BY <2>1, <2>2, CreditsTakenNat
<1>2. \A d \in Callers \ {c} : f[d] = g[d]
  BY DEF Others
<1>3. /\ lots[l].original \in Nat /\ lots[l].remaining \in Nat /\ lots[l].consumed \in Nat /\ lots[l].lost \in Nat
      /\ lots'[l].original \in Nat /\ lots'[l].remaining \in Nat /\ lots'[l].consumed \in Nat /\ lots'[l].lost \in Nat
  <2>1. lots \in Seq(Lot) /\ lots' \in Seq(Lot)
    BY DEF Typed, AccountsTyped
  <2> QED BY <2>1, LotFields
<1>4. DOMAIN f = Callers /\ DOMAIN g = Callers /\ f[c] = CreditsTaken(cur[c].taken, l) /\ g[c] = CreditsTaken(cur'[c].taken, l)
  OBVIOUS
<1>5. lots[l].original - lots[l].remaining = lots[l].consumed + lots[l].lost + SumFunction(f)
  BY DEF CreditsAreAccountedFor
<1> HIDE DEF f, g
<1>6. SumFunctionOnSet(g, Callers) = SumFunctionOnSet(f, Callers) + (g[c] - f[c])
  BY <1>1, <1>2, SumChanged
<1>7. SumFunctionOnSet(f, Callers) \in Int /\ SumFunctionOnSet(g, Callers) \in Int
  BY <1>1, SumInt
<1>8. SumFunction(f) = SumFunctionOnSet(f, Callers) /\ SumFunction(g) = SumFunctionOnSet(g, Callers)
  BY <1>4 DEF SumFunction
<1>9. \A o, r, k, w, q, s, j, v, a, b, x, y \in Int :
        /\ q - s - j - v - y = o - r - k - w - x
        /\ o - r = k + w + a
        /\ b = a + (y - x)
        => q - s = j + v + b
  OBVIOUS
<1>10. lots'[l].original - lots'[l].remaining = lots'[l].consumed + lots'[l].lost + SumFunction(g)
  BY <1>1, <1>3, <1>4, <1>5, <1>6, <1>7, <1>8, <1>9
<1> QED BY <1>10 DEF g

LEMMA AccountsStay ==
  ASSUME Typed, CreditsAreAccountedFor, Typed', NEW c \in Callers, Others(c),
         DOMAIN lots' = DOMAIN lots,
         \A l \in DOMAIN lots :
           lots'[l].original - lots'[l].remaining - lots'[l].consumed - lots'[l].lost
             - CreditsTaken(cur'[c].taken, l)
           = lots[l].original - lots[l].remaining - lots[l].consumed - lots[l].lost
             - CreditsTaken(cur[c].taken, l)
  PROVE  CreditsAreAccountedFor'
<1>1. IsFiniteSet(Callers)
  BY CreditLotsAssumption
<1>2. ASSUME NEW l \in DOMAIN lots
      PROVE  lots'[l].original - lots'[l].remaining
               = lots'[l].consumed + lots'[l].lost
                 + SumFunction([d \in Callers |-> CreditsTaken(cur'[d].taken, l)])
  BY <1>1, StaysAccounted
<1> QED BY <1>2 DEF CreditsAreAccountedFor

\* No purchase begins or ends.
LEMMA DeferredStays ==
  ASSUME Typed, Shapes, DeferredKept, NEW c \in Callers, Others(c),
         DOMAIN lots' = DOMAIN lots, LotsStay,
         cur'[c].op = "purchase" <=> cur[c].op = "purchase",
         cur[c].op = "purchase" => cur'[c].lot = cur[c].lot,
         deferred' = deferred, failures' = 0 => failures = 0
  PROVE  DeferredKept'
<1>1. [l \in DOMAIN lots |-> Owed(l)]' = [l \in DOMAIN lots |-> Owed(l)]
  <2>1. \A l \in DOMAIN lots : Owed(l)' = Owed(l)
    BY DEF LotsStay, Owed
  <2> QED BY <2>1
<1>2. [d \in Callers |-> Pending(d)]' = [d \in Callers |-> Pending(d)]
  <2>1. ASSUME NEW d \in Callers PROVE Pending(d)' = Pending(d)
    <3>1. cur[d].op = "purchase" => cur[d].lot \in DOMAIN lots
      BY DEF Shapes, CallerSound
    <3>2. cur'[d].op = "purchase" <=> cur[d].op = "purchase"
      BY DEF Others
    <3>3. cur[d].op = "purchase" => cur'[d].lot = cur[d].lot
      BY DEF Others
    <3>4. CASE cur[d].op = "purchase"
      BY <3>1, <3>2, <3>3, <3>4 DEF Pending, LotsStay
    <3>5. CASE cur[d].op # "purchase"
      BY <3>2, <3>5 DEF Pending
    <3> QED BY <3>4, <3>5
  <2> QED BY <2>1
<1> QED BY <1>1, <1>2 DEF DeferredKept

LEMMA DueStays ==
  ASSUME Typed, Shapes, NEW c \in Callers, Others(c), LotsStay
  PROVE  \A d \in Callers \ {c} : Due(d)' = Due(d)
<1> TAKE d \in Callers \ {c}
<1>1. pc'[d] = pc[d] /\ cur'[d] = cur[d]
  BY DEF Others
<1>2. \A i \in DOMAIN cur[d].taken : lots'[cur[d].taken[i][1]].price = lots[cur[d].taken[i][1]].price
  <2>1. \A i \in DOMAIN cur[d].taken : cur[d].taken[i][1] \in DOMAIN lots
    BY DEF Shapes, CallerSound
  <2> QED BY <2>1 DEF LotsStay
<1>3. RevenueFrom(cur[d].taken, lots') = RevenueFrom(cur[d].taken, lots)
  BY <1>2, WorthSame
<1> QED BY <1>1, <1>3 DEF Due

\* No event of a consumption is written, and no call comes to where it writes them.
LEMMA RevenueStays ==
  ASSUME Typed, Shapes, RevenueKept, NEW c \in Callers, Others(c),
         DOMAIN lots' = DOMAIN lots, LotsStay, \A l \in DOMAIN lots : lots'[l].consumed = lots[l].consumed,
         Due(c)' = Due(c),
         revenue' = revenue, failures' = 0 => failures = 0
  PROVE  RevenueKept'
<1>1. [l \in DOMAIN lots |-> Earned(l)]' = [l \in DOMAIN lots |-> Earned(l)]
  <2>1. \A l \in DOMAIN lots : Earned(l)' = Earned(l)
    BY DEF LotsStay, Earned
  <2> QED BY <2>1
<1>2. [d \in Callers |-> Due(d)]' = [d \in Callers |-> Due(d)]
  <2>1. \A d \in Callers \ {c} : Due(d)' = Due(d)
    BY DueStays
  <2>2. \A d \in Callers : Due(d)' = Due(d)
    BY <2>1
  <2> QED BY <2>2
<1> QED BY <1>1, <1>2 DEF RevenueKept

\* No lot expires, and lots have no more left than before.
LEMMA ExpiryStays ==
  ASSUME Typed, Typed', Shapes, ExpiryKept, NEW c \in Callers, Others(c),
         DOMAIN lots' = DOMAIN lots,
         \A l \in DOMAIN lots : /\ lots'[l].expired = lots[l].expired
                                /\ lots'[l].remaining <= lots[l].remaining
                                /\ lots'[l].lapsed >= lots[l].lapsed,
         pc'[c] = "expire" => cur'[c].read >= lots'[cur'[c].lot].remaining,
         pc[c] # "expire_event",
         failures' = 0 => failures = 0
  PROVE  ExpiryKept'
<1>1. SUFFICES ASSUME failures = 0 PROVE ExpiryKept'
  BY DEF ExpiryKept
<1>2. \A l \in DOMAIN lots : /\ lots[l].remaining \in Nat /\ lots'[l].remaining \in Nat
                             /\ lots[l].lapsed \in Nat /\ lots'[l].lapsed \in Nat
  <2>1. lots \in Seq(Lot) /\ lots' \in Seq(Lot)
    BY DEF Typed, AccountsTyped
  <2> QED BY <2>1, LotFields
<1>3. \A d \in Callers : cur[d].read \in Nat
  BY CallFields
<1>4. ASSUME NEW d \in Callers, pc'[d] = "expire" PROVE cur'[d].read >= lots'[cur'[d].lot].remaining
  <2>0. CASE d = c
    BY <1>4, <2>0
  <2>5. SUFFICES ASSUME d # c PROVE cur'[d].read >= lots'[cur'[d].lot].remaining
    BY <2>0
  <2>1. d # c /\ pc[d] = "expire" /\ cur'[d] = cur[d]
    BY <1>4, <2>5 DEF Others
  <2>2. cur[d].lot \in DOMAIN lots /\ cur[d].read >= lots[cur[d].lot].remaining
    BY <1>1, <2>1 DEF Shapes, CallerSound, ExpiryKept
  <2>3. /\ lots'[cur[d].lot].remaining \in Nat /\ lots[cur[d].lot].remaining \in Nat
        /\ lots'[cur[d].lot].remaining <= lots[cur[d].lot].remaining
    BY <1>2, <2>2
  <2>4. cur[d].read >= lots'[cur[d].lot].remaining
    BY <1>3, <2>2, <2>3
  <2> QED BY <2>1, <2>4
<1>5. ASSUME NEW l \in DOMAIN lots', lots'[l].expired
      PROVE  lots'[l].lapsed >= lots'[l].remaining \/ \E d \in Callers : Explains(d, l)'
  <2>1. l \in DOMAIN lots /\ lots[l].expired
    BY <1>5
  <2>4. /\ lots[l].remaining \in Nat /\ lots'[l].remaining \in Nat
        /\ lots[l].lapsed \in Nat /\ lots'[l].lapsed \in Nat
        /\ lots'[l].remaining <= lots[l].remaining /\ lots'[l].lapsed >= lots[l].lapsed
    BY <1>2, <2>1
  <2>2. CASE lots[l].lapsed >= lots[l].remaining
    BY <2>2, <2>4
  <2>3. CASE \E d \in Callers : Explains(d, l)
    <3>1. PICK d \in Callers : Explains(d, l)
      BY <2>3
    <3>2. d # c /\ pc'[d] = pc[d] /\ cur'[d] = cur[d]
      BY <3>1 DEF Explains, Others
    <3>4. pc[d] = "expire_event" /\ cur[d].lot = l /\ cur[d].read >= lots[l].remaining
      BY <3>1 DEF Explains
    <3>5. cur[d].read >= lots'[l].remaining
      BY <1>3, <2>4, <3>4
    <3>3. Explains(d, l)'
      BY <3>2, <3>4, <3>5 DEF Explains
    <3> QED BY <3>3
  <2> QED BY <1>1, <2>1, <2>2, <2>3 DEF ExpiryKept
<1> QED BY <1>4, <1>5 DEF ExpiryKept

\* A step that leaves the wallet alone: what its call changes it owes, and it is
\* not relieved of what it owed.
LEMMA WalletStays ==
  ASSUME WalletKept, NEW c \in Callers, Others(c), wallet' = wallet, outdated' = outdated,
         NothingLost' => NothingLost,
         Owes(c)' \/ (~Owes(c) /\ Total' = Total)
  PROVE  WalletKept'
<1>1. SUFFICES ASSUME NothingLost, ~outdated, ~Owes(c), Total' = Total
               PROVE  wallet' = Total' \/ \E d \in Callers : Owes(d)'
  BY DEF WalletKept
<1>2. CASE wallet = Total
  BY <1>1, <1>2
<1>3. CASE \E d \in Callers : Owes(d)
  <2>1. PICK d \in Callers : Owes(d)
    BY <1>3
  <2>2. d # c /\ pc'[d] = pc[d] /\ cur'[d] = cur[d]
    BY <1>1, <2>1 DEF Others
  <2>3. Owes(d)'
    BY <2>1, <2>2 DEF Owes
  <2> QED BY <2>3
<1> QED BY <1>1, <1>2, <1>3 DEF WalletKept

\* The total is that of the lots' credits left.
LEMMA TotalStays ==
  ASSUME DOMAIN lots' = DOMAIN lots,
         \A l \in DOMAIN lots : lots'[l].expired = lots[l].expired /\ lots'[l].remaining = lots[l].remaining
  PROVE  Total' = Total
<1>1. [l \in DOMAIN lots |-> IF lots[l].expired THEN 0 ELSE lots[l].remaining]'
        = [l \in DOMAIN lots |-> IF lots[l].expired THEN 0 ELSE lots[l].remaining]
  OBVIOUS
<1> QED BY <1>1 DEF Total

LEMMA NothingIsFound ==
  ASSUME Typed, Typed', DOMAIN lots' = DOMAIN lots, \A l \in DOMAIN lots : lots'[l].lost >= lots[l].lost,
         failures' = 0 => failures = 0
  PROVE  NothingLost' => NothingLost
<1>1. \A l \in DOMAIN lots : lots[l].lost \in Nat /\ lots'[l].lost \in Nat
  <2>1. lots \in Seq(Lot) /\ lots' \in Seq(Lot)
    BY DEF Typed, AccountsTyped
  <2> QED BY <2>1, LotFields
<1> QED BY <1>1 DEF NothingLost

\* A call that only moves on, and may record that a lot was granted.
LEMMA QuietBooks ==
  ASSUME Inv, NEW c \in Callers, Typed', Others(c), CallerSound(c)',
         DOMAIN lots' = DOMAIN lots, LotsStay,
         \A l \in DOMAIN lots :
           /\ lots'[l].granted <= lots'[l].original
           /\ lots'[l].expired = lots[l].expired /\ lots'[l].remaining = lots[l].remaining
           /\ lots'[l].consumed = lots[l].consumed /\ lots'[l].lapsed = lots[l].lapsed
           /\ lots'[l].lost = lots[l].lost,
         deferred' = deferred, revenue' = revenue,
         failures' = failures,
         cur'[c].taken = cur[c].taken,
         cur'[c].op = "purchase" <=> cur[c].op = "purchase",
         cur[c].op = "purchase" => cur'[c].lot = cur[c].lot,
         pc[c] # "consume_event" /\ pc'[c] # "consume_event",
         pc'[c] = "expire" => cur'[c].read >= lots'[cur'[c].lot].remaining,
         pc[c] # "expire_event"
  PROVE  Shapes' /\ CreditsAreAccountedFor' /\ DeferredKept' /\ RevenueKept' /\ ExpiryKept'
<1> USE DEF Inv
<1>2. Shapes'
  BY OthersStaySound DEF Shapes
<1>3. CreditsAreAccountedFor'
  <2>1. \A l \in DOMAIN lots :
          lots'[l].original - lots'[l].remaining - lots'[l].consumed - lots'[l].lost
             - CreditsTaken(cur'[c].taken, l)
           = lots[l].original - lots[l].remaining - lots[l].consumed - lots[l].lost
             - CreditsTaken(cur[c].taken, l)
    BY DEF LotsStay
  <2> QED BY <2>1, AccountsStay
<1>4. DeferredKept'
  BY DeferredStays
<1>5. RevenueKept'
  <2>1. Due(c)' = Due(c)
    BY DEF Due
  <2> QED BY <2>1, RevenueStays
<1>6. ExpiryKept'
  <2>1. \A l \in DOMAIN lots : lots[l].remaining \in Nat /\ lots[l].lapsed \in Nat
    BY LotFields DEF Typed, AccountsTyped
  <2>2. \A l \in DOMAIN lots : /\ lots'[l].expired = lots[l].expired
                               /\ lots'[l].remaining <= lots[l].remaining
                               /\ lots'[l].lapsed >= lots[l].lapsed
    BY <2>1
  <2> QED BY <2>2, ExpiryStays
<1> QED BY <1>2, <1>3, <1>4, <1>5, <1>6

LEMMA QuietStep ==
  ASSUME Inv, NEW c \in Callers, Typed', Others(c), CallerSound(c)',
         DOMAIN lots' = DOMAIN lots, LotsStay,
         \A l \in DOMAIN lots :
           /\ lots'[l].granted <= lots'[l].original
           /\ lots'[l].expired = lots[l].expired /\ lots'[l].remaining = lots[l].remaining
           /\ lots'[l].consumed = lots[l].consumed /\ lots'[l].lapsed = lots[l].lapsed
           /\ lots'[l].lost = lots[l].lost,
         wallet' = wallet, outdated' = outdated, deferred' = deferred, revenue' = revenue,
         failures' = failures,
         cur'[c].taken = cur[c].taken,
         cur'[c].op = "purchase" <=> cur[c].op = "purchase",
         cur[c].op = "purchase" => cur'[c].lot = cur[c].lot,
         pc[c] # "consume_event" /\ pc'[c] # "consume_event",
         pc'[c] = "expire" => cur'[c].read >= lots'[cur'[c].lot].remaining,
         pc[c] # "expire_event",
         Owes(c)' \/ ~Owes(c)
  PROVE  Inv'
<1>1. WalletKept /\ Typed
  BY DEF Inv
<1>2. Shapes' /\ CreditsAreAccountedFor' /\ DeferredKept' /\ RevenueKept' /\ ExpiryKept'
  BY QuietBooks
<1>3. WalletKept'
  <2>1. Total' = Total
    BY TotalStays
  <2>2. NothingLost' => NothingLost
    BY DEF NothingLost
  <2> QED BY <1>1, <2>1, <2>2, WalletStays
<1> QED BY <1>2, <1>3 DEF Inv

-----------------------------------------------------------------------------
(* Where a call goes and what it remembers *)

LEMMA Gone ==
  ASSUME Typed, NEW c \in Callers, NEW s \in Steps, Goes(c, s)
  PROVE  pc' \in [Callers -> Steps] /\ pc'[c] = s /\ \A d \in Callers \ {c} : pc'[d] = pc[d]
BY DEF Typed, Goes

LEMMA Remembers ==
  ASSUME Typed, NEW c \in Callers, NEW m \in Call, cur' = [cur EXCEPT ![c] = m]
  PROVE  cur' \in [Callers -> Call] /\ cur'[c] = m /\ \A d \in Callers \ {c} : cur'[d] = cur[d]
BY DEF Typed

LEMMA NothingIsCall ==
  /\ Nothing \in Call /\ Nothing.op = "none" /\ Nothing.taken = <<>> /\ Nothing.listed = <<>>
  /\ DOMAIN Nothing.listed = {} /\ Nothing.need = 0 /\ Nothing.lot = 0 /\ Nothing.read = 0
<1>1. <<>> \in Listing
  <2>1. <<>> \in [{} -> Nat \ {0}]
    OBVIOUS
  <2> QED BY <2>1 DEF Listing
<1>2. <<>> \in Seq(Pair)
  BY EmptyTaken
<1>3. Nothing.listed = <<>> /\ DOMAIN <<>> = {}
  BY DEF Nothing
<1> QED BY <1>1, <1>2, <1>3 DEF Nothing, Call

LEMMA Ended ==
  ASSUME Typed, NEW c \in Callers, Ends(c), DOMAIN lots' = DOMAIN lots
  PROVE  /\ pc' \in [Callers -> Steps] /\ cur' \in [Callers -> Call] /\ Others(c)
         /\ pc'[c] = "idle" /\ cur'[c] = Nothing /\ CallerSound(c)'
<1>1. "idle" \in Steps /\ Goes(c, "idle") /\ cur' = [cur EXCEPT ![c] = Nothing]
  BY DEF Ends, Steps
<1>2. pc' \in [Callers -> Steps] /\ pc'[c] = "idle" /\ \A d \in Callers \ {c} : pc'[d] = pc[d]
  BY <1>1, Gone
<1>3. cur' \in [Callers -> Call] /\ cur'[c] = Nothing /\ \A d \in Callers \ {c} : cur'[d] = cur[d]
  BY <1>1, NothingIsCall, Remembers
<1>4. CallerSound(c)'
  <2>1. DOMAIN Nothing.taken = {}
    BY NothingIsCall
  <2> QED BY <1>2, <1>3, <2>1, NothingIsCall DEF CallerSound
<1> QED BY <1>2, <1>3, <1>4 DEF Others

\* A call that stays with what it remembers.
LEMMA MovedOn ==
  ASSUME Typed, NEW c \in Callers, NEW s \in Steps, Goes(c, s), UNCHANGED cur
  PROVE  /\ pc' \in [Callers -> Steps] /\ cur' \in [Callers -> Call] /\ Others(c)
         /\ pc'[c] = s /\ cur'[c] = cur[c]
<1>1. pc' \in [Callers -> Steps] /\ pc'[c] = s /\ \A d \in Callers \ {c} : pc'[d] = pc[d]
  BY Gone
<1> QED BY <1>1 DEF Typed, Others

LEMMA MovedWith ==
  ASSUME Typed, NEW c \in Callers, NEW s \in Steps, Goes(c, s), NEW m \in Call, cur' = [cur EXCEPT ![c] = m]
  PROVE  /\ pc' \in [Callers -> Steps] /\ cur' \in [Callers -> Call] /\ Others(c)
         /\ pc'[c] = s /\ cur'[c] = m
<1>1. pc' \in [Callers -> Steps] /\ pc'[c] = s /\ \A d \in Callers \ {c} : pc'[d] = pc[d]
  BY Gone
<1>2. cur' \in [Callers -> Call] /\ cur'[c] = m /\ \A d \in Callers \ {c} : cur'[d] = cur[d]
  BY Remembers
<1> QED BY <1>1, <1>2 DEF Others

LEMMA Counts ==
  ASSUME Typed, NEW c, NEW s
  PROVE  /\ At(c, s) => calls' = calls /\ edits' = edits /\ failures' = failures
         /\ Starts(c, s) => /\ calls' \in 0 .. MaxCalls /\ edits' = edits /\ failures' = failures
                            /\ pc[c] = "idle"
         /\ calls \in 0 .. MaxCalls /\ edits \in 0 .. MaxEdits /\ failures \in 0 .. MaxFailures
<1>1. calls \in 0 .. MaxCalls /\ edits \in 0 .. MaxEdits /\ failures \in 0 .. MaxFailures
  BY DEF Typed, AccountsTyped
<1>2. At(c, s) => calls' = calls /\ edits' = edits /\ failures' = failures
  BY DEF At, counters
<1>3. Starts(c, s) => /\ calls' \in 0 .. MaxCalls /\ edits' = edits /\ failures' = failures
                      /\ pc[c] = "idle"
  BY <1>1, CreditLotsAssumption DEF Starts
<1> QED BY <1>1, <1>2, <1>3

-----------------------------------------------------------------------------
(* The steps of create_lot and purchase_product *)

LEMMA CreateLotKeepsInv ==
  ASSUME Inv, NEW c \in Callers, NEW op \in {"create", "purchase"}, NEW offer \in Offers, CreateLot(c, op, offer)
  PROVE  Inv'
<1> DEFINE n == Len(lots) + 1
           x == NewLot(offer, op = "purchase")
           m == [Nothing EXCEPT !.op = op, !.lot = n]
<1>1. Typed /\ Shapes /\ CreditsAreAccountedFor /\ DeferredKept /\ RevenueKept /\ ExpiryKept /\ WalletKept
  BY DEF Inv
<1>2. lots \in Seq(Lot) /\ Len(lots) \in Nat /\ DOMAIN lots = 1 .. Len(lots) /\ IsFiniteSet(DOMAIN lots)
  <2>1. lots \in Seq(Lot)
    BY <1>1 DEF Typed, AccountsTyped
  <2> QED BY <2>1, LotsAreFinite
<1>3. /\ x \in Lot /\ x.original = offer.credits /\ x.price = UnitPrice(offer) /\ x.paid = offer.paid /\ x.remaining = offer.credits
      /\ x.sold = (op = "purchase") /\ x.expired = FALSE
      /\ x.granted = 0 /\ x.consumed = 0 /\ x.lapsed = 0 /\ x.lost = 0
  <2>1. offer.credits \in Nat /\ offer.paid \in Nat /\ UnitPrice(offer) \in Nat
    BY CreditLotsAssumption, UnitPriceNat
  <2>2. (op = "purchase") \in BOOLEAN
    OBVIOUS
  <2> QED BY <2>1, <2>2 DEF NewLot, Lot
<1>4. lots' = Append(lots, x) /\ Goes(c, "grant_event") /\ cur' = [cur EXCEPT ![c] = m]
      /\ wallet' = wallet /\ outdated' = outdated /\ deferred' = deferred /\ revenue' = revenue
      /\ Starts(c, op)
  BY DEF CreateLot, walletVars, books
<1> HIDE DEF x
<1>5. /\ lots' \in Seq(Lot) /\ DOMAIN lots' = 1 .. n /\ lots'[n] = x
      /\ \A l \in DOMAIN lots : lots'[l] = lots[l]
  <2>1. /\ lots' \in Seq(Lot) /\ Len(lots') = n /\ lots'[n] = x /\ \A l \in 1 .. Len(lots) : lots'[l] = lots[l]
    BY <1>2, <1>3, <1>4, AppendProperties
  <2> QED BY <1>2, <2>1, LenProperties
<1>6. m \in Call /\ m.op = op /\ m.lot = n /\ m.taken = <<>> /\ DOMAIN m.listed = {}
  <2>1. n \in Nat
    BY <1>2
  <2> QED BY <2>1, NothingIsCall DEF Call
<1>7. /\ n \in Nat /\ n \notin DOMAIN lots /\ DOMAIN lots' = DOMAIN lots \cup {n}
      /\ n \in DOMAIN lots' /\ DOMAIN lots' \ {n} = DOMAIN lots
  BY <1>2, <1>5
<1> HIDE DEF n, m
<1>8. pc[c] = "idle" /\ cur[c] = Nothing
  BY <1>1, <1>4 DEF Starts, Shapes, CallerSound
<1>9. /\ pc' \in [Callers -> Steps] /\ cur' \in [Callers -> Call] /\ Others(c)
      /\ pc'[c] = "grant_event" /\ cur'[c] = m
  <2>1. "grant_event" \in Steps
    BY DEF Steps
  <2> QED BY <1>1, <1>4, <1>6, <2>1, MovedWith
<1>10. LotsStay /\ failures' = failures
  <2>1. failures' = failures
    BY <1>4 DEF Starts
  <2> QED BY <1>5, <1>7, <2>1 DEF LotsStay
<1>11. Typed'
  <2>1. /\ calls' \in 0 .. MaxCalls /\ edits' = edits /\ failures' = failures
        /\ edits \in 0 .. MaxEdits /\ failures \in 0 .. MaxFailures
    BY <1>1, <1>4, Counts
  <2>2. wallet \in Int /\ deferred \in Nat /\ revenue \in Nat /\ outdated \in BOOLEAN
    BY <1>1 DEF Typed, AccountsTyped
  <2> QED BY <1>4, <1>5, <1>9, <2>1, <2>2 DEF Typed, AccountsTyped
<1>12. Shapes'
  <2>1. CallerSound(c)'
    <3>1. DOMAIN m.taken = {}
      BY <1>6
    <3>2. op = "purchase" => lots'[n].sold
      BY <1>3, <1>5
    <3> QED BY <1>6, <1>7, <1>9, <3>1, <3>2 DEF CallerSound
  <2>2. \A l \in DOMAIN lots' : lots'[l].granted <= lots'[l].original
    <3>1. \A l \in DOMAIN lots : lots'[l].granted <= lots'[l].original
      BY <1>1, <1>5 DEF Shapes
    <3>2. lots'[n].granted <= lots'[n].original
      BY <1>3, <1>5 DEF Lot
    <3> QED BY <1>7, <3>1, <3>2
  <2> QED BY <1>1, <1>9, <1>10, <2>1, <2>2, OthersStaySound DEF Shapes
<1>13. CreditsAreAccountedFor'
  <2>1. ASSUME NEW l \in DOMAIN lots
        PROVE  lots'[l].original - lots'[l].remaining
                 = lots'[l].consumed + lots'[l].lost
                   + SumFunction([d \in Callers |-> CreditsTaken(cur'[d].taken, l)])
    <3>1. lots'[l] = lots[l] /\ cur'[c].taken = cur[c].taken /\ l \in DOMAIN lots'
      BY <1>5, <1>6, <1>7, <1>8, <1>9, NothingIsCall
    <3>2. lots'[l].original - lots'[l].remaining - lots'[l].consumed - lots'[l].lost
             - CreditsTaken(cur'[c].taken, l)
           = lots[l].original - lots[l].remaining - lots[l].consumed - lots[l].lost
             - CreditsTaken(cur[c].taken, l)
      BY <3>1
    <3> QED BY <1>1, <1>9, <1>11, <3>1, <3>2, CreditLotsAssumption, StaysAccounted
  <2>2. lots'[n].original - lots'[n].remaining
          = lots'[n].consumed + lots'[n].lost
            + SumFunction([d \in Callers |-> CreditsTaken(cur'[d].taken, n)])
    <3> DEFINE g == [d \in Callers |-> CreditsTaken(cur'[d].taken, n)]
    <3>1. ASSUME NEW d \in Callers PROVE g[d] = 0
      <4>1. CASE d = c
        BY <1>6, <1>9, <4>1, EmptyTaken
      <4>2. CASE d # c
        <5>1. cur'[d] = cur[d] /\ cur[d].taken \in Seq(Pair)
          BY <1>1, <1>9, <4>2, CallFields DEF Others
        <5>2. \A i \in DOMAIN cur[d].taken : cur[d].taken[i][1] # n
          BY <1>1, <1>7 DEF Shapes, CallerSound
        <5> QED BY <5>1, <5>2, NothingTaken
      <4> QED BY <4>1, <4>2
    <3>2. DOMAIN g = Callers
      OBVIOUS
    <3> HIDE DEF g
    <3>3. SumFunctionOnSet(g, Callers) = 0
      BY <3>1, CreditLotsAssumption, SumZero
    <3>4. SumFunction(g) = 0
      BY <3>2, <3>3 DEF SumFunction
    <3>5. lots'[n].original - lots'[n].remaining = lots'[n].consumed + lots'[n].lost + SumFunction(g)
      <4>1. x.original \in Nat
        BY <1>3 DEF Lot
      <4>2. x.original - x.original = 0 + 0 + 0
        BY <4>1
      <4> QED BY <1>3, <1>5, <3>4, <4>2
    <3> QED BY <3>5 DEF g
  <2> QED BY <1>7, <2>1, <2>2 DEF CreditsAreAccountedFor
<1>14. DeferredKept'
  <2> DEFINE f == [l \in DOMAIN lots |-> Owed(l)]
             fn == [l \in DOMAIN lots' |-> Owed(l)']
             p == [d \in Callers |-> Pending(d)]
             pn == [d \in Callers |-> Pending(d)']
             due == IF op = "purchase" THEN x.paid ELSE 0
  <2>1. due \in Nat
    BY <1>3 DEF Lot
  <2>2. \A l \in DOMAIN lots : f[l] \in Int /\ fn[l] = f[l]
    <3> TAKE l \in DOMAIN lots
    <3>1. lots[l].paid \in Nat
      BY <1>2, LotFields
    <3>2. lots'[l] = lots[l] /\ l \in DOMAIN lots'
      BY <1>5, <1>7
    <3> QED BY <3>1, <3>2 DEF Owed
  <2>3. fn[n] = due
    BY <1>3, <1>5, <1>7 DEF Owed
  <2>4. \A d \in Callers : p[d] \in Int /\ pn[d] \in Int
    <3> TAKE d \in Callers
    <3>1. cur[d].op = "purchase" => cur[d].lot \in DOMAIN lots
      BY <1>1 DEF Shapes, CallerSound
    <3>2. cur[d].op = "purchase" => lots[cur[d].lot].paid \in Nat
      BY <1>2, <3>1, LotFields
    <3>3. cur'[d].op = "purchase" => cur'[d].lot \in DOMAIN lots'
      BY <1>12 DEF Shapes, CallerSound
    <3>4. cur'[d].op = "purchase" => lots'[cur'[d].lot].paid \in Nat
      BY <1>5, <3>3, LotFields
    <3> QED BY <3>2, <3>4 DEF Pending
  <2>5. \A d \in Callers \ {c} : p[d] = pn[d]
    <3> TAKE d \in Callers \ {c}
    <3>1. cur[d].op = "purchase" => cur[d].lot \in DOMAIN lots
      BY <1>1 DEF Shapes, CallerSound
    <3>2. cur'[d] = cur[d]
      BY <1>9 DEF Others
    <3> QED BY <1>5, <3>1, <3>2 DEF Pending
  <2>6. p[c] = 0 /\ pn[c] = due
    BY <1>5, <1>6, <1>8, <1>9, NothingIsCall DEF Pending
  <2>7. DOMAIN f = DOMAIN lots /\ DOMAIN fn = DOMAIN lots' /\ DOMAIN p = Callers /\ DOMAIN pn = Callers
    BY <1>7
  <2>8. (failures = 0 => deferred = SumFunction(f) - SumFunction(p))
        /\ (failures' = 0 /\ deferred' = SumFunction(fn) - SumFunction(pn) => DeferredKept')
    BY <1>1, <1>10 DEF DeferredKept
  <2> HIDE DEF f, fn, p, pn, due
  <2>16. fn[n] \in Int
    BY <2>1, <2>3
  <2>9. SumFunctionOnSet(fn, DOMAIN lots') = SumFunctionOnSet(f, DOMAIN lots) + fn[n]
    BY <1>2, <1>7, <2>2, <2>16, SumGrown
  <2>10. SumFunctionOnSet(pn, Callers) = SumFunctionOnSet(p, Callers) + (pn[c] - p[c])
    BY <2>4, <2>5, CreditLotsAssumption, SumChanged
  <2>11. SumFunctionOnSet(f, DOMAIN lots) \in Int /\ SumFunctionOnSet(p, Callers) \in Int
    BY <1>2, <2>2, <2>4, CreditLotsAssumption, SumInt
  <2>12. SumFunction(fn) = SumFunction(f) + due /\ SumFunction(pn) = SumFunction(p) + due
         /\ SumFunction(f) \in Int /\ SumFunction(p) \in Int
    BY <2>1, <2>3, <2>6, <2>7, <2>9, <2>10, <2>11 DEF SumFunction
  <2>13. \A a, b, e \in Int : a - b = (a + e) - (b + e)
    OBVIOUS
  <2>14. SumFunction(f) - SumFunction(p) = SumFunction(fn) - SumFunction(pn)
    BY <2>1, <2>12, <2>13
  <2>15. failures' # 0 => DeferredKept'
    BY DEF DeferredKept
  <2> QED BY <1>4, <1>10, <2>8, <2>14, <2>15
<1>15. RevenueKept'
  <2> DEFINE f == [l \in DOMAIN lots |-> Earned(l)]
             fn == [l \in DOMAIN lots' |-> Earned(l)']
  <2>1. [d \in Callers |-> Due(d)]' = [d \in Callers |-> Due(d)]
    <3>1. \A d \in Callers \ {c} : Due(d)' = Due(d)
      BY <1>1, <1>9, <1>10, DueStays
    <3>2. Due(c)' = 0 /\ Due(c) = 0
      BY <1>8, <1>9 DEF Due
    <3>3. \A d \in Callers : Due(d)' = Due(d)
      BY <3>1, <3>2
    <3> QED BY <3>3
  <2>2. \A l \in DOMAIN lots : f[l] \in Int /\ fn[l] = f[l]
    <3> TAKE l \in DOMAIN lots
    <3>1. lots[l].price * lots[l].consumed \in Nat
      BY <1>2, LotFields, Product
    <3>2. lots'[l] = lots[l] /\ l \in DOMAIN lots'
      BY <1>5, <1>7
    <3> QED BY <3>1, <3>2 DEF Earned
  <2>3. fn[n] = 0
    <3>1. x.price \in Nat
      BY <1>3 DEF Lot
    <3>2. \A a \in Nat : a * 0 = 0
      OBVIOUS
    <3>3. x.price * x.consumed = 0
      BY <1>3, <3>1, <3>2
    <3> QED BY <1>5, <1>7, <3>3 DEF Earned
  <2>4. DOMAIN f = DOMAIN lots /\ DOMAIN fn = DOMAIN lots'
    BY <1>7
  <2>5. fn = [l \in DOMAIN lots |-> Earned(l)]'
    OBVIOUS
  <2> HIDE DEF f, fn
  <2>6. SumFunctionOnSet(fn, DOMAIN lots') = SumFunctionOnSet(f, DOMAIN lots) + fn[n]
    BY <1>2, <1>7, <2>2, <2>3, SumGrown
  <2>7. SumFunctionOnSet(f, DOMAIN lots) \in Int
    BY <1>2, <2>2, SumInt
  <2>8. SumFunction(fn) = SumFunction(f)
    BY <2>3, <2>4, <2>6, <2>7 DEF SumFunction
  <2>9. failures' = 0 => revenue = SumFunction(f) + SumFunction([d \in Callers |-> Due(d)])
    BY <1>1, <1>10 DEF RevenueKept, f
  <2> QED BY <1>4, <2>1, <2>5, <2>8, <2>9 DEF RevenueKept
<1>16. ExpiryKept'
  <2>1. \A d \in Callers : pc'[d] = "expire" => pc[d] = "expire" /\ cur'[d] = cur[d]
    BY <1>9 DEF Others
  <2>2. \A d \in Callers : pc[d] = "expire" => cur[d].lot \in DOMAIN lots
    BY <1>1 DEF Shapes, CallerSound
  <2>3. failures' = 0 => \A d \in Callers : pc'[d] = "expire" => cur'[d].read >= lots'[cur'[d].lot].remaining
    BY <1>1, <1>5, <1>10, <2>1, <2>2 DEF ExpiryKept
  <2>4. ASSUME NEW l \in DOMAIN lots', lots'[l].expired, failures' = 0
        PROVE  lots'[l].lapsed >= lots'[l].remaining \/ \E d \in Callers : Explains(d, l)'
    <3>1. l \in DOMAIN lots /\ lots'[l] = lots[l]
      BY <1>3, <1>5, <1>7, <2>4
    <3>2. lots[l].lapsed >= lots[l].remaining \/ \E d \in Callers : Explains(d, l)
      BY <1>1, <1>10, <2>4, <3>1 DEF ExpiryKept
    <3>3. ASSUME NEW d \in Callers, Explains(d, l) PROVE Explains(d, l)'
      BY <1>8, <1>9, <3>1, <3>3 DEF Explains, Others
    <3> QED BY <3>1, <3>2, <3>3
  <2> QED BY <2>3, <2>4 DEF ExpiryKept
<1>17. WalletKept'
  <2>1. Owes(c)'
    BY <1>9 DEF Owes
  <2> QED BY <2>1 DEF WalletKept
<1> QED BY <1>11, <1>12, <1>13, <1>14, <1>15, <1>16, <1>17 DEF Inv

LEMMA GrantEventKeepsInv ==
  ASSUME Inv, NEW c \in Callers, GrantEvent(c)
  PROVE  Inv'
<1> DEFINE k == cur[c].lot
           x == [lots[k] EXCEPT !.granted = lots[k].original]
<1>1. Typed /\ Shapes /\ pc[c] = "grant_event" /\ lots \in Seq(Lot)
  BY DEF Inv, Typed, AccountsTyped, GrantEvent, At
<1>2. k \in DOMAIN lots /\ CallerSound(c)
  BY <1>1 DEF Shapes, CallerSound
<1>3. lots[k] \in Lot /\ lots[k].original \in Nat
  BY <1>1, <1>2, LotFields
<1>4. /\ x \in Lot /\ x.granted = x.original /\ x.original = lots[k].original /\ x.remaining = lots[k].remaining
      /\ x.price = lots[k].price /\ x.paid = lots[k].paid /\ x.sold = lots[k].sold /\ x.expired = lots[k].expired
      /\ x.consumed = lots[k].consumed /\ x.lapsed = lots[k].lapsed /\ x.lost = lots[k].lost
  BY <1>3 DEF Lot
<1>5. lots' = [lots EXCEPT ![k] = x] /\ Goes(c, "sum") /\ UNCHANGED cur
      /\ wallet' = wallet /\ outdated' = outdated /\ deferred' = deferred /\ revenue' = revenue
      /\ At(c, "grant_event")
  BY DEF GrantEvent, walletVars, books
<1> HIDE DEF k, x
<1>6. /\ lots' \in Seq(Lot) /\ DOMAIN lots' = DOMAIN lots /\ lots'[k] = x
      /\ \A l \in DOMAIN lots \ {k} : lots'[l] = lots[l]
  BY <1>1, <1>2, <1>4, <1>5, LotReplaced
<1>7. \A l \in DOMAIN lots :
        /\ lots'[l].original = lots[l].original /\ lots'[l].price = lots[l].price /\ lots'[l].paid = lots[l].paid /\ lots'[l].sold = lots[l].sold
        /\ lots'[l].granted <= lots'[l].original
        /\ lots'[l].expired = lots[l].expired /\ lots'[l].remaining = lots[l].remaining
        /\ lots'[l].consumed = lots[l].consumed /\ lots'[l].lapsed = lots[l].lapsed
        /\ lots'[l].lost = lots[l].lost
  <2> TAKE l \in DOMAIN lots
  <2>1. CASE l = k
    BY <1>3, <1>4, <1>6, <2>1
  <2>2. CASE l # k
    BY <1>1, <1>6, <2>2 DEF Shapes
  <2> QED BY <2>1, <2>2
<1>8. /\ pc' \in [Callers -> Steps] /\ cur' \in [Callers -> Call] /\ Others(c)
      /\ pc'[c] = "sum" /\ cur'[c] = cur[c]
  <2>1. "sum" \in Steps
    BY DEF Steps
  <2> QED BY <1>1, <1>5, <2>1, MovedOn
<1>9. calls' = calls /\ edits' = edits /\ failures' = failures
  BY <1>1, <1>5, Counts
<1>10. Typed'
  <2>1. wallet \in Int /\ deferred \in Nat /\ revenue \in Nat /\ outdated \in BOOLEAN
        /\ calls \in 0 .. MaxCalls /\ edits \in 0 .. MaxEdits /\ failures \in 0 .. MaxFailures
    BY <1>1 DEF Typed, AccountsTyped
  <2> QED BY <1>5, <1>6, <1>8, <1>9, <2>1 DEF Typed, AccountsTyped
<1>11. LotsStay
  BY <1>6, <1>7 DEF LotsStay
<1>12. CallerSound(c)'
  BY <1>1, <1>2, <1>6, <1>7, <1>8 DEF CallerSound
<1>13. Owes(c)'
  BY <1>8 DEF Owes
<1>14. pc[c] # "consume_event" /\ pc'[c] # "consume_event" /\ pc'[c] # "expire" /\ pc[c] # "expire_event"
  BY <1>1, <1>8
<1> QED BY <1>5, <1>6, <1>7, <1>8, <1>9, <1>10, <1>11, <1>12, <1>13, <1>14, QuietStep

-----------------------------------------------------------------------------
(* The steps that only write the wallet or the books *)

LEMMA StillTyped ==
  ASSUME Typed, NEW c, NEW s, At(c, s) \/ Starts(c, s),
         pc' \in [Callers -> Steps], cur' \in [Callers -> Call], lots' \in Seq(Lot),
         wallet' \in Int, outdated' \in BOOLEAN, deferred' \in Nat, revenue' \in Nat
  PROVE  Typed' /\ failures' = failures
<1>1. /\ calls' \in 0 .. MaxCalls /\ edits' = edits /\ failures' = failures
      /\ edits \in 0 .. MaxEdits /\ failures \in 0 .. MaxFailures
  BY Counts
<1> QED BY <1>1 DEF Typed, AccountsTyped

LEMMA TypedBooks ==
  ASSUME Typed
  PROVE  /\ lots \in Seq(Lot) /\ wallet \in Int /\ outdated \in BOOLEAN
         /\ deferred \in Nat /\ revenue \in Nat
BY DEF Typed, AccountsTyped

LEMMA AppendPurchaseKeepsInv ==
  ASSUME Inv, NEW c \in Callers, AppendPurchase(c)
  PROVE  Inv'
<1> DEFINE k == cur[c].lot
<1>1. Typed /\ Shapes /\ CreditsAreAccountedFor /\ DeferredKept /\ RevenueKept /\ ExpiryKept /\ WalletKept
  BY DEF Inv
<1>2. /\ At(c, "append") /\ Ends(c) /\ lots' = lots /\ wallet' = wallet /\ outdated' = outdated
      /\ revenue' = revenue /\ pc[c] = "append" /\ deferred' = deferred + lots[k].paid
  BY DEF AppendPurchase, At, walletVars
<1>3. /\ lots \in Seq(Lot) /\ k \in DOMAIN lots /\ cur[c].op = "purchase" /\ cur[c].taken = <<>>
      /\ IsFiniteSet(DOMAIN lots)
  BY <1>1, <1>2, TypedBooks, LotsAreFinite DEF Shapes, CallerSound
<1>4. lots[k].paid \in Nat
  BY <1>3, LotFields
<1>5. /\ pc' \in [Callers -> Steps] /\ cur' \in [Callers -> Call] /\ Others(c)
      /\ pc'[c] = "idle" /\ cur'[c] = Nothing /\ CallerSound(c)'
  BY <1>1, <1>2, Ended
<1>6. Typed' /\ failures' = failures
  <2>1. deferred' \in Nat
    BY <1>1, <1>2, <1>4, TypedBooks
  <2> QED BY <1>1, <1>2, <1>5, <2>1, TypedBooks, StillTyped
<1>7. LotsStay /\ DOMAIN lots' = DOMAIN lots
  BY <1>2 DEF LotsStay
<1>8. Shapes'
  BY <1>1, <1>2, <1>5, <1>7, OthersStaySound DEF Shapes
<1>9. CreditsAreAccountedFor'
  <2>1. cur'[c].taken = cur[c].taken
    BY <1>3, <1>5, NothingIsCall
  <2> QED BY <1>1, <1>2, <1>5, <1>6, <1>7, <2>1, AccountsStay
<1>10. DeferredKept'
  <2> DEFINE f == [l \in DOMAIN lots |-> Owed(l)]
             p == [d \in Callers |-> Pending(d)]
             pn == [d \in Callers |-> Pending(d)']
             due == lots[k].paid
  <2>1. f' = f
    BY <1>2 DEF Owed
  <2>2. \A l \in DOMAIN lots : f[l] \in Int
    <3> TAKE l \in DOMAIN lots
    <3>1. lots[l].paid \in Nat
      BY <1>3, LotFields
    <3> QED BY <3>1 DEF Owed
  <2>3. \A d \in Callers : p[d] \in Int
    <3> TAKE d \in Callers
    <3>1. cur[d].op = "purchase" => cur[d].lot \in DOMAIN lots
      BY <1>1 DEF Shapes, CallerSound
    <3>2. cur[d].op = "purchase" => lots[cur[d].lot].paid \in Nat
      BY <1>3, <3>1, LotFields
    <3> QED BY <3>2 DEF Pending
  <2>4. \A d \in Callers \ {c} : pn[d] = p[d]
    BY <1>2, <1>5 DEF Others, Pending
  <2>5. p[c] = due /\ pn[c] = 0
    BY <1>3, <1>5, NothingIsCall DEF Pending
  <2>6. \A d \in Callers : pn[d] \in Int
    BY <2>3, <2>4, <2>5
  <2>7. DOMAIN f = DOMAIN lots /\ DOMAIN p = Callers /\ DOMAIN pn = Callers
    OBVIOUS
  <2>8. (failures = 0 => deferred = SumFunction(f) - SumFunction(p))
        /\ (failures' = 0 /\ deferred' = SumFunction(f') - SumFunction(pn) => DeferredKept')
        /\ (failures' # 0 => DeferredKept')
    BY <1>1 DEF DeferredKept
  <2>9. due \in Nat /\ deferred' = deferred + due
    BY <1>2, <1>4
  <2> HIDE DEF f, p, pn, due
  <2>10. SumFunctionOnSet(pn, Callers) = SumFunctionOnSet(p, Callers) + (pn[c] - p[c])
    BY <2>3, <2>4, <2>6, CreditLotsAssumption, SumChanged
  <2>11. SumFunctionOnSet(f, DOMAIN lots) \in Int /\ SumFunctionOnSet(p, Callers) \in Int
    BY <1>3, <2>2, <2>3, CreditLotsAssumption, SumInt
  <2>12. SumFunction(pn) = SumFunction(p) - due /\ SumFunction(f) \in Int /\ SumFunction(p) \in Int
    BY <2>5, <2>7, <2>9, <2>10, <2>11 DEF SumFunction
  <2>13. \A a, b, e \in Int : (a - b) + e = a - (b - e)
    OBVIOUS
  <2>14. failures = 0 => deferred' = SumFunction(f') - SumFunction(pn)
    BY <2>1, <2>8, <2>9, <2>12, <2>13
  <2> QED BY <1>6, <2>8, <2>14
<1>11. RevenueKept'
  <2>1. Due(c)' = Due(c)
    BY <1>2, <1>5 DEF Due
  <2> QED BY <1>1, <1>2, <1>5, <1>6, <1>7, <2>1, RevenueStays
<1>12. ExpiryKept'
  <2>1. \A l \in DOMAIN lots : lots'[l].remaining <= lots[l].remaining /\ lots'[l].lapsed >= lots[l].lapsed
    <3>1. \A l \in DOMAIN lots : lots[l].remaining \in Nat /\ lots[l].lapsed \in Nat
      BY <1>3, LotFields
    <3> QED BY <1>2, <3>1
  <2> QED BY <1>1, <1>2, <1>5, <1>6, <1>7, <2>1, ExpiryStays
<1>13. WalletKept'
  <2>1. Total' = Total
    BY <1>2, <1>7, TotalStays
  <2>2. (NothingLost' => NothingLost) /\ ~Owes(c)
    BY <1>2, <1>3, <1>6 DEF NothingLost, Owes
  <2> QED BY <1>1, <1>2, <1>5, <2>1, <2>2, WalletStays
<1> QED BY <1>6, <1>8, <1>9, <1>10, <1>11, <1>12, <1>13 DEF Inv

-----------------------------------------------------------------------------
(* The steps of _sync_wallet, and the administrators *)

LEMMA TotalNat ==
  ASSUME Typed
  PROVE  Total \in Nat
<1> DEFINE f == [l \in DOMAIN lots |-> IF lots[l].expired THEN 0 ELSE lots[l].remaining]
<1>1. lots \in Seq(Lot) /\ IsFiniteSet(DOMAIN lots)
  BY TypedBooks, LotsAreFinite
<1>2. \A l \in DOMAIN lots : f[l] \in Nat
  BY <1>1, LotFields
<1>3. DOMAIN f = DOMAIN lots
  OBVIOUS
<1>4. Total = SumFunction(f)
  BY DEF Total
<1> HIDE DEF f
<1>5. SumFunctionOnSet(f, DOMAIN lots) \in Nat
  BY <1>1, <1>2, SumNat
<1> QED BY <1>3, <1>4, <1>5 DEF SumFunction

LEMMA SumLotsKeepsInv ==
  ASSUME Inv, NEW c \in Callers, SumLots(c)
  PROVE  Inv'
<1> DEFINE m == [cur[c] EXCEPT !.read = Total]
<1>1. Typed /\ Shapes /\ CallerSound(c)
  BY DEF Inv, Shapes
<1>2. /\ At(c, "sum") /\ pc[c] = "sum" /\ Goes(c, "set") /\ cur' = [cur EXCEPT ![c] = m] /\ lots' = lots
      /\ wallet' = wallet /\ outdated' = outdated /\ deferred' = deferred /\ revenue' = revenue
  BY DEF SumLots, At, walletVars, books
<1>3. /\ m \in Call /\ m.taken = cur[c].taken /\ m.op = cur[c].op /\ m.lot = cur[c].lot
      /\ m.listed = cur[c].listed
  BY <1>1, CallFields, TotalNat DEF Call
<1> HIDE DEF m
<1>4. /\ pc' \in [Callers -> Steps] /\ cur' \in [Callers -> Call] /\ Others(c)
      /\ pc'[c] = "set" /\ cur'[c] = m
  <2>1. "set" \in Steps
    BY DEF Steps
  <2> QED BY <1>1, <1>2, <1>3, <2>1, MovedWith
<1>5. Typed' /\ failures' = failures
  BY <1>1, <1>2, <1>4, TypedBooks, StillTyped
<1>6. CallerSound(c)'
  BY <1>1, <1>2, <1>3, <1>4 DEF CallerSound
<1>7. LotsStay /\ DOMAIN lots' = DOMAIN lots /\ \A l \in DOMAIN lots : lots'[l].granted <= lots'[l].original
  BY <1>1, <1>2 DEF LotsStay, Shapes
<1>8. Owes(c)' /\ pc[c] # "consume_event" /\ pc'[c] # "consume_event" /\ pc'[c] # "expire" /\ pc[c] # "expire_event"
  BY <1>2, <1>4 DEF Owes
<1> QED BY <1>2, <1>3, <1>4, <1>5, <1>6, <1>7, <1>8, QuietStep

LEMMA SetWalletKeepsInv ==
  ASSUME Inv, NEW c \in Callers, SetWallet(c)
  PROVE  Inv'
<1>1. Typed /\ Shapes /\ CallerSound(c)
  BY DEF Inv, Shapes
<1>2. /\ At(c, "set") /\ pc[c] = "set" /\ lots' = lots /\ deferred' = deferred /\ revenue' = revenue
      /\ wallet' = cur[c].read /\ outdated' = (cur[c].read # Total)
      /\ IF cur[c].op = "purchase" THEN Goes(c, "append") /\ UNCHANGED cur ELSE Ends(c)
  BY DEF SetWallet, WriteWallet, At, books
<1>3. cur[c].taken = <<>> /\ cur[c].read \in Nat
  BY <1>1, <1>2, CallFields DEF CallerSound
<1>4. /\ pc' \in [Callers -> Steps] /\ cur' \in [Callers -> Call] /\ Others(c)
      /\ pc'[c] \in {"append", "idle"} /\ cur'[c].taken = <<>> /\ CallerSound(c)'
      /\ cur'[c].op = "purchase" <=> cur[c].op = "purchase"
      /\ cur[c].op = "purchase" => cur'[c].lot = cur[c].lot
  <2>1. CASE cur[c].op = "purchase"
    <3>1. "append" \in Steps /\ Goes(c, "append") /\ UNCHANGED cur
      BY <1>2, <2>1 DEF Steps
    <3>2. /\ pc' \in [Callers -> Steps] /\ cur' \in [Callers -> Call] /\ Others(c)
          /\ pc'[c] = "append" /\ cur'[c] = cur[c]
      BY <1>1, <3>1, MovedOn
    <3>3. CallerSound(c)'
      BY <1>1, <1>2, <1>3, <2>1, <3>2 DEF CallerSound
    <3> QED BY <1>3, <3>2, <3>3
  <2>2. CASE cur[c].op # "purchase"
    <3>1. /\ pc' \in [Callers -> Steps] /\ cur' \in [Callers -> Call] /\ Others(c)
          /\ pc'[c] = "idle" /\ cur'[c] = Nothing /\ CallerSound(c)'
      BY <1>1, <1>2, <2>2, Ended
    <3> QED BY <2>2, <3>1, NothingIsCall
  <2> QED BY <2>1, <2>2
<1>5. Typed' /\ failures' = failures
  <2>1. wallet' \in Int /\ outdated' \in BOOLEAN
    BY <1>2, <1>3
  <2> QED BY <1>1, <1>2, <1>4, <2>1, TypedBooks, StillTyped
<1>6. LotsStay /\ DOMAIN lots' = DOMAIN lots /\ \A l \in DOMAIN lots : lots'[l].granted <= lots'[l].original
  BY <1>1, <1>2 DEF LotsStay, Shapes
<1>7. pc[c] # "consume_event" /\ pc'[c] # "consume_event" /\ pc'[c] # "expire" /\ pc[c] # "expire_event"
  BY <1>2, <1>4
<1>8. Shapes' /\ CreditsAreAccountedFor' /\ DeferredKept' /\ RevenueKept' /\ ExpiryKept'
  BY <1>2, <1>3, <1>4, <1>5, <1>6, <1>7, QuietBooks
<1>9. WalletKept'
  <2>1. Total' = Total
    BY <1>2, TotalStays
  <2>2. ~outdated' => wallet' = Total'
    BY <1>2, <2>1
  <2> QED BY <2>2 DEF WalletKept
<1> QED BY <1>5, <1>8, <1>9 DEF Inv

\* Whatever leaves the calls, the lots and the books alone.
LEMMA AccountsUntouched ==
  ASSUME Inv, UNCHANGED <<lots, deferred, revenue, pc, cur, failures>>
  PROVE  Shapes' /\ CreditsAreAccountedFor' /\ DeferredKept' /\ RevenueKept' /\ ExpiryKept'
<1>1. lots' = lots /\ deferred' = deferred /\ revenue' = revenue /\ pc' = pc /\ cur' = cur /\ failures' = failures
  OBVIOUS
<1>2. Shapes'
  BY <1>1 DEF Inv, Shapes, CallerSound
<1>3. CreditsAreAccountedFor'
  BY <1>1 DEF Inv, CreditsAreAccountedFor
<1>4. DeferredKept'
  BY <1>1 DEF Inv, DeferredKept, Owed, Pending
<1>5. RevenueKept'
  BY <1>1 DEF Inv, RevenueKept, Earned, Due
<1>6. ExpiryKept'
  BY <1>1 DEF Inv, ExpiryKept, Explains
<1> QED BY <1>2, <1>3, <1>4, <1>5, <1>6

LEMMA AdminSetsCreditsKeepsInv ==
  ASSUME Inv, NEW credits \in Needs, AdminSetsCredits(credits)
  PROVE  Inv'
<1>1. /\ edits < MaxEdits /\ edits' = edits + 1 /\ wallet' = credits /\ outdated' = (credits # Total)
      /\ UNCHANGED <<lots, deferred, revenue, pc, cur, failures>> /\ calls' = calls
  BY DEF AdminSetsCredits, WriteWallet, books
<1>2. Typed'
  <2>1. edits' \in 0 .. MaxEdits /\ wallet' \in Int /\ outdated' \in BOOLEAN
    <3>1. edits \in 0 .. MaxEdits /\ MaxEdits \in Nat /\ credits \in Int
      BY CreditLotsAssumption DEF Inv, Typed, AccountsTyped
    <3> QED BY <1>1, <3>1
  <2> QED BY <1>1, <2>1 DEF Inv, Typed, AccountsTyped
<1>3. Shapes' /\ CreditsAreAccountedFor' /\ DeferredKept' /\ RevenueKept' /\ ExpiryKept'
  BY <1>1, AccountsUntouched
<1>4. WalletKept'
  <2>1. Total' = Total
    BY <1>1, TotalStays
  <2>2. ~outdated' => wallet' = Total'
    BY <1>1, <2>1
  <2> QED BY <2>2 DEF WalletKept
<1> QED BY <1>2, <1>3, <1>4 DEF Inv

-----------------------------------------------------------------------------
(* The steps of expire_lot *)

LEMMA ExpireReadKeepsInv ==
  ASSUME Inv, NEW c \in Callers, NEW l \in DOMAIN lots, ExpireRead(c, l)
  PROVE  Inv'
<1> DEFINE m == [Nothing EXCEPT !.op = "expire", !.lot = l, !.read = lots[l].remaining]
<1>1. Typed /\ Shapes /\ CallerSound(c) /\ lots \in Seq(Lot)
  BY TypedBooks DEF Inv, Shapes
<1>2. /\ Starts(c, "expire") /\ pc[c] = "idle" /\ Goes(c, "expire") /\ cur' = [cur EXCEPT ![c] = m]
      /\ lots' = lots /\ wallet' = wallet /\ outdated' = outdated /\ deferred' = deferred /\ revenue' = revenue
  BY DEF ExpireRead, Starts, walletVars, books
<1>3. cur[c] = Nothing
  BY <1>1, <1>2 DEF CallerSound
<1>4. /\ m \in Call /\ m.taken = <<>> /\ m.op = "expire" /\ m.lot = l /\ DOMAIN m.listed = {}
      /\ m.read = lots[l].remaining /\ m.read \in Nat
  <2>1. l \in Nat /\ lots[l].remaining \in Nat
    BY <1>1, LotFields
  <2> QED BY <2>1, NothingIsCall DEF Call
<1> HIDE DEF m
<1>5. /\ pc' \in [Callers -> Steps] /\ cur' \in [Callers -> Call] /\ Others(c)
      /\ pc'[c] = "expire" /\ cur'[c] = m
  <2>1. "expire" \in Steps
    BY DEF Steps
  <2> QED BY <1>1, <1>2, <1>4, <2>1, MovedWith
<1>6. Typed' /\ failures' = failures
  BY <1>1, <1>2, <1>5, TypedBooks, StillTyped
<1>7. CallerSound(c)'
  <2>1. DOMAIN m.taken = {}
    BY <1>4
  <2> QED BY <1>2, <1>4, <1>5, <2>1 DEF CallerSound
<1>8. LotsStay /\ DOMAIN lots' = DOMAIN lots /\ \A k \in DOMAIN lots : lots'[k].granted <= lots'[k].original
  BY <1>1, <1>2 DEF LotsStay, Shapes
<1>9. /\ pc[c] # "consume_event" /\ pc'[c] # "consume_event" /\ pc[c] # "expire_event" /\ ~Owes(c)
      /\ cur'[c].read >= lots'[cur'[c].lot].remaining
      /\ cur'[c].taken = cur[c].taken /\ cur'[c].op # "purchase" /\ cur[c].op # "purchase"
  <2>1. cur'[c].read >= lots'[cur'[c].lot].remaining
    BY <1>2, <1>4, <1>5
  <2> QED BY <1>2, <1>3, <1>4, <1>5, <2>1, NothingIsCall DEF Owes
<1> QED BY <1>2, <1>5, <1>6, <1>7, <1>8, <1>9, QuietStep

LEMMA ExpireWriteKeepsInv ==
  ASSUME Inv, NEW c \in Callers, ExpireWrite(c)
  PROVE  Inv'
<1> DEFINE k == cur[c].lot
           x == [lots[k] EXCEPT !.expired = TRUE]
           s == IF cur[c].read > 0 THEN "expire_event" ELSE "sum"
<1>1. /\ Typed /\ Shapes /\ CreditsAreAccountedFor /\ DeferredKept /\ RevenueKept /\ ExpiryKept /\ WalletKept
      /\ CallerSound(c) /\ lots \in Seq(Lot)
  BY TypedBooks DEF Inv, Shapes
<1>2. /\ At(c, "expire") /\ pc[c] = "expire" /\ Goes(c, s) /\ UNCHANGED cur
      /\ lots' = [lots EXCEPT ![k] = x]
      /\ wallet' = wallet /\ outdated' = outdated /\ deferred' = deferred /\ revenue' = revenue
  BY DEF ExpireWrite, At, walletVars, books
<1>3. k \in DOMAIN lots /\ cur[c].taken = <<>> /\ cur[c].op # "purchase" /\ cur[c].read \in Nat
  BY <1>1, <1>2, CallFields DEF CallerSound
<1>4. /\ x \in Lot /\ x.granted = lots[k].granted /\ x.original = lots[k].original /\ x.remaining = lots[k].remaining
      /\ x.price = lots[k].price /\ x.paid = lots[k].paid /\ x.sold = lots[k].sold /\ x.expired = TRUE
      /\ x.consumed = lots[k].consumed /\ x.lapsed = lots[k].lapsed /\ x.lost = lots[k].lost
  <2>1. lots[k] \in Lot /\ TRUE \in BOOLEAN
    BY <1>1, <1>3, LotFields
  <2> QED BY <2>1 DEF Lot
<1> HIDE DEF x
<1>5. /\ lots' \in Seq(Lot) /\ DOMAIN lots' = DOMAIN lots /\ lots'[k] = x
      /\ \A l \in DOMAIN lots \ {k} : lots'[l] = lots[l]
  BY <1>1, <1>2, <1>3, <1>4, LotReplaced
<1>6. \A l \in DOMAIN lots :
        /\ lots'[l].original = lots[l].original /\ lots'[l].price = lots[l].price /\ lots'[l].paid = lots[l].paid /\ lots'[l].sold = lots[l].sold
        /\ lots'[l].granted = lots[l].granted /\ lots'[l].remaining = lots[l].remaining
        /\ lots'[l].consumed = lots[l].consumed /\ lots'[l].lapsed = lots[l].lapsed
        /\ lots'[l].lost = lots[l].lost
  <2> TAKE l \in DOMAIN lots
  <2>1. CASE l = k
    BY <1>4, <1>5, <2>1
  <2>2. CASE l # k
    BY <1>5, <2>2
  <2> QED BY <2>1, <2>2
<1>7. s \in Steps /\ s \in {"expire_event", "sum"}
  BY DEF Steps
<1>8. /\ pc' \in [Callers -> Steps] /\ cur' \in [Callers -> Call] /\ Others(c)
      /\ pc'[c] = s /\ cur'[c] = cur[c]
  <2> HIDE DEF s
  <2> QED BY <1>1, <1>2, <1>7, MovedOn
<1>9. Typed' /\ failures' = failures
  BY <1>1, <1>2, <1>5, <1>8, TypedBooks, StillTyped
<1>10. LotsStay
  BY <1>5, <1>6 DEF LotsStay
<1>11. Shapes'
  <2>1. CallerSound(c)'
    BY <1>1, <1>2, <1>3, <1>5, <1>6, <1>7, <1>8 DEF CallerSound
  <2>2. \A l \in DOMAIN lots' : lots'[l].granted <= lots'[l].original
    BY <1>1, <1>5, <1>6 DEF Shapes
  <2> QED BY <1>1, <1>8, <1>10, <2>1, <2>2, OthersStaySound DEF Shapes
<1>12. CreditsAreAccountedFor'
  <2>1. \A l \in DOMAIN lots :
          lots'[l].original - lots'[l].remaining - lots'[l].consumed - lots'[l].lost
             - CreditsTaken(cur'[c].taken, l)
           = lots[l].original - lots[l].remaining - lots[l].consumed - lots[l].lost
             - CreditsTaken(cur[c].taken, l)
    BY <1>6, <1>8
  <2> QED BY <1>1, <1>5, <1>8, <1>9, <2>1, AccountsStay
<1>13. DeferredKept'
  BY <1>1, <1>2, <1>5, <1>8, <1>9, <1>10, DeferredStays
<1>14. RevenueKept'
  <2>1. Due(c)' = Due(c)
    BY <1>2, <1>7, <1>8 DEF Due
  <2> QED BY <1>1, <1>2, <1>5, <1>6, <1>8, <1>9, <1>10, <2>1, RevenueStays
<1>15. ExpiryKept'
  <2>1. SUFFICES ASSUME failures = 0 PROVE ExpiryKept'
    BY <1>9 DEF ExpiryKept
  <2>2. ASSUME NEW d \in Callers, pc'[d] = "expire" PROVE cur'[d].read >= lots'[cur'[d].lot].remaining
    <3>1. d # c /\ pc[d] = "expire" /\ cur'[d] = cur[d]
      BY <1>7, <1>8, <2>2 DEF Others
    <3>2. cur[d].lot \in DOMAIN lots /\ cur[d].read >= lots[cur[d].lot].remaining
      BY <1>1, <2>1, <3>1 DEF Shapes, CallerSound, ExpiryKept
    <3> QED BY <1>6, <3>1, <3>2
  <2>3. ASSUME NEW l \in DOMAIN lots', lots'[l].expired
        PROVE  lots'[l].lapsed >= lots'[l].remaining \/ \E d \in Callers : Explains(d, l)'
    <3>1. l \in DOMAIN lots /\ lots[l].remaining \in Nat /\ lots[l].lapsed \in Nat
      BY <1>1, <1>5, LotFields
    <3>2. CASE l = k
      <4>1. cur[c].read >= lots[l].remaining
        BY <1>1, <1>2, <2>1, <3>2 DEF ExpiryKept
      <4>2. CASE cur[c].read > 0
        <5>1. Explains(c, l)'
          BY <1>6, <1>8, <3>1, <3>2, <4>1, <4>2 DEF Explains
        <5> QED BY <5>1
      <4>3. CASE cur[c].read = 0
        <5>1. lots[l].lapsed >= lots[l].remaining
          BY <3>1, <4>1, <4>3
        <5> QED BY <1>6, <3>1, <5>1
      <4> QED BY <1>3, <4>2, <4>3
    <3>3. CASE l # k
      <4>1. lots[l].lapsed >= lots[l].remaining \/ \E d \in Callers : Explains(d, l)
        BY <1>1, <1>5, <2>1, <2>3, <3>1, <3>3 DEF ExpiryKept
      <4>2. ASSUME NEW d \in Callers, Explains(d, l) PROVE Explains(d, l)'
        <5>1. d # c
          BY <1>2, <4>2 DEF Explains
        <5> QED BY <1>6, <1>8, <3>1, <4>2, <5>1 DEF Explains, Others
      <4> QED BY <1>6, <3>1, <4>1, <4>2
    <3> QED BY <3>2, <3>3
  <2> QED BY <2>2, <2>3 DEF ExpiryKept
<1>16. WalletKept'
  <2>1. Owes(c)'
    BY <1>7, <1>8 DEF Owes
  <2> QED BY <2>1 DEF WalletKept
<1> QED BY <1>9, <1>11, <1>12, <1>13, <1>14, <1>15, <1>16 DEF Inv

LEMMA ExpireEventKeepsInv ==
  ASSUME Inv, NEW c \in Callers, ExpireEvent(c)
  PROVE  Inv'
<1> DEFINE k == cur[c].lot
           x == [lots[k] EXCEPT !.lapsed = lots[k].lapsed + cur[c].read]
<1>1. /\ Typed /\ Shapes /\ CreditsAreAccountedFor /\ DeferredKept /\ RevenueKept /\ ExpiryKept /\ WalletKept
      /\ CallerSound(c) /\ lots \in Seq(Lot)
  BY TypedBooks DEF Inv, Shapes
<1>2. /\ At(c, "expire_event") /\ pc[c] = "expire_event" /\ Goes(c, "sum") /\ UNCHANGED cur
      /\ lots' = [lots EXCEPT ![k] = x]
      /\ wallet' = wallet /\ outdated' = outdated /\ deferred' = deferred /\ revenue' = revenue
  BY DEF ExpireEvent, At, walletVars, books
<1>3. k \in DOMAIN lots /\ cur[c].taken = <<>> /\ cur[c].op # "purchase" /\ cur[c].read \in Nat
  BY <1>1, <1>2, CallFields DEF CallerSound
<1>4. /\ x \in Lot /\ x.granted = lots[k].granted /\ x.original = lots[k].original /\ x.remaining = lots[k].remaining
      /\ x.price = lots[k].price /\ x.paid = lots[k].paid /\ x.sold = lots[k].sold /\ x.expired = lots[k].expired
      /\ x.consumed = lots[k].consumed /\ x.lapsed = lots[k].lapsed + cur[c].read /\ x.lost = lots[k].lost
  <2>1. lots[k] \in Lot /\ lots[k].lapsed + cur[c].read \in Nat
    <3>1. lots[k] \in Lot /\ lots[k].lapsed \in Nat
      BY <1>1, <1>3, LotFields
    <3> QED BY <1>3, <3>1
  <2> QED BY <2>1 DEF Lot
<1> HIDE DEF x
<1>5. /\ lots' \in Seq(Lot) /\ DOMAIN lots' = DOMAIN lots /\ lots'[k] = x
      /\ \A l \in DOMAIN lots \ {k} : lots'[l] = lots[l]
  BY <1>1, <1>2, <1>3, <1>4, LotReplaced
<1>6. \A l \in DOMAIN lots :
        /\ lots'[l].original = lots[l].original /\ lots'[l].price = lots[l].price /\ lots'[l].paid = lots[l].paid /\ lots'[l].sold = lots[l].sold
        /\ lots'[l].granted = lots[l].granted /\ lots'[l].remaining = lots[l].remaining
        /\ lots'[l].consumed = lots[l].consumed /\ lots'[l].expired = lots[l].expired
        /\ lots'[l].lost = lots[l].lost
  <2> TAKE l \in DOMAIN lots
  <2>1. CASE l = k
    BY <1>4, <1>5, <2>1
  <2>2. CASE l # k
    BY <1>5, <2>2
  <2> QED BY <2>1, <2>2
<1>8. /\ pc' \in [Callers -> Steps] /\ cur' \in [Callers -> Call] /\ Others(c)
      /\ pc'[c] = "sum" /\ cur'[c] = cur[c]
  <2>1. "sum" \in Steps
    BY DEF Steps
  <2> QED BY <1>1, <1>2, <2>1, MovedOn
<1>9. Typed' /\ failures' = failures
  BY <1>1, <1>2, <1>5, <1>8, TypedBooks, StillTyped
<1>10. LotsStay
  BY <1>5, <1>6 DEF LotsStay
<1>11. Shapes'
  <2>1. CallerSound(c)'
    BY <1>1, <1>2, <1>3, <1>5, <1>6, <1>8 DEF CallerSound
  <2>2. \A l \in DOMAIN lots' : lots'[l].granted <= lots'[l].original
    BY <1>1, <1>5, <1>6 DEF Shapes
  <2> QED BY <1>1, <1>8, <1>10, <2>1, <2>2, OthersStaySound DEF Shapes
<1>12. CreditsAreAccountedFor'
  <2>1. \A l \in DOMAIN lots :
          lots'[l].original - lots'[l].remaining - lots'[l].consumed - lots'[l].lost
             - CreditsTaken(cur'[c].taken, l)
           = lots[l].original - lots[l].remaining - lots[l].consumed - lots[l].lost
             - CreditsTaken(cur[c].taken, l)
    BY <1>6, <1>8
  <2> QED BY <1>1, <1>5, <1>8, <1>9, <2>1, AccountsStay
<1>13. DeferredKept'
  BY <1>1, <1>2, <1>5, <1>8, <1>9, <1>10, DeferredStays
<1>14. RevenueKept'
  <2>1. Due(c)' = Due(c)
    BY <1>2, <1>8 DEF Due
  <2> QED BY <1>1, <1>2, <1>5, <1>6, <1>8, <1>9, <1>10, <2>1, RevenueStays
<1>15. ExpiryKept'
  <2>1. SUFFICES ASSUME failures = 0 PROVE ExpiryKept'
    BY <1>9 DEF ExpiryKept
  <2>2. ASSUME NEW d \in Callers, pc'[d] = "expire" PROVE cur'[d].read >= lots'[cur'[d].lot].remaining
    <3>1. d # c /\ pc[d] = "expire" /\ cur'[d] = cur[d]
      BY <1>8, <2>2 DEF Others
    <3>2. cur[d].lot \in DOMAIN lots /\ cur[d].read >= lots[cur[d].lot].remaining
      BY <1>1, <2>1, <3>1 DEF Shapes, CallerSound, ExpiryKept
    <3> QED BY <1>6, <3>1, <3>2
  <2>3. ASSUME NEW l \in DOMAIN lots', lots'[l].expired
        PROVE  lots'[l].lapsed >= lots'[l].remaining \/ \E d \in Callers : Explains(d, l)'
    <3>1. /\ l \in DOMAIN lots /\ lots[l].remaining \in Nat /\ lots[l].lapsed \in Nat
          /\ lots'[l].remaining = lots[l].remaining /\ lots[l].expired
      BY <1>1, <1>5, <1>6, <2>3, LotFields
    <3>2. lots'[l].lapsed \in Nat /\ lots'[l].lapsed >= lots[l].lapsed
      <4>1. CASE l = k
        BY <1>3, <1>4, <1>5, <3>1, <4>1
      <4>2. CASE l # k
        BY <1>5, <3>1, <4>2
      <4> QED BY <4>1, <4>2
    <3>3. CASE lots[l].lapsed >= lots[l].remaining
      BY <3>1, <3>2, <3>3
    <3>4. ASSUME NEW d \in Callers, Explains(d, l), d # c PROVE Explains(d, l)'
      BY <1>8, <3>1, <3>4 DEF Explains, Others
    <3>5. CASE Explains(c, l)
      <4>1. l = k /\ cur[c].read >= lots[l].remaining
        BY <3>5 DEF Explains
      <4>2. lots'[l].lapsed = lots[l].lapsed + cur[c].read
        BY <1>4, <1>5, <4>1
      <4>3. lots'[l].lapsed >= lots'[l].remaining
        BY <1>3, <3>1, <4>1, <4>2
      <4> QED BY <4>3
    <3>6. lots[l].lapsed >= lots[l].remaining \/ \E d \in Callers : Explains(d, l)
      BY <1>1, <2>1, <3>1 DEF ExpiryKept
    <3> QED BY <3>3, <3>4, <3>5, <3>6
  <2> QED BY <2>2, <2>3 DEF ExpiryKept
<1>16. WalletKept'
  <2>1. Owes(c)'
    BY <1>8 DEF Owes
  <2> QED BY <2>1 DEF WalletKept
<1> QED BY <1>9, <1>11, <1>12, <1>13, <1>14, <1>15, <1>16 DEF Inv

\* Nothing is claimed of the accounts once a call was cut short; but the credits it
\* had taken are lost, not unaccounted for.
LEMMA FailKeepsInv ==
  ASSUME Inv, NEW c \in Callers, Fail(c)
  PROVE  Inv'
<1>1. /\ Typed /\ Shapes /\ CreditsAreAccountedFor
      /\ CallerSound(c) /\ lots \in Seq(Lot) /\ cur[c].taken \in Seq(Pair)
  BY TypedBooks, CallFields DEF Inv, Shapes
<1>2. /\ Ends(c) /\ lots' = Losing(cur[c].taken, lots) /\ failures < MaxFailures /\ failures' = failures + 1
      /\ wallet' = wallet /\ outdated' = outdated /\ deferred' = deferred /\ revenue' = revenue
      /\ calls' = calls /\ edits' = edits
  BY DEF Fail, walletVars, books
<1>3. /\ lots' \in Seq(Lot) /\ DOMAIN lots' = DOMAIN lots
      /\ \A l \in DOMAIN lots : lots'[l] = [lots[l] EXCEPT !.lost = lots[l].lost + CreditsTaken(cur[c].taken, l)]
  BY <1>1, <1>2, LotLosing
<1>4. \A l \in DOMAIN lots :
        /\ lots'[l].original = lots[l].original /\ lots'[l].price = lots[l].price /\ lots'[l].paid = lots[l].paid /\ lots'[l].sold = lots[l].sold
        /\ lots'[l].granted = lots[l].granted /\ lots'[l].remaining = lots[l].remaining
        /\ lots'[l].consumed = lots[l].consumed
        /\ lots'[l].lost = lots[l].lost + CreditsTaken(cur[c].taken, l)
  <2> TAKE l \in DOMAIN lots
  <2>1. lots[l] \in Lot
    BY <1>1, LotFields
  <2> QED BY <1>3, <2>1 DEF Lot
<1>5. /\ pc' \in [Callers -> Steps] /\ cur' \in [Callers -> Call] /\ Others(c)
      /\ pc'[c] = "idle" /\ cur'[c] = Nothing /\ CallerSound(c)'
  BY <1>1, <1>2, <1>3, Ended
<1>6. Typed' /\ failures' # 0
  <2>1. failures \in 0 .. MaxFailures /\ MaxFailures \in Nat
    BY <1>1, CreditLotsAssumption DEF Typed, AccountsTyped
  <2>2. failures' \in 0 .. MaxFailures /\ failures' # 0
    BY <1>2, <2>1
  <2> QED BY <1>1, <1>2, <1>3, <1>5, <2>2 DEF Typed, AccountsTyped
<1>7. Shapes'
  <2>1. LotsStay
    BY <1>3, <1>4 DEF LotsStay
  <2>2. \A l \in DOMAIN lots' : lots'[l].granted <= lots'[l].original
    BY <1>1, <1>3, <1>4 DEF Shapes
  <2> QED BY <1>1, <1>5, <2>1, <2>2, OthersStaySound DEF Shapes
<1>8. CreditsAreAccountedFor'
  <2>1. ASSUME NEW l \in DOMAIN lots
        PROVE  lots'[l].original - lots'[l].remaining - lots'[l].consumed - lots'[l].lost
                 - CreditsTaken(cur'[c].taken, l)
               = lots[l].original - lots[l].remaining - lots[l].consumed - lots[l].lost
                 - CreditsTaken(cur[c].taken, l)
    <3>1. CreditsTaken(cur'[c].taken, l) = 0 /\ CreditsTaken(cur[c].taken, l) \in Nat
      BY <1>1, <1>5, NothingIsCall, EmptyTaken, CreditsTakenNat
    <3>2. lots[l].original \in Nat /\ lots[l].remaining \in Nat /\ lots[l].consumed \in Nat /\ lots[l].lost \in Nat
      BY <1>1, LotFields
    <3>3. \A o, r, k, w, t \in Int : o - r - k - (w + t) - 0 = o - r - k - w - t
      OBVIOUS
    <3> QED BY <1>4, <3>1, <3>2, <3>3
  <2> QED BY <1>1, <1>3, <1>5, <1>6, <2>1, AccountsStay
<1>9. DeferredKept' /\ RevenueKept' /\ ExpiryKept' /\ WalletKept'
  BY <1>6 DEF DeferredKept, RevenueKept, ExpiryKept, WalletKept, NothingLost
<1> QED BY <1>6, <1>7, <1>8, <1>9 DEF Inv

-----------------------------------------------------------------------------
(* The steps of consume_credits *)

LEMMA ConsumeListKeepsInv ==
  ASSUME Inv, NEW c \in Callers, NEW need \in Needs, ConsumeList(c, need)
  PROVE  Inv'
<1> DEFINE m == [Nothing EXCEPT !.op = "consume", !.listed = Usable, !.need = need]
<1>1. Typed /\ Shapes /\ CallerSound(c) /\ lots \in Seq(Lot)
  BY TypedBooks DEF Inv, Shapes
<1>2. /\ Starts(c, "consume") /\ pc[c] = "idle" /\ need > 0
      /\ IF DOMAIN Usable # {} THEN Goes(c, "take") /\ cur' = [cur EXCEPT ![c] = m] ELSE UNCHANGED <<pc, cur>>
      /\ lots' = lots /\ wallet' = wallet /\ outdated' = outdated /\ deferred' = deferred /\ revenue' = revenue
  BY DEF ConsumeList, Starts, walletVars, books
<1>3. cur[c] = Nothing
  BY <1>1, <1>2 DEF CallerSound
<1>4. Usable \in Listing /\ DOMAIN Usable \subseteq DOMAIN lots
  <2> DEFINE L == {l \in DOMAIN lots : ~lots[l].expired /\ lots[l].remaining > 0}
  <2>1. \A l \in L : lots[l].remaining \in Nat \ {0} /\ l \in Nat \ {0}
    BY <1>1, LotFields
  <2>2. L \in SUBSET (Nat \ {0}) /\ Usable \in [L -> Nat \ {0}]
    BY <2>1 DEF Usable
  <2> QED BY <2>2 DEF Listing, Usable
<1>5. /\ m \in Call /\ m.taken = <<>> /\ m.op = "consume" /\ m.listed = Usable /\ m.need = need
  <2>1. need \in Nat
    BY <1>2, CreditLotsAssumption
  <2> QED BY <1>4, <2>1, NothingIsCall DEF Call
<1> HIDE DEF m
<1>6. /\ pc' \in [Callers -> Steps] /\ cur' \in [Callers -> Call] /\ Others(c)
      /\ pc'[c] \in {"take", "idle"} /\ cur'[c].taken = <<>> /\ cur'[c].op # "purchase" /\ CallerSound(c)'
  <2>1. CASE DOMAIN Usable # {}
    <3>1. "take" \in Steps
      BY DEF Steps
    <3>2. /\ pc' \in [Callers -> Steps] /\ cur' \in [Callers -> Call] /\ Others(c)
          /\ pc'[c] = "take" /\ cur'[c] = m
      BY <1>1, <1>2, <1>5, <2>1, <3>1, MovedWith
    <3>3. DOMAIN m.taken = {} /\ m.need > 0
      BY <1>2, <1>5
    <3>4. CallerSound(c)'
      BY <1>2, <1>4, <1>5, <2>1, <3>2, <3>3 DEF CallerSound
    <3> QED BY <1>5, <3>2, <3>4
  <2>2. CASE DOMAIN Usable = {}
    <3>1. UNCHANGED <<pc, cur>>
      BY <1>2, <2>2
    <3>2. CallerSound(c)'
      BY <1>1, <1>2, <3>1 DEF CallerSound
    <3> QED BY <1>1, <1>2, <1>3, <3>1, <3>2, NothingIsCall DEF Typed, Others
  <2> QED BY <2>1, <2>2
<1>7. Typed' /\ failures' = failures
  BY <1>1, <1>2, <1>6, TypedBooks, StillTyped
<1>8. LotsStay /\ DOMAIN lots' = DOMAIN lots /\ \A k \in DOMAIN lots : lots'[k].granted <= lots'[k].original
  BY <1>1, <1>2 DEF LotsStay, Shapes
<1>9. /\ pc[c] # "consume_event" /\ pc'[c] # "consume_event" /\ pc[c] # "expire_event" /\ pc'[c] # "expire"
      /\ ~Owes(c) /\ cur'[c].taken = cur[c].taken /\ cur[c].op # "purchase"
  BY <1>2, <1>3, <1>6, NothingIsCall DEF Owes
<1> QED BY <1>2, <1>6, <1>7, <1>8, <1>9, QuietStep

LEMMA DueInt ==
  ASSUME Typed, Shapes
  PROVE  \A c \in Callers : Due(c) \in Int
<1> TAKE c \in Callers
<1>1. cur[c].taken \in Seq(Pair) /\ lots \in Seq(Lot) /\ \A i \in DOMAIN cur[c].taken : cur[c].taken[i][1] \in DOMAIN lots
  BY CallFields DEF Shapes, CallerSound
<1>2. RevenueFrom(cur[c].taken, lots) \in Nat
  BY <1>1, WorthIsSeq
<1> QED BY <1>2 DEF Due

\* The revenue when the sums of what was earned and what is due are known.
LEMMA RevenueMoves ==
  ASSUME Typed, Shapes, RevenueKept, Typed', Shapes', NEW c \in Callers, Others(c), LotsStay,
         DOMAIN lots' = DOMAIN lots, failures' = failures,
         NEW k \in DOMAIN lots, \A l \in DOMAIN lots \ {k} : lots'[l].consumed = lots[l].consumed,
         revenue' = revenue + (Earned(k)' - Earned(k)) + (Due(c)' - Due(c))
  PROVE  RevenueKept'
<1> DEFINE f == [l \in DOMAIN lots |-> Earned(l)]
           fn == [l \in DOMAIN lots' |-> Earned(l)']
           g == [d \in Callers |-> Due(d)]
           gn == [d \in Callers |-> Due(d)']
<1>1. lots \in Seq(Lot) /\ lots' \in Seq(Lot) /\ IsFiniteSet(DOMAIN lots)
  <2>1. lots \in Seq(Lot) /\ lots' \in Seq(Lot)
    BY DEF Typed, AccountsTyped
  <2> QED BY <2>1, LotsAreFinite
<1>2. \A l \in DOMAIN lots : f[l] \in Int /\ fn[l] \in Int
  <2> TAKE l \in DOMAIN lots
  <2>1. lots[l].price * lots[l].consumed \in Nat
    BY <1>1, LotFields, Product
  <2>2. lots'[l].price * lots'[l].consumed \in Nat
    BY <1>1, LotFields, Product
  <2> QED BY <2>1, <2>2 DEF Earned
<1>3. \A l \in DOMAIN lots \ {k} : f[l] = fn[l]
  BY DEF Earned, LotsStay
<1>4. \A d \in Callers : g[d] \in Int /\ gn[d] \in Int
  <2>1. \A d \in Callers : Due(d) \in Int
    BY DueInt
  <2>2. ASSUME NEW d \in Callers PROVE Due(d)' \in Int
    <3>1. cur'[d].taken \in Seq(Pair)
      BY DEF Typed, Call
    <3>2. \A i \in DOMAIN cur'[d].taken : cur'[d].taken[i][1] \in DOMAIN lots'
      BY DEF Shapes, CallerSound
    <3>3. RevenueFrom(cur'[d].taken, lots') \in Nat
      BY <1>1, <3>1, <3>2, WorthIsSeq
    <3> QED BY <3>3 DEF Due
  <2> QED BY <2>1, <2>2
<1>5. \A d \in Callers \ {c} : g[d] = gn[d]
  BY DueStays
<1>6. DOMAIN f = DOMAIN lots /\ DOMAIN fn = DOMAIN lots /\ DOMAIN g = Callers /\ DOMAIN gn = Callers
  OBVIOUS
<1>7. f[k] = Earned(k) /\ fn[k] = Earned(k)' /\ g[c] = Due(c) /\ gn[c] = Due(c)'
  OBVIOUS
<1>8. (failures = 0 => revenue = SumFunction(f) + SumFunction(g))
      /\ (failures' = 0 /\ revenue' = SumFunction(fn) + SumFunction(gn) => RevenueKept')
      /\ (failures' # 0 => RevenueKept')
  BY DEF RevenueKept
<1> HIDE DEF f, fn, g, gn
<1>9. SumFunctionOnSet(fn, DOMAIN lots) = SumFunctionOnSet(f, DOMAIN lots) + (fn[k] - f[k])
  BY <1>1, <1>2, <1>3, SumChanged
<1>10. SumFunctionOnSet(gn, Callers) = SumFunctionOnSet(g, Callers) + (gn[c] - g[c])
  BY <1>4, <1>5, CreditLotsAssumption, SumChanged
<1>11. SumFunctionOnSet(f, DOMAIN lots) \in Int /\ SumFunctionOnSet(g, Callers) \in Int
  BY <1>1, <1>2, <1>4, CreditLotsAssumption, SumInt
<1>12. /\ SumFunction(fn) = SumFunction(f) + (fn[k] - f[k]) /\ SumFunction(gn) = SumFunction(g) + (gn[c] - g[c])
       /\ SumFunction(f) \in Int /\ SumFunction(g) \in Int
  BY <1>6, <1>9, <1>10, <1>11 DEF SumFunction
<1>13. f[k] \in Int /\ fn[k] \in Int /\ g[c] \in Int /\ gn[c] \in Int
  BY <1>2, <1>4
<1>14. \A a, b, p, q, r, s \in Int : (a + b) + (q - p) + (s - r) = (a + (q - p)) + (b + (s - r))
  OBVIOUS
<1>15. failures = 0 => revenue' = SumFunction(fn) + SumFunction(gn)
  BY <1>7, <1>8, <1>12, <1>13, <1>14
<1> QED BY <1>8, <1>15

LEMMA RecognizeRevenueKeepsInv ==
  ASSUME Inv, NEW c \in Callers, RecognizeRevenue(c)
  PROVE  Inv'
<1>1. /\ Typed /\ Shapes /\ CreditsAreAccountedFor /\ DeferredKept /\ RevenueKept /\ ExpiryKept /\ WalletKept
      /\ CallerSound(c) /\ lots \in Seq(Lot)
  BY TypedBooks DEF Inv, Shapes
<1>2. /\ At(c, "journal") /\ pc[c] = "journal" /\ Goes(c, "consume_event") /\ UNCHANGED cur /\ lots' = lots
      /\ wallet' = wallet /\ outdated' = outdated /\ deferred' = deferred
      /\ revenue' = revenue + RevenueFrom(cur[c].taken, lots)
  BY RevenueIsWorth DEF RecognizeRevenue, At, walletVars
<1>3. /\ pc' \in [Callers -> Steps] /\ cur' \in [Callers -> Call] /\ Others(c)
      /\ pc'[c] = "consume_event" /\ cur'[c] = cur[c]
  <2>1. "consume_event" \in Steps
    BY DEF Steps
  <2> QED BY <1>1, <1>2, <2>1, MovedOn
<1>4. /\ cur[c].taken \in Seq(Pair) /\ cur[c].taken # <<>> /\ cur[c].op # "purchase"
      /\ \A i \in DOMAIN cur[c].taken : cur[c].taken[i][1] \in DOMAIN lots
  BY <1>1, <1>2, CallFields DEF CallerSound
<1>5. RevenueFrom(cur[c].taken, lots) \in Nat
  BY <1>1, <1>4, WorthIsSeq
<1>6. Typed' /\ failures' = failures
  <2>1. revenue' \in Nat
    BY <1>1, <1>2, <1>5, TypedBooks
  <2> QED BY <1>1, <1>2, <1>3, <2>1, TypedBooks, StillTyped
<1>7. LotsStay /\ DOMAIN lots' = DOMAIN lots
  BY <1>2 DEF LotsStay
<1>8. Shapes'
  <2>1. CallerSound(c)'
    BY <1>1, <1>2, <1>3, <1>4 DEF CallerSound
  <2> QED BY <1>1, <1>2, <1>3, <1>7, <2>1, OthersStaySound DEF Shapes
<1>9. CreditsAreAccountedFor'
  BY <1>1, <1>2, <1>3, <1>6, <1>7, AccountsStay
<1>10. DeferredKept'
  BY <1>1, <1>2, <1>3, <1>6, <1>7, DeferredStays
<1>11. RevenueKept'
  <2>1. PICK k \in DOMAIN lots : TRUE
    <3>1. 1 \in DOMAIN cur[c].taken
      BY <1>4, TakenShortened
    <3> QED BY <1>4, <3>1
  <2>2. Earned(k)' = Earned(k) /\ Earned(k) \in Int
    <3>1. lots[k].price * lots[k].consumed \in Nat
      BY <1>1, LotFields, Product
    <3> QED BY <1>2, <3>1 DEF Earned
  <2>3. Due(c)' = RevenueFrom(cur[c].taken, lots) /\ Due(c) = 0
    BY <1>2, <1>3 DEF Due
  <2>4. revenue \in Int
    BY <1>1, TypedBooks
  <2>5. \A r, e, x \in Int : r + x = r + (e - e) + (x - 0)
    OBVIOUS
  <2>6. revenue' = revenue + (Earned(k)' - Earned(k)) + (Due(c)' - Due(c))
    BY <1>2, <1>5, <2>2, <2>3, <2>4, <2>5
  <2> QED BY <1>1, <1>2, <1>3, <1>6, <1>7, <1>8, <2>6, RevenueMoves
<1>12. ExpiryKept'
  <2>1. \A l \in DOMAIN lots : lots'[l].remaining <= lots[l].remaining /\ lots'[l].lapsed >= lots[l].lapsed
    <3>1. \A l \in DOMAIN lots : lots[l].remaining \in Nat /\ lots[l].lapsed \in Nat
      BY <1>1, LotFields
    <3> QED BY <1>2, <3>1
  <2> QED BY <1>1, <1>2, <1>3, <1>6, <1>7, <2>1, ExpiryStays
<1>13. WalletKept'
  <2>1. Owes(c)'
    BY <1>3 DEF Owes
  <2> QED BY <2>1 DEF WalletKept
<1> QED BY <1>6, <1>8, <1>9, <1>10, <1>11, <1>12, <1>13 DEF Inv

LEMMA ConsumeEventKeepsInv ==
  ASSUME Inv, NEW c \in Callers, ConsumeEvent(c)
  PROVE  Inv'
<1> DEFINE taken == cur[c].taken
<1>0. PICK k, n : k = taken[1][1] /\ n = taken[1][2]
  OBVIOUS
<1> DEFINE x == [lots[k] EXCEPT !.consumed = lots[k].consumed + n]
           m == [cur[c] EXCEPT !.taken = Tail(taken)]
<1>1. /\ Typed /\ Shapes /\ CreditsAreAccountedFor /\ DeferredKept /\ RevenueKept /\ ExpiryKept /\ WalletKept
      /\ CallerSound(c) /\ lots \in Seq(Lot)
  BY TypedBooks DEF Inv, Shapes
<1>2. /\ At(c, "consume_event") /\ pc[c] = "consume_event"
      /\ wallet' = wallet /\ outdated' = outdated /\ deferred' = deferred /\ revenue' = revenue
      /\ cur' = [cur EXCEPT ![c] = m]
      /\ IF Len(taken) = 1 THEN Goes(c, "sum") ELSE UNCHANGED pc
  BY DEF ConsumeEvent, At, walletVars, books
<1>3. /\ taken \in Seq(Pair) /\ taken # <<>> /\ cur[c].op # "purchase"
      /\ \A i \in DOMAIN taken : taken[i][1] \in DOMAIN lots
  BY <1>1, <1>2, CallFields DEF CallerSound
<1>4. /\ Tail(taken) \in Seq(Pair) /\ Len(Tail(taken)) = Len(taken) - 1
      /\ \A i \in DOMAIN Tail(taken) : i + 1 \in DOMAIN taken /\ Tail(taken)[i] = taken[i + 1]
      /\ 1 \in DOMAIN taken /\ Head(taken) = taken[1]
      /\ \A l : CreditsTaken(taken, l) = (IF k = l THEN n ELSE 0) + CreditsTaken(Tail(taken), l)
  <2> HIDE DEF taken
  <2>1. ASSUME NEW l
        PROVE  /\ Tail(taken) \in Seq(Pair) /\ Len(Tail(taken)) = Len(taken) - 1
               /\ \A i \in DOMAIN Tail(taken) : i + 1 \in DOMAIN taken /\ Tail(taken)[i] = taken[i + 1]
               /\ 1 \in DOMAIN taken /\ Head(taken) = taken[1]
               /\ CreditsTaken(taken, l) = (IF k = l THEN n ELSE 0) + CreditsTaken(Tail(taken), l)
    BY <1>0, <1>3, TakenShortened
  <2> QED BY <2>1
<1>5. lots' = [lots EXCEPT ![k] = x]
  BY <1>0, <1>4 DEF ConsumeEvent
<1>6. k \in DOMAIN lots /\ k \in Nat \ {0} /\ n \in Nat \ {0}
  <2>1. taken[1][1] \in DOMAIN lots
    BY <1>3, <1>4
  <2> HIDE DEF taken
  <2>2. taken[1][1] \in Nat \ {0} /\ taken[1][2] \in Nat \ {0}
    BY <1>3, <1>4, PairOf
  <2> QED BY <1>0, <2>1, <2>2
<1>7. lots[k].consumed \in Nat /\ lots[k] \in Lot /\ lots[k].price \in Nat
  BY <1>1, <1>6, LotFields
<1>8. /\ x \in Lot /\ x.granted = lots[k].granted /\ x.original = lots[k].original /\ x.remaining = lots[k].remaining
      /\ x.price = lots[k].price /\ x.paid = lots[k].paid /\ x.sold = lots[k].sold /\ x.expired = lots[k].expired
      /\ x.consumed = lots[k].consumed + n /\ x.lapsed = lots[k].lapsed /\ x.lost = lots[k].lost
  <2>1. lots[k].consumed + n \in Nat
    BY <1>6, <1>7
  <2> QED BY <1>7, <2>1 DEF Lot
<1>9. m \in Call /\ m.taken = Tail(taken) /\ m.op = cur[c].op /\ m.listed = cur[c].listed
  BY <1>1, <1>4, CallFields DEF Call
<1> HIDE DEF x, m
<1>10. /\ lots' \in Seq(Lot) /\ DOMAIN lots' = DOMAIN lots /\ lots'[k] = x
       /\ \A l \in DOMAIN lots \ {k} : lots'[l] = lots[l]
  BY <1>1, <1>5, <1>6, <1>8, LotReplaced
<1>11. \A l \in DOMAIN lots :
        /\ lots'[l].original = lots[l].original /\ lots'[l].price = lots[l].price /\ lots'[l].paid = lots[l].paid /\ lots'[l].sold = lots[l].sold
        /\ lots'[l].granted = lots[l].granted /\ lots'[l].remaining = lots[l].remaining
        /\ lots'[l].expired = lots[l].expired /\ lots'[l].lapsed = lots[l].lapsed
        /\ lots'[l].lost = lots[l].lost
  <2> TAKE l \in DOMAIN lots
  <2>1. CASE l = k
    BY <1>8, <1>10, <2>1
  <2>2. CASE l # k
    BY <1>10, <2>2
  <2> QED BY <2>1, <2>2
<1>12. /\ pc' \in [Callers -> Steps] /\ cur' \in [Callers -> Call] /\ Others(c) /\ cur'[c] = m
       /\ pc'[c] = IF Len(taken) = 1 THEN "sum" ELSE "consume_event"
  <2>1. cur' \in [Callers -> Call] /\ cur'[c] = m /\ \A d \in Callers \ {c} : cur'[d] = cur[d]
    BY <1>1, <1>2, <1>9, Remembers
  <2>2. CASE Len(taken) = 1
    <3>1. "sum" \in Steps /\ Goes(c, "sum")
      BY <1>2, <2>2 DEF Steps
    <3>2. pc' \in [Callers -> Steps] /\ pc'[c] = "sum" /\ \A d \in Callers \ {c} : pc'[d] = pc[d]
      BY <1>1, <3>1, Gone
    <3> QED BY <2>1, <2>2, <3>2 DEF Others
  <2>3. CASE Len(taken) # 1
    <3>1. pc' = pc
      BY <1>2, <2>3
    <3> QED BY <1>1, <1>2, <2>1, <2>3, <3>1 DEF Others, Typed
  <2> QED BY <2>2, <2>3
<1>13. Typed' /\ failures' = failures
  BY <1>1, <1>2, <1>10, <1>12, TypedBooks, StillTyped
<1>14. LotsStay
  BY <1>10, <1>11 DEF LotsStay
<1>15. (Len(taken) = 1 <=> Tail(taken) = <<>>) /\ Len(Tail(taken)) \in Nat
  <2> HIDE DEF taken
  <2>1. Len(taken) \in Nat /\ Len(Tail(taken)) \in Nat /\ Len(Tail(taken)) = Len(taken) - 1
    BY <1>3, <1>4, LenProperties
  <2>2. Tail(taken) = <<>> <=> Len(Tail(taken)) = 0
    BY <1>4, EmptySeq
  <2> QED BY <2>1, <2>2
<1>16. Shapes'
  <2>1. CallerSound(c)'
    <3>1. \A i \in DOMAIN m.taken : m.taken[i][1] \in DOMAIN lots
      BY <1>3, <1>4, <1>9
    <3>2. m.taken = <<>> <=> Len(taken) = 1
      BY <1>9, <1>15
    <3> HIDE DEF taken
    <3>3. pc'[c] = "sum" \/ (pc'[c] = "consume_event" /\ m.taken # <<>>)
      BY <1>12, <3>2
    <3>4. pc'[c] = "sum" => m.taken = <<>>
      BY <1>12, <3>2
    <3>5. DOMAIN m.listed \subseteq DOMAIN lots /\ m.op # "purchase"
      BY <1>1, <1>3, <1>9 DEF CallerSound
    <3> QED BY <1>10, <1>12, <3>1, <3>3, <3>4, <3>5 DEF CallerSound
  <2>2. \A l \in DOMAIN lots' : lots'[l].granted <= lots'[l].original
    BY <1>1, <1>10, <1>11 DEF Shapes
  <2> QED BY <1>1, <1>12, <1>14, <2>1, <2>2, OthersStaySound DEF Shapes
<1>17. CreditsAreAccountedFor'
  <2>1. ASSUME NEW l \in DOMAIN lots
        PROVE  lots'[l].original - lots'[l].remaining - lots'[l].consumed - lots'[l].lost
                 - CreditsTaken(cur'[c].taken, l)
               = lots[l].original - lots[l].remaining - lots[l].consumed - lots[l].lost
                 - CreditsTaken(cur[c].taken, l)
    <3> DEFINE a == CreditsTaken(taken, l)
               b == CreditsTaken(Tail(taken), l)
               e == IF k = l THEN n ELSE 0
    <3>1. a \in Int /\ b \in Int /\ e \in Int /\ a = e + b /\ cur'[c].taken = Tail(taken)
      <4>1. cur'[c].taken = Tail(taken)
        BY <1>9, <1>12
      <4>2. e \in Int
        BY <1>6
      <4> HIDE DEF taken
      <4>3. a \in Nat /\ b \in Nat
        BY <1>3, <1>4, CreditsTakenNat
      <4>4. a = e + b
        BY <1>4
      <4> QED BY <4>1, <4>2, <4>3, <4>4
    <3>2. lots[l].original \in Int /\ lots[l].remaining \in Int /\ lots[l].consumed \in Int /\ lots[l].lost \in Int
      BY <1>1, LotFields
    <3>3. lots'[l].consumed = lots[l].consumed + e
      <4>1. CASE l = k
        BY <1>8, <1>10, <4>1
      <4>2. CASE l # k
        BY <1>10, <3>2, <4>2
      <4> QED BY <4>1, <4>2
    <3> HIDE DEF e
    <3>4. \A o, r, q, w, s, t \in Int : o - r - (q + s) - w - t = o - r - q - w - (s + t)
      OBVIOUS
    <3>5. lots'[l].original - lots'[l].remaining - lots'[l].consumed - lots'[l].lost - b
            = lots[l].original - lots[l].remaining - lots[l].consumed - lots[l].lost - a
      BY <1>11, <3>1, <3>2, <3>3, <3>4
    <3> QED BY <3>1, <3>5
  <2> QED BY <1>1, <1>10, <1>12, <1>13, <2>1, AccountsStay
<1>18. DeferredKept'
  BY <1>1, <1>2, <1>3, <1>9, <1>10, <1>12, <1>13, <1>14, DeferredStays
<1>19. RevenueKept'
  <2>1. Earned(k)' = lots[k].price * (lots[k].consumed + n) /\ Earned(k) = lots[k].price * lots[k].consumed
    BY <1>8, <1>10 DEF Earned
  <2>2. Due(c) = RevenueFrom(taken, lots)
    BY <1>2 DEF Due
  <2>3. RevenueFrom(taken, lots) = n * lots[k].price + RevenueFrom(Tail(taken), lots)
    <3> HIDE DEF taken
    <3> QED BY <1>0, <1>1, <1>3, WorthShortened
  <2>4. \A i \in DOMAIN Tail(taken) : Tail(taken)[i][1] \in DOMAIN lots
    BY <1>3, <1>4
  <2>5. RevenueFrom(Tail(taken), lots') = RevenueFrom(Tail(taken), lots) /\ RevenueFrom(Tail(taken), lots) \in Nat
    <3>1. \A i \in DOMAIN Tail(taken) : lots'[Tail(taken)[i][1]].price = lots[Tail(taken)[i][1]].price
      BY <1>11, <2>4
    <3> HIDE DEF taken
    <3> QED BY <1>1, <1>4, <2>4, <3>1, WorthSame, WorthIsSeq
  <2>6. Due(c)' = RevenueFrom(Tail(taken), lots)
    <3>1. CASE Len(taken) = 1
      <4>1. Tail(taken) = <<>> /\ DOMAIN <<>> = {}
        BY <1>15, <3>1
      <4>2. Worth(Tail(taken), lots) = <<>>
        BY <4>1 DEF Worth
      <4>3. RevenueFrom(Tail(taken), lots) = 0
        BY <4>2, SumSeqEmpty DEF RevenueFrom
      <4>4. pc'[c] = "sum"
        BY <1>12, <3>1
      <4> QED BY <4>3, <4>4 DEF Due
    <3>2. CASE Len(taken) # 1
      <4>1. pc'[c] = "consume_event" /\ cur'[c].taken = Tail(taken)
        BY <1>9, <1>12, <3>2
      <4> QED BY <2>5, <4>1 DEF Due
    <3> QED BY <3>1, <3>2
  <2>7. \A p, a, b, w, r \in Int : r = r + (p * (a + b) - p * a) + (w - (b * p + w))
    OBVIOUS
  <2>8. revenue \in Int
    BY <1>1, TypedBooks
  <2>9. revenue' = revenue + (Earned(k)' - Earned(k)) + (Due(c)' - Due(c))
    BY <1>2, <1>6, <1>7, <2>1, <2>2, <2>3, <2>5, <2>6, <2>7, <2>8
  <2>10. \A l \in DOMAIN lots \ {k} : lots'[l].consumed = lots[l].consumed
    BY <1>10
  <2> QED BY <1>1, <1>6, <1>10, <1>12, <1>13, <1>14, <1>16, <2>9, <2>10, RevenueMoves
<1>20. ExpiryKept'
  <2>1. \A l \in DOMAIN lots : /\ lots'[l].expired = lots[l].expired
                               /\ lots'[l].remaining <= lots[l].remaining /\ lots'[l].lapsed >= lots[l].lapsed
    <3>1. \A l \in DOMAIN lots : lots[l].remaining \in Nat /\ lots[l].lapsed \in Nat
      BY <1>1, LotFields
    <3> QED BY <1>11, <3>1
  <2>2. pc'[c] # "expire" /\ pc[c] # "expire_event"
    BY <1>2, <1>12
  <2> QED BY <1>1, <1>10, <1>12, <1>13, <2>1, <2>2, ExpiryStays
<1>21. WalletKept'
  <2>1. Owes(c)'
    BY <1>12 DEF Owes
  <2> QED BY <2>1 DEF WalletKept
<1> QED BY <1>13, <1>16, <1>17, <1>18, <1>19, <1>20, <1>21 DEF Inv

-----------------------------------------------------------------------------
(* One attempt to take credits from a lot *)

LEMMA LeastOf ==
  ASSUME NEW T, T \subseteq Nat, T # {}
  PROVE  Min(T) \in T /\ \A y \in T : Min(T) <= y
<1>1. \E x \in T : \A y \in T : x <= y
  BY LeastNumber
<1> QED BY <1>1 DEF Min

\* What an attempt to take from lot k comes to: ls are the lots, taken and need what
\* the call then has.
Attempted(c, taken, need, ls) ==
  /\ taken \in Seq(Pair) /\ need \in Nat /\ ls \in Seq(Lot) /\ DOMAIN ls = DOMAIN lots
  /\ \A i \in DOMAIN taken : taken[i][1] \in DOMAIN lots
  /\ need = 0 => taken # <<>>
  /\ taken = <<>> => ls = lots /\ cur[c].taken = <<>>
  /\ \A l \in DOMAIN lots :
       /\ ls[l].original = lots[l].original /\ ls[l].price = lots[l].price /\ ls[l].paid = lots[l].paid /\ ls[l].sold = lots[l].sold
       /\ ls[l].granted = lots[l].granted /\ ls[l].consumed = lots[l].consumed
       /\ ls[l].expired = lots[l].expired /\ ls[l].lapsed = lots[l].lapsed /\ ls[l].lost = lots[l].lost
       /\ ls[l].remaining <= lots[l].remaining
       /\ ls[l].remaining + CreditsTaken(taken, l) = lots[l].remaining + CreditsTaken(cur[c].taken, l)

LEMMA TakeAttempts ==
  ASSUME Typed, Shapes, NEW c \in Callers, Take(c)
  PROVE  \E taken, need, ls : Attempted(c, taken, need, ls) /\ AfterTake(c, need, taken, ls)
<1>0. PICK k, n : k = FirstListed(c) /\ n = Min({cur[c].listed[k], cur[c].need})
  OBVIOUS
<1> DEFINE old == cur[c].taken
           left == cur[c].need - n
           more == Append(old, <<k, n>>)
           x == [lots[k] EXCEPT !.remaining = lots[k].remaining - n]
           ls == [lots EXCEPT ![k] = x]
<1>1. /\ IF lots[k].remaining >= n THEN AfterTake(c, left, more, ls)
         ELSE AfterTake(c, cur[c].need, old, lots)
      /\ pc[c] = "take"
  BY <1>0 DEF Take, At
<1>2. /\ CallerSound(c) /\ lots \in Seq(Lot) /\ old \in Seq(Pair) /\ cur[c].need \in Nat
      /\ cur[c].listed \in Listing
  BY CallFields, TypedBooks DEF Shapes
<1>3. /\ DOMAIN cur[c].listed # {} /\ DOMAIN cur[c].listed \subseteq DOMAIN lots /\ cur[c].need > 0
      /\ \A i \in DOMAIN old : old[i][1] \in DOMAIN lots
  BY <1>1, <1>2 DEF CallerSound
<1>4. k \in DOMAIN cur[c].listed /\ k \in DOMAIN lots /\ k \in Nat \ {0}
  <2>1. DOMAIN cur[c].listed \subseteq Nat
    BY <1>2, <1>3, LotFields
  <2>2. k \in DOMAIN cur[c].listed
    BY <1>0, <1>3, <2>1, LeastOf DEF FirstListed
  <2> QED BY <1>2, <1>3, <2>2, LotFields
<1>5. n \in Nat \ {0} /\ n <= cur[c].need
  <2>1. cur[c].listed[k] \in Nat \ {0}
    BY <1>2, <1>4 DEF Listing
  <2> DEFINE T == {cur[c].listed[k], cur[c].need}
  <2>2. T \subseteq Nat /\ T # {} /\ cur[c].need \in T /\ n = Min(T)
    BY <1>0, <1>2, <2>1
  <2> HIDE DEF T
  <2>3. n \in T /\ n <= cur[c].need
    BY <2>2, LeastOf
  <2>4. n = cur[c].listed[k] \/ n = cur[c].need
    BY <2>3 DEF T
  <2> QED BY <1>2, <1>3, <2>1, <2>3, <2>4
<1>6. lots[k] \in Lot /\ lots[k].remaining \in Nat
  BY <1>2, <1>4, LotFields
<1>7. CASE lots[k].remaining >= n
  <2>1. AfterTake(c, left, more, ls)
    BY <1>1, <1>7
  <2>2. /\ x \in Lot /\ x.remaining = lots[k].remaining - n
        /\ x.original = lots[k].original /\ x.price = lots[k].price /\ x.paid = lots[k].paid /\ x.sold = lots[k].sold
        /\ x.granted = lots[k].granted /\ x.consumed = lots[k].consumed
        /\ x.expired = lots[k].expired /\ x.lapsed = lots[k].lapsed /\ x.lost = lots[k].lost
    <3>1. lots[k].remaining - n \in Nat
      BY <1>5, <1>6, <1>7
    <3> QED BY <1>6, <3>1 DEF Lot
  <2> HIDE DEF x
  <2>3. /\ ls \in Seq(Lot) /\ DOMAIN ls = DOMAIN lots /\ ls[k] = x
        /\ \A l \in DOMAIN lots \ {k} : ls[l] = lots[l]
    BY <1>2, <1>4, <2>2, LotReplaced
  <2> HIDE DEF ls
  <2>4. <<k, n>> \in Pair
    BY <1>4, <1>5 DEF Pair
  <2>5. /\ more \in Seq(Pair) /\ Len(more) = Len(old) + 1 /\ more[Len(old) + 1] = <<k, n>>
        /\ \A i \in 1 .. Len(old) : more[i] = old[i]
        /\ Len(old) \in Nat /\ DOMAIN old = 1 .. Len(old) /\ DOMAIN more = 1 .. Len(old) + 1
    <3> HIDE DEF old
    <3>1. /\ more \in Seq(Pair) /\ Len(more) = Len(old) + 1 /\ more[Len(old) + 1] = <<k, n>>
          /\ \A i \in 1 .. Len(old) : more[i] = old[i]
      BY <1>2, <2>4, AppendProperties
    <3> HIDE DEF more
    <3> QED BY <1>2, <3>1, LenProperties
  <2>6. \A l : CreditsTaken(more, l) = CreditsTaken(old, l) + IF k = l THEN n ELSE 0
    <3> HIDE DEF old
    <3> QED BY <1>2, <1>4, <1>5, TakenAppended
  <2> HIDE DEF more
  <2>7. \A i \in DOMAIN more : more[i][1] \in DOMAIN lots
    <3> TAKE i \in DOMAIN more
    <3>1. i \in DOMAIN old \/ i = Len(old) + 1
      BY <2>5
    <3>2. i \in DOMAIN old => more[i] = old[i]
      BY <2>5
    <3> QED BY <1>3, <1>4, <2>5, <3>1, <3>2
  <2>8. left \in Nat /\ more # <<>>
    <3>1. left \in Nat
      BY <1>2, <1>5
    <3>2. 1 \in DOMAIN more
      BY <2>5
    <3> QED BY <3>1, <3>2
  <2>9. ASSUME NEW l \in DOMAIN lots
        PROVE  /\ ls[l].original = lots[l].original /\ ls[l].price = lots[l].price /\ ls[l].paid = lots[l].paid /\ ls[l].sold = lots[l].sold
               /\ ls[l].granted = lots[l].granted /\ ls[l].consumed = lots[l].consumed
               /\ ls[l].expired = lots[l].expired /\ ls[l].lapsed = lots[l].lapsed /\ ls[l].lost = lots[l].lost
               /\ ls[l].remaining <= lots[l].remaining
               /\ ls[l].remaining + CreditsTaken(more, l) = lots[l].remaining + CreditsTaken(old, l)
    <3>1. lots[l].remaining \in Nat /\ CreditsTaken(old, l) \in Nat
      BY <1>2, LotFields, CreditsTakenNat
    <3>2. CASE l = k
      <4>1. CreditsTaken(more, l) = CreditsTaken(old, l) + n /\ ls[l] = x
        BY <2>3, <2>6, <3>2
      <4>2. ls[l].remaining = lots[l].remaining - n
        BY <2>2, <3>2, <4>1
      <4>3. \A r, a, t \in Int : (r - a) + (t + a) = r + t
        OBVIOUS
      <4>4. ls[l].remaining + CreditsTaken(more, l) = lots[l].remaining + CreditsTaken(old, l)
        BY <1>5, <3>1, <4>1, <4>2, <4>3
      <4>5. ls[l].remaining <= lots[l].remaining
        BY <1>5, <3>1, <4>2
      <4> QED BY <2>2, <3>2, <4>1, <4>4, <4>5
    <3>3. CASE l # k
      <4>1. CreditsTaken(more, l) = CreditsTaken(old, l) /\ ls[l] = lots[l]
        BY <2>3, <2>6, <3>1, <3>3
      <4> QED BY <3>1, <4>1
    <3> QED BY <3>2, <3>3
  <2>10. Attempted(c, more, left, ls)
    BY <2>3, <2>5, <2>7, <2>8, <2>9 DEF Attempted
  <2> QED BY <2>1, <2>10
<1>8. CASE ~(lots[k].remaining >= n)
  <2>1. AfterTake(c, cur[c].need, old, lots)
    BY <1>1, <1>8
  <2>2. \A l \in DOMAIN lots : lots[l].remaining <= lots[l].remaining
    BY <1>2, LotFields
  <2>3. Attempted(c, old, cur[c].need, lots)
    BY <1>2, <1>3, <2>2 DEF Attempted
  <2> QED BY <2>1, <2>3
<1> QED BY <1>7, <1>8

LEMMA TakeKeepsInv ==
  ASSUME Inv, NEW c \in Callers, Take(c)
  PROVE  Inv'
<1>1. /\ Typed /\ Shapes /\ CreditsAreAccountedFor /\ DeferredKept /\ RevenueKept /\ ExpiryKept /\ WalletKept
      /\ CallerSound(c) /\ lots \in Seq(Lot) /\ cur[c].taken \in Seq(Pair) /\ cur[c].listed \in Listing
  BY TypedBooks, CallFields DEF Inv, Shapes
<1>2. /\ At(c, "take") /\ pc[c] = "take"
      /\ wallet' = wallet /\ outdated' = outdated /\ deferred' = deferred /\ revenue' = revenue
  BY DEF Take, At, walletVars, books
<1>3. PICK taken, need, ls : Attempted(c, taken, need, ls) /\ AfterTake(c, need, taken, ls)
  BY <1>1, TakeAttempts
<1>4. /\ taken \in Seq(Pair) /\ need \in Nat /\ ls \in Seq(Lot) /\ DOMAIN ls = DOMAIN lots
      /\ \A i \in DOMAIN taken : taken[i][1] \in DOMAIN lots
      /\ need = 0 => taken # <<>>
      /\ taken = <<>> => ls = lots /\ cur[c].taken = <<>>
  BY <1>3 DEF Attempted
<1>5. \A l \in DOMAIN lots :
       /\ ls[l].original = lots[l].original /\ ls[l].price = lots[l].price /\ ls[l].paid = lots[l].paid /\ ls[l].sold = lots[l].sold
       /\ ls[l].granted = lots[l].granted /\ ls[l].consumed = lots[l].consumed
       /\ ls[l].expired = lots[l].expired /\ ls[l].lapsed = lots[l].lapsed /\ ls[l].lost = lots[l].lost
       /\ ls[l].remaining <= lots[l].remaining
       /\ ls[l].remaining + CreditsTaken(taken, l) = lots[l].remaining + CreditsTaken(cur[c].taken, l)
  BY <1>3 DEF Attempted
<1> DEFINE rest == DOMAIN cur[c].listed \ {FirstListed(c)}
           more == need > 0 /\ rest # {}
           raises == need > 0 /\ ~more
           s == CASE more -> "take" [] ~more /\ Revenue(taken) > 0 -> "journal" [] OTHER -> "consume_event"
           m == [cur[c] EXCEPT !.need = need, !.taken = taken, !.listed = Restrict(cur[c].listed, rest)]
\* What the two outcomes have in common.
<1>6. /\ pc' \in [Callers -> Steps] /\ cur' \in [Callers -> Call] /\ Others(c) /\ CallerSound(c)'
      /\ lots' \in Seq(Lot) /\ DOMAIN lots' = DOMAIN lots
      /\ cur'[c].op # "purchase" /\ pc'[c] # "expire"
      /\ (pc'[c] = "consume_event" => RevenueFrom(cur'[c].taken, lots) = 0)
      /\ Owes(c)' \/ lots' = lots \/ \E l \in DOMAIN lots : lots'[l].lost > 0
      /\ \A l \in DOMAIN lots :
           /\ lots'[l].original = lots[l].original /\ lots'[l].price = lots[l].price /\ lots'[l].paid = lots[l].paid /\ lots'[l].sold = lots[l].sold
           /\ lots'[l].granted = lots[l].granted /\ lots'[l].consumed = lots[l].consumed
           /\ lots'[l].expired = lots[l].expired /\ lots'[l].lapsed = lots[l].lapsed
           /\ lots'[l].lost >= lots[l].lost
           /\ lots'[l].remaining <= lots[l].remaining
           /\ lots'[l].remaining + lots'[l].lost + CreditsTaken(cur'[c].taken, l)
                = lots[l].remaining + lots[l].lost + CreditsTaken(cur[c].taken, l)
  <2>1. CASE raises
    <3>1. Ends(c) /\ lots' = Losing(taken, ls)
      BY <1>3, <2>1 DEF AfterTake
    <3>2. /\ lots' \in Seq(Lot) /\ DOMAIN lots' = DOMAIN lots
          /\ \A l \in DOMAIN lots : lots'[l] = [ls[l] EXCEPT !.lost = ls[l].lost + CreditsTaken(taken, l)]
          /\ taken = <<>> => lots' = ls
      BY <1>4, <3>1, LotLosing
    <3>3. /\ pc' \in [Callers -> Steps] /\ cur' \in [Callers -> Call] /\ Others(c)
          /\ pc'[c] = "idle" /\ cur'[c] = Nothing /\ CallerSound(c)'
      BY <1>1, <3>1, <3>2, Ended
    <3>4. ASSUME NEW l \in DOMAIN lots
          PROVE  /\ lots'[l].original = lots[l].original /\ lots'[l].price = lots[l].price /\ lots'[l].paid = lots[l].paid /\ lots'[l].sold = lots[l].sold
                 /\ lots'[l].granted = lots[l].granted /\ lots'[l].consumed = lots[l].consumed
                 /\ lots'[l].expired = lots[l].expired /\ lots'[l].lapsed = lots[l].lapsed
                 /\ lots'[l].lost = lots[l].lost + CreditsTaken(taken, l)
                 /\ lots'[l].lost >= lots[l].lost
                 /\ lots'[l].remaining <= lots[l].remaining
                 /\ lots'[l].remaining + lots'[l].lost + CreditsTaken(cur'[c].taken, l)
                      = lots[l].remaining + lots[l].lost + CreditsTaken(cur[c].taken, l)
      <4>1. ls[l] \in Lot /\ lots'[l] = [ls[l] EXCEPT !.lost = ls[l].lost + CreditsTaken(taken, l)]
        BY <1>4, <3>2, LotFields
      <4>2. /\ lots'[l].original = ls[l].original /\ lots'[l].price = ls[l].price /\ lots'[l].paid = ls[l].paid /\ lots'[l].sold = ls[l].sold
            /\ lots'[l].granted = ls[l].granted /\ lots'[l].consumed = ls[l].consumed
            /\ lots'[l].expired = ls[l].expired /\ lots'[l].lapsed = ls[l].lapsed
            /\ lots'[l].lost = ls[l].lost + CreditsTaken(taken, l)
            /\ lots'[l].remaining = ls[l].remaining
        BY <4>1 DEF Lot
      <4>3. /\ lots[l].remaining \in Int /\ lots[l].lost \in Int /\ CreditsTaken(taken, l) \in Nat
            /\ CreditsTaken(cur[c].taken, l) \in Int /\ ls[l].remaining \in Int
            /\ CreditsTaken(cur'[c].taken, l) = 0
        BY <1>1, <1>4, <3>3, LotFields, CreditsTakenNat, EmptyTaken, NothingIsCall
      <4>4. /\ ls[l].lost = lots[l].lost /\ ls[l].remaining <= lots[l].remaining
            /\ ls[l].remaining + CreditsTaken(taken, l) = lots[l].remaining + CreditsTaken(cur[c].taken, l)
        BY <1>5
      <4>5. \A a, b, r, t, u \in Int : a + t = r + u => a + (b + t) + 0 = r + b + u
        OBVIOUS
      <4>6. lots'[l].remaining + lots'[l].lost + CreditsTaken(cur'[c].taken, l)
              = lots[l].remaining + lots[l].lost + CreditsTaken(cur[c].taken, l)
        BY <4>2, <4>3, <4>4, <4>5
      <4>7. lots'[l].lost >= lots[l].lost
        BY <4>2, <4>3, <4>4
      <4> QED BY <1>5, <4>2, <4>4, <4>6, <4>7
    <3>5. lots' = lots \/ \E l \in DOMAIN lots : lots'[l].lost > 0
      <4>1. CASE taken = <<>>
        BY <1>4, <3>2, <4>1
      <4>2. CASE taken # <<>>
        <5>1. 1 \in DOMAIN taken
          BY <1>4, <4>2, TakenShortened
        <5>2. taken[1][1] \in DOMAIN lots /\ CreditsTaken(taken, taken[1][1]) > 0
              /\ CreditsTaken(taken, taken[1][1]) \in Nat
          BY <1>4, <5>1, CreditsTakenNat
        <5>3. lots[taken[1][1]].lost \in Nat
          BY <1>1, <5>2, LotFields
        <5>4. lots'[taken[1][1]].lost = lots[taken[1][1]].lost + CreditsTaken(taken, taken[1][1])
          BY <3>4, <5>2
        <5>5. lots'[taken[1][1]].lost > 0
          BY <5>2, <5>3, <5>4
        <5> QED BY <5>2, <5>5
      <4> QED BY <4>1, <4>2
    <3> QED BY <3>2, <3>3, <3>4, <3>5, NothingIsCall
  <2>2. CASE ~raises
    <3>1. Goes(c, s) /\ cur' = [cur EXCEPT ![c] = m] /\ lots' = ls
      BY <1>3, <2>2 DEF AfterTake
    <3>2. s \in Steps /\ s \in {"take", "journal", "consume_event"}
      BY DEF Steps
    <3>3. Restrict(cur[c].listed, rest) \in Listing /\ DOMAIN Restrict(cur[c].listed, rest) = rest
          /\ rest \subseteq DOMAIN lots
      <4>1. PICK L \in SUBSET (Nat \ {0}) : cur[c].listed \in [L -> Nat \ {0}]
        BY <1>1 DEF Listing
      <4>2. rest \subseteq L /\ \A l \in rest : cur[c].listed[l] \in Nat \ {0}
        BY <4>1
      <4>3. Restrict(cur[c].listed, rest) \in [rest -> Nat \ {0}]
        BY <4>2 DEF Restrict
      <4>4. rest \in SUBSET (Nat \ {0})
        BY <4>1, <4>2
      <4>5. rest \subseteq DOMAIN lots
        BY <1>1 DEF CallerSound
      <4> HIDE DEF rest
      <4> QED BY <4>3, <4>4, <4>5 DEF Listing
    <3>4. /\ m \in Call /\ m.taken = taken /\ m.need = need /\ m.op = cur[c].op /\ DOMAIN m.listed = rest
      <4>1. cur[c] \in Call
        BY <1>1, CallFields
      <4> HIDE DEF rest
      <4>2. /\ m \in Call /\ m.taken = taken /\ m.need = need /\ m.op = cur[c].op
            /\ m.listed = Restrict(cur[c].listed, rest)
        BY <1>4, <3>3, <4>1 DEF Call
      <4> HIDE DEF m
      <4> QED BY <3>3, <4>2
    <3> HIDE DEF m
    <3>5. /\ pc' \in [Callers -> Steps] /\ cur' \in [Callers -> Call] /\ Others(c)
          /\ pc'[c] = s /\ cur'[c] = m
      <4> HIDE DEF s
      <4> QED BY <1>1, <3>1, <3>2, <3>4, MovedWith
    <3>6. cur[c].op # "purchase"
      BY <1>1, <1>2 DEF CallerSound
    <3>7. (s = "take" => more) /\ (s # "take" => need = 0)
      <4>1. CASE more
        BY <4>1
      <4>2. CASE ~more
        <5>1. ~(need > 0)
          BY <2>2, <4>2
        <5>2. need = 0
          BY <1>4, <5>1
        <5> QED BY <4>2, <5>2
      <4> QED BY <4>1, <4>2
    <3>8. s = "consume_event" => RevenueFrom(taken, lots) = 0
      <4>1. RevenueFrom(taken, lots) \in Nat
        BY <1>1, <1>4, WorthIsSeq
      <4>2. s = "consume_event" => ~(Revenue(taken) > 0)
        OBVIOUS
      <4> HIDE DEF s
      <4> QED BY <4>1, <4>2, RevenueIsWorth
    <3>9. (s = "take" => rest # {} /\ need > 0) /\ (s # "take" => taken # <<>>)
      <4>1. s = "take" => rest # {} /\ need > 0
        BY <3>7
      <4> HIDE DEF s
      <4> QED BY <1>4, <3>7, <4>1
    <3> HIDE DEF s, rest
    <3>10. CallerSound(c)'
      <4>1. DOMAIN lots' = DOMAIN lots
        BY <1>4, <3>1
      <4> QED BY <1>4, <3>2, <3>3, <3>4, <3>5, <3>6, <3>9, <4>1 DEF CallerSound
    <3>11. Owes(c)' \/ lots' = lots
      <4>1. CASE taken = <<>>
        BY <1>4, <3>1, <4>1
      <4>2. CASE taken # <<>>
        BY <3>2, <3>4, <3>5, <4>2 DEF Owes
      <4> QED BY <4>1, <4>2
    <3>12. ASSUME NEW l \in DOMAIN lots
           PROVE  /\ lots'[l].lost >= lots[l].lost
                  /\ lots'[l].remaining + lots'[l].lost + CreditsTaken(cur'[c].taken, l)
                       = lots[l].remaining + lots[l].lost + CreditsTaken(cur[c].taken, l)
      <4>1. /\ lots[l].remaining \in Int /\ lots[l].lost \in Int /\ CreditsTaken(taken, l) \in Int
            /\ CreditsTaken(cur[c].taken, l) \in Int /\ ls[l].remaining \in Int
        BY <1>1, <1>4, LotFields, CreditsTakenNat
      <4>2. /\ lots'[l].lost = lots[l].lost /\ lots'[l].remaining = ls[l].remaining
            /\ CreditsTaken(cur'[c].taken, l) = CreditsTaken(taken, l)
            /\ ls[l].remaining + CreditsTaken(taken, l) = lots[l].remaining + CreditsTaken(cur[c].taken, l)
        BY <1>5, <3>1, <3>4, <3>5
      <4>3. \A a, b, r, t, u \in Int : a + t = r + u => a + b + t = r + b + u
        OBVIOUS
      <4>4. lots'[l].remaining + lots'[l].lost + CreditsTaken(cur'[c].taken, l)
                       = lots[l].remaining + lots[l].lost + CreditsTaken(cur[c].taken, l)
        BY <4>1, <4>2, <4>3
      <4>5. lots'[l].lost >= lots[l].lost
        BY <4>1, <4>2
      <4> QED BY <4>4, <4>5
    <3>13. pc'[c] # "expire" /\ (pc'[c] = "consume_event" => RevenueFrom(cur'[c].taken, lots) = 0)
           /\ cur'[c].op # "purchase"
      BY <3>2, <3>4, <3>5, <3>6, <3>8
    <3> QED BY <1>4, <1>5, <3>1, <3>5, <3>10, <3>11, <3>12, <3>13
  <2> QED BY <2>1, <2>2
<1> HIDE DEF rest, more, raises, s, m
<1>7. Typed' /\ failures' = failures
  BY <1>1, <1>2, <1>6, TypedBooks, StillTyped
<1>8. LotsStay
  BY <1>6 DEF LotsStay
<1>9. Shapes'
  <2>1. \A l \in DOMAIN lots' : lots'[l].granted <= lots'[l].original
    BY <1>1, <1>6 DEF Shapes
  <2> QED BY <1>1, <1>6, <1>8, <2>1, OthersStaySound DEF Shapes
<1>10. CreditsAreAccountedFor'
  <2>1. ASSUME NEW l \in DOMAIN lots
        PROVE  lots'[l].original - lots'[l].remaining - lots'[l].consumed - lots'[l].lost
                 - CreditsTaken(cur'[c].taken, l)
               = lots[l].original - lots[l].remaining - lots[l].consumed - lots[l].lost
                 - CreditsTaken(cur[c].taken, l)
    <3>1. /\ lots[l].original \in Int /\ lots[l].remaining \in Int /\ lots[l].consumed \in Int /\ lots[l].lost \in Int
          /\ CreditsTaken(cur[c].taken, l) \in Int
      BY <1>1, LotFields, CreditsTakenNat
    <3>2. lots'[l].remaining \in Int /\ lots'[l].lost \in Int /\ CreditsTaken(cur'[c].taken, l) \in Int
      <4>1. cur'[c].taken \in Seq(Pair)
        BY <1>6 DEF Call
      <4> QED BY <1>6, <4>1, LotFields, CreditsTakenNat
    <3>3. \A o, q, r, w, t \in Int : o - r - q - w - t = (o - q) - (r + w + t)
      OBVIOUS
    <3>4. /\ lots'[l].original = lots[l].original /\ lots'[l].consumed = lots[l].consumed
          /\ lots'[l].remaining + lots'[l].lost + CreditsTaken(cur'[c].taken, l)
               = lots[l].remaining + lots[l].lost + CreditsTaken(cur[c].taken, l)
      BY <1>6
    <3>5. lots[l].original - lots[l].remaining - lots[l].consumed - lots[l].lost - CreditsTaken(cur[c].taken, l)
            = (lots[l].original - lots[l].consumed)
                - (lots[l].remaining + lots[l].lost + CreditsTaken(cur[c].taken, l))
      BY <3>1, <3>3
    <3>6. lots'[l].original \in Int /\ lots'[l].consumed \in Int
      BY <3>1, <3>4
    <3>7. lots'[l].original - lots'[l].remaining - lots'[l].consumed - lots'[l].lost
              - CreditsTaken(cur'[c].taken, l)
            = (lots'[l].original - lots'[l].consumed)
                - (lots'[l].remaining + lots'[l].lost + CreditsTaken(cur'[c].taken, l))
      BY <3>2, <3>3, <3>6
    <3> QED BY <3>4, <3>5, <3>7
  <2> QED BY <1>1, <1>6, <1>7, <2>1, AccountsStay
<1>11. cur[c].op # "purchase"
  BY <1>1, <1>2 DEF CallerSound
<1>12. DeferredKept'
  BY <1>1, <1>2, <1>6, <1>7, <1>8, <1>11, DeferredStays
<1>13. RevenueKept'
  <2>1. Due(c)' = Due(c)
    <3>1. \A i \in DOMAIN cur'[c].taken : lots'[cur'[c].taken[i][1]].price = lots[cur'[c].taken[i][1]].price
      BY <1>6 DEF CallerSound
    <3>2. RevenueFrom(cur'[c].taken, lots') = RevenueFrom(cur'[c].taken, lots)
      BY <3>1, WorthSame
    <3> QED BY <1>2, <1>6, <3>2 DEF Due
  <2> QED BY <1>1, <1>2, <1>6, <1>7, <1>8, <2>1, RevenueStays
<1>14. ExpiryKept'
  <2>1. \A l \in DOMAIN lots : lots'[l].lapsed >= lots[l].lapsed
    <3>1. \A l \in DOMAIN lots : lots[l].lapsed \in Nat
      BY <1>1, LotFields
    <3> QED BY <1>6, <3>1
  <2> QED BY <1>1, <1>2, <1>6, <1>7, <2>1, ExpiryStays
<1>15. WalletKept'
  <2>1. NothingLost' => NothingLost
    BY <1>1, <1>6, <1>7, NothingIsFound
  <2>2. CASE Owes(c)'
    BY <2>2 DEF WalletKept
  <2>3. CASE \E l \in DOMAIN lots : lots'[l].lost > 0
    <3>1. ~NothingLost'
      BY <1>6, <2>3 DEF NothingLost
    <3> QED BY <3>1 DEF WalletKept
  <2>4. CASE lots' = lots
    <3>1. Total' = Total
      BY <2>4, TotalStays
    <3>2. CASE ~Owes(c)
      BY <1>1, <1>2, <1>6, <2>1, <3>1, <3>2, WalletStays
    <3>3. CASE Owes(c)
      <4>1. cur[c].taken # <<>>
        BY <1>2, <3>3 DEF Owes
      <4>2. 1 \in DOMAIN cur[c].taken /\ cur[c].taken[1][1] \in DOMAIN lots
        BY <1>1, <4>1, TakenShortened DEF CallerSound
      <4> DEFINE l == cur[c].taken[1][1]
      <4>3. CreditsTaken(cur[c].taken, l) > 0 /\ CreditsTaken(cur[c].taken, l) \in Nat
        BY <1>1, <4>2, CreditsTakenNat
      <4>4. lots[l].remaining \in Int /\ lots[l].lost \in Int
        BY <1>1, <4>2, LotFields
      <4>5. CreditsTaken(cur'[c].taken, l) \in Nat
        <5>1. cur'[c].taken \in Seq(Pair)
          BY <1>6 DEF Call
        <5> QED BY <5>1, CreditsTakenNat
      <4>6. CreditsTaken(cur'[c].taken, l) = CreditsTaken(cur[c].taken, l)
        <5>1. \A r, w, t, u \in Int : r + w + t = r + w + u => t = u
          OBVIOUS
        <5>2. lots[l].remaining + lots[l].lost + CreditsTaken(cur'[c].taken, l)
                = lots[l].remaining + lots[l].lost + CreditsTaken(cur[c].taken, l)
          BY <1>6, <2>4, <4>2
        <5> QED BY <4>3, <4>4, <4>5, <5>1, <5>2
      <4>7. cur'[c].taken # <<>>
        <5>1. CreditsTaken(<<>>, l) = 0
          BY EmptyTaken
        <5> QED BY <4>3, <4>6, <5>1
      <4>8. Owes(c)'
        <5>1. pc'[c] \in {"take", "journal", "consume_event"}
          BY <1>6, <4>7 DEF CallerSound
        <5> QED BY <4>7, <5>1 DEF Owes
      <4> QED BY <4>8 DEF WalletKept
    <3> QED BY <3>2, <3>3
  <2> QED BY <1>6, <2>2, <2>3, <2>4
<1> QED BY <1>7, <1>9, <1>10, <1>12, <1>13, <1>14, <1>15 DEF Inv

-----------------------------------------------------------------------------
(* The theorems *)

\* A sum over the callers that is zero for each of them.
LEMMA NoneHas ==
  ASSUME NEW f, DOMAIN f = Callers, \A c \in Callers : f[c] = 0
  PROVE  SumFunction(f) = 0
<1>1. SumFunctionOnSet(f, Callers) = 0
  BY CreditLotsAssumption, SumZero DEF CreditLotsAssumption
<1> QED BY <1>1 DEF SumFunction

LEMMA InitInv ==
  ASSUME Init
  PROVE  Inv
<1>1. lots = <<>> /\ lots \in Seq(Lot) /\ DOMAIN lots = {}
  BY DEF Init
<1>2. \A c \in Callers : pc[c] = "idle" /\ cur[c] = Nothing
  BY DEF Init
<1>3. Typed
  <2>1. AccountsTyped
    <3>1. wallet \in Int /\ (Welcome # 0) \in BOOLEAN
      BY CreditLotsAssumption DEF Init, CreditLotsAssumption
    <3>2. 0 \in 0 .. MaxCalls /\ 0 \in 0 .. MaxEdits /\ 0 \in 0 .. MaxFailures
      BY CreditLotsAssumption DEF CreditLotsAssumption
    <3> QED BY <1>1, <3>1, <3>2 DEF Init, AccountsTyped
  <2>2. pc \in [Callers -> Steps] /\ cur \in [Callers -> Call]
    BY NothingIsCall DEF Init, Steps
  <2> QED BY <2>1, <2>2 DEF Typed
<1>4. Shapes
  <2>1. ASSUME NEW c \in Callers PROVE CallerSound(c)
    <3>1. DOMAIN cur[c].taken = {}
      BY <1>2, NothingIsCall
    <3> QED BY <1>2, <3>1, NothingIsCall DEF CallerSound
  <2> QED BY <1>1, <2>1 DEF Shapes
<1>5. CreditsAreAccountedFor
  BY <1>1 DEF CreditsAreAccountedFor
<1>6. DeferredKept
  <2> DEFINE f == [l \in DOMAIN lots |-> Owed(l)]
             g == [c \in Callers |-> Pending(c)]
  <2>1. SumFunction(f) = 0
    <3>1. DOMAIN f = {}
      BY <1>1
    <3> HIDE DEF f
    <3> QED BY <3>1, SumEmpty DEF SumFunction
  <2>2. SumFunction(g) = 0
    <3>1. \A c \in Callers : g[c] = 0
      BY <1>2, NothingIsCall DEF Pending
    <3>2. DOMAIN g = Callers
      OBVIOUS
    <3> HIDE DEF g
    <3> QED BY <3>1, <3>2, NoneHas
  <2>3. deferred = 0
    BY DEF Init
  <2> HIDE DEF f, g
  <2>4. deferred = SumFunction(f) - SumFunction(g)
    BY <2>1, <2>2, <2>3
  <2> QED BY <2>4 DEF DeferredKept, f, g
<1>7. RevenueKept
  <2> DEFINE f == [l \in DOMAIN lots |-> Earned(l)]
             g == [c \in Callers |-> Due(c)]
  <2>1. SumFunction(f) = 0
    <3>1. DOMAIN f = {}
      BY <1>1
    <3> HIDE DEF f
    <3> QED BY <3>1, SumEmpty DEF SumFunction
  <2>2. SumFunction(g) = 0
    <3>1. \A c \in Callers : g[c] = 0
      BY <1>2 DEF Due
    <3>2. DOMAIN g = Callers
      OBVIOUS
    <3> HIDE DEF g
    <3> QED BY <3>1, <3>2, NoneHas
  <2>3. revenue = 0
    BY DEF Init
  <2> HIDE DEF f, g
  <2>4. revenue = SumFunction(f) + SumFunction(g)
    BY <2>1, <2>2, <2>3
  <2> QED BY <2>4 DEF RevenueKept, f, g
<1>8. ExpiryKept
  BY <1>1, <1>2 DEF ExpiryKept
<1>9. WalletKept
  <2> DEFINE f == [l \in DOMAIN lots |-> IF lots[l].expired THEN 0 ELSE lots[l].remaining]
  <2>1. SumFunction(f) = 0
    <3>1. DOMAIN f = {}
      BY <1>1
    <3> HIDE DEF f
    <3> QED BY <3>1, SumEmpty DEF SumFunction
  <2>2. Total = 0
    BY <2>1 DEF Total
  <2> QED BY <2>2 DEF WalletKept, Init
<1> QED BY <1>3, <1>4, <1>5, <1>6, <1>7, <1>8, <1>9 DEF Inv

LEMMA NextKeepsInv ==
  ASSUME Inv, [Next]_vars
  PROVE  Inv'
<1>1. ASSUME NEW c \in Callers, NEW op \in {"create", "purchase"}, NEW offer \in Offers, CreateLot(c, op, offer)
      PROVE  Inv'
  BY <1>1, CreateLotKeepsInv
<1>2. ASSUME NEW c \in Callers, GrantEvent(c) \/ AppendPurchase(c)
      PROVE  Inv'
  BY <1>2, GrantEventKeepsInv, AppendPurchaseKeepsInv
<1>3. ASSUME NEW c \in Callers, NEW need \in Needs, ConsumeList(c, need)
      PROVE  Inv'
  BY <1>3, ConsumeListKeepsInv
<1>4. ASSUME NEW c \in Callers, Take(c) \/ RecognizeRevenue(c) \/ ConsumeEvent(c)
      PROVE  Inv'
  BY <1>4, TakeKeepsInv, RecognizeRevenueKeepsInv, ConsumeEventKeepsInv
<1>5. ASSUME NEW c \in Callers, NEW l \in DOMAIN lots, ExpireRead(c, l)
      PROVE  Inv'
  BY <1>5, ExpireReadKeepsInv
<1>6. ASSUME NEW c \in Callers, ExpireWrite(c) \/ ExpireEvent(c)
      PROVE  Inv'
  BY <1>6, ExpireWriteKeepsInv, ExpireEventKeepsInv
<1>7. ASSUME NEW c \in Callers, SumLots(c) \/ SetWallet(c) \/ Fail(c)
      PROVE  Inv'
  BY <1>7, SumLotsKeepsInv, SetWalletKeepsInv, FailKeepsInv
<1>8. ASSUME NEW credits \in Needs, AdminSetsCredits(credits)
      PROVE  Inv'
  BY <1>8, AdminSetsCreditsKeepsInv
<1>9. CASE UNCHANGED vars
  <2>1. UNCHANGED <<lots, deferred, revenue, pc, cur, failures>> /\ UNCHANGED <<wallet, outdated, calls, edits>>
    BY <1>9 DEF vars
  <2>2. Shapes' /\ CreditsAreAccountedFor' /\ DeferredKept' /\ RevenueKept' /\ ExpiryKept'
    BY <2>1, AccountsUntouched
  <2>3. Typed'
    BY <2>1 DEF Inv, Typed, AccountsTyped
  <2>4. Total' = Total
    BY <2>1, TotalStays
  <2>5. (NothingLost' <=> NothingLost) /\ \A c \in Callers : Owes(c)' <=> Owes(c)
    BY <2>1 DEF NothingLost, Owes
  <2>6. WalletKept'
    BY <2>1, <2>4, <2>5 DEF Inv, WalletKept
  <2> QED BY <2>2, <2>3, <2>6 DEF Inv
<1> QED BY <1>1, <1>2, <1>3, <1>4, <1>5, <1>6, <1>7, <1>8, <1>9 DEF Next

\* The accounts, the events and the wallet are kept in step with the lots by every
\* statement of create_lot, purchase_product, consume_credits and expire_lot, but
\* for what the calls still at work have in their hands.
THEOREM InvHolds == Spec => []Inv
<1>1. Init => Inv
  BY InitInv
<1>2. Inv /\ [Next]_vars => Inv'
  BY NextKeepsInv
<1> QED BY <1>1, <1>2, PTL DEF Spec

\* What the consumption journals moved is the revenue recognised, but for what
\* rounding to four places takes or adds.
Rounded == /\ moved \in Nat /\ journals \in Nat
           /\ moved <= revenue + 5 * journals /\ revenue <= moved + 5 * journals

LEMMA RoundedStays ==
  ASSUME Inv, Rounded, [Next]_vars
  PROVE  Rounded'
<1>1. CASE UNCHANGED <<revenue, moved, journals>>
  BY <1>1 DEF Rounded
<1>2. ASSUME NEW c \in Callers, RecognizeRevenue(c) PROVE Rounded'
  <2>1. CallerSound(c) /\ cur[c].taken \in Seq(Pair) /\ lots \in Seq(Lot) /\ revenue \in Nat
    BY CallFields, TypedBooks DEF Inv, Shapes
  <2>2. Revenue(cur[c].taken) \in Nat
    BY <2>1, RevenueIsWorth, WorthIsSeq DEF CallerSound
  <2> DEFINE r == Revenue(cur[c].taken)
  <2>3. revenue' = revenue + r /\ moved' = moved + Round4(r) /\ journals' = journals + 1
    BY <1>2 DEF RecognizeRevenue
  <2> HIDE DEF r
  <2>4. r \in Nat /\ Round4(r) \in Nat /\ Round4(r) <= r + 5 /\ r <= Round4(r) + 5
    BY <2>2, RoundedNear DEF r
  <2>5. \A m, b, n, x, y \in Nat :
          /\ m <= b + 5 * n /\ b <= m + 5 * n /\ y <= x + 5 /\ x <= y + 5
          => m + y <= b + x + 5 * (n + 1) /\ b + x <= m + y + 5 * (n + 1)
    OBVIOUS
  <2> QED BY <2>1, <2>3, <2>4, <2>5 DEF Rounded
<1> QED BY <1>1, <1>2
     DEF Next, vars, books, CreateLot, GrantEvent, AppendPurchase, ConsumeList, Take, ConsumeEvent,
         ExpireRead, ExpireWrite, ExpireEvent, SumLots, SetWallet, Fail, AdminSetsCredits

\* The rounding of the consumption journals never adds up to more than half a unit of
\* the fourth place for each of them (_quantize_4dp in create_journal).
THEOREM RoundedAlways == Spec => []Rounded
<1>1. Init => Rounded
  BY DEF Init, Rounded
<1> QED BY <1>1, InvHolds, RoundedStays, PTL DEF Spec

\* No lot of a user is taken below zero, and every credit taken from a lot is
\* recorded by an event, or in the hands of a call that has yet to write its event,
\* or was taken by a call that raised, whatever calls of consume_credits overlap.
THEOREM LotsStaySound == Spec => []LotsAreSound
<1>1. Inv /\ Rounded => LotsAreSound
  BY DEF Inv, Typed, Rounded, TypeOK, LotsAreSound
<1> QED BY <1>1, InvHolds, RoundedAlways, PTL

\* Once the calls have returned they have nothing in their hands.
LEMMA HandsAreEmpty ==
  ASSUME Inv, AtRest, NEW c \in Callers
  PROVE  /\ cur[c] = Nothing /\ Pending(c) = 0 /\ Due(c) = 0 /\ ~Owes(c)
         /\ \A l : CreditsTaken(cur[c].taken, l) = 0 /\ ~Explains(c, l)
<1>1. pc[c] = "idle" /\ cur[c] = Nothing
  BY DEF Inv, Shapes, CallerSound, AtRest
<1>2. cur[c].op = "none" /\ cur[c].taken = <<>>
  BY <1>1, NothingIsCall
<1> QED BY <1>1, <1>2, EmptyTaken DEF Pending, Due, Owes, Explains

LEMMA ConsumedAtRest ==
  ASSUME Inv, AtRest, NEW l \in DOMAIN lots
  PROVE  lots[l].consumed = lots[l].original - lots[l].remaining - lots[l].lost
<1> DEFINE f == [c \in Callers |-> CreditsTaken(cur[c].taken, l)]
<1>1. SumFunction(f) = 0
  <2>1. \A c \in Callers : f[c] = 0
    BY HandsAreEmpty
  <2>2. DOMAIN f = Callers
    OBVIOUS
  <2> HIDE DEF f
  <2> QED BY <2>1, <2>2, NoneHas
<1>2. lots[l].original - lots[l].remaining = lots[l].consumed + lots[l].lost + SumFunction(f)
  BY DEF Inv, CreditsAreAccountedFor
<1> HIDE DEF f
<1>3. /\ lots[l].lost \in Nat /\ lots[l].consumed \in Nat
      /\ lots[l].original \in Nat /\ lots[l].remaining \in Nat
  BY LotFields DEF Inv, Typed, AccountsTyped
<1> QED BY <1>1, <1>2, <1>3

LEMMA DeferredInTheEnd ==
  ASSUME Inv, Rounded
  PROVE  DeferredIsOwed
<1> SUFFICES ASSUME AtRest, failures = 0 PROVE DeferredIsOwed
  BY DEF DeferredIsOwed
<1> DEFINE left(l) == KeptFor(lots[l])
           f == [l \in DOMAIN lots |-> left(l)]
           g == [l \in DOMAIN lots |-> Earned(l)]
           h == [l \in DOMAIN lots |-> Owed(l)]
           p == [c \in Callers |-> Pending(c)]
           d == [c \in Callers |-> Due(c)]
<1>1. SumFunction(p) = 0 /\ SumFunction(d) = 0
  <2>1. \A c \in Callers : p[c] = 0 /\ d[c] = 0
    BY HandsAreEmpty
  <2>2. DOMAIN p = Callers /\ DOMAIN d = Callers
    OBVIOUS
  <2> HIDE DEF p, d
  <2> QED BY <2>1, <2>2, NoneHas
<1>2. IsFiniteSet(DOMAIN lots)
  BY LotsAreFinite DEF Inv, Typed, AccountsTyped
<1>3. ASSUME NEW l \in DOMAIN lots
      PROVE  left(l) \in Int /\ Earned(l) \in Int /\ Owed(l) = left(l) + Earned(l)
  <2>1. /\ lots[l].price \in Nat /\ lots[l].original \in Nat /\ lots[l].remaining \in Nat
        /\ lots[l].consumed \in Nat /\ lots[l].lost \in Nat /\ Owed(l) \in Nat
    BY <1>3, LotFields DEF Inv, Typed, AccountsTyped, Owed
  <2>2. lots[l].consumed = lots[l].original - lots[l].remaining - lots[l].lost
    BY <1>3, ConsumedAtRest
  <2>3. left(l) = lots[l].price * (lots[l].remaining + lots[l].lost) + Owed(l) - lots[l].price * lots[l].original
    BY DEF KeptFor, Owed
  <2>4. Earned(l) = lots[l].price * (lots[l].original - lots[l].remaining - lots[l].lost)
    BY <2>2 DEF Earned
  <2>5. \A b, o, r, w, x \in Int : /\ b * (r + w) + x - b * o \in Int /\ b * (o - r - w) \in Int
                                   /\ x = (b * (r + w) + x - b * o) + b * (o - r - w)
    OBVIOUS
  <2> HIDE DEF left
  <2> QED BY <2>1, <2>3, <2>4, <2>5
<1>4. \A l \in DOMAIN lots : f[l] \in Int /\ g[l] \in Int /\ h[l] = f[l] + g[l]
  BY <1>3
<1>5. DOMAIN f = DOMAIN lots /\ DOMAIN g = DOMAIN lots /\ DOMAIN h = DOMAIN lots
  OBVIOUS
<1>6. deferred = SumFunction(h) - SumFunction(p) /\ revenue = SumFunction(g) + SumFunction(d)
  BY DEF Inv, DeferredKept, RevenueKept
<1> HIDE DEF left, f, g, h, p, d
<1>7. SumFunction(h) = SumFunction(f) + SumFunction(g)
  BY <1>2, <1>4, <1>5, SumAdded DEF SumFunction
<1>8. SumFunction(f) \in Int /\ SumFunction(g) \in Int
  BY <1>2, <1>4, <1>5, SumInt DEF SumFunction
<1>9. deferred - revenue = SumFunction(f)
  BY <1>1, <1>6, <1>7, <1>8
<1>10. /\ deferred \in Nat /\ revenue \in Nat /\ moved \in Nat /\ journals \in Nat
       /\ moved <= revenue + 5 * journals /\ revenue <= moved + 5 * journals
  BY DEF Inv, Typed, AccountsTyped, Rounded
<1>11. \A a, b, m, n, x \in Int : /\ m <= b + 5 * n /\ b <= m + 5 * n /\ a - b = x
                                  => a - m - x \in -5 * n .. 5 * n
  OBVIOUS
<1>12. deferred - moved - SumFunction(f) \in -5 * journals .. 5 * journals
  BY <1>8, <1>9, <1>10, <1>11
<1> QED BY <1>12 DEF DeferredIsOwed, f, left

LEMMA ExpiryInTheEnd ==
  ASSUME Inv
  PROVE  ExpiryIsExplained
<1> SUFFICES ASSUME AtRest, failures = 0, NEW l \in DOMAIN lots, lots[l].expired
             PROVE  lots[l].consumed + lots[l].lost + lots[l].lapsed >= lots[l].granted
  BY DEF ExpiryIsExplained
<1>1. lots[l].lapsed >= lots[l].remaining
  BY HandsAreEmpty DEF Inv, ExpiryKept
<1>2. lots[l].granted <= lots[l].original
  BY DEF Inv, Shapes
<1>3. lots[l].consumed = lots[l].original - lots[l].remaining - lots[l].lost
  BY ConsumedAtRest
<1>4. /\ lots[l].granted \in Nat /\ lots[l].consumed \in Nat /\ lots[l].lapsed \in Nat
      /\ lots[l].original \in Nat /\ lots[l].remaining \in Nat /\ lots[l].lost \in Nat
  BY LotFields DEF Inv, Typed, AccountsTyped
<1> QED BY <1>1, <1>2, <1>3, <1>4

\* Once all calls have returned, and none of them was cut short, the deferred revenue
\* account keeps what was paid less the unit price of every credit consumed once, within
\* 0.00005 a journal, the events of an expired lot explain all of its credits, and the wallet has the lots' total unless whoever set
\* it last was overtaken (consume_credits, expire_lot, _sync_wallet).
THEOREM AccountsStayInStep == Spec => []AccountsFollowLots
<1>1. Inv /\ Rounded => DeferredIsOwed
  BY DeferredInTheEnd
<1>2. Inv => ExpiryIsExplained
  BY ExpiryInTheEnd
<1>3. Inv => WalletFollowsLots
  BY HandsAreEmpty DEF Inv, WalletKept, WalletFollowsLots
<1>4. Inv /\ Rounded => AccountsFollowLots
  BY <1>1, <1>2, <1>3 DEF AccountsFollowLots
<1> QED BY <1>4, InvHolds, RoundedAlways, PTL
=====================================================================================
