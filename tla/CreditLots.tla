------------------------------- MODULE CreditLots -------------------------------
(***************************************************************************)
(* The credit lots of a user: buying, granting, consuming and expiring      *)
(* credits, the events that record it, the deferred and recognised revenue  *)
(* it causes, and the wallet in users_credits that repeats the lots' total. *)
(*                                                                          *)
(* Every SQL statement commits by itself, so an action is one statement     *)
(* with the Python code up to the next.  The lots of different users have   *)
(* nothing in common; the model has those of one user.                      *)
(***************************************************************************)
EXTENDS Integers, Sequences, FiniteSets, SequencesExt

CONSTANTS
  Callers,       \* coroutines running an operation
  Offers,        \* what a lot is created with: its credits and what was paid for them
  Needs,         \* how many credits a service asks for
  Welcome,       \* the wallet a new user is given
  MaxLots,       \* bound: lots created
  MaxCalls,      \* bound: operations started
  MaxEdits,      \* bound: times an administrator sets the wallet
  MaxFailures    \* bound: operations cut short by an error or a restart

ASSUME CreditLotsAssumption ==
  /\ IsFiniteSet(Callers)
  /\ Offers \subseteq [credits : Nat, paid : Nat]
  /\ Needs \subseteq Int
  /\ Welcome \in Nat
  /\ MaxLots \in Nat /\ MaxCalls \in Nat /\ MaxEdits \in Nat /\ MaxFailures \in Nat

VARIABLES
  lots,          \* finance_credit_lots by recid, each with what its events add up to
  wallet,        \* element_credits of users_credits
  deferred,      \* what purchases credited to the deferred revenue account
  revenue,       \* the revenue that consumptions have recognised
  moved,         \* what their journals moved from there to recognised revenue
  journals,      \* how many journals that were
  pc, cur,       \* where each caller is and what it knows
  outdated,      \* history: the wallet did not have the lots' total when it was last set
  calls, edits, failures

books == <<deferred, revenue, moved, journals>>
walletVars == <<wallet, outdated>>
counters == <<calls, edits, failures>>
vars == <<lots, wallet, deferred, revenue, moved, journals, pc, cur, outdated, calls, edits, failures>>

-----------------------------------------------------------------------------
(* Lots *)

\* Amounts are in units of 0.00001.  paid is total_paid if the source type is
\* "purchase" and 0 otherwise, and so is price, the revenue that a consumed credit
\* stands for.  sold tells the lots of purchase_product from those an administrator
\* enters.  granted, consumed and lapsed add up the events of the lot; lost is
\* history, the credits that were taken by calls that raised.
Lot == [original : Nat, remaining : Nat, price : Nat, paid : Nat, sold : BOOLEAN,
        expired : BOOLEAN, granted : Nat, consumed : Nat, lapsed : Nat, lost : Nat]

\* What was paid for a credit, to five places and half up.
UnitPrice(offer) ==
  IF offer.credits > 0 THEN (2 * offer.paid + offer.credits) \div (2 * offer.credits) ELSE 0

\* _quantize_4dp, by which create_journal rounds the amounts of its lines.
Round4(amount) == 10 * ((amount + 5) \div 10)

NewLot(offer, sold) ==
  [original |-> offer.credits, remaining |-> offer.credits, price |-> UnitPrice(offer),
   paid |-> offer.paid, sold |-> sold, expired |-> FALSE, granted |-> 0, consumed |-> 0, lapsed |-> 0, lost |-> 0]

\* sum_remaining_by_user_v1; no statement changes element_status.
Total == SumFunction([l \in DOMAIN lots |-> IF lots[l].expired THEN 0 ELSE lots[l].remaining])

\* What a caller remembers of its call: what the lots it has listed and not tried
\* had, the credits it needs, the <<lot, credits>> it has taken, and the sum or the rest it has read.
Nothing == [op |-> "none", listed |-> <<>>, need |-> 0, taken |-> <<>>, lot |-> 0, read |-> 0]

-----------------------------------------------------------------------------
(* Calls *)

Starts(c, op) == /\ pc[c] = "idle"
                 /\ calls < MaxCalls
                 /\ calls' = calls + 1
                 /\ UNCHANGED <<edits, failures>>

At(c, step) == pc[c] = step /\ UNCHANGED counters

Goes(c, step) == pc' = [pc EXCEPT ![c] = step]

Ends(c) == Goes(c, "idle") /\ cur' = [cur EXCEPT ![c] = Nothing]

CreditsTaken(taken, l) ==
  SumFunction([i \in DOMAIN taken |-> IF taken[i][1] = l THEN taken[i][2] ELSE 0])

\* The lots after a call with these credits taken has raised.
Losing(taken, ls) == [l \in DOMAIN ls |-> [ls[l] EXCEPT !.lost = @ + CreditsTaken(taken, l)]]

-----------------------------------------------------------------------------
(* create_lot, and purchase_product for a credit purchase *)

CreateLot(c, op, offer) ==
  /\ op \in {"create", "purchase"}
  /\ Starts(c, op)
  /\ Len(lots) < MaxLots
  /\ lots' = Append(lots, NewLot(offer, op = "purchase"))
  /\ Goes(c, "grant_event")
  /\ cur' = [cur EXCEPT ![c] = [Nothing EXCEPT !.op = op, !.lot = Len(lots) + 1]]
  /\ UNCHANGED <<walletVars, books>>

GrantEvent(c) ==
  /\ At(c, "grant_event")
  /\ lots' = [lots EXCEPT ![cur[c].lot].granted = lots[cur[c].lot].original]
  /\ Goes(c, "sum")
  /\ UNCHANGED <<walletVars, books, cur>>

\* _append_balanced_journal_lines credits all that was paid, to five places; module
\* Journal has its two transactions.
AppendPurchase(c) ==
  /\ At(c, "append")
  /\ deferred' = deferred + lots[cur[c].lot].paid
  /\ Ends(c)
  /\ UNCHANGED <<lots, walletVars, revenue, moved, journals>>

-----------------------------------------------------------------------------
(* consume_credits *)

\* list_lots_by_user_v1
Usable == [l \in {l \in DOMAIN lots : ~lots[l].expired /\ lots[l].remaining > 0} |-> lots[l].remaining]

ConsumeList(c, need) ==
  /\ Starts(c, "consume")
  /\ need > 0
  /\ IF DOMAIN Usable # {}
     THEN /\ Goes(c, "take")
          /\ cur' = [cur EXCEPT ![c] = [Nothing EXCEPT !.op = "consume", !.listed = Usable,
                                                       !.need = need]]
     ELSE UNCHANGED <<pc, cur>>
  /\ UNCHANGED <<lots, walletVars, books>>

Revenue(taken) == SumFunction([i \in DOMAIN taken |-> taken[i][2] * lots[taken[i][1]].price])

\* The lots are tried in the order of their recids.
FirstListed(c) == Min(DOMAIN cur[c].listed)

\* After an attempt on the first of the lots listed: take more, raise if there
\* are no more lots, or go on to the journal, if there is revenue, and the events.
AfterTake(c, need, taken, ls) ==
  LET rest == DOMAIN cur[c].listed \ {FirstListed(c)}
      more == need > 0 /\ rest # {}
      raises == need > 0 /\ ~more
  IN  IF raises THEN Ends(c) /\ lots' = Losing(taken, ls)
      ELSE /\ Goes(c, CASE more -> "take"
                        [] ~more /\ Revenue(taken) > 0 -> "journal"
                        [] OTHER -> "consume_event")
           /\ cur' = [cur EXCEPT ![c].need = need, ![c].taken = taken,
                                     ![c].listed = Restrict(@, rest)]
           /\ lots' = ls

\* Mutant: that a conditional update changed no row goes unnoticed.
TakeUnnoticed(c) ==
  /\ At(c, "take")
  /\ LET l    == FirstListed(c)
         take == Min({cur[c].listed[l], cur[c].need})
     IN  AfterTake(c, cur[c].need - take, Append(cur[c].taken, <<l, take>>),
                   IF lots[l].remaining >= take THEN [lots EXCEPT ![l].remaining = @ - take]
                   ELSE lots)
  /\ UNCHANGED <<walletVars, books>>

\* consume_credits_v1: the lot must still have that much, expired or not.
Take(c) ==
  /\ At(c, "take")
  /\ LET l    == FirstListed(c)
         take == Min({cur[c].listed[l], cur[c].need})
     IN  IF lots[l].remaining >= take
         THEN AfterTake(c, cur[c].need - take, Append(cur[c].taken, <<l, take>>),
                        [lots EXCEPT ![l].remaining = @ - take])
         ELSE AfterTake(c, cur[c].need, cur[c].taken, lots)
  /\ UNCHANGED <<walletVars, books>>

\* create_and_post_system_journal
RecognizeRevenue(c) ==
  /\ At(c, "journal")
  /\ revenue' = revenue + Revenue(cur[c].taken)
  /\ moved' = moved + Round4(Revenue(cur[c].taken))
  /\ journals' = journals + 1
  /\ Goes(c, "consume_event")
  /\ UNCHANGED <<lots, walletVars, deferred, cur>>

\* One event after the other, in the order the credits were taken.
ConsumeEvent(c) ==
  /\ At(c, "consume_event")
  /\ LET t == Head(cur[c].taken)
     IN  lots' = [lots EXCEPT ![t[1]].consumed = @ + t[2]]
  /\ cur' = [cur EXCEPT ![c].taken = Tail(@)]
  /\ IF Len(cur[c].taken) = 1 THEN Goes(c, "sum") ELSE UNCHANGED pc
  /\ UNCHANGED <<walletVars, books>>

-----------------------------------------------------------------------------
(* expire_lot *)

ExpireRead(c, l) ==
  /\ Starts(c, "expire")
  /\ Goes(c, "expire")
  /\ cur' = [cur EXCEPT ![c] = [Nothing EXCEPT !.op = "expire", !.lot = l,
                                               !.read = lots[l].remaining]]
  /\ UNCHANGED <<lots, walletVars, books>>

\* expire_lot_v1 changes the lot even if it has expired already.
ExpireWrite(c) ==
  /\ At(c, "expire")
  /\ lots' = [lots EXCEPT ![cur[c].lot].expired = TRUE]
  /\ Goes(c, IF cur[c].read > 0 THEN "expire_event" ELSE "sum")
  /\ UNCHANGED <<walletVars, books, cur>>

\* The event has the credits the lot had when the call began.
ExpireEvent(c) ==
  /\ At(c, "expire_event")
  /\ lots' = [lots EXCEPT ![cur[c].lot].lapsed = @ + cur[c].read]
  /\ Goes(c, "sum")
  /\ UNCHANGED <<walletVars, books, cur>>

-----------------------------------------------------------------------------
(* _sync_wallet, and the other writers of the wallet *)

SumLots(c) ==
  /\ At(c, "sum")
  /\ Goes(c, "set")
  /\ cur' = [cur EXCEPT ![c].read = Total]
  /\ UNCHANGED <<lots, walletVars, books>>

WriteWallet(credits) == wallet' = credits /\ outdated' = (credits # Total)

\* Mutant: a purchase forgets the wallet.
SetWalletForgotten(c) ==
  /\ At(c, "set")
  /\ UNCHANGED walletVars
  /\ IF cur[c].op = "purchase" THEN Goes(c, "append") /\ UNCHANGED cur ELSE Ends(c)
  /\ UNCHANGED <<lots, books>>

SetWallet(c) ==
  /\ At(c, "set")
  /\ WriteWallet(cur[c].read)
  /\ IF cur[c].op = "purchase" THEN Goes(c, "append") /\ UNCHANGED cur ELSE Ends(c)
  /\ UNCHANGED <<lots, books>>

\* user_admin_module: an administrator enters an amount.
AdminSetsCredits(credits) ==
  /\ edits < MaxEdits
  /\ edits' = edits + 1
  /\ WriteWallet(credits)
  /\ UNCHANGED <<lots, books, pc, cur, calls, failures>>

\* A call is cut short between two statements.
Fail(c) ==
  /\ pc[c] # "idle"
  /\ failures < MaxFailures
  /\ failures' = failures + 1
  /\ lots' = Losing(cur[c].taken, lots)
  /\ Ends(c)
  /\ UNCHANGED <<walletVars, books, calls, edits>>

-----------------------------------------------------------------------------
Init ==
  /\ lots = <<>>
  /\ wallet = Welcome
  /\ deferred = 0 /\ revenue = 0 /\ moved = 0 /\ journals = 0
  /\ pc = [c \in Callers |-> "idle"]
  /\ cur = [c \in Callers |-> Nothing]
  /\ outdated = (Welcome # 0)
  /\ calls = 0 /\ edits = 0 /\ failures = 0

Next ==
  \/ \E c \in Callers :
       \/ \E op \in {"create", "purchase"}, offer \in Offers : CreateLot(c, op, offer)
       \/ GrantEvent(c) \/ AppendPurchase(c)
       \/ \E need \in Needs : ConsumeList(c, need)
       \/ Take(c) \/ RecognizeRevenue(c) \/ ConsumeEvent(c)
       \/ \E l \in DOMAIN lots : ExpireRead(c, l)
       \/ ExpireWrite(c) \/ ExpireEvent(c)
       \/ SumLots(c) \/ SetWallet(c) \/ Fail(c)
  \/ \E credits \in Needs : AdminSetsCredits(credits)

Spec == Init /\ [][Next]_vars

-----------------------------------------------------------------------------
(* Properties *)

AccountsTyped ==
  /\ lots \in Seq(Lot)
  /\ wallet \in Int /\ deferred \in Nat /\ revenue \in Nat
  /\ outdated \in BOOLEAN
  /\ calls \in 0 .. MaxCalls /\ edits \in 0 .. MaxEdits /\ failures \in 0 .. MaxFailures

(* Every variable stays in its type; in particular no lot's remaining      *)
(* credits fall below zero, whatever calls take by amounts read before.    *)
TypeOK == AccountsTyped /\ moved \in Nat /\ journals \in Nat

AtRest == \A c \in Callers : pc[c] = "idle"

\* No call was cut short or raised with credits in its hands.
NothingLost == failures = 0 /\ \A l \in DOMAIN lots : lots[l].lost = 0

\* Every credit a lot has given is recorded by an event, or in the hands of a
\* call that has yet to write its event, or was taken by a call that raised,
\* although calls take from lots whose amount they read earlier.
CreditsAreAccountedFor ==
  \A l \in DOMAIN lots :
    lots[l].original - lots[l].remaining
      = lots[l].consumed + lots[l].lost
        + SumFunction([c \in Callers |-> CreditsTaken(cur[c].taken, l)])

\* The lots are sound: well formed, no lot's remaining credits below zero although
\* calls take by amounts read before, and every credit given accounted for
\* (consume_credits, consume_v1).
LotsAreSound == TypeOK /\ CreditsAreAccountedFor

\* What the deferred revenue account keeps of a lot: what its remaining credits and
\* those taken by calls that raised would be recognised for, and what the unit price
\* makes of all its credits less or more than was paid.  A lot that purchase_product
\* did not sell was never credited to the account, but its consumption is charged to it.
KeptFor(lot) == lot.price * (lot.remaining + lot.lost)
                + (IF lot.sold THEN lot.paid ELSE 0) - lot.price * lot.original

\* Once all calls have returned and none was cut short, the deferred revenue account
\* keeps for each lot what is above and nothing else, but for at most 0.00005 that each
\* consumption journal may have rounded away: revenue is recognised once for each
\* credit consumed.  The remainder of a price that does not divide, and the price of
\* credits taken by a call that raised, stay in the account for good.
DeferredIsOwed ==
  AtRest /\ failures = 0 =>
    deferred - moved - SumFunction([l \in DOMAIN lots |-> KeptFor(lots[l])])
      \in -5 * journals .. 5 * journals

\* The events of an expired lot and the calls that raised explain all of its credits,
\* at least once: a credit consumed while its lot expires may be recorded both ways,
\* and so may one that expired twice.
ExpiryIsExplained ==
  AtRest /\ failures = 0 =>
    \A l \in DOMAIN lots :
      lots[l].expired => lots[l].consumed + lots[l].lost + lots[l].lapsed >= lots[l].granted

\* Once all calls have returned the wallet has the lots' total, unless a call raised
\* after it had taken credits, which leaves the wallet as it is, or whoever set it last
\* was overtaken by a change of the lots or entered another amount.
WalletFollowsLots == AtRest /\ NothingLost /\ ~outdated => wallet = Total

\* What the books, the events and the wallet say of the lots when no call is at
\* work agrees with the lots (consume_credits, expire_lot, _sync_wallet).
AccountsFollowLots == DeferredIsOwed /\ ExpiryIsExplained /\ WalletFollowsLots
===============================================================================
