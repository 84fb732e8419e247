------------------------------- MODULE AccessProofs -------------------------------
(***************************************************************************)
(* Proofs about the ways into the system.  First McpGateway and the modules  *)
(* it extends, for every set of callers, users, identities and scenes; then  *)
(* DiscordChat and the modules it extends, for every set of installations,   *)
(* commands and texts; both for every bound.                                 *)
(***************************************************************************)
EXTENDS McpGateway, DiscordChat, SequenceTheorems, FiniteSetTheorems, WellFoundedInduction, TLAPS

-----------------------------------------------------------------------------
(* The inductive invariant *)

\* From the exchange of a code to the token that is made for it.
TokenSteps == {"check client", "revoke tokens", "agent user", "make token"}

\* The steps that only the gateway's calls of a client come to.
GrantSteps == TokenSteps \cup {"renew", "link client", "make code"}

\* The steps at which a call knows a user who has an account.
UserSteps == {"resolved", "link", "get client", "link client", "make code"}

\* The steps at which what a call knows matters.
Special == GrantSteps \cup UserSteps \cup {"ask roles", "refresh roles", "create session", "fill"}

Simple(m) == "step" \in DOMAIN m /\ m.step \notin Special

\* What a call knows at step m.step, when known are the devices.
Known(m, known) ==
  /\ "step" \in DOMAIN m
  /\ m.step \in UserSteps => m.user \in Users
  /\ m.step = "link client" =>
       m.user \in Users /\ {"user", "agent"} \subseteq DOMAIN m
  /\ m.step = "ask roles" => m.op = "login"
  /\ m.step = "refresh roles" =>
       /\ m = [op |-> "refresh", step |-> "refresh roles", device |-> m.device, key |-> m.key,
               provider |-> m.provider, compared |-> m.compared]
       /\ m.compared
       /\ m.device \in known
  /\ m.step = "create session" => m.op = "login" \/ (m.compared /\ m.device \in known)

\* A call that fills the cache knows what it goes on with.
CallHolds(m, known) ==
  /\ Known(m, known)
  /\ m.step = "fill" => Known(m.then, known) /\ m.then.step \notin GrantSteps \cup {"fill"}

CallsHold == /\ call = [c \in Callers |-> call[c]]
             /\ \A c \in Callers : CallHolds(call[c], DOMAIN devices)

IsIdentifier(row) == row = [guid |-> row.guid, provider |-> row.provider, linked |-> row.linked]

AccountsHold ==
  /\ accounts = [u \in DOMAIN accounts |-> accounts[u]] /\ DOMAIN accounts \subseteq Users
  /\ auth = [i \in DOMAIN auth |-> auth[i]]
  /\ \A i \in DOMAIN auth :
       /\ auth[i] = [guid |-> auth[i].guid, provider |-> auth[i].provider, linked |-> auth[i].linked]
       /\ auth[i].guid \in Users
  /\ EveryAccountHasAnIdentifier

KeysHold ==
  /\ devices = [d \in DOMAIN devices |-> devices[d]] /\ due = [d \in DOMAIN due |-> due[d]]
  /\ DOMAIN devices = DOMAIN due
  /\ \A d \in DOMAIN devices :
       devices[d] = [key |-> devices[d].key, token |-> devices[d].token,
                     revoked |-> devices[d].revoked, provider |-> devices[d].provider]
  /\ OldKeysStayOld

IdentityInv == CallsHold /\ AccountsHold /\ KeysHold /\ SwitchedOffStaysOff

-----------------------------------------------------------------------------
(* Steps of one call *)

\* c goes on, and the other calls are where they were.
Moves(c) == /\ call' = [d \in Callers |-> call'[d]]
            /\ \A d \in Callers \ {c} : call'[d] = call[d]

\* ... without coming to a step of the gateway.
GoesElsewhere(c) ==
  Moves(c) /\ CallHolds(call'[c], DOMAIN devices) /\ call'[c].step \notin GrantSteps

LEMMA GoesOn ==
  ASSUME CallsHold, NEW c \in Callers, NEW m, Goes(c, m)
  PROVE  Moves(c) /\ call'[c] = m
  BY DEF CallsHold, Goes, Moves

LEMMA SimpleHolds ==
  ASSUME NEW m, Simple(m), NEW known
  PROVE  CallHolds(m, known) /\ m.step \notin GrantSteps
<1>1. m.step \notin GrantSteps \cup UserSteps
  BY DEF Simple, Special
<1>2. m.step \notin {"link client", "ask roles", "refresh roles", "create session", "fill"}
  BY DEF Simple, Special, GrantSteps
<1> QED BY <1>1, <1>2 DEF Simple, CallHolds, Known

LEMMA GoesSimply ==
  ASSUME CallsHold, NEW c \in Callers, NEW m, Goes(c, m), Simple(m)
  PROVE  GoesElsewhere(c)
  BY GoesOn, SimpleHolds DEF GoesElsewhere

LEMMA EndsSimply ==
  ASSUME CallsHold, NEW c \in Callers, Ends(c)
  PROVE  GoesElsewhere(c) /\ call'[c] = Idle
<1>1. Simple(Idle)
  BY DEF Simple, Special, Idle, GrantSteps, TokenSteps, UserSteps
<1> QED BY <1>1, GoesSimply, GoesOn DEF Ends

LEMMA StaysSimply ==
  ASSUME CallsHold, NEW c \in Callers, UNCHANGED call, call[c].step \notin GrantSteps
  PROVE  GoesElsewhere(c)
  BY DEF CallsHold, GoesElsewhere, Moves

LEMMA HasStep ==
  ASSUME CallsHold, NEW c \in Callers
  PROVE  "step" \in DOMAIN call[c] /\ CallHolds(call[c], DOMAIN devices)
  BY DEF CallsHold, CallHolds, Known

LEMMA FillsThen ==
  ASSUME CallsHold, NEW c \in Callers, NEW u, NEW then, NEW op, NEW seen,
         Goes(c, [op |-> op, step |-> "fill", user |-> u, seen |-> seen, then |-> then]),
         Known(then, DOMAIN devices), then.step \notin GrantSteps \cup {"fill"}
  PROVE  GoesElsewhere(c)
<1> DEFINE m == [op |-> op, step |-> "fill", user |-> u, seen |-> seen, then |-> then]
<1>1. m.step = "fill" /\ m.then = then /\ "step" \in DOMAIN m
  OBVIOUS
<1>2. Goes(c, m)
  OBVIOUS
<1> HIDE DEF m
<1>3. CallHolds(m, DOMAIN devices) /\ m.step \notin GrantSteps
  BY <1>1 DEF CallHolds, Known, GrantSteps, TokenSteps, UserSteps
<1> QED BY <1>2, <1>3, GoesOn DEF GoesElsewhere

LEMMA ReadsThen ==
  ASSUME CallsHold, NEW c \in Callers, NEW u, NEW then, ReadsMask(c, u, then),
         Known(then, DOMAIN devices), then.step \notin GrantSteps \cup {"fill"}
  PROVE  GoesElsewhere(c)
  BY FillsThen DEF ReadsMask

LEMMA GetsThen ==
  ASSUME CallsHold, NEW c \in Callers, NEW u, NEW then, GetUserRoles(c, u, then),
         Known(then, DOMAIN devices), then.step \notin GrantSteps \cup {"fill"}
  PROVE  GoesElsewhere(c)
<1>1. CallHolds(then, DOMAIN devices) /\ then.step \notin GrantSteps
  BY DEF CallHolds
<1> QED BY <1>1, GoesOn, ReadsThen DEF GetUserRoles, GoesElsewhere

-----------------------------------------------------------------------------
(* Roles *)

LEMMA RolesGo ==
  ASSUME CallsHold, NEW c \in Callers, RolesStep(c)
  PROVE  GoesElsewhere(c)
<1> USE DEF Simple, Special, GrantSteps, TokenSteps, UserSteps
<1>1. Known(Idle, DOMAIN devices) /\ Idle.step = "idle"
  BY DEF Known, Idle
<1>2. ASSUME NEW u, Request(c, u) PROVE GoesElsewhere(c)
  BY <1>1, <1>2, FillsThen DEF Request
<1>3. ASSUME NEW u, SupportAddMember(c, u) PROVE GoesElsewhere(c)
  BY <1>3, GoesSimply DEF SupportAddMember, AddRoleMember
<1>4. ASSUME NEW u, SupportRemoveMember(c, u) PROVE GoesElsewhere(c)
  BY <1>4, GoesSimply DEF SupportRemoveMember, RemoveRoleMember
<1>5. ASSUME NEW u, GetUserRolesMask(c, u) PROVE GoesElsewhere(c)
  BY <1>5, GoesSimply DEF GetUserRolesMask
<1>6. ASSUME FillCache(c) PROVE GoesElsewhere(c)
  <2>1. CallHolds(call[c], DOMAIN devices) /\ call[c].step = "fill" /\ Goes(c, call[c].then)
    BY <1>6, HasStep DEF FillCache, At
  <2>2. CallHolds(call[c].then, DOMAIN devices) /\ call[c].then.step \notin GrantSteps
    BY <2>1 DEF CallHolds
  <2> QED BY <2>1, <2>2, GoesOn DEF GoesElsewhere
<1>7. ASSUME Refreshes(c) PROVE GoesElsewhere(c)
  BY <1>1, <1>7, ReadsThen DEF Refreshes
<1>8. ASSUME ServiceUpsertRole(c) PROVE GoesElsewhere(c)
  BY <1>8, GoesSimply DEF ServiceUpsertRole, UpsertRole
<1>9. ASSUME ServiceDeleteRole(c) PROVE GoesElsewhere(c)
  BY <1>9, GoesSimply DEF ServiceDeleteRole, DeleteRole
<1>10. ASSUME LoadRoles(c) \/ LoadDomains(c) PROVE GoesElsewhere(c)
  BY <1>10, GoesSimply DEF LoadRoles, LoadDomains
<1>11. ASSUME SetRoles(c) \/ SetDomains(c) PROVE GoesElsewhere(c)
  BY <1>11, GoesSimply, EndsSimply DEF SetRoles, SetDomains
<1>12. ASSUME SetUserRolesMask(c) PROVE GoesElsewhere(c)
  BY <1>12, GoesSimply DEF SetUserRolesMask
<1>13. ASSUME QueryFails(c) PROVE GoesElsewhere(c)
  BY <1>13, GoesSimply, EndsSimply DEF QueryFails
<1> QED BY <1>2, <1>3, <1>4, <1>5, <1>6, <1>7, <1>8, <1>9, <1>10, <1>11, <1>12, <1>13 DEF RolesStep

-----------------------------------------------------------------------------
(* Accounts *)

\* No account is made, and every identifier stays with its account.
AccountsKept ==
  /\ accounts' = [u \in DOMAIN accounts |-> accounts'[u]]
  /\ auth' = [i \in DOMAIN auth |-> auth'[i]]
  /\ \A i \in DOMAIN auth :
       /\ auth'[i] = [guid |-> auth'[i].guid, provider |-> auth'[i].provider, linked |-> auth'[i].linked]
       /\ auth'[i].guid = auth[i].guid
  /\ moved' = moved

LEMMA KeptAccountsHold ==
  ASSUME AccountsHold, AccountsKept
  PROVE  AccountsHold'
<1>1. DOMAIN accounts' = DOMAIN accounts /\ DOMAIN auth' = DOMAIN auth
  BY DEF AccountsKept
<1>2. EveryAccountHasAnIdentifier'
  BY <1>1 DEF AccountsHold, AccountsKept, EveryAccountHasAnIdentifier
<1> QED BY <1>1, <1>2 DEF AccountsHold, AccountsKept

LEMMA SameAccounts ==
  ASSUME AccountsHold, UNCHANGED accountVars
  PROVE  AccountsHold'
  BY DEF AccountsHold, accountVars, EveryAccountHasAnIdentifier

\* An account is written over, and no identifier.
LEMMA AccountWritten ==
  ASSUME AccountsHold, NEW u, NEW row, accounts' = [accounts EXCEPT ![u] = row], UNCHANGED <<auth, moved>>
  PROVE  AccountsHold'
<1>1. AccountsKept
  BY DEF AccountsHold, AccountsKept
<1> QED BY <1>1, KeptAccountsHold

LEMMA LinkedRow ==
  ASSUME NEW row, IsIdentifier(row), NEW l
  PROVE  IsIdentifier([row EXCEPT !.linked = l]) /\ [row EXCEPT !.linked = l].guid = row.guid
  BY DEF IsIdentifier

LEMMA AdoptedRow ==
  ASSUME NEW row, IsIdentifier(row), NEW p
  PROVE  /\ IsIdentifier([[row EXCEPT !.linked = TRUE] EXCEPT !.provider = p])
         /\ [[row EXCEPT !.linked = TRUE] EXCEPT !.provider = p].guid = row.guid
<1> DEFINE linked == [row EXCEPT !.linked = TRUE]
<1>1. IsIdentifier(linked) /\ linked.guid = row.guid
  BY LinkedRow
<1> HIDE DEF linked
<1>2. /\ IsIdentifier([linked EXCEPT !.provider = p])
      /\ [linked EXCEPT !.provider = p].guid = linked.guid
  BY <1>1 DEF IsIdentifier
<1> QED BY <1>1, <1>2 DEF linked

\* An identifier is linked again, to the account that has it.
LEMMA IdentifierAdopted ==
  ASSUME AccountsHold, NEW i, NEW p,
         auth' = [auth EXCEPT ![i].linked = TRUE, ![i].provider = p],
         \/ UNCHANGED accounts
         \/ \E u, row : accounts' = [accounts EXCEPT ![u] = row],
         UNCHANGED moved
  PROVE  AccountsHold'
<1>1. accounts' = [u \in DOMAIN accounts |-> accounts'[u]]
  BY DEF AccountsHold
<1>2. auth' = [j \in DOMAIN auth |-> auth'[j]] /\ \A j \in DOMAIN auth : j # i => auth'[j] = auth[j]
  BY DEF AccountsHold
<1>3. ASSUME NEW j \in DOMAIN auth
      PROVE  IsIdentifier(auth'[j]) /\ auth'[j].guid = auth[j].guid
  <2>1. IsIdentifier(auth[j])
    BY DEF AccountsHold, IsIdentifier
  <2>2. CASE j = i
    <3>1. auth'[i] = [[auth[i] EXCEPT !.linked = TRUE] EXCEPT !.provider = p]
      BY <2>2
    <3>2. /\ IsIdentifier([[auth[i] EXCEPT !.linked = TRUE] EXCEPT !.provider = p])
          /\ [[auth[i] EXCEPT !.linked = TRUE] EXCEPT !.provider = p].guid = auth[i].guid
      BY <2>1, <2>2, AdoptedRow
    <3> QED BY <2>2, <3>1, <3>2
  <2>3. CASE j # i
    BY <1>2, <2>1, <2>3
  <2> QED BY <2>2, <2>3
<1>4. AccountsKept
  BY <1>1, <1>2, <1>3 DEF AccountsKept, IsIdentifier
<1> QED BY <1>4, KeptAccountsHold

\* An identifier is linked to an account; the one that had it is remembered.
LEMMA IdentifierLinked ==
  ASSUME AccountsHold, NEW u \in Users, NEW i, LinkRow(u, i), UNCHANGED accounts
  PROVE  AccountsHold'
<1> DEFINE row == [guid |-> u, provider |-> ProviderOf[i], linked |-> TRUE]
<1>1. /\ auth' = [j \in DOMAIN auth' |-> auth'[j]] /\ DOMAIN auth' = DOMAIN auth \cup {i}
      /\ auth'[i] = row /\ \A j \in DOMAIN auth : j # i => auth'[j] = auth[j]
  BY DEF LinkRow, Put
<1>2. row = [guid |-> row.guid, provider |-> row.provider, linked |-> row.linked] /\ row.guid = u
  OBVIOUS
<1> HIDE DEF row
<1>3. EveryAccountHasAnIdentifier'
  <2> SUFFICES ASSUME NEW v \in DOMAIN accounts, v \notin moved'
               PROVE  \E j \in DOMAIN auth' : auth'[j].guid = v
    BY DEF EveryAccountHasAnIdentifier
  <2>1. PICK j \in DOMAIN auth : auth[j].guid = v
    BY DEF LinkRow, AccountsHold, EveryAccountHasAnIdentifier
  <2>2. CASE j = i
    BY <1>1, <1>2, <2>1, <2>2 DEF LinkRow
  <2>3. CASE j # i
    BY <1>1, <2>1, <2>3
  <2> QED BY <2>2, <2>3
<1> QED BY <1>1, <1>2, <1>3 DEF AccountsHold

\* The identifiers of one provider are unlinked.
LEMMA ProviderUnlinked ==
  ASSUME AccountsHold, NEW u, NEW p, UnlinkRows(u, p), UNCHANGED moved
  PROVE  AccountsHold'
<1>1. accounts' = [v \in DOMAIN accounts |-> accounts'[v]]
  BY DEF AccountsHold, UnlinkRows
<1>2. auth' = [i \in DOMAIN auth |-> IF auth[i].guid = u /\ auth[i].provider = p
                                     THEN [auth[i] EXCEPT !.linked = FALSE] ELSE auth[i]]
  BY DEF UnlinkRows
<1>3. ASSUME NEW i \in DOMAIN auth
      PROVE  /\ auth'[i] = [guid |-> auth'[i].guid, provider |-> auth'[i].provider, linked |-> auth'[i].linked]
             /\ auth'[i].guid = auth[i].guid
  <2>1. auth[i] = [guid |-> auth[i].guid, provider |-> auth[i].provider, linked |-> auth[i].linked]
    BY DEF AccountsHold
  <2>2. auth'[i] = [auth[i] EXCEPT !.linked = FALSE] \/ auth'[i] = auth[i]
    BY <1>2
  <2> QED BY <2>1, <2>2
<1>4. AccountsKept
  BY <1>1, <1>2, <1>3 DEF AccountsKept
<1> QED BY <1>4, KeptAccountsHold

\* An account is made together with its identifier.
LEMMA AccountMade ==
  ASSUME AccountsHold, NEW u \in Users, NEW i, i \notin DOMAIN auth, NEW row,
         accounts' = Put(accounts, u, row),
         auth' = Put(auth, i, [guid |-> u, provider |-> ProviderOf[i], linked |-> TRUE]),
         UNCHANGED moved
  PROVE  AccountsHold'
<1> DEFINE id == [guid |-> u, provider |-> ProviderOf[i], linked |-> TRUE]
<1>1. /\ auth' = [j \in DOMAIN auth' |-> auth'[j]] /\ DOMAIN auth' = DOMAIN auth \cup {i}
      /\ auth'[i] = id /\ \A j \in DOMAIN auth : auth'[j] = auth[j]
  BY DEF Put
<1>2. accounts' = [v \in DOMAIN accounts' |-> accounts'[v]] /\ DOMAIN accounts' = DOMAIN accounts \cup {u}
  BY DEF Put
<1>3. id = [guid |-> id.guid, provider |-> id.provider, linked |-> id.linked] /\ id.guid = u
  OBVIOUS
<1> HIDE DEF id
<1>4. EveryAccountHasAnIdentifier'
  <2> SUFFICES ASSUME NEW v \in DOMAIN accounts', v \notin moved'
               PROVE  \E j \in DOMAIN auth' : auth'[j].guid = v
    BY DEF EveryAccountHasAnIdentifier
  <2>1. CASE v = u
    BY <1>1, <1>3, <2>1
  <2>2. CASE v # u
    <3>1. PICK j \in DOMAIN auth : auth[j].guid = v
      BY <1>2, <2>2 DEF AccountsHold, EveryAccountHasAnIdentifier
    <3> QED BY <1>1, <3>1
  <2> QED BY <2>1, <2>2
<1> QED BY <1>1, <1>2, <1>3, <1>4 DEF AccountsHold

-----------------------------------------------------------------------------
\* The account a call has found by its identifier is one there is.
LEMMA FoundUser ==
  ASSUME AccountsHold, NEW i, GetByIdentifier(i) # {}
  PROVE  auth[i].guid \in Users /\ GetByIdentifier(i) = {auth[i].guid}
  BY DEF GetByIdentifier, HasIdentifier, AccountsHold

\* A call goes on with a user it has found.
LEMMA GoesWithUser ==
  ASSUME CallsHold, NEW c \in Callers, NEW m, Goes(c, m), "step" \in DOMAIN m,
         m.step \in UserSteps \ GrantSteps, m.user \in Users
  PROVE  GoesElsewhere(c)
<1>1. CallHolds(m, DOMAIN devices)
  BY DEF CallHolds, Known, UserSteps, GrantSteps, TokenSteps
<1> QED BY <1>1, GoesOn DEF GoesElsewhere

LEMMA ChangesStep ==
  ASSUME CallsHold, NEW c \in Callers, NEW next,
         next \notin Special
  PROVE  Simple([call[c] EXCEPT !.step = next])
  BY HasStep DEF Simple

LEMMA StepsSimply ==
  ASSUME CallsHold, NEW c \in Callers, NEW next, Goes(c, [call[c] EXCEPT !.step = next]),
         next \notin Special
  PROVE  GoesElsewhere(c)
  BY ChangesStep, GoesSimply

LEMMA AccountsGo ==
  ASSUME CallsHold, AccountsHold, NEW c \in Callers,
         AccountsStep(c) \/ \E i \in Identities : LookupUser(c, "callback", i)
  PROVE  GoesElsewhere(c) /\ AccountsHold'
<1> USE DEF Simple, Special, GrantSteps, TokenSteps, UserSteps
<1>0. \A u \in DOMAIN accounts : u \in Users
  BY DEF AccountsHold
<1>1. ASSUME NEW op, NEW i, LookupUser(c, op, i) PROVE GoesElsewhere(c) /\ AccountsHold'
  <2>1. AccountsHold'
    BY <1>1, SameAccounts DEF LookupUser
  <2>2. CASE GetByIdentifier(i) = {}
    BY <1>1, <2>1, <2>2, GoesSimply DEF LookupUser
  <2>3. CASE GetByIdentifier(i) # {}
    BY <1>1, <2>1, <2>3, FoundUser, GoesWithUser DEF LookupUser
  <2> QED BY <2>2, <2>3
<1>2. ASSUME NEW i, AuthGoogleOauthLogin(c, i) \/ AuthDiscordOauthLogin(c, i)
      PROVE  GoesElsewhere(c) /\ AccountsHold'
  BY <1>1, <1>2 DEF AuthGoogleOauthLogin, AuthDiscordOauthLogin, LoginProvider
<1>3. ASSUME NEW i, RegisterDiscordUser(c, i) \/ UsersProvidersCreate(c, i)
      PROVE  GoesElsewhere(c) /\ AccountsHold'
  BY <1>3, GoesSimply, SameAccounts DEF RegisterDiscordUser, UsersProvidersCreate
<1>4. ASSUME NEW u \in DOMAIN accounts, NEW i, LinkUserProvider(c, u, i)
      PROVE  GoesElsewhere(c) /\ AccountsHold'
  BY <1>0, <1>4, GoesWithUser, SameAccounts DEF LinkUserProvider
<1>5. ASSUME NEW u, NEW p, NEW new, UnlinkUserProvider(c, u, p, new)
      PROVE  GoesElsewhere(c) /\ AccountsHold'
  BY <1>5, GoesSimply, SameAccounts DEF UnlinkUserProvider
<1>6. ASSUME NEW u, NEW p, SetUserDefaultProvider(c, u, p)
      PROVE  GoesElsewhere(c) /\ AccountsHold'
  <2>0. call[c] = Idle /\ UNCHANGED call
    BY <1>6 DEF SetUserDefaultProvider, Starts
  <2>1. call[c].step = "idle"
    BY <2>0 DEF Idle
  <2>2. GoesElsewhere(c)
    BY <2>0, <2>1, StaysSimply
  <2>3. \E row : accounts' = [accounts EXCEPT ![u] = row]
    BY <1>6 DEF SetUserDefaultProvider, SetProviderRow
  <2> QED BY <1>6, <2>2, <2>3, AccountWritten DEF SetUserDefaultProvider
<1>7. ASSUME RelinkProvider(c) PROVE GoesElsewhere(c) /\ AccountsHold'
  <2>1. GoesElsewhere(c)
    BY <1>7, StepsSimply DEF RelinkProvider
  <2>2. CASE UNCHANGED <<accounts, auth>>
    BY <1>7, <2>1, <2>2, SameAccounts DEF RelinkProvider, accountVars
  <2>3. CASE ~UNCHANGED <<accounts, auth>>
    <3>1. PICK i, p : /\ auth' = [auth EXCEPT ![i].linked = TRUE, ![i].provider = p]
                      /\ accounts' = [accounts EXCEPT ![auth[i].guid] = [@ EXCEPT !.provider = p]]
      BY <1>7, <2>3 DEF RelinkProvider, RelinkProcedure, SetProviderRow
    <3>2. \E u, row : accounts' = [accounts EXCEPT ![u] = row]
      BY <3>1
    <3> QED BY <1>7, <2>1, <3>1, <3>2, IdentifierAdopted DEF RelinkProvider
  <2> QED BY <2>2, <2>3
<1>8. ASSUME GetRelinked(c) PROVE GoesElsewhere(c) /\ AccountsHold'
  <2>1. AccountsHold'
    BY <1>8, SameAccounts DEF GetRelinked
  <2>2. CASE GetByIdentifier(call[c].id) = {}
    BY <1>8, <2>1, <2>2, StepsSimply DEF GetRelinked
  <2>3. CASE GetByIdentifier(call[c].id) # {}
    BY <1>8, <2>1, <2>3, FoundUser, GoesWithUser DEF GetRelinked
  <2> QED BY <2>2, <2>3
<1>9. ASSUME FindDuplicate(c) PROVE GoesElsewhere(c) /\ AccountsHold'
  <2>1. AccountsHold'
    BY <1>9, SameAccounts DEF FindDuplicate
  <2>2. CASE call[c].id \in DOMAIN auth
    BY <1>9, <2>1, <2>2, StepsSimply DEF FindDuplicate
  <2>3. CASE call[c].id \notin DOMAIN auth
    BY <1>9, <2>1, <2>3, StepsSimply DEF FindDuplicate
  <2> QED BY <2>2, <2>3
<1>10. ASSUME InsertAccount(c) PROVE GoesElsewhere(c) /\ AccountsHold'
  <2>1. CASE call[c].id \in DOMAIN auth
    BY <1>10, <2>1, EndsSimply, SameAccounts DEF InsertAccount, accountVars
  <2>2. CASE call[c].id \notin DOMAIN auth
    <3>1. PICK u \in FreeGuids : CreatedRows(c, u, call[c].id)
      BY <1>10, <2>2 DEF InsertAccount
    <3>2. u \in Users
      BY DEF FreeGuids
    <3>3. GoesElsewhere(c)
      BY <3>1, <3>2, GoesWithUser DEF CreatedRows
    <3>4. AccountsHold'
      BY <1>10, <2>2, <3>1, <3>2, AccountMade DEF CreatedRows, InsertAccount
    <3> QED BY <3>3, <3>4
  <2> QED BY <2>1, <2>2
<1>11. ASSUME AdoptIdentifier(c) PROVE GoesElsewhere(c) /\ AccountsHold'
  <2>1. GoesElsewhere(c)
    BY <1>11, GoesSimply DEF AdoptIdentifier
  <2>2. AccountsHold'
    BY <1>11, IdentifierAdopted DEF AdoptIdentifier
  <2> QED BY <2>1, <2>2
<1>12. ASSUME AdoptAccount(c) PROVE GoesElsewhere(c) /\ AccountsHold'
  <2>1. GoesElsewhere(c)
    BY <1>12, GoesSimply DEF AdoptAccount
  <2>2. \E u, row : accounts' = [accounts EXCEPT ![u] = row]
    BY <1>12 DEF AdoptAccount, SetProviderRow
  <2> QED BY <1>12, <2>1, <2>2, AccountWritten DEF AdoptAccount
<1>13. ASSUME GetAccount(c) PROVE GoesElsewhere(c) /\ AccountsHold'
  <2>1. AccountsHold'
    BY <1>13, SameAccounts DEF GetAccount
  <2>2. CASE GetByIdentifier(call[c].id) = {}
    BY <1>13, <2>1, <2>2, EndsSimply DEF GetAccount, GetsAccount
  <2>3. CASE GetByIdentifier(call[c].id) # {}
    <3>1. (CHOOSE u \in GetByIdentifier(call[c].id) : TRUE) \in Users
      BY <2>3, FoundUser
    <3> QED BY <1>13, <2>1, <2>3, <3>1, GoesWithUser DEF GetAccount, GetsAccount
  <2> QED BY <2>2, <2>3
<1>14. ASSUME CreateUserFromProvider(c) PROVE GoesElsewhere(c) /\ AccountsHold'
  BY <1>14, StepsSimply, EndsSimply, SameAccounts DEF CreateUserFromProvider
<1>15. ASSUME SetCredits(c) PROVE GoesElsewhere(c) /\ AccountsHold'
  <2>1. AccountsHold'
    BY <1>15 DEF SetCredits, AccountsHold, EveryAccountHasAnIdentifier
  <2> QED BY <1>15, <2>1, EndsSimply DEF SetCredits
<1>16. ASSUME LinkProvider(c) PROVE GoesElsewhere(c) /\ AccountsHold'
  <2>1. call[c].user \in Users
    BY <1>16, HasStep DEF LinkProvider, At, CallHolds, Known
  <2> QED BY <1>16, <2>1, EndsSimply, IdentifierLinked DEF LinkProvider
<1>17. ASSUME UnlinkProvider(c) PROVE GoesElsewhere(c) /\ AccountsHold'
  <2>1. AccountsHold'
    BY <1>17, ProviderUnlinked DEF UnlinkProvider
  <2> QED BY <1>17, <2>1, StepsSimply, EndsSimply DEF UnlinkProvider
<1>18. ASSUME NewDefault(c) PROVE GoesElsewhere(c) /\ AccountsHold'
  <2>1. GoesElsewhere(c)
    BY <1>18, StepsSimply DEF NewDefault
  <2>2. \E u, row : accounts' = [accounts EXCEPT ![u] = row]
    BY <1>18 DEF NewDefault, SetProviderRow
  <2> QED BY <1>18, <2>1, <2>2, AccountWritten DEF NewDefault
<1>19. ASSUME AccountCallFails(c) PROVE GoesElsewhere(c) /\ AccountsHold'
  BY <1>19, EndsSimply, SameAccounts DEF AccountCallFails
<1> QED
  BY <1>1, <1>2, <1>3, <1>4, <1>5, <1>6, <1>7, <1>8, <1>9, <1>10, <1>11, <1>12, <1>13, <1>14,
     <1>15, <1>16, <1>17, <1>18, <1>19 DEF AccountsStep

-----------------------------------------------------------------------------
(* Sessions *)

IsDevice(row) == row = [key |-> row.key, token |-> row.token,
                        revoked |-> row.revoked, provider |-> row.provider]

LEMMA SameKeys ==
  ASSUME KeysHold, UNCHANGED sessionVars
  PROVE  KeysHold'
  BY DEF KeysHold, sessionVars, OldKeysStayOld

\* No key is changed.
LEMMA KeysKept ==
  ASSUME KeysHold, devices' = [d \in DOMAIN devices |-> devices'[d]],
         \A d \in DOMAIN devices : IsDevice(devices'[d]) /\ devices'[d].key = devices[d].key,
         UNCHANGED <<due, restored>>
  PROVE  KeysHold'
<1>1. DOMAIN devices' = DOMAIN devices
  OBVIOUS
<1> QED BY <1>1 DEF KeysHold, OldKeysStayOld, IsDevice

LEMMA TokenWritten ==
  ASSUME NEW row, IsDevice(row), NEW t
  PROVE  IsDevice([row EXCEPT !.token = t]) /\ [row EXCEPT !.token = t].key = row.key
  BY DEF IsDevice

LEMMA DeviceRevoked ==
  ASSUME NEW row, IsDevice(row), NEW r
  PROVE  IsDevice([row EXCEPT !.revoked = r]) /\ [row EXCEPT !.revoked = r].key = row.key
  BY DEF IsDevice

LEMMA KeyWritten ==
  ASSUME NEW row, IsDevice(row), NEW k
  PROVE  IsDevice([row EXCEPT !.key = k]) /\ [row EXCEPT !.key = k].key = k
  BY DEF IsDevice

LEMMA SessionMade ==
  ASSUME KeysHold, NEW d, NEW k, NEW p, CreateSessionRow(d, k, p),
         \/ due' = Put(due, d, k) /\ restored' = restored \ {d}
         \/ /\ d \in DOMAIN devices
            /\ restored' = IF due[d] # k THEN restored \cup {d} ELSE restored
            /\ UNCHANGED due
  PROVE  KeysHold' /\ DOMAIN devices \subseteq DOMAIN devices' /\ d \in DOMAIN devices'
<1> DEFINE q == IF d \in DOMAIN devices THEN devices[d].provider ELSE p
           row == [key |-> k, token |-> Placeholder, revoked |-> FALSE, provider |-> q]
<1>1. IsDevice(row) /\ row.key = k
  BY DEF IsDevice
<1>2. devices' = Put(devices, d, row)
  BY DEF CreateSessionRow
<1> HIDE DEF row
<1>3. /\ devices' = [x \in DOMAIN devices' |-> devices'[x]] /\ DOMAIN devices' = DOMAIN devices \cup {d}
      /\ devices'[d] = row /\ \A x \in DOMAIN devices : x # d => devices'[x] = devices[x]
  BY <1>2 DEF Put
<1>4. due' = [x \in DOMAIN due' |-> due'[x]] /\ DOMAIN due' = DOMAIN devices'
  BY <1>3 DEF KeysHold, Put
<1>5. OldKeysStayOld'
  <2> SUFFICES ASSUME NEW x \in DOMAIN devices'
               PROVE  devices'[x].key = due'[x] \/ x \in restored'
    BY DEF OldKeysStayOld
  <2>1. CASE x = d
    BY <1>1, <1>3, <2>1 DEF Put
  <2>2. CASE x # d
    <3>1. x \in DOMAIN devices /\ devices'[x] = devices[x] /\ x \in DOMAIN due
      BY <1>3, <2>2 DEF KeysHold
    <3>2. due'[x] = due[x] /\ (x \in restored => x \in restored')
      BY <2>2, <3>1 DEF Put
    <3> QED BY <3>1, <3>2 DEF KeysHold, OldKeysStayOld
  <2> QED BY <2>1, <2>2
<1> QED BY <1>1, <1>3, <1>4, <1>5 DEF KeysHold, IsDevice

LEMMA KeysInvalidated ==
  ASSUME KeysHold, NEW u, SetRotkeyRow(u, 0),
         due' = [d \in DOMAIN due |-> IF d[1] = u THEN 0 ELSE due[d]],
         restored' = {d \in restored : d[1] # u}
  PROVE  KeysHold' /\ DOMAIN devices' = DOMAIN devices
<1>1. devices' = [d \in DOMAIN devices |-> IF d[1] = u THEN [devices[d] EXCEPT !.key = 0] ELSE devices[d]]
  BY DEF SetRotkeyRow
<1>2. ASSUME NEW d \in DOMAIN devices
      PROVE  IsDevice(devices'[d]) /\ devices'[d].key = IF d[1] = u THEN 0 ELSE devices[d].key
  <2>1. IsDevice(devices[d])
    BY DEF KeysHold, IsDevice
  <2>2. CASE d[1] = u
    BY <1>1, <2>1, <2>2, KeyWritten
  <2>3. CASE d[1] # u
    BY <1>1, <2>1, <2>3
  <2> QED BY <2>2, <2>3
<1>3. DOMAIN devices' = DOMAIN devices /\ DOMAIN due' = DOMAIN due /\ DOMAIN devices = DOMAIN due
  BY <1>1 DEF KeysHold
<1>4. OldKeysStayOld'
  <2> SUFFICES ASSUME NEW d \in DOMAIN devices, d \notin restored'
               PROVE  devices'[d].key = due'[d]
    BY <1>3 DEF OldKeysStayOld
  <2>1. d[1] # u => devices[d].key = due[d]
    BY DEF KeysHold, OldKeysStayOld
  <2> QED BY <1>2, <1>3, <2>1
<1> QED BY <1>1, <1>2, <1>3, <1>4 DEF KeysHold, IsDevice

\* What a step of c keeps of the identities, when it is not one of the gateway's.
Keeps(c) == /\ Moves(c) /\ CallHolds(call'[c], DOMAIN devices') /\ call'[c].step \notin GrantSteps
            /\ DOMAIN devices \subseteq DOMAIN devices'
            /\ AccountsHold' /\ KeysHold'

LEMMA KeepsDevices ==
  ASSUME NEW c \in Callers, GoesElsewhere(c), AccountsHold', KeysHold', DOMAIN devices' = DOMAIN devices
  PROVE  Keeps(c)
  BY DEF Keeps, GoesElsewhere

LEMMA SessionsGo ==
  ASSUME CallsHold, AccountsHold, KeysHold, NEW c \in Callers, SessionsStep(c)
  PROVE  Keeps(c)
<1> USE DEF Simple, Special, GrantSteps, TokenSteps, UserSteps
<1>0. CallHolds(call[c], DOMAIN devices)
  BY HasStep
<1>a. UNCHANGED sessionVars => KeysHold' /\ DOMAIN devices' = DOMAIN devices
  BY SameKeys DEF sessionVars
<1>b. UNCHANGED accountsAndBelow => AccountsHold'
  BY SameAccounts DEF accountsAndBelow
<1>1. ASSUME NEW f, IssueToken(c, f) PROVE Keeps(c)
  <2> DEFINE m == [op |-> "login", step |-> "ask roles", user |-> call[c].user, print |-> f,
                   provider |-> ProviderOf[call[c].id]]
  <2>1. CallHolds(m, DOMAIN devices) /\ m.step \notin GrantSteps
    BY DEF CallHolds, Known
  <2>2. Goes(c, m)
    BY <1>1 DEF IssueToken
  <2> HIDE DEF m
  <2>3. GoesElsewhere(c)
    BY <2>1, <2>2, GoesOn DEF GoesElsewhere
  <2> QED BY <1>1, <1>a, <1>b, <2>3, KeepsDevices DEF IssueToken
<1>2. ASSUME NEW f, LoginResolved(c, f) PROVE Keeps(c)
  <2> DEFINE m == [op |-> "login", step |-> "ask roles", user |-> call[c].user, print |-> f,
                   provider |-> ProviderOf[call[c].id]]
  <2>1. CallHolds(m, DOMAIN devices) /\ m.step \notin GrantSteps
    BY DEF CallHolds, Known
  <2>2. Goes(c, m)
    BY <1>2 DEF LoginResolved
  <2> HIDE DEF m
  <2>3. GoesElsewhere(c)
    BY <2>1, <2>2, GoesOn DEF GoesElsewhere
  <2>4. \E u, row : accounts' = [accounts EXCEPT ![u] = row]
    BY <1>2 DEF LoginResolved, UpdateIfUnedited
  <2>5. AccountsHold'
    BY <1>2, <2>4, AccountWritten DEF LoginResolved
  <2> QED BY <1>2, <1>a, <2>3, <2>5, KeepsDevices DEF LoginResolved
<1>3. ASSUME AsksRoles(c) PROVE Keeps(c)
  <2> DEFINE m == [op |-> call[c].op, step |-> "create session", device |-> <<call[c].user, call[c].print>>,
                   key |-> keys + 1, provider |-> call[c].provider, compared |-> FALSE]
  <2>1. call[c].op = "login"
    BY <1>0, <1>3 DEF AsksRoles, At, CallHolds, Known
  <2>2. Known(m, DOMAIN devices) /\ m.step = "create session"
    BY <2>1 DEF Known
  <2>3. GetUserRoles(c, call[c].user, m)
    BY <1>3 DEF AsksRoles
  <2> HIDE DEF m
  <2>4. GoesElsewhere(c)
    BY <2>2, <2>3, GetsThen
  <2>5. KeysHold'
    BY <1>3 DEF AsksRoles, KeysHold, OldKeysStayOld
  <2> QED BY <1>3, <1>b, <2>4, <2>5, KeepsDevices DEF AsksRoles
<1>4. ASSUME CreateSession(c) PROVE Keeps(c)
  <2>1. call[c].op = "login" \/ (call[c].compared /\ call[c].device \in DOMAIN devices)
    BY <1>0, <1>4 DEF CreateSession, At, CallHolds, Known
  <2>2. /\ CreateSessionRow(call[c].device, call[c].key, call[c].provider)
        /\ \/ /\ due' = Put(due, call[c].device, call[c].key)
              /\ restored' = restored \ {call[c].device}
           \/ /\ call[c].device \in DOMAIN devices
              /\ restored' = IF due[call[c].device] # call[c].key THEN restored \cup {call[c].device}
                             ELSE restored
              /\ UNCHANGED due
    BY <1>4, <2>1 DEF CreateSession
  <2>3. KeysHold' /\ DOMAIN devices \subseteq DOMAIN devices'
    BY <2>2, SessionMade
  <2> DEFINE m == [op |-> call[c].op, step |-> "token", device |-> call[c].device,
                   token |-> MakeSessionToken(call[c].key)]
  <2>4. Simple(m)
    OBVIOUS
  <2>5. Goes(c, m)
    BY <1>4 DEF CreateSession
  <2> HIDE DEF m
  <2>6. Moves(c) /\ CallHolds(call'[c], DOMAIN devices') /\ call'[c].step \notin GrantSteps
    BY <2>4, <2>5, GoesOn, SimpleHolds
  <2> QED BY <1>4, <1>b, <2>3, <2>6 DEF Keeps, CreateSession
<1>5. ASSUME UpdateDeviceToken(c) PROVE Keeps(c)
  <2>1. GoesElsewhere(c)
    BY <1>5, EndsSimply DEF UpdateDeviceToken
  <2>2. /\ devices' = [d \in DOMAIN devices |-> devices'[d]]
        /\ \A d \in DOMAIN devices : \/ devices'[d] = [devices[d] EXCEPT !.token = call[c].token]
                                     \/ devices'[d] = devices[d]
    BY <1>5 DEF UpdateDeviceToken, UpdateDeviceTokenRow, KeysHold
  <2>3. \A d \in DOMAIN devices : IsDevice(devices[d])
    BY DEF KeysHold, IsDevice
  <2>4. ASSUME NEW d \in DOMAIN devices
        PROVE  IsDevice(devices'[d]) /\ devices'[d].key = devices[d].key
    <3>1. IsDevice(devices[d])
      BY <2>3
    <3>2. CASE devices'[d] = [devices[d] EXCEPT !.token = call[c].token]
      BY <3>1, <3>2, TokenWritten
    <3> QED BY <2>2, <3>1, <3>2
  <2> QED BY <1>5, <1>b, <2>1, <2>2, <2>4, KeysKept, KeepsDevices DEF UpdateDeviceToken
<1>6. ASSUME NEW d \in DOMAIN devices, NEW k, RefreshToken(c, d, k) PROVE Keeps(c)
  <2> DEFINE m == [op |-> "refresh", step |-> "refresh roles", device |-> d, key |-> k,
                   provider |-> accounts[d[1]].provider, compared |-> GetRotkey(d) = k]
  <2>1. m.compared
    BY <1>6 DEF RefreshToken
  <2>2. CallHolds(m, DOMAIN devices) /\ m.step \notin GrantSteps
    BY <2>1 DEF CallHolds, Known
  <2>3. Goes(c, m)
    BY <1>6 DEF RefreshToken, Compared
  <2> HIDE DEF m
  <2>4. GoesElsewhere(c)
    BY <2>2, <2>3, GoesOn DEF GoesElsewhere
  <2> QED BY <1>6, <1>a, <1>b, <2>4, KeepsDevices DEF RefreshToken
<1>7. ASSUME RefreshRoles(c) PROVE Keeps(c)
  <2> DEFINE m == [call[c] EXCEPT !.step = "create session"]
  <2>1. /\ call[c] = [op |-> "refresh", step |-> "refresh roles", device |-> call[c].device,
                      key |-> call[c].key, provider |-> call[c].provider, compared |-> call[c].compared]
        /\ call[c].compared /\ call[c].device \in DOMAIN devices
    BY <1>0, <1>7 DEF RefreshRoles, At, CallHolds, Known
  <2>2. m.step = "create session" /\ "step" \in DOMAIN m /\ m.device = call[c].device
    BY <2>1
  <2>3. m.compared = call[c].compared
    BY <2>1
  <2>4. GetUserRoles(c, call[c].device[1], m)
    BY <1>7 DEF RefreshRoles
  <2> HIDE DEF m
  <2>5. Known(m, DOMAIN devices)
    BY <2>1, <2>2, <2>3 DEF Known
  <2>6. GoesElsewhere(c)
    BY <2>2, <2>4, <2>5, GetsThen
  <2> QED BY <1>7, <1>a, <1>b, <2>6, KeepsDevices DEF RefreshRoles
<1>8. ASSUME NEW u, InvalidateToken(c, u) PROVE Keeps(c)
  <2>1. call[c] = Idle /\ UNCHANGED call
    BY <1>8 DEF InvalidateToken, Starts
  <2>2. GoesElsewhere(c)
    <3>1. call[c].step = "idle"
      BY <2>1 DEF Idle
    <3> QED BY <2>1, <3>1, StaysSimply
  <2>3. KeysHold' /\ DOMAIN devices' = DOMAIN devices
    BY <1>8, KeysInvalidated DEF InvalidateToken
  <2> QED BY <1>8, <1>b, <2>2, <2>3, KeepsDevices DEF InvalidateToken
<1>9. ASSUME NEW k, LogoutDevice(c, k) PROVE Keeps(c)
  <2>1. call[c] = Idle /\ UNCHANGED call
    BY <1>9 DEF LogoutDevice, Starts
  <2>2. GoesElsewhere(c)
    <3>1. call[c].step = "idle"
      BY <2>1 DEF Idle
    <3> QED BY <2>1, <3>1, StaysSimply
  <2>3. /\ devices' = [d \in DOMAIN devices |-> devices'[d]]
        /\ \A d \in DOMAIN devices : \E r : devices'[d] = [devices[d] EXCEPT !.revoked = r]
    BY <1>9 DEF LogoutDevice, RevokeDeviceTokenRow
  <2>4. \A d \in DOMAIN devices : IsDevice(devices[d])
    BY DEF KeysHold, IsDevice
  <2>5. ASSUME NEW d \in DOMAIN devices
        PROVE  IsDevice(devices'[d]) /\ devices'[d].key = devices[d].key
    <3>1. PICK r : devices'[d] = [devices[d] EXCEPT !.revoked = r]
      BY <2>3
    <3> QED BY <2>4, <3>1, DeviceRevoked
  <2> QED BY <1>9, <1>b, <2>2, <2>3, <2>5, KeysKept, KeepsDevices DEF LogoutDevice
<1>10. ASSUME RevokeProviderTokens(c) PROVE Keeps(c)
  <2>1. GoesElsewhere(c)
    BY <1>10, EndsSimply DEF RevokeProviderTokens
  <2>2. /\ devices' = [d \in DOMAIN devices |-> devices'[d]]
        /\ \A d \in DOMAIN devices : \E r : devices'[d] = [devices[d] EXCEPT !.revoked = r]
    BY <1>10 DEF RevokeProviderTokens, RevokeProviderTokensRow
  <2>3. \A d \in DOMAIN devices : IsDevice(devices[d])
    BY DEF KeysHold, IsDevice
  <2>4. ASSUME NEW d \in DOMAIN devices
        PROVE  IsDevice(devices'[d]) /\ devices'[d].key = devices[d].key
    <3>1. PICK r : devices'[d] = [devices[d] EXCEPT !.revoked = r]
      BY <2>2
    <3> QED BY <2>3, <3>1, DeviceRevoked
  <2> QED BY <1>10, <1>b, <2>1, <2>2, <2>4, KeysKept, KeepsDevices DEF RevokeProviderTokens
<1>11. ASSUME SessionCallFails(c) PROVE Keeps(c)
  BY <1>11, <1>a, <1>b, EndsSimply, KeepsDevices DEF SessionCallFails
<1> QED
  BY <1>1, <1>2, <1>3, <1>4, <1>5, <1>6, <1>7, <1>8, <1>9, <1>10, <1>11 DEF SessionsStep

-----------------------------------------------------------------------------
(* The gateway *)

LEMMA SwitchGoes ==
  ASSUME SwitchedOffStaysOff, NEW c \in Callers,
         SwitchOff(c) \/ \E on : EditSwitch(c, on)
  PROVE  SwitchedOffStaysOff'
  BY DEF SwitchOff, EditSwitch, SwitchedOffStaysOff

LEMMA SameSwitch ==
  ASSUME SwitchedOffStaysOff, UNCHANGED switchVars
  PROVE  SwitchedOffStaysOff'
  BY DEF SwitchedOffStaysOff, switchVars

\* What a step of the gateway keeps of the identities.
GatewayKeeps(c) == /\ Moves(c) /\ CallHolds(call'[c], DOMAIN devices)
                   /\ UNCHANGED sessionsAndBelow /\ SwitchedOffStaysOff'

LEMMA GrantStepHolds ==
  ASSUME NEW m, "step" \in DOMAIN m, m.step \in GrantSteps,
         m.step # "link client", m.step = "make code" => m.user \in Users, NEW known
  PROVE  CallHolds(m, known)
  BY DEF GrantSteps, TokenSteps, UserSteps, CallHolds, Known

LEMMA GoesToGrant ==
  ASSUME CallsHold, NEW c \in Callers, NEW m, Goes(c, m),
         "step" \in DOMAIN m, m.step \in GrantSteps,
         m.step # "link client", m.step = "make code" => m.user \in Users
  PROVE  Moves(c) /\ CallHolds(call'[c], DOMAIN devices)
  BY GoesOn, GrantStepHolds

LEMMA StepsToToken ==
  ASSUME CallsHold, NEW c \in Callers, NEW next \in TokenSteps, Goes(c, [call[c] EXCEPT !.step = next])
  PROVE  Moves(c) /\ CallHolds(call'[c], DOMAIN devices)
<1> DEFINE m == [call[c] EXCEPT !.step = next]
<1>1. "step" \in DOMAIN m /\ m.step = next
  BY HasStep
<1>2. Goes(c, m)
  OBVIOUS
<1> HIDE DEF m
<1> QED BY <1>1, <1>2, GoesToGrant DEF GrantSteps, TokenSteps

LEMMA ElsewhereKeeps ==
  ASSUME SwitchedOffStaysOff, NEW c \in Callers, GoesElsewhere(c), UNCHANGED sessionsAndBelow,
         UNCHANGED switchVars
  PROVE  GatewayKeeps(c)
  BY SameSwitch DEF GatewayKeeps, GoesElsewhere

LEMMA GrantKeeps ==
  ASSUME SwitchedOffStaysOff, NEW c \in Callers, Moves(c), CallHolds(call'[c], DOMAIN devices),
         UNCHANGED sessionsAndBelow, UNCHANGED switchVars
  PROVE  GatewayKeeps(c)
  BY SameSwitch DEF GatewayKeeps

\* The gateway's steps that come to none of its grants and leave what it granted alone.
AsideStep(c) ==
  \/ \E ip \in scene.ips : PostOauthRegister(c, ip) \/ PostOauthToken(c, ip)
  \/ RegisterClient(c)
  \/ CountRefusal(c)
  \/ SwitchOff(c)
  \/ \E on \in BOOLEAN : EditSwitch(c, on)
  \/ CheckUserMcpRole(c)
  \/ UnsupportedGrant(c)
  \/ GatewayCallFails(c)

LEMMA AsideGo ==
  ASSUME CallsHold, SwitchedOffStaysOff, NEW c \in Callers, AsideStep(c)
  PROVE  /\ GoesElsewhere(c)
         /\ UNCHANGED <<sessionsAndBelow, grantVars>>
         /\ SwitchedOffStaysOff'
<1> USE DEF Simple, Special, GrantSteps, TokenSteps, UserSteps
<1> DEFINE Goal == /\ GoesElsewhere(c)
                   /\ UNCHANGED <<sessionsAndBelow, grantVars>>
                   /\ SwitchedOffStaysOff'
<1>0. CallHolds(call[c], DOMAIN devices)
  BY HasStep
<1>1. ASSUME NEW ip, PostOauthRegister(c, ip) PROVE Goal
  <2>1. GoesElsewhere(c)
    BY <1>1, GoesSimply DEF PostOauthRegister, CheckRegisterRate
  <2> QED BY <1>1, <2>1, SameSwitch DEF PostOauthRegister
<1>2. ASSUME NEW ip, PostOauthToken(c, ip) PROVE Goal
  <2>1. GoesElsewhere(c)
    BY <1>2, GoesSimply, EndsSimply DEF PostOauthToken, Ends
  <2> QED BY <1>2, <2>1, SameSwitch DEF PostOauthToken
<1>3. ASSUME RegisterClient(c) PROVE Goal
  <2>1. GoesElsewhere(c)
    BY <1>3, GoesSimply, EndsSimply DEF RegisterClient, CheckRegisterRate
  <2> QED BY <1>3, <2>1, SameSwitch DEF RegisterClient
<1>4. ASSUME CountRefusal(c) PROVE Goal
  <2>1. GoesElsewhere(c)
    BY <1>4, GoesSimply, EndsSimply DEF CountRefusal
  <2> QED BY <1>4, <2>1, SameSwitch DEF CountRefusal, gatewayVars
<1>5. ASSUME SwitchOff(c) PROVE Goal
  BY <1>5, EndsSimply, SwitchGoes DEF SwitchOff
<1>6. ASSUME NEW on, EditSwitch(c, on) PROVE Goal
  <2>1. call[c] = Idle /\ UNCHANGED call
    BY <1>6 DEF EditSwitch, Starts
  <2>2. call[c].step = "idle"
    BY <2>1 DEF Idle
  <2>3. GoesElsewhere(c)
    BY <2>1, <2>2, StaysSimply
  <2> QED BY <1>6, <2>3, SwitchGoes DEF EditSwitch
<1>7. ASSUME CheckUserMcpRole(c) PROVE Goal
  <2>1. call[c].user \in Users
    BY <1>0, <1>7 DEF CheckUserMcpRole, At, CallHolds, Known
  <2>2. PICK then : /\ GetUserRoles(c, call[c].user, then)
                    /\ then \in {[op |-> "callback", step |-> "get client", user |-> call[c].user], Idle}
    BY <1>7 DEF CheckUserMcpRole
  <2>3. Known(then, DOMAIN devices) /\ then.step \notin GrantSteps \cup {"fill"}
    <3>1. CASE then = Idle
      BY <3>1 DEF Known, Idle
    <3>2. CASE then = [op |-> "callback", step |-> "get client", user |-> call[c].user]
      BY <2>1, <3>2 DEF Known
    <3> QED BY <2>2, <3>1, <3>2
  <2>4. GoesElsewhere(c)
    BY <2>2, <2>3, GetsThen
  <2> QED BY <1>7, <2>4, SameSwitch DEF CheckUserMcpRole, gatewayVars
<1>8. ASSUME UnsupportedGrant(c) PROVE Goal
  BY <1>8, EndsSimply, SameSwitch DEF UnsupportedGrant, gatewayVars
<1>9. ASSUME GatewayCallFails(c) PROVE Goal
  BY <1>9, EndsSimply, SameSwitch DEF GatewayCallFails, gatewayVars
<1> QED BY <1>1, <1>2, <1>3, <1>4, <1>5, <1>6, <1>7, <1>8, <1>9 DEF AsideStep

LEMMA GatewayGo ==
  ASSUME CallsHold, AccountsHold, SwitchedOffStaysOff, NEW c \in Callers, GatewayStep(c),
         ~\E i \in Identities : LookupUser(c, "callback", i) /\ UNCHANGED <<sessionVars, gatewayVars>>
  PROVE  GatewayKeeps(c)
<1> USE DEF Simple, Special, GrantSteps, TokenSteps, UserSteps
<1>0. CallHolds(call[c], DOMAIN devices)
  BY HasStep
<1>1. CASE AsideStep(c)
  BY <1>1, AsideGo DEF GatewayKeeps, GoesElsewhere
<1>2. ASSUME InsertAgent(c) PROVE GatewayKeeps(c)
  BY <1>2, EndsSimply, ElsewhereKeeps DEF InsertAgent
<1>3. ASSUME NEW a, GetClient(c, a) PROVE GatewayKeeps(c)
  <2> DEFINE m == [op |-> "callback", step |-> "link client", user |-> call[c].user, agent |-> a]
  <2>1. call[c].user \in Users
    BY <1>0, <1>3 DEF GetClient, At, CallHolds, Known
  <2>2. CallHolds(m, DOMAIN devices)
    BY <2>1 DEF CallHolds, Known
  <2>3. Goes(c, m)
    BY <1>3 DEF GetClient
  <2> HIDE DEF m
  <2>4. Moves(c) /\ CallHolds(call'[c], DOMAIN devices)
    BY <2>2, <2>3, GoesOn
  <2> QED BY <1>3, <2>4, GrantKeeps DEF GetClient, gatewayVars
<1>4. ASSUME NEW a, RevokeClient(c, a) PROVE GatewayKeeps(c)
  <2>1. call[c] = Idle /\ UNCHANGED call
    BY <1>4 DEF RevokeClient, Starts
  <2>2. call[c].step = "idle"
    BY <2>1 DEF Idle
  <2> QED BY <1>4, <2>1, <2>2, StaysSimply, ElsewhereKeeps DEF RevokeClient
<1>5. ASSUME LinkClientToUser(c) PROVE GatewayKeeps(c)
  <2> DEFINE m == [call[c] EXCEPT !.step = "make code"]
  <2>1. {"user", "step"} \subseteq DOMAIN call[c] /\ call[c].user \in Users
    BY <1>0, <1>5 DEF LinkClientToUser, At, CallHolds, Known
  <2>2. "step" \in DOMAIN m /\ m.step = "make code" /\ m.user \in Users
    BY <2>1
  <2>3. Goes(c, m)
    BY <1>5 DEF LinkClientToUser
  <2> HIDE DEF m
  <2>4. Moves(c) /\ CallHolds(call'[c], DOMAIN devices)
    BY <2>2, <2>3, GoesToGrant
  <2> QED BY <1>5, <2>4, GrantKeeps DEF LinkClientToUser
<1>6. ASSUME CreateAuthorizationCode(c) PROVE GatewayKeeps(c)
  BY <1>6, EndsSimply, ElsewhereKeeps DEF CreateAuthorizationCode
<1>7. ASSUME NEW k, ConsumeCode(c, k) PROVE GatewayKeeps(c)
  <2>1. Goes(c, [op |-> "token", step |-> "check client", code |-> k]) \/ Ends(c)
    BY <1>7 DEF ConsumeCode, Ends
  <2>2. Moves(c) /\ CallHolds(call'[c], DOMAIN devices)
    BY <2>1, GoesToGrant, EndsSimply DEF GoesElsewhere
  <2> QED BY <1>7, <2>2, GrantKeeps DEF ConsumeCode
<1>8. ASSUME NEW k, RefreshAccessToken(c, k) PROVE GatewayKeeps(c)
  <2>1. Moves(c) /\ CallHolds(call'[c], DOMAIN devices)
    BY <1>8, GoesToGrant DEF RefreshAccessToken
  <2> QED BY <1>8, <2>1, GrantKeeps DEF RefreshAccessToken, gatewayVars
<1>9. ASSUME CheckClient(c) PROVE GatewayKeeps(c)
  <2>1. Moves(c) /\ CallHolds(call'[c], DOMAIN devices)
    BY <1>9, StepsToToken, EndsSimply DEF CheckClient, GoesElsewhere
  <2> QED BY <1>9, <2>1, GrantKeeps DEF CheckClient, gatewayVars
<1>10. ASSUME RevokeAgentTokens(c) PROVE GatewayKeeps(c)
  <2>1. Moves(c) /\ CallHolds(call'[c], DOMAIN devices)
    BY <1>10, StepsToToken DEF RevokeAgentTokens
  <2> QED BY <1>10, <2>1, GrantKeeps DEF RevokeAgentTokens
<1>11. ASSUME ResolveAgentCredits(c) PROVE GatewayKeeps(c)
  <2>1. Moves(c) /\ CallHolds(call'[c], DOMAIN devices)
    BY <1>11, GoesToGrant DEF ResolveAgentCredits
  <2> QED BY <1>11, <2>1, GrantKeeps DEF ResolveAgentCredits, gatewayVars
<1>12. ASSUME CreateAgentToken(c) PROVE GatewayKeeps(c)
  BY <1>12, EndsSimply, ElsewhereKeeps DEF CreateAgentToken
<1>13. ASSUME RenewToken(c) PROVE GatewayKeeps(c)
  BY <1>13, EndsSimply, ElsewhereKeeps DEF RenewToken
<1> QED
  BY <1>1, <1>2, <1>3, <1>4, <1>5, <1>6, <1>7, <1>8, <1>9, <1>10, <1>11, <1>12, <1>13
  DEF GatewayStep, AsideStep

-----------------------------------------------------------------------------
(* Every step *)

\* Where calls are, when each knows what it may and none of the others moved.
LEMMA OthersHold ==
  ASSUME CallsHold, NEW c \in Callers, Moves(c), CallHolds(call'[c], DOMAIN devices'),
         DOMAIN devices \subseteq DOMAIN devices'
  PROVE  CallsHold'
<1>1. ASSUME NEW m, Known(m, DOMAIN devices) PROVE Known(m, DOMAIN devices')
  BY <1>1 DEF Known
<1>2. ASSUME NEW m, CallHolds(m, DOMAIN devices) PROVE CallHolds(m, DOMAIN devices')
  BY <1>1, <1>2 DEF CallHolds
<1>3. \A d \in Callers : CallHolds(call'[d], DOMAIN devices')
  BY <1>2 DEF CallsHold, Moves
<1> QED BY <1>3 DEF CallsHold, Moves

LEMMA KeepsHold ==
  ASSUME IdentityInv, NEW c \in Callers, Keeps(c), UNCHANGED switchVars
  PROVE  IdentityInv'
  BY OthersHold, SameSwitch DEF IdentityInv, Keeps

LEMMA ElsewhereHolds ==
  ASSUME IdentityInv, NEW c \in Callers, GoesElsewhere(c), AccountsHold', UNCHANGED sessionVars,
         UNCHANGED switchVars
  PROVE  IdentityInv'
<1>1. Keeps(c)
  BY SameKeys, KeepsDevices DEF IdentityInv, sessionVars
<1> QED BY <1>1, KeepsHold

LEMMA GatewayHolds ==
  ASSUME IdentityInv, NEW c \in Callers, GatewayKeeps(c)
  PROVE  IdentityInv'
<1>1. UNCHANGED <<accountVars, sessionVars>>
  BY DEF GatewayKeeps, sessionsAndBelow, accountsAndBelow
<1>2. AccountsHold' /\ KeysHold'
  BY <1>1, SameAccounts, SameKeys DEF IdentityInv
<1>3. devices' = devices
  BY <1>1 DEF sessionVars
<1>4. CallsHold'
  BY <1>3, OthersHold DEF IdentityInv, GatewayKeeps
<1> QED BY <1>2, <1>4 DEF IdentityInv, GatewayKeeps

LEMMA RestartHolds ==
  ASSUME IdentityInv, Restart
  PROVE  IdentityInv'
<1>1. AccountsHold' /\ KeysHold'
  BY SameAccounts, SameKeys DEF IdentityInv, Restart
<1>2. SwitchedOffStaysOff'
  BY DEF Restart, SwitchedOffStaysOff
<1>3. \A known : CallHolds(Idle, known)
  BY SimpleHolds DEF Simple, Special, GrantSteps, TokenSteps, UserSteps, Idle
<1>4. call' = [c \in Callers |-> Idle]
  BY DEF Restart
<1>5. CallsHold'
  BY <1>3, <1>4 DEF CallsHold
<1> QED BY <1>1, <1>2, <1>5 DEF IdentityInv

LEMMA NewIdentifier ==
  ASSUME NEW u, NEW p, NEW l
  PROVE  /\ IsIdentifier([guid |-> u, provider |-> p, linked |-> l])
         /\ [guid |-> u, provider |-> p, linked |-> l].guid = u
  BY DEF IsIdentifier

LEMMA InitHolds ==
  ASSUME Init
  PROVE  IdentityInv
<1> USE DEF Init
<1>1. CallsHold
  <2>1. call = [c \in Callers |-> Idle]
    BY DEF RolesInit
  <2>2. \A known : CallHolds(Idle, known)
    BY SimpleHolds DEF Simple, Special, GrantSteps, TokenSteps, UserSteps, Idle
  <2> QED BY <2>1, <2>2 DEF CallsHold
<1>2. AccountsHold
  <2>1. DOMAIN FirstAccounts \subseteq Users
    BY RolesAssumption, AccountsAssumption
  <2>2. accounts = [u \in DOMAIN accounts |-> accounts[u]] /\ DOMAIN accounts = DOMAIN FirstAccounts
    BY DEF AccountsInit
  <2>3. DOMAIN auth = {FirstAccounts[u] : u \in DOMAIN FirstAccounts} /\ auth = [i \in DOMAIN auth |-> auth[i]]
    BY DEF AccountsInit
  <2>4. ASSUME NEW u \in DOMAIN FirstAccounts
        PROVE  IsIdentifier(auth[FirstAccounts[u]]) /\ auth[FirstAccounts[u]].guid = u
    <3>1. (CHOOSE v \in DOMAIN FirstAccounts : FirstAccounts[v] = FirstAccounts[u]) = u
      BY AccountsAssumption
    <3>2. auth[FirstAccounts[u]] = [guid |-> u, provider |-> ProviderOf[FirstAccounts[u]],
                                    linked |-> TRUE]
      BY <3>1 DEF AccountsInit
    <3> QED BY <3>2, NewIdentifier
  <2>5. ASSUME NEW i \in DOMAIN auth
        PROVE  IsIdentifier(auth[i]) /\ auth[i].guid \in DOMAIN FirstAccounts
    <3>1. PICK u \in DOMAIN FirstAccounts : i = FirstAccounts[u]
      BY <2>3
    <3> QED BY <2>4, <3>1
  <2>6. EveryAccountHasAnIdentifier
    BY <2>2, <2>3, <2>4 DEF EveryAccountHasAnIdentifier
  <2> QED BY <2>1, <2>2, <2>3, <2>5, <2>6 DEF AccountsHold, IsIdentifier
<1>3. KeysHold
  BY DEF SessionsInit, KeysHold, OldKeysStayOld
<1>4. SwitchedOffStaysOff
  BY DEF GatewayInit, SwitchedOffStaysOff
<1> QED BY <1>1, <1>2, <1>3, <1>4 DEF IdentityInv

LEMMA NextHolds ==
  ASSUME IdentityInv, [Next]_vars
  PROVE  IdentityInv'
<1> USE DEF IdentityInv
<1>1. ASSUME NEW c \in Callers, RolesStep(c), UNCHANGED <<accountVars, sessionVars, gatewayVars>>
      PROVE  IdentityInv'
  BY <1>1, RolesGo, SameAccounts, ElsewhereHolds DEF gatewayVars
<1>2. ASSUME NEW c \in Callers, AccountsStep(c), UNCHANGED <<sessionVars, gatewayVars>>
      PROVE  IdentityInv'
  BY <1>2, AccountsGo, ElsewhereHolds DEF gatewayVars
<1>3. ASSUME NEW c \in Callers, SessionsStep(c), UNCHANGED gatewayVars
      PROVE  IdentityInv'
  BY <1>3, SessionsGo, KeepsHold DEF gatewayVars
<1>4. ASSUME NEW c \in Callers, GatewayStep(c)
      PROVE  IdentityInv'
  <2>1. CASE \E i \in Identities : LookupUser(c, "callback", i) /\ UNCHANGED <<sessionVars, gatewayVars>>
    BY <2>1, AccountsGo, ElsewhereHolds DEF gatewayVars
  <2>2. CASE ~\E i \in Identities : LookupUser(c, "callback", i) /\ UNCHANGED <<sessionVars, gatewayVars>>
    BY <1>4, <2>2, GatewayGo, GatewayHolds
  <2> QED BY <2>1, <2>2
<1>5. ASSUME Tick \/ UNCHANGED vars
      PROVE  IdentityInv'
  <2>1. UNCHANGED <<call, accountVars, sessionVars, switchVars>>
    BY <1>5 DEF Tick, vars, sessionsAndBelow, accountsAndBelow, gatewayVars
  <2>2. AccountsHold' /\ KeysHold' /\ SwitchedOffStaysOff'
    BY <2>1, SameAccounts, SameKeys, SameSwitch
  <2>3. CallsHold'
    BY <2>1 DEF sessionVars, CallsHold
  <2> QED BY <2>2, <2>3
<1>6. ASSUME Restart
      PROVE  IdentityInv'
  BY <1>6, RestartHolds
<1> QED
  BY <1>1, <1>2, <1>3, <1>4, <1>5, <1>6 DEF Next, SessionsNext, AccountsNext, RolesNext

-----------------------------------------------------------------------------
LEMMA IdentityInvariant == Spec => []IdentityInv
<1>1. Init => IdentityInv
  BY InitHolds
<1>2. IdentityInv /\ [Next]_vars => IdentityInv'
  BY NextHolds
<1> QED BY <1>1, <1>2, PTL DEF Spec

\* Of every account there is an identifier to sign in with, except where another
\* account has taken it over, for any number of sign-ins, registrations, links and
\* unlinks at once, failures and restarts.
\* (identity/auth/mssql.py: create_from_provider_v1; oauth_module.py: resolve_user)
THEOREM AccountsAreReached == Spec => []EveryAccountHasAnIdentifier
<1>1. IdentityInv => EveryAccountHasAnIdentifier
  BY DEF IdentityInv, AccountsHold
<1> QED BY <1>1, IdentityInvariant, PTL

\* A rotation key that has been replaced comes back only by a refresh that had found
\* it stored: every session that is made without a sign-in has compared its key, for
\* any number of users, devices and requests in flight.
\* (session_module.py: refresh_token, invalidate_token; oauth_module.py: create_session)
THEOREM KeysStayOld == Spec => []OldKeysStayOld
<1>1. IdentityInv => OldKeysStayOld
  BY DEF IdentityInv, KeysHold
<1> QED BY <1>1, IdentityInvariant, PTL

\* A switch the process has turned off stays off over failures and restarts, unless
\* an administrator edits the row.
\* (mcp_gateway_module.py: _set_dcr_enabled, refresh_runtime_config)
THEOREM SwitchStaysOff == Spec => []SwitchedOffStaysOff
<1>1. IdentityInv => SwitchedOffStaysOff
  BY DEF IdentityInv
<1> QED BY <1>1, IdentityInvariant, PTL

-----------------------------------------------------------------------------
(* Grants *)

AgentRows == [user : Users \cup {NoProvider}, active : BOOLEAN]
CodeRows == [agent : Nat, user : Users, consumed : BOOLEAN]
TokenRows == [grant : Nat, user : Users \cup {NoProvider}, renewal : BOOLEAN, revoked : BOOLEAN]

\* Agent a is linked to user u, or has been to several.
LinkedTo(a, u, ags, rl) == ags[a].user = u \/ a \in rl

Granted == {tokens[t].grant : t \in DOMAIN tokens}

CodesFollow ==
  /\ agents \in Seq(AgentRows) /\ codes \in Seq(CodeRows)
  /\ \A k \in DOMAIN codes : /\ codes[k].agent \in DOMAIN agents
                             /\ LinkedTo(codes[k].agent, codes[k].user, agents, relinked)

TokensFollow ==
  /\ tokens \in Seq(TokenRows)
  /\ Granted \subseteq DOMAIN codes
  /\ \A t \in DOMAIN tokens : codes[tokens[t].grant].consumed
  /\ ended \subseteq Granted
  /\ TokensFollowGrants

\* What a call m of the gateway knows of the grants.
CallFollows(m, ags, ks, granted, rl) ==
  /\ m.step = "link client" => m.agent \in DOMAIN ags
  /\ m.step = "make code" => m.agent \in DOMAIN ags /\ LinkedTo(m.agent, m.user, ags, rl)
  /\ m.step \in TokenSteps \cup {"renew"} => m.code \in DOMAIN ks
  /\ m.step \in {"check client", "revoke tokens", "agent user"} =>
       "code" \in DOMAIN m
  /\ m.step \in {"make token", "renew"} =>
       /\ m.user \in Users \cup {NoProvider}
       /\ m.user = ks[m.code].user \/ ks[m.code].agent \in rl
  /\ m.step \in TokenSteps => ks[m.code].consumed /\ m.code \notin granted
  /\ m.step = "renew" => m.code \in granted

CallsFollow ==
  /\ \A c \in Callers : CallFollows(call[c], agents, codes, Granted, relinked)
  /\ \A c, d \in Callers : call[c].step \in TokenSteps /\ call[d].step \in TokenSteps /\ c # d =>
                             call[c].code # call[d].code

GrantsInv == CodesFollow /\ TokensFollow /\ CallsFollow

\* Links are kept, or their agents remembered; codes stay and stay consumed.
LinksKept ==
  /\ DOMAIN agents \subseteq DOMAIN agents'
  /\ relinked \subseteq relinked'
  /\ \A a \in DOMAIN agents, u \in Users :
       LinkedTo(a, u, agents, relinked) => LinkedTo(a, u, agents', relinked')

CodesKept ==
  /\ DOMAIN codes \subseteq DOMAIN codes'
  /\ \A k \in DOMAIN codes : /\ codes'[k].agent = codes[k].agent /\ codes'[k].user = codes[k].user
                             /\ codes[k].consumed => codes'[k].consumed

LEMMA CallStillFollows ==
  ASSUME NEW m, CallFollows(m, agents, codes, Granted, relinked),
         m.step = "make code" => m.user \in Users,
         LinksKept, CodesKept, Granted \subseteq Granted',
         m.step \in TokenSteps => m.code \notin Granted'
  PROVE  CallFollows(m, agents', codes', Granted', relinked')
  BY DEF CallFollows, LinksKept, CodesKept, TokenSteps

\* One call moves, the others know what they knew.
LEMMA OneFollows ==
  ASSUME CallsHold, CallsFollow, NEW c \in Callers, Moves(c),
         LinksKept, CodesKept, Granted \subseteq Granted',
         \A d \in Callers \ {c} : call[d].step \in TokenSteps => call[d].code \notin Granted',
         CallFollows(call'[c], agents', codes', Granted', relinked'),
         call'[c].step \in TokenSteps =>
           \A d \in Callers \ {c} : call[d].step \in TokenSteps => call[d].code # call'[c].code
  PROVE  CallsFollow'
<1>1. ASSUME NEW d \in Callers PROVE CallFollows(call'[d], agents', codes', Granted', relinked')
  <2>1. CASE d # c
    <3>1. call[d].step = "make code" => call[d].user \in Users
      BY HasStep DEF CallHolds, Known, UserSteps
    <3>2. CallFollows(call[d], agents, codes, Granted, relinked)
      BY DEF CallsFollow
    <3>3. call[d].step \in TokenSteps => call[d].code \notin Granted'
      BY <2>1
    <3>4. CallFollows(call[d], agents', codes', Granted', relinked')
      BY <3>1, <3>2, <3>3, CallStillFollows
    <3> QED BY <2>1, <3>4 DEF Moves
  <2> QED BY <2>1
<1>2. ASSUME NEW d \in Callers, NEW e \in Callers, call'[d].step \in TokenSteps,
             call'[e].step \in TokenSteps, d # e
      PROVE  call'[d].code # call'[e].code
  BY <1>2 DEF CallsFollow, Moves
<1> QED BY <1>1, <1>2 DEF CallsFollow

LEMMA NoGrantFollows ==
  ASSUME NEW m, m.step \notin GrantSteps, NEW ags, NEW ks, NEW granted, NEW rl
  PROVE  CallFollows(m, ags, ks, granted, rl)
  BY DEF CallFollows, GrantSteps, TokenSteps

LEMMA SameGranted ==
  ASSUME CallsFollow, UNCHANGED tokens
  PROVE  Granted' = Granted /\ \A c \in Callers : call[c].step \in TokenSteps => call[c].code \notin Granted'
<1>1. Granted' = Granted
  BY DEF Granted
<1> QED BY <1>1 DEF CallsFollow, CallFollows

LEMMA KeptRows ==
  /\ UNCHANGED <<agents, relinked>> => LinksKept
  /\ UNCHANGED codes => CodesKept
  BY DEF LinksKept, CodesKept

LEMMA SameCodes ==
  ASSUME CodesFollow, UNCHANGED <<agents, codes, relinked>>
  PROVE  CodesFollow'
  BY DEF CodesFollow

LEMMA SameTokens ==
  ASSUME TokensFollow, CodesKept, relinked \subseteq relinked', UNCHANGED <<tokens, ended, revived>>
  PROVE  TokensFollow'
<1>1. Granted' = Granted
  BY DEF Granted
<1>2. ASSUME NEW t \in DOMAIN tokens
      PROVE  /\ tokens[t].grant \in DOMAIN codes
             /\ codes'[tokens[t].grant].agent = codes[tokens[t].grant].agent
             /\ codes'[tokens[t].grant].user = codes[tokens[t].grant].user
             /\ codes'[tokens[t].grant].consumed
  BY DEF TokensFollow, Granted, CodesKept
<1>3. TokensFollowGrants'
  BY <1>2 DEF TokensFollow, TokensFollowGrants
<1>4. Granted' \subseteq DOMAIN codes'
  BY <1>1 DEF TokensFollow, CodesKept
<1> QED BY <1>1, <1>2, <1>3, <1>4 DEF TokensFollow

\* A step that changes no grant and comes to none.
LEMMA ElsewhereFollows ==
  ASSUME CallsHold, GrantsInv, NEW c \in Callers, Moves(c), call'[c].step \notin GrantSteps,
         UNCHANGED grantVars
  PROVE  GrantsInv'
<1>1. UNCHANGED <<agents, codes, tokens, relinked, ended, revived>>
  BY DEF grantVars
<1>2. CodesFollow' /\ TokensFollow'
  BY <1>1, SameCodes, SameTokens, KeptRows DEF GrantsInv
<1>3. CallsFollow'
  BY <1>1, OneFollows, SameGranted, KeptRows, NoGrantFollows DEF GrantsInv, GrantSteps
<1> QED BY <1>2, <1>3 DEF GrantsInv

LEMMA Appended ==
  ASSUME NEW S, NEW s \in Seq(S), NEW e \in S
  PROVE  /\ Append(s, e) \in Seq(S)
         /\ DOMAIN Append(s, e) = DOMAIN s \cup {Len(s) + 1}
         /\ Len(s) + 1 \notin DOMAIN s
         /\ \A i \in DOMAIN s : Append(s, e)[i] = s[i]
         /\ Append(s, e)[Len(s) + 1] = e
  BY AppendProperties, LenProperties

LEMMA Replaced ==
  ASSUME NEW S, NEW s \in Seq(S), NEW t, t = [i \in DOMAIN s |-> t[i]], \A i \in DOMAIN s : t[i] \in S
  PROVE  t \in Seq(S)
  BY LenProperties

LEMMA AgentLinked ==
  ASSUME NEW row \in AgentRows, NEW u \in Users \cup {NoProvider}
  PROVE  [row EXCEPT !.user = u] \in AgentRows /\ [row EXCEPT !.user = u].user = u
  BY DEF AgentRows

LEMMA AgentActive ==
  ASSUME NEW row \in AgentRows, NEW b \in BOOLEAN
  PROVE  [row EXCEPT !.active = b] \in AgentRows /\ [row EXCEPT !.active = b].user = row.user
  BY DEF AgentRows

LEMMA CodeRow ==
  ASSUME NEW row \in CodeRows, NEW b \in BOOLEAN
  PROVE  /\ [row EXCEPT !.consumed = b] \in CodeRows /\ [row EXCEPT !.consumed = b].consumed = b
         /\ [row EXCEPT !.consumed = b].agent = row.agent /\ [row EXCEPT !.consumed = b].user = row.user
  BY DEF CodeRows

LEMMA TokenRow ==
  ASSUME NEW row \in TokenRows, NEW b \in BOOLEAN
  PROVE  /\ [row EXCEPT !.revoked = b] \in TokenRows /\ [row EXCEPT !.revoked = b].revoked = b
         /\ [row EXCEPT !.revoked = b].grant = row.grant /\ [row EXCEPT !.revoked = b].user = row.user
         /\ [row EXCEPT !.revoked = b].renewal = row.renewal
  BY DEF TokenRows

LEMMA RowsTyped ==
  ASSUME GrantsInv
  PROVE  /\ \A a \in DOMAIN agents : agents[a] \in AgentRows /\ agents[a].user \in Users \cup {NoProvider}
         /\ \A k \in DOMAIN codes : codes[k] \in CodeRows /\ codes[k].agent \in DOMAIN agents
         /\ \A t \in DOMAIN tokens : tokens[t] \in TokenRows /\ tokens[t].grant \in DOMAIN codes
<1>1. \A a \in DOMAIN agents : agents[a] \in AgentRows
  BY ElementOfSeq, LenProperties DEF GrantsInv, CodesFollow
<1>2. \A a \in DOMAIN agents : agents[a].user \in Users \cup {NoProvider}
  BY <1>1 DEF AgentRows
<1>3. \A k \in DOMAIN codes : codes[k] \in CodeRows /\ codes[k].agent \in DOMAIN agents
  BY ElementOfSeq, LenProperties DEF GrantsInv, CodesFollow
<1>4. \A t \in DOMAIN tokens : tokens[t] \in TokenRows /\ tokens[t].grant \in DOMAIN codes
  BY ElementOfSeq, LenProperties DEF GrantsInv, TokensFollow, Granted
<1> QED BY <1>1, <1>2, <1>3, <1>4

\* A step that writes agents and leaves the links to users alone.
LEMMA AgentsWritten ==
  ASSUME CallsHold, GrantsInv, NEW c \in Callers, Moves(c), call'[c].step \notin GrantSteps,
         agents' \in Seq(AgentRows), DOMAIN agents \subseteq DOMAIN agents',
         \A a \in DOMAIN agents : agents'[a].user = agents[a].user,
         UNCHANGED <<codes, tokens, relinked, ended, revived>>
  PROVE  GrantsInv'
<1>1. LinksKept
  BY DEF LinksKept, LinkedTo
<1>2. CodesFollow'
  BY DEF GrantsInv, CodesFollow, LinkedTo
<1>3. TokensFollow'
  BY SameTokens, KeptRows DEF GrantsInv
<1>4. CallsFollow'
  BY <1>1, OneFollows, SameGranted, KeptRows, NoGrantFollows DEF GrantsInv, GrantSteps
<1> QED BY <1>2, <1>3, <1>4 DEF GrantsInv

LEMMA InsertAgentFollows ==
  ASSUME CallsHold, GrantsInv, NEW c \in Callers, InsertAgent(c)
  PROVE  GrantsInv'
<1> DEFINE row == [user |-> NoProvider, active |-> TRUE]
<1>1. row \in AgentRows /\ agents' = Append(agents, row)
  BY DEF AgentRows, InsertAgent
<1> HIDE DEF row
<1>2. agents \in Seq(AgentRows)
  BY DEF GrantsInv, CodesFollow
<1>3. /\ agents' \in Seq(AgentRows) /\ DOMAIN agents \subseteq DOMAIN agents'
      /\ \A a \in DOMAIN agents : agents'[a].user = agents[a].user
  BY <1>1, <1>2, Appended
<1> QED BY <1>3, EndsSimply, AgentsWritten DEF InsertAgent, GoesElsewhere

LEMMA RevokeClientFollows ==
  ASSUME CallsHold, GrantsInv, NEW c \in Callers, NEW a \in DOMAIN agents, RevokeClient(c, a)
  PROVE  GrantsInv'
<1>1. agents \in Seq(AgentRows)
  BY DEF GrantsInv, CodesFollow
<1>2. agents' = [b \in DOMAIN agents |-> agents'[b]] /\ agents'[a] = [agents[a] EXCEPT !.active = FALSE]
      /\ \A b \in DOMAIN agents : b # a => agents'[b] = agents[b]
  BY <1>1, LenProperties DEF RevokeClient
<1>3. agents'[a] \in AgentRows /\ agents'[a].user = agents[a].user
  BY <1>2, RowsTyped, AgentActive
<1>4. \A b \in DOMAIN agents : agents'[b] \in AgentRows /\ agents'[b].user = agents[b].user
  BY <1>2, <1>3, RowsTyped
<1>5. agents' \in Seq(AgentRows)
  BY <1>1, <1>2, <1>4, Replaced
<1>6. call[c] = Idle /\ UNCHANGED call
  BY DEF RevokeClient, Starts
<1>7. call[c].step = "idle"
  BY <1>6 DEF Idle
<1>8. Moves(c) /\ call'[c].step \notin GrantSteps
  BY <1>6, <1>7 DEF CallsHold, Moves, GrantSteps, TokenSteps
<1> QED BY <1>2, <1>4, <1>5, <1>8, AgentsWritten DEF RevokeClient

\* A call that goes on from one step of a grant to another without a change of the rows.
LEMMA GrantGoesOn ==
  ASSUME CallsHold, GrantsInv, NEW c \in Callers, NEW m, Goes(c, m), UNCHANGED grantVars,
         CallFollows(m, agents, codes, Granted, relinked),
         m.step \in TokenSteps => call[c].step \in TokenSteps /\ m.code = call[c].code
  PROVE  GrantsInv'
<1>1. UNCHANGED <<agents, codes, tokens, relinked, ended, revived>>
  BY DEF grantVars
<1>2. CodesFollow' /\ TokensFollow'
  BY <1>1, SameCodes, SameTokens, KeptRows DEF GrantsInv
<1>3. Moves(c) /\ call'[c] = m
  BY GoesOn
<1>4. Granted' = Granted
  BY <1>1, SameGranted DEF GrantsInv
<1>5. m.step \in TokenSteps => \A d \in Callers \ {c} : call[d].step \in TokenSteps => call[d].code # m.code
  BY DEF GrantsInv, CallsFollow
<1>6. CallsFollow'
  BY <1>1, <1>3, <1>4, <1>5, OneFollows, SameGranted, KeptRows DEF GrantsInv
<1> QED BY <1>2, <1>6 DEF GrantsInv

LEMMA GetClientFollows ==
  ASSUME CallsHold, GrantsInv, NEW c \in Callers, NEW a \in DOMAIN agents, GetClient(c, a)
  PROVE  GrantsInv'
<1> DEFINE m == [op |-> "callback", step |-> "link client", user |-> call[c].user, agent |-> a]
<1>1. CallFollows(m, agents, codes, Granted, relinked) /\ m.step \notin TokenSteps
  BY DEF CallFollows, TokenSteps
<1>2. Goes(c, m)
  BY DEF GetClient
<1> HIDE DEF m
<1> QED BY <1>1, <1>2, GrantGoesOn DEF GetClient, gatewayVars

LEMMA CheckClientFollows ==
  ASSUME CallsHold, GrantsInv, NEW c \in Callers, CheckClient(c)
  PROVE  GrantsInv'
<1> DEFINE m == [call[c] EXCEPT !.step = "revoke tokens"]
<1>1. CallFollows(call[c], agents, codes, Granted, relinked) /\ call[c].step = "check client"
  BY DEF GrantsInv, CallsFollow, CheckClient, At
<1>2. m.code = call[c].code /\ m.step = "revoke tokens" /\ "code" \in DOMAIN m
  BY <1>1, HasStep DEF CallFollows
<1>3. CallFollows(m, agents, codes, Granted, relinked) /\ m.code = call[c].code
  BY <1>1, <1>2 DEF CallFollows, TokenSteps
<1>4. UNCHANGED grantVars
  BY DEF CheckClient, gatewayVars
<1>5. CASE Goes(c, m)
  <2> HIDE DEF m
  <2> QED BY <1>1, <1>3, <1>4, <1>5, GrantGoesOn DEF TokenSteps
<1>6. CASE Ends(c)
  BY <1>4, <1>6, EndsSimply, ElsewhereFollows DEF GoesElsewhere
<1> QED BY <1>5, <1>6 DEF CheckClient

LEMMA ResolveAgentCreditsFollows ==
  ASSUME CallsHold, GrantsInv, NEW c \in Callers, ResolveAgentCredits(c)
  PROVE  GrantsInv'
<1> DEFINE m == [op |-> "token", step |-> "make token", code |-> call[c].code,
                 user |-> agents[codes[call[c].code].agent].user]
<1>1. CallFollows(call[c], agents, codes, Granted, relinked) /\ call[c].step = "agent user"
  BY DEF GrantsInv, CallsFollow, ResolveAgentCredits, At
<1>2. call[c].code \in DOMAIN codes /\ codes[call[c].code].consumed /\ call[c].code \notin Granted
  BY <1>1 DEF CallFollows, TokenSteps
<1>3. LET a == codes[call[c].code].agent IN
      a \in DOMAIN agents /\ (agents[a].user = codes[call[c].code].user \/ a \in relinked)
  BY <1>2 DEF GrantsInv, CodesFollow, LinkedTo
<1>4. agents[codes[call[c].code].agent].user \in Users \cup {NoProvider}
  BY <1>3, RowsTyped
<1>5. CallFollows(m, agents, codes, Granted, relinked)
  BY <1>2, <1>3, <1>4 DEF CallFollows, TokenSteps
<1>6. Goes(c, m) /\ UNCHANGED grantVars
  BY DEF ResolveAgentCredits, gatewayVars
<1>7. m.step \in TokenSteps /\ call[c].step \in TokenSteps /\ m.code = call[c].code
  BY <1>1 DEF TokenSteps
<1> HIDE DEF m
<1> QED BY <1>5, <1>6, <1>7, GrantGoesOn

LEMMA RefreshAccessTokenFollows ==
  ASSUME CallsHold, GrantsInv, NEW c \in Callers, NEW g \in DOMAIN codes, RefreshAccessToken(c, g)
  PROVE  GrantsInv'
<1> DEFINE m == [op |-> "token", step |-> "renew", code |-> g, user |-> agents[codes[g].agent].user]
<1>1. g \in Granted
  BY DEF RefreshAccessToken, LiveTokens, Granted
<1>2. LET a == codes[g].agent IN
      a \in DOMAIN agents /\ (agents[a].user = codes[g].user \/ a \in relinked)
  BY DEF GrantsInv, CodesFollow, LinkedTo
<1>3. agents[codes[g].agent].user \in Users \cup {NoProvider}
  BY <1>2, RowsTyped
<1>4. CallFollows(m, agents, codes, Granted, relinked) /\ m.step \notin TokenSteps
  BY <1>1, <1>2, <1>3 DEF CallFollows, TokenSteps
<1>5. Goes(c, m) /\ UNCHANGED grantVars
  BY DEF RefreshAccessToken, gatewayVars
<1> HIDE DEF m
<1> QED BY <1>4, <1>5, GrantGoesOn

\* The link of an agent is written; one that had another user is remembered.
LEMMA LinkClientFollows ==
  ASSUME CallsHold, GrantsInv, NEW c \in Callers, LinkClientToUser(c)
  PROVE  GrantsInv'
<1> DEFINE a == call[c].agent
           u == call[c].user
           m == [call[c] EXCEPT !.step = "make code"]
<1>1. {"step", "user", "agent"} \subseteq DOMAIN call[c] /\ u \in Users
  BY HasStep DEF LinkClientToUser, At, CallHolds, Known, UserSteps
<1>2. a \in DOMAIN agents
  BY DEF GrantsInv, CallsFollow, CallFollows, LinkClientToUser, At
<1>3. m.step = "make code" /\ m.user = u /\ m.agent = a
  BY <1>1
<1>4. Goes(c, m) /\ UNCHANGED <<codes, tokens, ended, revived>>
  BY DEF LinkClientToUser
<1>5. /\ agents' = [agents EXCEPT ![a].user = u]
      /\ relinked' = IF agents[a].user \in {NoProvider, u} THEN relinked ELSE relinked \cup {a}
  BY DEF LinkClientToUser
<1> HIDE DEF m, a, u
<1>6. agents \in Seq(AgentRows)
  BY DEF GrantsInv, CodesFollow
<1>7. agents' = [b \in DOMAIN agents |-> agents'[b]] /\ agents'[a] = [agents[a] EXCEPT !.user = u]
      /\ \A b \in DOMAIN agents : b # a => agents'[b] = agents[b]
  BY <1>2, <1>5, <1>6, LenProperties
<1>8. agents'[a] \in AgentRows /\ agents'[a].user = u
  <2>1. agents[a] \in AgentRows
    BY <1>2, RowsTyped
  <2>2. [agents[a] EXCEPT !.user = u] \in AgentRows /\ [agents[a] EXCEPT !.user = u].user = u
    BY <1>1, <2>1, AgentLinked
  <2> QED BY <1>7, <2>2
<1>9. agents' \in Seq(AgentRows) /\ DOMAIN agents' = DOMAIN agents
  <2>1. \A b \in DOMAIN agents : agents'[b] \in AgentRows
    BY <1>7, <1>8, RowsTyped
  <2> QED BY <1>6, <1>7, <2>1, Replaced
<1>10. LinksKept
  <2>1. relinked \subseteq relinked'
    BY <1>5
  <2>2. ASSUME NEW b \in DOMAIN agents, NEW v \in Users, LinkedTo(b, v, agents, relinked)
        PROVE  LinkedTo(b, v, agents', relinked')
    <3>1. v # NoProvider
      BY AccountsAssumption
    <3> QED BY <1>5, <1>7, <1>8, <2>1, <2>2, <3>1 DEF LinkedTo
  <2> QED BY <1>9, <2>1, <2>2 DEF LinksKept
<1>11. CodesFollow'
  <2>1. \A k \in DOMAIN codes : codes[k].user \in Users
    BY RowsTyped DEF CodeRows
  <2>2. \A k \in DOMAIN codes : LinkedTo(codes[k].agent, codes[k].user, agents', relinked')
    BY <1>10, <2>1 DEF LinksKept, GrantsInv, CodesFollow
  <2> QED BY <1>4, <1>9, <2>2 DEF GrantsInv, CodesFollow
<1>12. TokensFollow'
  BY <1>4, <1>10, SameTokens, KeptRows DEF GrantsInv, LinksKept
<1>13. CallFollows(m, agents', codes', Granted', relinked') /\ m.step \notin TokenSteps
  BY <1>2, <1>3, <1>8, <1>9 DEF CallFollows, TokenSteps, LinkedTo
<1>14. CallsFollow'
  BY <1>4, <1>10, <1>13, GoesOn, OneFollows, SameGranted, KeptRows DEF GrantsInv
<1> QED BY <1>11, <1>12, <1>14 DEF GrantsInv

LEMMA CreateCodeFollows ==
  ASSUME CallsHold, GrantsInv, NEW c \in Callers, CreateAuthorizationCode(c)
  PROVE  GrantsInv'
<1> DEFINE row == [agent |-> call[c].agent, user |-> call[c].user, consumed |-> FALSE]
<1>1. /\ call[c].user \in Users /\ call[c].agent \in DOMAIN agents
      /\ LinkedTo(call[c].agent, call[c].user, agents, relinked)
  <2>1. call[c].step = "make code"
    BY DEF CreateAuthorizationCode, At
  <2> QED BY <2>1, HasStep DEF CallHolds, Known, UserSteps, GrantsInv, CallsFollow, CallFollows
<1>2. row \in CodeRows
  BY <1>1, LenProperties DEF CodeRows, GrantsInv, CodesFollow
<1>3. codes' = Append(codes, row) /\ UNCHANGED <<agents, tokens, relinked, ended, revived>>
  BY DEF CreateAuthorizationCode
<1>4. row.agent = call[c].agent /\ row.user = call[c].user
  OBVIOUS
<1> HIDE DEF row
<1>5. codes \in Seq(CodeRows)
  BY DEF GrantsInv, CodesFollow
<1>6. /\ codes' \in Seq(CodeRows) /\ DOMAIN codes' = DOMAIN codes \cup {Len(codes) + 1}
      /\ \A k \in DOMAIN codes : codes'[k] = codes[k]
      /\ codes'[Len(codes) + 1] = row
  BY <1>2, <1>3, <1>5, Appended
<1>7. CodesKept
  BY <1>6 DEF CodesKept
<1>8. CodesFollow'
  BY <1>1, <1>3, <1>4, <1>6 DEF GrantsInv, CodesFollow
<1>9. TokensFollow'
  BY <1>3, <1>7, SameTokens DEF GrantsInv
<1>10. Moves(c) /\ call'[c].step \notin GrantSteps
  BY EndsSimply DEF CreateAuthorizationCode, GoesElsewhere
<1>11. CallsFollow'
  BY <1>3, <1>7, <1>10, OneFollows, SameGranted, KeptRows, NoGrantFollows DEF GrantsInv, GrantSteps
<1> QED BY <1>8, <1>9, <1>11 DEF GrantsInv

\* A code is consumed by one call, and no other comes to it.
LEMMA ConsumeCodeFollows ==
  ASSUME CallsHold, GrantsInv, NEW c \in Callers, NEW k \in DOMAIN codes, ConsumeCode(c, k)
  PROVE  GrantsInv'
<1>1. codes \in Seq(CodeRows)
  BY DEF GrantsInv, CodesFollow
<1>2. UNCHANGED <<agents, tokens, relinked, ended, revived>> /\ ~codes[k].consumed
  BY DEF ConsumeCode
<1>3. codes' = [l \in DOMAIN codes |-> codes'[l]] /\ codes'[k] = [codes[k] EXCEPT !.consumed = TRUE]
      /\ \A l \in DOMAIN codes : l # k => codes'[l] = codes[l]
  BY <1>1, LenProperties DEF ConsumeCode
<1>4. /\ codes'[k] \in CodeRows /\ codes'[k].consumed = TRUE
      /\ codes'[k].agent = codes[k].agent /\ codes'[k].user = codes[k].user
  BY <1>3, RowsTyped, CodeRow
<1>5. codes' \in Seq(CodeRows) /\ DOMAIN codes' = DOMAIN codes
  <2>1. \A l \in DOMAIN codes : codes'[l] \in CodeRows
    BY <1>3, <1>4, RowsTyped
  <2> QED BY <1>1, <1>3, <2>1, Replaced
<1>6. CodesKept
  BY <1>3, <1>4, <1>5 DEF CodesKept
<1>7. CodesFollow'
  BY <1>2, <1>3, <1>4, <1>5 DEF GrantsInv, CodesFollow
<1>8. TokensFollow'
  BY <1>2, <1>6, SameTokens DEF GrantsInv
<1> DEFINE m == [op |-> "token", step |-> "check client", code |-> k]
<1>9. k \notin Granted
  BY <1>2 DEF GrantsInv, TokensFollow, Granted
<1>10. CallFollows(m, agents', codes', Granted', relinked') /\ m.code = k /\ m.step = "check client"
  <2>1. Granted' = Granted
    BY <1>2, SameGranted DEF GrantsInv
  <2> QED BY <1>4, <1>5, <1>9, <2>1 DEF CallFollows, TokenSteps
<1>11. \A d \in Callers : call[d].step \in TokenSteps => call[d].code # k
  BY <1>2 DEF GrantsInv, CallsFollow, CallFollows
<1>12. Goes(c, m) \/ Ends(c)
  BY DEF ConsumeCode, Ends
<1> HIDE DEF m
<1>13. CASE Goes(c, m)
  <2>1. Moves(c) /\ call'[c] = m
    BY <1>13, GoesOn
  <2>2. CallsFollow'
    BY <1>2, <1>6, <1>10, <1>11, <2>1, OneFollows, SameGranted, KeptRows DEF GrantsInv
  <2> QED BY <1>7, <1>8, <2>2 DEF GrantsInv
<1>14. CASE Ends(c)
  <2>1. Moves(c) /\ call'[c].step \notin GrantSteps
    BY <1>14, EndsSimply DEF GoesElsewhere
  <2>2. CallsFollow'
    BY <1>2, <1>6, <2>1, OneFollows, SameGranted, KeptRows, NoGrantFollows DEF GrantsInv, GrantSteps
  <2> QED BY <1>7, <1>8, <2>2 DEF GrantsInv
<1> QED BY <1>12, <1>13, <1>14

\* A token is added, the first of its grant or a renewal.
LEMMA TokenAdded ==
  ASSUME GrantsInv, NEW g \in DOMAIN codes, NEW u \in Users \cup {NoProvider}, NEW r \in BOOLEAN,
         InsertToken(g, u, r),
         codes[g].consumed, u = codes[g].user \/ codes[g].agent \in relinked,
         ~r => g \notin Granted,
         revived \subseteq revived', g \in ended => g \in revived',
         UNCHANGED <<codes, relinked, ended>>
  PROVE  TokensFollow' /\ Granted' = Granted \cup {g}
<1> DEFINE row == [grant |-> g, user |-> u, renewal |-> r, revoked |-> FALSE]
<1>1. g \in Nat
  BY LenProperties DEF GrantsInv, CodesFollow
<1>2. row \in TokenRows /\ row.grant = g /\ row.user = u /\ row.renewal = r
  BY <1>1 DEF TokenRows
<1>3. tokens' = Append(tokens, row)
  BY DEF InsertToken
<1> HIDE DEF row
<1> DEFINE n == Len(tokens) + 1
<1>4. /\ tokens' \in Seq(TokenRows) /\ DOMAIN tokens' = DOMAIN tokens \cup {n} /\ n \notin DOMAIN tokens
      /\ \A t \in DOMAIN tokens : tokens'[t] = tokens[t]
      /\ tokens'[n] = row
  BY <1>2, <1>3, Appended DEF GrantsInv, TokensFollow
<1> HIDE DEF n
<1>5. Granted' = Granted \cup {g}
  BY <1>2, <1>4 DEF Granted
<1>6. \A t \in DOMAIN tokens' : codes[tokens'[t].grant].consumed
  BY <1>2, <1>4 DEF GrantsInv, TokensFollow
<1>7. \A t \in DOMAIN tokens : ~r => tokens[t].grant # g
  BY DEF Granted
<1>8. ASSUME NEW t \in DOMAIN tokens', NEW s \in DOMAIN tokens', ~tokens'[t].renewal, ~tokens'[s].renewal,
             tokens'[t].grant = tokens'[s].grant
      PROVE  t = s
  BY <1>2, <1>4, <1>7, <1>8 DEF GrantsInv, TokensFollow, TokensFollowGrants
<1>9. ASSUME NEW t \in DOMAIN tokens'
      PROVE  /\ tokens'[t].user = codes[tokens'[t].grant].user \/ codes[tokens'[t].grant].agent \in relinked
             /\ tokens'[t].revoked \/ tokens'[t].grant \notin ended \/ tokens'[t].grant \in revived'
  <2>1. CASE t = n
    BY <1>2, <1>4, <2>1
  <2>2. CASE t \in DOMAIN tokens
    BY <1>4, <2>2 DEF GrantsInv, TokensFollow, TokensFollowGrants
  <2> QED BY <1>4, <2>1, <2>2
<1>10. TokensFollowGrants'
  BY <1>8, <1>9 DEF TokensFollowGrants
<1>11. Granted' \subseteq DOMAIN codes' /\ ended' \subseteq Granted'
  BY <1>5 DEF GrantsInv, TokensFollow
<1> QED BY <1>4, <1>5, <1>6, <1>10, <1>11 DEF TokensFollow

LEMMA TokenFollows ==
  ASSUME CallsHold, GrantsInv, NEW c \in Callers, CreateAgentToken(c) \/ RenewToken(c)
  PROVE  GrantsInv'
<1> DEFINE g == call[c].code
<1>1. CallFollows(call[c], agents, codes, Granted, relinked)
  BY DEF GrantsInv, CallsFollow
<1>2. \/ call[c].step = "make token" /\ InsertToken(g, call[c].user, FALSE) /\ revived' = revived
      \/ /\ call[c].step = "renew" /\ InsertToken(g, call[c].user, TRUE)
         /\ revived' = IF g \in ended THEN revived \cup {g} ELSE revived
  BY DEF CreateAgentToken, RenewToken, At
<1>3. UNCHANGED <<agents, codes, relinked, ended>> /\ Ends(c)
  BY DEF CreateAgentToken, RenewToken
<1>4. /\ g \in DOMAIN codes /\ call[c].user \in Users \cup {NoProvider}
      /\ call[c].user = codes[g].user \/ codes[g].agent \in relinked
  BY <1>1, <1>2 DEF CallFollows, TokenSteps
<1>5. /\ call[c].step = "make token" => codes[g].consumed /\ g \notin Granted
      /\ call[c].step = "renew" => codes[g].consumed /\ g \in Granted
  <2>1. call[c].step = "renew" => g \in Granted
    BY <1>1 DEF CallFollows
  <2>2. \A k \in Granted : codes[k].consumed
    BY DEF GrantsInv, TokensFollow, Granted
  <2> QED BY <1>1, <2>1, <2>2 DEF CallFollows, TokenSteps
<1>6. TokensFollow' /\ Granted' = Granted \cup {g}
  <2>1. CASE /\ call[c].step = "make token" /\ InsertToken(g, call[c].user, FALSE)
             /\ revived' = revived
    <3>1. g \notin ended
      BY <1>5, <2>1 DEF GrantsInv, TokensFollow
    <3> QED BY <1>3, <1>4, <1>5, <2>1, <3>1, TokenAdded
  <2>2. CASE /\ call[c].step = "renew" /\ InsertToken(g, call[c].user, TRUE)
             /\ revived' = IF g \in ended THEN revived \cup {g} ELSE revived
    BY <1>3, <1>4, <1>5, <2>2, TokenAdded
  <2> QED BY <1>2, <2>1, <2>2
<1>7. ASSUME NEW d \in Callers \ {c}, call[d].step \in TokenSteps
      PROVE  call[d].code \notin Granted'
  <2>1. call[d].code \notin Granted
    BY <1>7 DEF GrantsInv, CallsFollow, CallFollows
  <2>2. call[d].code # g
    <3>1. CASE call[c].step = "make token"
      BY <1>7, <3>1 DEF GrantsInv, CallsFollow, TokenSteps
    <3>2. CASE call[c].step = "renew"
      BY <1>5, <2>1, <3>2
    <3> QED BY <1>2, <3>1, <3>2
  <2> QED BY <1>6, <2>1, <2>2
<1>8. Moves(c) /\ call'[c].step \notin GrantSteps
  BY <1>3, EndsSimply DEF GoesElsewhere
<1>9. CallsFollow'
  BY <1>3, <1>6, <1>7, <1>8, OneFollows, KeptRows, NoGrantFollows DEF GrantsInv, GrantSteps
<1>10. CodesFollow'
  BY <1>3, SameCodes DEF GrantsInv
<1> QED BY <1>6, <1>9, <1>10 DEF GrantsInv

\* The tokens of an agent are revoked, and their grants ended.
LEMMA RevokeTokensFollows ==
  ASSUME CallsHold, GrantsInv, NEW c \in Callers, RevokeAgentTokens(c)
  PROVE  GrantsInv'
<1> DEFINE m == [call[c] EXCEPT !.step = "agent user"]
           a == codes[call[c].code].agent
           Hers(t) == codes[tokens[t].grant].agent = a
<1>1. CallFollows(call[c], agents, codes, Granted, relinked) /\ call[c].step = "revoke tokens"
  BY DEF GrantsInv, CallsFollow, RevokeAgentTokens, At
<1>2. m.code = call[c].code /\ m.step = "agent user" /\ "code" \in DOMAIN m
  BY <1>1, HasStep DEF CallFollows
<1>3. /\ tokens' = [t \in DOMAIN tokens |-> IF Hers(t) THEN [tokens[t] EXCEPT !.revoked = TRUE]
                                            ELSE tokens[t]]
      /\ ended' = ended \cup {tokens[t].grant : t \in {t \in DOMAIN tokens : Hers(t)}}
      /\ Goes(c, m) /\ UNCHANGED <<agents, codes, relinked, revived>>
  BY DEF RevokeAgentTokens
<1> HIDE DEF m, a
<1>4. ASSUME NEW t \in DOMAIN tokens
      PROVE  /\ tokens'[t] \in TokenRows /\ tokens'[t].grant = tokens[t].grant
             /\ tokens'[t].user = tokens[t].user /\ tokens'[t].renewal = tokens[t].renewal
             /\ tokens'[t].revoked = IF Hers(t) THEN TRUE ELSE tokens[t].revoked
  <2>1. tokens[t] \in TokenRows
    BY RowsTyped
  <2>2. CASE Hers(t)
    <3>1. tokens'[t] = [tokens[t] EXCEPT !.revoked = TRUE]
      BY <1>3, <2>2
    <3> QED BY <2>1, <2>2, <3>1, TokenRow
  <2>3. CASE ~Hers(t)
    BY <1>3, <2>1, <2>3
  <2> QED BY <2>2, <2>3
<1>5. DOMAIN tokens' = DOMAIN tokens /\ tokens' \in Seq(TokenRows)
  <2>1. tokens' = [t \in DOMAIN tokens |-> tokens'[t]]
    BY <1>3
  <2>2. tokens \in Seq(TokenRows)
    BY DEF GrantsInv, TokensFollow
  <2> QED BY <1>4, <2>1, <2>2, Replaced
<1>6. Granted' = Granted
  BY <1>4, <1>5 DEF Granted
<1>7. TokensFollow'
  <2>1. ended' \subseteq Granted'
    BY <1>3, <1>6 DEF GrantsInv, TokensFollow, Granted
  <2>2. ASSUME NEW t \in DOMAIN tokens'
        PROVE  tokens'[t].revoked \/ tokens'[t].grant \notin ended' \/ tokens'[t].grant \in revived'
    <3>1. CASE Hers(t)
      BY <1>4, <1>5, <3>1
    <3>2. CASE ~Hers(t)
      <4>1. \A s \in DOMAIN tokens : Hers(s) => tokens[s].grant # tokens[t].grant
        BY <3>2
      <4>2. tokens[t].grant \in ended' => tokens[t].grant \in ended
        BY <1>3, <4>1
      <4> QED BY <1>3, <1>4, <1>5, <3>2, <4>2 DEF GrantsInv, TokensFollow, TokensFollowGrants
    <3> QED BY <3>1, <3>2
  <2>3. \A t, s \in DOMAIN tokens' :
          ~tokens'[t].renewal /\ ~tokens'[s].renewal /\ tokens'[t].grant = tokens'[s].grant => t = s
    BY <1>4, <1>5 DEF GrantsInv, TokensFollow, TokensFollowGrants
  <2>4. \A t \in DOMAIN tokens' : \/ tokens'[t].user = codes[tokens'[t].grant].user
                                  \/ codes[tokens'[t].grant].agent \in relinked
    BY <1>4, <1>5 DEF GrantsInv, TokensFollow, TokensFollowGrants
  <2>5. TokensFollowGrants'
    BY <1>3, <2>2, <2>3, <2>4 DEF TokensFollowGrants
  <2>6. \A t \in DOMAIN tokens' : codes'[tokens'[t].grant].consumed
    BY <1>3, <1>4, <1>5 DEF GrantsInv, TokensFollow
  <2> QED BY <1>3, <1>5, <1>6, <2>1, <2>5, <2>6 DEF GrantsInv, TokensFollow
<1>8. CallFollows(m, agents', codes', Granted', relinked')
  BY <1>1, <1>2, <1>3, <1>6 DEF CallFollows, TokenSteps
<1>9. Moves(c) /\ call'[c] = m
  BY <1>3, GoesOn
<1>10. ASSUME NEW d \in Callers \ {c}, call[d].step \in TokenSteps
       PROVE  call[d].code # m.code /\ call[d].code \notin Granted'
  BY <1>1, <1>2, <1>6, <1>10 DEF GrantsInv, CallsFollow, CallFollows, TokenSteps
<1>11. CallsFollow'
  BY <1>3, <1>6, <1>8, <1>9, <1>10, OneFollows, KeptRows DEF GrantsInv
<1>12. CodesFollow'
  BY <1>3, SameCodes DEF GrantsInv
<1> QED BY <1>7, <1>11, <1>12 DEF GrantsInv

LEMMA GrantsInit ==
  ASSUME Init
  PROVE  GrantsInv
<1> USE DEF Init, GatewayInit
<1>1. agents \in Seq(AgentRows)
  <2>1. [user |-> NoProvider, active |-> TRUE] \in AgentRows
    BY DEF AgentRows
  <2> QED BY <2>1, McpGatewayAssumption
<1>2. codes \in Seq(CodeRows) /\ tokens \in Seq(TokenRows) /\ DOMAIN codes = {} /\ DOMAIN tokens = {}
  OBVIOUS
<1>3. Granted = {}
  BY <1>2 DEF Granted
<1>4. CodesFollow /\ TokensFollow
  BY <1>1, <1>2, <1>3 DEF CodesFollow, TokensFollow, TokensFollowGrants
<1>5. \A c \in Callers : call[c].step = "idle"
  BY DEF RolesInit, Idle
<1>6. CallsFollow
  BY <1>5, NoGrantFollows DEF CallsFollow, GrantSteps, TokenSteps
<1> QED BY <1>4, <1>6 DEF GrantsInv

LEMMA GrantsNext ==
  ASSUME IdentityInv, GrantsInv, [Next]_vars
  PROVE  GrantsInv'
<1> USE DEF IdentityInv
<1>1. ASSUME NEW c \in Callers, RolesStep(c), UNCHANGED <<accountVars, sessionVars, gatewayVars>>
      PROVE  GrantsInv'
  BY <1>1, RolesGo, ElsewhereFollows DEF gatewayVars, GoesElsewhere
<1>2. ASSUME NEW c \in Callers, AccountsStep(c), UNCHANGED <<sessionVars, gatewayVars>>
      PROVE  GrantsInv'
  BY <1>2, AccountsGo, ElsewhereFollows DEF gatewayVars, GoesElsewhere
<1>3. ASSUME NEW c \in Callers, SessionsStep(c), UNCHANGED gatewayVars
      PROVE  GrantsInv'
  BY <1>3, SessionsGo, ElsewhereFollows DEF gatewayVars, Keeps
<1>4. ASSUME NEW c \in Callers, GatewayStep(c)
      PROVE  GrantsInv'
  <2>1. CASE AsideStep(c)
    BY <2>1, AsideGo, ElsewhereFollows DEF GoesElsewhere
  <2>2. CASE \E i \in Identities : LookupUser(c, "callback", i) /\ UNCHANGED <<sessionVars, gatewayVars>>
    BY <2>2, AccountsGo, ElsewhereFollows DEF gatewayVars, GoesElsewhere
  <2>3. CASE \E a \in DOMAIN agents : GetClient(c, a) \/ RevokeClient(c, a)
    BY <2>3, GetClientFollows, RevokeClientFollows
  <2>4. CASE \E k \in DOMAIN codes : ConsumeCode(c, k) \/ RefreshAccessToken(c, k)
    BY <2>4, ConsumeCodeFollows, RefreshAccessTokenFollows
  <2> QED
    BY <1>4, <2>1, <2>2, <2>3, <2>4, InsertAgentFollows, LinkClientFollows, CreateCodeFollows,
       CheckClientFollows, RevokeTokensFollows, ResolveAgentCreditsFollows, TokenFollows
    DEF GatewayStep, AsideStep
<1>5. ASSUME Tick \/ UNCHANGED vars
      PROVE  GrantsInv'
  <2>1. UNCHANGED <<call, agents, codes, tokens, relinked, ended, revived>>
    BY <1>5 DEF Tick, vars, gatewayVars, grantVars
  <2>2. CodesFollow' /\ TokensFollow'
    BY <2>1, SameCodes, SameTokens, KeptRows DEF GrantsInv
  <2>3. CallsFollow'
    BY <2>1, SameGranted DEF GrantsInv, CallsFollow
  <2> QED BY <2>2, <2>3 DEF GrantsInv
<1>6. ASSUME Restart
      PROVE  GrantsInv'
  <2>1. UNCHANGED <<agents, codes, tokens, relinked, ended, revived>> /\ call' = [c \in Callers |-> Idle]
    BY <1>6 DEF Restart, grantVars
  <2>2. CodesFollow' /\ TokensFollow'
    BY <2>1, SameCodes, SameTokens, KeptRows DEF GrantsInv
  <2>3. \A c \in Callers : call'[c].step = "idle"
    BY <2>1 DEF Idle
  <2>4. CallsFollow'
    BY <2>3, NoGrantFollows DEF CallsFollow, GrantSteps, TokenSteps
  <2> QED BY <2>2, <2>4 DEF GrantsInv
<1> QED
  BY <1>1, <1>2, <1>3, <1>4, <1>5, <1>6 DEF Next, SessionsNext, AccountsNext, RolesNext

\* A code is exchanged for one token, for the user who authorised the agent unless the
\* agent has been linked to another since, and a grant that was ended has no live token
\* but one that a renewal put back that had read it before: for any number of clients,
\* codes, exchanges, renewals and revocations at once, failures and restarts.
\* (mcp_gateway_module.py: exchange_authorization_code, refresh_access_token)
THEOREM TokensKeepToGrants == Spec => []TokensFollowGrants
<1>1. Init => GrantsInv
  BY GrantsInit
<1>2. IdentityInv /\ GrantsInv /\ [Next]_vars => GrantsInv'
  BY GrantsNext
<1>3. GrantsInv => TokensFollowGrants
  BY DEF GrantsInv, TokensFollow
<1> QED BY <1>1, <1>2, <1>3, IdentityInvariant, PTL DEF Spec

-----------------------------------------------------------------------------
(* Roles and their copies *)

\* The steps at which a call brings the copies of the definitions up to date, ...
Loading == {"load roles", "set roles"}
LoadingDomains == Loading \cup {"load domains", "set domains"}

\* ... and, with the copies of users, all such steps.
Renewing == LoadingDomains \cup {"refresh", "fill"}

\* The call will bring the cached mask of u up to date.
Renews(m, u) == m.step \in Loading \/ (m.step \in {"refresh", "fill"} /\ m.user = u)

CopiesRenewed ==
  /\ roles = defs \/ "roles" \in lagging \/ \E c \in Callers : call[c].step \in Loading
  /\ domains = defs \/ "domains" \in lagging \/ \E c \in Callers : call[c].step \in LoadingDomains
  /\ \A u \in DOMAIN cache :
       cache[u].mask = mask[u] \/ u \in lagging \/ \E c \in Callers : Renews(call[c], u)

MasksHold ==
  /\ mask = [u \in DOMAIN mask |-> mask[u]] /\ wanted = [u \in DOMAIN mask |-> wanted[u]]
  /\ DOMAIN accounts = DOMAIN mask
  /\ DOMAIN cache \subseteq DOMAIN mask
  /\ NamesFitMasks
  /\ ChangesAreKept

\* The users a call asks the roles of, or writes the masks of, have accounts.
UserNamed == {"resolved", "ask roles", "refresh", "set mask", "fill"}
DeviceNamed == {"refresh roles", "create session"}

Names(m, users) == /\ m.step \in UserNamed => m.user \in users
                   /\ m.step \in DeviceNamed => m.device[1] \in users

NamesAll(m, users) == Names(m, users) /\ (m.step = "fill" => Names(m.then, users) /\ m.then.step # "fill")

UsersHold == /\ \A c \in Callers : NamesAll(call[c], DOMAIN mask)
             /\ \A d \in DOMAIN devices : d[1] \in DOMAIN mask

RolesInv == MasksHold /\ CopiesRenewed /\ UsersHold


LEMMA PlainNames ==
  ASSUME NEW m, m.step \notin UserNamed \cup DeviceNamed, NEW users
  PROVE  Names(m, users) /\ NamesAll(m, users)
  BY DEF Names, NamesAll, UserNamed

LEMMA IdleNames ==
  ASSUME NEW users
  PROVE  Idle.step = "idle" /\ Names(Idle, users) /\ NamesAll(Idle, users)
<1>1. Idle.step = "idle"
  BY DEF Idle
<1> QED BY <1>1, PlainNames DEF UserNamed, DeviceNamed

LEMMA MoreNames ==
  ASSUME NEW m, NEW users, NEW more, users \subseteq more, NamesAll(m, users)
  PROVE  NamesAll(m, more)
  BY DEF Names, NamesAll

\* A step of c that names accounts, as accounts are made and none removed.
LEMMA StillNames ==
  ASSUME UsersHold, NEW c \in Callers, Moves(c), DOMAIN mask \subseteq DOMAIN mask',
         NamesAll(call'[c], DOMAIN mask'), \A d \in DOMAIN devices' : d[1] \in DOMAIN mask'
  PROVE  UsersHold'
<1>1. \A d \in Callers \ {c} : NamesAll(call'[d], DOMAIN mask')
  BY MoreNames DEF UsersHold, Moves
<1> QED BY <1>1 DEF UsersHold

LEMMA GoesToStep ==
  ASSUME CallsHold, NEW c \in Callers, NEW op, NEW step, Goes(c, [op |-> op, step |-> step])
  PROVE  Moves(c) /\ call'[c].step = step
<1> DEFINE m == [op |-> op, step |-> step]
<1>1. m.step = step
  OBVIOUS
<1>2. Goes(c, m)
  OBVIOUS
<1> HIDE DEF m
<1> QED BY <1>1, <1>2, GoesOn

\* A call that asks the roles of a user.
LEMMA GetsNamed ==
  ASSUME CallsHold, NEW c \in Callers, NEW users, NEW u \in users, NEW then, GetUserRoles(c, u, then),
         Names(then, users), then.step # "fill"
  PROVE  NamesAll(call'[c], users)
<1>1. CASE u \in DOMAIN cache
  <2>1. call'[c] = then
    BY <1>1, GoesOn DEF GetUserRoles
  <2> QED BY <2>1 DEF NamesAll
<1>2. CASE u \notin DOMAIN cache
  <2> DEFINE m == [op |-> call[c].op, step |-> "fill", user |-> u, seen |-> mask[u], then |-> then]
  <2>1. call'[c] = m
    BY <1>2, GoesOn DEF GetUserRoles, ReadsMask
  <2>2. m.step = "fill" /\ m.user = u /\ m.then = then
    OBVIOUS
  <2> HIDE DEF m
  <2>3. Names(m, users)
    BY <2>2 DEF Names, UserNamed, DeviceNamed
  <2> QED BY <2>1, <2>2, <2>3 DEF NamesAll
<1> QED BY <1>1, <1>2

\* A step that is no part of bringing a copy up to date, and touches neither tables
\* nor copies.
LEMMA SameMasks ==
  ASSUME MasksHold, UNCHANGED rolesVars, DOMAIN accounts' = DOMAIN accounts
  PROVE  MasksHold'
<1> USE DEF rolesVars
<1>1. NamesFitMasks'
  BY DEF MasksHold, NamesFitMasks, MaskToNames
<1>2. ChangesAreKept'
  BY DEF MasksHold, ChangesAreKept
<1> QED BY <1>1, <1>2 DEF MasksHold

\* Another call at its step is still there.
LEMMA OthersRenew ==
  ASSUME NEW c \in Callers, Moves(c), call[c].step \notin Renewing
  PROVE  /\ \A steps \in {Loading, LoadingDomains} :
              (\E d \in Callers : call[d].step \in steps) => \E d \in Callers : call'[d].step \in steps
         /\ \A u : (\E d \in Callers : Renews(call[d], u)) => \E d \in Callers : Renews(call'[d], u)
<1>1. ASSUME NEW d \in Callers, call[d].step \in Renewing
      PROVE  call'[d] = call[d]
  BY <1>1 DEF Moves
<1>2. \A d \in Callers : \A u : Renews(call[d], u) => call[d].step \in Renewing
  BY DEF Renews, Renewing, Loading, LoadingDomains
<1> QED BY <1>1, <1>2 DEF Renewing, LoadingDomains, Loading

LEMMA SameCopies ==
  ASSUME CopiesRenewed, NEW c \in Callers, Moves(c), call[c].step \notin Renewing, UNCHANGED rolesVars
  PROVE  CopiesRenewed'
  BY OthersRenew DEF CopiesRenewed, rolesVars

LEMMA AsideKeepsRoles ==
  ASSUME RolesInv, NEW c \in Callers, Moves(c), call[c].step \notin Renewing, UNCHANGED rolesVars,
         DOMAIN accounts' = DOMAIN accounts, NamesAll(call'[c], DOMAIN mask),
         \A d \in DOMAIN devices' : d[1] \in DOMAIN mask
  PROVE  RolesInv'
<1>1. mask' = mask
  BY DEF rolesVars
<1> QED BY <1>1, SameMasks, SameCopies, StillNames DEF RolesInv

-----------------------------------------------------------------------------
(* The steps of Roles *)

\* c has changed masks, and goes on to bring the copies up to date.
LEMMA MaskChanged ==
  ASSUME RolesInv, NEW c \in Callers, Moves(c), call[c].step \notin Renewing,
         mask' = [u \in DOMAIN mask |-> mask'[u]], wanted' = [u \in DOMAIN mask |-> wanted'[u]],
         \A u \in DOMAIN mask : mask'[u] = wanted'[u] \/ u \in reverted',
         \A u \in DOMAIN mask : mask'[u] = mask[u] \/ Renews(call'[c], u),
         defs' = defs \/ call'[c].step \in Loading,
         UNCHANGED <<copies, lagging, devices, accounts>>, NamesAll(call'[c], DOMAIN mask)
  PROVE  RolesInv'
<1>1. DOMAIN mask' = DOMAIN mask /\ DOMAIN wanted' = DOMAIN mask
  OBVIOUS
<1>2. MasksHold'
  <2>1. NamesFitMasks'
    BY DEF RolesInv, MasksHold, NamesFitMasks, MaskToNames, copies
  <2>2. ChangesAreKept'
    BY <1>1 DEF ChangesAreKept
  <2> QED BY <1>1, <2>1, <2>2 DEF RolesInv, MasksHold, copies
<1>3. CopiesRenewed'
  <2>1. call'[c].step \in Loading => call'[c].step \in LoadingDomains
    BY DEF LoadingDomains
  <2>2. roles' = roles /\ domains' = domains /\ cache' = cache
    BY DEF copies
  <2>3. \A u \in DOMAIN cache : u \in DOMAIN mask
    BY DEF RolesInv, MasksHold
  <2>4. \A u \in DOMAIN cache' :
           cache'[u].mask = mask'[u] \/ u \in lagging' \/ \E d \in Callers : Renews(call'[d], u)
    BY <2>2, <2>3, OthersRenew DEF RolesInv, CopiesRenewed
  <2>5. /\ roles' = defs' \/ "roles" \in lagging' \/ \E d \in Callers : call'[d].step \in Loading
        /\ domains' = defs' \/ "domains" \in lagging' \/ \E d \in Callers : call'[d].step \in LoadingDomains
    BY <2>1, <2>2, OthersRenew DEF RolesInv, CopiesRenewed
  <2> QED BY <2>4, <2>5 DEF CopiesRenewed
<1>4. UsersHold'
  BY <1>1, StillNames DEF RolesInv, UsersHold
<1> QED BY <1>2, <1>3, <1>4 DEF RolesInv

LEMMA IdleStep ==
  ASSUME NEW c \in Callers, call[c] = Idle
  PROVE  call[c].step \notin Renewing
<1>1. call[c].step = "idle"
  BY DEF Idle
<1> QED BY <1>1 DEF Renewing, LoadingDomains, Loading

LEMMA MembersGo ==
  ASSUME CallsHold, RolesInv, NEW c \in Callers, NEW u \in DOMAIN mask,
         SupportAddMember(c, u) \/ SupportRemoveMember(c, u), UNCHANGED <<accountVars, sessionVars>>
  PROVE  RolesInv'
<1> DEFINE m(op) == [op |-> op, step |-> "refresh", user |-> u]
<1>1. PICK op, bits : /\ call[c] = Idle /\ Goes(c, m(op))
                      /\ UNCHANGED <<defs, copies, reverted, lagging>>
                      /\ \/ /\ mask' = [mask EXCEPT ![u] = @ \cup bits]
                            /\ wanted' = [wanted EXCEPT ![u] = @ \cup bits]
                         \/ /\ mask' = [mask EXCEPT ![u] = @ \ bits]
                            /\ wanted' = [wanted EXCEPT ![u] = @ \ bits]
  BY DEF SupportAddMember, SupportRemoveMember, AddRoleMember, RemoveRoleMember, AddMemberRow,
         RemoveMemberRow, Starts
<1>2. Moves(c) /\ call'[c] = m(op)
  BY <1>1, GoesOn
<1>3. Renews(call'[c], u) /\ NamesAll(call'[c], DOMAIN mask)
  BY <1>2 DEF Renews, NamesAll, Names, UserNamed, DeviceNamed
<1>4. /\ mask' = [v \in DOMAIN mask |-> mask'[v]] /\ wanted' = [v \in DOMAIN mask |-> wanted'[v]]
      /\ \A v \in DOMAIN mask : v # u => mask'[v] = mask[v] /\ wanted'[v] = wanted[v]
      /\ mask[u] = wanted[u] => mask'[u] = wanted'[u]
  BY <1>1 DEF RolesInv, MasksHold
<1>5. \A v \in DOMAIN mask : mask'[v] = wanted'[v] \/ v \in reverted'
  BY <1>1, <1>4 DEF RolesInv, MasksHold, ChangesAreKept
<1> QED BY <1>1, <1>2, <1>3, <1>4, <1>5, MaskChanged, IdleStep DEF accountVars, sessionVars

LEMMA PurchaseGoes ==
  ASSUME CallsHold, RolesInv, NEW c \in Callers, SetUserRolesMask(c), UNCHANGED <<accountVars, sessionVars>>
  PROVE  RolesInv'
<1> DEFINE u == call[c].user
           m == [op |-> call[c].op, step |-> "refresh", user |-> u]
           new == call[c].seen \cup {BotBit}
<1>1. /\ call[c].step = "set mask" /\ Goes(c, m) /\ UNCHANGED <<defs, copies, lagging>>
      /\ mask' = [mask EXCEPT ![u] = new] /\ wanted' = [wanted EXCEPT ![u] = @ \cup {BotBit}]
      /\ reverted' = reverted \cup (IF new = mask[u] \cup {BotBit} THEN {} ELSE {u})
  BY DEF SetUserRolesMask, SetRolesRow, At
<1>2. Moves(c) /\ call'[c] = m
  BY <1>1, GoesOn
<1>3. u \in DOMAIN mask
  BY <1>1 DEF RolesInv, UsersHold, NamesAll, Names, UserNamed
<1>4. Renews(call'[c], u) /\ NamesAll(call'[c], DOMAIN mask)
  BY <1>2, <1>3 DEF Renews, NamesAll, Names, UserNamed, DeviceNamed
<1>5. /\ mask' = [v \in DOMAIN mask |-> mask'[v]] /\ wanted' = [v \in DOMAIN mask |-> wanted'[v]]
      /\ \A v \in DOMAIN mask : v # u => mask'[v] = mask[v] /\ wanted'[v] = wanted[v]
      /\ mask'[u] = new /\ wanted'[u] = wanted[u] \cup {BotBit}
  BY <1>1, <1>3 DEF RolesInv, MasksHold
<1> HIDE DEF u, new, m
<1>6. \A v \in DOMAIN mask : mask'[v] = wanted'[v] \/ v \in reverted'
  BY <1>1, <1>5 DEF RolesInv, MasksHold, ChangesAreKept
<1>7. call[c].step \notin Renewing
  BY <1>1 DEF Renewing, LoadingDomains, Loading
<1> QED BY <1>1, <1>2, <1>4, <1>5, <1>6, <1>7, MaskChanged DEF accountVars, sessionVars

\* A definition is written or deleted; the call goes on to load the roles.
LEMMA DefinitionsGo ==
  ASSUME CallsHold, RolesInv, NEW c \in Callers, ServiceUpsertRole(c) \/ ServiceDeleteRole(c),
         UNCHANGED <<accountVars, sessionVars>>
  PROVE  RolesInv'
<1>1. /\ call[c] = Idle /\ UNCHANGED <<copies, reverted, lagging>>
      /\ \E op : Goes(c, [op |-> op, step |-> "load roles"])
      /\ \/ UNCHANGED <<mask, wanted>>
         \/ \E bits : /\ mask' = [u \in DOMAIN mask |-> mask[u] \ bits]
                      /\ wanted' = [u \in DOMAIN mask |-> wanted[u] \ bits]
  <2>1. CASE ServiceUpsertRole(c)
    BY <2>1 DEF ServiceUpsertRole, UpsertRole, Starts, histories
  <2>2. CASE ServiceDeleteRole(c)
    <3>1. PICK name : DeleteRole(c, name)
      BY <2>2 DEF ServiceDeleteRole
    <3>2. \E bits : /\ mask' = [u \in DOMAIN mask |-> mask[u] \ bits]
                   /\ wanted' = [u \in DOMAIN mask |-> wanted[u] \ bits]
      BY <3>1 DEF DeleteRole, DeleteRoleRow
    <3> QED BY <3>1, <3>2 DEF DeleteRole, Starts
  <2> QED BY <2>1, <2>2
<1>2. PICK op : Goes(c, [op |-> op, step |-> "load roles"])
  BY <1>1
<1>3. Moves(c) /\ call'[c].step = "load roles"
  BY <1>2, GoesToStep
<1>4. call'[c].step \in Loading /\ \A u : Renews(call'[c], u)
  BY <1>3 DEF Renews, Loading
<1>5. NamesAll(call'[c], DOMAIN mask)
  BY <1>3, PlainNames DEF UserNamed, DeviceNamed
<1>6. /\ mask' = [v \in DOMAIN mask |-> mask'[v]] /\ wanted' = [v \in DOMAIN mask |-> wanted'[v]]
      /\ \A v \in DOMAIN mask : mask[v] = wanted[v] => mask'[v] = wanted'[v]
  <2>1. CASE UNCHANGED <<mask, wanted>>
    BY <2>1 DEF RolesInv, MasksHold
  <2>2. ASSUME NEW bits, mask' = [u \in DOMAIN mask |-> mask[u] \ bits],
               wanted' = [u \in DOMAIN mask |-> wanted[u] \ bits]
        PROVE  /\ mask' = [v \in DOMAIN mask |-> mask'[v]] /\ wanted' = [v \in DOMAIN mask |-> wanted'[v]]
               /\ \A v \in DOMAIN mask : mask[v] = wanted[v] => mask'[v] = wanted'[v]
    BY <2>2
  <2> QED BY <1>1, <2>1, <2>2
<1>7. \A v \in DOMAIN mask : mask'[v] = wanted'[v] \/ v \in reverted'
  BY <1>1, <1>6 DEF RolesInv, MasksHold, ChangesAreKept
<1> QED BY <1>1, <1>3, <1>4, <1>5, <1>6, <1>7, MaskChanged, IdleStep DEF accountVars, sessionVars


\* c has brought copies up to date, or has noted those it left behind.
LEMMA FillGoes ==
  ASSUME CallsHold, AccountsHold, RolesInv, NEW c \in Callers, FillCache(c),
         UNCHANGED <<accountVars, sessionVars>>
  PROVE  RolesInv'
<1> DEFINE u == call[c].user
           seen == call[c].seen
           held == [names |-> MaskToNames(seen), mask |-> seen]
<1>1. /\ call[c].step = "fill" /\ Goes(c, call[c].then) /\ UNCHANGED <<tables, roles, domains, wanted, reverted>>
      /\ cache' = [v \in DOMAIN cache \cup {u} |-> IF v = u THEN held ELSE cache[v]]
      /\ lagging' = IF seen = mask[u] THEN lagging \ {u} ELSE lagging \cup {u}
  BY DEF FillCache, At
<1>2. Moves(c) /\ call'[c] = call[c].then
  BY <1>1, GoesOn
<1>3. u \in DOMAIN mask /\ Names(call[c].then, DOMAIN mask) /\ call[c].then.step # "fill"
  BY <1>1 DEF RolesInv, UsersHold, NamesAll, Names, UserNamed
<1>4. u \notin {"roles", "domains"}
  BY <1>3, RolesAssumption DEF RolesInv, MasksHold, AccountsHold
<1>5. held.mask = seen /\ held.names = MaskToNames(seen)
  OBVIOUS
<1>6. /\ DOMAIN cache' = DOMAIN cache \cup {u}
      /\ cache'[u] = held /\ \A v \in DOMAIN cache : v # u => cache'[v] = cache[v]
  BY <1>1
<1> HIDE DEF u, seen, held
<1>7. mask' = mask /\ defs' = defs /\ roles' = roles /\ domains' = domains
  BY <1>1 DEF tables
<1>8. MasksHold'
  <2>1. NamesFitMasks'
    BY <1>5, <1>6, <1>7 DEF RolesInv, MasksHold, NamesFitMasks, MaskToNames
  <2>2. ChangesAreKept'
    BY <1>1, <1>7 DEF RolesInv, MasksHold, ChangesAreKept
  <2> QED BY <1>1, <1>3, <1>6, <1>7, <2>1, <2>2 DEF RolesInv, MasksHold, accountVars
<1>9. CopiesRenewed'
  <2>1. \A d \in Callers : call[d].step \in LoadingDomains => call'[d] = call[d]
    BY <1>1, <1>2 DEF Moves, LoadingDomains, Loading
  <2>2. \A v : v # u => \A d \in Callers : Renews(call[d], v) => Renews(call'[d], v)
    BY <1>1, <1>2 DEF Moves, Renews, Loading, u
  <2>3. \A v \in DOMAIN cache' :
           cache'[v].mask = mask'[v] \/ v \in lagging' \/ \E d \in Callers : Renews(call'[d], v)
    BY <1>1, <1>5, <1>6, <1>7, <2>2 DEF RolesInv, CopiesRenewed
  <2>4. /\ "roles" \in lagging => "roles" \in lagging'
        /\ "domains" \in lagging => "domains" \in lagging'
    BY <1>1, <1>4
  <2>5. roles' = defs' \/ "roles" \in lagging' \/ \E d \in Callers : call'[d].step \in Loading
    BY <1>7, <2>1, <2>4 DEF RolesInv, CopiesRenewed, LoadingDomains
  <2>6. domains' = defs' \/ "domains" \in lagging' \/ \E d \in Callers : call'[d].step \in LoadingDomains
    BY <1>7, <2>1, <2>4 DEF RolesInv, CopiesRenewed
  <2> QED BY <2>3, <2>5, <2>6 DEF CopiesRenewed
<1>10. UsersHold'
  BY <1>2, <1>3, <1>7, StillNames DEF NamesAll, RolesInv, UsersHold, sessionVars
<1> QED BY <1>8, <1>9, <1>10 DEF RolesInv

\* Nothing is changed but where c is, and it still renews what it did.
LEMMA RenewalGoesOn ==
  ASSUME CallsHold, RolesInv, NEW c \in Callers, NEW m, Goes(c, m), UNCHANGED rolesVars,
         \A steps \in {Loading, LoadingDomains} : call[c].step \in steps => m.step \in steps,
         \A u : Renews(call[c], u) => Renews(m, u),
         NamesAll(m, DOMAIN mask), UNCHANGED <<accountVars, sessionVars>>
  PROVE  RolesInv'
<1>1. Moves(c) /\ call'[c] = m
  BY GoesOn
<1>2. /\ \A steps \in {Loading, LoadingDomains} :
            (\E d \in Callers : call[d].step \in steps) => \E d \in Callers : call'[d].step \in steps
      /\ \A u : (\E d \in Callers : Renews(call[d], u)) => \E d \in Callers : Renews(call'[d], u)
  BY <1>1 DEF Moves
<1>3. CopiesRenewed'
  BY <1>2 DEF RolesInv, CopiesRenewed, rolesVars
<1>4. UsersHold'
  BY <1>1, StillNames DEF RolesInv, UsersHold, rolesVars, sessionVars
<1> QED BY <1>3, <1>4, SameMasks DEF RolesInv, accountVars

LEMMA RenewalsGo ==
  ASSUME CallsHold, RolesInv, NEW c \in Callers, Refreshes(c) \/ LoadRoles(c) \/ LoadDomains(c),
         UNCHANGED <<accountVars, sessionVars>>
  PROVE  RolesInv'
<1>1. CASE Refreshes(c)
  <2> DEFINE m == [op |-> call[c].op, step |-> "fill", user |-> call[c].user, seen |-> mask[call[c].user],
                   then |-> Idle]
  <2>1. call[c].step = "refresh" /\ Goes(c, m) /\ UNCHANGED rolesVars
    BY <1>1 DEF Refreshes, At, ReadsMask
  <2>2. call[c].user \in DOMAIN mask
    BY <2>1 DEF RolesInv, UsersHold, NamesAll, Names, UserNamed
  <2>3. m.step = "fill" /\ m.user = call[c].user /\ m.then = Idle
    OBVIOUS
  <2> HIDE DEF m
  <2>4. NamesAll(m, DOMAIN mask)
    BY <2>2, <2>3, IdleNames DEF NamesAll, Names, UserNamed, DeviceNamed
  <2>5. \A u : Renews(call[c], u) => Renews(m, u)
    BY <2>1, <2>3 DEF Renews, Loading
  <2>6. call[c].step \notin LoadingDomains \cup Loading
    BY <2>1 DEF LoadingDomains, Loading
  <2> QED BY <2>1, <2>4, <2>5, <2>6, RenewalGoesOn
<1>2. ASSUME NEW step, NEW next, NEW m, call[c].step = step, m.step = next, Goes(c, m), UNCHANGED rolesVars,
             <<step, next>> \in {<<"load roles", "set roles">>, <<"load domains", "set domains">>}
      PROVE  RolesInv'
  <2>1. NamesAll(m, DOMAIN mask)
    BY <1>2, PlainNames DEF UserNamed, DeviceNamed
  <2>2. \A steps \in {Loading, LoadingDomains} : call[c].step \in steps => m.step \in steps
    BY <1>2 DEF Loading, LoadingDomains
  <2>3. \A u : Renews(call[c], u) => Renews(m, u)
    BY <1>2 DEF Renews, Loading
  <2> QED BY <1>2, <2>1, <2>2, <2>3, RenewalGoesOn
<1>3. CASE LoadRoles(c)
  BY <1>2, <1>3 DEF LoadRoles, At
<1>4. CASE LoadDomains(c)
  BY <1>2, <1>4 DEF LoadDomains, At
<1> QED BY <1>1, <1>3, <1>4

LEMMA SetRolesGoes ==
  ASSUME CallsHold, AccountsHold, RolesInv, NEW c \in Callers, SetRoles(c),
         UNCHANGED <<accountVars, sessionVars>>
  PROVE  RolesInv'
<1> DEFINE read == call[c].rows
           m == [op |-> call[c].op, step |-> "load domains"]
<1>1. /\ call[c].step = "set roles" /\ Goes(c, m) /\ UNCHANGED <<tables, domains, wanted, reverted>>
      /\ IF read = <<>> THEN UNCHANGED <<roles, cache>> ELSE roles' = read /\ cache' = <<>>
      /\ lagging' = LagAfterRoles(read)
  BY DEF SetRoles, At
<1>2. Moves(c) /\ call'[c].step = "load domains"
  BY <1>1, GoesToStep
<1>3. mask' = mask /\ defs' = defs
  BY <1>1 DEF tables
<1> HIDE DEF read
<1>e. DOMAIN <<>> = {}
  OBVIOUS
<1>f. (cache' = cache /\ roles' = roles) \/ cache' = <<>>
  BY <1>1
<1>4. MasksHold'
  <2>1. NamesFitMasks'
    BY <1>e, <1>f DEF RolesInv, MasksHold, NamesFitMasks, MaskToNames
  <2>2. ChangesAreKept'
    BY <1>1, <1>3 DEF RolesInv, MasksHold, ChangesAreKept
  <2>3. DOMAIN cache' \subseteq DOMAIN cache
    BY <1>e, <1>f DEF RolesInv, MasksHold
  <2> QED BY <1>1, <1>3, <2>1, <2>2, <2>3 DEF RolesInv, MasksHold, accountVars
<1>5. DOMAIN cache \subseteq Users
  BY DEF RolesInv, MasksHold, AccountsHold
<1>6. CopiesRenewed'
  <2>1. \/ read = <<>> /\ lagging' = lagging \cup {"roles"} \cup Users
        \/ read # <<>> /\ read = defs /\ lagging' = lagging \ {"roles"}
        \/ read # <<>> /\ lagging' = lagging \cup {"roles"}
    BY <1>1 DEF LagAfterRoles
  <2>2. roles' = defs' \/ "roles" \in lagging'
    BY <1>1, <1>3, <2>1
  <2>3. \E d \in Callers : call'[d].step \in LoadingDomains
    BY <1>2 DEF LoadingDomains
  <2>4. \A u \in DOMAIN cache' : u \in lagging'
    <3>1. CASE read = <<>>
      BY <1>1, <1>5, <2>1, <3>1
    <3>2. CASE read # <<>>
      BY <1>1, <1>e, <3>2
    <3> QED BY <3>1, <3>2
  <2> QED BY <2>2, <2>3, <2>4 DEF CopiesRenewed
<1>7. UsersHold'
  BY <1>2, <1>3, PlainNames, StillNames DEF RolesInv, UsersHold, sessionVars, UserNamed, DeviceNamed
<1> QED BY <1>4, <1>6, <1>7 DEF RolesInv

LEMMA SetDomainsGoes ==
  ASSUME CallsHold, AccountsHold, RolesInv, NEW c \in Callers, SetDomains(c),
         UNCHANGED <<accountVars, sessionVars>>
  PROVE  RolesInv'
<1>1. /\ call[c].step = "set domains" /\ Ends(c) /\ UNCHANGED <<tables, roles, cache, wanted, reverted>>
      /\ lagging' = IF domains' = defs THEN lagging \ {"domains"} ELSE lagging \cup {"domains"}
  BY DEF SetDomains, At
<1>2. Moves(c) /\ call'[c] = Idle
  BY <1>1, GoesOn DEF Ends
<1>3. mask' = mask /\ defs' = defs
  BY <1>1 DEF tables
<1>4. MasksHold'
  <2>1. NamesFitMasks'
    BY <1>1 DEF RolesInv, MasksHold, NamesFitMasks, MaskToNames
  <2>2. ChangesAreKept'
    BY <1>1, <1>3 DEF RolesInv, MasksHold, ChangesAreKept
  <2> QED BY <1>1, <1>3, <2>1, <2>2 DEF RolesInv, MasksHold, accountVars
<1>5. "domains" \notin DOMAIN cache
  BY RolesAssumption DEF RolesInv, MasksHold, AccountsHold
<1>6. CopiesRenewed'
  <2>1. \A d \in Callers : call[d].step \in Loading => call'[d] = call[d]
    BY <1>1, <1>2 DEF Moves, Loading
  <2>2. \A u : \A d \in Callers : Renews(call[d], u) => call'[d] = call[d]
    BY <1>1, <1>2 DEF Moves, Renews, Loading
  <2>3. roles' = defs' \/ "roles" \in lagging' \/ \E d \in Callers : call'[d].step \in Loading
    BY <1>1, <1>3, <2>1 DEF RolesInv, CopiesRenewed
  <2>4. domains' = defs' \/ "domains" \in lagging'
    BY <1>1, <1>3
  <2>5. \A u \in DOMAIN cache' :
           cache'[u].mask = mask'[u] \/ u \in lagging' \/ \E d \in Callers : Renews(call'[d], u)
    BY <1>1, <1>3, <1>5, <2>2 DEF RolesInv, CopiesRenewed
  <2> QED BY <2>3, <2>4, <2>5 DEF CopiesRenewed
<1>7. UsersHold'
  BY <1>2, <1>3, IdleNames, StillNames DEF RolesInv, UsersHold, sessionVars
<1> QED BY <1>4, <1>6, <1>7 DEF RolesInv

LEMMA QueryFailsGoes ==
  ASSUME CallsHold, AccountsHold, RolesInv, NEW c \in Callers, QueryFails(c),
         UNCHANGED <<accountVars, sessionVars>>
  PROVE  RolesInv'
<1>1. /\ call[c].step \in {"refresh", "load roles", "load domains", "set mask"}
      /\ lagging' = lagging \cup LeftBehind(c) /\ UNCHANGED <<tables, copies, wanted, reverted>>
      /\ IF call[c].step = "load roles" THEN Goes(c, [op |-> call[c].op, step |-> "load domains"])
         ELSE Ends(c)
  BY DEF QueryFails
<1>2. Moves(c) /\ call'[c].step = IF call[c].step = "load roles" THEN "load domains" ELSE "idle"
  <2>1. CASE call[c].step = "load roles"
    <3>1. Goes(c, [op |-> call[c].op, step |-> "load domains"])
      BY <1>1, <2>1
    <3>2. Moves(c) /\ call'[c].step = "load domains"
      BY <3>1, GoesToStep
    <3> QED BY <2>1, <3>2
  <2>2. CASE call[c].step # "load roles"
    BY <1>1, <2>2, EndsSimply, IdleNames DEF GoesElsewhere
  <2> QED BY <2>1, <2>2
<1>3. mask' = mask /\ defs' = defs /\ roles' = roles /\ domains' = domains /\ cache' = cache
  BY <1>1 DEF tables, copies
<1>4. MasksHold'
  <2>1. NamesFitMasks'
    BY <1>3 DEF RolesInv, MasksHold, NamesFitMasks, MaskToNames
  <2>2. ChangesAreKept'
    BY <1>1, <1>3 DEF RolesInv, MasksHold, ChangesAreKept
  <2> QED BY <1>1, <1>3, <2>1, <2>2 DEF RolesInv, MasksHold, accountVars
<1>5. /\ call[c].step = "refresh" => call[c].user \in lagging'
      /\ call[c].step = "load roles" => "roles" \in lagging' /\ Users \subseteq lagging'
      /\ call[c].step = "load domains" => "domains" \in lagging'
      /\ lagging \subseteq lagging'
  BY <1>1 DEF LeftBehind
<1>6. DOMAIN cache \subseteq Users
  BY DEF RolesInv, MasksHold, AccountsHold
<1>7. CopiesRenewed'
  <2>1. \A d \in Callers : d = c \/ call'[d] = call[d]
    BY <1>2 DEF Moves
  <2>2. roles' = defs' \/ "roles" \in lagging' \/ \E d \in Callers : call'[d].step \in Loading
    BY <1>1, <1>3, <1>5, <2>1 DEF RolesInv, CopiesRenewed, Loading
  <2>3. domains' = defs' \/ "domains" \in lagging' \/ \E d \in Callers : call'[d].step \in LoadingDomains
    BY <1>1, <1>2, <1>3, <1>5, <2>1 DEF RolesInv, CopiesRenewed, LoadingDomains, Loading
  <2>4. \A u \in DOMAIN cache' :
           cache'[u].mask = mask'[u] \/ u \in lagging' \/ \E d \in Callers : Renews(call'[d], u)
    <3> SUFFICES ASSUME NEW u \in DOMAIN cache, cache[u].mask # mask[u], u \notin lagging
                 PROVE  u \in lagging' \/ \E d \in Callers : Renews(call'[d], u)
      BY <1>3, <1>5
    <3>1. PICK d \in Callers : Renews(call[d], u)
      BY DEF RolesInv, CopiesRenewed
    <3>2. CASE d = c
      BY <1>1, <1>5, <1>6, <3>1, <3>2 DEF Renews, Loading
    <3>3. CASE d # c
      BY <2>1, <3>1, <3>3
    <3> QED BY <3>2, <3>3
  <2> QED BY <2>2, <2>3, <2>4 DEF CopiesRenewed
<1>8. UsersHold'
  BY <1>2, <1>3, PlainNames, StillNames DEF RolesInv, UsersHold, sessionVars, UserNamed, DeviceNamed
<1> QED BY <1>4, <1>7, <1>8 DEF RolesInv


LEMMA RolesStepKeeps ==
  ASSUME CallsHold, AccountsHold, RolesInv, NEW c \in Callers, RolesStep(c),
         UNCHANGED <<accountVars, sessionVars>>
  PROVE  RolesInv'
<1>1. ASSUME NEW u \in DOMAIN mask, Request(c, u) PROVE RolesInv'
  <2> DEFINE m == [op |-> "request", step |-> "fill", user |-> u, seen |-> mask[u], then |-> Idle]
  <2>1. call[c] = Idle /\ Goes(c, m) /\ UNCHANGED rolesVars
    BY <1>1 DEF Request, Starts
  <2>2. m.step = "fill" /\ m.user = u /\ m.then = Idle
    OBVIOUS
  <2> HIDE DEF m
  <2>3. NamesAll(m, DOMAIN mask)
    BY <2>2, IdleNames DEF NamesAll, Names, UserNamed, DeviceNamed
  <2>4. Moves(c) /\ call'[c] = m
    BY <2>1, GoesOn
  <2> QED BY <2>1, <2>3, <2>4, IdleStep, AsideKeepsRoles DEF RolesInv, UsersHold, accountVars, sessionVars
<1>2. ASSUME NEW u \in DOMAIN mask, GetUserRolesMask(c, u) PROVE RolesInv'
  <2> DEFINE m == [op |-> "purchase", step |-> "set mask", user |-> u, seen |-> mask[u]]
  <2>1. call[c] = Idle /\ Goes(c, m) /\ UNCHANGED rolesVars
    BY <1>2 DEF GetUserRolesMask, Starts
  <2>2. m.step = "set mask" /\ m.user = u
    OBVIOUS
  <2> HIDE DEF m
  <2>3. NamesAll(m, DOMAIN mask)
    BY <2>2 DEF NamesAll, Names, UserNamed, DeviceNamed
  <2>4. Moves(c) /\ call'[c] = m
    BY <2>1, GoesOn
  <2> QED BY <2>1, <2>3, <2>4, IdleStep, AsideKeepsRoles DEF RolesInv, UsersHold, accountVars, sessionVars
<1> QED
  BY <1>1, <1>2, MembersGo, FillGoes, RenewalsGo, DefinitionsGo, SetRolesGoes, SetDomainsGoes,
     PurchaseGoes, QueryFailsGoes DEF RolesStep

-----------------------------------------------------------------------------
(* The steps of Accounts, Sessions and McpGateway *)

\* What a step of c leaves to the roles when it is none of theirs.
Aside(c) == /\ call[c].step \notin Renewing /\ UNCHANGED rolesVars /\ DOMAIN accounts' = DOMAIN accounts
            /\ NamesAll(call'[c], DOMAIN mask) /\ \A d \in DOMAIN devices' : d[1] \in DOMAIN mask

LEMMA ComesTo ==
  ASSUME CallsHold, NEW c \in Callers, NEW m, Goes(c, m), NamesAll(m, DOMAIN mask),
         call[c].step \notin Renewing, UNCHANGED <<rolesVars, sessionVars>>, DOMAIN accounts' = DOMAIN accounts,
         UsersHold
  PROVE  Aside(c)
  BY GoesOn DEF Aside, UsersHold, sessionVars

\* A step that comes to one which names nobody.
LEMMA ComesToPlain ==
  ASSUME CallsHold, NEW c \in Callers, NEW m, Goes(c, m), m.step \notin UserNamed \cup DeviceNamed,
         call[c].step \notin Renewing, UNCHANGED <<rolesVars, sessionVars>>, DOMAIN accounts' = DOMAIN accounts,
         UsersHold
  PROVE  Aside(c)
  BY PlainNames, ComesTo

LEMMA ComesToEnd ==
  ASSUME CallsHold, NEW c \in Callers, Ends(c),
         call[c].step \notin Renewing, UNCHANGED <<rolesVars, sessionVars>>, DOMAIN accounts' = DOMAIN accounts,
         UsersHold
  PROVE  Aside(c)
  BY IdleNames, ComesTo DEF Ends

LEMMA ComesToNext ==
  ASSUME CallsHold, NEW c \in Callers, NEW next, next \notin UserNamed \cup DeviceNamed,
         Goes(c, [call[c] EXCEPT !.step = next]),
         call[c].step \notin Renewing, UNCHANGED <<rolesVars, sessionVars>>, DOMAIN accounts' = DOMAIN accounts,
         UsersHold
  PROVE  Aside(c)
<1> DEFINE m == [call[c] EXCEPT !.step = next]
<1>1. m.step = next
  BY HasStep
<1>2. Goes(c, m)
  OBVIOUS
<1> HIDE DEF m
<1> QED BY <1>1, <1>2, ComesToPlain

\* Where a call has found the account.
LEMMA ComesToUser ==
  ASSUME CallsHold, NEW c \in Callers, NEW m, Goes(c, m), m.step \in {"resolved", "ask roles"},
         m.user \in DOMAIN mask,
         call[c].step \notin Renewing, UNCHANGED <<rolesVars, sessionVars>>, DOMAIN accounts' = DOMAIN accounts,
         UsersHold
  PROVE  Aside(c)
<1>1. NamesAll(m, DOMAIN mask)
  BY DEF NamesAll, Names, DeviceNamed
<1> QED BY <1>1, ComesTo

LEMMA FoundInMask ==
  ASSUME MasksHold, NEW i, GetByIdentifier(i) # {}
  PROVE  auth[i].guid \in DOMAIN mask /\ GetByIdentifier(i) = {auth[i].guid}
  BY DEF GetByIdentifier, HasIdentifier, Visible, MasksHold

\* The steps of Accounts that make no account and unlink nothing.
AccountAside(c) ==
  \/ \E i \in Identities : \/ AuthGoogleOauthLogin(c, i)
                           \/ AuthDiscordOauthLogin(c, i)
                           \/ RegisterDiscordUser(c, i)
                           \/ UsersProvidersCreate(c, i)
                           \/ LookupUser(c, "callback", i)
  \/ \E u \in DOMAIN accounts :
       \/ \E i \in Identities : LinkUserProvider(c, u, i)
       \/ \E p \in Providers, new \in Providers \cup {NoProvider} : UnlinkUserProvider(c, u, p, new)
       \/ \E p \in Providers : SetUserDefaultProvider(c, u, p)
  \/ RelinkProvider(c)
  \/ GetRelinked(c)
  \/ FindDuplicate(c)
  \/ AdoptIdentifier(c)
  \/ AdoptAccount(c)
  \/ GetAccount(c)
  \/ CreateUserFromProvider(c)
  \/ SetCredits(c)
  \/ LinkProvider(c)
  \/ NewDefault(c)
  \/ AccountCallFails(c)

LEMMA AccountsLeaveRoles ==
  ASSUME CallsHold, AccountsHold, RolesInv, NEW c \in Callers, AccountAside(c), UNCHANGED sessionVars
  PROVE  Aside(c)
<1> USE DEF RolesInv
<1>a. call[c] = Idle => call[c].step \notin Renewing
  BY IdleStep
<1>b. \A step : At(c, step) => call[c].step = step
  BY DEF At
<1>c. \A step \in {"relink", "get relinked", "create", "adopt", "adopt account", "get account", "email",
                   "resolved", "link", "new default", "insert"} : step \notin Renewing
  BY DEF Renewing, LoadingDomains, Loading
<1>d. \A step \in {"relink", "create", "email", "insert", "adopt", "adopt account", "link", "unlink",
                   "get relinked", "get account", "revoke provider"} : step \notin UserNamed \cup DeviceNamed
  BY DEF UserNamed, DeviceNamed
<1>1. ASSUME NEW op, NEW i, LookupUser(c, op, i) PROVE Aside(c)
  <2>1. call[c].step \notin Renewing /\ UNCHANGED <<rolesVars, accountVars>>
    BY <1>1, <1>a DEF LookupUser, Starts
  <2>2. CASE GetByIdentifier(i) = {}
    BY <1>1, <1>d, <2>1, <2>2, ComesToPlain DEF LookupUser, accountVars
  <2>3. CASE GetByIdentifier(i) # {}
    BY <1>1, <2>1, <2>3, FoundInMask, ComesToUser DEF LookupUser, accountVars
  <2> QED BY <2>2, <2>3
<1>2. ASSUME NEW i, RegisterDiscordUser(c, i) \/ UsersProvidersCreate(c, i) PROVE Aside(c)
  BY <1>2, <1>a, <1>d, ComesToPlain DEF RegisterDiscordUser, UsersProvidersCreate, Starts, accountVars
<1>3. ASSUME NEW u, NEW i, LinkUserProvider(c, u, i) PROVE Aside(c)
  BY <1>3, <1>a, <1>d, ComesToPlain DEF LinkUserProvider, Starts, accountVars
<1>4. ASSUME NEW u, NEW p, NEW new, UnlinkUserProvider(c, u, p, new) PROVE Aside(c)
  BY <1>4, <1>a, <1>d, ComesToPlain DEF UnlinkUserProvider, Starts, accountVars
<1>5. ASSUME NEW u, NEW p, SetUserDefaultProvider(c, u, p) PROVE Aside(c)
  <2>1. call[c] = Idle /\ UNCHANGED <<call, rolesVars>> /\ DOMAIN accounts' = DOMAIN accounts
    BY <1>5 DEF SetUserDefaultProvider, SetProviderRow, Starts
  <2> QED BY <1>a, <2>1, IdleNames DEF Aside, UsersHold, sessionVars
<1>6. ASSUME RelinkProvider(c) PROVE Aside(c)
  BY <1>6, <1>b, <1>c, <1>d, ComesToNext DEF RelinkProvider, RelinkProcedure, SetProviderRow
<1>7. ASSUME GetRelinked(c) PROVE Aside(c)
  <2>1. call[c].step \notin Renewing /\ UNCHANGED <<rolesVars, accountVars>>
    BY <1>7, <1>b, <1>c DEF GetRelinked
  <2>2. CASE GetByIdentifier(call[c].id) = {}
    BY <1>7, <1>d, <2>1, <2>2, ComesToNext DEF GetRelinked, accountVars
  <2>3. CASE GetByIdentifier(call[c].id) # {}
    BY <1>7, <2>1, <2>3, FoundInMask, ComesToUser DEF GetRelinked, accountVars
  <2> QED BY <2>2, <2>3
<1>8. ASSUME FindDuplicate(c) PROVE Aside(c)
  <2>1. PICK next \in {"adopt", "insert"} : Goes(c, [call[c] EXCEPT !.step = next])
    BY <1>8 DEF FindDuplicate
  <2> QED BY <1>8, <1>b, <1>c, <1>d, <2>1, ComesToNext DEF FindDuplicate, accountVars
<1>9. ASSUME AdoptIdentifier(c) PROVE Aside(c)
  BY <1>9, <1>b, <1>c, <1>d, ComesToPlain DEF AdoptIdentifier
<1>10. ASSUME AdoptAccount(c) PROVE Aside(c)
  BY <1>10, <1>b, <1>c, <1>d, ComesToPlain DEF AdoptAccount, SetProviderRow
<1>11. ASSUME GetAccount(c) PROVE Aside(c)
  <2>1. call[c].step \notin Renewing /\ UNCHANGED <<rolesVars, accountVars>>
    BY <1>11, <1>b, <1>c DEF GetAccount
  <2>2. CASE GetByIdentifier(call[c].id) = {}
    BY <1>11, <2>1, <2>2, ComesToEnd DEF GetAccount, GetsAccount, accountVars
  <2>3. CASE GetByIdentifier(call[c].id) # {}
    <3>1. (CHOOSE u \in GetByIdentifier(call[c].id) : TRUE) \in DOMAIN mask
      BY <2>3, FoundInMask
    <3> QED BY <1>11, <2>1, <2>3, <3>1, ComesToUser DEF GetAccount, GetsAccount, accountVars
  <2> QED BY <2>2, <2>3
<1>12. ASSUME CreateUserFromProvider(c) PROVE Aside(c)
  BY <1>12, <1>b, <1>c, <1>d, ComesToNext, ComesToEnd DEF CreateUserFromProvider, accountVars
<1>13. ASSUME SetCredits(c) \/ LinkProvider(c) \/ AccountCallFails(c) PROVE Aside(c)
  BY <1>13, <1>b, <1>c, ComesToEnd DEF SetCredits, LinkProvider, AccountCallFails, accountVars
<1>14. ASSUME NewDefault(c) PROVE Aside(c)
  BY <1>14, <1>b, <1>c, <1>d, ComesToNext DEF NewDefault, SetProviderRow
<1> QED
  BY <1>1, <1>2, <1>3, <1>4, <1>5, <1>6, <1>7, <1>8, <1>9, <1>10, <1>11, <1>12, <1>13, <1>14
  DEF AccountAside, AuthGoogleOauthLogin, AuthDiscordOauthLogin, LoginProvider


\* An account is made, with a mask that no copy has yet.
LEMMA InsertGoes ==
  ASSUME CallsHold, AccountsHold, RolesInv, NEW c \in Callers, InsertAccount(c), UNCHANGED sessionVars
  PROVE  RolesInv'
<1>1. call[c].step = "insert" /\ call[c].step \notin Renewing
  BY DEF InsertAccount, At, Renewing, LoadingDomains, Loading
<1>2. CASE call[c].id \in DOMAIN auth
  <2>1. Ends(c) /\ UNCHANGED <<rolesVars, accounts>>
    BY <1>2 DEF InsertAccount, rolesVars, copies
  <2>2. Aside(c)
    BY <1>1, <2>1, ComesToEnd DEF RolesInv
  <2>3. Moves(c)
    BY <2>1, EndsSimply DEF GoesElsewhere
  <2> QED BY <2>2, <2>3, AsideKeepsRoles DEF Aside
<1>3. CASE call[c].id \notin DOMAIN auth
  <2>1. PICK u \in FreeGuids : CreatedRows(c, u, call[c].id)
    BY <1>3 DEF InsertAccount
  <2>2. UNCHANGED <<defs, copies, reverted, lagging>>
    BY DEF InsertAccount
  <2>3. /\ mask' = Put(mask, u, NewMask) /\ wanted' = Put(wanted, u, NewMask)
        /\ DOMAIN accounts' = DOMAIN accounts \cup {u}
    BY <2>1 DEF CreatedRows, Put
  <2>4. u \notin DOMAIN mask /\ u \notin DOMAIN cache
    BY DEF FreeGuids, RolesInv, MasksHold
  <2>5. /\ mask' = [v \in DOMAIN mask' |-> mask'[v]] /\ wanted' = [v \in DOMAIN mask' |-> wanted'[v]]
        /\ DOMAIN mask' = DOMAIN mask \cup {u} /\ mask'[u] = wanted'[u]
        /\ \A v \in DOMAIN mask : mask'[v] = mask[v] /\ wanted'[v] = wanted[v]
    <3>1. DOMAIN wanted = DOMAIN mask
      BY DEF RolesInv, MasksHold
    <3> QED BY <2>3, <2>4, <3>1 DEF Put
  <2> DEFINE m == [op |-> call[c].op, step |-> "resolved", id |-> call[c].id, user |-> u]
  <2>6. Goes(c, m)
    BY <2>1 DEF CreatedRows
  <2>7. m.step = "resolved" /\ m.user = u
    OBVIOUS
  <2> HIDE DEF m
  <2>8. Moves(c) /\ call'[c] = m
    BY <2>6, GoesOn
  <2>9. MasksHold'
    <3>1. NamesFitMasks'
      BY <2>2 DEF RolesInv, MasksHold, NamesFitMasks, MaskToNames, copies
    <3>2. ChangesAreKept'
      BY <2>2, <2>5 DEF RolesInv, MasksHold, ChangesAreKept
    <3> QED BY <2>2, <2>3, <2>5, <3>1, <3>2 DEF RolesInv, MasksHold, copies
  <2>10. CopiesRenewed'
    <3>1. cache' = cache /\ \A v \in DOMAIN cache : mask'[v] = mask[v]
      BY <2>2, <2>5 DEF RolesInv, MasksHold, copies
    <3>2. \A v \in DOMAIN cache' :
             cache'[v].mask = mask'[v] \/ v \in lagging' \/ \E d \in Callers : Renews(call'[d], v)
      BY <1>1, <2>2, <2>8, <3>1, OthersRenew DEF RolesInv, CopiesRenewed
    <3>3. /\ roles' = defs' \/ "roles" \in lagging' \/ \E d \in Callers : call'[d].step \in Loading
          /\ domains' = defs' \/ "domains" \in lagging' \/ \E d \in Callers : call'[d].step \in LoadingDomains
      BY <1>1, <2>2, <2>8, OthersRenew DEF RolesInv, CopiesRenewed, copies
    <3> QED BY <3>2, <3>3 DEF CopiesRenewed
  <2>11. UsersHold'
    <3>1. NamesAll(m, DOMAIN mask')
      BY <2>5, <2>7 DEF NamesAll, Names, DeviceNamed
    <3> QED BY <2>5, <2>8, <3>1, StillNames DEF RolesInv, UsersHold, sessionVars
  <2> QED BY <2>9, <2>10, <2>11 DEF RolesInv
<1> QED BY <1>2, <1>3

\* The last identifier of a user is unlinked: the mask is gone, and the copy is
\* known to lag behind.
LEMMA UnlinkGoes ==
  ASSUME CallsHold, AccountsHold, RolesInv, NEW c \in Callers, UnlinkProvider(c), UNCHANGED sessionVars
  PROVE  RolesInv'
<1> DEFINE u == call[c].user
<1>1. call[c].step = "unlink" /\ call[c].step \notin Renewing
  BY DEF UnlinkProvider, At, Renewing, LoadingDomains, Loading
<1>2. Moves(c) /\ NamesAll(call'[c], DOMAIN mask)
  <2>1. CASE Ends(c)
    BY <2>1, GoesOn, IdleNames DEF Ends
  <2>2. CASE Goes(c, [call[c] EXCEPT !.step = "new default"])
    <3> DEFINE m == [call[c] EXCEPT !.step = "new default"]
    <3>1. m.step = "new default"
      BY HasStep
    <3>2. Goes(c, m)
      BY <2>2
    <3> HIDE DEF m
    <3> QED BY <3>1, <3>2, GoesOn, PlainNames DEF UserNamed, DeviceNamed
  <2> QED BY <2>1, <2>2 DEF UnlinkProvider
<1>3. PICK last \in BOOLEAN :
        /\ mask' = [mask EXCEPT ![u] = IF last THEN {} ELSE @]
        /\ wanted' = [wanted EXCEPT ![u] = IF last THEN {} ELSE @]
        /\ lagging' = IF last THEN lagging \cup {u} ELSE lagging
        /\ DOMAIN accounts' = DOMAIN accounts
  BY DEF UnlinkProvider, UnlinkRows
<1>4. UNCHANGED <<defs, copies, reverted>>
  BY DEF UnlinkProvider
<1> HIDE DEF u
<1>5. /\ mask' = [v \in DOMAIN mask |-> mask'[v]] /\ wanted' = [v \in DOMAIN mask |-> wanted'[v]]
      /\ \A v \in DOMAIN mask : mask[v] = wanted[v] => mask'[v] = wanted'[v]
      /\ \A v \in DOMAIN mask : mask'[v] = mask[v] \/ v \in lagging'
  BY <1>3 DEF RolesInv, MasksHold
<1>6. MasksHold'
  <2>1. NamesFitMasks'
    BY <1>4 DEF RolesInv, MasksHold, NamesFitMasks, MaskToNames, copies
  <2>2. ChangesAreKept'
    BY <1>4, <1>5 DEF RolesInv, MasksHold, ChangesAreKept
  <2> QED BY <1>3, <1>4, <1>5, <2>1, <2>2 DEF RolesInv, MasksHold, copies
<1>7. CopiesRenewed'
  <2>1. lagging \subseteq lagging'
    BY <1>3
  <2>2. \A v \in DOMAIN cache : v \in DOMAIN mask
    BY DEF RolesInv, MasksHold
  <2>3. \A v \in DOMAIN cache' :
           cache'[v].mask = mask'[v] \/ v \in lagging' \/ \E d \in Callers : Renews(call'[d], v)
    BY <1>1, <1>2, <1>4, <1>5, <2>1, <2>2, OthersRenew DEF RolesInv, CopiesRenewed, copies
  <2>4. /\ roles' = defs' \/ "roles" \in lagging' \/ \E d \in Callers : call'[d].step \in Loading
        /\ domains' = defs' \/ "domains" \in lagging' \/ \E d \in Callers : call'[d].step \in LoadingDomains
    BY <1>1, <1>2, <1>4, <2>1, OthersRenew DEF RolesInv, CopiesRenewed, copies
  <2> QED BY <2>3, <2>4 DEF CopiesRenewed
<1>8. UsersHold'
  <2>1. DOMAIN mask' = DOMAIN mask
    BY <1>5
  <2> QED BY <1>2, <2>1, StillNames DEF RolesInv, UsersHold, sessionVars
<1> QED BY <1>6, <1>7, <1>8 DEF RolesInv

-----------------------------------------------------------------------------
LEMMA SessionsLeaveRoles ==
  ASSUME CallsHold, RolesInv, NEW c \in Callers, SessionsStep(c)
  PROVE  Aside(c)
<1> USE DEF RolesInv
<1>a. call[c] = Idle => call[c].step \notin Renewing
  BY IdleStep
<1>b. \A step : At(c, step) => call[c].step = step
  BY DEF At
<1>c. \A step \in {"resolved", "ask roles", "create session", "token", "refresh roles", "revoke provider"} :
         step \notin Renewing
  BY DEF Renewing, LoadingDomains, Loading
<1>d. UNCHANGED accountsAndBelow => UNCHANGED rolesVars /\ DOMAIN accounts' = DOMAIN accounts
  BY DEF accountsAndBelow, accountVars
<1>e. NamesAll(call[c], DOMAIN mask) /\ \A d \in DOMAIN devices : d[1] \in DOMAIN mask
  BY DEF UsersHold
<1>1. ASSUME NEW f, LoginResolved(c, f) \/ IssueToken(c, f) PROVE Aside(c)
  <2> DEFINE m == [op |-> "login", step |-> "ask roles", user |-> call[c].user, print |-> f,
                   provider |-> ProviderOf[call[c].id]]
  <2>1. /\ call[c].step = "resolved" /\ Goes(c, m) /\ UNCHANGED <<rolesVars, sessionVars>>
        /\ DOMAIN accounts' = DOMAIN accounts
    BY <1>1, <1>b, <1>d DEF LoginResolved, IssueToken, UpdateIfUnedited, accountsAndBelow
  <2>2. m.step = "ask roles" /\ m.user = call[c].user
    OBVIOUS
  <2> HIDE DEF m
  <2>3. call[c].user \in DOMAIN mask
    BY <1>e, <2>1 DEF NamesAll, Names, UserNamed
  <2> QED BY <1>c, <2>1, <2>2, <2>3, ComesToUser
<1>2. ASSUME AsksRoles(c) PROVE Aside(c)
  <2> DEFINE m == [op |-> call[c].op, step |-> "create session", device |-> <<call[c].user, call[c].print>>,
                   key |-> keys + 1, provider |-> call[c].provider, compared |-> FALSE]
  <2>1. GetUserRoles(c, call[c].user, m) /\ call[c].step = "ask roles"
    BY <1>2, <1>b DEF AsksRoles
  <2>2. m.step = "create session" /\ m.device[1] = call[c].user
    OBVIOUS
  <2> HIDE DEF m
  <2>3. call[c].user \in DOMAIN mask
    BY <1>e, <2>1 DEF NamesAll, Names, UserNamed
  <2>4. Names(m, DOMAIN mask)
    BY <2>2, <2>3 DEF Names, UserNamed
  <2>5. NamesAll(call'[c], DOMAIN mask)
    BY <2>1, <2>2, <2>3, <2>4, GetsNamed
  <2> QED BY <1>2, <1>c, <1>d, <1>e, <2>1, <2>5 DEF AsksRoles, Aside
<1>3. ASSUME CreateSession(c) PROVE Aside(c)
  <2>1. call[c].step = "create session" /\ DOMAIN devices' = DOMAIN devices \cup {call[c].device}
    BY <1>3, <1>b DEF CreateSession, CreateSessionRow, Put
  <2>2. call[c].device[1] \in DOMAIN mask
    BY <1>e, <2>1 DEF NamesAll, Names, DeviceNamed
  <2> DEFINE m == [op |-> call[c].op, step |-> "token", device |-> call[c].device,
                   token |-> MakeSessionToken(call[c].key)]
  <2>3. Goes(c, m)
    BY <1>3 DEF CreateSession
  <2>4. m.step = "token"
    OBVIOUS
  <2> HIDE DEF m
  <2>5. NamesAll(m, DOMAIN mask)
    BY <2>4, PlainNames DEF UserNamed, DeviceNamed
  <2>6. call'[c] = m
    BY <2>3, GoesOn
  <2> QED BY <1>3, <1>c, <1>d, <1>e, <2>1, <2>2, <2>5, <2>6 DEF CreateSession, Aside
<1>4. ASSUME UpdateDeviceToken(c) \/ RevokeProviderTokens(c) PROVE Aside(c)
  <2>1. Ends(c) /\ DOMAIN devices' = DOMAIN devices /\ UNCHANGED accountsAndBelow
    BY <1>4 DEF UpdateDeviceToken, UpdateDeviceTokenRow, RevokeProviderTokens, RevokeProviderTokensRow
  <2>2. call[c].step \notin Renewing
    BY <1>4, <1>b, <1>c DEF UpdateDeviceToken, RevokeProviderTokens
  <2>3. NamesAll(call'[c], DOMAIN mask)
    BY <2>1, GoesOn, IdleNames DEF Ends
  <2> QED BY <1>d, <1>e, <2>1, <2>2, <2>3 DEF Aside
<1>5. ASSUME NEW d \in DOMAIN devices, NEW k, RefreshToken(c, d, k) PROVE Aside(c)
  <2> DEFINE m == [op |-> "refresh", step |-> "refresh roles", device |-> d, key |-> k,
                   provider |-> accounts[d[1]].provider, compared |-> GetRotkey(d) = k]
  <2>1. call[c] = Idle /\ Goes(c, m) /\ UNCHANGED <<accountsAndBelow, sessionVars>>
    BY <1>5 DEF RefreshToken, Compared, Starts
  <2>2. m.step = "refresh roles" /\ m.device = d
    OBVIOUS
  <2> HIDE DEF m
  <2>3. NamesAll(m, DOMAIN mask)
    BY <1>e, <2>2 DEF NamesAll, Names, UserNamed
  <2> QED BY <1>a, <1>d, <2>1, <2>3, ComesTo
<1>6. ASSUME RefreshRoles(c) PROVE Aside(c)
  <2> DEFINE m == [call[c] EXCEPT !.step = "create session"]
  <2>1. GetUserRoles(c, call[c].device[1], m) /\ call[c].step = "refresh roles"
    BY <1>6, <1>b DEF RefreshRoles
  <2>a. call[c] = [op |-> "refresh", step |-> "refresh roles", device |-> call[c].device,
                   key |-> call[c].key, provider |-> call[c].provider, compared |-> call[c].compared]
    BY <2>1, HasStep DEF CallHolds, Known
  <2>2. m.step = "create session" /\ m.device = call[c].device
    BY <2>a
  <2> HIDE DEF m
  <2>3. call[c].device[1] \in DOMAIN mask
    BY <1>e, <2>1 DEF NamesAll, Names, DeviceNamed
  <2>4. Names(m, DOMAIN mask)
    BY <2>2, <2>3 DEF Names, UserNamed
  <2>5. NamesAll(call'[c], DOMAIN mask)
    BY <2>1, <2>2, <2>3, <2>4, GetsNamed
  <2> QED BY <1>6, <1>c, <1>d, <1>e, <2>1, <2>5 DEF RefreshRoles, Aside, sessionVars
<1>7. ASSUME NEW u, NEW k, InvalidateToken(c, u) \/ LogoutDevice(c, k) PROVE Aside(c)
  <2>1. call[c] = Idle /\ UNCHANGED <<call, accountsAndBelow>> /\ DOMAIN devices' = DOMAIN devices
    BY <1>7 DEF InvalidateToken, SetRotkeyRow, LogoutDevice, RevokeDeviceTokenRow, Starts
  <2> QED BY <1>a, <1>d, <1>e, <2>1 DEF Aside
<1>8. ASSUME SessionCallFails(c) PROVE Aside(c)
  <2>1. call[c].step \notin Renewing
    BY <1>8, <1>c DEF SessionCallFails
  <2> QED BY <1>8, <1>d, <2>1, ComesToEnd DEF SessionCallFails
<1> QED BY <1>1, <1>2, <1>3, <1>4, <1>5, <1>6, <1>7, <1>8 DEF SessionsStep


LEMMA GatewayLeavesRoles ==
  ASSUME CallsHold, RolesInv, NEW c \in Callers, GatewayStep(c), UNCHANGED sessionsAndBelow
  PROVE  Aside(c) \/ \E i \in Identities : LookupUser(c, "callback", i)
<1> USE DEF RolesInv
<1>a. call[c] = Idle => call[c].step \notin Renewing
  BY IdleStep
<1>b. \A step : At(c, step) => call[c].step = step
  BY DEF At
<1>c. \A step \in {"body", "insert agent", "refused", "switch off", "resolved", "get client", "link client",
                   "make code", "grant", "check client", "revoke tokens", "agent user", "make token", "renew"} :
         step \notin Renewing
  BY DEF Renewing, LoadingDomains, Loading
<1>d. UNCHANGED <<rolesVars, sessionVars>> /\ DOMAIN accounts' = DOMAIN accounts
  BY DEF sessionsAndBelow, accountsAndBelow, accountVars
<1>e. \A step \in {"body", "insert agent", "refused", "switch off", "get client", "link client",
                   "make code", "grant", "check client", "revoke tokens", "agent user", "make token", "renew"} :
         step \notin UserNamed \cup DeviceNamed
  BY DEF UserNamed, DeviceNamed
<1>f. UsersHold
  OBVIOUS
<1>1. ASSUME NEW ip, PostOauthRegister(c, ip) \/ PostOauthToken(c, ip) PROVE Aside(c)
  <2>1. call[c].step \notin Renewing
    BY <1>1, <1>a DEF PostOauthRegister, PostOauthToken, Starts
  <2>2. \/ Goes(c, [op |-> "register client", step |-> "body", ip |-> ip])
        \/ Goes(c, [op |-> "register client", step |-> "refused"])
        \/ Goes(c, [op |-> "token", step |-> "grant"])
        \/ Ends(c)
    BY <1>1 DEF PostOauthRegister, CheckRegisterRate, PostOauthToken, Ends
  <2> QED BY <1>d, <1>e, <2>1, <2>2, ComesToPlain, ComesToEnd
<1>2. ASSUME RegisterClient(c) \/ CountRefusal(c) PROVE Aside(c)
  <2>1. call[c].step \notin Renewing
    BY <1>2, <1>b, <1>c DEF RegisterClient, CountRefusal
  <2>2. \/ \E step \in {"insert agent", "refused", "switch off"} :
              Goes(c, [op |-> "register client", step |-> step])
        \/ Ends(c)
    BY <1>2 DEF RegisterClient, CheckRegisterRate, CountRefusal
  <2> QED BY <1>d, <1>e, <2>1, <2>2, ComesToPlain, ComesToEnd
<1>3. ASSUME \/ InsertAgent(c) \/ SwitchOff(c) \/ UnsupportedGrant(c) \/ CreateAuthorizationCode(c)
             \/ CreateAgentToken(c) \/ RenewToken(c) \/ GatewayCallFails(c)
      PROVE  Aside(c)
  <2>1. Ends(c) /\ call[c].step \notin Renewing
    BY <1>3, <1>b, <1>c
    DEF InsertAgent, SwitchOff, UnsupportedGrant, CreateAuthorizationCode, CreateAgentToken, RenewToken,
        GatewayCallFails
  <2> QED BY <1>d, <2>1, ComesToEnd
<1>4. ASSUME NEW on, NEW a, EditSwitch(c, on) \/ RevokeClient(c, a) PROVE Aside(c)
  <2>1. call[c] = Idle /\ UNCHANGED call
    BY <1>4 DEF EditSwitch, RevokeClient, Starts
  <2> QED BY <1>a, <1>d, <1>f, <2>1 DEF Aside, UsersHold, sessionVars
<1>5. ASSUME CheckUserMcpRole(c) PROVE Aside(c)
  <2>1. call[c].step = "resolved" /\ call[c].step \notin Renewing
    BY <1>5, <1>b, <1>c DEF CheckUserMcpRole
  <2>2. call[c].user \in DOMAIN mask
    BY <1>f, <2>1 DEF UsersHold, NamesAll, Names, UserNamed
  <2>3. PICK then : /\ GetUserRoles(c, call[c].user, then)
                    /\ then \in {[op |-> "callback", step |-> "get client", user |-> call[c].user], Idle}
    BY <1>5 DEF CheckUserMcpRole
  <2>4. Names(then, DOMAIN mask) /\ then.step # "fill"
    <3>1. CASE then = Idle
      BY <3>1, IdleNames
    <3>2. CASE then = [op |-> "callback", step |-> "get client", user |-> call[c].user]
      <4>1. then.step = "get client"
        BY <3>2
      <4> QED BY <1>e, <4>1, PlainNames
    <3> QED BY <2>3, <3>1, <3>2
  <2>5. NamesAll(call'[c], DOMAIN mask)
    BY <2>2, <2>3, <2>4, GetsNamed
  <2> QED BY <1>d, <1>f, <2>1, <2>5 DEF Aside, UsersHold, sessionVars
<1>6. ASSUME NEW a, GetClient(c, a) PROVE Aside(c)
  BY <1>6, <1>b, <1>c, <1>d, <1>e, ComesToPlain DEF GetClient
<1>7. ASSUME LinkClientToUser(c) \/ RevokeAgentTokens(c) PROVE Aside(c)
  <2>1. PICK next \in {"make code", "agent user"} : Goes(c, [call[c] EXCEPT !.step = next])
    BY <1>7 DEF LinkClientToUser, RevokeAgentTokens
  <2>2. call[c].step \notin Renewing
    BY <1>7, <1>b, <1>c DEF LinkClientToUser, RevokeAgentTokens
  <2> QED BY <1>d, <1>e, <2>1, <2>2, ComesToNext
<1>8. ASSUME NEW k, ConsumeCode(c, k) PROVE Aside(c)
  <2>1. Goes(c, [op |-> "token", step |-> "check client", code |-> k]) \/ Ends(c)
    BY <1>8 DEF ConsumeCode, Ends
  <2> QED BY <1>8, <1>b, <1>c, <1>d, <1>e, <2>1, ComesToPlain, ComesToEnd DEF ConsumeCode
<1>9. ASSUME NEW k, RefreshAccessToken(c, k) PROVE Aside(c)
  BY <1>9, <1>b, <1>c, <1>d, <1>e, ComesToPlain DEF RefreshAccessToken
<1>10. ASSUME CheckClient(c) PROVE Aside(c)
  <2>1. call[c].step \notin Renewing
    BY <1>10, <1>b, <1>c DEF CheckClient
  <2> QED BY <1>10, <1>d, <1>e, <2>1, ComesToNext, ComesToEnd DEF CheckClient
<1>11. ASSUME ResolveAgentCredits(c) PROVE Aside(c)
  BY <1>11, <1>b, <1>c, <1>d, <1>e, ComesToPlain DEF ResolveAgentCredits
<1> QED
  BY <1>1, <1>2, <1>3, <1>4, <1>5, <1>6, <1>7, <1>8, <1>9, <1>10, <1>11 DEF GatewayStep

LEMMA RestartRenews ==
  ASSUME RolesInv, Restart
  PROVE  RolesInv'
<1>1. \A c \in Callers : call'[c] = Idle
  BY DEF Restart
<1>2. /\ mask' = mask /\ wanted' = wanted /\ reverted' = reverted /\ accounts' = accounts
      /\ devices' = devices /\ roles' = defs /\ domains' = defs /\ defs' = defs /\ DOMAIN cache' = {}
  BY DEF Restart, tables, accountVars, sessionVars
<1>3. MasksHold'
  BY <1>2 DEF RolesInv, MasksHold, NamesFitMasks, ChangesAreKept
<1>4. CopiesRenewed'
  BY <1>2 DEF CopiesRenewed
<1>5. UsersHold'
  BY <1>1, <1>2, IdleNames DEF RolesInv, UsersHold
<1> QED BY <1>3, <1>4, <1>5 DEF RolesInv

LEMMA RolesInitially ==
  ASSUME Init
  PROVE  RolesInv
<1> USE DEF Init, RolesInit, AccountsInit, SessionsInit
<1>1. DOMAIN mask = FirstUsers /\ DOMAIN accounts = FirstUsers /\ DOMAIN cache = {} /\ DOMAIN devices = {}
  BY AccountsAssumption
<1>2. \A c \in Callers : call[c] = Idle
  OBVIOUS
<1>3. MasksHold
  BY <1>1 DEF MasksHold, NamesFitMasks, ChangesAreKept
<1>4. CopiesRenewed
  BY <1>1 DEF CopiesRenewed
<1>5. UsersHold
  BY <1>1, <1>2, IdleNames DEF UsersHold
<1> QED BY <1>3, <1>4, <1>5 DEF RolesInv

LEMMA RolesNextKeeps ==
  ASSUME IdentityInv, RolesInv, [Next]_vars
  PROVE  RolesInv'
<1> USE DEF IdentityInv
<1>a. ASSUME NEW c \in Callers, Moves(c), Aside(c) PROVE RolesInv'
  BY <1>a, AsideKeepsRoles DEF Aside
<1>1. ASSUME NEW c \in Callers, RolesStep(c), UNCHANGED <<accountVars, sessionVars>>
      PROVE  RolesInv'
  BY <1>1, RolesStepKeeps
<1>2. ASSUME NEW c \in Callers, NEW i \in Identities, LookupUser(c, "callback", i), UNCHANGED sessionVars
      PROVE  RolesInv'
  <2>1. Moves(c)
    BY <1>2, AccountsGo DEF GoesElsewhere
  <2> QED BY <1>2, <1>a, <2>1, AccountsLeaveRoles DEF AccountAside
<1>3. ASSUME NEW c \in Callers, AccountsStep(c), UNCHANGED sessionVars
      PROVE  RolesInv'
  <2>1. Moves(c)
    BY <1>3, AccountsGo DEF GoesElsewhere
  <2>2. AccountAside(c) \/ InsertAccount(c) \/ UnlinkProvider(c)
    BY <1>3 DEF AccountsStep, AccountAside
  <2> QED BY <1>3, <1>a, <2>1, <2>2, AccountsLeaveRoles, InsertGoes, UnlinkGoes
<1>4. ASSUME NEW c \in Callers, SessionsStep(c)
      PROVE  RolesInv'
  BY <1>4, <1>a, SessionsGo, SessionsLeaveRoles DEF Keeps
<1>5. ASSUME NEW c \in Callers, GatewayStep(c)
      PROVE  RolesInv'
  <2>1. CASE \E i \in Identities : LookupUser(c, "callback", i) /\ UNCHANGED <<sessionVars, gatewayVars>>
    BY <1>2, <2>1
  <2>2. CASE ~\E i \in Identities : LookupUser(c, "callback", i) /\ UNCHANGED <<sessionVars, gatewayVars>>
    <3>1. Moves(c) /\ UNCHANGED sessionsAndBelow
      BY <1>5, <2>2, GatewayGo DEF GatewayKeeps
    <3>2. UNCHANGED sessionVars
      BY <3>1 DEF sessionsAndBelow
    <3> QED BY <1>2, <1>5, <1>a, <3>1, <3>2, GatewayLeavesRoles
  <2> QED BY <2>1, <2>2
<1>6. ASSUME Tick \/ UNCHANGED vars
      PROVE  RolesInv'
  <2>1. UNCHANGED <<call, rolesVars, accounts, devices>>
    BY <1>6 DEF Tick, vars, sessionsAndBelow, accountsAndBelow, accountVars, sessionVars
  <2>2. MasksHold'
    BY <2>1, SameMasks DEF RolesInv
  <2> QED BY <2>1, <2>2 DEF RolesInv, CopiesRenewed, UsersHold, rolesVars
<1> QED
  BY <1>1, <1>3, <1>4, <1>5, <1>6, RestartRenews DEF Next, SessionsNext, AccountsNext, RolesNext

\* The roles requests are authorised with are those of the tables: the names that go
\* with a cached mask are of the definitions in force, every copy is what its table
\* holds unless a call is bringing it up to date or it is known to lag behind, and no
\* change of a mask is lost but to a purchase that had read the mask before; for any
\* number of users, requests and administrators at once, failures and restarts.
\* (role_module.py: load_roles, get_user_roles, refresh_user_roles;
\* role_admin_module.py: add_role_member, remove_role_member)
THEOREM RolesStaySound == Spec => []RolesAreSound
<1>1. Init => RolesInv
  BY RolesInitially
<1>2. IdentityInv /\ RolesInv /\ [Next]_vars => RolesInv'
  BY RolesNextKeeps
<1>3. RolesInv => RolesAreSound
  <2> SUFFICES ASSUME RolesInv PROVE RolesAreSound
    OBVIOUS
  <2>1. ASSUME AtRest
        PROVE  \A c \in Callers : call[c].step \notin LoadingDomains /\ \A u : ~Renews(call[c], u)
    <3> SUFFICES ASSUME NEW c \in Callers
                 PROVE  call[c].step \notin LoadingDomains /\ \A u : ~Renews(call[c], u)
      OBVIOUS
    <3>1. call[c].step \notin Renewing
      BY <2>1, IdleStep DEF AtRest
    <3> QED BY <3>1 DEF Renews, Renewing, LoadingDomains
  <2>2. CopiesFollowTables
    BY <2>1 DEF CopiesFollowTables, RolesInv, CopiesRenewed, LoadingDomains
  <2> QED BY <2>2 DEF RolesAreSound, RolesInv, MasksHold
<1> QED BY <1>1, <1>2, <1>3, IdentityInvariant, PTL DEF Spec

-----------------------------------------------------------------------------
(* The deques of a limiter and what it has let through *)

\* Let through since the window's beginning, and in a stretch as long as the window
\* that begins at t; in all and from one address.
Recent(adm, time) == {n \in DOMAIN adm : adm[n].time >= time - Window}
RecentOf(adm, ip, time) == {n \in Recent(adm, time) : adm[n].ip = ip}
Within(adm, t) == {n \in DOMAIN adm : adm[n].time \in t..(t + Window)}
WithinOf(adm, ip, t) == {n \in Within(adm, t) : adm[n].ip = ip}

\* q has an entry of its own, with its time, for each number in T.
TrackedBy(g, q, adm, T) == \A n \in T : \E i \in 1..Len(q) : g[i] = n /\ q[i] = adm[n].time
Tracks(q, adm, T) == \E g : TrackedBy(g, q, adm, T)

LimiterHolds(w, adm, time, limit) ==
  /\ w = [all |-> w.all, each |-> w.each] /\ w.each = [ip \in DOMAIN w.each |-> w.each[ip]]
  /\ w.all \in Seq(Nat) /\ \A ip \in DOMAIN w.each : w.each[ip] \in Seq(Nat)
  /\ \E S : adm \in Seq(S)
  /\ \A n \in DOMAIN adm : adm[n].time \in 0..time
  /\ Tracks(w.all, adm, Recent(adm, time))
  /\ \A ip : Tracks(Entries(w, ip), adm, RecentOf(adm, ip, time))
  /\ \A t \in 0..time :
       /\ Cardinality(Within(adm, t)) <= limit.all
       /\ \A ip : Cardinality(WithinOf(adm, ip, t)) <= limit.each

WindowsInv ==
  /\ now \in Nat
  /\ windows = [l \in Limiters |-> windows[l]] /\ admitted = [l \in Limiters |-> admitted[l]]
  /\ \A l \in Limiters : LimiterHolds(windows[l], admitted[l], now, Limits[l])

\* A set of naturals that is not empty has a least element: the popping of the deque
\* stops at the first entry the window still has (SlidingWindowRateLimiter.check).
LEMMA LeastNatural ==
  ASSUME NEW T, T \subseteq Nat, T # {}
  PROVE  Min(T) \in T /\ \A y \in T : Min(T) <= y
<1> DEFINE R == OpToRel(<, Nat)
<1>1. IsWellFoundedOn(R, Nat)
  BY Zenon, NatLessThanWellFounded
<1>2. \A y, x \in Nat : y < x => <<y, x>> \in R
  <2> TAKE y, x \in Nat
  <2> HAVE y < x
  <2>1. <<y, x>> \in Nat \X Nat /\ <<y, x>>[1] < <<y, x>>[2]
    OBVIOUS
  <2> QED BY <2>1, Zenon DEF OpToRel
<1> HIDE DEF R
<1>3. PICK x \in T : \A y \in T : ~(<<y, x>> \in R)
  BY <1>1, WFMin
<1>4. \A y \in T : x =< y
  <2> TAKE y \in T
  <2>1. x \in Nat /\ y \in Nat
    OBVIOUS
  <2>2. ~(y < x)
    BY <1>2, <1>3, <2>1
  <2> QED BY <2>1, <2>2
<1> QED BY <1>4 DEF Min

\* What is dropped from a deque are times before the window's beginning, so that what
\* the deque tracked and is in the window it tracks still.
LEMMA DropTracks ==
  ASSUME now \in Nat, NEW q \in Seq(Nat), NEW adm, NEW T, Tracks(q, adm, T),
         \A n \in T : adm[n].time \in Nat /\ adm[n].time >= now - Window
  PROVE  DropOld(q) \in Seq(Nat) /\ Tracks(DropOld(q), adm, T)
<1> DEFINE kept == {i \in DOMAIN q : q[i] >= now - Window}
<1>a. Len(q) \in Nat /\ DOMAIN q = 1..Len(q) /\ \A i \in 1..Len(q) : q[i] \in Nat
  BY LenProperties
<1>b. kept \subseteq Nat
  BY <1>a
<1>c. PICK g : \A n \in T : \E i \in 1..Len(q) : g[i] = n /\ q[i] = adm[n].time
  BY DEF Tracks, TrackedBy
<1>d. \A n \in T : \E i \in kept : g[i] = n /\ q[i] = adm[n].time
  BY <1>a, <1>c
<1>1. CASE kept = {}
  <2>1. DropOld(q) = <<>>
    BY <1>1 DEF DropOld, DropBefore
  <2>2. T = {}
    BY <1>1, <1>d
  <2> QED BY <2>1, <2>2 DEF Tracks, TrackedBy
<1>2. CASE kept # {}
  <2> DEFINE k == Min(kept)
  <2>1. k \in kept /\ \A i \in kept : k <= i
    BY <1>2, <1>b, LeastNatural
  <2>2. DropOld(q) = SubSeq(q, k, Len(q))
    BY <1>2 DEF DropOld, DropBefore
  <2>3. k \in 1..Len(q)
    BY <1>a, <2>1
  <2> HIDE DEF k
  <2> DEFINE s == SubSeq(q, k, Len(q))
  <2>4. /\ s \in Seq(Nat) /\ Len(s) = Len(q) - k + 1
        /\ \A i \in 1..(Len(q) - k + 1) : s[i] = q[k + i - 1]
    BY <1>a, <2>3, SubSeqProperties
  <2> HIDE DEF s
  <2> DEFINE h == [i \in 1..Len(s) |-> g[k + i - 1]]
  <2>5. ASSUME NEW n \in T PROVE \E i \in 1..Len(s) : h[i] = n /\ s[i] = adm[n].time
    <3>1. PICK i \in kept : g[i] = n /\ q[i] = adm[n].time
      BY <1>d
    <3>2. i \in 1..Len(q) /\ k <= i
      BY <1>a, <2>1, <3>1
    <3> DEFINE j == i - k + 1
    <3>3. j \in 1..Len(s) /\ k + j - 1 = i
      BY <1>a, <2>3, <2>4, <3>2
    <3>4. h[j] = g[i] /\ s[j] = q[i]
      BY <2>4, <3>3
    <3> QED BY <3>1, <3>3, <3>4
  <2> HIDE DEF h
  <2>6. TrackedBy(h, s, adm, T)
    BY <2>5 DEF TrackedBy
  <2>7. Tracks(s, adm, T)
    BY <2>6 DEF Tracks
  <2> QED BY <2>2, <2>4, <2>7 DEF s
<1> QED BY <1>1, <1>2

\* An entry is appended for what is let through.
LEMMA AppendTracks ==
  ASSUME NEW q \in Seq(Nat), NEW adm, NEW T, Tracks(q, adm, T), NEW S, adm \in Seq(S),
         NEW e, e.time \in Nat, T \subseteq DOMAIN adm
  PROVE  Tracks(Append(q, e.time), Append(adm, e), T \cup {Len(adm) + 1})
<1> DEFINE s == Append(q, e.time)
           a == Append(adm, e)
<1>1. /\ Len(q) \in Nat /\ Len(s) = Len(q) + 1 /\ DOMAIN q = 1..Len(q)
      /\ \A i \in 1..Len(q) : s[i] = q[i]
      /\ s[Len(q) + 1] = e.time
  BY AppendProperties, LenProperties
<1>2. /\ Len(adm) \in Nat /\ \A n \in DOMAIN adm : a[n] = adm[n]
      /\ a[Len(adm) + 1] = e
  <2>1. adm \in Seq(S \cup {e}) /\ e \in S \cup {e}
    BY LenProperties
  <2> QED BY <2>1, AppendProperties, LenProperties
<1> HIDE DEF s, a
<1>3. PICK g : \A n \in T : \E i \in 1..Len(q) : g[i] = n /\ q[i] = adm[n].time
  BY DEF Tracks, TrackedBy
<1> DEFINE h == [i \in 1..Len(s) |-> IF i = Len(s) THEN Len(adm) + 1 ELSE g[i]]
<1>4. ASSUME NEW n \in T PROVE \E i \in 1..Len(s) : h[i] = n /\ s[i] = a[n].time
  <2>1. PICK i \in 1..Len(q) : g[i] = n /\ q[i] = adm[n].time
    BY <1>3
  <2>2. i \in 1..Len(s) /\ i # Len(s)
    BY <1>1
  <2>3. h[i] = g[i] /\ s[i] = q[i] /\ a[n] = adm[n]
    BY <1>1, <1>2, <2>2
  <2> QED BY <2>1, <2>2, <2>3
<1>5. Len(s) \in 1..Len(s) /\ h[Len(s)] = Len(adm) + 1 /\ s[Len(s)] = a[Len(adm) + 1].time
  <2>1. Len(s) \in 1..Len(s)
    BY <1>1
  <2>2. h[Len(s)] = Len(adm) + 1
    BY <2>1
  <2>3. s[Len(s)] = e.time
    BY <1>1
  <2> QED BY <1>2, <2>1, <2>2, <2>3
<1> HIDE DEF h
<1> DEFINE U == T \cup {Len(adm) + 1}
<1>6. \A n \in U : \E i \in 1..Len(s) : h[i] = n /\ s[i] = a[n].time
  BY <1>4, <1>5
<1> HIDE DEF U
<1>7. TrackedBy(h, s, a, U)
  BY <1>6 DEF TrackedBy
<1>8. Tracks(s, a, U)
  BY <1>7 DEF Tracks
<1> QED BY <1>8 DEF s, a, U

LEMMA StillTracks ==
  ASSUME NEW q, NEW adm, NEW T, Tracks(q, adm, T), NEW b, NEW U, U \subseteq T,
         \A n \in U : b[n] = adm[n]
  PROVE  Tracks(q, b, U)
<1>1. PICK g : \A n \in T : \E i \in 1..Len(q) : g[i] = n /\ q[i] = adm[n].time
  BY DEF Tracks, TrackedBy
<1>2. TrackedBy(g, q, b, U)
  BY <1>1 DEF TrackedBy
<1> QED BY <1>2 DEF Tracks

\* There are no more of them than there are entries.
LEMMA TrackedCount ==
  ASSUME NEW q \in Seq(Nat), NEW adm, NEW T, Tracks(q, adm, T)
  PROVE  IsFiniteSet(T) /\ Cardinality(T) \in Nat /\ Cardinality(T) <= Len(q)
<1>1. PICK g : \A n \in T : \E i \in 1..Len(q) : g[i] = n /\ q[i] = adm[n].time
  BY DEF Tracks, TrackedBy
<1> DEFINE D == {i \in 1..Len(q) : g[i] \in T}
           h == [i \in D |-> g[i]]
<1>2. Len(q) \in Nat
  BY LenProperties
<1>3. IsFiniteSet(1..Len(q)) /\ Cardinality(1..Len(q)) = Len(q)
  <2>1. IsFiniteSet(1..Len(q)) /\ Cardinality(1..Len(q)) = IF 1 > Len(q) THEN 0 ELSE Len(q) - 1 + 1
    BY <1>2, FS_Interval
  <2> QED BY <1>2, <2>1
<1>4. IsFiniteSet(D) /\ Cardinality(D) <= Len(q)
  BY <1>3, FS_Subset
<1>5. h \in Surjection(D, T)
  BY <1>1 DEF Surjection
<1>6. IsFiniteSet(T) /\ Cardinality(T) <= Cardinality(D)
  BY <1>4, <1>5, FS_Surjection
<1> QED BY <1>2, <1>4, <1>6, FS_CardinalityType

LEMMA FewerWithin ==
  ASSUME NEW T, IsFiniteSet(T), NEW n \in Nat, Cardinality(T) <= n, NEW U, U \subseteq T
  PROVE  Cardinality(U) <= n
BY FS_Subset, FS_CardinalityType

-----------------------------------------------------------------------------
(* The steps *)

LEMMA SequencesTyped ==
  ASSUME NEW w, NEW adm, NEW time \in Nat, NEW limit, LimiterHolds(w, adm, time, limit)
  PROVE  /\ \A ip : Entries(w, ip) \in Seq(Nat)
         /\ DOMAIN adm = 1..Len(adm) /\ Len(adm) \in Nat /\ \A n \in DOMAIN adm : adm[n].time \in Nat
  BY LenProperties DEF LimiterHolds, Entries

LEMMA StillTracked ==
  ASSUME now \in Nat, NEW w, NEW adm, NEW limit, LimiterHolds(w, adm, now, limit)
  PROVE  /\ DropOld(w.all) \in Seq(Nat) /\ Tracks(DropOld(w.all), adm, Recent(adm, now))
         /\ \A ip : DropOld(Entries(w, ip)) \in Seq(Nat)
                    /\ Tracks(DropOld(Entries(w, ip)), adm, RecentOf(adm, ip, now))
<1>1. /\ \A n \in Recent(adm, now) : adm[n].time \in Nat /\ adm[n].time >= now - Window
      /\ \A ip : \A n \in RecentOf(adm, ip, now) : adm[n].time \in Nat /\ adm[n].time >= now - Window
  BY SequencesTyped DEF Recent, RecentOf
<1>2. DropOld(w.all) \in Seq(Nat) /\ Tracks(DropOld(w.all), adm, Recent(adm, now))
  BY <1>1, DropTracks DEF LimiterHolds
<1>3. ASSUME NEW ip
      PROVE  DropOld(Entries(w, ip)) \in Seq(Nat)
             /\ Tracks(DropOld(Entries(w, ip)), adm, RecentOf(adm, ip, now))
  BY <1>1, SequencesTyped, DropTracks DEF LimiterHolds
<1> QED BY <1>2, <1>3

\* A request is refused: deques are only shortened.
LEMMA RefusalHolds ==
  ASSUME now \in Nat, NEW w, NEW adm, NEW limit, LimiterHolds(w, adm, now, limit), NEW ip, NEW v,
         v = [all |-> DropOld(w.all), each |-> v.each],
         v.each \in {w.each, Put(w.each, ip, DropOld(Entries(w, ip)))}
  PROVE  LimiterHolds(v, adm, now, limit)
<1>1. v.all = DropOld(w.all)
  OBVIOUS
<1>2. ASSUME NEW x
      PROVE  Entries(v, x) \in {Entries(w, x), DropOld(Entries(w, x))}
  <2>1. CASE v.each = w.each
    BY <2>1 DEF Entries
  <2>2. CASE v.each = Put(w.each, ip, DropOld(Entries(w, ip)))
    <3>1. /\ DOMAIN v.each = DOMAIN w.each \cup {ip}
          /\ \A y \in DOMAIN v.each :
               v.each[y] = IF y = ip THEN DropOld(Entries(w, ip)) ELSE w.each[y]
      BY <2>2 DEF Put
    <3> QED BY <3>1 DEF Entries
  <2> QED BY <2>1, <2>2
<1>3. ASSUME NEW x
      PROVE  Entries(v, x) \in Seq(Nat) /\ Tracks(Entries(v, x), adm, RecentOf(adm, x, now))
  <2>1. CASE Entries(v, x) = Entries(w, x)
    BY <2>1, SequencesTyped DEF LimiterHolds
  <2>2. CASE Entries(v, x) = DropOld(Entries(w, x))
    BY <2>2, StillTracked
  <2> QED BY <1>2, <2>1, <2>2
<1>4. v.each = [x \in DOMAIN v.each |-> v.each[x]] /\ \A x \in DOMAIN v.each : v.each[x] \in Seq(Nat)
  <2>1. w.each = [x \in DOMAIN w.each |-> w.each[x]]
    BY DEF LimiterHolds
  <2>2. CASE v.each = w.each
    BY <1>3, <2>1, <2>2 DEF Entries
  <2>3. CASE v.each = Put(w.each, ip, DropOld(Entries(w, ip)))
    <3>1. v.each = [x \in DOMAIN v.each |-> v.each[x]]
      BY <2>3 DEF Put
    <3>2. \A x \in DOMAIN v.each : v.each[x] \in Seq(Nat)
      BY <1>3 DEF Entries
    <3> QED BY <3>1, <3>2
  <2> QED BY <2>2, <2>3
<1>5. v.all \in Seq(Nat) /\ Tracks(v.all, adm, Recent(adm, now))
  BY <1>1, StillTracked
<1>6. v = [all |-> v.all, each |-> v.each]
  OBVIOUS
<1> QED BY <1>3, <1>4, <1>5, <1>6 DEF LimiterHolds

\* A request is let through when less than the limit have been since the window's
\* beginning.
LEMMA AdmissionHolds ==
  ASSUME now \in Nat, NEW w, NEW adm, NEW limit \in [each : Nat, all : Nat],
         LimiterHolds(w, adm, now, limit), NEW ip,
         Len(DropOld(w.all)) < limit.all, Len(DropOld(Entries(w, ip))) < limit.each
  PROVE  LimiterHolds([all  |-> Append(DropOld(w.all), now),
                       each |-> Put(w.each, ip, Append(DropOld(Entries(w, ip)), now))],
                      Append(adm, [time |-> now, ip |-> ip]), now, limit)
<1> DEFINE all == DropOld(w.all)
           own == DropOld(Entries(w, ip))
           e == [time |-> now, ip |-> ip]
           v == [all |-> Append(all, now), each |-> Put(w.each, ip, Append(own, now))]
           a == Append(adm, e)
           m == Len(adm) + 1
<1>1. /\ all \in Seq(Nat) /\ Tracks(all, adm, Recent(adm, now))
      /\ own \in Seq(Nat) /\ Tracks(own, adm, RecentOf(adm, ip, now))
  BY StillTracked
<1>2. DOMAIN adm = 1..Len(adm) /\ Len(adm) \in Nat /\ \A n \in DOMAIN adm : adm[n].time \in Nat
  BY SequencesTyped
<1>3. PICK S : adm \in Seq(S)
  BY DEF LimiterHolds
<1>4. e.time = now /\ e.ip = ip
  OBVIOUS
<1>5. /\ a \in Seq(S \cup {e}) /\ DOMAIN a = DOMAIN adm \cup {m} /\ m \notin DOMAIN adm
      /\ \A n \in DOMAIN adm : a[n] = adm[n]
      /\ a[m] = e
  <2>1. adm \in Seq(S \cup {e}) /\ e \in S \cup {e}
    BY <1>3, LenProperties
  <2> QED BY <2>1, Appended
<1>6. Append(all, now) \in Seq(Nat) /\ Len(Append(all, now)) <= limit.all
  <2>1. limit.all \in Nat /\ Len(all) \in Nat /\ Len(all) < limit.all
    BY <1>1, LenProperties
  <2> QED BY <1>1, <2>1, AppendProperties
<1>7. Append(own, now) \in Seq(Nat) /\ Len(Append(own, now)) <= limit.each
  <2>1. limit.each \in Nat /\ Len(own) \in Nat /\ Len(own) < limit.each
    BY <1>1, LenProperties
  <2> QED BY <1>1, <2>1, AppendProperties
<1>8. /\ Recent(a, now) = Recent(adm, now) \cup {m}
      /\ RecentOf(a, ip, now) = RecentOf(adm, ip, now) \cup {m}
      /\ \A x : x # ip => RecentOf(a, x, now) = RecentOf(adm, x, now)
  BY <1>2, <1>4, <1>5, McpGatewayAssumption DEF Recent, RecentOf
<1>11. v.all = Append(all, now) /\ v.each = Put(w.each, ip, Append(own, now))
  OBVIOUS
<1>a. Recent(adm, now) \subseteq DOMAIN adm /\ RecentOf(adm, ip, now) \subseteq DOMAIN adm
  BY DEF Recent, RecentOf
<1> HIDE DEF v, all, own, e
<1>9. Tracks(Append(all, now), a, Recent(a, now))
  <2>1. Tracks(Append(all, e.time), Append(adm, e), Recent(adm, now) \cup {Len(adm) + 1})
    BY <1>1, <1>3, <1>4, <1>a, AppendTracks
  <2> QED BY <1>4, <1>8, <2>1
<1>10. Tracks(Append(own, now), a, RecentOf(a, ip, now))
  <2>1. Tracks(Append(own, e.time), Append(adm, e), RecentOf(adm, ip, now) \cup {Len(adm) + 1})
    BY <1>1, <1>3, <1>4, <1>a, AppendTracks
  <2> QED BY <1>4, <1>8, <2>1
<1> HIDE DEF a, m
<1>12. /\ Entries(v, ip) = Append(own, now)
       /\ \A x : x # ip => Entries(v, x) = Entries(w, x)
  BY <1>11 DEF Entries, Put
<1>13. ASSUME NEW x
       PROVE  Entries(v, x) \in Seq(Nat) /\ Tracks(Entries(v, x), a, RecentOf(a, x, now))
  <2>1. CASE x = ip
    BY <1>7, <1>10, <1>12, <2>1
  <2>2. CASE x # ip
    <3>1. Tracks(Entries(w, x), adm, RecentOf(adm, x, now)) /\ Entries(w, x) \in Seq(Nat)
      BY SequencesTyped DEF LimiterHolds
    <3>2. RecentOf(adm, x, now) \subseteq DOMAIN adm
      BY DEF RecentOf, Recent
    <3>3. Tracks(Entries(w, x), a, RecentOf(adm, x, now))
      BY <1>5, <3>1, <3>2, StillTracks
    <3> QED BY <1>8, <1>12, <2>2, <3>1, <3>3
  <2> QED BY <2>1, <2>2
<1>14. ASSUME NEW t \in 0..now
       PROVE  /\ Cardinality(Within(a, t)) <= limit.all
              /\ \A x : Cardinality(WithinOf(a, x, t)) <= limit.each
  <2>1. CASE m \in Within(a, t)
    <3>1. now <= t + Window
      BY <1>4, <1>5, <2>1, McpGatewayAssumption DEF Within
    <3>2. Within(a, t) \subseteq Recent(a, now)
      BY <1>2, <1>4, <1>5, <3>1, McpGatewayAssumption DEF Within, Recent
    <3>3. WithinOf(a, ip, t) \subseteq RecentOf(a, ip, now)
      BY <3>2 DEF WithinOf, RecentOf
    <3>4. Cardinality(Within(a, t)) <= limit.all
      <4>1. IsFiniteSet(Recent(a, now)) /\ Cardinality(Recent(a, now)) <= limit.all
        <5>1. Len(Append(all, now)) \in Nat /\ limit.all \in Nat
          BY <1>6, LenProperties
        <5>2. IsFiniteSet(Recent(a, now)) /\ Cardinality(Recent(a, now)) \in Nat
              /\ Cardinality(Recent(a, now)) <= Len(Append(all, now))
          BY <1>6, <1>9, TrackedCount
        <5> QED BY <1>6, <5>1, <5>2
      <4> QED BY <3>2, <4>1, FewerWithin
    <3>5. Cardinality(WithinOf(a, ip, t)) <= limit.each
      <4>1. IsFiniteSet(RecentOf(a, ip, now)) /\ Cardinality(RecentOf(a, ip, now)) <= limit.each
        <5>1. Len(Append(own, now)) \in Nat /\ limit.each \in Nat
          BY <1>7, LenProperties
        <5>2. IsFiniteSet(RecentOf(a, ip, now)) /\ Cardinality(RecentOf(a, ip, now)) \in Nat
              /\ Cardinality(RecentOf(a, ip, now)) <= Len(Append(own, now))
          BY <1>7, <1>10, TrackedCount
        <5> QED BY <1>7, <5>1, <5>2
      <4> QED BY <3>3, <4>1, FewerWithin
    <3>6. ASSUME NEW x, x # ip PROVE Cardinality(WithinOf(a, x, t)) <= limit.each
      <4>1. WithinOf(a, x, t) = WithinOf(adm, x, t)
        BY <1>4, <1>5, <3>6 DEF WithinOf, Within
      <4> QED BY <4>1 DEF LimiterHolds
    <3> QED BY <3>4, <3>5, <3>6
  <2>2. CASE m \notin Within(a, t)
    <3>1. Within(a, t) = Within(adm, t)
      BY <1>5, <2>2 DEF Within
    <3>2. \A x : WithinOf(a, x, t) = WithinOf(adm, x, t)
      BY <1>5, <3>1 DEF WithinOf, Within
    <3> QED BY <3>1, <3>2 DEF LimiterHolds
  <2> QED BY <2>1, <2>2
<1>15. v = [all |-> v.all, each |-> v.each] /\ v.each = [x \in DOMAIN v.each |-> v.each[x]]
  BY <1>11 DEF v, Put
<1>16. \A x \in DOMAIN v.each : v.each[x] \in Seq(Nat)
  BY <1>13 DEF Entries
<1>17. \A n \in DOMAIN a : a[n].time \in 0..now
  BY <1>4, <1>5 DEF LimiterHolds
<1>18. LimiterHolds(v, a, now, limit)
  BY <1>5, <1>6, <1>9, <1>11, <1>13, <1>14, <1>15, <1>16, <1>17 DEF LimiterHolds
<1> QED BY <1>18 DEF v, a, all, own, e

\* The clock goes on: nothing has been let through in a stretch that begins now.
LEMMA TickHolds ==
  ASSUME NEW time \in Nat, NEW w, NEW adm, NEW limit \in [each : Nat, all : Nat],
         LimiterHolds(w, adm, time, limit)
  PROVE  LimiterHolds(w, adm, time + 1, limit)
<1>1. /\ Recent(adm, time + 1) \subseteq Recent(adm, time)
      /\ \A ip : RecentOf(adm, ip, time + 1) \subseteq RecentOf(adm, ip, time)
  <2>1. \A n \in DOMAIN adm : adm[n].time \in Nat
    BY SequencesTyped
  <2>a. Window \in Nat
    BY McpGatewayAssumption
  <2>2. \A x \in Nat : x >= (time + 1) - Window => x >= time - Window
    BY <2>a
  <2>3. Recent(adm, time + 1) \subseteq Recent(adm, time)
    BY <2>1, <2>2 DEF Recent
  <2> QED BY <2>3 DEF RecentOf
<1>2. Tracks(w.all, adm, Recent(adm, time + 1))
  BY <1>1, StillTracks DEF LimiterHolds
<1>3. ASSUME NEW ip PROVE Tracks(Entries(w, ip), adm, RecentOf(adm, ip, time + 1))
  BY <1>1, StillTracks DEF LimiterHolds
<1>4. ASSUME NEW t \in 0..(time + 1)
      PROVE  /\ Cardinality(Within(adm, t)) <= limit.all
             /\ \A ip : Cardinality(WithinOf(adm, ip, t)) <= limit.each
  <2>1. CASE t \in 0..time
    BY <2>1 DEF LimiterHolds
  <2>2. CASE t = time + 1
    <3>1. Within(adm, t) = {} /\ \A ip : WithinOf(adm, ip, t) = {}
      BY <2>2 DEF Within, WithinOf, LimiterHolds
    <3> QED BY <3>1, FS_EmptySet
  <2> QED BY <2>1, <2>2
<1>5. \A n \in DOMAIN adm : adm[n].time \in 0..(time + 1)
  BY DEF LimiterHolds
<1> QED BY <1>2, <1>3, <1>4, <1>5 DEF LimiterHolds

\* A check of one limiter leaves the other as it was (check, check_register_rate).
LEMMA ChecksHold ==
  ASSUME WindowsInv, NEW l \in Limiters, NEW ip, Checks(l, ip)
  PROVE  WindowsInv'
<1> DEFINE w == windows[l]
           adm == admitted[l]
           all == DropOld(w.all)
           each == DropOld(Entries(w, ip))
<1>1. LimiterHolds(w, adm, now, Limits[l]) /\ Limits[l] \in [each : Nat, all : Nat] /\ now \in Nat
  BY McpGatewayAssumption DEF WindowsInv
<1>2. /\ windows' = [windows EXCEPT ![l] = Check(l, ip).window] /\ now' = now
      /\ admitted' = IF Check(l, ip).ok
                     THEN [admitted EXCEPT ![l] = Append(@, [time |-> now, ip |-> ip])] ELSE admitted
  BY DEF Checks
<1>3. all \in Seq(Nat) /\ each \in Seq(Nat)
  BY <1>1, StillTracked
<1>4. Len(all) \in Nat /\ Len(each) \in Nat /\ Limits[l].all \in Nat /\ Limits[l].each \in Nat
  BY <1>1, <1>3, LenProperties
<1>5. ASSUME NEW v, NEW b, LimiterHolds(v, b, now, Limits[l]),
             windows' = [windows EXCEPT ![l] = v], admitted' = [admitted EXCEPT ![l] = b]
      PROVE  WindowsInv'
  <2>1. \A k \in Limiters : LimiterHolds(windows'[k], admitted'[k], now, Limits[k])
    BY <1>5 DEF WindowsInv
  <2>2. /\ windows' = [k \in Limiters |-> windows'[k]] /\ admitted' = [k \in Limiters |-> admitted'[k]]
    BY <1>5 DEF WindowsInv
  <2> QED BY <1>1, <1>2, <2>1, <2>2 DEF WindowsInv
<1>6. CASE Len(all) >= Limits[l].all
  <2> DEFINE v == [all |-> all, each |-> w.each]
  <2>1. Check(l, ip) = [ok |-> FALSE, window |-> v]
    BY <1>4, <1>6 DEF Check
  <2>2. ~Check(l, ip).ok /\ Check(l, ip).window = v
    BY <2>1
  <2>3. LimiterHolds(v, adm, now, Limits[l])
    BY <1>1, RefusalHolds
  <2>4. admitted' = [admitted EXCEPT ![l] = adm]
    BY <1>2, <2>2 DEF WindowsInv
  <2> QED BY <1>2, <1>5, <2>2, <2>3, <2>4
<1>7. CASE Len(all) < Limits[l].all /\ Len(each) >= Limits[l].each
  <2> DEFINE v == [all |-> all, each |-> Put(w.each, ip, each)]
  <2>1. Check(l, ip) = [ok |-> FALSE, window |-> v]
    BY <1>4, <1>7 DEF Check
  <2>2. ~Check(l, ip).ok /\ Check(l, ip).window = v
    BY <2>1
  <2>3. LimiterHolds(v, adm, now, Limits[l])
    BY <1>1, RefusalHolds
  <2>4. admitted' = [admitted EXCEPT ![l] = adm]
    BY <1>2, <2>2 DEF WindowsInv
  <2> QED BY <1>2, <1>5, <2>2, <2>3, <2>4
<1>8. CASE Len(all) < Limits[l].all /\ Len(each) < Limits[l].each
  <2> DEFINE v == [all |-> Append(all, now), each |-> Put(w.each, ip, Append(each, now))]
             b == Append(adm, [time |-> now, ip |-> ip])
  <2>1. Check(l, ip) = [ok |-> TRUE, window |-> v]
    BY <1>4, <1>8 DEF Check
  <2>2. Check(l, ip).ok /\ Check(l, ip).window = v
    BY <2>1
  <2>3. LimiterHolds(v, b, now, Limits[l])
    BY <1>1, <1>8, AdmissionHolds
  <2>4. admitted' = [admitted EXCEPT ![l] = b]
    BY <1>2, <2>2
  <2> QED BY <1>2, <1>5, <2>2, <2>3, <2>4
<1> QED BY <1>4, <1>6, <1>7, <1>8

LEMMA SameWindows ==
  ASSUME WindowsInv, UNCHANGED limiterVars
  PROVE  WindowsInv'
  BY DEF WindowsInv, limiterVars

LEMMA WindowsTick ==
  ASSUME WindowsInv, Tick
  PROVE  WindowsInv'
<1>1. now' = now + 1 /\ UNCHANGED <<windows, admitted>>
  BY DEF Tick
<1>2. ASSUME NEW l \in Limiters PROVE LimiterHolds(windows[l], admitted[l], now + 1, Limits[l])
  BY TickHolds, McpGatewayAssumption DEF WindowsInv
<1> QED BY <1>1, <1>2 DEF WindowsInv

\* The deques begin empty, and again when the process restarts.
LEMMA EmptyWindows ==
  ASSUME NEW time \in Nat, NEW limit \in [each : Nat, all : Nat]
  PROVE  LimiterHolds([all |-> <<>>, each |-> <<>>], <<>>, time, limit)
<1> DEFINE w == [all |-> <<>>, each |-> <<>>]
<1>1. w.all = <<>> /\ w.each = <<>> /\ \A ip : Entries(w, ip) = <<>>
  BY DEF Entries
<1>2. DOMAIN <<>> = {} /\ <<>> \in Seq(Nat)
  OBVIOUS
<1>3. /\ Recent(<<>>, time) = {} /\ \A ip : RecentOf(<<>>, ip, time) = {}
      /\ \A t : Within(<<>>, t) = {} /\ \A ip : WithinOf(<<>>, ip, t) = {}
  BY <1>2 DEF Recent, RecentOf, Within, WithinOf
<1>4. \A q : Tracks(q, <<>>, {})
  BY DEF Tracks, TrackedBy
<1>5. w.each = [ip \in DOMAIN w.each |-> w.each[ip]]
  OBVIOUS
<1>6. w = [all |-> w.all, each |-> w.each]
  OBVIOUS
<1>7. Cardinality({}) = 0
  BY FS_EmptySet
<1>8. LimiterHolds(w, <<>>, time, limit)
  <2> HIDE DEF w
  <2>1. w.all \in Seq(Nat) /\ \A ip \in DOMAIN w.each : w.each[ip] \in Seq(Nat)
    BY <1>1, <1>2
  <2>2. \E S : <<>> \in Seq(S)
    BY <1>2
  <2>3. \A n \in DOMAIN <<>> : <<>>[n].time \in 0..time
    BY <1>2
  <2>4. /\ Tracks(w.all, <<>>, Recent(<<>>, time))
        /\ \A ip : Tracks(Entries(w, ip), <<>>, RecentOf(<<>>, ip, time))
    BY <1>3, <1>4
  <2>5. ASSUME NEW t \in 0..time
        PROVE  /\ Cardinality(Within(<<>>, t)) <= limit.all
               /\ \A ip : Cardinality(WithinOf(<<>>, ip, t)) <= limit.each
    <3>1. limit.all \in Nat /\ limit.each \in Nat
      OBVIOUS
    <3>2. Within(<<>>, t) = {} /\ \A ip : WithinOf(<<>>, ip, t) = {}
      BY <1>3
    <3>3. Cardinality(Within(<<>>, t)) = 0 /\ \A ip : Cardinality(WithinOf(<<>>, ip, t)) = 0
      BY <1>7, <3>2, Zenon
    <3> QED BY <3>1, <3>3
  <2> QED BY <1>5, <1>6, <2>1, <2>2, <2>3, <2>4, <2>5 DEF LimiterHolds
<1> QED BY <1>8

LEMMA WindowsInitially ==
  ASSUME Init
  PROVE  WindowsInv
<1>1. /\ now = 0 /\ windows = [l \in Limiters |-> [all |-> <<>>, each |-> <<>>]]
      /\ admitted = [l \in Limiters |-> <<>>]
  BY DEF Init, GatewayInit
<1>2. \A l \in Limiters : LimiterHolds(windows[l], admitted[l], 0, Limits[l])
  BY <1>1, EmptyWindows, McpGatewayAssumption
<1> QED BY <1>1, <1>2 DEF WindowsInv

LEMMA WindowsRestart ==
  ASSUME WindowsInv, Restart
  PROVE  WindowsInv'
<1>1. /\ now' = now /\ windows' = [l \in Limiters |-> [all |-> <<>>, each |-> <<>>]]
      /\ admitted' = [l \in Limiters |-> <<>>]
  BY DEF Restart
<1>2. \A l \in Limiters : LimiterHolds(windows'[l], admitted'[l], now, Limits[l])
  BY <1>1, EmptyWindows, McpGatewayAssumption DEF WindowsInv
<1> QED BY <1>1, <1>2 DEF WindowsInv

LEMMA WindowsStep ==
  ASSUME WindowsInv, NEW c \in Callers, GatewayStep(c)
  PROVE  WindowsInv'
<1>1. CASE \E ip \in scene.ips : PostOauthRegister(c, ip) \/ PostOauthToken(c, ip)
  BY <1>1, ChecksHold DEF PostOauthRegister, CheckRegisterRate, PostOauthToken, Limiters
<1>2. CASE RegisterClient(c)
  BY <1>2, ChecksHold, SameWindows DEF RegisterClient, CheckRegisterRate, Limiters
<1>3. CASE \/ InsertAgent(c) \/ CountRefusal(c) \/ SwitchOff(c)
           \/ \E on \in BOOLEAN : EditSwitch(c, on)
           \/ \E i \in Identities : LookupUser(c, "callback", i) /\ UNCHANGED <<sessionVars, gatewayVars>>
           \/ CheckUserMcpRole(c)
           \/ \E a \in DOMAIN agents : GetClient(c, a) \/ RevokeClient(c, a)
           \/ LinkClientToUser(c) \/ CreateAuthorizationCode(c)
  <2>1. UNCHANGED limiterVars
    BY <1>3 DEF InsertAgent, CountRefusal, SwitchOff, EditSwitch, CheckUserMcpRole, GetClient,
                RevokeClient, LinkClientToUser, CreateAuthorizationCode, gatewayVars
  <2> QED BY <2>1, SameWindows
<1>4. CASE \/ UnsupportedGrant(c)
           \/ \E k \in DOMAIN codes : ConsumeCode(c, k) \/ RefreshAccessToken(c, k)
           \/ CheckClient(c) \/ RevokeAgentTokens(c) \/ ResolveAgentCredits(c) \/ CreateAgentToken(c)
           \/ RenewToken(c) \/ GatewayCallFails(c)
  <2>1. UNCHANGED limiterVars
    BY <1>4 DEF UnsupportedGrant, ConsumeCode, RefreshAccessToken, CheckClient, RevokeAgentTokens,
                ResolveAgentCredits, CreateAgentToken, RenewToken, GatewayCallFails, gatewayVars
  <2> QED BY <2>1, SameWindows
<1> QED BY <1>1, <1>2, <1>3, <1>4 DEF GatewayStep

LEMMA WindowsNext ==
  ASSUME WindowsInv, [Next]_vars
  PROVE  WindowsInv'
<1>1. CASE UNCHANGED gatewayVars \/ UNCHANGED vars
  BY <1>1, SameWindows DEF gatewayVars, vars
<1>2. CASE \E c \in Callers : GatewayStep(c)
  BY <1>2, WindowsStep
<1> QED BY <1>1, <1>2, WindowsTick, WindowsRestart DEF Next

\* In no stretch of time as long as the window is more let through than the limits,
\* neither from one address nor in all, for any limits, window, addresses and number
\* of requests at once: the deques have an entry for everything that has been let
\* through since the window's beginning.
\* (mcp_gateway_module.py: SlidingWindowRateLimiter.check)
THEOREM LimitsStayKept == Spec => []LimitsAreKept
<1>1. Init => WindowsInv
  BY WindowsInitially
<1>2. WindowsInv /\ [Next]_vars => WindowsInv'
  BY WindowsNext
<1>3. WindowsInv => LimitsAreKept
  <2> SUFFICES ASSUME WindowsInv, NEW l \in Limiters, NEW t \in 0..now
               PROVE  /\ Cardinality(Within(admitted[l], t)) <= Limits[l].all
                      /\ \A ip \in scene.ips :
                           Cardinality(WithinOf(admitted[l], ip, t)) <= Limits[l].each
    BY DEF LimitsAreKept, Within, WithinOf
  <2> QED BY DEF WindowsInv, LimiterHolds
<1> QED BY <1>1, <1>2, <1>3, PTL DEF Spec

-----------------------------------------------------------------------------
(* The startups: what they wait for                                        *)

\* The modules by what they wait for: each level only for the levels below it.
Level0 == {"env", "billing_import"}
Level1 == {"db"}
Level2 == {"discord_bot", "role", "finance", "batch_job", "bsky", "content_pages", "content_wiki",
           "conversations", "database_cli", "models_registry", "rpcdispatch", "service_renewals"}
Level3 == {"auth", "discord_output", "discord_chat", "social_input", "async_task",
           "public_gallery", "public_links", "public_users", "role_admin", "system_config",
           "user_admin"}
Level4 == {"oauth", "openai", "storage", "profile", "public_vars", "service_routes"}
Level5 == {"session", "mcp_gateway"}

\* The level of a module.
Rank(m) == IF m \in Level0 THEN 0 ELSE IF m \in Level1 THEN 1 ELSE IF m \in Level2 THEN 2
           ELSE IF m \in Level3 THEN 3 ELSE IF m \in Level4 THEN 4 ELSE 5

\* A startup with these needs waits only for modules of lower levels than n.
WaitsBelow(needs, n) ==
  Len(needs) \in Nat /\ \A j \in 1 .. Len(needs) : needs[j] \in DOMAIN Needs /\ Rank(needs[j]) < n

LEMMA ModulesKnown ==
  DOMAIN Needs = Level0 \cup Level1 \cup Level2 \cup Level3 \cup Level4 \cup Level5
  BY DEF Needs, Level0, Level1, Level2, Level3, Level4, Level5

LEMMA NeedsOfLevels01 ==
  /\ \A m \in Level0 : Needs[m] = <<>>
  /\ \A m \in Level1 : Needs[m] = <<"env">>
  BY DEF Needs, env_needs, billing_import_needs, db_needs, Level0, Level1

LEMMA NeedsOfLevel2 ==
  \A m \in Level2 : Needs[m] \in {<<"db">>, <<"env", "db">>, <<"db", "env">>}
  BY SMTT(60) DEF Level2, Needs, discord_bot_needs, role_needs, finance_needs, batch_job_needs,
     bsky_needs, content_pages_needs, content_wiki_needs, conversations_needs,
     database_cli_needs, models_registry_needs, rpcdispatch_needs, service_renewals_needs

LEMMA NeedsOfLevel3 ==
  \A m \in Level3 :
    Needs[m] \in {<<"discord_bot">>, <<"env", "db", "discord_bot", "role">>,
                  <<"db", "finance">>, <<"db", "discord_bot">>, <<"db", "role", "discord_bot">>}
  BY SMTT(60) DEF Level3, Needs, auth_needs, discord_output_needs, discord_chat_needs,
     social_input_needs, async_task_needs, public_gallery_needs, public_links_needs,
     public_users_needs, role_admin_needs, system_config_needs, user_admin_needs

LEMMA NeedsOfLevel4 ==
  \A m \in Level4 :
    Needs[m] \in {<<"auth", "db", "env", "discord_bot">>, <<"db", "discord_bot", "discord_output">>,
                  <<"env", "db", "auth", "discord_bot">>, <<"db", "auth">>,
                  <<"db", "auth", "discord_bot">>}
  BY SMTT(60) DEF Level4, Needs, oauth_needs, openai_needs, storage_needs, profile_needs,
     public_vars_needs, service_routes_needs

LEMMA NeedsOfLevel5 ==
  \A m \in Level5 :
    Needs[m] \in {<<"auth", "db", "oauth", "discord_bot">>, <<"db", "auth", "oauth", "discord_bot">>}
  BY DEF Level5, Needs, session_needs, mcp_gateway_needs

\* Where these modules stand.
LEMMA Ranks ==
  /\ {"env", "db", "role", "discord_bot", "finance", "auth", "discord_output", "oauth"}
       \subseteq DOMAIN Needs
  /\ Rank("env") = 0 /\ Rank("db") = 1 /\ Rank("role") = 2 /\ Rank("discord_bot") = 2
  /\ Rank("finance") = 2 /\ Rank("auth") = 3 /\ Rank("discord_output") = 3 /\ Rank("oauth") = 4
  BY ModulesKnown DEF Rank, Level0, Level1, Level2, Level3, Level4, Level5

\* No startup waits for a module that waits for it, directly or not: what a module
\* needs is of a lower level (the startups of server/modules).
LEMMA NeedsAreLower == \A m \in DOMAIN Needs : WaitsBelow(Needs[m], Rank(m))
<1> SUFFICES ASSUME NEW m \in DOMAIN Needs PROVE WaitsBelow(Needs[m], Rank(m))
  OBVIOUS
<1>0. CASE m \in Level0
  BY <1>0, NeedsOfLevels01 DEF WaitsBelow
<1>1. CASE m \in Level1
  <2>1. Rank(m) = 1 /\ Needs[m] = <<"env">>
    BY <1>1, NeedsOfLevels01 DEF Rank, Level0, Level1
  <2> QED BY <2>1, Ranks DEF WaitsBelow
<1>2. CASE m \in Level2
  <2>1. Rank(m) = 2
    BY <1>2 DEF Rank, Level0, Level1, Level2
  <2> QED BY <1>2, <2>1, NeedsOfLevel2, Ranks DEF WaitsBelow
<1>3. CASE m \in Level3
  <2>1. Rank(m) = 3
    BY <1>3 DEF Rank, Level0, Level1, Level2, Level3
  <2> QED BY <1>3, <2>1, NeedsOfLevel3, Ranks DEF WaitsBelow
<1>4. CASE m \in Level4
  <2>1. Rank(m) = 4
    BY <1>4 DEF Rank, Level0, Level1, Level2, Level3, Level4
  <2> QED BY <1>4, <2>1, NeedsOfLevel4, Ranks DEF WaitsBelow
<1>5. CASE m \in Level5
  <2>1. Rank(m) = 5
    BY <1>5 DEF Rank, Level0, Level1, Level2, Level3, Level4, Level5
  <2> QED BY <1>5, <2>1, NeedsOfLevel5, Ranks DEF WaitsBelow
<1> QED BY <1>0, <1>1, <1>2, <1>3, <1>4, <1>5, ModulesKnown

\* The session endpoints wait for the authentication first of all.
LEMMA OauthNeeds == Needs["oauth"][1] = "auth" /\ Len(Needs["oauth"]) = 4
  BY DEF Needs, oauth_needs

-----------------------------------------------------------------------------
(* The startups: the inductive invariant                                   *)

\* What a startup that has gone on need not wait for any more.
Passed(n) == n \in ready \/ n \notin loaded \/ n = "discord_bot"

\* How far each startup is, and what has returned.
StartupsHold ==
  /\ DOMAIN at = loaded
  /\ returned \subseteq ready \cup {"auth"}
  /\ \A m \in loaded : \A j \in 1 .. Len(Needs[m]) : j < at[m] => Passed(Needs[m][j])
  /\ \A m \in loaded : at[m] \in 1 .. Len(Needs[m]) => Needs[m][at[m]] \in loaded
  /\ \A m \in returned : at[m] = Len(Needs[m]) + 1
  /\ phase \in {"serving", "stopping"} => returned = loaded
  /\ phase \in {"starting", "failing", "serving"} => down = {}

StartupInv == StartupTypeOK /\ StartupsHold

LEMMA LoadedKnown == ASSUME StartupTypeOK, NEW m \in loaded PROVE WaitsBelow(Needs[m], Rank(m)) /\ m \in DOMAIN Needs
  BY StartupAssumption, NeedsAreLower DEF StartupTypeOK

\* A startup stops at the first module that is there and not ready, and so has
\* passed all before it (on_ready).
LEMMA NextStopSound ==
  ASSUME StartupTypeOK, NEW m \in loaded, NEW i \in Nat, i >= 1, i <= Len(Needs[m]) + 1
  PROVE  /\ NextStop(m, i) \in i .. Len(Needs[m]) + 1
         /\ NextStop(m, i) <= Len(Needs[m]) => Needs[m][NextStop(m, i)] \in loaded
         /\ \A j \in i .. Len(Needs[m]) : j < NextStop(m, i) => Passed(Needs[m][j])
<1> DEFINE Stops == {j \in i .. Len(Needs[m]) : Present(Needs[m][j]) /\ Needs[m][j] \notin ready}
<1>0. Len(Needs[m]) \in Nat
  BY LoadedKnown DEF WaitsBelow
<1>1. \A j \in i .. Len(Needs[m]) : j \notin Stops => Passed(Needs[m][j])
  BY DEF Passed, Present
<1>2. CASE Stops = {}
  <2>1. NextStop(m, i) = Len(Needs[m]) + 1
    BY <1>2 DEF NextStop
  <2> QED BY <1>0, <1>1, <1>2, <2>1
<1>3. CASE Stops # {}
  <2> DEFINE s == CHOOSE j \in Stops : \A k \in Stops : j <= k
  <2>1. Stops \subseteq Nat
    BY <1>0
  <2>3. NextStop(m, i) = s
    BY <1>3 DEF NextStop
  <2> HIDE DEF Stops
  <2>2. s \in Stops /\ \A k \in Stops : s <= k
    BY <1>3, <2>1, LeastNatural
  <2> HIDE DEF s
  <2>4. s \in i .. Len(Needs[m]) /\ Needs[m][s] \in loaded
    BY <2>2 DEF Stops, Present
  <2>5. \A j \in i .. Len(Needs[m]) : j < s => j \notin Stops
    BY <1>0, <2>2, <2>4
  <2> QED BY <1>0, <1>1, <2>3, <2>4, <2>5
<1> QED BY <1>2, <1>3

LEMMA StartupInvStarts == StartupInit => StartupInv
<1> SUFFICES ASSUME StartupInit PROVE StartupInv
  OBVIOUS
<1>1. StartupTypeOK
  <2>1. \A m \in loaded : Len(Needs[m]) \in Nat
    BY StartupAssumption, NeedsAreLower DEF StartupInit, WaitsBelow
  <2>2. \A m \in loaded : at[m] = 0
    BY DEF StartupInit
  <2>3. \A m \in loaded : at[m] \in 0 .. Len(Needs[m]) + 1
    BY <2>1, <2>2
  <2>4. 0 \in 0 .. MaxStartFaults
    BY StartupAssumption
  <2> QED BY <2>3, <2>4 DEF StartupInit, StartupTypeOK, Starting
<1>2. StartupsHold
  BY <1>1, LoadedKnown DEF StartupInit, StartupsHold, WaitsBelow
<1> QED BY <1>1, <1>2 DEF StartupInv

LEMMA ProceedHolds == ASSUME StartupInv, NEW m \in loaded, Proceed(m) PROVE StartupInv'
<1> USE DEF StartupInv
<1>0. /\ at' = [at EXCEPT ![m] = NextStop(m, at[m] + 1)] /\ MayProceed(m) /\ phase \in Starting
      /\ UNCHANGED <<loaded, ready, returned, down, phase, connected, botGone, startFaults>>
  BY DEF Proceed
<1>1. PICK s : s = NextStop(m, at[m] + 1)
  OBVIOUS
<1>2. at[m] \in Nat /\ Len(Needs[m]) \in Nat /\ at[m] <= Len(Needs[m])
  BY <1>0, LoadedKnown DEF MayProceed, StartupTypeOK, WaitsBelow
<1>3. /\ s \in at[m] + 1 .. Len(Needs[m]) + 1
      /\ s <= Len(Needs[m]) => Needs[m][s] \in loaded
      /\ \A j \in at[m] + 1 .. Len(Needs[m]) : j < s => Passed(Needs[m][j])
  BY <1>1, <1>2, NextStopSound
<1>4. DOMAIN at' = loaded /\ at'[m] = s /\ \A n \in loaded \ {m} : at'[n] = at[n]
  BY <1>0, <1>1 DEF StartupsHold
<1>5. StartupTypeOK'
  <2>1. \A n \in loaded : at'[n] \in 0 .. Len(Needs[n]) + 1
    BY <1>2, <1>3, <1>4 DEF StartupTypeOK
  <2> QED BY <1>0, <2>1 DEF StartupTypeOK
<1>6. \A n \in loaded : \A j \in 1 .. Len(Needs[n]) : j < at'[n] => Passed(Needs[n][j])
  <2>1. ASSUME NEW j \in 1 .. Len(Needs[m]), j < s PROVE Passed(Needs[m][j])
    <3>1. CASE j < at[m]
      BY <3>1 DEF StartupsHold
    <3>2. CASE j = at[m]
      BY <1>0, <3>2 DEF MayProceed, Passed
    <3>3. CASE j > at[m]
      BY <1>2, <1>3, <2>1, <3>3
    <3> QED BY <1>2, <3>1, <3>2, <3>3
  <2> QED BY <1>4, <2>1 DEF StartupsHold
<1>7. m \notin returned
  BY <1>2 DEF StartupsHold
<1>8. StartupsHold'
  BY <1>0, <1>3, <1>4, <1>6, <1>7 DEF StartupsHold, Passed, StartupTypeOK, Starting
<1> QED BY <1>5, <1>8

LEMMA ReturnHolds ==
  ASSUME StartupInv, NEW m \in loaded, phase \in Starting, Working(m),
         \/ ready' = ready \cup {m}
         \/ ready' = ready /\ m = "auth",
         returned' = returned \cup {m}, connected' \in BOOLEAN,
         startFaults' \in 0 .. MaxStartFaults, UNCHANGED <<loaded, at, down, phase, botGone>>
  PROVE  StartupInv'
<1> USE DEF StartupInv
<1>1. StartupTypeOK'
  BY DEF StartupTypeOK
<1>2. StartupsHold'
  BY DEF StartupsHold, Working, Passed, Starting, StartupTypeOK
<1> QED BY <1>1, <1>2

LEMMA StartupsKept ==
  StartupInv /\ (StartupStep \/ Stop \/ \E m \in loaded : ShutDown(m)) => StartupInv'
<1> SUFFICES ASSUME StartupInv, StartupStep \/ Stop \/ \E m \in loaded : ShutDown(m)
             PROVE  StartupInv'
  OBVIOUS
<1>0. startFaults \in Nat /\ MaxStartFaults \in Nat /\ connected \in BOOLEAN
  BY StartupAssumption DEF StartupInv, StartupTypeOK
<1>1. ASSUME NEW m \in loaded, Proceed(m) PROVE StartupInv'
  BY <1>1, ProceedHolds
<1>2. ASSUME NEW m \in loaded, Started(m) PROVE StartupInv'
  BY <1>0, <1>2, ReturnHolds DEF Started, StartupInv, StartupTypeOK
<1>3. CASE StartedWithoutBot
  BY <1>0, <1>3, ReturnHolds DEF StartedWithoutBot
<1>4. CASE AuthGivesUp
  BY <1>0, <1>4, ReturnHolds DEF AuthGivesUp
<1>5. ASSUME NEW m \in loaded, StartRaises(m) PROVE StartupInv'
  BY <1>0, <1>5 DEF StartRaises, StartupInv, StartupTypeOK, StartupsHold, Passed, Starting
<1>6. CASE Serve
  BY <1>6 DEF Serve, StartupInv, StartupTypeOK, StartupsHold, Passed, Starting
<1>7. CASE Exit
  BY <1>7 DEF Exit, StartupInv, StartupTypeOK, StartupsHold, Passed, Starting
<1>8. CASE Stop
  BY <1>8 DEF Stop, StartupInv, StartupTypeOK, StartupsHold, Passed, Starting
<1>9. ASSUME NEW m \in loaded, ShutDown(m) PROVE StartupInv'
  BY <1>0, <1>9 DEF ShutDown, StartupInv, StartupTypeOK, StartupsHold, Passed, Starting
<1> QED BY <1>1, <1>2, <1>3, <1>4, <1>5, <1>6, <1>7, <1>8, <1>9 DEF StartupStep

LEMMA StartupSoundBy == StartupInv => StartupIsSound
<1> SUFFICES ASSUME StartupInv PROVE StartupIsSound
  OBVIOUS
<1> USE DEF StartupInv
<1>1. ServedWhenReady
  <2> SUFFICES ASSUME phase \in {"serving", "stopping"} PROVE ready = loaded
    BY DEF ServedWhenReady
  <2>1. returned = loaded /\ ready \subseteq loaded /\ loaded \subseteq ready \cup {"auth"}
    BY DEF StartupsHold, StartupTypeOK
  <2>2. ASSUME "auth" \in loaded PROVE "auth" \in ready
    <3>1. "oauth" \in loaded
      BY <2>2, StartupAssumption DEF StartupTypeOK
    <3>2. at["oauth"] = Len(Needs["oauth"]) + 1
      BY <2>1, <3>1 DEF StartupsHold
    <3>a. 1 \in 1 .. Len(Needs["oauth"]) /\ 1 < at["oauth"]
      BY <3>2, OauthNeeds
    <3>3. Passed(Needs["oauth"][1])
      BY <3>1, <3>a DEF StartupsHold
    <3> QED BY <2>2, <3>3, OauthNeeds DEF Passed
  <2> QED BY <2>1, <2>2
<1>2. StartupsNeverStall
  <2> SUFFICES ASSUME phase = "starting", returned # loaded, "auth" \notin returned \ ready,
                      \A m \in loaded : ~MayProceed(m) /\ ~Working(m)
               PROVE  FALSE
    BY DEF StartupsNeverStall
  <2> DEFINE left == loaded \ returned
             low == {Rank(m) : m \in left}
  \* Whoever is left waits for somebody who is left, of a lower level.
  <2>1. ASSUME NEW m \in left PROVE \E n \in left : Rank(n) < Rank(m)
    <3>1. Len(Needs[m]) \in Nat /\ at[m] \in 0 .. Len(Needs[m]) + 1 /\ at[m] # Len(Needs[m]) + 1
      BY LoadedKnown DEF WaitsBelow, StartupTypeOK, Working
    <3>2. at[m] \in 1 .. Len(Needs[m]) /\ Needs[m][at[m]] \notin ready
      BY <3>1 DEF MayProceed
    <3>3. PICK n : n = Needs[m][at[m]]
      OBVIOUS
    <3>4. n \in loaded /\ n \notin ready /\ Rank(n) < Rank(m)
      BY <3>2, <3>3, LoadedKnown DEF StartupsHold, WaitsBelow
    <3>5. n \notin returned
      BY <3>4 DEF StartupsHold
    <3> QED BY <3>4, <3>5
  <2>2. \A m : Rank(m) \in Nat
    BY DEF Rank
  <2>3. low \subseteq Nat /\ low # {}
    BY <2>2 DEF StartupTypeOK
  <2>4. PICK m \in left : Rank(m) = Min(low)
    <3> HIDE DEF left
    <3>1. Min(low) \in low
      <4> HIDE DEF low
      <4> QED BY <2>3, LeastNatural
    <3> QED BY <3>1
  <2>5. PICK n \in left : Rank(n) < Rank(m)
    BY <2>1
  <2>6. Rank(n) \in low
    OBVIOUS
  <2>7. Min(low) <= Rank(n)
    <3> HIDE DEF low
    <3> QED BY <2>3, <2>6, LeastNatural
  <2> QED BY <2>2, <2>4, <2>5, <2>7
<1> QED BY <1>1, <1>2 DEF StartupIsSound

\* The commands leave the startups alone.
LEMMA CommandKeepsStartup ==
  ASSUME NEW c \in Commands, CommandStep(c)
  PROVE  UNCHANGED startupVars
  BY Zenon DEF CommandStep, Operation, _handle_summarize_command, summarize_channel, summarize_chat,
     deliver_summary, _handle_persona_command, _persona_fetch_persona, _persona_fetch_conversation,
     _persona_fetch_channel_history, _persona_insert_conversation_input,
     generate_persona_response, _persona_generate_response, deliver_persona_response,
     send_channel_message, QuietStartup

\* What the startups do in a step of the whole.
LEMMA StartupsGo ==
  [ChatNext]_discordVars =>
    StartupStep \/ Stop \/ (\E m \in loaded : ShutDown(m)) \/ UNCHANGED startupVars
  BY CommandKeepsStartup, Zenon DEF ChatNext, discordVars, Serving, Stopping, ShuttingDown, Sending,
     WorkingQueue, Give, delete_conversation_thread, delete_conversations_before, Deletes,
     QuietStartup

LEMMA StartupInvKept == StartupInv /\ [ChatNext]_discordVars => StartupInv'
<1> SUFFICES ASSUME StartupInv, [ChatNext]_discordVars PROVE StartupInv'
  OBVIOUS
<1>1. CASE UNCHANGED startupVars
  BY <1>1 DEF startupVars, StartupInv, StartupTypeOK, StartupsHold, Passed, Starting
<1> QED BY <1>1, StartupsGo, StartupsKept

\* Whatever is installed and however the startups interleave or fail, the server
\* serves only when every module is ready, and until all have returned some startup
\* can go on, ends or raises, unless the authentication gave up quietly
\* (modules/__init__.py startup_all).
THEOREM StartupsAreSound == ChatSpec => []StartupIsSound
<1>1. ChatInit => StartupInv
  BY StartupInvStarts DEF ChatInit
<1> QED BY <1>1, StartupInvKept, StartupSoundBy, PTL DEF ChatSpec

-----------------------------------------------------------------------------
(* The commands and what they send                                         *)

Pcs ==
  {"new", "done", "persona", "summarize", "rpc", "register", "credits", "guildcredits",
   "history", "summary", "summarized", "parsed", "persona_found", "context", "channel_read",
   "asked", "generated", "answered", "ack"}
AnyText == Texts \cup {<<>>, Ack}
Messages == [by : Commands, no : Nat, to : {"channel", "user"}, text : AnyText]
CommandRow == [pc : Pcs, text : AnyText, ctx : SUBSET Row, no : Nat]

CommandsHold == cmd \in [Commands -> CommandRow]

\* Command c queues messages of its own, or takes one up itself, each with the next
\* number.
Speaks(c) ==
  /\ \E msgs \in Seq(Messages) :
       /\ Len(msgs) > 0 /\ \A i \in 1 .. Len(msgs) : msgs[i].by = c
       /\ \A i \in 1 .. Len(msgs) : msgs[i].no = cmd[c].no + i - 1
       /\ cmd'[c].no = cmd[c].no + Len(msgs)
       /\ Queued(msgs)
  /\ UNCHANGED <<sending, lock, sent, delivered, dropped>>
Sends(c) ==
  /\ \E msg \in Messages : msg.by = c /\ msg.no = cmd[c].no /\ TakeUp(c, msg, 0)
  /\ cmd'[c].no = cmd[c].no + 1
  /\ UNCHANGED <<queue, lock, sent, delivered>>

\* What a step of command c does to the output.
Outputs(c) ==
  \/ Speaks(c) \/ Sends(c)
  \/ QuietOutput /\ (cmd'[c].pc = "done" => ~OutputThere) /\ cmd'[c].no >= cmd[c].no

\* At most one request fails.
FaultsCount == NoFault \/ Fault

\* Command c goes on and the others stay where they are.
Moved(c) ==
  \E n \in CommandRow : cmd' = [cmd EXCEPT ![c] = n]

LEMMA MessagesAre ==
  ASSUME CommandsHold, NEW c \in Commands, NEW to \in {"channel", "user"}, NEW text \in AnyText
  PROVE  /\ Message(c, to, text) \in Messages /\ Message(c, to, text).by = c
         /\ Message(c, to, text).no = cmd[c].no
         /\ Following(c, to, text) \in Messages /\ Following(c, to, text).by = c
         /\ Following(c, to, text).no = cmd[c].no + 1
  BY DEF CommandsHold, CommandRow, Messages, Message, Following

LEMMA OneIsSpoken ==
  ASSUME NEW c \in Commands, CommandsHold, NEW msg \in Messages, msg.by = c, Queued(<<msg>>),
         msg.no = cmd[c].no, cmd'[c].no = cmd[c].no + 1,
         UNCHANGED <<sending, lock, sent, delivered, dropped>>
  PROVE  Speaks(c)
<1>0. PICK msgs : msgs = <<msg>>
  OBVIOUS
<1>1. msgs \in Seq(Messages) /\ Len(msgs) = 1 /\ msgs[1] = msg
  BY <1>0
<1>2. Queued(msgs)
  BY <1>0
<1>3. cmd[c].no \in Nat
  BY DEF CommandsHold, CommandRow
<1>4. \A i \in 1 .. Len(msgs) : msgs[i].by = c /\ msgs[i].no = cmd[c].no + i - 1
  BY <1>1, <1>3
<1>5. Len(msgs) > 0 /\ cmd'[c].no = cmd[c].no + Len(msgs)
  BY <1>1
<1> QED BY <1>1, <1>2, <1>4, <1>5 DEF Speaks

LEMMA TwoAreSpoken ==
  ASSUME NEW c \in Commands, CommandsHold, NEW msg \in Messages, msg.by = c, NEW nxt \in Messages, nxt.by = c,
         msg.no = cmd[c].no, nxt.no = cmd[c].no + 1, cmd'[c].no = cmd[c].no + 2,
         Queued(<<msg, nxt>>), UNCHANGED <<sending, lock, sent, delivered, dropped>>
  PROVE  Speaks(c)
<1>0. PICK msgs : msgs = <<msg, nxt>>
  OBVIOUS
<1>1. msgs \in Seq(Messages) /\ Len(msgs) = 2 /\ msgs[1] = msg /\ msgs[2] = nxt
  BY <1>0
<1>a. cmd[c].no \in Nat
  BY DEF CommandsHold, CommandRow
<1>2. \A i \in 1 .. Len(msgs) : msgs[i].by = c /\ msgs[i].no = cmd[c].no + i - 1
  BY <1>1, <1>a
<1>3. Queued(msgs)
  BY <1>0
<1>4. Len(msgs) > 0
  BY <1>1
<1> QED BY <1>1, <1>2, <1>3, <1>4 DEF Speaks

LEMMA NoticeSpeaks ==
  ASSUME CommandsHold, NEW c \in Commands, _queue_channel_notice(c)
  PROVE  Speaks(c)
<1>1. Queued(<<Message(c, "channel", Ack)>>) /\ UNCHANGED <<sending, lock, sent, delivered, dropped>>
  BY DEF _queue_channel_notice
<1>2. /\ Message(c, "channel", Ack) \in Messages /\ Message(c, "channel", Ack).by = c
      /\ Message(c, "channel", Ack).no = cmd[c].no
  BY MessagesAre DEF AnyText
<1>3. cmd'[c].no = cmd[c].no + 1
  BY DEF _queue_channel_notice, CommandsHold, CommandRow
<1> QED BY <1>1, <1>2, <1>3, OneIsSpoken

LEMMA GoesToMoves ==
  ASSUME CommandsHold, NEW c \in Commands, NEW pc \in Pcs, GoesTo(c, pc)
  PROVE  Moved(c) /\ cmd'[c] = [cmd[c] EXCEPT !.pc = pc]
<1>1. [cmd[c] EXCEPT !.pc = pc] \in CommandRow
  BY DEF CommandsHold, CommandRow
<1> QED BY <1>1 DEF GoesTo, Moved, CommandsHold

LEMMA NoticeMoves ==
  ASSUME CommandsHold, NEW c \in Commands, _queue_channel_notice(c)
  PROVE  Moved(c) /\ cmd'[c].pc = "done" /\ cmd'[c].ctx = cmd[c].ctx
<1>1. cmd[c] \in CommandRow /\ cmd[c].no \in Nat
  BY DEF CommandsHold, CommandRow
<1>2. PICK no \in Nat : no = cmd[c].no + 1
  BY <1>1
<1>3. [cmd[c] EXCEPT !.pc = "done", !.no = no] \in CommandRow
  BY <1>1 DEF CommandRow, Pcs
<1>4. cmd' = [cmd EXCEPT ![c] = [cmd[c] EXCEPT !.pc = "done", !.no = no]]
  BY <1>2 DEF _queue_channel_notice
<1> QED BY <1>1, <1>3, <1>4 DEF Moved, CommandsHold, CommandRow

LEMMA FinalizeMoves ==
  ASSUME CommandsHold, NEW c \in Commands, _finalize_persona_context(c)
  PROVE  Moved(c) /\ cmd'[c].pc = "ack" /\ cmd'[c].ctx = {} /\ cmd'[c].no = cmd[c].no
<1>1. [cmd[c] EXCEPT !.pc = "ack", !.text = <<>>, !.ctx = {}] \in CommandRow
  BY DEF CommandsHold, CommandRow, Pcs, AnyText
<1>2. cmd' = [cmd EXCEPT ![c] = [cmd[c] EXCEPT !.pc = "ack", !.text = <<>>, !.ctx = {}]]
  BY DEF _finalize_persona_context
<1> QED BY <1>1, <1>2 DEF Moved, CommandsHold, CommandRow

\* What a step of command c does: it keeps its row well formed, outputs what is its
\* own, and one request fails at most.
Acts(c) == Moved(c) /\ Outputs(c) /\ FaultsCount

\* A step after which the command is not over and nothing is sent.
LEMMA QuietActs ==
  ASSUME CommandsHold, NEW c \in Commands, Moved(c), cmd'[c].pc # "done", cmd'[c].no = cmd[c].no,
         QuietOutput, FaultsCount
  PROVE  Acts(c)
<1>1. cmd[c].no \in Nat
  BY DEF CommandsHold, CommandRow
<1> QED BY <1>1 DEF Acts, Outputs

LEMMA GoesActs ==
  ASSUME CommandsHold, NEW c \in Commands, NEW pc \in Pcs, pc # "done", GoesTo(c, pc), QuietOutput,
         FaultsCount
  PROVE  Acts(c)
<1>0. Moved(c) /\ cmd'[c] = [cmd[c] EXCEPT !.pc = pc]
  BY GoesToMoves
<1>1. cmd'[c].pc = pc /\ cmd'[c].no = cmd[c].no
  BY <1>0 DEF CommandsHold, CommandRow
<1> QED BY <1>0, <1>1, QuietActs

LEMMA NoticeActs ==
  ASSUME CommandsHold, NEW c \in Commands, _queue_channel_notice(c), FaultsCount
  PROVE  Acts(c)
  BY NoticeSpeaks, NoticeMoves DEF Acts, Outputs

LEMMA FinalizeActs ==
  ASSUME CommandsHold, NEW c \in Commands, _finalize_persona_context(c), QuietOutput, FaultsCount
  PROVE  Acts(c)
  BY FinalizeMoves, QuietActs

LEMMA GiveActs ==
  ASSUME CommandsHold, NEW c \in Commands, NEW kind \in Kinds, Give(c, kind)
  PROVE  Acts(c)
<1>1. kind \in Pcs /\ kind # "done"
  BY ChatAssumption DEF Pcs
<1> QED BY <1>1, GoesActs DEF Give, FaultsCount

LEMMA ReadActs ==
  ASSUME CommandsHold, ChatTypeOK, NEW c \in Commands,
         get_channel_context(c), QuietOutput
  PROVE  Acts(c) /\ cmd'[c].pc = "context"
         /\ (cmd'[c].ctx = cmd[c].ctx \/ cmd'[c].ctx = list_channel_messages_v1)
<1>1. list_channel_messages_v1 \in SUBSET Row
  BY DEF list_channel_messages_v1, ChatTypeOK
<1>2. PICK ctx \in SUBSET Row : ctx = list_channel_messages_v1
  BY <1>1
<1>3. FaultsCount
  BY DEF get_channel_context, FaultsCount
<1>4. CASE cmd' = [cmd EXCEPT ![c].pc = "context", ![c].ctx = ctx]
  <2>1. cmd[c] \in CommandRow /\ "context" \in Pcs
    BY DEF CommandsHold, Pcs
  <2>2. [cmd[c] EXCEPT !.pc = "context", !.ctx = ctx] \in CommandRow
    BY <2>1 DEF CommandRow
  <2>3. cmd' = [cmd EXCEPT ![c] = [cmd[c] EXCEPT !.pc = "context", !.ctx = ctx]]
    BY <1>4
  <2>4. cmd'[c].pc = "context" /\ cmd'[c].ctx = ctx /\ cmd'[c].no = cmd[c].no
    BY <2>1, <2>3 DEF CommandsHold, CommandRow
  <2>5. Moved(c)
    BY <2>2, <2>3 DEF Moved
  <2> QED BY <1>2, <1>3, <2>4, <2>5, QuietActs
<1>5. CASE GoesTo(c, "context")
  <2>1. cmd'[c] = [cmd[c] EXCEPT !.pc = "context"]
    BY <1>5, GoesToMoves DEF Pcs
  <2>2. cmd'[c].pc = "context" /\ cmd'[c].ctx = cmd[c].ctx
    BY <2>1 DEF CommandsHold, CommandRow
  <2> QED BY <1>3, <1>5, <2>2, GoesActs DEF Pcs
<1> QED BY <1>2, <1>4, <1>5 DEF get_channel_context

\* A summary or a persona's answer is made and kept for the next step.
LEMMA TextActs ==
  ASSUME CommandsHold, NEW c \in Commands, NEW pc \in Pcs, pc # "done", NEW text \in generate_chat,
         \/ cmd' = [cmd EXCEPT ![c].pc = pc, ![c].text = text]
         \/ cmd' = [cmd EXCEPT ![c].pc = pc, ![c].text = text, ![c].ctx = {}],
         QuietOutput, FaultsCount
  PROVE  Acts(c) /\ cmd'[c].pc = pc /\ (cmd'[c].ctx = {} \/ cmd'[c].ctx = cmd[c].ctx)
<1>1. text \in AnyText
  BY DEF generate_chat, AnyText
<1>2. cmd[c] \in CommandRow
  BY DEF CommandsHold
<1>3. PICK ctx \in SUBSET Row : /\ ctx = {} \/ ctx = cmd[c].ctx
                               /\ cmd' = [cmd EXCEPT ![c] = [cmd[c] EXCEPT !.pc = pc, !.text = text, !.ctx = ctx]]
  <2>1. CASE cmd' = [cmd EXCEPT ![c].pc = pc, ![c].text = text]
    <3>1. [cmd[c] EXCEPT !.pc = pc, !.text = text] = [cmd[c] EXCEPT !.pc = pc, !.text = text, !.ctx = cmd[c].ctx]
      BY <1>2 DEF CommandRow
    <3>2. cmd' = [cmd EXCEPT ![c] = [cmd[c] EXCEPT !.pc = pc, !.text = text]]
      BY <2>1
    <3> QED BY <1>2, <3>1, <3>2 DEF CommandRow
  <2>2. CASE cmd' = [cmd EXCEPT ![c].pc = pc, ![c].text = text, ![c].ctx = {}]
    <3>1. cmd' = [cmd EXCEPT ![c] = [cmd[c] EXCEPT !.pc = pc, !.text = text, !.ctx = {}]]
      BY <2>2
    <3> QED BY <3>1
  <2> QED BY <2>1, <2>2
<1>4. [cmd[c] EXCEPT !.pc = pc, !.text = text, !.ctx = ctx] \in CommandRow
  BY <1>1, <1>2 DEF CommandRow
<1>5. Moved(c)
  BY <1>3, <1>4 DEF Moved
<1>6. cmd'[c].pc = pc /\ cmd'[c].ctx = ctx /\ cmd'[c].no = cmd[c].no
  BY <1>2, <1>3 DEF CommandsHold, CommandRow
<1> QED BY <1>3, <1>5, <1>6, QuietActs

LEMMA OperationActs ==
  ASSUME CommandsHold, NEW c \in Commands, Operation(c)
  PROVE  Acts(c)
<1>1. _queue_channel_notice(c) /\ NoFault
  BY DEF Operation, _handle_rpc_command, _handle_register_command, _handle_credits_command,
     _handle_guildcredits_command
<1> QED BY <1>1, NoticeActs DEF FaultsCount

LEMMA SummarizeActs ==
  ASSUME CommandsHold, NEW c \in Commands,
         _handle_summarize_command(c) \/ summarize_channel(c) \/ summarize_chat(c)
  PROVE  Acts(c)
<1>1. CASE _handle_summarize_command(c)
  <2>1. NoFault /\ (_queue_channel_notice(c) \/ (GoesTo(c, "history") /\ QuietOutput))
    BY <1>1 DEF _handle_summarize_command
  <2> QED BY <2>1, NoticeActs, GoesActs DEF FaultsCount, Pcs
<1>2. CASE summarize_channel(c)
  <2>1. FaultsCount /\ (_queue_channel_notice(c) \/ (GoesTo(c, "summary") /\ QuietOutput))
    BY <1>2 DEF summarize_channel, fetch_channel_history_backwards, FaultsCount
  <2> QED BY <2>1, NoticeActs, GoesActs DEF Pcs
<1>3. CASE summarize_chat(c)
  <2>1. PICK text \in generate_chat : cmd' = [cmd EXCEPT ![c].pc = "summarized", ![c].text = text]
    BY <1>3 DEF summarize_chat
  <2>2. QuietOutput /\ FaultsCount /\ "summarized" \in Pcs
    BY <1>3 DEF summarize_chat, FaultsCount, Pcs
  <2> QED BY <2>1, <2>2, TextActs
<1> QED BY <1>1, <1>2, <1>3

LEMMA DeliverSummaryActs ==
  ASSUME CommandsHold, NEW c \in Commands, deliver_summary(c)
  PROVE  Acts(c)
<1>1. cmd[c] \in CommandRow /\ cmd[c].no \in Nat /\ cmd[c].text \in AnyText
  BY DEF CommandsHold, CommandRow
<1>2. PICK no \in Nat : no = cmd[c].no + 2
  BY <1>1
<1>3. [cmd[c] EXCEPT !.pc = "done", !.no = no, !.text = <<>>] \in CommandRow
  BY <1>1 DEF CommandRow, Pcs, AnyText
<1>4. cmd' = [cmd EXCEPT ![c] = [cmd[c] EXCEPT !.pc = "done", !.no = no, !.text = <<>>]]
  BY <1>2 DEF deliver_summary
<1>5. Moved(c)
  BY <1>3, <1>4 DEF Moved
<1>6. Speaks(c)
  <2>1. /\ Message(c, "user", cmd[c].text) \in Messages /\ Message(c, "user", cmd[c].text).by = c
        /\ Message(c, "user", cmd[c].text).no = cmd[c].no
        /\ Message(c, "channel", Ack) \in Messages /\ Message(c, "channel", Ack).by = c
        /\ Message(c, "channel", Ack).no = cmd[c].no
        /\ Following(c, "channel", Ack) \in Messages /\ Following(c, "channel", Ack).by = c
        /\ Following(c, "channel", Ack).no = cmd[c].no + 1
    BY <1>1, MessagesAre DEF AnyText
  <2>a. cmd'[c].no = cmd[c].no + 2
    BY <1>1, <1>2, <1>4 DEF CommandsHold, CommandRow
  <2>2. /\ \/ Queued(<<Message(c, "user", cmd[c].text), Following(c, "channel", Ack)>>)
           \/ Queued(<<Message(c, "channel", Ack), Following(c, "channel", Ack)>>)
        /\ UNCHANGED <<sending, lock, sent, delivered, dropped>>
    BY DEF deliver_summary
  <2>3. CASE Queued(<<Message(c, "user", cmd[c].text), Following(c, "channel", Ack)>>)
    BY <2>1, <2>2, <2>3, <2>a, TwoAreSpoken
  <2>4. CASE Queued(<<Message(c, "channel", Ack), Following(c, "channel", Ack)>>)
    BY <2>1, <2>2, <2>4, <2>a, TwoAreSpoken
  <2> QED BY <2>2, <2>3, <2>4
<1> QED BY <1>5, <1>6 DEF Acts, Outputs, FaultsCount, deliver_summary

LEMMA PersonaActs ==
  ASSUME CommandsHold, ChatTypeOK, NEW c \in Commands,
         \/ _handle_persona_command(c) \/ _persona_fetch_persona(c)
         \/ _persona_fetch_conversation(c) \/ _persona_fetch_channel_history(c)
         \/ _persona_insert_conversation_input(c) \/ generate_persona_response(c)
         \/ _persona_generate_response(c)
  PROVE  Acts(c)
<1>1. CASE _handle_persona_command(c)
  <2>1. NoFault /\ (_queue_channel_notice(c) \/ (GoesTo(c, "parsed") /\ QuietOutput))
    BY <1>1 DEF _handle_persona_command
  <2> QED BY <2>1, NoticeActs, GoesActs DEF FaultsCount, Pcs
<1>2. CASE _persona_fetch_persona(c)
  <2>1. /\ QuietOutput /\ FaultsCount
        /\ GoesTo(c, "persona_found") \/ _finalize_persona_context(c)
    BY <1>2 DEF _persona_fetch_persona, get_persona, FaultsCount
  <2> QED BY <2>1, FinalizeActs, GoesActs DEF Pcs
<1>3. CASE _persona_fetch_conversation(c)
  BY <1>3, ReadActs DEF _persona_fetch_conversation
<1>4. CASE _persona_fetch_channel_history(c)
  <2>1. /\ QuietOutput /\ FaultsCount
        /\ GoesTo(c, "channel_read") \/ _finalize_persona_context(c)
    BY <1>4 DEF _persona_fetch_channel_history, get_channel_history, fetch_channel_history_backwards,
       FaultsCount
  <2> QED BY <2>1, FinalizeActs, GoesActs DEF Pcs
<1>5. CASE _persona_insert_conversation_input(c)
  <2>1. /\ QuietOutput /\ FaultsCount
        /\ GoesTo(c, "asked") \/ _finalize_persona_context(c)
    BY <1>5 DEF _persona_insert_conversation_input, log_message, FaultsCount
  <2> QED BY <2>1, FinalizeActs, GoesActs DEF Pcs
<1>6. CASE generate_persona_response(c)
  <2>1. QuietOutput /\ FaultsCount /\ "generated" \in Pcs
    BY <1>6 DEF generate_persona_response, FaultsCount, Pcs
  <2>2. CASE _finalize_persona_context(c)
    BY <2>1, <2>2, FinalizeActs
  <2>3. CASE \E text \in generate_chat :
               cmd' = [cmd EXCEPT ![c].pc = "generated", ![c].text = text, ![c].ctx = {}]
    BY <2>1, <2>3, TextActs
  <2> QED BY <1>6, <2>2, <2>3 DEF generate_persona_response
<1>7. CASE _persona_generate_response(c)
  <2>1. QuietOutput /\ FaultsCount /\ GoesTo(c, "answered")
    BY <1>7 DEF _persona_generate_response, log_message, FaultsCount
  <2> QED BY <2>1, GoesActs DEF Pcs
<1> QED BY <1>1, <1>2, <1>3, <1>4, <1>5, <1>6, <1>7

LEMMA DeliverPersonaActs ==
  ASSUME CommandsHold, NEW c \in Commands, deliver_persona_response(c)
  PROVE  Acts(c)
<1>1. cmd[c] \in CommandRow /\ cmd[c].no \in Nat /\ cmd[c].text \in AnyText
  BY DEF CommandsHold, CommandRow
<1>a. FaultsCount
  BY DEF FaultsCount, deliver_persona_response
<1>2. CASE cmd[c].text = <<>>
  <2>1. _finalize_persona_context(c) /\ QuietOutput
    BY <1>2 DEF deliver_persona_response, QuietOutput
  <2> QED BY <1>a, <2>1, FinalizeActs
<1>3. CASE cmd[c].text # <<>>
  <2>1. PICK no \in Nat : no = cmd[c].no + 1
    BY <1>1
  <2>2. [cmd[c] EXCEPT !.pc = "ack", !.no = no, !.text = <<>>] \in CommandRow
    BY <1>1 DEF CommandRow, Pcs, AnyText
  <2>3. cmd' = [cmd EXCEPT ![c] = [cmd[c] EXCEPT !.pc = "ack", !.no = no, !.text = <<>>]]
    BY <1>3, <2>1 DEF deliver_persona_response
  <2>4. Moved(c)
    BY <2>2, <2>3 DEF Moved
  <2>5. /\ Message(c, "channel", cmd[c].text) \in Messages
        /\ Message(c, "channel", cmd[c].text).by = c
        /\ Message(c, "channel", cmd[c].text).no = cmd[c].no
    BY <1>1, MessagesAre
  <2>6. /\ Queued(<<Message(c, "channel", cmd[c].text)>>)
        /\ UNCHANGED <<sending, lock, sent, delivered, dropped>>
    BY <1>3 DEF deliver_persona_response
  <2>a. cmd'[c].no = cmd[c].no + 1
    BY <1>1, <2>1, <2>3 DEF CommandsHold, CommandRow
  <2>7. Speaks(c)
    BY <2>5, <2>6, <2>a, OneIsSpoken
  <2> QED BY <1>a, <2>4, <2>7 DEF Acts, Outputs
<1> QED BY <1>2, <1>3

LEMMA SendActs ==
  ASSUME CommandsHold, NEW c \in Commands, send_channel_message(c)
  PROVE  Acts(c)
<1>1. cmd[c] \in CommandRow /\ cmd[c].no \in Nat
  BY DEF CommandsHold, CommandRow
<1>2. PICK no \in Nat : no = cmd[c].no + 1
  BY <1>1
<1>3. [cmd[c] EXCEPT !.pc = "done", !.no = no] \in CommandRow
  BY <1>1 DEF CommandRow, Pcs
<1>4. cmd' = [cmd EXCEPT ![c] = [cmd[c] EXCEPT !.pc = "done", !.no = no]]
  BY <1>2 DEF send_channel_message
<1>5. Moved(c)
  BY <1>3, <1>4 DEF Moved
<1>6. /\ Message(c, "channel", Ack) \in Messages /\ Message(c, "channel", Ack).by = c
      /\ Message(c, "channel", Ack).no = cmd[c].no
  BY MessagesAre DEF AnyText
<1>a. cmd'[c].no = cmd[c].no + 1
  BY <1>1, <1>2, <1>4 DEF CommandsHold, CommandRow
<1>b. cmd'[c].no >= cmd[c].no
  BY <1>1, <1>a
<1>7. CASE OutputThere
  <2>1. Sends(c)
    BY <1>6, <1>7, <1>a DEF send_channel_message, Sends
  <2>2. FaultsCount
    BY <1>7 DEF send_channel_message, TakeUp, FaultsCount
  <2> QED BY <1>5, <2>1, <2>2 DEF Acts, Outputs
<1>8. CASE ~OutputThere
  BY <1>5, <1>8, <1>b DEF send_channel_message, Acts, Outputs, QuietOutput, FaultsCount
<1> QED BY <1>7, <1>8

LEMMA CommandActs ==
  ASSUME CommandsHold, ChatTypeOK, NEW c \in Commands, CommandStep(c)
  PROVE  Acts(c)
  BY OperationActs, SummarizeActs, DeliverSummaryActs, PersonaActs, DeliverPersonaActs, SendActs
     DEF CommandStep

-----------------------------------------------------------------------------
(* The output queue                                                        *)

QueueInv ==
  /\ DOMAIN sending = Senders
  /\ \A s \in Senders : sending[s] # Nothing => sending[s].msg \in Messages
  /\ \A c \in Commands : sending[c] # Nothing => sending[c].msg.by = c
  /\ queue \in Seq(Messages)
  /\ QueueIsSound

\* Something of command c is on the way or was tried.
Tried(c) == OnTheWay(c) \/ \E m \in delivered \union dropped : m.by = c

\* A step leaves the queue sound and loses no message.
KeepsQueue == QueueInv' /\ \A c \in Commands : Tried(c) => Tried(c)'

LEMMA SendersAre == Worker \in Senders /\ Commands \subseteq Senders /\ Worker \notin Commands
  BY OutputAssumption DEF Senders

\* A message that is taken up is something.
LEMMA TakenIsSomething ==
  ASSUME NEW msg \in Messages, NEW rest
  PROVE  [msg |-> msg, rest |-> rest] # Nothing
<1>1. DOMAIN msg = {"by", "no", "to", "text"}
  BY DEF Messages
<1>2. DOMAIN <<>> = {}
  OBVIOUS
<1>3. msg # <<>>
  BY <1>1, <1>2
<1>4. [msg |-> msg, rest |-> rest].msg # Nothing.msg
  BY <1>3 DEF Nothing
<1> QED BY <1>4

LEMMA FaultsStay ==
  ASSUME StartupTypeOK, FaultsCount, faults \in 0 .. MaxFaults
  PROVE  faults' \in 0 .. MaxFaults
<1>1. startFaults \in Nat /\ MaxFaults \in Nat
  BY StartupAssumption, OutputAssumption DEF StartupTypeOK
<1> QED BY <1>1 DEF FaultsCount, Fault, NoFault

LEMMA SpeaksKeeps ==
  ASSUME StartupTypeOK, QueueInv, NEW c \in Commands, Speaks(c), FaultsCount
  PROVE  KeepsQueue /\ (OutputThere => Tried(c)')
<1> USE DEF QueueInv, QueueIsSound, OutputTypeOK
<1>1. PICK msgs \in Seq(Messages) : /\ Len(msgs) > 0 /\ \A i \in 1 .. Len(msgs) : msgs[i].by = c
                                    /\ Queued(msgs)
  BY DEF Speaks
<1>2. UNCHANGED <<sending, lock, sent, delivered, dropped>>
  BY DEF Speaks
<1>3. faults' \in 0 .. MaxFaults
  BY FaultsStay
<1>4. CASE ~OutputThere
  <2>1. queue' = queue /\ unfinished' = unfinished
    BY <1>1, <1>4 DEF Queued
  <2>2. QueueInv'
    BY <1>2, <1>3, <2>1 DEF DrainWaitsForTheRest
  <2> QED BY <1>2, <1>4, <2>1, <2>2 DEF KeepsQueue, Tried, OnTheWay
<1>5. CASE OutputThere
  <2>1. queue' = queue \o msgs /\ unfinished' = unfinished + Len(msgs)
    BY <1>1, <1>5 DEF Queued
  <2>2. /\ queue' \in Seq(Messages) /\ Len(queue') = Len(queue) + Len(msgs)
        /\ \A i \in 1 .. Len(queue) : queue'[i] = queue[i]
        /\ \A i \in 1 .. Len(msgs) : queue'[Len(queue) + i] = msgs[i]
        /\ Len(queue) \in Nat /\ Len(msgs) \in Nat
    BY <2>1, <1>1
  <2>3. DrainWaitsForTheRest'
    BY <1>2, <2>1, <2>2 DEF DrainWaitsForTheRest
  <2>4. QueueInv'
    BY <1>2, <1>3, <2>1, <2>2, <2>3
  <2>5. DOMAIN queue = 1 .. Len(queue) /\ DOMAIN queue' = 1 .. Len(queue')
    BY <2>2
  <2>6. \A i \in DOMAIN queue : i \in DOMAIN queue' /\ queue'[i] = queue[i]
    BY <2>2, <2>5
  <2>7. Len(queue) + 1 \in DOMAIN queue' /\ queue'[Len(queue) + 1] = msgs[1] /\ msgs[1].by = c
    BY <1>1, <2>2, <2>5
  <2> QED BY <1>2, <2>4, <2>6, <2>7 DEF KeepsQueue, Tried, OnTheWay
<1> QED BY <1>4, <1>5

LEMMA TakeUpKeeps ==
  ASSUME QueueInv, NEW s \in Senders, NEW msg \in Messages, NEW done, TakeUp(s, msg, done),
         s = Worker \/ s = msg.by, s = Worker => sending[s] = Nothing
  PROVE  /\ DOMAIN sending' = Senders
         /\ \A t \in Senders : sending'[t] # Nothing => sending'[t].msg \in Messages
         /\ \A t \in Commands : sending'[t] # Nothing => sending'[t].msg.by = t
         /\ \A t \in Senders : sending[t] # Nothing => sending'[t] # Nothing
         /\ \A t \in Senders : sending[t] # Nothing => sending'[t].msg.by = sending[t].msg.by
         /\ dropped \subseteq dropped'
         /\ (sending'[s] # Nothing /\ sending'[s].msg = msg) \/ msg \in dropped'
         /\ \/ unfinished' = unfinished /\ sending'[s] # Nothing
            \/ unfinished' = unfinished - done /\ sending' = sending
         /\ \A t \in Senders \ {s} : sending'[t] = sending[t]
         /\ FaultsCount
<1> USE DEF QueueInv
<1>1. CASE /\ BotUsable /\ NoFault
           /\ sending' = [sending EXCEPT ![s] = [msg |-> msg, rest |-> Chunks[msg.text]]]
           /\ UNCHANGED <<unfinished, dropped>>
  <2>1. PICK rest : rest = Chunks[msg.text]
    OBVIOUS
  <2>2. sending' = [sending EXCEPT ![s] = [msg |-> msg, rest |-> rest]]
    BY <1>1, <2>1
  <2>3. sending'[s] # Nothing /\ sending'[s].msg = msg
    BY <2>2, TakenIsSomething
  <2>4. DOMAIN sending' = Senders /\ \A t \in Senders \ {s} : sending'[t] = sending[t]
    BY <2>2
  <2>5. Worker \notin Commands
    BY SendersAre
  <2>6. \A t \in Senders : sending[t] # Nothing => sending'[t].msg.by = sending[t].msg.by
    BY <2>3, <2>4, <2>5 DEF Senders
  <2> QED BY <1>1, <2>3, <2>4, <2>5, <2>6 DEF FaultsCount, Senders
<1>2. CASE /\ IF BotUsable THEN Fault ELSE NoFault
           /\ dropped' = dropped \union {msg}
           /\ unfinished' = unfinished - done
           /\ UNCHANGED sending
  BY <1>2 DEF FaultsCount
<1> QED BY <1>1, <1>2 DEF TakeUp

LEMMA SendsKeeps ==
  ASSUME StartupTypeOK, QueueInv, NEW c \in Commands, Sends(c)
  PROVE  KeepsQueue /\ Tried(c)'
<1> USE DEF QueueInv, QueueIsSound, OutputTypeOK
<1>1. PICK msg \in Messages : msg.by = c /\ TakeUp(c, msg, 0)
  BY DEF Sends
<1>2. UNCHANGED <<queue, lock, sent, delivered>> /\ c \in Senders /\ c # Worker /\ Worker \in Senders
  BY SendersAre DEF Sends
<1>3. unfinished \in Nat
  OBVIOUS
<1>4. /\ DOMAIN sending' = Senders
      /\ \A t \in Senders : sending'[t] # Nothing => sending'[t].msg \in Messages
      /\ \A t \in Commands : sending'[t] # Nothing => sending'[t].msg.by = t
      /\ \A t \in Senders : sending[t] # Nothing => sending'[t] # Nothing
      /\ \A t \in Senders : sending[t] # Nothing => sending'[t].msg.by = sending[t].msg.by
      /\ dropped \subseteq dropped'
      /\ (sending'[c] # Nothing /\ sending'[c].msg = msg) \/ msg \in dropped'
      /\ unfinished' = unfinished \/ unfinished' = unfinished - 0
      /\ \A t \in Senders \ {c} : sending'[t] = sending[t]
      /\ FaultsCount
  BY <1>1, <1>2, TakeUpKeeps
<1>5. unfinished' = unfinished
  BY <1>3, <1>4
<1>6. faults' \in 0 .. MaxFaults
  BY <1>4, FaultsStay
<1>7. QueueInv'
  BY <1>2, <1>4, <1>5, <1>6 DEF DrainWaitsForTheRest
<1>8. Tried(c)'
  BY <1>1, <1>2, <1>4 DEF Tried, OnTheWay
<1>9. \A d \in Commands : Tried(d) => Tried(d)'
  BY <1>2, <1>4 DEF Tried, OnTheWay
<1> QED BY <1>7, <1>8, <1>9 DEF KeepsQueue

LEMMA WorkerGetKeeps ==
  ASSUME StartupTypeOK, QueueInv, WorkerGet
  PROVE  KeepsQueue
<1> USE DEF QueueInv, QueueIsSound, OutputTypeOK
<1>1. /\ sending[Worker] = Nothing /\ queue # <<>> /\ TakeUp(Worker, Head(queue), 1)
      /\ queue' = Tail(queue) /\ UNCHANGED <<lock, sent, delivered>>
  BY DEF WorkerGet
<1>2. PICK msg \in Messages : msg = Head(queue) /\ msg = queue[1]
  BY <1>1
<1>3. Worker \in Senders /\ Worker \notin Commands
  BY SendersAre
<1>4. /\ DOMAIN sending' = Senders
      /\ \A t \in Senders : sending'[t] # Nothing => sending'[t].msg \in Messages
      /\ \A t \in Commands : sending'[t] # Nothing => sending'[t].msg.by = t
      /\ \A t \in Senders : sending[t] # Nothing => sending'[t] # Nothing
      /\ \A t \in Senders : sending[t] # Nothing => sending'[t].msg.by = sending[t].msg.by
      /\ dropped \subseteq dropped'
      /\ (sending'[Worker] # Nothing /\ sending'[Worker].msg = msg) \/ msg \in dropped'
      /\ \/ unfinished' = unfinished /\ sending'[Worker] # Nothing
         \/ unfinished' = unfinished - 1 /\ sending' = sending
      /\ FaultsCount
  BY <1>1, <1>2, <1>3, TakeUpKeeps
<1>5. /\ queue' \in Seq(Messages) /\ Len(queue') = Len(queue) - 1 /\ Len(queue) \in Nat
      /\ Len(queue) > 0
      /\ \A i \in 1 .. Len(queue') : queue'[i] = queue[i + 1]
  BY <1>1
<1>6. faults' \in 0 .. MaxFaults
  BY <1>4, FaultsStay
<1>7. DrainWaitsForTheRest'
  BY <1>1, <1>4, <1>5 DEF DrainWaitsForTheRest
<1>8. unfinished' \in Nat
  BY <1>5, <1>7 DEF DrainWaitsForTheRest
<1>9. QueueInv'
  BY <1>1, <1>4, <1>5, <1>6, <1>7, <1>8
<1>10. ASSUME NEW c \in Commands, Tried(c) PROVE Tried(c)'
  <2>1. CASE \E i \in DOMAIN queue : queue[i].by = c
    <3>1. PICK i \in 1 .. Len(queue) : queue[i].by = c
      BY <2>1
    <3>2. CASE i = 1
      BY <1>2, <1>3, <1>4, <3>1, <3>2 DEF Tried, OnTheWay
    <3>3. CASE i # 1
      <4>1. i - 1 \in 1 .. Len(queue') /\ queue'[i - 1].by = c
        BY <1>5, <3>1, <3>3
      <4> QED BY <1>5, <4>1 DEF Tried, OnTheWay
    <3> QED BY <3>2, <3>3
  <2>2. CASE ~\E i \in DOMAIN queue : queue[i].by = c
    BY <1>1, <1>4, <1>10, <2>2 DEF Tried, OnTheWay
  <2> QED BY <2>1, <2>2
<1> QED BY <1>9, <1>10 DEF KeepsQueue

\* Whoever is over with a message has sent or dropped it.
LEMMA FinishKeeps ==
  ASSUME StartupTypeOK, QueueInv, NEW s \in Senders, sending[s] # Nothing, Finish(s), FaultsCount,
         sending[s].msg \in delivered' \cup dropped', delivered \subseteq delivered',
         dropped \subseteq dropped', queue' = queue
  PROVE  KeepsQueue
<1> USE DEF QueueInv, QueueIsSound, OutputTypeOK
<1>1. /\ sending' = [sending EXCEPT ![s] = Nothing]
      /\ lock' = IF lock = s THEN "free" ELSE lock
      /\ unfinished' = IF s = Worker THEN unfinished - 1 ELSE unfinished
  BY DEF Finish
<1>2. /\ DOMAIN sending' = Senders /\ sending'[s] = Nothing
      /\ \A t \in Senders \ {s} : sending'[t] = sending[t]
  BY <1>1
<1>3. faults' \in 0 .. MaxFaults
  BY FaultsStay
<1>4. Len(queue) \in Nat /\ Worker \in Senders /\ unfinished \in Nat
  BY SendersAre
<1>5. DrainWaitsForTheRest' /\ unfinished' \in Nat
  <2>1. CASE s = Worker
    BY <1>1, <1>2, <1>4, <2>1 DEF DrainWaitsForTheRest
  <2>2. CASE s # Worker
    BY <1>1, <1>2, <1>4, <2>2 DEF DrainWaitsForTheRest
  <2> QED BY <2>1, <2>2
<1>6. lock' \in Senders \cup {"free"} /\ (lock' # "free" => sending'[lock'] # Nothing)
  BY <1>1, <1>2
<1>7. QueueInv'
  BY <1>2, <1>3, <1>5, <1>6 DEF Senders
<1>8. \A c \in Commands : Tried(c) => Tried(c)'
  BY <1>2 DEF Tried, OnTheWay
<1> QED BY <1>7, <1>8 DEF KeepsQueue

LEMMA SendChunkKeeps ==
  ASSUME QueueInv, NEW s \in Senders, SendChunk(s)
  PROVE  KeepsQueue
<1> USE DEF QueueInv, QueueIsSound, OutputTypeOK
<1>1. /\ sending[s] # Nothing /\ lock' = s
      /\ sending' = [sending EXCEPT ![s].rest = Tail(@)]
      /\ UNCHANGED <<queue, unfinished, delivered, dropped, faults>>
  BY DEF SendChunk, MaySend
<1>2. PICK taken : taken = [sending[s] EXCEPT !.rest = Tail(@)]
  OBVIOUS
<1>3. sending' = [sending EXCEPT ![s] = taken]
  BY <1>1, <1>2
<1>4. DOMAIN sending' = Senders /\ sending'[s] = taken /\ \A t \in Senders \ {s} : sending'[t] = sending[t]
  BY <1>3
<1>5. taken.msg = sending[s].msg
  BY <1>2
<1>6. taken # Nothing
  <2>1. sending[s].msg \in Messages
    BY <1>1
  <2>2. DOMAIN (sending[s].msg) = {"by", "no", "to", "text"}
    BY <2>1 DEF Messages
  <2>3. DOMAIN <<>> = {}
    OBVIOUS
  <2>4. taken.msg # Nothing.msg
    BY <1>5, <2>2, <2>3 DEF Nothing
  <2> QED BY <2>4
<1>7. s # "free" => lock' \in Senders \cup {"free"}
  BY <1>1
<1>8. DrainWaitsForTheRest'
  BY <1>1, <1>4, <1>6, SendersAre DEF DrainWaitsForTheRest
<1>9. QueueInv'
  BY <1>1, <1>4, <1>5, <1>6, <1>8 DEF Senders
<1>10. \A c \in Commands : Tried(c) => Tried(c)'
  BY <1>1, <1>4, <1>5, <1>6 DEF Tried, OnTheWay
<1> QED BY <1>9, <1>10 DEF KeepsQueue

LEMMA SendStepKeeps ==
  ASSUME StartupTypeOK, QueueInv, NEW s \in Senders, SendStep(s)
  PROVE  KeepsQueue
<1>1. CASE SendChunk(s)
  BY <1>1, SendChunkKeeps
<1>2. CASE SendFails(s)
  BY <1>2, FinishKeeps DEF SendFails, MaySend, FaultsCount
<1>3. CASE SendDone(s)
  BY <1>3, FinishKeeps DEF SendDone, MaySend, FaultsCount, NoFault
<1> QED BY <1>1, <1>2, <1>3 DEF SendStep

LEMMA StillKeeps ==
  ASSUME StartupTypeOK, QueueInv, QuietOutput, FaultsCount
  PROVE  KeepsQueue
<1>1. faults' \in 0 .. MaxFaults
  BY FaultsStay DEF QueueInv, QueueIsSound, OutputTypeOK
<1> QED BY <1>1 DEF QuietOutput, KeepsQueue, QueueInv, QueueIsSound, OutputTypeOK, DrainWaitsForTheRest,
     Tried, OnTheWay

LEMMA CancelKeeps ==
  ASSUME StartupTypeOK, QueueInv, CancelWorker
  PROVE  KeepsQueue
<1>1. CASE sending[Worker] = Nothing
  BY <1>1, StillKeeps DEF CancelWorker, QuietOutput, FaultsCount, NoFault
<1>2. CASE sending[Worker] # Nothing
  BY <1>2, SendersAre, FinishKeeps DEF CancelWorker, FaultsCount, NoFault
<1> QED BY <1>1, <1>2

LEMMA QueueStarts == OutputInit => QueueInv
<1> SUFFICES ASSUME OutputInit PROVE QueueInv
  OBVIOUS
<1>1. 0 \in 0 .. MaxFaults
  BY OutputAssumption
<1> QED BY <1>1, SendersAre DEF OutputInit, QueueInv, QueueIsSound, OutputTypeOK, DrainWaitsForTheRest

LEMMA ActsKeeps ==
  ASSUME StartupTypeOK, QueueInv, NEW c \in Commands, Acts(c)
  PROVE  KeepsQueue /\ (cmd'[c].pc = "done" /\ OutputThere => Tried(c)')
<1>1. CASE Speaks(c)
  BY <1>1, SpeaksKeeps DEF Acts
<1>2. CASE Sends(c)
  BY <1>2, SendsKeeps
<1>3. CASE QuietOutput /\ (cmd'[c].pc = "done" => ~OutputThere) /\ cmd'[c].no >= cmd[c].no
  BY <1>3, StillKeeps DEF Acts
<1> QED BY <1>1, <1>2, <1>3 DEF Acts, Outputs

-----------------------------------------------------------------------------
(* The table of conversations                                              *)

\* The steps of a command before its question is stored, and before its answer is.
Early ==
  Pcs \ {"asked", "generated", "answered", "ack", "done"}
Asking == {"asked", "generated"}

Question(c) == [thread |-> c, role |-> "user"]
Answer(c) == [thread |-> c, role |-> "assistant"]

\* Nothing of a command is stored before it comes to it, and the answer not before
\* its question was.
ThreadsHold ==
  \A c \in Commands :
    /\ cmd[c].pc \in Early => \A i \in DOMAIN rows : rows[i].thread # c
    /\ cmd[c].pc \in Asking => /\ \A i \in DOMAIN rows : rows[i] # Answer(c)
                               /\ c \in lost \/ \E i \in DOMAIN rows : rows[i] = Question(c)

TableInv ==
  /\ CommandsHold /\ inserted \in Nat
  /\ ConversationsAreSound /\ ThreadsHold

\* A step of a command that stores nothing and goes on to no earlier part.
Turns(c) ==
  /\ Moved(c) /\ QuietTable
  /\ cmd'[c].pc \in Early => cmd[c].pc \in Early
  /\ cmd'[c].pc \in Asking => cmd[c].pc \in Asking
  /\ \/ cmd'[c].ctx \subseteq cmd[c].ctx
     \/ cmd'[c].ctx = list_channel_messages_v1 /\ cmd[c].pc \in Early

LEMMA TurnsKeep ==
  ASSUME TableInv, NEW c \in Commands, Turns(c)
  PROVE  TableInv'
<1> USE DEF TableInv
<1>1. PICK n \in CommandRow : cmd' = [cmd EXCEPT ![c] = n]
  BY DEF Turns, Moved
<1>2. CommandsHold' /\ cmd'[c] = n /\ \A d \in Commands \ {c} : cmd'[d] = cmd[d]
  BY <1>1 DEF CommandsHold
<1>3. UNCHANGED <<rows, inserted, lost, deletes>>
  BY DEF Turns, QuietTable
<1>4. ThreadsHold'
  BY <1>2, <1>3 DEF Turns, ThreadsHold
<1>5. ContextIsOlder'
  <2> SUFFICES ASSUME NEW d \in Commands, NEW row \in cmd'[d].ctx PROVE row.thread # d
    BY DEF ContextIsOlder
  <2>1. CASE d # c
    BY <1>2, <2>1 DEF ConversationsAreSound, ContextIsOlder
  <2>2. CASE d = c /\ row \in cmd[c].ctx
    BY <2>2 DEF ConversationsAreSound, ContextIsOlder
  <2>3. CASE d = c /\ row \in list_channel_messages_v1 /\ cmd[c].pc \in Early
    BY <2>3 DEF list_channel_messages_v1, ThreadsHold
  <2> QED BY <2>1, <2>2, <2>3 DEF Turns
<1>6. ChatTypeOK' /\ AnswersFollowQuestions'
  BY <1>3 DEF ConversationsAreSound, ChatTypeOK, AnswersFollowQuestions
<1> QED BY <1>2, <1>3, <1>4, <1>5, <1>6 DEF ConversationsAreSound

\* A row is added after all others.
LEMMA InsertAdds ==
  ASSUME TableInv, NEW row, Inserts(row)
  PROVE  /\ inserted' = inserted + 1 /\ inserted' \in Nat /\ inserted' \notin DOMAIN rows
         /\ DOMAIN rows' = DOMAIN rows \cup {inserted'} /\ rows'[inserted'] = row
         /\ \A i \in DOMAIN rows : rows'[i] = rows[i] /\ i < inserted' /\ i \in Nat
         /\ rows' = [i \in DOMAIN rows' |-> rows'[i]]
<1>1. inserted' = inserted + 1 /\ inserted \in Nat /\ DOMAIN rows \subseteq 1 .. inserted
  BY DEF Inserts, TableInv, ConversationsAreSound, ChatTypeOK
<1>2. rows' = [i \in DOMAIN rows \cup {inserted'} |-> IF i = inserted' THEN row ELSE rows[i]]
  BY DEF Inserts
<1> QED BY <1>1, <1>2

\* The question or the answer of command c is stored, or cannot be.
LEMMA StoresKeep ==
  ASSUME TableInv, NEW c \in Commands, NEW pc \in Pcs, GoesTo(c, pc), UNCHANGED deletes,
         \/ /\ cmd[c].pc = "channel_read" /\ pc = "asked"
            /\ \/ Inserts(Question(c)) /\ lost' = lost
               \/ NotStored /\ lost' = lost \cup {c}
         \/ /\ cmd[c].pc = "generated" /\ pc = "answered" /\ lost' = lost
            /\ Inserts(Answer(c)) \/ NotStored
  PROVE  TableInv'
<1> USE DEF TableInv
<1>1. PICK n \in CommandRow : cmd' = [cmd EXCEPT ![c] = n] /\ cmd'[c] = [cmd[c] EXCEPT !.pc = pc]
  BY GoesToMoves DEF Moved
<1>2. /\ CommandsHold' /\ cmd'[c].pc = pc /\ cmd'[c].ctx = cmd[c].ctx
      /\ \A d \in Commands \ {c} : cmd'[d] = cmd[d]
  BY <1>1 DEF CommandsHold, CommandRow
<1>3. ContextIsOlder'
  BY <1>2 DEF ConversationsAreSound, ContextIsOlder
<1>4. rows \in [DOMAIN rows -> Row] /\ DOMAIN rows \subseteq 1 .. inserted /\ lost \subseteq Commands
      /\ deletes' \in 0 .. MaxDeletes
  BY DEF ConversationsAreSound, ChatTypeOK
<1>a. \A d \in Commands : Question(d) \in Row /\ Answer(d) \in Row /\ Question(d) # Answer(d)
                          /\ Question(d).thread = d /\ Answer(d).thread = d
                          /\ Question(d).role = "user" /\ Answer(d).role = "assistant"
  BY DEF Question, Answer, Row
<1>b. "channel_read" \in Early /\ "generated" \in Asking /\ "asked" \notin Early
      /\ "answered" \notin Early \cup Asking
  BY DEF Early, Asking, Pcs
<1>5. ASSUME cmd[c].pc = "channel_read", pc = "asked", NotStored, lost' = lost \cup {c}
      PROVE  TableInv'
  <2>1. UNCHANGED <<rows, inserted>>
    BY <1>5 DEF NotStored
  <2>2. \A i \in DOMAIN rows : rows[i].thread # c
    BY <1>5, <1>b DEF ThreadsHold
  <2>3. ThreadsHold'
    BY <1>2, <1>5, <1>a, <1>b, <2>1, <2>2 DEF ThreadsHold
  <2>4. ChatTypeOK' /\ AnswersFollowQuestions'
    BY <1>4, <1>5, <2>1 DEF ConversationsAreSound, ChatTypeOK, AnswersFollowQuestions
  <2> QED BY <1>2, <1>3, <2>1, <2>3, <2>4 DEF ConversationsAreSound
<1>6. ASSUME cmd[c].pc = "channel_read", pc = "asked", Inserts(Question(c)), lost' = lost
      PROVE  TableInv'
  <2>1. PICK k : k = inserted'
    OBVIOUS
  <2>2. /\ k = inserted + 1 /\ inserted' \in Nat /\ k \notin DOMAIN rows
        /\ DOMAIN rows' = DOMAIN rows \cup {k} /\ rows'[k] = Question(c)
        /\ \A i \in DOMAIN rows : rows'[i] = rows[i] /\ i < k /\ i \in Nat
        /\ rows' = [i \in DOMAIN rows' |-> rows'[i]]
    BY <1>6, <2>1, InsertAdds
  <2>3. \A i \in DOMAIN rows : rows[i].thread # c
    BY <1>6, <1>b DEF ThreadsHold
  <2>4. ThreadsHold'
    BY <1>2, <1>6, <1>a, <1>b, <2>2, <2>3 DEF ThreadsHold
  <2>5. ChatTypeOK'
    BY <1>4, <1>6, <1>a, <2>1, <2>2 DEF ChatTypeOK
  <2>6. AnswersFollowQuestions'
    <3> SUFFICES ASSUME NEW i \in DOMAIN rows'
                 PROVE  /\ \A j \in DOMAIN rows' : rows'[i] = rows'[j] => i = j
                        /\ rows'[i].role = "assistant" =>
                             \/ rows'[i].thread \in lost'
                             \/ \E j \in DOMAIN rows' : j < i /\ rows'[j] = [thread |-> rows'[i].thread, role |-> "user"]
      BY DEF AnswersFollowQuestions
    <3>1. CASE i \in DOMAIN rows
      <4>1. \A j \in DOMAIN rows' : rows'[i] = rows'[j] => i = j
        BY <1>a, <2>2, <2>3, <3>1 DEF ConversationsAreSound, AnswersFollowQuestions
      <4>2. rows[i].role = "assistant" =>
              \/ rows[i].thread \in lost
              \/ \E j \in DOMAIN rows : j < i /\ rows[j] = [thread |-> rows[i].thread, role |-> "user"]
        BY <3>1 DEF ConversationsAreSound, AnswersFollowQuestions
      <4> QED BY <1>6, <2>2, <3>1, <4>1, <4>2
    <3>2. CASE i = k
      BY <1>a, <2>2, <2>3, <3>2
    <3> QED BY <2>2, <3>1, <3>2
  <2> QED BY <1>2, <1>3, <2>2, <2>4, <2>5, <2>6 DEF ConversationsAreSound
<1>7. ASSUME cmd[c].pc = "generated", pc = "answered", NotStored, lost' = lost
      PROVE  TableInv'
  <2>1. UNCHANGED <<rows, inserted>>
    BY <1>7 DEF NotStored
  <2>3. ThreadsHold'
    BY <1>2, <1>7, <1>b, <2>1 DEF ThreadsHold
  <2>4. ChatTypeOK' /\ AnswersFollowQuestions'
    BY <1>4, <1>7, <2>1 DEF ConversationsAreSound, ChatTypeOK, AnswersFollowQuestions
  <2> QED BY <1>2, <1>3, <2>1, <2>3, <2>4 DEF ConversationsAreSound
<1>8. ASSUME cmd[c].pc = "generated", pc = "answered", Inserts(Answer(c)), lost' = lost
      PROVE  TableInv'
  <2>1. PICK k : k = inserted'
    OBVIOUS
  <2>2. /\ k = inserted + 1 /\ inserted' \in Nat /\ k \notin DOMAIN rows
        /\ DOMAIN rows' = DOMAIN rows \cup {k} /\ rows'[k] = Answer(c)
        /\ \A i \in DOMAIN rows : rows'[i] = rows[i] /\ i < k /\ i \in Nat
        /\ rows' = [i \in DOMAIN rows' |-> rows'[i]]
    BY <1>8, <2>1, InsertAdds
  <2>3. /\ \A i \in DOMAIN rows : rows[i] # Answer(c)
        /\ c \in lost \/ \E i \in DOMAIN rows : rows[i] = Question(c)
    BY <1>8, <1>b DEF ThreadsHold
  <2>4. ThreadsHold'
    BY <1>2, <1>8, <1>a, <1>b, <2>2 DEF ThreadsHold
  <2>5. ChatTypeOK'
    BY <1>4, <1>8, <1>a, <2>1, <2>2 DEF ChatTypeOK
  <2>6. AnswersFollowQuestions'
    <3> SUFFICES ASSUME NEW i \in DOMAIN rows'
                 PROVE  /\ \A j \in DOMAIN rows' : rows'[i] = rows'[j] => i = j
                        /\ rows'[i].role = "assistant" =>
                             \/ rows'[i].thread \in lost'
                             \/ \E j \in DOMAIN rows' : j < i /\ rows'[j] = [thread |-> rows'[i].thread, role |-> "user"]
      BY DEF AnswersFollowQuestions
    <3>1. CASE i \in DOMAIN rows
      <4>1. \A j \in DOMAIN rows' : rows'[i] = rows'[j] => i = j
        BY <2>2, <2>3, <3>1 DEF ConversationsAreSound, AnswersFollowQuestions
      <4>2. rows[i].role = "assistant" =>
              \/ rows[i].thread \in lost
              \/ \E j \in DOMAIN rows : j < i /\ rows[j] = [thread |-> rows[i].thread, role |-> "user"]
        BY <3>1 DEF ConversationsAreSound, AnswersFollowQuestions
      <4> QED BY <1>8, <2>2, <3>1, <4>1, <4>2
    <3>2. CASE i = k
      <4>1. \A j \in DOMAIN rows' : rows'[i] = rows'[j] => i = j
        BY <2>2, <2>3, <3>2
      <4>2. rows'[i].thread = c
        BY <1>a, <2>2, <3>2
      <4>3. CASE c \in lost
        BY <1>8, <4>1, <4>2, <4>3
      <4>4. ASSUME NEW j \in DOMAIN rows, rows[j] = Question(c)
            PROVE  j \in DOMAIN rows' /\ j < i /\ rows'[j] = [thread |-> c, role |-> "user"]
        BY <2>2, <3>2, <4>4 DEF Question
      <4> QED BY <2>3, <4>1, <4>2, <4>3, <4>4
    <3> QED BY <2>2, <3>1, <3>2
  <2> QED BY <1>2, <1>3, <2>2, <2>4, <2>5, <2>6 DEF ConversationsAreSound
<1> QED BY <1>5, <1>6, <1>7, <1>8

LEMMA DeletesKeep ==
  ASSUME TableInv, NEW some, Deletes(some)
  PROVE  TableInv'
<1> USE DEF TableInv
<1>1. /\ rows' = [i \in DOMAIN rows \ some |-> rows[i]]
      /\ lost' = lost \union {rows[i].thread : i \in {j \in DOMAIN rows \cap some : rows[j].role = "user"}}
      /\ deletes' = deletes + 1 /\ deletes < MaxDeletes /\ UNCHANGED <<cmd, inserted>>
  BY DEF Deletes
<1>2. DOMAIN rows' = DOMAIN rows \ some /\ \A i \in DOMAIN rows' : i \in DOMAIN rows /\ rows'[i] = rows[i]
  BY <1>1
<1>3. rows \in [DOMAIN rows -> Row] /\ DOMAIN rows \subseteq 1 .. inserted /\ lost \subseteq Commands
      /\ deletes \in Nat /\ MaxDeletes \in Nat
  BY ChatAssumption DEF ConversationsAreSound, ChatTypeOK
<1>4. \A i \in DOMAIN rows : rows[i].thread \in Commands
  BY <1>3 DEF Row
<1>5. lost \subseteq lost' /\ lost' \subseteq Commands
  BY <1>1, <1>3, <1>4
<1>6. \A i \in DOMAIN rows : rows[i].role = "user" => i \in DOMAIN rows' \/ rows[i].thread \in lost'
  BY <1>1, <1>2
<1>7. ChatTypeOK'
  BY <1>1, <1>2, <1>3, <1>5 DEF ChatTypeOK
<1>8. ThreadsHold'
  BY <1>1, <1>2, <1>5, <1>6 DEF ThreadsHold, Question
<1>9. AnswersFollowQuestions'
  <2> SUFFICES ASSUME NEW i \in DOMAIN rows'
               PROVE  /\ \A j \in DOMAIN rows' : rows'[i] = rows'[j] => i = j
                      /\ rows'[i].role = "assistant" =>
                           \/ rows'[i].thread \in lost'
                           \/ \E j \in DOMAIN rows' : j < i /\ rows'[j] = [thread |-> rows'[i].thread, role |-> "user"]
    BY DEF AnswersFollowQuestions
  <2>1. i \in DOMAIN rows /\ rows'[i] = rows[i]
    BY <1>2
  <2>2. rows[i].role = "assistant" =>
          \/ rows[i].thread \in lost
          \/ \E j \in DOMAIN rows : j < i /\ rows[j] = [thread |-> rows[i].thread, role |-> "user"]
    BY <2>1 DEF ConversationsAreSound, AnswersFollowQuestions
  <2>3. \A j \in DOMAIN rows' : rows'[i] = rows'[j] => i = j
    BY <1>2, <2>1 DEF ConversationsAreSound, AnswersFollowQuestions
  <2> QED BY <1>2, <1>5, <1>6, <2>1, <2>2, <2>3
<1>10. ContextIsOlder' /\ CommandsHold'
  BY <1>1 DEF ConversationsAreSound, ContextIsOlder, CommandsHold
<1> QED BY <1>1, <1>7, <1>8, <1>9, <1>10 DEF ConversationsAreSound

\* The steps of a command that store nothing.
LEMMA GoesTurns ==
  ASSUME CommandsHold, NEW c \in Commands, NEW pc \in Pcs, GoesTo(c, pc), QuietTable,
         pc \in Early => cmd[c].pc \in Early, pc \notin Asking
  PROVE  Turns(c)
<1>1. Moved(c) /\ cmd'[c] = [cmd[c] EXCEPT !.pc = pc]
  BY GoesToMoves
<1>2. cmd'[c].pc = pc /\ cmd'[c].ctx = cmd[c].ctx
  BY <1>1 DEF CommandsHold, CommandRow
<1> QED BY <1>1, <1>2 DEF Turns

LEMMA NoticeTurns ==
  ASSUME CommandsHold, NEW c \in Commands, _queue_channel_notice(c), QuietTable
  PROVE  Turns(c)
  BY NoticeMoves DEF Turns, Early, Asking, Pcs

LEMMA FinalizeTurns ==
  ASSUME CommandsHold, NEW c \in Commands, _finalize_persona_context(c), QuietTable
  PROVE  Turns(c)
  BY FinalizeMoves DEF Turns, Early, Asking, Pcs

\* The steps of a command that go on to done or ack.
LEMMA EndTurns ==
  ASSUME CommandsHold, NEW c \in Commands, NEW pc \in {"done", "ack"}, NEW no \in Nat, NEW text \in AnyText,
         cmd' = [cmd EXCEPT ![c] = [cmd[c] EXCEPT !.pc = pc, !.no = no, !.text = text]], QuietTable
  PROVE  Turns(c)
<1>1. cmd[c] \in CommandRow /\ pc \in Pcs
  BY DEF CommandsHold, Pcs
<1>2. [cmd[c] EXCEPT !.pc = pc, !.no = no, !.text = text] \in CommandRow
  BY <1>1 DEF CommandRow
<1>3. Moved(c)
  BY <1>2 DEF Moved
<1>4. cmd'[c].pc = pc /\ cmd'[c].ctx = cmd[c].ctx
  BY <1>1 DEF CommandsHold, CommandRow
<1> QED BY <1>3, <1>4 DEF Turns, Early, Asking

LEMMA DeliverSummaryTurns ==
  ASSUME CommandsHold, NEW c \in Commands, deliver_summary(c)
  PROVE  Turns(c)
<1>1. PICK no \in Nat : no = cmd[c].no + 2
  BY DEF CommandsHold, CommandRow
<1>2. cmd' = [cmd EXCEPT ![c] = [cmd[c] EXCEPT !.pc = "done", !.no = no, !.text = <<>>]]
  BY <1>1 DEF deliver_summary
<1> QED BY <1>2, EndTurns DEF deliver_summary, AnyText

LEMMA DeliverPersonaTurns ==
  ASSUME CommandsHold, NEW c \in Commands, deliver_persona_response(c)
  PROVE  Turns(c)
<1>1. CASE cmd[c].text = <<>>
  BY <1>1, FinalizeTurns DEF deliver_persona_response
<1>2. CASE cmd[c].text # <<>>
  <2>1. PICK no \in Nat : no = cmd[c].no + 1
    BY DEF CommandsHold, CommandRow
  <2>2. cmd' = [cmd EXCEPT ![c] = [cmd[c] EXCEPT !.pc = "ack", !.no = no, !.text = <<>>]]
    BY <1>2, <2>1 DEF deliver_persona_response
  <2> QED BY <2>2, EndTurns DEF deliver_persona_response, AnyText
<1> QED BY <1>1, <1>2

LEMMA SendTurns ==
  ASSUME CommandsHold, NEW c \in Commands, send_channel_message(c)
  PROVE  Turns(c)
<1>1. PICK no \in Nat : no = cmd[c].no + 1
  BY DEF CommandsHold, CommandRow
<1>2. cmd' = [cmd EXCEPT ![c] = [cmd[c] EXCEPT !.pc = "done", !.no = no]]
  BY <1>1 DEF send_channel_message
<1>3. [cmd[c] EXCEPT !.pc = "done", !.no = no] = [cmd[c] EXCEPT !.pc = "done", !.no = no, !.text = cmd[c].text]
  BY DEF CommandsHold, CommandRow
<1>4. cmd[c].text \in AnyText
  BY DEF CommandsHold, CommandRow
<1>5. cmd' = [cmd EXCEPT ![c] = [cmd[c] EXCEPT !.pc = "done", !.no = no, !.text = cmd[c].text]]
  BY <1>2, <1>3
<1> QED BY <1>4, <1>5, EndTurns DEF send_channel_message

LEMMA GiveTurns ==
  ASSUME CommandsHold, NEW c \in Commands, NEW kind \in Kinds, Give(c, kind)
  PROVE  Turns(c)
<1>1. kind \in Pcs /\ kind \notin Asking /\ GoesTo(c, kind) /\ QuietTable /\ cmd[c].pc = "new"
  BY ChatAssumption DEF Pcs, Asking, Give, In
<1>2. cmd[c].pc \in Early
  BY <1>1 DEF Early, Pcs
<1> QED BY <1>1, <1>2, GoesTurns

\* A step of command c keeps the table of conversations sound.
LEMMA CommandKeepsTable ==
  ASSUME TableInv, NEW c \in Commands, CommandStep(c)
  PROVE  TableInv'
<1> USE DEF TableInv
<1>0. /\ {"history", "summary", "parsed", "persona_found", "context", "channel_read",
          "summarized"} \subseteq Early
      /\ {"summarize", "persona"} \subseteq Early
      /\ Early \subseteq Pcs /\ Early \cap Asking = {} /\ "answered" \in Pcs \ (Early \cup Asking)
      /\ {"asked", "generated"} \subseteq Pcs \ Early
  BY DEF Early, Asking, Pcs
<1>1. CASE Operation(c)
  <2>1. _queue_channel_notice(c) /\ QuietTable
    BY <1>1 DEF Operation, _handle_rpc_command, _handle_register_command, _handle_credits_command,
       _handle_guildcredits_command
  <2> QED BY <2>1, NoticeTurns, TurnsKeep
<1>2. CASE _handle_summarize_command(c)
  <2>1. /\ cmd[c].pc = "summarize" /\ QuietTable
        /\ _queue_channel_notice(c) \/ GoesTo(c, "history")
    BY <1>2 DEF _handle_summarize_command, In
  <2> QED BY <1>0, <2>1, NoticeTurns, GoesTurns, TurnsKeep
<1>3. CASE summarize_channel(c)
  <2>1. /\ cmd[c].pc = "history" /\ QuietTable
        /\ _queue_channel_notice(c) \/ GoesTo(c, "summary")
    BY <1>3 DEF summarize_channel, fetch_channel_history_backwards, In
  <2> QED BY <1>0, <2>1, NoticeTurns, GoesTurns, TurnsKeep
<1>4. CASE summarize_chat(c)
  <2>1. PICK text \in generate_chat : cmd' = [cmd EXCEPT ![c].pc = "summarized", ![c].text = text]
    BY <1>4 DEF summarize_chat
  <2>2. cmd[c].pc = "summary" /\ QuietTable /\ QuietOutput /\ FaultsCount
    BY <1>4 DEF summarize_chat, In, FaultsCount
  <2>3. Acts(c) /\ cmd'[c].pc = "summarized" /\ (cmd'[c].ctx = {} \/ cmd'[c].ctx = cmd[c].ctx)
    BY <1>0, <2>1, <2>2, TextActs DEF Pcs
  <2>4. Turns(c)
    BY <1>0, <2>2, <2>3 DEF Acts, Turns
  <2> QED BY <2>4, TurnsKeep
<1>5. CASE deliver_summary(c)
  BY <1>5, DeliverSummaryTurns, TurnsKeep
<1>6. CASE _handle_persona_command(c)
  <2>1. /\ cmd[c].pc = "persona" /\ QuietTable
        /\ _queue_channel_notice(c) \/ GoesTo(c, "parsed")
    BY <1>6 DEF _handle_persona_command, In
  <2> QED BY <1>0, <2>1, NoticeTurns, GoesTurns, TurnsKeep
<1>7. CASE _persona_fetch_persona(c)
  <2>1. /\ cmd[c].pc = "parsed" /\ QuietTable
        /\ GoesTo(c, "persona_found") \/ _finalize_persona_context(c)
    BY <1>7 DEF _persona_fetch_persona, get_persona, In
  <2> QED BY <1>0, <2>1, FinalizeTurns, GoesTurns, TurnsKeep
<1>8. CASE _persona_fetch_conversation(c)
  <2>1. cmd[c].pc = "persona_found" /\ QuietTable /\ QuietOutput /\ get_channel_context(c)
    BY <1>8 DEF _persona_fetch_conversation, In
  <2>2. Acts(c) /\ cmd'[c].pc = "context"
        /\ (cmd'[c].ctx = cmd[c].ctx \/ cmd'[c].ctx = list_channel_messages_v1)
    BY <2>1, ReadActs DEF ConversationsAreSound
  <2>3. Turns(c)
    BY <1>0, <2>1, <2>2 DEF Acts, Turns
  <2> QED BY <2>3, TurnsKeep
<1>9. CASE _persona_fetch_channel_history(c)
  <2>1. /\ cmd[c].pc = "context" /\ QuietTable
        /\ GoesTo(c, "channel_read") \/ _finalize_persona_context(c)
    BY <1>9 DEF _persona_fetch_channel_history, get_channel_history,
       fetch_channel_history_backwards, In
  <2> QED BY <1>0, <2>1, FinalizeTurns, GoesTurns, TurnsKeep
<1>10. CASE _persona_insert_conversation_input(c)
  <2>1. CASE _finalize_persona_context(c) /\ QuietTable
    BY <2>1, FinalizeTurns, TurnsKeep
  <2>2. CASE /\ GoesTo(c, "asked") /\ UNCHANGED deletes
             /\ log_message(c, "user")
             /\ lost' = IF inserted' = inserted THEN lost \union {c} ELSE lost
    <3>1. cmd[c].pc = "channel_read"
      BY <1>10 DEF _persona_insert_conversation_input, In
    <3>2. CASE NotStored
      <4>1. lost' = lost \cup {c}
        BY <2>2, <3>2 DEF NotStored
      <4> QED BY <1>0, <2>2, <3>1, <3>2, <4>1, StoresKeep
    <3>3. CASE Inserts(Question(c))
      <4>1. inserted' # inserted
        BY <3>3 DEF Inserts
      <4>2. lost' = lost
        BY <2>2, <4>1
      <4> QED BY <1>0, <2>2, <3>1, <3>3, <4>2, StoresKeep
    <3> QED BY <2>2, <3>2, <3>3 DEF log_message, insert_message_v1, Question
  <2> QED BY <1>10, <2>1, <2>2 DEF _persona_insert_conversation_input
<1>11. CASE generate_persona_response(c)
  <2>1. cmd[c].pc = "asked" /\ QuietTable /\ QuietOutput /\ FaultsCount
    BY <1>11 DEF generate_persona_response, In, FaultsCount
  <2>2. CASE _finalize_persona_context(c)
    BY <2>1, <2>2, FinalizeTurns, TurnsKeep
  <2>3. CASE \E text \in generate_chat :
               cmd' = [cmd EXCEPT ![c].pc = "generated", ![c].text = text, ![c].ctx = {}]
    <3>a. "generated" \in Pcs
      BY <1>0
    <3>b. PICK text \in generate_chat :
            cmd' = [cmd EXCEPT ![c].pc = "generated", ![c].text = text, ![c].ctx = {}]
      BY <2>3
    <3>1. Acts(c) /\ cmd'[c].pc = "generated" /\ (cmd'[c].ctx = {} \/ cmd'[c].ctx = cmd[c].ctx)
      BY <2>1, <3>a, <3>b, TextActs
    <3>2. Turns(c)
      BY <1>0, <2>1, <3>1 DEF Acts, Turns, Asking
    <3> QED BY <3>2, TurnsKeep
  <2> QED BY <1>11, <2>2, <2>3 DEF generate_persona_response
<1>12. CASE _persona_generate_response(c)
  <2>1. /\ cmd[c].pc = "generated" /\ GoesTo(c, "answered") /\ UNCHANGED <<lost, deletes>>
        /\ Inserts(Answer(c)) \/ NotStored
    BY <1>12 DEF _persona_generate_response, log_message, insert_message_v1, Answer, In
  <2> QED BY <1>0, <2>1, StoresKeep
<1>13. CASE deliver_persona_response(c)
  BY <1>13, DeliverPersonaTurns, TurnsKeep
<1>14. CASE send_channel_message(c)
  BY <1>14, SendTurns, TurnsKeep
<1> QED BY <1>1, <1>2, <1>3, <1>4, <1>5, <1>6, <1>7, <1>8, <1>9, <1>10, <1>11, <1>12, <1>13, <1>14
        DEF CommandStep

LEMMA TableStarts == ChatInit => TableInv
<1> SUFFICES ASSUME ChatInit PROVE TableInv
  OBVIOUS
<1>1. DOMAIN rows = {} /\ rows = [i \in DOMAIN rows |-> rows[i]]
  BY DEF ChatInit
<1>2. Fresh \in CommandRow /\ Fresh.ctx = {} /\ Fresh.pc \notin Asking
  BY DEF Fresh, CommandRow, Pcs, AnyText, Asking
<1>3. 0 \in 0 .. MaxDeletes
  BY ChatAssumption
<1> QED BY <1>1, <1>2, <1>3 DEF ChatInit, TableInv, CommandsHold, ConversationsAreSound, ChatTypeOK,
     AnswersFollowQuestions, ContextIsOlder, ThreadsHold

-----------------------------------------------------------------------------
(* The whole                                                               *)

\* Who has given a command found the modules that answer it, and whose command is
\* over hears of it.
AnswersHold ==
  /\ \A c \in Commands : cmd[c].pc # "new" => "social_input" \in loaded
  /\ AnswersAreTried

DiscordInv == StartupInv /\ QueueInv /\ TableInv /\ AnswersHold

LEMMA DiscordInvStarts == ChatInit => DiscordInv
<1> SUFFICES ASSUME ChatInit PROVE DiscordInv
  OBVIOUS
<1>1. \A c \in Commands : cmd[c].pc = "new"
  BY DEF ChatInit, Fresh
<1>2. AnswersHold
  BY <1>1 DEF AnswersHold, AnswersAreTried, In
<1> QED BY <1>2, StartupInvStarts, QueueStarts, TableStarts DEF ChatInit, DiscordInv

\* Whatever is served or started had no module shut down before.
LEMMA PhasesGoOn ==
  ASSUME StartupInv, [ChatNext]_discordVars
  PROVE  /\ phase' \in {"starting", "serving"} => phase \in {"starting", "serving"}
         /\ loaded' = loaded
<1>1. CASE StartupStep
  BY <1>1 DEF StartupStep, Proceed, Started, StartRaises, StartedWithoutBot, AuthGivesUp, Serve, Exit
<1>2. CASE Stop
  BY <1>2 DEF Stop
<1>3. CASE \E m \in loaded : ShutDown(m)
  BY <1>3 DEF ShutDown
<1>4. CASE UNCHANGED startupVars
  BY <1>4 DEF startupVars
<1> QED BY <1>1, <1>2, <1>3, <1>4, StartupsGo

\* A step of the rest of the system.
LEMMA OthersAnswer ==
  ASSUME DiscordInv, [ChatNext]_discordVars, KeepsQueue, UNCHANGED cmd
  PROVE  AnswersHold'
  BY PhasesGoOn DEF DiscordInv, AnswersHold, AnswersAreTried, In, KeepsQueue, Tried

\* A step of a command.
LEMMA CommandAnswers ==
  ASSUME DiscordInv, [ChatNext]_discordVars, NEW c \in Commands, KeepsQueue, Moved(c), UNCHANGED startupVars,
         cmd[c].pc = "new" => "social_input" \in loaded,
         cmd'[c].pc = "done" /\ OutputThere => Tried(c)'
  PROVE  AnswersHold'
<1>1. \A d \in Commands \ {c} : cmd'[d] = cmd[d]
  BY DEF Moved, DiscordInv, TableInv, CommandsHold
<1>2. "social_input" \in loaded
  BY DEF DiscordInv, AnswersHold
<1>3. loaded' = loaded /\ phase' = phase
  BY DEF startupVars
<1>4. phase \in {"starting", "serving"} => OutputThere
  <2>1. "discord_output" \in loaded
    BY <1>2, ChatAssumption DEF DiscordInv, StartupInv, StartupTypeOK
  <2> QED BY <2>1 DEF OutputThere, DiscordInv, StartupInv, StartupsHold
<1>5. ASSUME phase \in {"starting", "serving"}, NEW d \in Commands, cmd'[d].pc = "done" PROVE Tried(d)'
  <2>1. CASE d = c
    BY <1>4, <1>5, <2>1
  <2>2. CASE d # c
    BY <1>1, <1>5, <2>2 DEF DiscordInv, AnswersHold, AnswersAreTried, In, KeepsQueue, Tried
  <2> QED BY <2>1, <2>2
<1>6. AnswersAreTried'
  BY <1>3, <1>5 DEF AnswersAreTried, In, Tried
<1> QED BY <1>2, <1>3, <1>6 DEF AnswersHold

LEMMA StillTable == ASSUME TableInv, UNCHANGED chatVars PROVE TableInv'
  BY DEF TableInv, chatVars, CommandsHold, ConversationsAreSound, ChatTypeOK,
     AnswersFollowQuestions, ContextIsOlder, ThreadsHold

LEMMA DiscordInvKept == DiscordInv /\ [ChatNext]_discordVars => DiscordInv'
<1> SUFFICES ASSUME DiscordInv, [ChatNext]_discordVars PROVE DiscordInv'
  OBVIOUS
<1>0. StartupInv /\ StartupTypeOK /\ QueueInv /\ TableInv /\ CommandsHold /\ ChatTypeOK /\ StartupInv'
  BY StartupInvKept DEF DiscordInv, StartupInv, TableInv, ConversationsAreSound
<1>1. ASSUME KeepsQueue, UNCHANGED cmd, TableInv' PROVE DiscordInv'
  BY <1>0, <1>1, OthersAnswer DEF DiscordInv, KeepsQueue
<1>2. ASSUME NEW c \in Commands, Acts(c), UNCHANGED startupVars, TableInv',
             cmd[c].pc = "new" => "social_input" \in loaded
      PROVE  DiscordInv'
  <2>1. KeepsQueue /\ (cmd'[c].pc = "done" /\ OutputThere => Tried(c)')
    BY <1>0, <1>2, ActsKeeps
  <2>2. AnswersHold'
    BY <1>2, <2>1, CommandAnswers DEF Acts
  <2> QED BY <1>0, <1>2, <2>1, <2>2 DEF DiscordInv, KeepsQueue
<1>3. ASSUME UNCHANGED <<outputVars, chatVars>> PROVE DiscordInv'
  <2>1. QuietOutput /\ NoFault
    BY <1>3 DEF outputVars, QuietOutput, NoFault
  <2>2. UNCHANGED cmd
    BY <1>3 DEF chatVars
  <2> QED BY <1>0, <1>1, <1>3, <2>1, <2>2, StillKeeps, StillTable DEF FaultsCount
<1>4. CASE Serving \/ Stopping
  BY <1>3, <1>4 DEF Serving, Stopping
<1>5. ASSUME NEW m \in loaded, ShuttingDown(m) PROVE DiscordInv'
  <2>1. CASE m = "discord_output"
    <3>1. CancelWorker /\ UNCHANGED chatVars
      BY <1>5, <2>1 DEF ShuttingDown
    <3>2. UNCHANGED cmd
      BY <3>1 DEF chatVars
    <3> QED BY <1>0, <1>1, <3>1, <3>2, CancelKeeps, StillTable
  <2>2. CASE m # "discord_output"
    BY <1>3, <1>5, <2>2 DEF ShuttingDown
  <2> QED BY <2>1, <2>2
<1>6. ASSUME NEW s \in Senders, Sending(s) PROVE DiscordInv'
  <2>1. SendStep(s) /\ UNCHANGED chatVars
    BY <1>6 DEF Sending
  <2>2. UNCHANGED cmd
    BY <2>1 DEF chatVars
  <2> QED BY <1>0, <1>1, <2>1, <2>2, SendStepKeeps, StillTable
<1>7. CASE WorkingQueue
  <2>1. WorkerGet /\ UNCHANGED chatVars
    BY <1>7 DEF WorkingQueue
  <2>2. UNCHANGED cmd
    BY <2>1 DEF chatVars
  <2> QED BY <1>0, <1>1, <2>1, <2>2, WorkerGetKeeps, StillTable
<1>8. ASSUME NEW c \in Commands, NEW kind \in Kinds, Give(c, kind) PROVE DiscordInv'
  <2>1. UNCHANGED startupVars /\ Registered
    BY <1>8 DEF Give, QuietStartup
  <2>2. "social_input" \in loaded
    BY <1>0, <2>1 DEF Registered, StartupTypeOK
  <2>3. Acts(c) /\ TableInv'
    BY <1>0, <1>8, GiveActs, GiveTurns, TurnsKeep
  <2> QED BY <1>2, <2>1, <2>2, <2>3
<1>9. ASSUME NEW c \in Commands, CommandStep(c) PROVE DiscordInv'
  <2>1. UNCHANGED startupVars
    BY <1>9, CommandKeepsStartup
  <2>2. cmd[c].pc # "new"
    BY <1>9 DEF CommandStep, Operation, _handle_rpc_command, _handle_register_command,
       _handle_credits_command, _handle_guildcredits_command, _handle_summarize_command,
       summarize_channel, summarize_chat, deliver_summary, _handle_persona_command,
       _persona_fetch_persona, _persona_fetch_conversation, _persona_fetch_channel_history,
       _persona_insert_conversation_input, generate_persona_response, _persona_generate_response,
       deliver_persona_response, send_channel_message, In
  <2>3. Acts(c) /\ TableInv'
    BY <1>0, <1>9, CommandActs, CommandKeepsTable
  <2> QED BY <1>2, <2>1, <2>2, <2>3
<1>10. ASSUME NEW some, Deletes(some) PROVE DiscordInv'
  <2>1. QuietOutput /\ NoFault /\ UNCHANGED cmd
    BY <1>10 DEF Deletes
  <2> QED BY <1>0, <1>1, <1>10, <2>1, StillKeeps, DeletesKeep DEF FaultsCount
<1>11. CASE UNCHANGED discordVars
  BY <1>3, <1>11 DEF discordVars
<1> QED BY <1>4, <1>5, <1>6, <1>7, <1>8, <1>9, <1>10, <1>11
        DEF ChatNext, delete_conversation_thread, delete_conversations_before

LEMMA DiscordInvHolds == ChatSpec => []DiscordInv
  BY DiscordInvStarts, DiscordInvKept, PTL DEF ChatSpec

\* However messages are queued and sent directly, fail or are cancelled, the lock is
\* held by somebody who sends, and a drain waits for exactly the messages that are
\* not over (discord_output_module.py _queue_worker, wait_for_drain).
THEOREM QueueStaysSound == ChatSpec => []QueueIsSound
<1>1. DiscordInv => QueueIsSound
  BY DEF DiscordInv, QueueInv
<1> QED BY <1>1, DiscordInvHolds, PTL

\* However the commands of the users overlap, fail or have their threads deleted, an
\* answer in the table follows the question of its thread, each at most once, and a
\* question is sent with nothing of its own thread (discord_chat_module.py
\* handle_persona_command).
THEOREM ConversationsStaySound == ChatSpec => []ConversationsAreSound
<1>1. DiscordInv => ConversationsAreSound
  BY DEF DiscordInv, TableInv
<1> QED BY <1>1, DiscordInvHolds, PTL

\* Whatever fails while the server starts or serves, the user of a command that is
\* over has a message of it on the way, delivered or at least tried
\* (discord_chat_module.py; discord_output_module.py queue_channel_message).
THEOREM AnswersStayTried == ChatSpec => []AnswersAreTried
<1>1. DiscordInv => AnswersAreTried
  BY DEF DiscordInv, AnswersHold
<1> QED BY <1>1, DiscordInvHolds, PTL

-----------------------------------------------------------------------------
(* The chunks of a message                                                 *)

\* The number of message m was given out.
Made(m, commands) == m.no < commands[m.by].no

\* A chunk of message m was sent.
Begun(m, chunks) == \E i \in 1 .. Len(chunks) : chunks[i].msg = m

\* No message is at two places, and only the holder of the lock has begun to send.
MessagesApart ==
  /\ \A i \in 1 .. Len(queue) : Made(queue[i], cmd) /\ ~Begun(queue[i], sent)
  /\ \A i, j \in 1 .. Len(queue) : queue[i] = queue[j] => i = j
  /\ \A s \in Senders : sending[s] # Nothing =>
       /\ Made(sending[s].msg, cmd)
       /\ \A i \in 1 .. Len(queue) : sending[s].msg # queue[i]
       /\ \A t \in Senders : sending[t] # Nothing /\ sending[s].msg = sending[t].msg => s = t
       /\ s # lock => ~Begun(sending[s].msg, sent)

\* What the holder of the lock has sent of its message are the last chunks.
ChunksInTurn ==
  /\ \E C : sent \in Seq([msg : Messages, chunk : C])
  /\ \A i \in 1 .. Len(sent) : Made(sent[i].msg, cmd)
  /\ lock # "free" =>
       \A i, j \in 1 .. Len(sent) :
         i < j /\ sent[i].msg = sending[lock].msg => sent[j].msg = sending[lock].msg
  /\ ChunksStayTogether

ChunksInv == MessagesApart /\ ChunksInTurn

\* Numbers are given out once.
NumbersGoOn ==
  \A c \in Commands : cmd[c].no \in Nat /\ cmd'[c].no \in Nat /\ cmd'[c].no >= cmd[c].no

LEMMA MadeStays ==
  ASSUME NumbersGoOn, NEW m \in Messages, Made(m, cmd)
  PROVE  Made(m, cmd')
<1>1. m.by \in Commands /\ m.no \in Nat
  BY DEF Messages
<1>2. cmd[m.by].no \in Nat /\ cmd'[m.by].no \in Nat /\ cmd'[m.by].no >= cmd[m.by].no
  BY <1>1 DEF NumbersGoOn
<1> QED BY <1>1, <1>2 DEF Made

LEMMA NewIsNew ==
  ASSUME CommandsHold, NEW m \in Messages, Made(m, cmd), NEW n \in Messages, n.no >= cmd[n.by].no
  PROVE  m # n
<1>1. m.by \in Commands /\ m.no \in Nat /\ cmd[m.by].no \in Nat
  BY DEF Messages, CommandsHold, CommandRow
<1> QED BY <1>1 DEF Made

\* What was sent are messages.
LEMMA SentAre ==
  ASSUME ChunksInTurn
  PROVE  /\ Len(sent) \in Nat /\ DOMAIN sent = 1 .. Len(sent)
         /\ \A i \in 1 .. Len(sent) : sent[i].msg \in Messages
<1>1. PICK C : sent \in Seq([msg : Messages, chunk : C])
  BY DEF ChunksInTurn
<1>2. Len(sent) \in Nat /\ DOMAIN sent = 1 .. Len(sent)
  BY <1>1, LenProperties
<1>3. \A i \in 1 .. Len(sent) : sent[i] \in [msg : Messages, chunk : C]
  BY <1>1, <1>2, ElementOfSeq
<1> QED BY <1>2, <1>3

\* A step that sends no chunk.
LEMMA InTurnStays ==
  ASSUME ChunksInTurn, NumbersGoOn, UNCHANGED sent,
         lock' # "free" => lock' = lock /\ (sending'[lock].msg = sending[lock].msg \/ ~Begun(sending'[lock].msg, sent))
  PROVE  ChunksInTurn'
<1>1. \A i \in 1 .. Len(sent) : Made(sent[i].msg, cmd')
  BY SentAre, MadeStays DEF ChunksInTurn
<1>2. ASSUME lock' # "free", NEW i \in 1 .. Len(sent), NEW j \in 1 .. Len(sent), i < j,
             sent[i].msg = sending'[lock'].msg
      PROVE  sent[j].msg = sending'[lock'].msg
  <2>1. lock' = lock
    BY <1>2
  <2>2. sending'[lock].msg = sending[lock].msg
    BY <1>2, <2>1 DEF Begun
  <2> QED BY <1>2, <2>1, <2>2 DEF ChunksInTurn
<1>3. \E C : sent' \in Seq([msg : Messages, chunk : C])
  BY DEF ChunksInTurn
<1>4. ChunksStayTogether'
  BY DEF ChunksInTurn, ChunksStayTogether
<1> QED BY <1>1, <1>2, <1>3, <1>4 DEF ChunksInTurn

LEMMA SpeaksApart ==
  ASSUME CommandsHold, QueueInv, ChunksInv, NumbersGoOn, NEW c \in Commands, Speaks(c)
  PROVE  ChunksInv'
<1> USE DEF ChunksInv
<1>1. PICK msgs \in Seq(Messages) : /\ \A i \in 1 .. Len(msgs) : msgs[i].by = c
                                    /\ \A i \in 1 .. Len(msgs) : msgs[i].no = cmd[c].no + i - 1
                                    /\ cmd'[c].no = cmd[c].no + Len(msgs)
                                    /\ Queued(msgs)
  BY DEF Speaks
<1>2. UNCHANGED <<sending, lock, sent, delivered, dropped>>
  BY DEF Speaks
<1>3. ChunksInTurn'
  BY <1>2, InTurnStays
<1>4. /\ \A s \in Senders : sending[s] # Nothing => sending[s].msg \in Messages
      /\ Len(queue) \in Nat /\ \A i \in 1 .. Len(queue) : queue[i] \in Messages
  BY DEF QueueInv
<1>5. \A m : Begun(m, sent') <=> Begun(m, sent)
  BY <1>2 DEF Begun
<1>6. CASE queue' = queue
  <2>1. \A i \in 1 .. Len(queue) : Made(queue[i], cmd')
    BY <1>4, MadeStays DEF MessagesApart
  <2>3. \A s \in Senders : sending[s] # Nothing => Made(sending[s].msg, cmd')
    BY <1>4, MadeStays DEF MessagesApart
  <2>5. MessagesApart'
    BY <1>2, <1>6, <2>1, <2>3 DEF MessagesApart
  <2> QED BY <1>3, <2>5
<1>7. CASE queue' = queue \o msgs
  <2>0. cmd[c].no \in Nat /\ Len(msgs) \in Nat
    BY <1>1 DEF CommandsHold, CommandRow
  <2>1. /\ Len(queue') = Len(queue) + Len(msgs)
        /\ \A i \in 1 .. Len(queue) : queue'[i] = queue[i]
        /\ \A i \in 1 .. Len(msgs) : queue'[Len(queue) + i] = msgs[i]
    BY <1>1, <1>4, <1>7 DEF QueueInv
  <2>2. \A i \in 1 .. Len(queue') : i \in 1 .. Len(queue) \/ \E k \in 1 .. Len(msgs) : i = Len(queue) + k
    <3> TAKE i \in 1 .. Len(queue')
    <3>1. CASE i <= Len(queue)
      BY <1>4, <3>1
    <3>2. CASE i > Len(queue)
      <4>1. i - Len(queue) \in 1 .. Len(msgs) /\ i = Len(queue) + (i - Len(queue))
        BY <1>4, <2>0, <2>1, <3>2
      <4> QED BY <4>1
    <3> QED BY <1>4, <2>0, <2>1, <3>1, <3>2
  <2>3. \A k \in 1 .. Len(msgs) : /\ msgs[k] \in Messages /\ msgs[k].by = c /\ msgs[k].no = cmd[c].no + k - 1
                                  /\ msgs[k].no >= cmd[msgs[k].by].no
    BY <1>1, <2>0
  <2>4. \A k \in 1 .. Len(msgs) : Made(msgs[k], cmd')
    BY <1>1, <2>0, <2>3 DEF Made
  <2>5. \A k \in 1 .. Len(msgs) : \A m \in Messages : Made(m, cmd) => m # msgs[k]
    BY <2>3, NewIsNew
  <2>6. \A k \in 1 .. Len(msgs) : ~Begun(msgs[k], sent)
    BY <2>5, SentAre DEF Begun, ChunksInTurn
  <2>7. \A k, l \in 1 .. Len(msgs) : msgs[k] = msgs[l] => k = l
    <3> TAKE k, l \in 1 .. Len(msgs)
    <3> HAVE msgs[k] = msgs[l]
    <3>1. msgs[k].no = cmd[c].no + k - 1 /\ msgs[l].no = cmd[c].no + l - 1
      BY <2>3
    <3>2. PICK n \in Nat : n = cmd[c].no
      BY <2>0
    <3>3. n + k - 1 = n + l - 1
      BY <3>1, <3>2
    <3> QED BY <2>0, <3>3
  <2>8. \A i \in 1 .. Len(queue) : Made(queue[i], cmd')
    BY <1>4, MadeStays DEF MessagesApart
  <2>9. \A i \in 1 .. Len(queue') : Made(queue'[i], cmd') /\ ~Begun(queue'[i], sent)
    BY <2>1, <2>2, <2>4, <2>6, <2>8 DEF MessagesApart
  <2>10. \A i, j \in 1 .. Len(queue') : queue'[i] = queue'[j] => i = j
    <3> TAKE i, j \in 1 .. Len(queue')
    <3>1. CASE i \in 1 .. Len(queue) /\ j \in 1 .. Len(queue)
      BY <2>1, <3>1 DEF MessagesApart
    <3>2. CASE \E k, l \in 1 .. Len(msgs) : i = Len(queue) + k /\ j = Len(queue) + l
      BY <2>1, <2>7, <3>2
    <3>3. ASSUME NEW a \in 1 .. Len(queue), NEW k \in 1 .. Len(msgs)
          PROVE  queue'[a] # queue'[Len(queue) + k]
      BY <1>4, <2>1, <2>5 DEF MessagesApart
    <3> QED BY <2>2, <3>1, <3>2, <3>3
  <2>11. \A s \in Senders : sending[s] # Nothing => Made(sending[s].msg, cmd')
    BY <1>4, MadeStays DEF MessagesApart
  <2>12. \A s \in Senders : sending[s] # Nothing => \A i \in 1 .. Len(queue') : sending[s].msg # queue'[i]
    <3> SUFFICES ASSUME NEW s \in Senders, sending[s] # Nothing, NEW i \in 1 .. Len(queue')
                 PROVE  sending[s].msg # queue'[i]
      OBVIOUS
    <3>1. CASE i \in 1 .. Len(queue)
      BY <2>1, <3>1 DEF MessagesApart
    <3>2. ASSUME NEW k \in 1 .. Len(msgs), i = Len(queue) + k PROVE sending[s].msg # queue'[i]
      <4>1. sending[s].msg \in Messages /\ Made(sending[s].msg, cmd) /\ queue'[i] = msgs[k]
        BY <1>4, <2>1, <3>2 DEF MessagesApart
      <4> QED BY <2>5, <4>1
    <3> QED BY <2>2, <3>1, <3>2
  <2>15. MessagesApart'
    BY <1>2, <2>9, <2>10, <2>11, <2>12 DEF MessagesApart
  <2> QED BY <1>3, <2>15
<1> QED BY <1>1, <1>6, <1>7 DEF Queued

\* A step that neither queues nor takes up a message nor sends a chunk.
LEMMA StillApart ==
  ASSUME QueueInv, ChunksInv, NumbersGoOn, UNCHANGED <<queue, sending, lock, sent>>
  PROVE  ChunksInv'
<1> USE DEF ChunksInv
<1>1. ChunksInTurn'
  BY InTurnStays
<1>2. /\ \A s \in Senders : sending[s] # Nothing => sending[s].msg \in Messages
      /\ \A i \in 1 .. Len(queue) : queue[i] \in Messages
  BY DEF QueueInv
<1>3. \A i \in 1 .. Len(queue) : Made(queue[i], cmd')
  BY <1>2, MadeStays DEF MessagesApart
<1>4. \A s \in Senders : sending[s] # Nothing => Made(sending[s].msg, cmd')
  BY <1>2, MadeStays DEF MessagesApart
<1>5. MessagesApart'
  BY <1>3, <1>4 DEF MessagesApart
<1> QED BY <1>1, <1>5

\* Command c takes up a new message itself.
LEMMA SendsApart ==
  ASSUME CommandsHold, QueueInv, ChunksInv, NumbersGoOn, NEW c \in Commands, Sends(c)
  PROVE  ChunksInv'
<1>1. PICK msg \in Messages : msg.by = c /\ msg.no = cmd[c].no /\ TakeUp(c, msg, 0)
  BY DEF Sends
<1>2. UNCHANGED <<queue, lock, sent>> /\ cmd'[c].no = cmd[c].no + 1
  BY DEF Sends
<1>3. CASE UNCHANGED sending
  BY <1>2, <1>3, StillApart
<1>4. CASE sending' = [sending EXCEPT ![c] = [msg |-> msg, rest |-> Chunks[msg.text]]]
  <2> USE DEF ChunksInv
  <2>1. PICK new : new = [msg |-> msg, rest |-> Chunks[msg.text]]
    OBVIOUS
  <2>2. /\ DOMAIN sending = Senders /\ c \in Senders
        /\ \A s \in Senders : sending[s] # Nothing => sending[s].msg \in Messages
        /\ \A i \in 1 .. Len(queue) : queue[i] \in Messages
    BY SendersAre DEF QueueInv
  <2>3. sending'[c].msg = msg /\ \A s \in Senders \ {c} : sending'[s] = sending[s]
    BY <1>4, <2>1, <2>2
  <2>4. cmd[c].no \in Nat
    BY DEF CommandsHold, CommandRow
  <2>5. \A m \in Messages : Made(m, cmd) => m # msg
    BY <1>1, <2>4, NewIsNew
  <2>6. ~Begun(msg, sent)
    BY <2>5, SentAre DEF Begun, ChunksInTurn
  <2>7. Made(msg, cmd')
    BY <1>1, <1>2, <2>4 DEF Made
  <2>8. \A i \in 1 .. Len(queue) : Made(queue[i], cmd') /\ queue[i] # msg
    BY <2>2, <2>5, MadeStays DEF MessagesApart
  <2>9. \A s \in Senders : sending[s] # Nothing => Made(sending[s].msg, cmd') /\ sending[s].msg # msg
    BY <2>2, <2>5, MadeStays DEF MessagesApart
  <2>10. ChunksInTurn'
    <3>1. lock # "free" => sending'[lock].msg = sending[lock].msg \/ ~Begun(sending'[lock].msg, sent)
      <4>1. CASE lock = c
        BY <2>3, <2>6, <4>1
      <4>2. CASE lock # c
        BY <2>3, <4>2 DEF QueueInv, QueueIsSound, OutputTypeOK
      <4> QED BY <4>1, <4>2
    <3> QED BY <1>2, <3>1, InTurnStays
  <2>11. ASSUME NEW s \in Senders, sending'[s] # Nothing
         PROVE  /\ Made(sending'[s].msg, cmd')
                /\ \A i \in 1 .. Len(queue) : sending'[s].msg # queue[i]
                /\ \A t \in Senders : sending'[t] # Nothing /\ sending'[s].msg = sending'[t].msg => s = t
                /\ s # lock => ~Begun(sending'[s].msg, sent)
    <3>1. CASE s = c
      BY <2>3, <2>6, <2>7, <2>8, <2>9, <3>1
    <3>2. CASE s # c
      BY <2>3, <2>9, <2>11, <3>2 DEF MessagesApart
    <3> QED BY <3>1, <3>2
  <2>12. MessagesApart'
    BY <1>2, <2>8, <2>11 DEF MessagesApart
  <2> QED BY <2>10, <2>12
<1> QED BY <1>1, <1>3, <1>4 DEF TakeUp

\* The worker takes up the first message of the queue.
LEMMA WorkerGetApart ==
  ASSUME QueueInv, ChunksInv, NumbersGoOn, WorkerGet
  PROVE  ChunksInv'
<1> USE DEF ChunksInv
<1>1. /\ sending[Worker] = Nothing /\ queue # <<>> /\ TakeUp(Worker, Head(queue), 1)
      /\ queue' = Tail(queue) /\ UNCHANGED <<lock, sent>>
  BY DEF WorkerGet
<1>2. PICK msg \in Messages : msg = Head(queue) /\ msg = queue[1]
  BY <1>1 DEF QueueInv
<1>3. /\ Worker \in Senders /\ DOMAIN sending = Senders
      /\ \A s \in Senders : sending[s] # Nothing => sending[s].msg \in Messages
      /\ \A i \in 1 .. Len(queue) : queue[i] \in Messages
      /\ lock # Worker
  BY <1>1, SendersAre, OutputAssumption DEF QueueInv, QueueIsSound, OutputTypeOK, Worker
<1>4. /\ Len(queue') = Len(queue) - 1 /\ Len(queue) \in Nat /\ Len(queue) > 0
      /\ \A i \in 1 .. Len(queue') : queue'[i] = queue[i + 1] /\ i + 1 \in 1 .. Len(queue) /\ i + 1 # 1
  BY <1>1 DEF QueueInv
<1>5. \A s \in Senders \ {Worker} : sending'[s] = sending[s]
  BY <1>1, <1>3 DEF TakeUp
<1>6. sending'[Worker] = Nothing \/ sending'[Worker].msg = msg
  BY <1>1, <1>2, <1>3 DEF TakeUp
<1>7. ChunksInTurn'
  <2>1. lock # "free" => sending'[lock] = sending[lock]
    BY <1>3, <1>5 DEF QueueInv, QueueIsSound, OutputTypeOK
  <2> QED BY <1>1, <2>1, InTurnStays
<1>8. 1 \in 1 .. Len(queue)
  BY <1>4
<1>9. Made(msg, cmd') /\ ~Begun(msg, sent)
  BY <1>2, <1>8, MadeStays DEF MessagesApart
<1>10. /\ \A i \in 1 .. Len(queue') : Made(queue'[i], cmd') /\ ~Begun(queue'[i], sent) /\ queue'[i] # msg
       /\ \A i, j \in 1 .. Len(queue') : queue'[i] = queue'[j] => i = j
  <2>1. \A i \in 1 .. Len(queue) : Made(queue[i], cmd')
    BY <1>3, MadeStays DEF MessagesApart
  <2>2. \A i \in 1 .. Len(queue') : Made(queue'[i], cmd') /\ ~Begun(queue'[i], sent)
    BY <1>4, <2>1 DEF MessagesApart
  <2>3. \A i \in 1 .. Len(queue') : queue'[i] # msg
    BY <1>2, <1>4, <1>8 DEF MessagesApart
  <2>4. \A i, j \in 1 .. Len(queue') : queue'[i] = queue'[j] => i = j
    <3> TAKE i, j \in 1 .. Len(queue')
    <3> HAVE queue'[i] = queue'[j]
    <3>1. i + 1 = j + 1
      BY <1>4 DEF MessagesApart
    <3> QED BY <1>4, <3>1
  <2> QED BY <2>2, <2>3, <2>4
<1>11. \A s \in Senders : sending[s] # Nothing => Made(sending[s].msg, cmd') /\ sending[s].msg # msg
  BY <1>2, <1>3, <1>8, MadeStays DEF MessagesApart
<1>12. ASSUME NEW s \in Senders, sending'[s] # Nothing
       PROVE  /\ Made(sending'[s].msg, cmd')
              /\ \A i \in 1 .. Len(queue') : sending'[s].msg # queue'[i]
              /\ \A t \in Senders : sending'[t] # Nothing /\ sending'[s].msg = sending'[t].msg => s = t
              /\ s # lock => ~Begun(sending'[s].msg, sent)
  <2>1. CASE s = Worker
    BY <1>5, <1>6, <1>9, <1>10, <1>11, <1>12, <2>1
  <2>2. CASE s # Worker
    <3>1. sending'[s] = sending[s] /\ sending[s] # Nothing
      BY <1>5, <1>12, <2>2
    <3>2. \A i \in 1 .. Len(queue') : sending'[s].msg # queue'[i]
      BY <1>4, <3>1 DEF MessagesApart
    <3>3. \A t \in Senders : sending'[t] # Nothing /\ sending'[s].msg = sending'[t].msg => s = t
      BY <1>5, <1>6, <1>11, <3>1 DEF MessagesApart
    <3> QED BY <1>11, <3>1, <3>2, <3>3 DEF MessagesApart
  <2> QED BY <2>1, <2>2
<1>13. MessagesApart'
  BY <1>1, <1>10, <1>12 DEF MessagesApart
<1> QED BY <1>7, <1>13

\* A message is over.
LEMMA FinishApart ==
  ASSUME QueueInv, ChunksInv, NumbersGoOn, NEW s \in Senders, Finish(s), UNCHANGED <<queue, sent>>
  PROVE  ChunksInv'
<1> USE DEF ChunksInv
<1>1. sending' = [sending EXCEPT ![s] = Nothing] /\ lock' = IF lock = s THEN "free" ELSE lock
  BY DEF Finish
<1>2. /\ DOMAIN sending = Senders
      /\ \A t \in Senders : sending[t] # Nothing => sending[t].msg \in Messages
      /\ \A i \in 1 .. Len(queue) : queue[i] \in Messages
  BY DEF QueueInv
<1>3. sending'[s] = Nothing /\ \A t \in Senders \ {s} : sending'[t] = sending[t]
  BY <1>1, <1>2
<1>4. ChunksInTurn'
  <2>1. lock' # "free" => lock' = lock /\ sending'[lock] = sending[lock]
    BY <1>1, <1>3 DEF QueueInv, QueueIsSound, OutputTypeOK
  <2> QED BY <2>1, InTurnStays
<1>5. \A i \in 1 .. Len(queue) : Made(queue[i], cmd')
  BY <1>2, MadeStays DEF MessagesApart
<1>6. \A t \in Senders : sending[t] # Nothing => Made(sending[t].msg, cmd')
  BY <1>2, MadeStays DEF MessagesApart
<1>7. MessagesApart'
  BY <1>1, <1>3, <1>5, <1>6 DEF MessagesApart
<1> QED BY <1>4, <1>7

\* The holder of the lock sends a chunk.
LEMMA SendChunkApart ==
  ASSUME QueueInv, ChunksInv, NumbersGoOn, NEW s \in Senders, SendChunk(s)
  PROVE  ChunksInv'
<1> USE DEF ChunksInv
<1>1. /\ sending[s] # Nothing /\ lock \in {"free", s} /\ lock' = s
      /\ sent' = Append(sent, [msg |-> sending[s].msg, chunk |-> Head(sending[s].rest)])
      /\ sending' = [sending EXCEPT ![s].rest = Tail(@)]
      /\ UNCHANGED queue
  BY DEF SendChunk, MaySend
<1>2. /\ DOMAIN sending = Senders
      /\ \A t \in Senders : sending[t] # Nothing => sending[t].msg \in Messages
      /\ \A i \in 1 .. Len(queue) : queue[i] \in Messages
  BY DEF QueueInv
<1>3. PICK e : e = [msg |-> sending[s].msg, chunk |-> Head(sending[s].rest)]
  OBVIOUS
<1>4. PICK msg \in Messages : msg = sending[s].msg /\ e.msg = msg
  BY <1>1, <1>2, <1>3
<1>5. /\ \A t \in Senders \ {s} : sending'[t] = sending[t]
      /\ sending'[s].msg = msg
  BY <1>1, <1>2, <1>4
<1>6. PICK C : sent \in Seq([msg : Messages, chunk : C])
  BY DEF ChunksInTurn
<1>7. PICK E : E = [msg : Messages, chunk : C \cup {e.chunk}]
  OBVIOUS
<1>8. sent \in Seq(E) /\ e \in E /\ sent' = Append(sent, e)
  <2>1. [msg : Messages, chunk : C] \subseteq E
    BY <1>7
  <2>2. sent \in Seq(E)
    <3>1. \A i \in 1 .. Len(sent) : sent[i] \in E
      BY <1>6, <2>1, ElementOfSeq
    <3> QED BY <1>6, <3>1, LenProperties, IsASeq
  <2>3. e \in E
    BY <1>3, <1>4, <1>7
  <2> QED BY <1>1, <1>3, <2>2, <2>3
<1>9. /\ sent' \in Seq(E) /\ Len(sent) \in Nat /\ Len(sent') = Len(sent) + 1
      /\ \A i \in 1 .. Len(sent) : sent'[i] = sent[i]
      /\ sent'[Len(sent) + 1].msg = msg
  BY <1>4, <1>8, AppendProperties
<1>10. \E D : sent' \in Seq([msg : Messages, chunk : D])
  BY <1>7, <1>9
<1>11. Made(msg, cmd) /\ Made(msg, cmd')
  BY <1>1, <1>4, MadeStays DEF MessagesApart
<1>12. \A i \in 1 .. Len(sent) : Made(sent[i].msg, cmd')
  BY SentAre, MadeStays DEF ChunksInTurn
<1>13. \A i \in 1 .. Len(sent') : (i \in 1 .. Len(sent) /\ sent'[i] = sent[i]) \/ (i = Len(sent) + 1 /\ sent'[i].msg = msg)
  BY <1>9
<1>14. \A i \in 1 .. Len(sent') : Made(sent'[i].msg, cmd')
  BY <1>11, <1>12, <1>13
\* What was sent of the message are the last chunks, and so they stay.
<1>15. \A i, j \in 1 .. Len(sent) : i < j /\ sent[i].msg = msg => sent[j].msg = msg
  <2>1. CASE lock = s
    BY <1>4, <2>1, OutputAssumption DEF ChunksInTurn, Senders, Worker
  <2>2. CASE lock = "free" /\ s # "free"
    BY <1>1, <1>4, <2>2 DEF MessagesApart, Begun
  <2> QED BY <1>1, <2>1, <2>2
<1>16. \A i, j \in 1 .. Len(sent') : i < j /\ sent'[i].msg = msg => sent'[j].msg = msg
  BY <1>9, <1>13, <1>15
<1>17. ChunksStayTogether'
  <2> SUFFICES ASSUME NEW i \in 1 .. Len(sent'), NEW j \in 1 .. Len(sent'), NEW k \in 1 .. Len(sent'),
                      i < j, j < k, sent'[i].msg = sent'[k].msg
               PROVE  sent'[j].msg = sent'[i].msg
    BY <1>9 DEF ChunksStayTogether
  <2>1. i \in 1 .. Len(sent) /\ j \in 1 .. Len(sent)
    BY <1>9
  <2>2. CASE k \in 1 .. Len(sent)
    BY <1>9, <2>1, <2>2, SentAre DEF ChunksInTurn, ChunksStayTogether
  <2>3. CASE k = Len(sent) + 1
    BY <1>9, <1>16, <2>1, <2>3
  <2> QED BY <1>9, <2>2, <2>3
<1>18. ChunksInTurn'
  <2>1. sending'[lock'].msg = msg
    BY <1>1, <1>5
  <2>2. \A i, j \in 1 .. Len(sent') :
          i < j /\ sent'[i].msg = sending'[lock'].msg => sent'[j].msg = sending'[lock'].msg
    BY <1>16, <2>1
  <2> QED BY <1>10, <1>14, <1>17, <2>2 DEF ChunksInTurn
<1>19. \A m : Begun(m, sent') => Begun(m, sent) \/ m = msg
  BY <1>13 DEF Begun
<1>20. \A i \in 1 .. Len(queue) : Made(queue[i], cmd') /\ ~Begun(queue[i], sent')
  <2>1. \A i \in 1 .. Len(queue) : Made(queue[i], cmd')
    BY <1>2, MadeStays DEF MessagesApart
  <2> QED BY <1>1, <1>4, <1>19, <2>1 DEF MessagesApart
<1>21. ASSUME NEW t \in Senders, sending'[t] # Nothing
       PROVE  /\ Made(sending'[t].msg, cmd')
              /\ \A i \in 1 .. Len(queue) : sending'[t].msg # queue[i]
              /\ \A u \in Senders : sending'[u] # Nothing /\ sending'[t].msg = sending'[u].msg => t = u
              /\ t # s => ~Begun(sending'[t].msg, sent')
  <2>0. \A u \in Senders : sending'[u] # Nothing => sending[u] # Nothing /\ sending'[u].msg = sending[u].msg
    BY <1>1, <1>4, <1>5
  <2>1. Made(sending'[t].msg, cmd')
    BY <1>2, <1>21, <2>0, MadeStays DEF MessagesApart
  <2>2. \A i \in 1 .. Len(queue) : sending'[t].msg # queue[i]
    BY <1>21, <2>0 DEF MessagesApart
  <2>3. \A u \in Senders : sending'[u] # Nothing /\ sending'[t].msg = sending'[u].msg => t = u
    BY <1>21, <2>0 DEF MessagesApart
  <2>4. ASSUME t # s PROVE ~Begun(sending'[t].msg, sent')
    <3>1. sending[t] # Nothing /\ sending'[t].msg = sending[t].msg /\ sending[t].msg # msg
      BY <1>1, <1>4, <1>21, <2>0, <2>4 DEF MessagesApart
    <3>2. t # lock
      BY <1>1, <2>4, OutputAssumption DEF Senders, Worker
    <3> QED BY <1>19, <3>1, <3>2 DEF MessagesApart
  <2> QED BY <2>1, <2>2, <2>3, <2>4
<1>22. MessagesApart'
  BY <1>1, <1>20, <1>21 DEF MessagesApart
<1> QED BY <1>18, <1>22

LEMMA ChunksStart == ChatInit => ChunksInv
<1> SUFFICES ASSUME ChatInit PROVE ChunksInv
  OBVIOUS
<1>1. queue = <<>> /\ sent = <<>> /\ lock = "free" /\ sending = [s \in Senders |-> Nothing]
  BY DEF ChatInit, OutputInit
<1>2. Len(queue) = 0 /\ Len(sent) = 0 /\ DOMAIN sent = {} /\ \A C : sent \in Seq(C)
  BY <1>1
<1> QED BY <1>1, <1>2 DEF ChunksInv, MessagesApart, ChunksInTurn, ChunksStayTogether

LEMMA ChunksKept == DiscordInv /\ ChunksInv /\ [ChatNext]_discordVars => ChunksInv'
<1> SUFFICES ASSUME DiscordInv, ChunksInv, [ChatNext]_discordVars PROVE ChunksInv'
  OBVIOUS
<1>0. QueueInv /\ TableInv /\ CommandsHold /\ ChatTypeOK
  BY DEF DiscordInv, TableInv, ConversationsAreSound
<1>1. \A c \in Commands : cmd[c].no \in Nat
  BY <1>0 DEF CommandsHold, CommandRow
<1>2. ASSUME UNCHANGED cmd PROVE NumbersGoOn
  BY <1>1, <1>2 DEF NumbersGoOn
<1>3. ASSUME UNCHANGED cmd, UNCHANGED <<queue, sending, lock, sent>> PROVE ChunksInv'
  BY <1>0, <1>2, <1>3, StillApart
<1>4. ASSUME NEW c \in Commands, Acts(c) PROVE ChunksInv'
  <2>1. PICK n \in CommandRow : cmd' = [cmd EXCEPT ![c] = n]
    BY <1>4 DEF Acts, Moved
  <2>2. cmd'[c] \in CommandRow /\ \A d \in Commands \ {c} : cmd'[d] = cmd[d]
    BY <1>0, <2>1 DEF CommandsHold
  <2>3. cmd'[c].no \in Nat
    BY <2>2 DEF CommandRow
  <2>4. cmd'[c].no >= cmd[c].no
    <3>1. CASE Speaks(c)
      BY <1>1, <3>1 DEF Speaks
    <3>2. CASE Sends(c)
      BY <1>1, <3>2 DEF Sends
    <3> QED BY <1>4, <3>1, <3>2 DEF Acts, Outputs
  <2>5. NumbersGoOn
    BY <1>1, <2>2, <2>3, <2>4 DEF NumbersGoOn
  <2>6. CASE Speaks(c)
    BY <1>0, <2>5, <2>6, SpeaksApart
  <2>7. CASE Sends(c)
    BY <1>0, <2>5, <2>7, SendsApart
  <2>8. CASE QuietOutput
    BY <1>0, <2>5, <2>8, StillApart DEF QuietOutput
  <2> QED BY <1>4, <2>6, <2>7, <2>8 DEF Acts, Outputs
<1>5. CASE Serving \/ Stopping
  BY <1>3, <1>5 DEF Serving, Stopping, outputVars, chatVars
<1>6. ASSUME NEW m \in loaded, ShuttingDown(m) PROVE ChunksInv'
  <2>1. UNCHANGED cmd
    BY <1>6 DEF ShuttingDown, chatVars
  <2>2. CASE UNCHANGED <<queue, sending, lock, sent>>
    BY <1>3, <2>1, <2>2
  <2>3. CASE Finish(Worker) /\ UNCHANGED <<queue, sent>>
    BY <1>0, <1>2, <2>1, <2>3, SendersAre, FinishApart
  <2> QED BY <1>6, <2>2, <2>3 DEF ShuttingDown, CancelWorker, outputVars
<1>7. ASSUME NEW s \in Senders, Sending(s) PROVE ChunksInv'
  <2>1. UNCHANGED cmd /\ SendStep(s)
    BY <1>7 DEF Sending, chatVars
  <2>2. NumbersGoOn
    BY <1>2, <2>1
  <2>3. CASE SendChunk(s)
    BY <1>0, <2>2, <2>3, SendChunkApart
  <2>4. CASE SendFails(s) \/ SendDone(s)
    <3>1. Finish(s) /\ UNCHANGED <<queue, sent>>
      BY <2>4 DEF SendFails, SendDone
    <3> QED BY <1>0, <2>2, <3>1, FinishApart
  <2> QED BY <2>1, <2>3, <2>4 DEF SendStep
<1>8. CASE WorkingQueue
  <2>1. UNCHANGED cmd /\ WorkerGet
    BY <1>8 DEF WorkingQueue, chatVars
  <2> QED BY <1>0, <1>2, <2>1, WorkerGetApart
<1>9. ASSUME NEW c \in Commands, NEW kind \in Kinds, Give(c, kind) PROVE ChunksInv'
  BY <1>0, <1>4, <1>9, GiveActs
<1>10. ASSUME NEW c \in Commands, CommandStep(c) PROVE ChunksInv'
  BY <1>0, <1>4, <1>10, CommandActs
<1>11. ASSUME NEW some, Deletes(some) PROVE ChunksInv'
  BY <1>3, <1>11 DEF Deletes, QuietOutput
<1>12. CASE UNCHANGED discordVars
  BY <1>3, <1>12 DEF discordVars, outputVars, chatVars
<1> QED BY <1>5, <1>6, <1>7, <1>8, <1>9, <1>10, <1>11, <1>12
        DEF ChatNext, delete_conversation_thread, delete_conversations_before

\* However many commands send at once and while the worker is at the queue, the chunks
\* of a message arrive together: no chunk of another message is sent between two of
\* them (discord_output_module.py _deliver_in_chunks, under _send_lock).
THEOREM ChunksArriveTogether == ChatSpec => []ChunksStayTogether
<1>1. ChatInit => DiscordInv /\ ChunksInv
  BY DiscordInvStarts, ChunksStart
<1>2. DiscordInv /\ ChunksInv /\ [ChatNext]_discordVars => (DiscordInv /\ ChunksInv)'
  BY DiscordInvKept, ChunksKept
<1>3. ChunksInv => ChunksStayTogether
  BY DEF ChunksInv, ChunksInTurn
<1> QED BY <1>1, <1>2, <1>3, PTL DEF ChatSpec

-----------------------------------------------------------------------------
(* Recursion step by step, and sequences put together                      *)

\* A set that has 0 and with a number the next has all up to n.
LEMMA UpTo ==
  ASSUME NEW n \in Nat, NEW T, 0 \in T, \A i \in 1 .. n : i - 1 \in T => i \in T
  PROVE  \A i \in 0 .. n : i \in T
<1> SUFFICES ASSUME NEW j \in 0 .. n, j \notin T PROVE FALSE
  OBVIOUS
<1> DEFINE F == {i \in 0 .. n : i \notin T}
<1>1. F \subseteq Nat /\ F # {}
  OBVIOUS
<1> HIDE DEF F
<1>2. PICK m \in F : \A i \in F : m <= i
  BY <1>1, LeastNatural
<1>3. m \in 1 .. n /\ m \notin T /\ m - 1 \in 0 .. n /\ m - 1 < m
  BY <1>2 DEF F
<1>4. m - 1 \in T
  BY <1>2, <1>3 DEF F
<1> QED BY <1>3, <1>4

\* What F makes of the value before, beginning with b.
StepsTo(n, D, b, F) == \E p \in [0 .. n -> D] : p[0] = b /\ \A i \in 1 .. n : p[i] = F[p[i - 1], i]

\* A sequence can be worked through element by element.
LEMMA StepByStep ==
  ASSUME NEW n \in Nat, NEW D, NEW b \in D, NEW F \in [D \X (1 .. n) -> D]
  PROVE  StepsTo(n, D, b, F)
<1> DEFINE Reaches(m) == \E p \in [0 .. m -> D] : p[0] = b /\ \A i \in 1 .. m : p[i] = F[p[i - 1], i]
           T == {m \in 0 .. n : Reaches(m)}
<1>1. 0 \in T
  <2> DEFINE p == [i \in 0 .. 0 |-> b]
  <2>1. p \in [0 .. 0 -> D] /\ p[0] = b /\ \A i \in 1 .. 0 : p[i] = F[p[i - 1], i]
    OBVIOUS
  <2> HIDE DEF p
  <2>2. Reaches(0) /\ 0 \in 0 .. n
    BY <2>1
  <2> QED BY <2>2
<1>2. ASSUME NEW m \in 1 .. n, m - 1 \in T PROVE m \in T
  <2>1. PICK p \in [0 .. m - 1 -> D] : p[0] = b /\ \A i \in 1 .. m - 1 : p[i] = F[p[i - 1], i]
    BY <1>2
  <2> DEFINE q == [i \in 0 .. m |-> IF i = m THEN F[p[m - 1], m] ELSE p[i]]
  <2>2. p[m - 1] \in D
    <3>1. m - 1 \in 0 .. m - 1
      OBVIOUS
    <3> QED BY <2>1, <3>1
  <2>3. F[p[m - 1], m] \in D
    BY <2>2
  <2>4. q \in [0 .. m -> D]
    <3>1. \A i \in 0 .. m : i # m => i \in 0 .. m - 1
      OBVIOUS
    <3> QED BY <2>1, <2>3, <3>1
  <2>5. q[0] = b
    <3>1. 0 \in 0 .. m /\ 0 # m
      OBVIOUS
    <3> QED BY <2>1, <3>1
  <2>6. \A i \in 1 .. m : q[i] = F[q[i - 1], i]
    <3> TAKE i \in 1 .. m
    <3>1. i - 1 \in 0 .. m /\ i - 1 # m /\ i \in 0 .. m
      OBVIOUS
    <3>2. q[i - 1] = p[i - 1] /\ q[i] = IF i = m THEN F[p[m - 1], m] ELSE p[i]
      BY <3>1
    <3> HIDE DEF q
    <3>3. CASE i = m
      BY <3>2, <3>3
    <3>4. CASE i # m
      <4>1. i \in 1 .. m - 1 /\ q[i] = p[i]
        BY <3>2, <3>4
      <4> QED BY <2>1, <3>2, <4>1
    <3> QED BY <3>3, <3>4
  <2> HIDE DEF q
  <2>7. Reaches(m)
    BY <2>4, <2>5, <2>6
  <2>8. m \in 0 .. n
    OBVIOUS
  <2> QED BY <2>7, <2>8
<1> HIDE DEF T
<1>3. \A i \in 0 .. n : i \in T
  BY <1>1, <1>2, UpTo
<1>4. n \in T
  BY <1>3
<1> QED BY <1>4 DEF T, StepsTo

\* p goes from sequence to sequence as FlattenSeq does.
FlatBy(seqs, p) == p = [i \in 1 .. Len(seqs) |-> IF i = 1 THEN seqs[i] ELSE p[i - 1] \o seqs[i]]

\* FlattenSeq is a recursive function: it is chosen among those that go step by step.
LEMMA FlatIsChosen ==
  ASSUME NEW seqs, Len(seqs) # 0
  PROVE  FlattenSeq(seqs) = (CHOOSE p : FlatBy(seqs, p))[Len(seqs)]
  BY Zenon DEF FlattenSeq, FlatBy

\* q has what the first sequences are together.
Flattens(seqs, S, q) ==
  /\ q \in [0 .. Len(seqs) -> Seq(S)] /\ q[0] = <<>>
  /\ \A i \in 1 .. Len(seqs) : q[i] = q[i - 1] \o seqs[i]

\* FlattenSeq goes from sequence to sequence.
LEMMA FlatSteps ==
  ASSUME NEW S, NEW s \in Seq(Seq(S))
  PROVE  \E q : Flattens(s, S, q) /\ FlattenSeq(s) = q[Len(s)]
<1> DEFINE n == Len(s)
           D == Seq(S)
           F == [x \in D \X (1 .. n) |-> x[1] \o s[x[2]]]
<1>1. n \in Nat /\ <<>> \in D /\ \A i \in 1 .. n : s[i] \in D
  BY EmptySeq
<1>2. F \in [D \X (1 .. n) -> D]
  <2> SUFFICES ASSUME NEW x \in D, NEW i \in 1 .. n PROVE x \o s[i] \in D
    OBVIOUS
  <2>1. s[i] \in Seq(S)
    BY <1>1
  <2> QED BY <2>1, ConcatProperties
<1>3. PICK p \in [0 .. n -> D] : p[0] = <<>> /\ \A i \in 1 .. n : p[i] = F[p[i - 1], i]
  <2> HIDE DEF n, D, F
  <2>1. StepsTo(n, D, <<>>, F)
    BY <1>1, <1>2, StepByStep
  <2> QED BY <2>1 DEF StepsTo
<1>4. \A i \in 1 .. n : p[i] = p[i - 1] \o s[i]
  <2> TAKE i \in 1 .. n
  <2>1. i - 1 \in 0 .. n
    BY <1>1
  <2>2. <<p[i - 1], i>> \in D \X (1 .. n)
    BY <1>3, <2>1
  <2> QED BY <1>3, <2>2
<1>5. CASE n = 0
  <2>1. s = <<>> /\ FlattenSeq(s) = s
    BY <1>5, EmptySeq DEF FlattenSeq
  <2>2. Flattens(s, S, p) /\ p[n] = <<>>
    BY <1>3, <1>4, <1>5 DEF Flattens
  <2> QED BY <2>1, <2>2
<1>6. CASE n # 0
  <2> DEFINE r == [i \in 1 .. n |-> p[i]]
             q == CHOOSE x : FlatBy(s, x)
             h == [i \in 0 .. n |-> IF i = 0 THEN <<>> ELSE q[i]]
  <2>1. FlatBy(s, r)
    <3>1. r = [i \in 1 .. n |-> IF i = 1 THEN s[i] ELSE r[i - 1] \o s[i]]
      <4>1. ASSUME NEW i \in 1 .. n PROVE r[i] = IF i = 1 THEN s[i] ELSE r[i - 1] \o s[i]
        <5>1. r[i] = p[i - 1] \o s[i]
          BY <1>4
        <5>2. CASE i = 1
          <6>1. s[i] \in Seq(S)
            BY <1>1
          <6>2. i - 1 = 0
            BY <5>2
          <6>3. p[i - 1] = <<>>
            BY <1>3, <6>2
          <6> QED BY <5>1, <5>2, <6>1, <6>3, ConcatEmptySeq
        <5>3. CASE i # 1
          <6>1. i - 1 \in 1 .. n
            BY <1>1, <5>3
          <6>2. r[i - 1] = p[i - 1]
            BY <6>1
          <6> QED BY <5>1, <5>3, <6>2
        <5> QED BY <5>2, <5>3
      <4>2. r = [i \in 1 .. n |-> r[i]]
        OBVIOUS
      <4> HIDE DEF r, n
      <4> QED BY <4>1, <4>2
    <3> HIDE DEF r
    <3> QED BY <3>1 DEF FlatBy
  <2>2. FlatBy(s, q)
    BY <2>1
  <2>3. FlattenSeq(s) = q[n]
    BY <1>6, FlatIsChosen
  <2> HIDE DEF q, r
  <2>4. \A i \in 1 .. n : q[i] = IF i = 1 THEN s[i] ELSE q[i - 1] \o s[i]
    BY <2>2 DEF FlatBy
  <2>5. h[0] = <<>> /\ \A i \in 1 .. n : h[i] = q[i]
    BY <1>1
  <2>6. \A i \in 1 .. n : h[i] = h[i - 1] \o s[i]
    <3> TAKE i \in 1 .. n
    <3>1. CASE i = 1
      <4>1. h[i - 1] = <<>> /\ h[i] = s[i] /\ s[i] \in Seq(S)
        BY <1>1, <2>4, <2>5, <3>1
      <4> QED BY <4>1, ConcatEmptySeq
    <3>2. CASE i # 1
      <4>1. i - 1 \in 1 .. n
        BY <1>1, <3>2
      <4>2. h[i - 1] = q[i - 1] /\ h[i] = q[i]
        BY <2>5, <4>1
      <4> QED BY <2>4, <3>2, <4>2
    <3> QED BY <3>1, <3>2
  <2>7. \A i \in 0 .. n : i \in {j \in 0 .. n : h[j] \in D}
    <3> DEFINE T == {j \in 0 .. n : h[j] \in D}
    <3>1. 0 \in T
      BY <1>1, <2>5
    <3>2. ASSUME NEW i \in 1 .. n, i - 1 \in T PROVE i \in T
      <4>1. h[i - 1] \in Seq(S) /\ s[i] \in Seq(S)
        BY <1>1, <3>2
      <4>2. h[i] \in D
        BY <2>6, <4>1, ConcatProperties
      <4> QED BY <4>2
    <3> HIDE DEF T, h, n, D
    <3>3. \A i \in 0 .. n : i \in T
      BY <1>1, <3>1, <3>2, UpTo
    <3> QED BY <3>3 DEF T
  <2>8. h \in [0 .. n -> D]
    BY <2>7
  <2>9. h[n] = q[n]
    BY <1>1, <1>6, <2>5
  <2> HIDE DEF h
  <2>10. Flattens(s, S, h)
    BY <2>5, <2>6, <2>8 DEF Flattens
  <2> QED BY <2>3, <2>9, <2>10
<1> QED BY <1>5, <1>6

\* The elements of two sequences one after the other.
LEMMA ConcatAt ==
  ASSUME NEW S, NEW s \in Seq(S), NEW t \in Seq(S), NEW m \in Nat, m = Len(s), NEW n \in Nat, n = Len(t)
  PROVE  /\ s \o t \in Seq(S) /\ Len(s \o t) = m + n
         /\ \A i \in 1 .. m : (s \o t)[i] = s[i]
         /\ \A i \in 1 .. n : (s \o t)[m + i] = t[i]
  OBVIOUS

\* What sequences are together is determined by the sequences.
LEMMA FlatOnly ==
  ASSUME NEW S, NEW s \in Seq(Seq(S)), NEW q, Flattens(s, S, q)
  PROVE  FlattenSeq(s) = q[Len(s)] /\ FlattenSeq(s) \in Seq(S)
<1>1. PICK p : Flattens(s, S, p) /\ FlattenSeq(s) = p[Len(s)]
  BY FlatSteps
<1>2. PICK n \in Nat : n = Len(s)
  BY LenProperties
<1> DEFINE T == {i \in 0 .. n : p[i] = q[i]}
<1>3. 0 \in T
  BY <1>1, <1>2 DEF Flattens
<1>4. ASSUME NEW i \in 1 .. n, i - 1 \in T PROVE i \in T
  <2>1. p[i] = p[i - 1] \o s[i] /\ q[i] = q[i - 1] \o s[i]
    BY <1>1, <1>2 DEF Flattens
  <2>2. p[i - 1] = q[i - 1]
    BY <1>4
  <2>3. p[i] = q[i] /\ i \in 0 .. n
    BY <2>1, <2>2
  <2> QED BY <2>3
<1>5. \A i \in 0 .. n : i \in T
  <2> HIDE DEF T
  <2> QED BY <1>3, <1>4, UpTo
<1>6. n \in 0 .. n
  OBVIOUS
<1>7. p[n] = q[n] /\ p[n] \in Seq(S)
  BY <1>1, <1>2, <1>5, <1>6 DEF Flattens
<1> QED BY <1>1, <1>2, <1>7

\* What two lists of sequences are together is what each is, one after the other.
LEMMA FlatConcat ==
  ASSUME NEW S, NEW s \in Seq(Seq(S)), NEW t \in Seq(Seq(S))
  PROVE  /\ FlattenSeq(s \o t) = FlattenSeq(s) \o FlattenSeq(t)
         /\ FlattenSeq(s) \in Seq(S) /\ FlattenSeq(s \o t) \in Seq(S)
<1>1. PICK a : Flattens(s, S, a) /\ FlattenSeq(s) = a[Len(s)]
  BY FlatSteps
<1>2. PICK b : Flattens(t, S, b) /\ FlattenSeq(t) = b[Len(t)]
  BY FlatSteps
<1>3. PICK m \in Nat : m = Len(s)
  BY LenProperties
<1>4. PICK n \in Nat : n = Len(t)
  BY LenProperties
<1>5. PICK u \in Seq(Seq(S)) :
        /\ u = s \o t /\ Len(u) = m + n
        /\ \A i \in 1 .. m : u[i] = s[i]
        /\ \A i \in 1 .. n : u[m + i] = t[i]
  <2>1. PICK u : u = s \o t
    OBVIOUS
  <2>2. /\ u \in Seq(Seq(S)) /\ Len(u) = m + n
        /\ \A i \in 1 .. m : u[i] = s[i]
        /\ \A i \in 1 .. n : u[m + i] = t[i]
    BY <1>3, <1>4, <2>1, ConcatAt
  <2> QED BY <2>1, <2>2
<1>6. PICK c : Flattens(u, S, c) /\ FlattenSeq(u) = c[m + n]
  BY <1>5, FlatSteps
<1>7. \A i \in 0 .. m : i \in {j \in 0 .. m : c[j] = a[j]}
  <2> DEFINE T == {j \in 0 .. m : c[j] = a[j]}
  <2>1. 0 \in T
    BY <1>1, <1>6 DEF Flattens
  <2>2. ASSUME NEW i \in 1 .. m, i - 1 \in T PROVE i \in T
    <3>1. i \in 1 .. m + n
      OBVIOUS
    <3>2. c[i] = c[i - 1] \o u[i]
      BY <1>5, <1>6, <3>1 DEF Flattens
    <3>3. a[i] = a[i - 1] \o s[i] /\ u[i] = s[i]
      BY <1>1, <1>3, <1>5 DEF Flattens
    <3>4. c[i - 1] = a[i - 1]
      BY <2>2
    <3>5. c[i] = a[i]
      BY <3>2, <3>3, <3>4
    <3> QED BY <3>5
  <2> HIDE DEF T
  <2>3. \A i \in 0 .. m : i \in T
    BY <2>1, <2>2, UpTo
  <2> QED BY <2>3 DEF T
<1>8. c[m] = a[m] /\ a[m] \in Seq(S)
  <2>1. m \in 0 .. m
    OBVIOUS
  <2> QED BY <1>1, <1>3, <1>7, <2>1 DEF Flattens
<1>9. \A i \in 0 .. n : i \in {j \in 0 .. n : c[m + j] = a[m] \o b[j]}
  <2> DEFINE T == {j \in 0 .. n : c[m + j] = a[m] \o b[j]}
  <2>1. 0 \in T
    <3>1. b[0] = <<>> /\ m + 0 = m
      BY <1>2 DEF Flattens
    <3>2. a[m] \o <<>> = a[m]
      BY <1>8, ConcatEmptySeq
    <3>3. c[m + 0] = c[m]
      OBVIOUS
    <3>4. c[m + 0] = a[m] \o b[0]
      BY <1>8, <3>1, <3>2, <3>3
    <3>5. 0 \in 0 .. n
      OBVIOUS
    <3> QED BY <3>4, <3>5
  <2>2. ASSUME NEW i \in 1 .. n, i - 1 \in T PROVE i \in T
    <3>1. PICK k \in 1 .. m + n : k = m + i /\ k - 1 = m + (i - 1)
      OBVIOUS
    <3>2. c[k] = c[k - 1] \o u[k]
      BY <1>5, <1>6 DEF Flattens
    <3>a. u[k] = t[i]
      BY <1>5, <3>1
    <3>3. b[i] = b[i - 1] \o t[i]
      BY <1>2, <1>4 DEF Flattens
    <3>4. c[m + (i - 1)] = a[m] \o b[i - 1]
      BY <2>2
    <3>5. b[i - 1] \in Seq(S) /\ t[i] \in Seq(S)
      <4>1. i - 1 \in 0 .. n
        OBVIOUS
      <4> QED BY <1>2, <1>4, <4>1, ElementOfSeq DEF Flattens
    <3>6. (a[m] \o b[i - 1]) \o t[i] = a[m] \o b[i]
      <4>1. (a[m] \o b[i - 1]) \o t[i] = a[m] \o (b[i - 1] \o t[i])
        <5>1. \A x, y, z \in Seq(S) : (x \o y) \o z = x \o (y \o z)
          BY ConcatAssociative
        <5> QED BY <1>8, <3>5, <5>1, Zenon
      <4> QED BY <3>3, <4>1, Zenon
    <3>7. c[m + i] = a[m] \o b[i]
      BY <3>1, <3>2, <3>a, <3>4, <3>6
    <3>8. i \in 0 .. n
      OBVIOUS
    <3> QED BY <3>7, <3>8
  <2> HIDE DEF T
  <2>3. \A i \in 0 .. n : i \in T
    BY <2>1, <2>2, UpTo
  <2> QED BY <2>3 DEF T
<1>10. n \in 0 .. n /\ m + n \in 0 .. m + n
  OBVIOUS
<1>11. c[m + n] = a[m] \o b[n] /\ c[m + n] \in Seq(S)
  BY <1>5, <1>6, <1>9, <1>10 DEF Flattens
<1> QED BY <1>1, <1>2, <1>3, <1>4, <1>5, <1>6, <1>8, <1>11

\* One sequence is itself.
LEMMA FlatOne ==
  ASSUME NEW S, NEW e \in Seq(S)
  PROVE  FlattenSeq(<<e>>) = e
<1> DEFINE q == [i \in 0 .. 1 |-> IF i = 0 THEN <<>> ELSE e]
<1>1. <<e>> \in Seq(Seq(S)) /\ Len(<<e>>) = 1 /\ <<e>>[1] = e
  OBVIOUS
<1>2. q[0] = <<>> /\ q[1] = e
  OBVIOUS
<1>3. q \in [0 .. 1 -> Seq(S)]
  BY EmptySeq
<1>4. \A i \in 1 .. 1 : q[i] = q[i - 1] \o <<e>>[i]
  <2>1. <<>> \o e = e
    BY ConcatEmptySeq
  <2> QED BY <1>1, <1>2, <2>1
<1> HIDE DEF q
<1>5. Flattens(<<e>>, S, q)
  BY <1>1, <1>2, <1>3, <1>4 DEF Flattens
<1> QED BY <1>1, <1>2, <1>5, FlatOnly

\* What there is of a text one character at a time.
Each(text, T) == [i \in DOMAIN text |-> IF text[i] \in T THEN <<text[i]>> ELSE <<>>]

\* Each character is one sequence: itself, or nothing.
LEMMA EachFacts ==
  ASSUME NEW S, NEW s \in Seq(S), NEW T
  PROVE  /\ Each(s, T) \in Seq(Seq(S)) /\ Len(Each(s, T)) = Len(s)
         /\ \A i \in 1 .. Len(s) : Each(s, T)[i] = IF s[i] \in T THEN <<s[i]>> ELSE <<>>
<1>1. Len(s) \in Nat /\ DOMAIN s = 1 .. Len(s)
  BY LenProperties
<1>2. \A i \in 1 .. Len(s) : s[i] \in S
  BY ElementOfSeq
<1>3. \A i \in 1 .. Len(s) : (IF s[i] \in T THEN <<s[i]>> ELSE <<>>) \in Seq(S)
  BY <1>2
<1>4. Each(s, T) = [i \in 1 .. Len(s) |-> IF s[i] \in T THEN <<s[i]>> ELSE <<>>]
  BY <1>1 DEF Each
<1>5. Each(s, T) \in [1 .. Len(s) -> Seq(S)]
  BY <1>3, <1>4
<1>6. Each(s, T) \in Seq(Seq(S)) /\ Len(Each(s, T)) = Len(s)
  BY <1>1, <1>5
<1> QED BY <1>4, <1>6

\* What two texts have of T one after the other.
LEMMA OnlyConcat ==
  ASSUME NEW S, NEW s \in Seq(S), NEW t \in Seq(S), NEW T
  PROVE  Only(s \o t, T) = Only(s, T) \o Only(t, T) /\ Only(s, T) \in Seq(S)
<1>1. PICK m \in Nat : m = Len(s)
  BY LenProperties
<1>2. PICK n \in Nat : n = Len(t)
  BY LenProperties
<1>3. PICK u \in Seq(S) : /\ u = s \o t /\ Len(u) = m + n
                          /\ \A i \in 1 .. m : u[i] = s[i]
                          /\ \A i \in 1 .. n : u[m + i] = t[i]
  <2>1. PICK u : u = s \o t
    OBVIOUS
  <2>2. /\ u \in Seq(S) /\ Len(u) = m + n
        /\ \A i \in 1 .. m : u[i] = s[i]
        /\ \A i \in 1 .. n : u[m + i] = t[i]
    BY <1>1, <1>2, <2>1, ConcatAt
  <2> QED BY <2>1, <2>2
<1> DEFINE a == Each(s, T)
           b == Each(t, T)
           c == Each(u, T)
<1>4. /\ a \in Seq(Seq(S)) /\ Len(a) = m
      /\ \A i \in 1 .. m : a[i] = IF s[i] \in T THEN <<s[i]>> ELSE <<>>
  <2> HIDE DEF a
  <2> QED BY <1>1, EachFacts DEF a
<1>5. /\ b \in Seq(Seq(S)) /\ Len(b) = n
      /\ \A i \in 1 .. n : b[i] = IF t[i] \in T THEN <<t[i]>> ELSE <<>>
  <2> HIDE DEF b
  <2> QED BY <1>2, EachFacts DEF b
<1>6. /\ c \in Seq(Seq(S)) /\ Len(c) = m + n
      /\ \A i \in 1 .. m + n : c[i] = IF u[i] \in T THEN <<u[i]>> ELSE <<>>
  <2> HIDE DEF c
  <2>1. Len(u) = m + n /\ 1 .. Len(u) = 1 .. m + n
    BY <1>3
  <2>2. /\ c \in Seq(Seq(S)) /\ Len(c) = Len(u)
        /\ \A i \in 1 .. Len(u) : c[i] = IF u[i] \in T THEN <<u[i]>> ELSE <<>>
    BY EachFacts DEF c
  <2> QED BY <2>1, <2>2
<1> HIDE DEF a, b, c
<1>7. /\ a \o b \in Seq(Seq(S)) /\ Len(a \o b) = m + n
      /\ \A i \in 1 .. m : (a \o b)[i] = a[i]
      /\ \A i \in 1 .. n : (a \o b)[m + i] = b[i]
  <2>1. m = Len(a) /\ n = Len(b) /\ a \in Seq(Seq(S)) /\ b \in Seq(Seq(S))
    BY <1>4, <1>5
  <2> QED BY <2>1, ConcatAt
<1>8. \A i \in 1 .. m + n : c[i] = (a \o b)[i]
  <2> TAKE i \in 1 .. m + n
  <2>1. CASE i <= m
    <3>1. i \in 1 .. m
      BY <2>1
    <3>2. c[i] = IF u[i] \in T THEN <<u[i]>> ELSE <<>>
      BY <1>6
    <3>3. u[i] = s[i] /\ (a \o b)[i] = a[i]
      BY <1>3, <1>7, <3>1
    <3> QED BY <1>4, <3>1, <3>2, <3>3
  <2>2. CASE ~(i <= m)
    <3>1. PICK j \in 1 .. n : i = m + j
      <4>1. i - m \in 1 .. n /\ i = m + (i - m)
        BY <2>2
      <4> QED BY <4>1
    <3>2. c[i] = IF u[i] \in T THEN <<u[i]>> ELSE <<>>
      BY <1>6
    <3>3. u[i] = t[j] /\ (a \o b)[i] = b[j]
      BY <1>3, <1>7, <3>1
    <3> QED BY <1>5, <3>2, <3>3
  <2> QED BY <2>1, <2>2
<1>9. c = a \o b
  <2>1. PICK d : d = a \o b
    OBVIOUS
  <2> QED BY <1>6, <1>7, <1>8, <2>1, SeqEqual
<1>10. \A x : Only(x, T) = FlattenSeq(Each(x, T))
  BY DEF Only, Each
<1>11. FlattenSeq(a \o b) = FlattenSeq(a) \o FlattenSeq(b) /\ FlattenSeq(a) \in Seq(S)
  BY <1>4, <1>5, FlatConcat, Zenon
<1>12. Only(s, T) = FlattenSeq(a) /\ Only(t, T) = FlattenSeq(b) /\ Only(s \o t, T) = FlattenSeq(c)
  BY <1>3, <1>10 DEF a, b, c
<1> QED BY <1>9, <1>11, <1>12

\* What one character and what nothing has of T.
LEMMA OnlyOne ==
  ASSUME NEW c, NEW T
  PROVE  Only(<<c>>, T) = (IF c \in T THEN <<c>> ELSE <<>>) /\ Only(<<>>, T) = <<>>
<1> DEFINE e == IF c \in T THEN <<c>> ELSE <<>>
<1>1. <<c>> \in Seq({c}) /\ Len(<<c>>) = 1 /\ <<c>>[1] = c
  OBVIOUS
<1>2. e \in Seq({c})
  <2>1. <<>> \in Seq({c})
    OBVIOUS
  <2> QED BY <1>1, <2>1
<1>5. Each(<<c>>, T) = <<e>>
  <2>1. DOMAIN <<c>> = 1 .. 1 /\ <<c>>[1] = c
    OBVIOUS
  <2>2. Each(<<c>>, T) = [i \in 1 .. 1 |-> IF c \in T THEN <<c>> ELSE <<>>]
    BY <2>1 DEF Each
  <2>3. <<e>> = [i \in 1 .. 1 |-> e]
    OBVIOUS
  <2> QED BY <2>2, <2>3
<1>3. FlattenSeq(<<e>>) = e
  <2> HIDE DEF e
  <2> QED BY <1>2, FlatOne
<1>4. Each(<<>>, T) = <<>> /\ FlattenSeq(<<>>) = <<>>
  BY DEF Each, FlattenSeq
<1> QED BY <1>3, <1>4, <1>5 DEF Only, Each

-----------------------------------------------------------------------------
(* What a text says                                                        *)

\* What two texts say one after the other, and what white space says.
LEMMA PlainConcat ==
  ASSUME NEW S, NEW s \in Seq(S), NEW t \in Seq(S)
  PROVE  Plain(s \o t) = Plain(s) \o Plain(t) /\ Plain(s) \in Seq(S)
<1>1. PICK T : T = Chars \ {" ", "\n"}
  OBVIOUS
<1>2. PICK U : U = Chars \ {"-"}
  OBVIOUS
<1>3. \A x : Plain(x) = Only(Only(x, T), U)
  BY <1>1, <1>2 DEF Plain, Readable
<1>4. \A x, y \in Seq(S) : \A V : Only(x \o y, V) = Only(x, V) \o Only(y, V) /\ Only(x, V) \in Seq(S)
  BY OnlyConcat
<1>5. Only(s \o t, T) = Only(s, T) \o Only(t, T) /\ Only(s, T) \in Seq(S) /\ Only(t, T) \in Seq(S)
  BY <1>4
<1>6. PICK x \in Seq(S), y \in Seq(S) : x = Only(s, T) /\ y = Only(t, T)
  BY <1>5
<1>7. Only(x \o y, U) = Only(x, U) \o Only(y, U) /\ Only(x, U) \in Seq(S)
  BY <1>4
<1> QED BY <1>3, <1>5, <1>6, <1>7

\* White space says nothing.
LEMMA PlainBlank == Plain(<<>>) = <<>> /\ Plain(<<"\n">>) = <<>>
<1>1. "\n" \notin Chars \ {" ", "\n"}
  OBVIOUS
<1>2. Readable(<<>>) = <<>> /\ Readable(<<"\n">>) = <<>>
  BY <1>1, OnlyOne DEF Readable
<1> QED BY <1>2, OnlyOne DEF Plain

\* A separator line says nothing.
LEMMA RuleSaysNothing == Only(Rule, Chars \ {"-"}) = <<>>
<1> DEFINE d == <<"-">>
           T == Chars \ {"-"}
<1>1. d \in Seq({"-"}) /\ d \o d \in Seq({"-"}) /\ Rule = (d \o d) \o d
  BY DEF Rule
<1>2. Only(d, T) = <<>>
  <2>1. "-" \notin T
    OBVIOUS
  <2> QED BY <2>1, OnlyOne
<1> HIDE DEF T
<1>3. Only(d \o d, T) = Only(d, T) \o Only(d, T) /\ Only((d \o d) \o d, T) = Only(d \o d, T) \o Only(d, T)
  <2>1. PICK S : S = {"-"}
    OBVIOUS
  <2>2. \A x, y \in Seq(S) : \A V : Only(x \o y, V) = Only(x, V) \o Only(y, V) /\ Only(x, V) \in Seq(S)
    BY OnlyConcat
  <2> HIDE DEF d
  <2> QED BY <1>1, <2>1, <2>2
<1>4. <<>> \o <<>> = <<>>
  OBVIOUS
<1> QED BY <1>1, <1>2, <1>3, <1>4 DEF T

\* A chunk that is not worth sending says nothing.
LEMMA NotWorthNothing ==
  ASSUME NEW chunk, ~Worth(chunk)
  PROVE  Plain(chunk) = <<>>
<1>0. Plain(chunk) = Only(Readable(chunk), Chars \ {"-"})
  BY DEF Plain
<1>1. CASE Readable(chunk) = <<>>
  <2>1. \A T : Only(<<>>, T) = <<>>
    BY OnlyOne
  <2> QED BY <1>0, <1>1, <2>1
<1>2. CASE Readable(chunk) = Rule
  BY <1>0, <1>2, RuleSaysNothing
<1> QED BY <1>1, <1>2 DEF Worth, IsRule

\* What a list of chunks says.
Says(chunks) == Plain(FlattenSeq(chunks))
Strings == Seq(Chars)

\* No chunks say nothing.
LEMMA SaysNothing == Says(<<>>) = <<>>
<1>1. FlattenSeq(<<>>) = <<>>
  BY DEF FlattenSeq
<1> QED BY <1>1, PlainBlank DEF Says

\* What chunks say with one more.
LEMMA SaysMore ==
  ASSUME NEW chunks \in Seq(Strings), NEW chunk \in Strings
  PROVE  /\ Says(Append(chunks, chunk)) = Says(chunks) \o Plain(chunk)
         /\ Says(chunks) \in Strings /\ Plain(chunk) \in Strings
<1>1. PICK one \in Seq(Strings) : one = <<chunk>>
  <2>1. <<chunk>> \in Seq(Strings)
    OBVIOUS
  <2> QED BY <2>1
<1>2. Append(chunks, chunk) = chunks \o one
  BY <1>1, AppendIsConcat
<1>3. FlattenSeq(one) = chunk
  BY <1>1, FlatOne DEF Strings
<1>4. /\ FlattenSeq(chunks \o one) = FlattenSeq(chunks) \o FlattenSeq(one)
      /\ FlattenSeq(chunks) \in Seq(Chars)
  BY <1>1, FlatConcat DEF Strings
<1>5. PICK before \in Seq(Chars) : before = FlattenSeq(chunks)
  BY <1>4
<1>6. /\ Plain(before \o chunk) = Plain(before) \o Plain(chunk)
      /\ Plain(before) \in Seq(Chars) /\ Plain(chunk) \in Seq(Chars)
  BY PlainConcat DEF Strings
<1> QED BY <1>2, <1>3, <1>4, <1>5, <1>6 DEF Says, Strings

\* Only a chunk that says nothing is left out.
LEMMA KeptSays ==
  ASSUME NEW chunks \in Seq(Strings), NEW chunk \in Strings
  PROVE  /\ Kept(chunks, chunk) \in Seq(Strings)
         /\ Says(Kept(chunks, chunk)) = Says(chunks) \o Plain(chunk)
         /\ Says(chunks) \in Strings /\ Plain(chunk) \in Strings
<1>1. Says(chunks) \in Strings /\ Plain(chunk) \in Strings
  BY SaysMore
<1>2. CASE Worth(chunk)
  BY <1>1, <1>2, SaysMore DEF Kept
<1>3. CASE ~Worth(chunk)
  <2>1. Says(chunks) \o <<>> = Says(chunks)
    BY <1>1, ConcatEmptySeq DEF Strings
  <2> QED BY <1>1, <1>3, <2>1, NotWorthNothing DEF Kept
<1> QED BY <1>2, <1>3

\* A buffer and a part say what each says.
LEMMA JoinSays ==
  ASSUME NEW buffer \in Strings, NEW part \in Strings
  PROVE  /\ Join(buffer, part) \in Strings
         /\ Plain(Join(buffer, part)) = Plain(buffer) \o Plain(part)
<1>1. Plain(part) \in Seq(Chars) /\ Plain(buffer) \in Seq(Chars)
  BY PlainConcat DEF Strings
<1>2. CASE buffer = <<>>
  <2>1. <<>> \o Plain(part) = Plain(part)
    BY <1>1, ConcatEmptySeq
  <2> QED BY <1>2, <2>1, PlainBlank DEF Join
<1>3. CASE buffer # <<>>
  <2>1. PICK break \in Seq(Chars) : break = <<"\n">>
    <3>1. "\n" \in Chars
      BY DEF Chars
    <3>2. <<"\n">> \in Seq(Chars)
      BY <3>1
    <3> QED BY <3>2
  <2>2. PICK start \in Seq(Chars) : start = buffer \o break
    BY ConcatProperties DEF Strings
  <2>3. Plain(start) = Plain(buffer) \o Plain(break)
    BY <2>2, PlainConcat DEF Strings
  <2>4. Plain(start) = Plain(buffer)
    BY <1>1, <2>1, <2>3, PlainBlank, ConcatEmptySeq
  <2>5. Plain(start \o part) = Plain(start) \o Plain(part) /\ start \o part \in Seq(Chars)
    BY PlainConcat, ConcatProperties DEF Strings
  <2>6. Join(buffer, part) = start \o part
    BY <1>3, <2>1, <2>2 DEF Join
  <2> QED BY <2>4, <2>5, <2>6 DEF Strings
<1> QED BY <1>2, <1>3

-----------------------------------------------------------------------------
(* The loops that cut a text                                               *)

\* What the loop over the lines has.
Accs == [chunks : Seq(Strings), buffer : Strings, line : Strings]

\* What the chunks made, the buffer and the line say together.
Told(acc) == (Says(acc.chunks) \o Plain(acc.buffer)) \o Plain(acc.line)

\* Strings one after the other, however they are put together.
LEMMA ThreeConcat == \A a, b, c \in Seq(Chars) : (a \o b) \o c = a \o (b \o c)
  BY ConcatAssociative

\* How four texts one after the other are put together is all the same.
Regroups(a, b, c, d) ==
  (a \o (b \o c)) \o d = (a \o b) \o (c \o d) /\ a \o (b \o c) \in Strings

\* Texts can be regrouped.
LEMMA FourConcat ==
  ASSUME NEW a \in Strings, NEW b \in Strings, NEW c \in Strings, NEW d \in Strings
  PROVE  Regroups(a, b, c, d)
<1>1. \A x, y, z \in Strings : (x \o y) \o z = x \o (y \o z)
  BY ThreeConcat DEF Strings
<1>2. \A x, y \in Strings : x \o y \in Strings
  BY ConcatProperties DEF Strings
<1>3. a \o b \in Strings /\ b \o c \in Strings
  BY <1>2
<1>4. a \o (b \o c) \in Strings
  BY <1>2, <1>3
<1>5. (a \o b) \o c = a \o (b \o c)
  BY <1>1, Zenon
<1>6. ((a \o b) \o c) \o d = (a \o b) \o (c \o d)
  <2>1. PICK e \in Strings : e = a \o b
    BY <1>3
  <2>2. (e \o c) \o d = e \o (c \o d)
    BY <1>1, Zenon
  <2> QED BY <2>1, <2>2, Zenon
<1> QED BY <1>4, <1>5, <1>6, Zenon DEF Regroups

\* What the loop has are texts, and so is what they say.
LEMMA AccSays ==
  ASSUME NEW acc \in Accs
  PROVE  /\ acc.chunks \in Seq(Strings) /\ acc.buffer \in Strings /\ acc.line \in Strings
         /\ Says(acc.chunks) \in Seq(Chars) /\ Plain(acc.buffer) \in Seq(Chars) /\ Plain(acc.line) \in Seq(Chars)
<1>1. acc.chunks \in Seq(Strings) /\ acc.buffer \in Strings /\ acc.line \in Strings
  BY DEF Accs
<1> QED BY <1>1, SaysMore DEF Strings

\* A line that is too long is cut within it.
LEMMA CutWithin ==
  ASSUME NEW line \in Strings, Len(line) > Limit
  PROVE  CutAt(line) \in 1 .. Len(line)
<1> DEFINE Blanks == {i \in 1 .. Limit - 1 : line[i + 1] = " "}
           Back == {Limit - i : i \in Blanks}
<1>1. Limit \in Nat /\ Limit > 0 /\ Len(line) \in Nat
  BY OutputAssumption DEF Strings
<1>2. \A i \in Blanks : i \in 1 .. Limit - 1
  OBVIOUS
<1>3. CutAt(line) = IF Blanks = {} THEN Limit ELSE CHOOSE i \in Blanks : \A j \in Blanks : i >= j
  BY DEF CutAt
<1> HIDE DEF Blanks
<1>4. CASE Blanks = {}
  <2>1. CutAt(line) = Limit
    BY <1>3, <1>4
  <2> QED BY <1>1, <2>1
<1>5. CASE Blanks # {}
  <2>1. Back \subseteq Nat /\ Back # {}
    BY <1>1, <1>2, <1>5
  <2>2. \A j \in Blanks : Limit - j \in Back
    OBVIOUS
  <2>3. \A l \in Back : \E i \in Blanks : l = Limit - i
    OBVIOUS
  <2> HIDE DEF Back
  <2>4. PICK least \in Back : \A j \in Back : least <= j
    BY <2>1, LeastNatural
  <2>5. PICK i \in Blanks : least = Limit - i
    BY <2>3
  <2>6. \A j \in Blanks : i >= j
    <3> TAKE j \in Blanks
    <3>1. Limit - i <= Limit - j
      BY <2>2, <2>4, <2>5
    <3> QED BY <1>1, <1>2, <3>1
  <2>7. CutAt(line) \in Blanks
    BY <1>3, <1>5, <2>6
  <2> QED BY <1>1, <1>2, <2>7
<1> QED BY <1>4, <1>5

\* What is cut off is not lost.
LEMMA CutOffTells ==
  ASSUME NEW acc \in Accs, Len(acc.line) > Limit
  PROVE  CutOff(acc) \in Accs /\ Told(CutOff(acc)) = Told(acc)
<1>1. PICK k \in 1 .. Len(acc.line) : k = CutAt(acc.line)
  BY CutWithin, AccSays
<1>2. PICK line \in Seq(Chars) : line = acc.line
  BY AccSays DEF Strings
<1>3. PICK part \in Seq(Chars) : part = SubSeq(line, 1, k)
  <2>1. SubSeq(line, 1, k) \in Seq(Chars)
    BY <1>1, <1>2
  <2> QED BY <2>1
<1>4. PICK rest \in Seq(Chars) : rest = SubSeq(line, k + 1, Len(line))
  <2>1. SubSeq(line, k + 1, Len(line)) \in Seq(Chars)
    BY <1>1, <1>2
  <2> QED BY <2>1
<1>5. line = part \o rest
  <2>1. Len(line) \in Nat /\ 1 \in 1 .. Len(line) + 1 /\ k \in 0 .. Len(line) /\ Len(line) \in k .. Len(line)
    BY <1>1, <1>2
  <2>2. SubSeq(line, 1, k) \o SubSeq(line, k + 1, Len(line)) = SubSeq(line, 1, Len(line))
    BY <2>1, ConcatAdjacentSubSeq
  <2> QED BY <1>3, <1>4, <2>2, SubSeqFull
<1>6. PICK chunk \in Strings : chunk = Join(acc.buffer, part) /\ Plain(chunk) = Plain(acc.buffer) \o Plain(part)
  BY AccSays, JoinSays DEF Strings
<1>7. PICK new : new = CutOff(acc)
  OBVIOUS
<1>8. new.chunks = Kept(acc.chunks, chunk) /\ new.buffer = <<>> /\ new.line = rest
  BY <1>1, <1>2, <1>3, <1>4, <1>6, <1>7 DEF CutOff
<1>9. new \in Accs
  <2>1. new.chunks \in Seq(Strings) /\ new.buffer \in Strings /\ new.line \in Strings
    BY <1>8, AccSays, KeptSays, EmptySeq DEF Strings
  <2>2. new = [chunks |-> new.chunks, buffer |-> new.buffer, line |-> new.line]
    BY <1>7 DEF CutOff
  <2> QED BY <2>1, <2>2 DEF Accs
<1>10. Says(new.chunks) = Says(acc.chunks) \o Plain(chunk)
  BY <1>8, AccSays, KeptSays
<1>11. Plain(line) = Plain(part) \o Plain(rest) /\ Plain(part) \in Seq(Chars) /\ Plain(rest) \in Seq(Chars)
  BY <1>5, PlainConcat
<1>12. PICK a, b, c, d \in Seq(Chars) : /\ a = Says(acc.chunks) /\ b = Plain(acc.buffer)
                                        /\ c = Plain(part) /\ d = Plain(rest)
  BY <1>11, AccSays
<1>13. Told(acc) = (a \o b) \o (c \o d)
  BY <1>2, <1>11, <1>12 DEF Told
<1>14. Told(new) = ((a \o (b \o c)) \o <<>>) \o d
  BY <1>6, <1>8, <1>10, <1>12, PlainBlank DEF Told
<1>15. (a \o (b \o c)) \o d = (a \o b) \o (c \o d) /\ a \o (b \o c) \in Seq(Chars)
  <2>1. a \in Strings /\ b \in Strings /\ c \in Strings /\ d \in Strings
    BY DEF Strings
  <2>2. Regroups(a, b, c, d)
    BY <2>1, FourConcat
  <2> QED BY <2>2, Zenon DEF Regroups, Strings
<1>16. (a \o (b \o c)) \o <<>> = a \o (b \o c)
  BY <1>15, ConcatEmptySeq
<1> QED BY <1>7, <1>9, <1>13, <1>14, <1>15, <1>16

\* p cuts part after part off a line as _wrap_line does.
WrapBy(acc, p) == p = [i \in 0 .. Len(acc.line) |-> IF i = 0 THEN acc
                         ELSE IF Len(p[i - 1].line) > Limit THEN CutOff(p[i - 1]) ELSE p[i - 1]]

\* _wrap_line is a recursive function: it is chosen among those that go step by step.
LEMMA WrapIsChosen ==
  ASSUME NEW acc
  PROVE  _wrap_line(acc) = (CHOOSE p : WrapBy(acc, p))[Len(acc.line)]
  BY Zenon DEF _wrap_line, WrapBy

\* The loop over a line loses nothing of it.
LEMMA WrapTells ==
  ASSUME NEW acc \in Accs
  PROVE  _wrap_line(acc) \in Accs /\ Told(_wrap_line(acc)) = Told(acc)
<1> DEFINE n == Len(acc.line)
           Step(x) == IF Len(x.line) > Limit THEN CutOff(x) ELSE x
           F == [x \in Accs \X (1 .. n) |-> Step(x[1])]
<1>1. n \in Nat
  BY AccSays DEF Strings
<1>2. \A x \in Accs : Step(x) \in Accs /\ Told(Step(x)) = Told(x)
  BY CutOffTells
<1> HIDE DEF Step
<1>3. F \in [Accs \X (1 .. n) -> Accs]
  BY <1>2
<1>4. PICK p \in [0 .. n -> Accs] : p[0] = acc /\ \A i \in 1 .. n : p[i] = F[p[i - 1], i]
  <2> HIDE DEF n, F
  <2>1. StepsTo(n, Accs, acc, F)
    BY <1>1, <1>3, StepByStep
  <2> QED BY <2>1 DEF StepsTo
<1>5. \A i \in 1 .. n : p[i] = Step(p[i - 1])
  <2> TAKE i \in 1 .. n
  <2>1. i - 1 \in 0 .. n
    BY <1>1
  <2>2. <<p[i - 1], i>> \in Accs \X (1 .. n)
    BY <1>4, <2>1
  <2> QED BY <1>4, <2>2
<1>6. WrapBy(acc, p)
  <2>1. p = [i \in 0 .. n |-> IF i = 0 THEN acc ELSE Step(p[i - 1])]
    <3> HIDE DEF F
    <3>1. \A i \in 0 .. n : i # 0 => i \in 1 .. n
      OBVIOUS
    <3> QED BY <1>4, <1>5, <3>1
  <2> QED BY <2>1 DEF WrapBy, Step
<1> DEFINE q == CHOOSE x : WrapBy(acc, x)
<1>7. WrapBy(acc, q)
  BY <1>6
<1>8. _wrap_line(acc) = q[n]
  BY WrapIsChosen
<1> HIDE DEF q
<1>9. q[0] = acc /\ \A i \in 1 .. n : q[i] = Step(q[i - 1])
  <2>1. q = [i \in 0 .. n |-> IF i = 0 THEN acc ELSE Step(q[i - 1])]
    BY <1>7 DEF WrapBy, Step
  <2>2. 0 \in 0 .. n /\ \A i \in 1 .. n : i \in 0 .. n /\ i # 0
    BY <1>1
  <2> HIDE DEF n
  <2> QED BY <2>1, <2>2
<1> DEFINE T == {i \in 0 .. n : q[i] \in Accs /\ Told(q[i]) = Told(acc)}
<1>10. 0 \in T
  BY <1>1, <1>9
<1>11. ASSUME NEW i \in 1 .. n, i - 1 \in T PROVE i \in T
  <2>1. q[i - 1] \in Accs /\ Told(q[i - 1]) = Told(acc)
    BY <1>11
  <2>2. q[i] \in Accs /\ Told(q[i]) = Told(acc)
    BY <1>2, <1>9, <2>1
  <2>3. i \in 0 .. n
    OBVIOUS
  <2> QED BY <2>2, <2>3
<1>12. \A i \in 0 .. n : i \in T
  <2> HIDE DEF T, n
  <2> QED BY <1>1, <1>10, <1>11, UpTo
<1>13. n \in T
  BY <1>1, <1>12
<1> QED BY <1>8, <1>13

\* A line added is not lost, unless it says nothing.
LEMMA AddLineTells ==
  ASSUME NEW acc \in Accs
  PROVE  /\ AddLine(acc) \in Accs /\ AddLine(acc).line = <<>>
         /\ Told(AddLine(acc)) = Told(acc)
<1>1. PICK cut \in Accs : cut = _wrap_line(acc) /\ Told(cut) = Told(acc)
  BY WrapTells
<1>2. PICK joined \in Strings : /\ joined = Join(cut.buffer, cut.line)
                                /\ Plain(joined) = Plain(cut.buffer) \o Plain(cut.line)
  BY AccSays, JoinSays
<1>3. PICK new : new = AddLine(acc)
  OBVIOUS
<1>4. <<>> \in Strings /\ Plain(<<>>) = <<>>
  BY EmptySeq, PlainBlank DEF Strings
<1>5. CASE Readable(acc.line) = <<>> /\ Readable(acc.buffer) = <<>>
  <2>1. new = [acc EXCEPT !.line = <<>>]
    BY <1>3, <1>5 DEF AddLine
  <2>2. new = [chunks |-> acc.chunks, buffer |-> acc.buffer, line |-> <<>>]
    BY <2>1 DEF Accs
  <2>3. Plain(acc.line) = <<>>
    <3>1. \A T : Only(<<>>, T) = <<>>
      BY OnlyOne
    <3> QED BY <1>5, <3>1 DEF Plain
  <2>4. Told(new) = Told(acc)
    BY <1>4, <2>2, <2>3 DEF Told
  <2>5. new \in Accs /\ new.line = <<>>
    BY <1>4, <2>2, AccSays DEF Accs
  <2> QED BY <1>3, <2>4, <2>5
<1>6. CASE ~(Readable(acc.line) = <<>> /\ Readable(acc.buffer) = <<>>) /\ Len(joined) <= Limit
  <2>1. new = [chunks |-> cut.chunks, buffer |-> joined, line |-> <<>>]
    BY <1>1, <1>2, <1>3, <1>6 DEF AddLine
  <2>2. new \in Accs /\ new.line = <<>>
    BY <1>4, <2>1, AccSays DEF Accs
  <2>3. Told(new) = (Says(cut.chunks) \o (Plain(cut.buffer) \o Plain(cut.line))) \o <<>>
    BY <1>2, <1>4, <2>1 DEF Told
  <2>4. Told(new) = Told(cut)
    <3>1. Told(cut) = (Says(cut.chunks) \o Plain(cut.buffer)) \o Plain(cut.line)
      BY DEF Told
    <3>2. \A p, q, r \in Seq(Chars) : (p \o (q \o r)) \o <<>> = (p \o q) \o r
      <4> TAKE p, q, r \in Seq(Chars)
      <4>1. (p \o q) \o r = p \o (q \o r)
        BY ConcatAssociative
      <4>2. p \o (q \o r) \in Seq(Chars)
        BY ConcatProperties
      <4>3. (p \o (q \o r)) \o <<>> = p \o (q \o r)
        BY <4>2, ConcatEmptySeq
      <4> QED BY <4>1, <4>3, Zenon
    <3>3. Says(cut.chunks) \in Seq(Chars) /\ Plain(cut.buffer) \in Seq(Chars) /\ Plain(cut.line) \in Seq(Chars)
      BY AccSays
    <3> QED BY <2>3, <3>1, <3>2, <3>3, Zenon
  <2> QED BY <1>1, <1>3, <2>2, <2>4
<1>7. CASE ~(Readable(acc.line) = <<>> /\ Readable(acc.buffer) = <<>>) /\ ~(Len(joined) <= Limit)
  <2>1. new = [chunks |-> Kept(cut.chunks, cut.buffer), buffer |-> cut.line, line |-> <<>>]
    BY <1>1, <1>2, <1>3, <1>7 DEF AddLine
  <2>2. /\ Kept(cut.chunks, cut.buffer) \in Seq(Strings)
        /\ Says(Kept(cut.chunks, cut.buffer)) = Says(cut.chunks) \o Plain(cut.buffer)
    BY AccSays, KeptSays
  <2>3. new \in Accs /\ new.line = <<>>
    BY <1>4, <2>1, <2>2, AccSays DEF Accs
  <2>4. Told(new) = ((Says(cut.chunks) \o Plain(cut.buffer)) \o Plain(cut.line)) \o <<>>
    BY <1>4, <2>1, <2>2 DEF Told
  <2>5. Told(cut) = (Says(cut.chunks) \o Plain(cut.buffer)) \o Plain(cut.line)
    BY DEF Told
  <2>6. Told(cut) \in Seq(Chars)
    <3>1. Says(cut.chunks) \in Seq(Chars) /\ Plain(cut.buffer) \in Seq(Chars) /\ Plain(cut.line) \in Seq(Chars)
      BY AccSays
    <3> QED BY <2>5, <3>1, ConcatProperties
  <2>7. Told(cut) \o <<>> = Told(cut)
    BY <2>6, ConcatEmptySeq
  <2> QED BY <1>1, <1>3, <2>3, <2>4, <2>5, <2>7
<1> QED BY <1>5, <1>6, <1>7

\* p reads a text character by character as Lines does.
LinesBy(text, p) == p = [i \in 0 .. Len(text) |->
  IF i = 0 THEN [chunks |-> <<>>, buffer |-> <<>>, line |-> <<>>]
  ELSE IF text[i] = "\n" THEN AddLine(p[i - 1]) ELSE [p[i - 1] EXCEPT !.line = Append(@, text[i])]]

\* Lines is a recursive function: it is chosen among those that go step by step.
LEMMA LinesIsChosen ==
  ASSUME NEW text
  PROVE  Lines(text) = (CHOOSE p : LinesBy(text, p))[Len(text)]
  BY Zenon DEF Lines, LinesBy

\* One character is read.
Read(acc, c) == IF c = "\n" THEN AddLine(acc) ELSE [acc EXCEPT !.line = Append(@, c)]

\* A character read is not lost.
LEMMA ReadTells ==
  ASSUME NEW acc \in Accs, NEW c \in Chars
  PROVE  /\ Read(acc, c) \in Accs
         /\ Told(Read(acc, c)) = Told(acc) \o Plain(<<c>>)
         /\ Told(acc) \in Strings
<1>1. Told(acc) \in Strings
  <2>1. Says(acc.chunks) \in Seq(Chars) /\ Plain(acc.buffer) \in Seq(Chars) /\ Plain(acc.line) \in Seq(Chars)
    BY AccSays
  <2> QED BY <2>1, ConcatProperties DEF Told, Strings
<1>2. CASE c = "\n"
  <2>1. Told(acc) \o <<>> = Told(acc)
    BY <1>1, ConcatEmptySeq DEF Strings
  <2>2. Plain(<<c>>) = <<>>
    BY <1>2, PlainBlank
  <2> QED BY <1>1, <1>2, <2>1, <2>2, AddLineTells DEF Read
<1>3. CASE c # "\n"
  <2>1. PICK one \in Seq(Chars) : one = <<c>>
    <3>1. <<c>> \in Seq(Chars)
      OBVIOUS
    <3> QED BY <3>1
  <2>2. PICK line \in Seq(Chars) : line = acc.line
    BY AccSays DEF Strings
  <2>3. PICK new : new = Read(acc, c)
    OBVIOUS
  <2>4. new = [chunks |-> acc.chunks, buffer |-> acc.buffer, line |-> Append(line, c)]
    BY <1>3, <2>2, <2>3 DEF Read, Accs
  <2>5. Append(line, c) = line \o one /\ Append(line, c) \in Seq(Chars)
    BY <2>1, AppendIsConcat, AppendProperties
  <2>6. Plain(line \o one) = Plain(line) \o Plain(one) /\ Plain(line) \in Seq(Chars)
    BY PlainConcat
  <2>7. Plain(one) \in Seq(Chars)
    BY PlainConcat
  <2>8. new \in Accs
    BY <2>4, <2>5, AccSays DEF Accs, Strings
  <2>9. PICK a, b, d, e \in Seq(Chars) : /\ a = Says(acc.chunks) /\ b = Plain(acc.buffer)
                                         /\ d = Plain(line) /\ e = Plain(one)
    BY <2>6, <2>7, AccSays
  <2>10. Told(new) = (a \o b) \o (d \o e) /\ Told(acc) = (a \o b) \o d
    BY <2>2, <2>4, <2>5, <2>6, <2>9 DEF Told
  <2>11. ((a \o b) \o d) \o e = (a \o b) \o (d \o e)
    <3>2. a \o b \in Seq(Chars)
      BY ConcatProperties
    <3>3. d \in Seq(Chars) /\ e \in Seq(Chars)
      OBVIOUS
    <3> QED BY <3>2, <3>3, ThreeConcat, Zenon
  <2> QED BY <1>1, <2>1, <2>3, <2>8, <2>9, <2>10, <2>11
<1> QED BY <1>2, <1>3

\* What is read of a text is in what the loop over its lines has.
LEMMA LinesTell ==
  ASSUME NEW text \in Strings
  PROVE  Lines(text) \in Accs /\ Told(Lines(text)) = Plain(text)
<1> DEFINE n == Len(text)
           first == [chunks |-> <<>>, buffer |-> <<>>, line |-> <<>>]
           F == [x \in Accs \X (1 .. n) |-> Read(x[1], text[x[2]])]
<1>1. n \in Nat /\ \A i \in 1 .. n : text[i] \in Chars
  BY ElementOfSeq DEF Strings
<1>2. first \in Accs /\ Told(first) = <<>>
  <2>1. <<>> \in Seq(Strings) /\ <<>> \in Strings
    BY EmptySeq DEF Strings
  <2>2. first \in Accs
    BY <2>1 DEF Accs
  <2>3. Told(first) = (<<>> \o <<>>) \o <<>>
    BY SaysNothing, PlainBlank DEF Told
  <2> QED BY <2>2, <2>3
<1> HIDE DEF first
<1>3. F \in [Accs \X (1 .. n) -> Accs]
  BY <1>1, ReadTells
<1>4. PICK p \in [0 .. n -> Accs] : p[0] = first /\ \A i \in 1 .. n : p[i] = F[p[i - 1], i]
  <2> HIDE DEF n, F
  <2>1. StepsTo(n, Accs, first, F)
    BY <1>1, <1>2, <1>3, StepByStep
  <2> QED BY <2>1 DEF StepsTo
<1>5. \A i \in 1 .. n : p[i] = Read(p[i - 1], text[i])
  <2> TAKE i \in 1 .. n
  <2>1. i - 1 \in 0 .. n
    BY <1>1
  <2>2. <<p[i - 1], i>> \in Accs \X (1 .. n)
    BY <1>4, <2>1
  <2> QED BY <1>4, <2>2
<1>6. LinesBy(text, p)
  <2>1. p = [i \in 0 .. n |-> IF i = 0 THEN first ELSE Read(p[i - 1], text[i])]
    <3> HIDE DEF F
    <3>1. \A i \in 0 .. n : i # 0 => i \in 1 .. n
      OBVIOUS
    <3> QED BY <1>4, <1>5, <3>1
  <2> QED BY <2>1 DEF LinesBy, Read, first
<1> DEFINE q == CHOOSE x : LinesBy(text, x)
<1>7. LinesBy(text, q)
  BY <1>6
<1>8. Lines(text) = q[n]
  BY LinesIsChosen
<1> HIDE DEF q
<1>9. q[0] = first /\ \A i \in 1 .. n : q[i] = Read(q[i - 1], text[i])
  <2>1. q = [i \in 0 .. n |-> IF i = 0 THEN first ELSE Read(q[i - 1], text[i])]
    BY <1>7 DEF LinesBy, Read, first
  <2>2. 0 \in 0 .. n /\ \A i \in 1 .. n : i \in 0 .. n /\ i # 0
    BY <1>1
  <2> HIDE DEF n
  <2> QED BY <2>1, <2>2
<1> DEFINE T == {i \in 0 .. n : q[i] \in Accs /\ Told(q[i]) = Plain(SubSeq(text, 1, i))}
<1>10. 0 \in T
  <2>1. SubSeq(text, 1, 0) = <<>>
    OBVIOUS
  <2>2. q[0] \in Accs /\ Told(q[0]) = Plain(SubSeq(text, 1, 0))
    BY <1>2, <1>9, <2>1, PlainBlank
  <2>3. 0 \in 0 .. n
    BY <1>1
  <2> QED BY <2>2, <2>3
<1>11. ASSUME NEW i \in 1 .. n, i - 1 \in T PROVE i \in T
  <2>1. q[i - 1] \in Accs /\ Told(q[i - 1]) = Plain(SubSeq(text, 1, i - 1))
    BY <1>11
  <2>2. q[i] \in Accs /\ Told(q[i]) = Plain(SubSeq(text, 1, i - 1)) \o Plain(<<text[i]>>)
    BY <1>1, <1>9, <2>1, ReadTells
  <2>3. SubSeq(text, 1, i) = SubSeq(text, 1, i - 1) \o <<text[i]>>
    BY SubSeqRecursiveSecond DEF Strings
  <2>4. PICK before \in Seq(Chars) : before = SubSeq(text, 1, i - 1)
    <3>1. SubSeq(text, 1, i - 1) \in Seq(Chars)
      BY <1>1 DEF Strings
    <3> QED BY <3>1
  <2>5. PICK one \in Seq(Chars) : one = <<text[i]>>
    <3>1. <<text[i]>> \in Seq(Chars)
      BY <1>1
    <3> QED BY <3>1
  <2>6. Plain(before \o one) = Plain(before) \o Plain(one)
    BY PlainConcat
  <2>7. Told(q[i]) = Plain(SubSeq(text, 1, i))
    BY <2>2, <2>3, <2>4, <2>5, <2>6
  <2>8. i \in 0 .. n
    OBVIOUS
  <2> QED BY <2>2, <2>7, <2>8
<1>12. \A i \in 0 .. n : i \in T
  <2> HIDE DEF T, n
  <2> QED BY <1>1, <1>10, <1>11, UpTo
<1>13. n \in T
  BY <1>1, <1>12
<1>14. SubSeq(text, 1, n) = text
  BY SubSeqFull DEF Strings
<1> QED BY <1>8, <1>13, <1>14

\* The chunks of a text say what the text says, in its order and once: only white space
\* and separator lines are left out (discord_output_module.py _yield_chunks).
LEMMA ChunksSayTheText ==
  ASSUME NEW text \in Strings
  PROVE  _yield_chunks(text) \in Seq(Strings) /\ Says(_yield_chunks(text)) = Plain(text)
<1>1. PICK lines \in Accs : lines = Lines(text) /\ Told(lines) = Plain(text)
  BY LinesTell
<1>2. PICK end \in Accs : end = AddLine(lines) /\ end.line = <<>> /\ Told(end) = Told(lines)
  BY AddLineTells
<1>3. _yield_chunks(text) = Kept(end.chunks, end.buffer)
  BY <1>1, <1>2 DEF _yield_chunks
<1>4. Told(end) = (Says(end.chunks) \o Plain(end.buffer)) \o <<>>
  BY <1>2, PlainBlank DEF Told
<1>5. Says(end.chunks) \o Plain(end.buffer) \in Seq(Chars)
  <2>1. Says(end.chunks) \in Seq(Chars) /\ Plain(end.buffer) \in Seq(Chars)
    BY AccSays
  <2> QED BY <2>1, ConcatProperties
<1>6. Told(end) = Says(end.chunks) \o Plain(end.buffer)
  BY <1>4, <1>5, ConcatEmptySeq
<1>7. end.chunks \in Seq(Strings) /\ end.buffer \in Strings
  BY AccSays
<1>8. /\ Kept(end.chunks, end.buffer) \in Seq(Strings)
      /\ Says(Kept(end.chunks, end.buffer)) = Says(end.chunks) \o Plain(end.buffer)
  BY <1>7, KeptSays
<1> QED BY <1>1, <1>2, <1>3, <1>6, <1>8

-----------------------------------------------------------------------------
(* What arrives of a message                                               *)

\* A chunk that was sent.
Chunked == [msg : Messages, chunk : Strings]

\* What the chunks of message m are together.
Parts(chunks, m) == [i \in DOMAIN chunks |-> IF chunks[i].msg = m THEN chunks[i].chunk ELSE <<>>]
SentOf(chunks, m) == FlattenSeq(Parts(chunks, m))

\* The parts are as many as the chunks.
LEMMA PartsAre ==
  ASSUME NEW chunks \in Seq(Chunked), NEW m
  PROVE  /\ Parts(chunks, m) \in Seq(Strings) /\ Len(Parts(chunks, m)) = Len(chunks)
         /\ \A i \in 1 .. Len(chunks) : Parts(chunks, m)[i] = IF chunks[i].msg = m THEN chunks[i].chunk ELSE <<>>
<1>1. Len(chunks) \in Nat /\ DOMAIN chunks = 1 .. Len(chunks)
  BY LenProperties
<1>2. \A i \in 1 .. Len(chunks) : chunks[i] \in Chunked
  BY ElementOfSeq
<1>3. \A i \in 1 .. Len(chunks) : (IF chunks[i].msg = m THEN chunks[i].chunk ELSE <<>>) \in Strings
  BY <1>2, EmptySeq DEF Chunked, Strings
<1>4. Parts(chunks, m) = [i \in 1 .. Len(chunks) |-> IF chunks[i].msg = m THEN chunks[i].chunk ELSE <<>>]
  BY <1>1 DEF Parts
<1>5. Parts(chunks, m) \in [1 .. Len(chunks) -> Strings]
  BY <1>3, <1>4
<1>6. Parts(chunks, m) \in Seq(Strings) /\ Len(Parts(chunks, m)) = Len(chunks)
  BY <1>1, <1>5, IsASeq, LenProperties
<1> QED BY <1>4, <1>6

\* What is there of a message when a chunk more is sent.
LEMMA SentMore ==
  ASSUME NEW chunks \in Seq(Chunked), NEW e \in Chunked, NEW m
  PROVE  /\ SentOf(chunks, m) \in Strings /\ Append(chunks, e) \in Seq(Chunked)
         /\ e.msg = m => SentOf(Append(chunks, e), m) = SentOf(chunks, m) \o e.chunk
         /\ e.msg # m => SentOf(Append(chunks, e), m) = SentOf(chunks, m)
<1>1. PICK n \in Nat : n = Len(chunks)
  BY LenProperties
<1>2. PICK new : new = Append(chunks, e)
  OBVIOUS
<1>3. /\ new \in Seq(Chunked) /\ Len(new) = n + 1 /\ new[n + 1] = e
      /\ \A i \in 1 .. n : new[i] = chunks[i]
  BY <1>1, <1>2, AppendProperties
<1>4. PICK x \in Strings : x = IF e.msg = m THEN e.chunk ELSE <<>>
  <2>1. (IF e.msg = m THEN e.chunk ELSE <<>>) \in Strings
    BY EmptySeq DEF Chunked, Strings
  <2> QED BY <2>1
<1>5. PICK p \in Seq(Strings) : /\ p = Parts(chunks, m) /\ Len(p) = n
                                /\ \A i \in 1 .. n : p[i] = IF chunks[i].msg = m THEN chunks[i].chunk ELSE <<>>
  BY <1>1, PartsAre
<1>6. PICK q \in Seq(Strings) : /\ q = Parts(new, m) /\ Len(q) = n + 1
                                /\ \A i \in 1 .. n + 1 : q[i] = IF new[i].msg = m THEN new[i].chunk ELSE <<>>
  BY <1>3, PartsAre
<1>7. PICK one \in Seq(Strings) : one = <<x>> /\ Len(one) = 1 /\ one[1] = x
  <2>1. <<x>> \in Seq(Strings) /\ Len(<<x>>) = 1 /\ <<x>>[1] = x
    OBVIOUS
  <2> QED BY <2>1
<1>8. PICK w : w = Append(p, x)
  OBVIOUS
<1>9. q = w
  <2>1. /\ w \in Seq(Strings) /\ Len(w) = n + 1 /\ w[n + 1] = x
        /\ \A i \in 1 .. n : w[i] = p[i]
    BY <1>1, <1>5, <1>8, AppendProperties
  <2>2. \A i \in 1 .. n + 1 : i \in 1 .. n \/ i = n + 1
    BY <1>1
  <2>3. \A i \in 1 .. n : q[i] = w[i]
    <3> TAKE i \in 1 .. n
    <3>1. i \in 1 .. n + 1
      BY <1>1
    <3>2. q[i] = (IF chunks[i].msg = m THEN chunks[i].chunk ELSE <<>>)
      BY <1>3, <1>6, <3>1
    <3> QED BY <1>5, <2>1, <3>2
  <2>4. q[n + 1] = w[n + 1]
    BY <1>1, <1>3, <1>4, <1>6, <2>1
  <2>5. \A i \in 1 .. n + 1 : q[i] = w[i]
    BY <2>2, <2>3, <2>4
  <2> QED BY <1>1, <1>6, <2>1, <2>5, SeqEqual
<1>10. /\ FlattenSeq(p \o one) = FlattenSeq(p) \o FlattenSeq(one) /\ FlattenSeq(p) \in Seq(Chars)
       /\ FlattenSeq(one) = x /\ q = p \o one
  <2>1. FlattenSeq(p \o one) = FlattenSeq(p) \o FlattenSeq(one) /\ FlattenSeq(p) \in Seq(Chars)
    BY FlatConcat DEF Strings
  <2>2. FlattenSeq(one) = x
    BY <1>4, <1>7, FlatOne DEF Strings
  <2>3. Append(p, x) = p \o one
    BY <1>7, AppendIsConcat
  <2> QED BY <1>8, <1>9, <2>1, <2>2, <2>3
<1>11. SentOf(chunks, m) \in Strings /\ SentOf(new, m) = SentOf(chunks, m) \o x
  BY <1>5, <1>6, <1>9, <1>10 DEF SentOf, Strings
<1>12. CASE e.msg = m
  BY <1>2, <1>3, <1>4, <1>11, <1>12
<1>13. CASE e.msg # m
  <2>1. SentOf(chunks, m) \o <<>> = SentOf(chunks, m)
    BY <1>11, ConcatEmptySeq DEF Strings
  <2> QED BY <1>2, <1>3, <1>4, <1>11, <1>13, <2>1
<1> QED BY <1>12, <1>13

\* Nothing is there of a message no chunk of which was sent.
LEMMA SentNothing ==
  ASSUME NEW chunks \in Seq(Chunked), NEW m, ~Begun(m, chunks)
  PROVE  SentOf(chunks, m) = <<>>
<1>1. PICK n \in Nat : n = Len(chunks)
  BY LenProperties
<1>2. PICK p \in Seq(Strings) : /\ p = Parts(chunks, m) /\ Len(p) = n
                                /\ \A i \in 1 .. n : p[i] = IF chunks[i].msg = m THEN chunks[i].chunk ELSE <<>>
  BY <1>1, PartsAre
<1>3. \A i \in 1 .. n : p[i] = <<>>
  BY <1>1, <1>2 DEF Begun
<1> DEFINE q == [i \in 0 .. n |-> <<>>]
<1>4. Flattens(p, Chars, q)
  <2>1. q \in [0 .. n -> Seq(Chars)] /\ q[0] = <<>>
    BY EmptySeq
  <2>2. ASSUME NEW i \in 1 .. n PROVE q[i] = q[i - 1] \o p[i]
    <3>1. q[i] = <<>> /\ q[i - 1] = <<>>
      OBVIOUS
    <3>2. <<>> \o <<>> = <<>>
      BY EmptySeq, ConcatEmptySeq
    <3> QED BY <1>3, <3>1, <3>2
  <2> HIDE DEF q
  <2> QED BY <1>2, <2>1, <2>2 DEF Flattens
<1>5. q[n] = <<>>
  OBVIOUS
<1> HIDE DEF q
<1>6. FlattenSeq(p) = q[n]
  BY <1>2, <1>4, FlatOnly DEF Strings
<1> QED BY <1>2, <1>5, <1>6 DEF SentOf

\* What is left to send says what the next chunk says and then the others.
LEMMA HeadSays ==
  ASSUME NEW rest \in Seq(Strings), rest # <<>>
  PROVE  /\ Head(rest) \in Strings /\ Tail(rest) \in Seq(Strings)
         /\ Says(rest) = Plain(Head(rest)) \o Says(Tail(rest))
         /\ Plain(Head(rest)) \in Strings /\ Says(Tail(rest)) \in Strings
<1>1. Head(rest) \in Strings /\ Tail(rest) \in Seq(Strings) /\ rest = <<Head(rest)>> \o Tail(rest)
  BY HeadTailProperties
<1>2. PICK h \in Strings : h = Head(rest)
  BY <1>1
<1>3. PICK t \in Seq(Strings) : t = Tail(rest)
  BY <1>1
<1>4. PICK one \in Seq(Strings) : one = <<h>>
  <2>1. <<h>> \in Seq(Strings)
    OBVIOUS
  <2> QED BY <2>1
<1>5. rest = one \o t
  BY <1>1, <1>2, <1>3, <1>4
<1>6. FlattenSeq(one) = h
  BY <1>4, FlatOne DEF Strings
<1>7. /\ FlattenSeq(one \o t) = FlattenSeq(one) \o FlattenSeq(t)
      /\ FlattenSeq(one) \in Seq(Chars) /\ FlattenSeq(t) \in Seq(Chars)
  <2>1. FlattenSeq(one \o t) = FlattenSeq(one) \o FlattenSeq(t) /\ FlattenSeq(one) \in Seq(Chars)
    BY FlatConcat DEF Strings
  <2>2. FlattenSeq(t) \in Seq(Chars)
    BY FlatConcat DEF Strings
  <2> QED BY <2>1, <2>2
<1>8. PICK f \in Seq(Chars) : f = FlattenSeq(t)
  BY <1>7
<1>9. Plain(h \o f) = Plain(h) \o Plain(f) /\ Plain(h) \in Seq(Chars) /\ Plain(f) \in Seq(Chars)
  <2>1. Plain(h \o f) = Plain(h) \o Plain(f) /\ Plain(h) \in Seq(Chars)
    BY PlainConcat DEF Strings
  <2>2. Plain(f) \in Seq(Chars)
    BY PlainConcat
  <2> QED BY <2>1, <2>2
<1>10. Says(rest) = Plain(h \o f) /\ Says(t) = Plain(f)
  BY <1>5, <1>6, <1>7, <1>8 DEF Says
<1> QED BY <1>1, <1>2, <1>3, <1>9, <1>10 DEF Strings

-----------------------------------------------------------------------------
(* What was delivered has arrived whole                                    *)

\* Nothing of message m is on the way.
Over(m) ==
  /\ \A i \in 1 .. Len(queue) : queue[i] # m
  /\ \A s \in Senders : sending[s] # Nothing => sending[s].msg # m

\* What was sent of a message and what is left to send say together what its text
\* says.
SayTogether(row) ==
  /\ row.rest \in Seq(Strings)
  /\ Plain(SentOf(sent, row.msg)) \o Says(row.rest) = Plain(row.msg.text)

\* What was delivered has arrived whole and is over, and the rest is on its way.
TextsInv ==
  /\ sent \in Seq(Chunked)
  /\ delivered \subseteq Messages
  /\ \A m \in delivered : Made(m, cmd) /\ Over(m) /\ Plain(SentOf(sent, m)) = Plain(m.text)
  /\ \A s \in Senders : sending[s] # Nothing => SayTogether(sending[s])

\* What was sent of a message is what its chunks are together.
LEMMA TextSentIs ==
  ASSUME NEW m
  PROVE  TextSent(m) = SentOf(sent, m)
  BY DEF TextSent, SentOf, Parts

\* The text of a message is a text.
LEMMA TextsAreStrings == \A m \in Messages : m.text \in Strings
<1>1. <<>> \in Seq(Chars) /\ Ack \in Seq(Chars) /\ Texts \subseteq Seq(Chars)
  <2>1. "x" \in Chars
    BY DEF Chars
  <2>2. <<>> \in Seq(Chars) /\ <<"x">> \in Seq(Chars)
    BY <2>1
  <2> QED BY <2>2, ChatAssumption DEF Ack
<1> QED BY <1>1 DEF Messages, AnyText, Strings

\* A message that is taken up now has everything left to say.
LEMMA TakenSays ==
  ASSUME sent \in Seq(Chunked), NEW msg \in Messages, ~Begun(msg, sent)
  PROVE  SayTogether([msg |-> msg, rest |-> Chunks[msg.text]])
<1>1. msg.text \in Strings
  BY TextsAreStrings
<1>2. PICK rest : rest = Chunks[msg.text]
  OBVIOUS
<1>9. Chunks[msg.text] = _yield_chunks(msg.text)
  <2>1. msg.text \in AnyText
    BY DEF Messages
  <2> QED BY <2>1 DEF AnyText, Chunks
<1>3. rest \in Seq(Strings) /\ Says(rest) = Plain(msg.text)
  BY <1>1, <1>2, <1>9, ChunksSayTheText
<1>4. SentOf(sent, msg) = <<>> /\ Plain(<<>>) = <<>>
  BY SentNothing, PlainBlank
<1>5. <<>> \o Says(rest) = Says(rest)
  <2>1. Says(rest) \in Seq(Chars)
    BY <1>1, <1>3, PlainConcat DEF Strings
  <2> QED BY <2>1, ConcatEmptySeq
<1>6. PICK row : row = [msg |-> msg, rest |-> rest]
  OBVIOUS
<1>7. row.msg = msg /\ row.rest = rest
  BY <1>6
<1>8. SayTogether(row)
  BY <1>3, <1>4, <1>5, <1>7 DEF SayTogether
<1> QED BY <1>2, <1>6, <1>8

\* A step that sends no chunk and delivers nothing: what is queued was queued or is
\* new, and what is being sent was being sent or is taken up now.
LEMMA TextsStay ==
  ASSUME TextsInv, NumbersGoOn, UNCHANGED <<sent, delivered>>,
         \A i \in 1 .. Len(queue') : queue'[i] \notin delivered,
         \A s \in Senders : sending'[s] # Nothing =>
           \/ sending'[s] = sending[s]
           \/ /\ sending'[s].msg \notin delivered
              /\ SayTogether(sending'[s])
  PROVE  TextsInv'
<1>1. ASSUME NEW m \in delivered
      PROVE  Made(m, cmd') /\ Over(m)' /\ Plain(SentOf(sent, m)) = Plain(m.text)
  <2>1. m \in Messages /\ Made(m, cmd) /\ Over(m) /\ Plain(SentOf(sent, m)) = Plain(m.text)
    BY DEF TextsInv
  <2>2. Made(m, cmd')
    BY <2>1, MadeStays
  <2>3. \A i \in 1 .. Len(queue') : queue'[i] # m
    OBVIOUS
  <2>4. \A s \in Senders : sending'[s] # Nothing => sending'[s].msg # m
    BY <2>1 DEF Over
  <2> QED BY <2>1, <2>2, <2>3, <2>4 DEF Over
<1>2. ASSUME NEW s \in Senders, sending'[s] # Nothing PROVE SayTogether(sending[s])'
  <2>1. SayTogether(sending'[s])
    BY <1>2 DEF TextsInv
  <2>2. PICK row : row = sending'[s]
    OBVIOUS
  <2>3. row.rest \in Seq(Strings) /\ Plain(SentOf(sent', row.msg)) \o Says(row.rest) = Plain(row.msg.text)
    BY <2>1, <2>2 DEF SayTogether
  <2> QED BY <2>2, <2>3 DEF SayTogether
<1> QED BY <1>1, <1>2 DEF TextsInv

\* What is delivered is neither queued nor being sent.
LEMMA DeliveredIsOver ==
  ASSUME TextsInv
  PROVE  /\ \A i \in 1 .. Len(queue) : queue[i] \notin delivered
         /\ \A s \in Senders : sending[s] # Nothing => sending[s].msg \notin delivered
  BY DEF TextsInv, Over

\* A step that neither queues nor takes up a message nor sends a chunk.
LEMMA StillWhole ==
  ASSUME TextsInv, NumbersGoOn, UNCHANGED <<queue, sending, sent, delivered>>
  PROVE  TextsInv'
<1>1. \A i \in 1 .. Len(queue') : queue'[i] \notin delivered
  BY DeliveredIsOver
<1> QED BY <1>1, TextsStay

\* Command c queues new messages.
LEMMA SpeaksWhole ==
  ASSUME CommandsHold, QueueInv, TextsInv, NumbersGoOn, NEW c \in Commands, Speaks(c)
  PROVE  TextsInv'
<1>1. PICK msgs \in Seq(Messages) : /\ \A i \in 1 .. Len(msgs) : msgs[i].by = c
                                    /\ \A i \in 1 .. Len(msgs) : msgs[i].no = cmd[c].no + i - 1
                                    /\ Queued(msgs)
  BY DEF Speaks
<1>2. UNCHANGED <<sending, sent, delivered>>
  BY DEF Speaks
<1>3. CASE queue' = queue
  BY <1>2, <1>3, StillWhole
<1>4. CASE queue' = queue \o msgs
  <2>0. cmd[c].no \in Nat /\ Len(msgs) \in Nat /\ Len(queue) \in Nat
    BY <1>1 DEF CommandsHold, CommandRow, QueueInv
  <2>1. /\ Len(queue') = Len(queue) + Len(msgs)
        /\ \A i \in 1 .. Len(queue) : queue'[i] = queue[i]
        /\ \A i \in 1 .. Len(msgs) : queue'[Len(queue) + i] = msgs[i]
    BY <1>1, <1>4 DEF QueueInv
  <2>2. \A i \in 1 .. Len(queue') : i \in 1 .. Len(queue) \/ \E k \in 1 .. Len(msgs) : i = Len(queue) + k
    <3> TAKE i \in 1 .. Len(queue')
    <3>1. CASE i <= Len(queue)
      BY <2>0, <3>1
    <3>2. CASE i > Len(queue)
      <4>1. i - Len(queue) \in 1 .. Len(msgs) /\ i = Len(queue) + (i - Len(queue))
        BY <2>0, <2>1, <3>2
      <4> QED BY <4>1
    <3> QED BY <2>0, <2>1, <3>1, <3>2
  <2>3. \A k \in 1 .. Len(msgs) : msgs[k] \in Messages /\ msgs[k].no >= cmd[msgs[k].by].no
    BY <1>1, <2>0
  <2>4. \A k \in 1 .. Len(msgs) : msgs[k] \notin delivered
    BY <2>3, NewIsNew DEF TextsInv
  <2>5. \A i \in 1 .. Len(queue') : queue'[i] \notin delivered
    BY <2>1, <2>2, <2>4, DeliveredIsOver
  <2> QED BY <1>2, <2>5, TextsStay
<1> QED BY <1>1, <1>3, <1>4 DEF Queued

\* Command c takes up a new message itself.
LEMMA SendsWhole ==
  ASSUME CommandsHold, QueueInv, ChunksInv, TextsInv, NumbersGoOn, NEW c \in Commands, Sends(c)
  PROVE  TextsInv'
<1>1. PICK msg \in Messages : msg.by = c /\ msg.no = cmd[c].no /\ TakeUp(c, msg, 0)
  BY DEF Sends
<1>2. UNCHANGED <<queue, sent, delivered>>
  BY DEF Sends
<1>3. CASE UNCHANGED sending
  BY <1>2, <1>3, StillWhole
<1>4. CASE sending' = [sending EXCEPT ![c] = [msg |-> msg, rest |-> Chunks[msg.text]]]
  <2>1. PICK new : new = [msg |-> msg, rest |-> Chunks[msg.text]]
    OBVIOUS
  <2>2. DOMAIN sending = Senders /\ c \in Senders
    BY SendersAre DEF QueueInv
  <2>3. sending'[c] = new /\ new.msg = msg /\ \A s \in Senders \ {c} : sending'[s] = sending[s]
    BY <1>4, <2>1, <2>2
  <2>4. cmd[c].no \in Nat
    BY DEF CommandsHold, CommandRow
  <2>5. \A m \in Messages : Made(m, cmd) => m # msg
    BY <1>1, <2>4, NewIsNew
  <2>6. ~Begun(msg, sent)
    BY <2>5, SentAre DEF Begun, ChunksInTurn, ChunksInv
  <2>7. msg \notin delivered
    BY <2>5 DEF TextsInv
  <2>8. SayTogether(new)
    BY <2>1, <2>6, TakenSays DEF TextsInv
  <2>9. \A i \in 1 .. Len(queue') : queue'[i] \notin delivered
    BY <1>2, DeliveredIsOver
  <2> QED BY <1>2, <2>3, <2>7, <2>8, <2>9, TextsStay
<1> QED BY <1>1, <1>3, <1>4 DEF TakeUp

\* The worker takes up the first message of the queue.
LEMMA WorkerGetWhole ==
  ASSUME QueueInv, ChunksInv, TextsInv, NumbersGoOn, WorkerGet
  PROVE  TextsInv'
<1>1. /\ queue # <<>> /\ TakeUp(Worker, Head(queue), 1)
      /\ queue' = Tail(queue) /\ UNCHANGED <<sent, delivered>>
  BY DEF WorkerGet
<1>2. PICK msg \in Messages : msg = Head(queue) /\ msg = queue[1]
  BY <1>1 DEF QueueInv
<1>3. Worker \in Senders /\ DOMAIN sending = Senders
  BY SendersAre DEF QueueInv
<1>4. /\ Len(queue) \in Nat /\ 1 \in 1 .. Len(queue)
      /\ \A i \in 1 .. Len(queue') : queue'[i] = queue[i + 1] /\ i + 1 \in 1 .. Len(queue)
  BY <1>1 DEF QueueInv
<1>5. \A i \in 1 .. Len(queue') : queue'[i] \notin delivered
  BY <1>4, DeliveredIsOver
<1>6. msg \notin delivered /\ ~Begun(msg, sent)
  BY <1>2, <1>4, DeliveredIsOver DEF ChunksInv, MessagesApart
<1>7. PICK new : new = [msg |-> msg, rest |-> Chunks[msg.text]]
  OBVIOUS
<1>8. SayTogether(new) /\ new.msg = msg
  BY <1>6, <1>7, TakenSays DEF TextsInv
<1>9. CASE UNCHANGED sending
  BY <1>1, <1>5, <1>9, TextsStay
<1>10. CASE sending' = [sending EXCEPT ![Worker] = new]
  <2>1. sending'[Worker] = new /\ \A s \in Senders \ {Worker} : sending'[s] = sending[s]
    BY <1>3, <1>10
  <2> QED BY <1>1, <1>5, <1>6, <1>8, <2>1, TextsStay
<1>11. UNCHANGED sending \/ sending' = [sending EXCEPT ![Worker] = [msg |-> msg, rest |-> Chunks[msg.text]]]
  BY <1>1, <1>2 DEF TakeUp
<1> QED BY <1>7, <1>9, <1>10, <1>11

\* A message is over that is not delivered.
LEMMA FinishWhole ==
  ASSUME QueueInv, TextsInv, NumbersGoOn, NEW s \in Senders, Finish(s), UNCHANGED <<queue, sent, delivered>>
  PROVE  TextsInv'
<1>1. sending' = [sending EXCEPT ![s] = Nothing] /\ DOMAIN sending = Senders
  BY DEF Finish, QueueInv
<1>2. \A t \in Senders : sending'[t] # Nothing => sending'[t] = sending[t]
  BY <1>1
<1>3. \A i \in 1 .. Len(queue') : queue'[i] \notin delivered
  BY DeliveredIsOver
<1> QED BY <1>2, <1>3, TextsStay

\* A message of which every chunk was sent is delivered.
LEMMA SendDoneWhole ==
  ASSUME QueueInv, ChunksInv, TextsInv, NumbersGoOn, NEW s \in Senders, SendDone(s)
  PROVE  TextsInv'
<1>1. /\ sending[s] # Nothing /\ sending[s].rest = <<>> /\ UNCHANGED <<queue, sent>>
      /\ delivered' = delivered \union {sending[s].msg}
      /\ sending' = [sending EXCEPT ![s] = Nothing] /\ DOMAIN sending = Senders
  BY DEF SendDone, MaySend, Finish, QueueInv
<1>2. PICK msg \in Messages : msg = sending[s].msg
  BY <1>1 DEF QueueInv
<1>3. sending'[s] = Nothing /\ \A t \in Senders \ {s} : sending'[t] = sending[t]
  BY <1>1
<1>4. Plain(SentOf(sent, msg)) = Plain(msg.text)
  <2>1. Plain(SentOf(sent, msg)) \o Says(<<>>) = Plain(msg.text)
    BY <1>1, <1>2 DEF TextsInv, SayTogether
  <2>2. PICK a \in Seq(Chars) : a = Plain(SentOf(sent, msg))
    <3>1. SentOf(sent, msg) \in Seq(Chars)
      <4>1. Parts(sent, msg) \in Seq(Strings)
        BY PartsAre DEF TextsInv
      <4> QED BY <4>1, FlatConcat DEF SentOf, Strings
    <3> QED BY <3>1, PlainConcat
  <2>3. a \o <<>> = a
    BY ConcatEmptySeq
  <2> QED BY <2>1, <2>2, <2>3, SaysNothing
<1>5. ASSUME NEW m \in delivered'
      PROVE  m \in Messages /\ Made(m, cmd') /\ Over(m)' /\ Plain(SentOf(sent, m)) = Plain(m.text)
  <2>1. CASE m \in delivered
    <3>1. m \in Messages /\ Made(m, cmd) /\ Over(m) /\ Plain(SentOf(sent, m)) = Plain(m.text)
      BY <2>1 DEF TextsInv
    <3>2. Made(m, cmd')
      BY <3>1, MadeStays
    <3>3. Over(m)'
      BY <1>1, <1>3, <3>1 DEF Over
    <3> QED BY <3>1, <3>2, <3>3
  <2>2. CASE m = msg
    <3>1. Made(msg, cmd) /\ \A i \in 1 .. Len(queue) : msg # queue[i]
      BY <1>1, <1>2 DEF ChunksInv, MessagesApart
    <3>2. \A t \in Senders \ {s} : sending[t] # Nothing => sending[t].msg # msg
      BY <1>1, <1>2 DEF ChunksInv, MessagesApart
    <3>3. Over(msg)'
      BY <1>1, <1>3, <3>1, <3>2 DEF Over
    <3>4. Made(msg, cmd')
      BY <3>1, MadeStays
    <3> QED BY <1>4, <2>2, <3>3, <3>4
  <2> QED BY <1>1, <1>2, <2>1, <2>2
<1>6. ASSUME NEW t \in Senders, sending'[t] # Nothing PROVE SayTogether(sending[t])'
  <2>1. sending'[t] = sending[t] /\ SayTogether(sending[t])
    BY <1>3, <1>6 DEF TextsInv
  <2> QED BY <1>1, <2>1 DEF SayTogether
<1> QED BY <1>1, <1>5, <1>6 DEF TextsInv

\* A chunk is sent.
LEMMA SendChunkWhole ==
  ASSUME QueueInv, ChunksInv, TextsInv, NumbersGoOn, NEW s \in Senders, SendChunk(s)
  PROVE  TextsInv'
<1>1. /\ sending[s] # Nothing /\ sending[s].rest # <<>>
      /\ sent' = Append(sent, [msg |-> sending[s].msg, chunk |-> Head(sending[s].rest)])
      /\ sending' = [sending EXCEPT ![s].rest = Tail(@)]
      /\ UNCHANGED <<queue, delivered>> /\ DOMAIN sending = Senders
  BY DEF SendChunk, MaySend, QueueInv
<1>2. PICK msg \in Messages : msg = sending[s].msg
  BY <1>1 DEF QueueInv
<1>3. PICK rest \in Seq(Strings) : rest = sending[s].rest
  BY <1>1 DEF TextsInv, SayTogether
<1>4. /\ Head(rest) \in Strings /\ Tail(rest) \in Seq(Strings)
      /\ Says(rest) = Plain(Head(rest)) \o Says(Tail(rest))
      /\ Plain(Head(rest)) \in Strings /\ Says(Tail(rest)) \in Strings
  BY <1>1, <1>3, HeadSays
<1>5. PICK e \in Chunked : e = [msg |-> msg, chunk |-> Head(rest)] /\ e.msg = msg /\ e.chunk = Head(rest)
  <2>1. [msg |-> msg, chunk |-> Head(rest)] \in Chunked
    BY <1>4 DEF Chunked
  <2> QED BY <2>1
<1>6. sent \in Seq(Chunked) /\ sent' = Append(sent, e)
  BY <1>1, <1>2, <1>3, <1>5 DEF TextsInv
<1>7. sent' \in Seq(Chunked)
  BY <1>6, SentMore
<1>8. \A m : m # msg => SentOf(sent', m) = SentOf(sent, m)
  BY <1>5, <1>6, SentMore
<1>9. SentOf(sent, msg) \in Strings /\ SentOf(sent', msg) = SentOf(sent, msg) \o Head(rest)
  <2>1. SentOf(sent, msg) \in Strings /\ SentOf(Append(sent, e), msg) = SentOf(sent, msg) \o e.chunk
    BY <1>5, <1>6, SentMore
  <2> QED BY <1>5, <1>6, <2>1
<1>10. /\ \A t \in Senders \ {s} : sending'[t] = sending[t]
       /\ sending'[s].msg = msg /\ sending'[s].rest = Tail(rest)
  BY <1>1, <1>2, <1>3
<1>11. Plain(SentOf(sent', msg)) \o Says(Tail(rest)) = Plain(msg.text)
  <2>1. PICK a \in Strings : a = SentOf(sent, msg)
    BY <1>9
  <2>2. PICK h \in Strings : h = Head(rest)
    BY <1>4
  <2>3. Plain(a \o h) = Plain(a) \o Plain(h) /\ Plain(a) \in Seq(Chars)
    BY PlainConcat DEF Strings
  <2>4. PICK x, y, z \in Seq(Chars) : x = Plain(a) /\ y = Plain(h) /\ z = Says(Tail(rest))
    BY <1>4, <2>2, <2>3 DEF Strings
  <2>5. x \o (y \o z) = Plain(msg.text)
    BY <1>1, <1>2, <1>3, <1>4, <2>1, <2>2, <2>4 DEF TextsInv, SayTogether
  <2>6. (x \o y) \o z = x \o (y \o z)
    BY ThreeConcat, Zenon
  <2> QED BY <1>9, <2>1, <2>2, <2>3, <2>4, <2>5, <2>6
<1>12. \A t \in Senders \ {s} : sending[t] # Nothing => sending[t].msg # msg
  BY <1>1, <1>2 DEF ChunksInv, MessagesApart
<1>13. ASSUME NEW m \in delivered
       PROVE  Made(m, cmd') /\ Over(m)' /\ Plain(SentOf(sent', m)) = Plain(m.text)
  <2>1. m \in Messages /\ Made(m, cmd) /\ Over(m) /\ Plain(SentOf(sent, m)) = Plain(m.text)
    BY DEF TextsInv
  <2>2. Made(m, cmd')
    BY <2>1, MadeStays
  <2>3. m # msg
    BY <1>1, <1>2, <2>1 DEF Over
  <2>4. Over(m)'
    BY <1>1, <1>10, <2>1, <2>3 DEF Over
  <2> QED BY <1>8, <2>1, <2>2, <2>3, <2>4
<1>14. ASSUME NEW t \in Senders, sending'[t] # Nothing PROVE SayTogether(sending[t])'
  <2>1. CASE t = s
    <3>1. PICK row : row = sending'[s]
      OBVIOUS
    <3>2. row.rest \in Seq(Strings) /\ Plain(SentOf(sent', row.msg)) \o Says(row.rest) = Plain(row.msg.text)
      BY <1>4, <1>10, <1>11, <3>1
    <3> QED BY <2>1, <3>1, <3>2 DEF SayTogether
  <2>2. CASE t # s
    <3>1. sending'[t] = sending[t] /\ SayTogether(sending[t]) /\ sending[t].msg # msg
      BY <1>10, <1>12, <1>14, <2>2 DEF TextsInv
    <3>2. SentOf(sent', sending[t].msg) = SentOf(sent, sending[t].msg)
      BY <1>8, <3>1
    <3> QED BY <3>1, <3>2 DEF SayTogether
  <2> QED BY <2>1, <2>2
<1>15. delivered' \subseteq Messages
  BY <1>1 DEF TextsInv
<1> QED BY <1>1, <1>7, <1>13, <1>14, <1>15 DEF TextsInv

\* The numbers go on when a command acts.
LEMMA ActsNumber ==
  ASSUME CommandsHold, NEW c \in Commands, Acts(c)
  PROVE  NumbersGoOn
<1>1. \A d \in Commands : cmd[d].no \in Nat
  BY DEF CommandsHold, CommandRow
<1>2. PICK n \in CommandRow : cmd' = [cmd EXCEPT ![c] = n]
  BY DEF Acts, Moved
<1>3. cmd'[c] \in CommandRow /\ \A d \in Commands \ {c} : cmd'[d] = cmd[d]
  BY <1>2 DEF CommandsHold
<1>4. cmd'[c].no \in Nat
  BY <1>3 DEF CommandRow
<1>5. cmd'[c].no >= cmd[c].no
  <2>1. CASE Speaks(c)
    BY <1>1, <2>1 DEF Speaks
  <2>2. CASE Sends(c)
    BY <1>1, <2>2 DEF Sends
  <2> QED BY <2>1, <2>2 DEF Acts, Outputs
<1> QED BY <1>1, <1>3, <1>4, <1>5 DEF NumbersGoOn

\* At first nothing was sent.
LEMMA TextsStart == ChatInit => TextsInv
<1> SUFFICES ASSUME ChatInit PROVE TextsInv
  OBVIOUS
<1>1. sent = <<>> /\ delivered = {} /\ sending = [s \in Senders |-> Nothing]
  BY DEF ChatInit, OutputInit
<1>2. sent \in Seq(Chunked)
  BY <1>1, EmptySeq
<1> QED BY <1>1, <1>2 DEF TextsInv

\* Every step keeps what arrives whole.
LEMMA TextsKept == DiscordInv /\ ChunksInv /\ TextsInv /\ [ChatNext]_discordVars => TextsInv'
<1> SUFFICES ASSUME DiscordInv, ChunksInv, TextsInv, [ChatNext]_discordVars PROVE TextsInv'
  OBVIOUS
<1>0. QueueInv /\ TableInv /\ CommandsHold /\ ChatTypeOK
  BY DEF DiscordInv, TableInv, ConversationsAreSound
<1>1. \A c \in Commands : cmd[c].no \in Nat
  BY <1>0 DEF CommandsHold, CommandRow
<1>2. ASSUME UNCHANGED cmd PROVE NumbersGoOn
  BY <1>1, <1>2 DEF NumbersGoOn
<1>3. ASSUME UNCHANGED cmd, UNCHANGED <<queue, sending, sent, delivered>> PROVE TextsInv'
  BY <1>2, <1>3, StillWhole
<1>4. ASSUME NEW c \in Commands, Acts(c) PROVE TextsInv'
  <2>1. NumbersGoOn
    BY <1>0, <1>4, ActsNumber
  <2>2. CASE Speaks(c)
    BY <1>0, <2>1, <2>2, SpeaksWhole
  <2>3. CASE Sends(c)
    BY <1>0, <2>1, <2>3, SendsWhole
  <2>4. CASE QuietOutput
    BY <2>1, <2>4, StillWhole DEF QuietOutput
  <2> QED BY <1>4, <2>2, <2>3, <2>4 DEF Acts, Outputs
<1>5. CASE Serving \/ Stopping
  BY <1>3, <1>5 DEF Serving, Stopping, outputVars, chatVars
<1>6. ASSUME NEW m \in loaded, ShuttingDown(m) PROVE TextsInv'
  <2>1. UNCHANGED cmd
    BY <1>6 DEF ShuttingDown, chatVars
  <2>2. CASE UNCHANGED <<queue, sending, sent, delivered>>
    BY <1>3, <2>1, <2>2
  <2>3. CASE Finish(Worker) /\ UNCHANGED <<queue, sent, delivered>>
    BY <1>0, <1>2, <2>1, <2>3, SendersAre, FinishWhole
  <2> QED BY <1>6, <2>2, <2>3 DEF ShuttingDown, CancelWorker, outputVars
<1>7. ASSUME NEW s \in Senders, Sending(s) PROVE TextsInv'
  <2>1. UNCHANGED cmd /\ SendStep(s)
    BY <1>7 DEF Sending, chatVars
  <2>2. NumbersGoOn
    BY <1>2, <2>1
  <2>3. CASE SendChunk(s)
    BY <1>0, <2>2, <2>3, SendChunkWhole
  <2>4. CASE SendFails(s)
    BY <1>0, <2>2, <2>4, FinishWhole DEF SendFails
  <2>5. CASE SendDone(s)
    BY <1>0, <2>2, <2>5, SendDoneWhole
  <2> QED BY <2>1, <2>3, <2>4, <2>5 DEF SendStep
<1>8. CASE WorkingQueue
  <2>1. UNCHANGED cmd /\ WorkerGet
    BY <1>8 DEF WorkingQueue, chatVars
  <2> QED BY <1>0, <1>2, <2>1, WorkerGetWhole
<1>9. ASSUME NEW c \in Commands, NEW kind \in Kinds, Give(c, kind) PROVE TextsInv'
  BY <1>0, <1>4, <1>9, GiveActs
<1>10. ASSUME NEW c \in Commands, CommandStep(c) PROVE TextsInv'
  BY <1>0, <1>4, <1>10, CommandActs
<1>11. ASSUME NEW some, Deletes(some) PROVE TextsInv'
  BY <1>3, <1>11 DEF Deletes, QuietOutput
<1>12. CASE UNCHANGED discordVars
  BY <1>3, <1>12 DEF discordVars, outputVars, chatVars
<1> QED BY <1>5, <1>6, <1>7, <1>8, <1>9, <1>10, <1>11, <1>12
        DEF ChatNext, delete_conversation_thread, delete_conversations_before

\* Whatever the texts are and wherever they have to be cut, and however many commands
\* send at once and while the worker is at the queue, a message that counts as
\* delivered has arrived whole, in order and once, and its chunks together, with
\* nothing of another message between them (discord_output_module.py
\* _yield_chunks, _deliver_in_chunks).
THEOREM MessagesComeWhole == ChatSpec => []MessagesArriveWhole
<1>1. ChatInit => DiscordInv /\ ChunksInv /\ TextsInv
  BY DiscordInvStarts, ChunksStart, TextsStart
<1>2. DiscordInv /\ ChunksInv /\ TextsInv /\ [ChatNext]_discordVars => (DiscordInv /\ ChunksInv /\ TextsInv)'
  BY DiscordInvKept, ChunksKept, TextsKept
<1>3. ChunksInv /\ TextsInv => MessagesArriveWhole
  BY TextSentIs DEF ChunksInv, ChunksInTurn, TextsInv, MessagesArriveWhole, TextsArriveWhole
<1> QED BY <1>1, <1>2, <1>3, PTL DEF ChatSpec

-----------------------------------------------------------------------------
(* The commands find their modules                                         *)

\* Commands are only given where the input module is.
GivenInv == \A c \in Commands : cmd[c].pc # "new" => "social_input" \in loaded

\* The modules the steps of a command wait for are ready.
ModulesFound ==
  phase = "serving" =>
    \A c \in Commands : cmd[c].pc # "new" => {"discord_output", "discord_chat", "openai"} \subseteq ready

\* No step takes the input module away.
LEMMA GivenKept == DiscordInv /\ GivenInv /\ [ChatNext]_discordVars => GivenInv'
<1> SUFFICES ASSUME DiscordInv, GivenInv, [ChatNext]_discordVars PROVE GivenInv'
  OBVIOUS
<1>0. QueueInv /\ CommandsHold /\ TableInv /\ ChatTypeOK /\ StartupTypeOK
  BY DEF DiscordInv, TableInv, ConversationsAreSound, StartupInv
<1>1. ASSUME UNCHANGED <<cmd, loaded>> PROVE GivenInv'
  BY <1>1 DEF GivenInv
<1>2. CASE Serving \/ Stopping \/ \E m \in loaded : ShuttingDown(m)
  <2>1. UNCHANGED cmd
    BY <1>2 DEF Serving, Stopping, ShuttingDown, chatVars
  <2>2. UNCHANGED loaded
    BY <1>2 DEF Serving, Stopping, ShuttingDown, StartupStep, Proceed, Started, StartRaises, StartedWithoutBot,
                AuthGivesUp, Serve, Exit, Stop, ShutDown
  <2> QED BY <1>1, <2>1, <2>2
<1>3. CASE WorkingQueue \/ \E s \in Senders : Sending(s)
  BY <1>1, <1>3 DEF WorkingQueue, Sending, startupVars, chatVars
<1>4. ASSUME NEW c \in Commands, NEW kind \in Kinds, Give(c, kind) PROVE GivenInv'
  <2>1. "social_input" \in loaded /\ UNCHANGED loaded
    BY <1>0, <1>4 DEF Give, Registered, StartupTypeOK, QuietStartup, startupVars
  <2> QED BY <2>1 DEF GivenInv
<1>5. ASSUME NEW c \in Commands, CommandStep(c) PROVE GivenInv'
  <2>1. UNCHANGED loaded
    BY <1>5 DEF CommandStep, Operation, _handle_summarize_command, summarize_channel, summarize_chat, deliver_summary,
       _handle_persona_command, _persona_fetch_persona, _persona_fetch_conversation, _persona_fetch_channel_history,
       _persona_insert_conversation_input, generate_persona_response, _persona_generate_response,
       deliver_persona_response, send_channel_message, QuietStartup, startupVars
  <2>2. cmd[c].pc # "new"
    BY <1>5 DEF CommandStep, Operation, _handle_rpc_command, _handle_register_command, _handle_credits_command,
       _handle_guildcredits_command, _handle_summarize_command, summarize_channel, summarize_chat, deliver_summary,
       _handle_persona_command, _persona_fetch_persona, _persona_fetch_conversation, _persona_fetch_channel_history,
       _persona_insert_conversation_input, generate_persona_response, _persona_generate_response,
       deliver_persona_response, send_channel_message, In
  <2> QED BY <2>1, <2>2 DEF GivenInv
<1>6. ASSUME NEW some, Deletes(some) PROVE GivenInv'
  BY <1>1, <1>6 DEF Deletes, QuietStartup, startupVars
<1>7. CASE UNCHANGED discordVars
  BY <1>1, <1>7 DEF discordVars, startupVars, chatVars
<1> QED BY <1>2, <1>3, <1>4, <1>5, <1>6, <1>7
        DEF ChatNext, delete_conversation_thread, delete_conversations_before

\* While the server serves, every command that was given finds the modules ready that
\* its steps wait for (Reached), whichever are installed and however the startups went:
\* nothing else keeps a command from going on (discord_input_provider.py
\* _register_commands; discord_chat_module.py on_ready).
THEOREM CommandsFindTheirModules == ChatSpec => []ModulesFound
<1>1. ChatInit => DiscordInv /\ GivenInv
  <2>1. ChatInit => GivenInv
    BY DEF ChatInit, GivenInv, Fresh
  <2> QED BY <2>1, DiscordInvStarts
<1>2. DiscordInv /\ GivenInv /\ [ChatNext]_discordVars => (DiscordInv /\ GivenInv)'
  BY DiscordInvKept, GivenKept
<1>3. DiscordInv /\ GivenInv => ModulesFound
  <2> SUFFICES ASSUME DiscordInv, GivenInv, phase = "serving", NEW c \in Commands, cmd[c].pc # "new"
               PROVE  {"discord_output", "discord_chat", "openai"} \subseteq ready
    BY DEF ModulesFound
  <2>1. StartupIsSound
    BY StartupSoundBy DEF DiscordInv
  <2>2. ready = loaded /\ loaded \in Installations /\ "social_input" \in loaded
    BY <2>1 DEF StartupIsSound, ServedWhenReady, StartupTypeOK, GivenInv
  <2> QED BY <2>2, ChatAssumption
<1> QED BY <1>1, <1>2, <1>3, PTL DEF ChatSpec
=============================================================================
