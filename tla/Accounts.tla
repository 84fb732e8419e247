------------------------------- MODULE Accounts -------------------------------
(***************************************************************************)
(* Accounts and the identifiers people sign in with: account_users,         *)
(* users_auth, and OauthModule's calls that find, create, link and unlink   *)
(* them.  Every request to the database commits by itself; creating an      *)
(* account and unlinking a provider are transactions.  A sign-in ends in    *)
(* the step "resolved", where module Sessions and module McpGateway go on.  *)
(*                                                                          *)
(* What the identity providers answer is taken as given: an identity is an  *)
(* identifier with its provider and e-mail address.                         *)
(***************************************************************************)
EXTENDS Roles

CONSTANTS
  Identities,       \* what people sign in with
  Providers,        \* auth_providers
  ProviderOf,       \* the provider of each identity
  EmailOf,          \* the address of each identity
  FirstAccounts,    \* accounts at the start: guid to the identity that made it
  NoProvider        \* NULL in providers_recid

ASSUME AccountsAssumption ==
  /\ Providers = {"discord", "google"}
  /\ ProviderOf \in [Identities -> Providers]
  /\ NoProvider \notin Providers \cup Users
  /\ DOMAIN FirstAccounts = FirstUsers
  \* the unique index on the identifier
  /\ \A u, v \in DOMAIN FirstAccounts : FirstAccounts[u] = FirstAccounts[v] => u = v

VARIABLES
  accounts,         \* account_users by guid: default provider and e-mail address
  auth,             \* users_auth by identifier: guid, provider, linked
  credits,          \* element_credits of users_credits
  moved             \* history: users one of whose identifiers was linked to another

accountVars == <<accounts, auth, credits, moved>>

-----------------------------------------------------------------------------
(* Statements *)

Put(f, k, v) == [x \in DOMAIN f \cup {k} |-> IF x = k THEN v ELSE f[x]]

\* vw_account_user_profile joins the default provider: without one, no row.
Visible(u) == u \in DOMAIN accounts /\ accounts[u].provider # NoProvider

HasIdentifier(i) == i \in DOMAIN auth /\ auth[i].linked /\ auth[i].provider = ProviderOf[i]

\* get_by_provider_identifier_v1: the guids it returns, at most one.
GetByIdentifier(i) == IF HasIdentifier(i) /\ Visible(auth[i].guid) THEN {auth[i].guid} ELSE {}

\* vw_user_discord_security does not join the account's default provider.
GetByDiscordId(i) == IF HasIdentifier(i) THEN {auth[i].guid} ELSE {}

EmailTaken(e) == \E u \in DOMAIN accounts : accounts[u].email = e

SetProviderRow(u, p) == accounts' = [accounts EXCEPT ![u].provider = p]

\* The row a call is linked to, created or moved.
LinkRow(u, i) ==
  /\ auth' = Put(auth, i, [guid |-> u, provider |-> ProviderOf[i], linked |-> TRUE])
  /\ moved' = IF i \in DOMAIN auth /\ auth[i].guid # u THEN moved \cup {auth[i].guid} ELSE moved

Linked(u, a) == {i \in DOMAIN a : a[i].guid = u /\ a[i].linked}

\* unlink_provider_v1, one transaction.  Without a linked identifier the account
\* loses its roles, default provider and address; no cached mask follows.
UnlinkRows(u, p) ==
  LET rest == [i \in DOMAIN auth |-> IF auth[i].guid = u /\ auth[i].provider = p
                                     THEN [auth[i] EXCEPT !.linked = FALSE] ELSE auth[i]]
      last == Linked(u, rest) = {}
  IN  /\ auth' = rest
      /\ accounts' = [accounts EXCEPT
                        ![u].provider = IF last \/ @ = p THEN NoProvider ELSE @,
                        ![u].email = IF last THEN "" ELSE @]
      /\ mask' = [mask EXCEPT ![u] = IF last THEN {} ELSE @]
      /\ wanted' = [wanted EXCEPT ![u] = IF last THEN {} ELSE @]
      /\ lagging' = IF last THEN lagging \cup {u} ELSE lagging

-----------------------------------------------------------------------------
(* create_from_provider_v1, at the end of a sign-in or of a registration *)

FreeGuids == Users \ DOMAIN accounts

\* After it: the account, if it can be seen by its identifier.
GetsAccount(c, i) ==
  LET found == GetByIdentifier(i) IN
  IF found = {} THEN Ends(c)
  ELSE Goes(c, [op |-> call[c].op, step |-> "resolved", id |-> i,
                user |-> CHOOSE u \in found : TRUE])

CreatedRows(c, u, i) ==
  /\ accounts' = Put(accounts, u, [provider |-> ProviderOf[i], email |-> EmailOf[i]])
  /\ auth' = Put(auth, i, [guid |-> u, provider |-> ProviderOf[i], linked |-> TRUE])
  /\ credits' = Put(credits, u, 50)
  /\ mask' = Put(mask, u, NewMask)
  /\ wanted' = Put(wanted, u, NewMask)
  /\ Goes(c, [op |-> call[c].op, step |-> "resolved", id |-> i, user |-> u])

FindDuplicate(c) ==
  /\ At(c, "create")
  /\ Goes(c, [call[c] EXCEPT !.step = IF call[c].id \in DOMAIN auth THEN "adopt" ELSE "insert"])
  /\ UNCHANGED <<rolesVars, accountVars>>

\* Mutant: every insert commits by itself.
InsertAccountRows(c) ==
  /\ At(c, "insert")
  /\ LET i == call[c].id IN
     \E u \in FreeGuids :
       IF i \in DOMAIN auth
       THEN /\ accounts' = Put(accounts, u, [provider |-> ProviderOf[i], email |-> EmailOf[i]])
            /\ Ends(c)
            /\ UNCHANGED <<auth, credits, mask, wanted>>
       ELSE CreatedRows(c, u, i)
  /\ UNCHANGED <<defs, copies, reverted, lagging, moved>>

\* The transaction: an identifier that has a row by now violates the unique index,
\* nothing is inserted and the call raises.
InsertAccount(c) ==
  /\ At(c, "insert")
  /\ LET i == call[c].id IN
     IF i \in DOMAIN auth
     THEN Ends(c) /\ UNCHANGED <<accounts, auth, credits, mask, wanted>>
     ELSE \E u \in FreeGuids : CreatedRows(c, u, i)
  /\ UNCHANGED <<defs, copies, reverted, lagging, moved>>

\* The identifier has a row: it is linked again, ...
AdoptIdentifier(c) ==
  /\ At(c, "adopt")
  /\ LET i == call[c].id IN
     /\ auth' = [auth EXCEPT ![i].linked = TRUE, ![i].provider = ProviderOf[i]]
     /\ Goes(c, [op |-> call[c].op, step |-> "adopt account", id |-> i, user |-> auth[i].guid])
  /\ UNCHANGED <<rolesVars, accounts, credits, moved>>

\* ... and its provider becomes the default of the account found before.
AdoptAccount(c) ==
  /\ At(c, "adopt account")
  /\ SetProviderRow(call[c].user, ProviderOf[call[c].id])
  /\ Goes(c, [op |-> call[c].op, step |-> "get account", id |-> call[c].id])
  /\ UNCHANGED <<rolesVars, auth, credits, moved>>

GetAccount(c) ==
  /\ At(c, "get account")
  /\ GetsAccount(c, call[c].id)
  /\ UNCHANGED <<rolesVars, accountVars>>

-----------------------------------------------------------------------------
(* login_provider and the callback of an authorisation: resolve_user *)

\* lookup_user, with the one identifier that the provider's answer gives.
LookupUser(c, op, i) ==
  /\ Starts(c, op)
  /\ IF GetByIdentifier(i) = {}
     THEN Goes(c, [op |-> op, step |-> "relink", id |-> i])
     ELSE Goes(c, [op |-> op, step |-> "resolved", id |-> i, user |-> auth[i].guid])
  /\ UNCHANGED <<rolesVars, accountVars>>

\* The three providers' logins differ in their tokens alone; two are modelled.
LoginProvider(c, i) == LookupUser(c, "login", i)

AuthGoogleOauthLogin(c, i) == ProviderOf[i] = "google" /\ LoginProvider(c, i)

AuthDiscordOauthLogin(c, i) == ProviderOf[i] = "discord" /\ LoginProvider(c, i)

\* auth_oauth_relink, a procedure that is not in the repository: it may link a
\* row of the identifier again and make its provider the account's default.
RelinkProcedure(i) ==
  \/ UNCHANGED <<accounts, auth>>
  \/ /\ i \in DOMAIN auth
     /\ auth' = [auth EXCEPT ![i].linked = TRUE, ![i].provider = ProviderOf[i]]
     /\ SetProviderRow(auth[i].guid, ProviderOf[i])

RelinkProvider(c) ==
  /\ At(c, "relink")
  /\ RelinkProcedure(call[c].id)
  /\ Goes(c, [call[c] EXCEPT !.step = "get relinked"])
  /\ UNCHANGED <<rolesVars, credits, moved>>

GetRelinked(c) ==
  /\ At(c, "get relinked")
  /\ LET i == call[c].id IN
     IF GetByIdentifier(i) = {} THEN Goes(c, [call[c] EXCEPT !.step = "create"])
     ELSE Goes(c, [op |-> call[c].op, step |-> "resolved", id |-> i, user |-> auth[i].guid])
  /\ UNCHANGED <<rolesVars, accountVars>>

\* update_if_unedited, for an account whose default provider this is.
UpdateIfUnedited(u, i) ==
  accounts' = [accounts EXCEPT ![u].email = IF accounts[u].provider = ProviderOf[i] THEN EmailOf[i]
                                            ELSE @]

-----------------------------------------------------------------------------
(* register_discord_user and users:providers:create_from_provider *)

\* get_discord_user_security: a known user is told so.
RegisterDiscordUser(c, i) ==
  /\ Starts(c, "register")
  /\ GetByDiscordId(i) = {}
  /\ Goes(c, [op |-> "register", step |-> "email", id |-> i])
  /\ UNCHANGED <<rolesVars, accountVars>>

\* create_user_from_provider: raises if the address is taken.
CreateUserFromProvider(c) ==
  /\ At(c, "email")
  /\ IF EmailTaken(EmailOf[call[c].id]) THEN Ends(c)
     ELSE Goes(c, [call[c] EXCEPT !.step = "create"])
  /\ UNCHANGED <<rolesVars, accountVars>>

UsersProvidersCreate(c, i) ==
  /\ Starts(c, "create")
  /\ Goes(c, [op |-> "create", step |-> "email", id |-> i])
  /\ UNCHANGED <<rolesVars, accountVars>>

\* The credits of a registration; the other call has nothing left to do.
SetCredits(c) ==
  /\ At(c, "resolved")
  /\ call[c].op \in {"register", "create"}
  /\ credits' = IF call[c].op = "register" THEN Put(credits, call[c].user, 50) ELSE credits
  /\ Ends(c)
  /\ UNCHANGED <<rolesVars, accounts, auth, moved>>

-----------------------------------------------------------------------------
(* A user's providers *)

\* link_user_provider: another user's visible, linked identifier raises.
LinkUserProvider(c, u, i) ==
  /\ Starts(c, "link")
  /\ GetByIdentifier(i) \subseteq {u}
  /\ Goes(c, [op |-> "link", step |-> "link", user |-> u, id |-> i])
  /\ UNCHANGED <<rolesVars, accountVars>>

LinkProvider(c) ==
  /\ At(c, "link")
  /\ LinkRow(call[c].user, call[c].id)
  /\ Ends(c)
  /\ UNCHANGED <<rolesVars, accounts, credits>>

\* unlink_user_provider: the default provider is read from the profile, ...
UnlinkUserProvider(c, u, p, new) ==
  /\ Starts(c, "unlink")
  /\ Goes(c, [op |-> "unlink", step |-> "unlink", user |-> u, provider |-> p, new |-> new,
              default |-> IF Visible(u) THEN accounts[u].provider ELSE NoProvider])
  /\ UNCHANGED <<rolesVars, accountVars>>

\* ... the provider unlinked, and with it the default, for which there must be a
\* new one.  After the last identifier only a procedure that is not in the
\* repository is called.
UnlinkProvider(c) ==
  LET u == call[c].user IN
  /\ At(c, "unlink")
  /\ UnlinkRows(u, call[c].provider)
  /\ IF Linked(u, auth') # {} /\ call[c].provider = call[c].default /\ call[c].new # NoProvider
     THEN Goes(c, [call[c] EXCEPT !.step = "new default"])
     ELSE Ends(c)
  /\ UNCHANGED <<defs, copies, reverted, credits, moved>>

NewDefault(c) ==
  /\ At(c, "new default")
  /\ SetProviderRow(call[c].user, call[c].new)
  /\ Goes(c, [call[c] EXCEPT !.step = "revoke provider"])
  /\ UNCHANGED <<rolesVars, auth, credits, moved>>

\* set_user_default_provider does not ask whether the provider is linked.
SetUserDefaultProvider(c, u, p) ==
  /\ Starts(c, "set provider")
  /\ SetProviderRow(u, p)
  /\ UNCHANGED <<call, rolesVars, auth, credits, moved>>

-----------------------------------------------------------------------------
\* A request fails: the call raises where it is.
AccountCallFails(c) ==
  /\ call[c].step \in {"adopt account", "get account", "insert", "new default", "resolved"}
  /\ call[c].op \in {"login", "register", "create", "unlink"}
  /\ failures < MaxFailures
  /\ failures' = failures + 1
  /\ Ends(c)
  /\ UNCHANGED <<calls, scene, rolesVars, accountVars>>

AccountsInit ==
  /\ accounts = [u \in DOMAIN FirstAccounts |->
                   [provider |-> ProviderOf[FirstAccounts[u]], email |-> EmailOf[FirstAccounts[u]]]]
  /\ auth = [i \in {FirstAccounts[u] : u \in DOMAIN FirstAccounts} |->
               [guid |-> CHOOSE u \in DOMAIN FirstAccounts : FirstAccounts[u] = i,
                provider |-> ProviderOf[i], linked |-> TRUE]]
  /\ credits = [u \in DOMAIN FirstAccounts |-> 50]
  /\ moved = {}

AccountsStep(c) ==
  \/ \E i \in Identities : \/ AuthGoogleOauthLogin(c, i)
                           \/ AuthDiscordOauthLogin(c, i)
                           \/ RegisterDiscordUser(c, i)
                           \/ UsersProvidersCreate(c, i)
  \/ \E u \in DOMAIN accounts :
       \/ \E i \in Identities : LinkUserProvider(c, u, i)
       \/ \E p \in Providers, new \in Providers \cup {NoProvider} :
            new # p /\ UnlinkUserProvider(c, u, p, new)
       \/ \E p \in Providers : SetUserDefaultProvider(c, u, p)
  \/ RelinkProvider(c)
  \/ GetRelinked(c)
  \/ FindDuplicate(c)
  \/ InsertAccount(c)
  \/ AdoptIdentifier(c)
  \/ AdoptAccount(c)
  \/ GetAccount(c)
  \/ CreateUserFromProvider(c)
  \/ SetCredits(c)
  \/ LinkProvider(c)
  \/ UnlinkProvider(c)
  \/ NewDefault(c)
  \/ AccountCallFails(c)

AccountsNext == \/ RolesNext /\ UNCHANGED accountVars
                \/ \E c \in Callers : AccountsStep(c)

-----------------------------------------------------------------------------
(* Properties *)

\* Of every account there is an identifier to sign in with, linked or not, so that
\* a sign-in finds it or adopts it, except where another account has taken the
\* identifier over: two first sign-ins at the same time, or one that fails half
\* way, leave no account that nobody can reach.
\* (identity/auth/mssql.py: create_from_provider_v1; oauth_module.py: resolve_user)
EveryAccountHasAnIdentifier ==
  \A u \in DOMAIN accounts : u \in moved \/ \E i \in DOMAIN auth : auth[i].guid = u
===============================================================================
