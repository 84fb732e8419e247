------------------------------- MODULE Sessions -------------------------------
(***************************************************************************)
(* Sessions: a device of a user, its rotation key, and the session token    *)
(* that is signed with a secret derived from that key.  A sign-in gives the *)
(* device a new key, an invalidation the empty one; a refresh compares the  *)
(* key it is given with the stored one and, requests later, stores it       *)
(* again with a new token.                                                  *)
(*                                                                          *)
(* A key is a number, in the order of their making; 0 is the empty key.     *)
(* That a key or a token runs out is left out.                              *)
(***************************************************************************)
EXTENDS Accounts

CONSTANT
  Fingerprints      \* devices a user signs in from

ASSUME SessionsAssumption == Fingerprints # {}

VARIABLES
  devices,          \* sessions_devices by user and fingerprint
  keys,             \* rotation keys made so far
  due,              \* history: the key the last sign-in or invalidation gave a device
  restored          \* history: devices whose key a refresh put back that had compared it

sessionVars == <<devices, keys, due, restored>>
accountsAndBelow == <<rolesVars, accountVars>>

-----------------------------------------------------------------------------
(* Statements *)

Placeholder == [key |-> 0, made |-> FALSE]

\* make_session_token: signed with a secret derived from the key.
MakeSessionToken(k) == [key |-> k, made |-> TRUE]

\* create_session_v1, one transaction: the user's session and the device are made
\* or updated; the provider of a device stays that of its first sign-in.
\* The transactions come one after another here: two first sign-ins of a user that
\* overlap may leave two session rows, which nothing in the schema forbids.
CreateSessionRow(d, k, p) ==
  devices' = Put(devices, d,
    [key |-> k, token |-> Placeholder, revoked |-> FALSE,
     provider |-> IF d \in DOMAIN devices THEN devices[d].provider ELSE p])

\* update_device_token_v1
UpdateDeviceTokenRow(d, t) == devices' = [devices EXCEPT ![d].token = t]

\* revoke_device_token_v1, by token
RevokeDeviceTokenRow(t) ==
  devices' = [d \in DOMAIN devices |-> [devices[d] EXCEPT !.revoked = @ \/ devices[d].token = t]]

\* revoke_provider_tokens_v1
RevokeProviderTokensRow(u, p) ==
  devices' = [d \in DOMAIN devices |->
                [devices[d] EXCEPT !.revoked = @ \/ (d[1] = u /\ devices[d].provider = p)]]

\* set_rotkey_v1, of all the user's devices
SetRotkeyRow(u, k) ==
  devices' = [d \in DOMAIN devices |-> IF d[1] = u THEN [devices[d] EXCEPT !.key = k] ELSE devices[d]]

\* get_rotkey_v1 by fingerprint: the key, 0 without a device.
GetRotkey(d) == IF d \in DOMAIN devices THEN devices[d].key ELSE 0

-----------------------------------------------------------------------------
(* create_session, after a sign-in: roles, the session, its token *)

\* make_rotation_token, and get_user_roles for the claims of the token.
AsksRoles(c) ==
  LET u == call[c].user IN
  /\ At(c, "ask roles")
  /\ keys' = keys + 1
  /\ GetUserRoles(c, u, [op |-> call[c].op, step |-> "create session", device |-> <<u, call[c].print>>,
                         key |-> keys + 1, provider |-> call[c].provider, compared |-> FALSE])
  /\ UNCHANGED <<accountsAndBelow, devices, due, restored>>

\* login_provider: e-mail address and name first.
LoginResolved(c, f) ==
  /\ At(c, "resolved") /\ call[c].op = "login"
  /\ UpdateIfUnedited(call[c].user, call[c].id)
  /\ Goes(c, [op |-> "login", step |-> "ask roles", user |-> call[c].user, print |-> f,
              provider |-> ProviderOf[call[c].id]])
  /\ UNCHANGED <<rolesVars, auth, credits, moved, sessionVars>>

\* issue_token leaves them alone.
IssueToken(c, f) ==
  /\ At(c, "resolved") /\ call[c].op = "login"
  /\ Goes(c, [op |-> "login", step |-> "ask roles", user |-> call[c].user, print |-> f,
              provider |-> ProviderOf[call[c].id]])
  /\ UNCHANGED <<accountsAndBelow, sessionVars>>

\* A sign-in's key is due from now on; a refresh puts back the one it compared.
CreateSession(c) ==
  LET d == call[c].device
      k == call[c].key
  IN  /\ At(c, "create session")
      /\ CreateSessionRow(d, k, call[c].provider)
      /\ IF call[c].op = "login"
         THEN due' = Put(due, d, k) /\ restored' = restored \ {d}
         ELSE /\ restored' = IF call[c].compared /\ due[d] # k THEN restored \cup {d} ELSE restored
              /\ UNCHANGED due
      /\ Goes(c, [op |-> call[c].op, step |-> "token", device |-> d, token |-> MakeSessionToken(k)])
      /\ UNCHANGED <<accountsAndBelow, keys>>

UpdateDeviceToken(c) ==
  /\ At(c, "token")
  /\ UpdateDeviceTokenRow(call[c].device, call[c].token)
  /\ Ends(c)
  /\ UNCHANGED <<accountsAndBelow, keys, due, restored>>

-----------------------------------------------------------------------------
(* refresh_token with key k, read from the cookie *)

Compared(c, d, k) ==
  Goes(c, [op |-> "refresh", step |-> "refresh roles", device |-> d, key |-> k,
           provider |-> accounts[d[1]].provider, compared |-> GetRotkey(d) = k])

\* Mutant: the key need not be the stored one.
RefreshAnyToken(c, d, k) ==
  /\ Starts(c, "refresh")
  /\ Compared(c, d, k)
  /\ UNCHANGED <<accountsAndBelow, sessionVars>>

RefreshToken(c, d, k) ==
  /\ Starts(c, "refresh")
  /\ GetRotkey(d) = k
  /\ Compared(c, d, k)
  /\ UNCHANGED <<accountsAndBelow, sessionVars>>

RefreshRoles(c) ==
  /\ At(c, "refresh roles")
  /\ GetUserRoles(c, call[c].device[1], [call[c] EXCEPT !.step = "create session"])
  /\ UNCHANGED <<accountsAndBelow, sessionVars>>

-----------------------------------------------------------------------------
(* Ends of sessions *)

\* decode_session_token: the claims are signed with the device's present key.
DecodeSessionToken(d, t) == devices[d].key # 0 /\ t = MakeSessionToken(devices[d].key)

InvalidateToken(c, u) ==
  /\ Starts(c, "invalidate")
  /\ \E d \in DOMAIN devices, k \in 1..keys : d[1] = u /\ DecodeSessionToken(d, MakeSessionToken(k))
  /\ SetRotkeyRow(u, 0)
  /\ due' = [d \in DOMAIN due |-> IF d[1] = u THEN 0 ELSE due[d]]
  /\ restored' = {d \in restored : d[1] # u}
  /\ UNCHANGED <<call, accountsAndBelow, keys>>

\* logout_device, with any token there has been: only one that is stored has an effect.
LogoutDevice(c, k) ==
  /\ Starts(c, "logout")
  /\ RevokeDeviceTokenRow(MakeSessionToken(k))
  /\ UNCHANGED <<call, accountsAndBelow, keys, due, restored>>

\* The end of unlink_user_provider.
RevokeProviderTokens(c) ==
  /\ At(c, "revoke provider")
  /\ RevokeProviderTokensRow(call[c].user, call[c].provider)
  /\ Ends(c)
  /\ UNCHANGED <<accountsAndBelow, keys, due, restored>>

\* A request fails: the token stays the placeholder, or no session is made.
SessionCallFails(c) ==
  /\ call[c].step \in {"ask roles", "create session", "token", "revoke provider"}
  /\ failures < MaxFailures
  /\ failures' = failures + 1
  /\ Ends(c)
  /\ UNCHANGED <<calls, scene, accountsAndBelow, sessionVars>>

SessionsInit == devices = <<>> /\ keys = 0 /\ due = <<>> /\ restored = {}

SessionsStep(c) ==
  \/ \E f \in Fingerprints : LoginResolved(c, f) \/ IssueToken(c, f)
  \/ AsksRoles(c)
  \/ CreateSession(c)
  \/ UpdateDeviceToken(c)
  \/ \E d \in DOMAIN devices, k \in 1..keys : RefreshToken(c, d, k)
  \/ RefreshRoles(c)
  \/ \E u \in DOMAIN accounts : InvalidateToken(c, u)
  \/ \E k \in 1..keys : LogoutDevice(c, k)
  \/ RevokeProviderTokens(c)
  \/ SessionCallFails(c)

SessionsNext == \/ AccountsNext /\ UNCHANGED sessionVars
                \/ \E c \in Callers : SessionsStep(c)

-----------------------------------------------------------------------------
(* Properties *)

\* A rotation key that a sign-in or an invalidation has replaced is not stored
\* again, except by a refresh that had found it stored before: between the
\* comparison and the transaction any number of requests may run, but without the
\* comparison no old key comes back.
\* (session_module.py: refresh_token, invalidate_token; oauth_module.py: create_session)
OldKeysStayOld == \A d \in DOMAIN devices : devices[d].key = due[d] \/ d \in restored
===============================================================================
