------------------------------ MODULE McpGateway ------------------------------
(***************************************************************************)
(* The gateway that lets agents in: the registration of clients, limited    *)
(* by two sliding windows and stopped by a switch, the authorisation of a   *)
(* client by a user, the exchange of the code for tokens, and their         *)
(* renewal.  Tokens and the signed states of the redirections are taken to  *)
(* be genuine; that a code or a refresh token runs out is left out, it is   *)
(* then as if it were not there.                                            *)
(***************************************************************************)
EXTENDS Sessions

CONSTANTS
  McpBit,          \* ROLE_MCP_ACCESS_MASK
  Window,          \* window_seconds of the limiters
  Limits,          \* of each limiter: per address and in all
  FirstAgents,     \* agents registered at the start
  MaxTime,         \* bound: the clock
  MaxRestarts      \* bound: restarts of the process

Limiters == {"register", "token"}

ASSUME McpGatewayAssumption ==
  /\ McpBit \in Bits
  /\ Window \in Nat /\ MaxTime \in Nat /\ MaxRestarts \in Nat /\ FirstAgents \in Nat
  /\ Limits \in [Limiters -> [each : Nat, all : Nat]]

VARIABLES
  now,             \* time.monotonic
  windows,         \* the deques of each limiter: in all, and by address
  dcr, dcrRow,     \* dcr_enabled, and MCP_DCR_ENABLED in system_config
  agents,          \* account_mcp_agents by recid
  codes,           \* account_mcp_auth_codes by recid
  tokens,          \* account_mcp_agent_tokens by recid
  admitted,        \* history: what each limiter let through, and when
  edited,          \* history: an administrator has edited the switch
  relinked,        \* history: agents linked to another user after a code was made
  ended, revived,  \* history: grants revoked; put back by a renewal that read them before
  restarts

limiterVars == <<now, windows, admitted>>
switchVars == <<dcr, dcrRow, edited>>
grantVars == <<agents, codes, tokens, relinked, ended, revived>>
sessionsAndBelow == <<accountsAndBelow, sessionVars>>
gatewayVars == <<limiterVars, switchVars, grantVars, restarts>>
vars == <<scene, call, counters, sessionsAndBelow, gatewayVars>>

-----------------------------------------------------------------------------
(* SlidingWindowRateLimiter.check *)

\* What is before the first entry that is still in the window is dropped.
DropBefore(q, kept) == IF kept = {} THEN <<>> ELSE SubSeq(q, Min(kept), Len(q))

\* Mutant: an entry at the edge of the window is dropped.
DropEdge(q) == DropBefore(q, {i \in DOMAIN q : q[i] > now - Window})

\* The loop over popleft.
DropOld(q) == DropBefore(q, {i \in DOMAIN q : q[i] >= now - Window})

\* An address has a deque from its first check on that is not stopped by the count in all.
Entries(w, ip) == IF ip \in DOMAIN w.each THEN w.each[ip] ELSE <<>>

\* The windows after a check, and whether the request is let through: the count in
\* all first, and without touching the address's own if that is full.
Check(l, ip) ==
  LET w    == windows[l]
      all  == DropOld(w.all)
      each == DropOld(Entries(w, ip))
  IN  CASE Len(all) >= Limits[l].all ->
             [ok |-> FALSE, window |-> [all |-> all, each |-> w.each]]
        [] Len(all) < Limits[l].all /\ Len(each) >= Limits[l].each ->
             [ok |-> FALSE, window |-> [all |-> all, each |-> Put(w.each, ip, each)]]
        [] OTHER ->
             [ok |-> TRUE, window |-> [all  |-> Append(all, now),
                                       each |-> Put(w.each, ip, Append(each, now))]]

Checks(l, ip) ==
  /\ windows' = [windows EXCEPT ![l] = Check(l, ip).window]
  /\ admitted' = IF Check(l, ip).ok
                 THEN [admitted EXCEPT ![l] = Append(@, [time |-> now, ip |-> ip])] ELSE admitted
  /\ UNCHANGED now

GlobalCount(l) == Len(windows[l].all)

Tick == /\ "tick" \in scene.ops
        /\ now < MaxTime
        /\ now' = now + 1
        /\ UNCHANGED <<scene, call, counters, sessionsAndBelow, windows, admitted, switchVars,
                       grantVars, restarts>>

-----------------------------------------------------------------------------
(* Registration *)

\* check_register_rate; a refusal is reported before the count is looked at.
CheckRegisterRate(c, ip, next) ==
  /\ Checks("register", ip)
  /\ Goes(c, IF Check("register", ip).ok THEN next ELSE [op |-> "register client", step |-> "refused"])

\* post_oauth_register: the switch and the limits, ...
PostOauthRegister(c, ip) ==
  /\ Starts(c, "register client")
  /\ dcr
  /\ CheckRegisterRate(c, ip, [op |-> "register client", step |-> "body", ip |-> ip])
  /\ UNCHANGED <<sessionsAndBelow, switchVars, grantVars, restarts>>

\* ... and, when the body has been read, register_client: both again.
RegisterClient(c) ==
  /\ At(c, "body")
  /\ IF dcr
     THEN CheckRegisterRate(c, call[c].ip, [op |-> "register client", step |-> "insert agent"])
     ELSE Ends(c) /\ UNCHANGED limiterVars
  /\ UNCHANGED <<sessionsAndBelow, switchVars, grantVars, restarts>>

InsertAgent(c) ==
  /\ At(c, "insert agent")
  /\ agents' = Append(agents, [user |-> NoProvider, active |-> TRUE])
  /\ Ends(c)
  /\ UNCHANGED <<sessionsAndBelow, limiterVars, switchVars, codes, tokens, relinked, ended, revived,
                 restarts>>

\* After the report: the switch is turned off if the window in all is full.
CountRefusal(c) ==
  /\ At(c, "refused")
  /\ IF GlobalCount("register") >= Limits["register"].all
     THEN Goes(c, [op |-> "register client", step |-> "switch off"])
     ELSE Ends(c)
  /\ UNCHANGED <<sessionsAndBelow, gatewayVars>>

\* Mutant: the flag is cleared before the row is written.
SwitchOffFlagFirst(c) ==
  /\ call[c].step = "switch off"
  /\ UNCHANGED scene
  /\ \/ dcrRow' = FALSE /\ dcr' = FALSE /\ UNCHANGED counters
     \/ failures < MaxFailures /\ failures' = failures + 1 /\ dcr' = FALSE
        /\ UNCHANGED <<dcrRow, calls>>
  /\ Ends(c)
  /\ UNCHANGED <<sessionsAndBelow, limiterVars, edited, grantVars, restarts>>

\* _set_dcr_enabled(False): the row, which may fail, and then the flag.
SwitchOff(c) ==
  /\ call[c].step = "switch off"
  /\ UNCHANGED scene
  /\ \/ dcrRow' = FALSE /\ dcr' = FALSE /\ UNCHANGED counters
     \/ failures < MaxFailures /\ failures' = failures + 1 /\ UNCHANGED <<dcrRow, dcr, calls>>
  /\ Ends(c)
  /\ UNCHANGED <<sessionsAndBelow, limiterVars, edited, grantVars, restarts>>

\* An administrator edits system_config; the process does not look until it starts.
EditSwitch(c, on) ==
  /\ Starts(c, "edit switch")
  /\ dcrRow' = on
  /\ edited' = TRUE
  /\ UNCHANGED <<call, sessionsAndBelow, limiterVars, dcr, grantVars, restarts>>

-----------------------------------------------------------------------------
(* Authorisation: the callback of the identity provider *)

\* check_user_mcp_role of the user found or made.
CheckUserMcpRole(c) ==
  LET u == call[c].user
      m == IF u \in DOMAIN cache THEN cache[u].mask ELSE mask[u]
  IN  /\ At(c, "resolved") /\ call[c].op = "callback"
      /\ GetUserRoles(c, u, IF McpBit \in m THEN [op |-> "callback", step |-> "get client", user |-> u]
                            ELSE Idle)
      /\ UNCHANGED <<sessionsAndBelow, gatewayVars>>

\* get_oauth_authorize has asked for an active client, the callback asks for any.
GetClient(c, a) ==
  /\ At(c, "get client")
  /\ Goes(c, [op |-> "callback", step |-> "link client", user |-> call[c].user, agent |-> a])
  /\ UNCHANGED <<sessionsAndBelow, gatewayVars>>

LinkClientToUser(c) ==
  LET a == call[c].agent IN
  /\ At(c, "link client")
  /\ agents' = [agents EXCEPT ![a].user = call[c].user]
  /\ relinked' = IF agents[a].user \in {NoProvider, call[c].user} THEN relinked ELSE relinked \cup {a}
  /\ Goes(c, [call[c] EXCEPT !.step = "make code"])
  /\ UNCHANGED <<sessionsAndBelow, limiterVars, switchVars, codes, tokens, ended, revived, restarts>>

CreateAuthorizationCode(c) ==
  /\ At(c, "make code")
  /\ codes' = Append(codes, [agent |-> call[c].agent, user |-> call[c].user, consumed |-> FALSE])
  /\ Ends(c)
  /\ UNCHANGED <<sessionsAndBelow, limiterVars, switchVars, agents, tokens, relinked, ended, revived,
                 restarts>>

-----------------------------------------------------------------------------
(* post_oauth_token *)

PostOauthToken(c, ip) ==
  /\ Starts(c, "token")
  /\ Checks("token", ip)
  /\ Goes(c, IF Check("token", ip).ok THEN [op |-> "token", step |-> "grant"] ELSE Idle)
  /\ UNCHANGED <<sessionsAndBelow, switchVars, grantVars, restarts>>

\* Neither kind of grant: the request is refused.
UnsupportedGrant(c) ==
  /\ At(c, "grant")
  /\ Ends(c)
  /\ UNCHANGED <<sessionsAndBelow, gatewayVars>>

\* Mutant: a code may be consumed again.
ConsumeAnyCode(c, k) ==
  /\ At(c, "grant")
  /\ codes' = [codes EXCEPT ![k].consumed = TRUE]
  /\ \E proves \in BOOLEAN :
       Goes(c, IF proves THEN [op |-> "token", step |-> "check client", code |-> k] ELSE Idle)
  /\ UNCHANGED <<sessionsAndBelow, limiterVars, switchVars, agents, tokens, relinked, ended, revived,
                 restarts>>

\* exchange_authorization_code: one statement finds the code unconsumed and consumes
\* it, whether or not the verifier then fits the challenge.
ConsumeCode(c, k) ==
  /\ At(c, "grant")
  /\ ~codes[k].consumed
  /\ codes' = [codes EXCEPT ![k].consumed = TRUE]
  /\ \E proves \in BOOLEAN :
       Goes(c, IF proves THEN [op |-> "token", step |-> "check client", code |-> k] ELSE Idle)
  /\ UNCHANGED <<sessionsAndBelow, limiterVars, switchVars, agents, tokens, relinked, ended, revived,
                 restarts>>

CheckClient(c) ==
  /\ At(c, "check client")
  /\ IF agents[codes[call[c].code].agent].active
     THEN Goes(c, [call[c] EXCEPT !.step = "revoke tokens"])
     ELSE Ends(c)
  /\ UNCHANGED <<sessionsAndBelow, gatewayVars>>

\* revoke_agent_token: whatever the agent was granted before.
RevokeAgentTokens(c) ==
  LET a == codes[call[c].code].agent IN
  /\ At(c, "revoke tokens")
  /\ tokens' = [t \in DOMAIN tokens |-> IF codes[tokens[t].grant].agent = a
                                        THEN [tokens[t] EXCEPT !.revoked = TRUE] ELSE tokens[t]]
  /\ ended' = ended \cup {tokens[t].grant : t \in {t \in DOMAIN tokens :
                                                    codes[tokens[t].grant].agent = a}}
  /\ Goes(c, [call[c] EXCEPT !.step = "agent user"])
  /\ UNCHANGED <<sessionsAndBelow, limiterVars, switchVars, agents, codes, relinked, revived, restarts>>

\* resolve_agent_credits: the token is for the user the agent is linked to now.
ResolveAgentCredits(c) ==
  /\ At(c, "agent user")
  /\ Goes(c, [op |-> "token", step |-> "make token", code |-> call[c].code,
              user |-> agents[codes[call[c].code].agent].user])
  /\ UNCHANGED <<sessionsAndBelow, gatewayVars>>

\* The refresh token is named by the code that it was granted for.
InsertToken(g, u, renewal) ==
  tokens' = Append(tokens, [grant |-> g, user |-> u, renewal |-> renewal, revoked |-> FALSE])

CreateAgentToken(c) ==
  /\ At(c, "make token")
  /\ InsertToken(call[c].code, call[c].user, FALSE)
  /\ Ends(c)
  /\ UNCHANGED <<sessionsAndBelow, limiterVars, switchVars, agents, codes, relinked, ended, revived,
                 restarts>>

LiveTokens(g) == {t \in DOMAIN tokens : tokens[t].grant = g /\ ~tokens[t].revoked}

\* refresh_access_token: get_token_v1, ...
RefreshAccessToken(c, g) ==
  LET a == codes[g].agent IN
  /\ At(c, "grant")
  /\ LiveTokens(g) # {} /\ agents[a].active /\ agents[a].user # NoProvider
  /\ Goes(c, [op |-> "token", step |-> "renew", code |-> g, user |-> agents[a].user])
  /\ UNCHANGED <<sessionsAndBelow, gatewayVars>>

\* ... and a new row with the same refresh token, whatever has been revoked since.
RenewToken(c) ==
  LET g == call[c].code IN
  /\ At(c, "renew")
  /\ InsertToken(g, call[c].user, TRUE)
  /\ revived' = IF g \in ended THEN revived \cup {g} ELSE revived
  /\ Ends(c)
  /\ UNCHANGED <<sessionsAndBelow, limiterVars, switchVars, agents, codes, relinked, ended, restarts>>

RevokeClient(c, a) ==
  /\ Starts(c, "revoke client")
  /\ agents' = [agents EXCEPT ![a].active = FALSE]
  /\ UNCHANGED <<call, sessionsAndBelow, limiterVars, switchVars, codes, tokens, relinked, ended,
                 revived, restarts>>

-----------------------------------------------------------------------------
\* A request fails between the steps of an authorisation or an exchange.
GatewayCallFails(c) ==
  /\ call[c].step \in {"insert agent", "make code", "revoke tokens", "make token"}
  /\ failures < MaxFailures
  /\ failures' = failures + 1
  /\ Ends(c)
  /\ UNCHANGED <<calls, scene, sessionsAndBelow, gatewayVars>>

\* The process restarts: its calls, copies and windows are gone, and what it
\* keeps in memory is read from the tables again.
Restart ==
  /\ "restart" \in scene.ops
  /\ restarts < MaxRestarts
  /\ restarts' = restarts + 1
  /\ call' = [c \in Callers |-> Idle]
  /\ roles' = defs /\ domains' = defs /\ cache' = <<>> /\ lagging' = {}
  /\ windows' = [l \in Limiters |-> [all |-> <<>>, each |-> <<>>]]
  /\ admitted' = [l \in Limiters |-> <<>>]
  /\ dcr' = dcrRow
  /\ edited' = FALSE
  /\ UNCHANGED <<scene, counters, tables, wanted, reverted, accountVars, sessionVars, now, dcrRow,
                 grantVars>>

GatewayInit ==
  /\ now = 0
  /\ windows = [l \in Limiters |-> [all |-> <<>>, each |-> <<>>]]
  /\ admitted = [l \in Limiters |-> <<>>]
  /\ dcr = TRUE /\ dcrRow = TRUE /\ edited = FALSE
  /\ agents = [a \in 1..FirstAgents |-> [user |-> NoProvider, active |-> TRUE]]
  /\ codes = <<>> /\ tokens = <<>>
  /\ relinked = {} /\ ended = {} /\ revived = {}
  /\ restarts = 0

GatewayStep(c) ==
  \/ \E ip \in scene.ips : PostOauthRegister(c, ip) \/ PostOauthToken(c, ip)
  \/ RegisterClient(c)
  \/ InsertAgent(c)
  \/ CountRefusal(c)
  \/ SwitchOff(c)
  \/ \E on \in BOOLEAN : EditSwitch(c, on)
  \/ \E i \in Identities : LookupUser(c, "callback", i) /\ UNCHANGED <<sessionVars, gatewayVars>>
  \/ CheckUserMcpRole(c)
  \/ \E a \in DOMAIN agents : GetClient(c, a) \/ RevokeClient(c, a)
  \/ LinkClientToUser(c)
  \/ CreateAuthorizationCode(c)
  \/ UnsupportedGrant(c)
  \/ \E k \in DOMAIN codes : ConsumeCode(c, k) \/ RefreshAccessToken(c, k)
  \/ CheckClient(c)
  \/ RevokeAgentTokens(c)
  \/ ResolveAgentCredits(c)
  \/ CreateAgentToken(c)
  \/ RenewToken(c)
  \/ GatewayCallFails(c)

Init == RolesInit /\ AccountsInit /\ SessionsInit /\ GatewayInit

Next == \/ SessionsNext /\ UNCHANGED gatewayVars
        \/ \E c \in Callers : GatewayStep(c)
        \/ Tick
        \/ Restart

Spec == Init /\ [][Next]_vars

-----------------------------------------------------------------------------
(* Properties *)

\* In any stretch of time as long as the window, its two ends included, no limiter
\* lets more through than its limits, neither from one address nor in all, although
\* a registration is counted twice and refusals leave their marks in only one of
\* the deques.
\* (mcp_gateway_module.py: SlidingWindowRateLimiter.check)
LimitsAreKept ==
  \A l \in Limiters : \A t \in 0..now :
    LET within == {n \in DOMAIN admitted[l] : admitted[l][n].time \in t..(t + Window)} IN
    /\ Cardinality(within) <= Limits[l].all
    /\ \A ip \in scene.ips : Cardinality({n \in within : admitted[l][n].ip = ip}) <= Limits[l].each

\* A switch that the process has turned off stays off: no write that fails and no
\* restart turns registrations on again, unless an administrator has edited the row
\* since the process started.
\* (mcp_gateway_module.py: _set_dcr_enabled, refresh_runtime_config)
SwitchedOffStaysOff == dcr \/ ~dcrRow \/ edited

\* A code is exchanged once; its tokens are the user's who authorised the agent,
\* unless another has been linked to the agent since; and a refresh token that a
\* later exchange has revoked is good for nothing, unless a renewal that had read it
\* before stores it again.
\* (mcp_gateway_module.py: exchange_authorization_code, refresh_access_token)
TokensFollowGrants ==
  /\ \A t, s \in DOMAIN tokens :
       ~tokens[t].renewal /\ ~tokens[s].renewal /\ tokens[t].grant = tokens[s].grant => t = s
  /\ \A t \in DOMAIN tokens :
       LET code == codes[tokens[t].grant] IN
       /\ tokens[t].user = code.user \/ code.agent \in relinked
       /\ tokens[t].revoked \/ tokens[t].grant \notin ended \/ tokens[t].grant \in revived
===============================================================================
