--------------------------------- MODULE Roles ---------------------------------
(***************************************************************************)
(* Roles: the definitions in system_roles, the masks of users_roles, and    *)
(* the copies RoleModule keeps of both in memory, which every request is    *)
(* authorised against and which only the calls below bring up to date.      *)
(*                                                                          *)
(* The tables and the copies are apart: between a query's read and the      *)
(* assignment of what it returned, other calls run.  So a read and its      *)
(* assignment are two actions.  A mask is the set of its bits.              *)
(*                                                                          *)
(* Accounts, Sessions and McpGateway extend this module: one set of callers *)
(* runs the operations of all four.  scene tells the group of operations a  *)
(* behaviour calls.                                                         *)
(***************************************************************************)
EXTENDS Integers, FiniteSets, Sequences, SequencesExt

CONSTANTS
  Callers,        \* requests being served
  Users,          \* guids, those of accounts still to be made included
  FirstUsers,     \* the users at the start
  Bits,           \* bits of a mask
  BotBit,         \* 0x10, that the purchase of an enablement sets
  FirstRoles,     \* system_roles at the start: names to masks
  FirstMask,      \* users_roles of every user at the start
  NewMask,        \* users_roles of a new user
  RoleChanges,    \* what administrators upsert: <<name, mask>>
  ActorMasks,     \* the masks of administrators
  Scenes,         \* groups of operations, with the bound of the calls started and
                  \* the addresses the requests come from
  MaxFailures     \* bound: database requests that fail

ASSUME RolesAssumption ==
  /\ Bits \subseteq Nat
  /\ BotBit \in Bits
  /\ FirstUsers \subseteq Users
  \* lagging names the copies of both
  /\ {"roles", "domains"} \cap Users = {}
  /\ FirstMask \subseteq Bits
  /\ NewMask \subseteq Bits
  /\ \A s \in Scenes : s.calls \in Nat
  /\ MaxFailures \in Nat

VARIABLES
  scene,
  call,           \* what each caller does and what it knows
  calls, failures,
  defs,           \* system_roles
  mask,           \* users_roles; a user without a row has the empty mask
  roles,          \* RoleModule.roles
  domains,        \* RoleModule.domain_role_map, by the role that opens the domain
  cache,          \* RoleModule._user_roles
  wanted,         \* history: masks if every change were one step
  reverted,       \* history: users whose mask a purchase wrote from an old read
  lagging         \* history: copies last assigned from an old read, or not assigned

counters == <<calls, failures>>
tables == <<defs, mask>>
copies == <<roles, domains, cache>>
histories == <<wanted, reverted, lagging>>
rolesVars == <<defs, mask, roles, domains, cache, wanted, reverted, lagging>>

-----------------------------------------------------------------------------
(* Calls *)

Idle == [op |-> "none", step |-> "idle"]

Starts(c, op) == /\ call[c] = Idle
                 /\ op \in scene.ops
                 /\ calls < scene.calls
                 /\ calls' = calls + 1
                 /\ UNCHANGED <<failures, scene>>

At(c, step) == call[c].step = step /\ UNCHANGED <<counters, scene>>

Goes(c, next) == call' = [call EXCEPT ![c] = next]

Ends(c) == Goes(c, Idle)

AtRest == \A c \in Callers : call[c] = Idle

-----------------------------------------------------------------------------
(* Statements *)

ListRoles == defs

\* UPDATE, and INSERT if it changed no row.
UpsertRoleRow(name, m) == defs' = [n \in DOMAIN defs \cup {name} |-> IF n = name THEN m ELSE defs[n]]

DeleteRoleRow(name) ==
  LET bits == IF name \in DOMAIN defs THEN defs[name] ELSE {} IN
  /\ mask' = [u \in DOMAIN mask |-> mask[u] \ bits]
  /\ wanted' = [u \in DOMAIN mask |-> wanted[u] \ bits]
  /\ defs' = [n \in DOMAIN defs \ {name} |-> defs[n]]

\* MERGE: the mask is changed where it stands.
AddMemberRow(u, name) ==
  LET bits == IF name \in DOMAIN defs THEN defs[name] ELSE {} IN
  /\ mask' = [mask EXCEPT ![u] = @ \cup bits]
  /\ wanted' = [wanted EXCEPT ![u] = @ \cup bits]

RemoveMemberRow(u, name) ==
  LET bits == IF name \in DOMAIN defs THEN defs[name] ELSE {} IN
  /\ mask' = [mask EXCEPT ![u] = @ \ bits]
  /\ wanted' = [wanted EXCEPT ![u] = @ \ bits]

\* set_roles_v1 writes a whole mask, with the bits the caller wants to add.
SetRolesRow(u, m, bits) ==
  /\ mask' = [mask EXCEPT ![u] = m]
  /\ wanted' = [wanted EXCEPT ![u] = @ \cup bits]
  /\ reverted' = reverted \cup (IF m = mask[u] \cup bits THEN {} ELSE {u})

-----------------------------------------------------------------------------
(* A user's roles: get_user_roles and its callers *)

MaskToNames(m) == {n \in DOMAIN roles : m \cap roles[n] # {}}

\* The query of get_user_roles; afterwards the call goes on with then.
ReadsMask(c, u, then) ==
  Goes(c, [op |-> call[c].op, step |-> "fill", user |-> u, seen |-> mask[u], then |-> then])

\* get_user_roles of a user in the cache does not ask the database.
GetUserRoles(c, u, then) == IF u \in DOMAIN cache THEN Goes(c, then) ELSE ReadsMask(c, u, then)

FillCache(c) ==
  /\ At(c, "fill")
  /\ LET u    == call[c].user
         held == [names |-> MaskToNames(call[c].seen), mask |-> call[c].seen]
     IN  /\ cache' = [v \in DOMAIN cache \cup {u} |-> IF v = u THEN held ELSE cache[v]]
         /\ lagging' = IF call[c].seen = mask[u] THEN lagging \ {u} ELSE lagging \cup {u}
  /\ Goes(c, call[c].then)
  /\ UNCHANGED <<tables, roles, domains, wanted, reverted>>

\* _process_rpcrequest: a request with a token asks for the roles of its user.
Request(c, u) ==
  /\ Starts(c, "request")
  /\ u \notin DOMAIN cache
  /\ Goes(c, [op |-> "request", step |-> "fill", user |-> u, seen |-> mask[u], then |-> Idle])
  /\ UNCHANGED rolesVars

\* refresh_user_roles
Refreshes(c) ==
  /\ At(c, "refresh")
  /\ ReadsMask(c, call[c].user, Idle)
  /\ UNCHANGED rolesVars

-----------------------------------------------------------------------------
(* Role definitions *)

\* _max_mask: its highest bit alone.
MaxMask(m) == IF m = {} THEN {} ELSE {Max(m)}

\* target <= actor's highest bit, as numbers
EnsureCanManage(actor, target) ==
  LET top == MaxMask(actor) IN target = top \/ \A b \in target : \E t \in top : b < t

RoleMask(name) == IF name \in DOMAIN roles THEN roles[name] ELSE {}

Reloading(c) == [op |-> call[c].op, step |-> "load roles"]

UpsertRole(c, name, m) ==
  /\ Starts(c, "upsert role")
  /\ UpsertRoleRow(name, m)
  /\ Goes(c, [op |-> "upsert role", step |-> "load roles"])
  /\ UNCHANGED <<mask, copies, histories>>

DeleteRole(c, name) ==
  /\ Starts(c, "delete role")
  /\ DeleteRoleRow(name)
  /\ Goes(c, [op |-> "delete role", step |-> "load roles"])
  /\ UNCHANGED <<copies, reverted, lagging>>

\* The services of the service namespace pass no mask: nothing is compared.
ServiceUpsertRole(c) == \E x \in RoleChanges : UpsertRole(c, x[1], x[2])

ServiceDeleteRole(c) == \E name \in DOMAIN roles : DeleteRole(c, name)

\* load_roles and load_domain_role_map, each a query and an assignment.
LoadRoles(c) ==
  /\ At(c, "load roles")
  /\ Goes(c, [op |-> call[c].op, step |-> "set roles", rows |-> ListRoles])
  /\ UNCHANGED rolesVars

\* Without any row the roles and the users' masks stay as they were.
LagAfterRoles(rows) == CASE rows = <<>> -> lagging \cup {"roles"} \cup Users
                         [] rows # <<>> /\ rows = defs -> lagging \ {"roles"}
                         [] OTHER -> lagging \cup {"roles"}

SetRoles(c) ==
  /\ At(c, "set roles")
  /\ IF call[c].rows = <<>> THEN UNCHANGED <<roles, cache>>
     ELSE roles' = call[c].rows /\ cache' = <<>>
  /\ lagging' = LagAfterRoles(call[c].rows)
  /\ Goes(c, [op |-> call[c].op, step |-> "load domains"])
  /\ UNCHANGED <<tables, domains, wanted, reverted>>

LoadDomains(c) ==
  /\ At(c, "load domains")
  /\ Goes(c, [op |-> call[c].op, step |-> "set domains", rows |-> ListRoles])
  /\ UNCHANGED rolesVars

SetDomains(c) ==
  /\ At(c, "set domains")
  /\ domains' = call[c].rows
  /\ lagging' = IF domains' = defs THEN lagging \ {"domains"} ELSE lagging \cup {"domains"}
  /\ Ends(c)
  /\ UNCHANGED <<tables, roles, cache, wanted, reverted>>

-----------------------------------------------------------------------------
(* Members *)

\* Mutant: the user's cached mask is left as it was.
AddRoleMemberQuietly(c, name, u, actor) ==
  /\ Starts(c, "add member")
  /\ EnsureCanManage(actor, RoleMask(name))
  /\ AddMemberRow(u, name)
  /\ Ends(c)
  /\ UNCHANGED <<defs, copies, reverted, lagging>>

AddRoleMember(c, name, u, actor) ==
  /\ Starts(c, "add member")
  /\ EnsureCanManage(actor, RoleMask(name))
  /\ AddMemberRow(u, name)
  /\ Goes(c, [op |-> "add member", step |-> "refresh", user |-> u])
  /\ UNCHANGED <<defs, copies, reverted, lagging>>

RemoveRoleMember(c, name, u, actor) ==
  /\ Starts(c, "remove member")
  /\ EnsureCanManage(actor, RoleMask(name))
  /\ RemoveMemberRow(u, name)
  /\ Goes(c, [op |-> "remove member", step |-> "refresh", user |-> u])
  /\ UNCHANGED <<defs, copies, reverted, lagging>>

SupportAddMember(c, u) ==
  \E name \in DOMAIN FirstRoles, actor \in ActorMasks : AddRoleMember(c, name, u, actor)

SupportRemoveMember(c, u) ==
  \E name \in DOMAIN FirstRoles, actor \in ActorMasks : RemoveRoleMember(c, name, u, actor)

\* purchase_product of ROLE_DISCORD_BOT: the mask is read, and raises if it has
\* the bit, ...
GetUserRolesMask(c, u) ==
  /\ Starts(c, "purchase")
  /\ BotBit \notin mask[u]
  /\ Goes(c, [op |-> "purchase", step |-> "set mask", user |-> u, seen |-> mask[u]])
  /\ UNCHANGED rolesVars

\* ... and written back whole with the bit.
SetUserRolesMask(c) ==
  /\ At(c, "set mask")
  /\ SetRolesRow(call[c].user, call[c].seen \cup {BotBit}, {BotBit})
  /\ Goes(c, [op |-> call[c].op, step |-> "refresh", user |-> call[c].user])
  /\ UNCHANGED <<defs, copies, lagging>>

-----------------------------------------------------------------------------
(* Failures *)

\* The copies that a call which ends at this step leaves as they were.
LeftBehind(c) ==
  CASE call[c].step = "refresh" -> {call[c].user}
    [] call[c].step = "load roles" -> {"roles"} \cup Users
    [] call[c].step = "load domains" -> {"domains"}
    [] OTHER -> {}

\* A query fails: load_roles swallows it, and the domains are loaded all the
\* same; everything else raises.
QueryFails(c) ==
  /\ call[c].step \in {"refresh", "load roles", "load domains", "set mask"}
  /\ failures < MaxFailures
  /\ failures' = failures + 1
  /\ lagging' = lagging \cup LeftBehind(c)
  /\ IF call[c].step = "load roles" THEN Goes(c, [op |-> call[c].op, step |-> "load domains"])
     ELSE Ends(c)
  /\ UNCHANGED <<calls, scene, tables, copies, wanted, reverted>>

-----------------------------------------------------------------------------
RolesInit ==
  /\ scene \in Scenes
  /\ call = [c \in Callers |-> Idle]
  /\ calls = 0
  /\ failures = 0
  /\ defs = FirstRoles
  /\ mask = [u \in FirstUsers |-> FirstMask]
  /\ roles = FirstRoles
  /\ domains = FirstRoles
  /\ cache = <<>>
  /\ wanted = mask
  /\ reverted = {}
  /\ lagging = {}

RolesStep(c) ==
  \/ \E u \in DOMAIN mask : \/ Request(c, u)
                            \/ SupportAddMember(c, u)
                            \/ SupportRemoveMember(c, u)
                            \/ GetUserRolesMask(c, u)
  \/ FillCache(c)
  \/ Refreshes(c)
  \/ ServiceUpsertRole(c)
  \/ ServiceDeleteRole(c)
  \/ LoadRoles(c)
  \/ SetRoles(c)
  \/ LoadDomains(c)
  \/ SetDomains(c)
  \/ SetUserRolesMask(c)
  \/ QueryFails(c)

RolesNext == \E c \in Callers : RolesStep(c)

-----------------------------------------------------------------------------
(* Properties *)

\* The roles named for a cached user are those of the mask cached with them, by
\* the definitions now in force: a change of the definitions takes the names
\* computed from the old ones with it, whatever calls overlap it.
\* (role_module.py: load_roles, get_user_roles)
NamesFitMasks == \A u \in DOMAIN cache : cache[u].names = MaskToNames(cache[u].mask)

\* When no call runs, what the process authorises requests with is what the
\* tables hold, except for a copy that was last assigned from a read older than
\* the latest change, or whose refresh failed.
\* (role_admin_module.py: add_role_member, remove_role_member; role_module.py:
\* upsert_role, delete_role)
CopiesFollowTables ==
  AtRest => /\ roles = defs \/ "roles" \in lagging
            /\ domains = defs \/ "domains" \in lagging
            /\ \A u \in DOMAIN cache : cache[u].mask = mask[u] \/ u \in lagging

\* Members added and removed by different administrators do not undo each other:
\* a mask is what all the calls so far asked for, unless a purchase wrote it from
\* a read older than another change.
\* (identity/roles/mssql.py: _add_role_member, _remove_role_member; finance_module.py:
\* purchase_product)
ChangesAreKept == \A u \in DOMAIN mask : mask[u] = wanted[u] \/ u \in reverted

\* Roles are what they were last decided to be, in the tables and in every copy
\* (role_module.py, role_admin_module.py).
RolesAreSound == NamesFitMasks /\ CopiesFollowTables /\ ChangesAreKept
===============================================================================
