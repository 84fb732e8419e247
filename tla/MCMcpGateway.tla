----------------------------- MODULE MCMcpGateway -----------------------------
(***************************************************************************)
(* Constants of McpGateway and the modules below it for TLC.  Each scene    *)
(* has the operations that can disturb one another.                         *)
(***************************************************************************)
EXTENDS McpGateway

CONSTANTS c1, c2

MCCallers == {c1, c2}
MCSymmetry == {[c \in MCCallers |-> c], [c \in MCCallers |-> IF c = c1 THEN c2 ELSE c1]}

MCFirstRoles == [registered |-> {0}, bot |-> {1}]
MCRoleChanges == {<<"bot", {2}>>, <<"extra", {2}>>}
MCProviderOf == [i1 |-> "discord", i2 |-> "google"]
MCEmailOf == [i1 |-> "address", i2 |-> "address"]
MCFirstAccounts == [u1 |-> "i1"]
MCLimits == [register |-> [each |-> 2, all |-> 3], token |-> [each |-> 4, all |-> 4]]

MCScenes == {
  [ops |-> {"request", "add member", "remove member", "upsert role", "delete role", "purchase"},
   calls |-> 3, ips |-> {"a"}],
  [ops |-> {"login", "register", "create", "link", "unlink", "set provider"},
   calls |-> 3, ips |-> {"a"}],
  [ops |-> {"login", "refresh", "invalidate", "logout", "unlink", "request"},
   calls |-> 4, ips |-> {"a"}],
  [ops |-> {"register client", "edit switch", "tick", "restart"},
   calls |-> 4, ips |-> {"a", "b"}],
  [ops |-> {"callback", "token", "revoke client"},
   calls |-> 4, ips |-> {"a"}]}
===============================================================================
