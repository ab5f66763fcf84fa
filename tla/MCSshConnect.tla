---------------------------- MODULE MCSshConnect ----------------------------
EXTENDS SshConnect

Jump(explicit, embedded, env, methods) ==
  [explicit |-> explicit, embedded |-> embedded, env |-> env, methods |-> methods]

First == Jump(NoUser, NoUser, "ops", {"key"})

Direct == [jump_hosts : {<<>>}, has_auth : BOOLEAN]

OneHop == [jump_hosts : {<<First>>, <<Jump(NoUser, "ops", NoUser, {"key", "password"})>>,
                         <<Jump("ops", NoUser, NoUser, {})>>},
           has_auth : BOOLEAN]

TwoHops == [jump_hosts : {<<First, Jump(NoUser, NoUser, NoUser, {"password"})>>}, has_auth : BOOLEAN]

Chains == Direct \cup OneHop \cup TwoHops
=============================================================================
