----------------------------- MODULE MCLdapSync -----------------------------
(* A small instance of LdapSync for TLC. *)
EXTENDS LdapSync, TLC

CONSTANT u1

(* As in tests/factories/property.py. *)
MCFirstGrants ==
  ("member" :> [mail |-> TRUE, network_access |-> TRUE, ldap_login_enabled |-> TRUE])
  @@ ("blocked" :> [network_access |-> FALSE, ldap_login_enabled |-> FALSE])
=============================================================================
