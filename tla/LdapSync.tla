------------------------------ MODULE LdapSync ------------------------------
(***************************************************************************)
(* The export to the directory (ldap_sync): a run reads the database, then *)
(* the directory, and executes the differences one operation at a time.    *)
(* An operation that is refused is only logged; a lost connection ends the *)
(* run, and the next one starts anew.                                      *)
(*                                                                         *)
(* The database changes at any time: memberships begin and end, passwords  *)
(* are changed, groups and what they grant are edited (web/blueprints/     *)
(* properties).  The directory has a rule of its own, the ppolicy overlay: *)
(* a new password lifts the lock of the account.                           *)
(***************************************************************************)
EXTENDS Properties, Integers

CONSTANTS
  User, Group,
  Exported,         \* EXPORTED_PROPERTIES
  Required,         \* config.required_property, also a property
  WithAccount,      \* users that have a unix account
  FirstGrants,      \* what the groups grant at the beginning
  None,
  MaxPassword,      \* bound on the changes of a password
  MaxChanges,       \* bound on the changes of the database
  MaxFaults         \* bound on refused operations, failed searches, lost connections

LoginEnabled == "ldap_login_enabled"
Property     == Exported \cup {Required, LoginEnabled}
Kind         == {"user", "group", "property"}
Dn           == ({"user"} \X User) \cup ({"group"} \X Group) \cup ({"property"} \X Exported)

ASSUME ExportAssumption ==
  /\ WithAccount \subseteq User
  /\ DOMAIN FirstGrants \subseteq Group
  /\ \A g \in DOMAIN FirstGrants :
       DOMAIN FirstGrants[g] \subseteq Property /\ \A p \in DOMAIN FirstGrants[g] : FirstGrants[g][p] \in BOOLEAN
ASSUME BoundsAssumption == {MaxPassword, MaxChanges, MaxFaults} \subseteq Nat

VARIABLES
  memberOf,    \* user -> groups of the active memberships
  password,    \* user -> version of passwd_hash
  grants,      \* see Properties
  changes,     \* changes of the database so far
  entry,       \* the directory: dn -> entry or None
  phase,       \* of the run: idle, fetched (the database), executing
  desired,     \* records read from the database: dn -> record
  plan,        \* actions not yet executed: dn -> action
  clean,       \* nothing of this run has failed
  faults

dbVars   == <<memberOf, password, grants, changes>>
syncVars == <<entry, phase, desired, plan, clean, faults>>
vars     == <<dbVars, syncVars>>

UserEntry  == [password: 0 .. MaxPassword, disabled: BOOLEAN, locked: BOOLEAN, expired: BOOLEAN]
GroupEntry == [member: SUBSET User]
EntryOf(dn) == IF dn[1] = "user" THEN UserEntry ELSE GroupEntry

ASSUME NoneAssumption == \A dn \in Dn : None \notin EntryOf(dn)

Nowhere == [dn \in {} |-> None]

TypeOK ==
  /\ memberOf \in [User -> SUBSET Group]
  /\ password \in [User -> 0 .. MaxPassword]
  /\ DOMAIN grants \subseteq Group
  /\ changes \in 0 .. MaxChanges /\ faults \in 0 .. MaxFaults
  /\ DOMAIN entry = Dn
  /\ \A dn \in Dn : entry[dn] \in EntryOf(dn) \cup {None}
  /\ phase \in {"idle", "fetched", "executing"}
  /\ DOMAIN desired \subseteq Dn
  /\ \A dn \in DOMAIN desired : desired[dn] \in EntryOf(dn)
  /\ plan = [dn \in DOMAIN plan |-> plan[dn]] /\ DOMAIN plan \subseteq Dn
  /\ \A dn \in DOMAIN plan : plan[dn].action \in {"add", "modify", "delete"}
  /\ clean \in BOOLEAN
  /\ phase = "idle" => plan = Nowhere

Init ==
  /\ memberOf = [u \in User |-> {}]
  /\ password = [u \in User |-> 0]
  /\ grants = FirstGrants
  /\ changes = 0 /\ faults = 0
  /\ entry = [dn \in Dn |-> None]
  /\ phase = "idle" /\ desired = Nowhere /\ plan = Nowhere /\ clean = TRUE

----------------------------------------------------------------------------
(* The records that the database asks for. *)

Has(u, p) == Granted(grants, memberOf[u], p)

(* _fetch_db_users: should_be_blocked *)
Blocked(u) == ~ Has(u, LoginEnabled)

MutUserRecord(u) ==    \* mutation: the lock alone, no "!"
  [password |-> password[u], disabled |-> FALSE, locked |-> Blocked(u),
   expired |-> Blocked(u)]

(* db_user_to_record: the hash of a blocked user is prefixed by "!" *)
UserRecord(u) ==
  [password |-> password[u], disabled |-> Blocked(u), locked |-> Blocked(u),
   expired |-> Blocked(u)]

(* _fetch_db_groups: all members, exported or not *)
Members(g) == {u \in User : g \in memberOf[u]}

(* _fetch_db_properties: denied is not asked for *)
Carriers(p) == {u \in User : Listed(grants, memberOf[u], p)}

DesiredDns ==
  {<<"user", u>> : u \in {v \in WithAccount : Has(v, Required)}}
  \cup ({"group"} \X DOMAIN grants) \cup ({"property"} \X Exported)

RecordOf(dn) ==
  CASE dn[1] = "user"     -> UserRecord(dn[2])
    [] dn[1] = "group"    -> [member |-> Members(dn[2])]
    [] dn[1] = "property" -> [member |-> Carriers(dn[2])]

----------------------------------------------------------------------------
(* Changes of the database. *)

Change ==
  /\ changes < MaxChanges
  /\ changes' = changes + 1
  /\ UNCHANGED syncVars

(* make_member_of, remove_member_of, or the bound of a membership passes *)
JoinOrLeave(u, g) ==
  /\ g \in DOMAIN grants
  /\ memberOf' = [memberOf EXCEPT ![u] = IF g \in @ THEN @ \ {g} ELSE @ \cup {g}]
  /\ Change /\ UNCHANGED <<password, grants>>

(* change_password, reset_password *)
ChangePassword(u) ==
  /\ password[u] < MaxPassword
  /\ password' = [password EXCEPT ![u] = @ + 1]
  /\ Change /\ UNCHANGED <<memberOf, grants>>

(* property_group_grant_property, property_group_deny_property *)
SetProperty(g, p, flag) ==
  /\ g \in DOMAIN grants
  /\ grants' = WithFlag(grants, g, p, flag)
  /\ Change /\ UNCHANGED <<memberOf, password>>

(* property_group_remove_property *)
RemoveProperty(g, p) ==
  /\ g \in DOMAIN grants /\ p \in DOMAIN grants[g]
  /\ grants' = WithoutFlag(grants, g, p)
  /\ Change /\ UNCHANGED <<memberOf, password>>

(* property_group_create *)
CreateGroup(g) ==
  /\ g \notin DOMAIN grants
  /\ grants' = WithGroup(grants, g)
  /\ Change /\ UNCHANGED <<memberOf, password>>

(* property_group_delete, with the memberships of the group *)
DeleteGroup(g) ==
  /\ g \in DOMAIN grants
  /\ grants' = WithoutGroup(grants, g)
  /\ memberOf' = [u \in User |-> memberOf[u] \ {g}]
  /\ Change /\ UNCHANGED password

Database ==
  \/ \E u \in User, g \in Group : JoinOrLeave(u, g)
  \/ \E u \in User : ChangePassword(u)
  \/ \E g \in Group, p \in Property, flag \in BOOLEAN : SetProperty(g, p, flag)
  \/ \E g \in Group, p \in Property : RemoveProperty(g, p)
  \/ \E g \in Group : CreateGroup(g) \/ DeleteGroup(g)

----------------------------------------------------------------------------
(* A run. *)

Fault == faults < MaxFaults /\ faults' = faults + 1 /\ clean' = FALSE

(* fetch_db_users, fetch_db_groups, fetch_db_properties: one transaction,  *)
(* SERIALIZABLE, and so one snapshot                                       *)
FetchDb ==
  /\ phase = "idle"
  /\ desired' = [dn \in DesiredDns |-> RecordOf(dn)]
  /\ phase' = "fetched" /\ clean' = TRUE
  /\ UNCHANGED <<dbVars, entry, plan, faults>>

(* diff_attributes *)
Differing(cur, des) == {a \in DOMAIN des : des[a] # cur[a]}

PasswordDiffers(cur, des) == des.password # cur.password \/ des.disabled # cur.disabled

MutDifferingUser(cur, des) ==    \* mutation: all changes of the lock are left to the overlay
  IF PasswordDiffers(cur, des)
  THEN (Differing(cur, des) \cup {"password", "disabled"}) \ {"locked", "expired"}
  ELSE Differing(cur, des)

(* diff_user_attributes: password and disabled are the one attribute       *)
(* userPassword; lifting the lock is left to the overlay when it changes.  *)
DifferingUser(cur, des) ==
  IF PasswordDiffers(cur, des)
  THEN (Differing(cur, des) \cup {"password", "disabled"})
       \ (IF des.locked THEN {} ELSE {"locked"})
  ELSE Differing(cur, des)

(* diff_records: Idle where the two are equal *)
ActionFor(dn, cur, des) ==
  IF cur = None THEN [action |-> "add", record |-> des]
  ELSE IF des = None THEN [action |-> "delete"]
  ELSE [action |-> "modify", record |-> des,
        attrs |-> IF dn[1] = "user" THEN DifferingUser(cur, des) ELSE Differing(cur, des)]

MutActions(current) ==    \* mutation: entries that nobody asks for any more stay
  LET differing == {dn \in DOMAIN desired : current[dn] # desired[dn]}
  IN  [dn \in differing |-> ActionFor(dn, current[dn], desired[dn])]

(* bulk_diff_records *)
Actions(current) ==
  LET wanted(dn) == IF dn \in DOMAIN desired THEN desired[dn] ELSE None
      differing  == {dn \in Dn : current[dn] # wanted(dn)}
  IN  [dn \in differing |-> ActionFor(dn, current[dn], wanted(dn))]

(* fetch_ldap_users, fetch_ldap_groups, fetch_ldap_properties: a search    *)
(* that fails yields no entries                                            *)
FetchLdap(failed) ==
  /\ phase = "fetched"
  /\ plan' = Actions([dn \in Dn |-> IF dn[1] \in failed THEN None ELSE entry[dn]])
  /\ phase' = "executing"
  /\ IF failed = {} THEN UNCHANGED <<clean, faults>> ELSE Fault
  /\ UNCHANGED <<dbVars, entry, desired>>

Rank(dn) == CASE dn[1] = "user" -> 1 [] dn[1] = "group" -> 2 [] dn[1] = "property" -> 3

(* What the server makes of an operation: an entry cannot be added twice,  *)
(* nor changed or deleted when it is not there; ppolicy lifts the lock.    *)
Applied(dn, a) ==
  LET e == entry[dn] IN
  CASE a.action = "add"    -> IF e = None THEN a.record ELSE e
    [] a.action = "delete" -> None
    [] a.action = "modify" -> IF e = None THEN None ELSE
         [x \in DOMAIN e |->
            IF x \in a.attrs THEN a.record[x]
            ELSE IF x = "locked" /\ "password" \in a.attrs THEN FALSE ELSE e[x]]

Next1(dn) == dn \in DOMAIN plan /\ \A d \in DOMAIN plan : Rank(dn) <= Rank(d)

Without(dn) == [d \in DOMAIN plan \ {dn} |-> plan[d]]

(* execute_real *)
Execute(dn) ==
  /\ phase = "executing" /\ Next1(dn)
  /\ entry' = [entry EXCEPT ![dn] = Applied(dn, plan[dn])]
  /\ plan' = Without(dn)
  /\ UNCHANGED <<dbVars, phase, desired, clean, faults>>

(* debug_whether_success: "Operation unsuccessful" *)
Refuse(dn) ==
  /\ phase = "executing" /\ Next1(dn)
  /\ Fault
  /\ plan' = Without(dn)
  /\ UNCHANGED <<dbVars, entry, phase, desired>>

Finish ==
  /\ phase = "executing" /\ plan = Nowhere
  /\ phase' = "idle" /\ desired' = Nowhere
  /\ UNCHANGED <<dbVars, entry, plan, clean, faults>>

(* An exception of ldap3 or of the database ends the process. *)
Abort ==
  /\ phase # "idle"
  /\ Fault
  /\ phase' = "idle" /\ desired' = Nowhere /\ plan' = Nowhere
  /\ UNCHANGED <<dbVars, entry>>

Work ==
  \/ FetchDb
  \/ FetchLdap({})
  \/ \E dn \in Dn : Execute(dn)
  \/ Finish

Trouble ==
  \/ \E failed \in SUBSET Kind \ {{}} : FetchLdap(failed)
  \/ \E dn \in Dn : Refuse(dn)
  \/ Abort

Next == Database \/ Work \/ Trouble

Spec     == Init /\ [][Next]_vars

(* The export is started again and again. *)
FairSpec == Spec /\ WF_vars(Work)

----------------------------------------------------------------------------
Usable(e) == e # None /\ ~ e.disabled /\ ~ e.locked

(* A suspended user cannot log in: what a run writes into an entry leaves  *)
(* it unusable if the database, as the run has read it, blocks the user -  *)
(* also when the user has changed the password, which lifts the lock, and  *)
(* when operations before were refused (conversion.py:30: "Disabling the   *)
(* password is just a safety measure on top of the pwdLockout mechanism"). *)
SuspendedStayOut ==
  [][\A dn \in Dn : dn[1] = "user" /\ entry'[dn] # entry[dn] /\ Usable(entry'[dn])
       => ~ desired[dn].locked]_vars

(* A run in which nothing fails leaves the directory as the database was   *)
(* when it was read, except for locks that the overlay has lifted; it      *)
(* never leaves one that should be lifted (execute_real, diff_records).    *)
CleanRunExports ==
  [][phase = "executing" /\ phase' = "idle" /\ clean' =>
       \A dn \in Dn :
         IF dn \notin DOMAIN desired THEN entry[dn] = None
         ELSE \/ entry[dn] = desired[dn]
              \/ /\ dn[1] = "user" /\ desired[dn].locked
                 /\ entry[dn] = [desired[dn] EXCEPT !.locked = FALSE]]_vars

InStep == \A dn \in Dn : entry[dn] = IF dn \in DesiredDns THEN RecordOf(dn) ELSE None

(* Once the database and the faults are at rest, the directory comes to    *)
(* agree with it and stays so, whatever was refused, lost, lifted or       *)
(* half done before: every run diffs anew.                                 *)
ExportConverges == <>[]InStep
=============================================================================
