----------------------------- MODULE Properties -----------------------------
(***************************************************************************)
(* What a user may do (model/property.py, lib/membership.py): every        *)
(* property group grants or denies some properties, and the groups that a  *)
(* user is an active member of are evaluated together.                     *)
(*                                                                         *)
(* grants maps each existing group to the properties it knows, and each of *)
(* these to TRUE (granted) or FALSE (denied).                              *)
(***************************************************************************)
EXTENDS FiniteSets

(* The rows that evaluate_properties groups by user and property. *)
Flags(grants, groups, p) ==
  {grants[g][p] : g \in {h \in groups \cap DOMAIN grants : p \in DOMAIN grants[h]}}

(* every(granted); User.has_property, current_properties *)
Granted(grants, groups, p) == Flags(grants, groups, p) = {TRUE}

(* bool_or(granted) and not every(granted): the rows with denied = true *)
Denied(grants, groups, p) == Flags(grants, groups, p) = {TRUE, FALSE}

(* The rows of current_property, denied or not. *)
Listed(grants, groups, p) == Granted(grants, groups, p) \/ Denied(grants, groups, p)

(* grant_property, deny_property *)
WithFlag(grants, g, p, flag) ==
  [grants EXCEPT ![g] = [q \in DOMAIN @ \cup {p} |-> IF q = p THEN flag ELSE @[q]]]

(* remove_property *)
WithoutFlag(grants, g, p) == [grants EXCEPT ![g] = [q \in DOMAIN @ \ {p} |-> @[q]]]

(* property_group_create *)
WithGroup(grants, g) ==
  [h \in DOMAIN grants \cup {g} |-> IF h = g THEN [q \in {} |-> TRUE] ELSE grants[h]]

(* delete_property_group *)
WithoutGroup(grants, g) == [h \in DOMAIN grants \ {g} |-> grants[h]]
=============================================================================
