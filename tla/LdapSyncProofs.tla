--------------------------- MODULE LdapSyncProofs ---------------------------
(***************************************************************************)
(* What a run of the export writes, proved for any users, groups, grants,  *)
(* changes and faults.  The invariant says what the plan is about: every   *)
(* action not yet executed was computed from the entry as it still is (a   *)
(* run is the only writer), and what is no longer in the plan of a run     *)
(* without trouble is as desired.                                          *)
(***************************************************************************)
EXTENDS LdapSync, TLAPS

(* A blocked user's password is disabled, in every record that is asked    *)
(* for.                                                                    *)
LockImpliesDisabled ==
  \A dn \in DOMAIN desired : dn[1] = "user" => desired[dn].disabled = desired[dn].locked

DifferingOf(dn, cur, des) == IF dn[1] = "user" THEN DifferingUser(cur, des) ELSE Differing(cur, des)

Fits(dn) ==
  \/ plan[dn].action = "add" /\ dn \in DOMAIN desired /\ plan[dn].record = desired[dn]
  \/ plan[dn].action = "delete" /\ dn \notin DOMAIN desired
  \/ /\ plan[dn].action = "modify" /\ dn \in DOMAIN desired /\ plan[dn].record = desired[dn]
     /\ entry[dn] # None
     /\ plan[dn].attrs = DifferingOf(dn, entry[dn], desired[dn])

PlanFits == phase = "executing" => \A dn \in DOMAIN plan : Fits(dn)

AsDesired(dn) ==
  IF dn \notin DOMAIN desired THEN entry[dn] = None
  ELSE \/ entry[dn] = desired[dn]
       \/ /\ dn[1] = "user" /\ desired[dn].locked
          /\ entry[dn] = [desired[dn] EXCEPT !.locked = FALSE]

CleanSoFar ==
  phase = "executing" /\ clean =>
    /\ \A dn \in Dn \ DOMAIN plan : AsDesired(dn)
    /\ \A dn \in DOMAIN plan : plan[dn].action = "add" => entry[dn] = None

ExportInv == TypeOK /\ LockImpliesDisabled /\ PlanFits /\ CleanSoFar

-----------------------------------------------------------------------------
LEMMA DesiredInDn == TypeOK => DesiredDns \subseteq Dn
  BY ExportAssumption DEF TypeOK, DesiredDns, Dn

(* A record that is asked for is well typed, and disabled if locked.       *)
LEMMA RecordTyped ==
  ASSUME TypeOK, NEW dn \in DesiredDns
  PROVE  /\ RecordOf(dn) \in EntryOf(dn)
         /\ dn[1] = "user" => RecordOf(dn).disabled = RecordOf(dn).locked
<1>1. CASE dn \in {"user"} \X User
  <2>1. PICK u \in User : dn = <<"user", u>>
    BY <1>1
  <2>2. RecordOf(dn) = UserRecord(u) /\ EntryOf(dn) = UserEntry
    BY <2>1 DEF RecordOf, EntryOf
  <2>3. password[u] \in 0 .. MaxPassword /\ Blocked(u) \in BOOLEAN
    BY <2>1 DEF TypeOK, Blocked, Has
  <2>. QED  BY <2>2, <2>3 DEF UserRecord, UserEntry
<1>2. CASE dn \in {"group"} \X DOMAIN grants
  <2>1. RecordOf(dn) = [member |-> Members(dn[2])] /\ EntryOf(dn) = GroupEntry /\ dn[1] # "user"
    BY <1>2 DEF RecordOf, EntryOf
  <2>. QED  BY <2>1 DEF GroupEntry, Members
<1>3. CASE dn \in {"property"} \X Exported
  <2>1. RecordOf(dn) = [member |-> Carriers(dn[2])] /\ EntryOf(dn) = GroupEntry /\ dn[1] # "user"
    BY <1>3 DEF RecordOf, EntryOf
  <2>. QED  BY <2>1 DEF GroupEntry, Carriers
<1>4. dn \in {"user"} \X User \/ dn \in {"group"} \X DOMAIN grants \/ dn \in {"property"} \X Exported
  BY ExportAssumption DEF DesiredDns
<1>. QED  BY <1>1, <1>2, <1>3, <1>4

(* What an action that fits makes of an entry: typed, and as desired up to *)
(* a lifted lock; an entry that was there before stays for an add.         *)
LEMMA AppliedResult ==
  ASSUME ExportInv, phase = "executing", NEW dn \in DOMAIN plan
  PROVE  /\ Applied(dn, plan[dn]) \in EntryOf(dn) \cup {None}
         /\ plan[dn].action = "delete" => Applied(dn, plan[dn]) = None
         /\ plan[dn].action = "add" => Applied(dn, plan[dn])
                 = IF entry[dn] = None THEN desired[dn] ELSE entry[dn]
         /\ plan[dn].action = "modify" =>
               \/ Applied(dn, plan[dn]) = desired[dn]
               \/ /\ dn[1] = "user" /\ desired[dn].locked
                  /\ Applied(dn, plan[dn]) = [desired[dn] EXCEPT !.locked = FALSE]
<1>0. dn \in Dn /\ Fits(dn) /\ entry[dn] \in EntryOf(dn) \cup {None}
  BY DEF ExportInv, TypeOK, PlanFits
<1>1. CASE plan[dn].action = "add"
  <2>1. plan[dn].record = desired[dn] /\ dn \in DOMAIN desired
    BY <1>0, <1>1 DEF Fits
  <2>2. desired[dn] \in EntryOf(dn)
    BY <2>1 DEF ExportInv, TypeOK
  <2>3. Applied(dn, plan[dn]) = IF entry[dn] = None THEN desired[dn] ELSE entry[dn]
    BY <1>1, <2>1 DEF Applied
  <2>. QED  BY <1>0, <1>1, <2>2, <2>3
<1>2. CASE plan[dn].action = "delete"
  BY <1>2 DEF Applied
<1>3. CASE plan[dn].action = "modify"
  <2> DEFINE e == entry[dn]  d == desired[dn]  A == plan[dn].attrs  res == Applied(dn, plan[dn])
  <2>1. /\ dn \in DOMAIN desired /\ plan[dn].record = d /\ e # None
        /\ A = DifferingOf(dn, e, d)
    BY <1>0, <1>3 DEF Fits
  <2>2. e \in EntryOf(dn) /\ d \in EntryOf(dn)
    BY <1>0, <2>1 DEF ExportInv, TypeOK
  <2>3. res = [x \in DOMAIN e |->
                 IF x \in A THEN d[x]
                 ELSE IF x = "locked" /\ "password" \in A THEN FALSE ELSE e[x]]
    BY <1>3, <2>1 DEF Applied
  <2>4. CASE dn[1] # "user"
    <3>1. e \in GroupEntry /\ d \in GroupEntry
      BY <2>2, <2>4 DEF EntryOf
    <3>2. DOMAIN e = {"member"} /\ DOMAIN d = {"member"}
      BY <3>1 DEF GroupEntry
    <3>3. A = {a \in {"member"} : d[a] # e[a]}
      BY <2>1, <2>4, <3>2 DEF DifferingOf, Differing
    <3>4. res = [x \in {"member"} |-> d[x]]
      BY <2>3, <3>2, <3>3
    <3>5. d = [x \in {"member"} |-> d[x]]
      BY <3>1 DEF GroupEntry
    <3>. QED  BY <1>3, <3>4, <3>5, <2>2
  <2>5. CASE dn[1] = "user"
    <3>1. e \in UserEntry /\ d \in UserEntry
      BY <2>2, <2>5 DEF EntryOf
    <3> DEFINE F == {"password", "disabled", "locked", "expired"}
    <3>2. DOMAIN e = F /\ DOMAIN d = F /\ d = [x \in F |-> d[x]]
      BY <3>1 DEF UserEntry
    <3>2a. d.locked \in BOOLEAN /\ e.locked \in BOOLEAN
      BY <3>1 DEF UserEntry
    <3>3. A = DifferingUser(e, d)
      BY <2>1, <2>5 DEF DifferingOf
    <3>3a. Differing(e, d) = {a \in F : d[a] # e[a]}
      BY <3>2 DEF Differing
    <3>4. \A x \in F \ {"locked"} : res[x] = d[x]
      <4>1. \A x \in F \ {"locked"} : x \in A \/ d[x] = e[x]
        BY <3>3, <3>3a DEF DifferingUser
      <4>. QED  BY <4>1, <2>3, <3>2
    <3>5. res.locked = d.locked \/ (d.locked /\ res.locked = FALSE)
      <4>1. CASE "locked" \in A
        BY <4>1, <2>3, <3>2
      <4>2. CASE "locked" \notin A /\ "password" \in A
        <5>1. res.locked = FALSE
          BY <4>2, <2>3, <3>2
        <5>. QED  BY <5>1, <3>2a
      <4>3. CASE "locked" \notin A /\ "password" \notin A
        <5>1. ~ PasswordDiffers(e, d)
          BY <4>3, <3>3 DEF DifferingUser
        <5>2. A = Differing(e, d)
          BY <5>1, <3>3 DEF DifferingUser
        <5>3. d.locked = e.locked
          BY <4>3, <5>2, <3>3a
        <5>4. res.locked = e.locked
          BY <4>3, <2>3, <3>2
        <5>. QED  BY <5>3, <5>4
      <4>. QED  BY <4>1, <4>2, <4>3
    <3>6. res = [x \in F |-> res[x]]
      BY <2>3, <3>2
    <3>7. CASE res.locked = d.locked
      <4>1. res = d
        BY <3>2, <3>4, <3>6, <3>7
      <4>. QED  BY <1>3, <4>1, <2>2
    <3>8. CASE d.locked /\ res.locked = FALSE
      <4>1. [d EXCEPT !.locked = FALSE] = [x \in F |-> IF x = "locked" THEN FALSE ELSE d[x]]
        BY <3>2
      <4>2. res = [d EXCEPT !.locked = FALSE]
        BY <4>1, <3>4, <3>6, <3>8
      <4>3. [d EXCEPT !.locked = FALSE] \in UserEntry
        BY <3>1 DEF UserEntry
      <4>4. EntryOf(dn) = UserEntry
        BY <2>5 DEF EntryOf
      <4>. QED  BY <1>3, <2>5, <3>8, <4>2, <4>3, <4>4
    <3>. QED  BY <3>5, <3>7, <3>8
  <2>. QED  BY <2>4, <2>5
<1>. QED  BY <1>0, <1>1, <1>2, <1>3 DEF Fits

-----------------------------------------------------------------------------
(* Changes of the database leave the run alone and stay well typed.        *)
LEMMA DatabaseTyped ==
  ASSUME ExportInv, Database
  PROVE  TypeOK' /\ UNCHANGED syncVars
<1>1. UNCHANGED syncVars /\ changes' \in 0 .. MaxChanges
  <2>1. Change
    BY DEF Database, JoinOrLeave, ChangePassword, SetProperty, RemoveProperty, CreateGroup, DeleteGroup
  <2>. QED  BY <2>1, BoundsAssumption DEF Change, ExportInv, TypeOK
<1>2. /\ memberOf' \in [User -> SUBSET Group]
      /\ password' \in [User -> 0 .. MaxPassword]
      /\ DOMAIN grants' \subseteq Group
  <2>0. /\ memberOf \in [User -> SUBSET Group] /\ password \in [User -> 0 .. MaxPassword]
        /\ DOMAIN grants \subseteq Group
    BY DEF ExportInv, TypeOK
  <2>1. ASSUME NEW u \in User, NEW g \in Group, JoinOrLeave(u, g) PROVE <1>2!1 /\ <1>2!2 /\ <1>2!3
    BY <2>0, <2>1 DEF JoinOrLeave
  <2>2. ASSUME NEW u \in User, ChangePassword(u) PROVE <1>2!1 /\ <1>2!2 /\ <1>2!3
    BY <2>0, <2>2, BoundsAssumption DEF ChangePassword
  <2>3. ASSUME NEW g \in Group, NEW p \in Property, NEW flag \in BOOLEAN, SetProperty(g, p, flag)
        PROVE  <1>2!1 /\ <1>2!2 /\ <1>2!3
    BY <2>0, <2>3 DEF SetProperty, WithFlag
  <2>4. ASSUME NEW g \in Group, NEW p \in Property, RemoveProperty(g, p)
        PROVE  <1>2!1 /\ <1>2!2 /\ <1>2!3
    BY <2>0, <2>4 DEF RemoveProperty, WithoutFlag
  <2>5. ASSUME NEW g \in Group, CreateGroup(g) PROVE <1>2!1 /\ <1>2!2 /\ <1>2!3
    BY <2>0, <2>5 DEF CreateGroup, WithGroup
  <2>6. ASSUME NEW g \in Group, DeleteGroup(g) PROVE <1>2!1 /\ <1>2!2 /\ <1>2!3
    BY <2>0, <2>6 DEF DeleteGroup, WithoutGroup
  <2>. QED  BY <2>1, <2>2, <2>3, <2>4, <2>5, <2>6 DEF Database
<1>. QED  BY <1>1, <1>2 DEF ExportInv, TypeOK, syncVars

LEMMA InitInv == Init => ExportInv
<1> SUFFICES ASSUME Init PROVE ExportInv
  OBVIOUS
<1>1. TypeOK
  BY ExportAssumption, BoundsAssumption DEF Init, TypeOK, Nowhere
<1>. QED  BY <1>1 DEF Init, ExportInv, LockImpliesDisabled, PlanFits, CleanSoFar, Nowhere

LEMMA FetchDbInv ==
  ASSUME ExportInv, FetchDb
  PROVE  ExportInv'
<1>1. /\ DOMAIN desired' = DesiredDns /\ DesiredDns \subseteq Dn
      /\ \A dn \in DesiredDns : desired'[dn] = RecordOf(dn)
  BY DesiredInDn DEF FetchDb, ExportInv
<1>2. \A dn \in DOMAIN desired' :
        desired'[dn] \in EntryOf(dn) /\ (dn[1] = "user" => desired'[dn].disabled = desired'[dn].locked)
  BY <1>1, RecordTyped DEF ExportInv
<1>3. TypeOK'
  BY <1>1, <1>2 DEF FetchDb, ExportInv, TypeOK, dbVars
<1>. QED  BY <1>2, <1>3 DEF FetchDb, ExportInv, LockImpliesDisabled, PlanFits, CleanSoFar

(* The plan is computed from the entries that the searches have found.     *)
LEMMA ActionsFit ==
  ASSUME TypeOK, NEW failed \in SUBSET Kind,
         NEW found, found = [dn \in Dn |-> IF dn[1] \in failed THEN None ELSE entry[dn]],
         NEW dn \in DOMAIN Actions(found)
  PROVE  LET a == Actions(found)[dn] IN
         /\ dn \in Dn
         /\ a.action \in {"add", "modify", "delete"}
         /\ \/ a.action = "add" /\ dn \in DOMAIN desired /\ a.record = desired[dn]
               /\ (failed = {} => entry[dn] = None)
            \/ a.action = "delete" /\ dn \notin DOMAIN desired
            \/ /\ a.action = "modify" /\ dn \in DOMAIN desired /\ a.record = desired[dn]
               /\ entry[dn] # None
               /\ a.attrs = DifferingOf(dn, entry[dn], desired[dn])
<1> DEFINE want == IF dn \in DOMAIN desired THEN desired[dn] ELSE None
           a == Actions(found)[dn]
<1>1. dn \in Dn /\ found[dn] # want /\ a = ActionFor(dn, found[dn], want)
  BY DEF Actions
<1>2. dn \in DOMAIN desired => desired[dn] # None
  BY <1>1, NoneAssumption DEF TypeOK
<1>3. found[dn] = None \/ found[dn] = entry[dn]
  BY <1>1
<1>4. CASE found[dn] = None
  <2>1. dn \in DOMAIN desired /\ want = desired[dn]
    BY <1>1, <1>4
  <2>2. a = [action |-> "add", record |-> desired[dn]]
    BY <1>1, <1>4, <2>1 DEF ActionFor
  <2>3. failed = {} => entry[dn] = None
    BY <1>1, <1>4
  <2>. QED  BY <1>1, <2>1, <2>2, <2>3
<1>5. CASE found[dn] # None /\ dn \notin DOMAIN desired
  <2>1. a = [action |-> "delete"]
    BY <1>1, <1>5 DEF ActionFor
  <2>. QED  BY <1>1, <1>5, <2>1
<1>6. CASE found[dn] # None /\ dn \in DOMAIN desired
  <2>1. found[dn] = entry[dn] /\ want = desired[dn]
    BY <1>3, <1>6
  <2>2. a = [action |-> "modify", record |-> desired[dn],
             attrs |-> DifferingOf(dn, entry[dn], desired[dn])]
    BY <1>1, <1>2, <1>6, <2>1 DEF ActionFor, DifferingOf
  <2>. QED  BY <1>1, <1>6, <2>1, <2>2
<1>. QED  BY <1>4, <1>5, <1>6

LEMMA FaultBounded ==
  ASSUME faults \in 0 .. MaxFaults, Fault
  PROVE  faults' \in 0 .. MaxFaults
<1>1. MaxFaults \in Nat
  BY BoundsAssumption
<1>2. faults < MaxFaults /\ faults' = faults + 1
  BY DEF Fault
<1>. QED  BY <1>1, <1>2

LEMMA FetchLdapInv ==
  ASSUME ExportInv, NEW failed \in SUBSET Kind, FetchLdap(failed)
  PROVE  ExportInv'
<1> DEFINE found == [dn \in Dn |-> IF dn[1] \in failed THEN None ELSE entry[dn]]
<1>1. plan' = Actions(found) /\ phase' = "executing" /\ UNCHANGED <<dbVars, entry, desired>>
  BY DEF FetchLdap
<1>2. faults' \in 0 .. MaxFaults /\ clean' \in BOOLEAN /\ (clean' => failed = {})
  <2>1. faults \in 0 .. MaxFaults /\ clean \in BOOLEAN
    BY DEF ExportInv, TypeOK
  <2>2. CASE failed = {}
    BY <2>1, <2>2 DEF FetchLdap
  <2>3. CASE failed # {}
    <3>1. Fault
      BY <2>3 DEF FetchLdap
    <3>. QED  BY <2>1, <3>1, FaultBounded DEF Fault
  <2>. QED  BY <2>2, <2>3
<1>3. \A dn \in DOMAIN plan' :
        /\ dn \in Dn /\ plan'[dn].action \in {"add", "modify", "delete"}
        /\ Fits(dn)'
        /\ failed = {} => (plan'[dn].action = "add" => entry[dn] = None)
  <2> SUFFICES ASSUME NEW dn \in DOMAIN plan'
               PROVE  /\ dn \in Dn /\ plan'[dn].action \in {"add", "modify", "delete"}
                      /\ Fits(dn)'
                      /\ failed = {} => (plan'[dn].action = "add" => entry[dn] = None)
    OBVIOUS
  <2>1. TypeOK
    BY DEF ExportInv
  <2> HIDE DEF found
  <2>2. found = [d \in Dn |-> IF d[1] \in failed THEN None ELSE entry[d]]
    BY DEF found
  <2>3. dn \in DOMAIN Actions(found)
    BY <1>1
  <2>4. /\ dn \in Dn
        /\ plan'[dn].action \in {"add", "modify", "delete"}
        /\ \/ plan'[dn].action = "add" /\ dn \in DOMAIN desired /\ plan'[dn].record = desired[dn]
              /\ (failed = {} => entry[dn] = None)
           \/ plan'[dn].action = "delete" /\ dn \notin DOMAIN desired
           \/ /\ plan'[dn].action = "modify" /\ dn \in DOMAIN desired /\ plan'[dn].record = desired[dn]
              /\ entry[dn] # None
              /\ plan'[dn].attrs = DifferingOf(dn, entry[dn], desired[dn])
    BY <2>1, <2>2, <2>3, <1>1, ActionsFit
  <2>5. DifferingOf(dn, entry[dn], desired[dn])' = DifferingOf(dn, entry[dn], desired[dn])
    BY <1>1 DEF DifferingOf, DifferingUser, Differing, PasswordDiffers
  <2>. QED  BY <1>1, <2>4, <2>5 DEF Fits
<1>4. failed = {} => \A dn \in Dn \ DOMAIN plan' : AsDesired(dn)'
  <2> SUFFICES ASSUME failed = {}, NEW dn \in Dn \ DOMAIN plan' PROVE AsDesired(dn)'
    OBVIOUS
  <2>1. entry[dn] = IF dn \in DOMAIN desired THEN desired[dn] ELSE None
    BY <1>1 DEF Actions
  <2>. QED  BY <1>1, <2>1 DEF AsDesired
<1>5. TypeOK'
  <2>1. DOMAIN plan' \subseteq Dn /\ plan' = [dn \in DOMAIN plan' |-> plan'[dn]]
    BY <1>1 DEF Actions
  <2>. QED  BY <1>1, <1>2, <1>3, <2>1 DEF ExportInv, TypeOK, dbVars
<1>. QED
  BY <1>1, <1>2, <1>3, <1>4, <1>5 DEF ExportInv, LockImpliesDisabled, PlanFits, CleanSoFar

(* Executing or refusing an action takes it out of the plan; the others    *)
(* still fit, their entries being other ones.                              *)
LEMMA StepOfPlan ==
  ASSUME ExportInv, phase = "executing", NEW dn \in DOMAIN plan,
         plan' = Without(dn), UNCHANGED <<dbVars, phase, desired>>,
         entry' = entry \/ entry' = [entry EXCEPT ![dn] = Applied(dn, plan[dn])],
         faults' \in 0 .. MaxFaults, clean' \in BOOLEAN
  PROVE  TypeOK' /\ LockImpliesDisabled' /\ PlanFits'
<1>1. /\ Applied(dn, plan[dn]) \in EntryOf(dn) \cup {None}
      /\ dn \in Dn
  BY AppliedResult DEF ExportInv, TypeOK
<1>2. /\ DOMAIN entry' = Dn
      /\ \A d \in Dn : entry'[d] \in EntryOf(d) \cup {None}
      /\ \A d \in Dn \ {dn} : entry'[d] = entry[d]
  BY <1>1 DEF ExportInv, TypeOK
<1>3. /\ DOMAIN plan' = DOMAIN plan \ {dn} /\ plan' = [d \in DOMAIN plan' |-> plan'[d]]
      /\ \A d \in DOMAIN plan' : plan'[d] = plan[d]
  BY DEF Without
<1>4. TypeOK'
  BY <1>2, <1>3 DEF ExportInv, TypeOK, dbVars
<1>5. ASSUME NEW d \in DOMAIN plan' PROVE Fits(d)'
  <2>1. Fits(d) /\ plan'[d] = plan[d] /\ entry'[d] = entry[d] /\ desired' = desired
    BY <1>2, <1>3, <1>5 DEF ExportInv, PlanFits, TypeOK
  <2>2. DifferingOf(d, entry[d], desired[d])' = DifferingOf(d, entry[d], desired[d])
    BY <2>1 DEF DifferingOf, DifferingUser, Differing, PasswordDiffers
  <2>. QED  BY <2>1, <2>2 DEF Fits
<1>. QED  BY <1>4, <1>5 DEF ExportInv, LockImpliesDisabled, PlanFits

LEMMA ExecuteInv ==
  ASSUME ExportInv, NEW dn \in Dn, Execute(dn)
  PROVE  ExportInv'
<1>1. /\ phase = "executing" /\ dn \in DOMAIN plan /\ plan' = Without(dn)
      /\ entry' = [entry EXCEPT ![dn] = Applied(dn, plan[dn])]
      /\ UNCHANGED <<dbVars, phase, desired, clean, faults>>
  BY DEF Execute, Next1
<1>2. faults' \in 0 .. MaxFaults /\ clean' \in BOOLEAN
  BY <1>1 DEF ExportInv, TypeOK
<1>3. TypeOK' /\ LockImpliesDisabled' /\ PlanFits'
  BY <1>1, <1>2, StepOfPlan
<1>4. CleanSoFar'
  <2> SUFFICES ASSUME clean PROVE /\ \A d \in Dn \ DOMAIN plan' : AsDesired(d)'
                                  /\ \A d \in DOMAIN plan' : plan'[d].action = "add" => entry'[d] = None
    BY <1>1 DEF CleanSoFar
  <2>1. /\ \A d \in Dn \ DOMAIN plan : AsDesired(d)
        /\ \A d \in DOMAIN plan : plan[d].action = "add" => entry[d] = None
    BY <1>1 DEF ExportInv, CleanSoFar
  <2>2. /\ DOMAIN plan' = DOMAIN plan \ {dn} /\ DOMAIN entry = Dn
        /\ \A d \in DOMAIN plan' : plan'[d] = plan[d] /\ entry'[d] = entry[d]
    BY <1>1 DEF Without, ExportInv, TypeOK
  <2>3. \A d \in Dn \ {dn} : entry'[d] = entry[d]
    BY <1>1, <2>2
  <2>4. \A d \in Dn \ DOMAIN plan : AsDesired(d)'
    BY <1>1, <2>1, <2>3 DEF AsDesired
  <2>5. AsDesired(dn)'
    <3>1. entry'[dn] = Applied(dn, plan[dn]) /\ desired' = desired
      BY <1>1, <2>2
    <3>2. Fits(dn) /\ (plan[dn].action = "add" => entry[dn] = None)
      BY <1>1, <2>1 DEF ExportInv, PlanFits
    <3>3. /\ plan[dn].action = "delete" => Applied(dn, plan[dn]) = None
          /\ plan[dn].action = "add" => Applied(dn, plan[dn])
                = IF entry[dn] = None THEN desired[dn] ELSE entry[dn]
          /\ plan[dn].action = "modify" =>
               \/ Applied(dn, plan[dn]) = desired[dn]
               \/ /\ dn[1] = "user" /\ desired[dn].locked
                  /\ Applied(dn, plan[dn]) = [desired[dn] EXCEPT !.locked = FALSE]
      BY <1>1, AppliedResult
    <3>. QED  BY <3>1, <3>2, <3>3 DEF AsDesired, Fits
  <2>. QED  BY <2>1, <2>2, <2>4, <2>5
<1>. QED  BY <1>3, <1>4 DEF ExportInv

LEMMA TroubleInv ==
  ASSUME ExportInv, Trouble
  PROVE  ExportInv'
<1>1. ASSUME NEW failed \in SUBSET Kind \ {{}}, FetchLdap(failed) PROVE ExportInv'
  BY <1>1, FetchLdapInv
<1>2. ASSUME NEW dn \in Dn, Refuse(dn) PROVE ExportInv'
  <2>1. /\ phase = "executing" /\ dn \in DOMAIN plan /\ plan' = Without(dn) /\ entry' = entry
        /\ UNCHANGED <<dbVars, phase, desired>> /\ clean' = FALSE
    BY <1>2 DEF Refuse, Next1, Fault
  <2>2. faults' \in 0 .. MaxFaults /\ clean' \in BOOLEAN
    <3>1. Fault /\ faults \in 0 .. MaxFaults
      BY <1>2 DEF Refuse, ExportInv, TypeOK
    <3>. QED  BY <2>1, <3>1, FaultBounded
  <2>3. TypeOK' /\ LockImpliesDisabled' /\ PlanFits'
    BY <2>1, <2>2, StepOfPlan
  <2>. QED  BY <2>1, <2>3 DEF ExportInv, CleanSoFar
<1>3. CASE Abort
  <2>1. faults' \in 0 .. MaxFaults
    <3>1. Fault /\ faults \in 0 .. MaxFaults
      BY <1>3 DEF Abort, ExportInv, TypeOK
    <3>. QED  BY <3>1, FaultBounded
  <2>2. TypeOK'
    BY <1>3, <2>1 DEF Abort, Fault, ExportInv, TypeOK, dbVars, Nowhere
  <2>. QED  BY <1>3, <2>2 DEF Abort, ExportInv, LockImpliesDisabled, PlanFits, CleanSoFar, Nowhere
<1>. QED  BY <1>1, <1>2, <1>3 DEF Trouble

LEMMA StepInv == ExportInv /\ [Next]_vars => ExportInv'
<1> SUFFICES ASSUME ExportInv, [Next]_vars PROVE ExportInv'
  OBVIOUS
<1>1. CASE Database
  <2>1. TypeOK' /\ UNCHANGED syncVars
    BY <1>1, DatabaseTyped
  <2>2. /\ entry' = entry /\ phase' = phase /\ desired' = desired /\ plan' = plan
        /\ clean' = clean
    BY <2>1 DEF syncVars
  <2>3. \A dn : Fits(dn)' = Fits(dn)
    BY <2>2 DEF Fits, DifferingOf, DifferingUser, Differing, PasswordDiffers
  <2>. QED  BY <2>1, <2>2, <2>3 DEF ExportInv, LockImpliesDisabled, PlanFits, CleanSoFar, AsDesired
<1>2. CASE FetchDb
  BY <1>2, FetchDbInv
<1>3. CASE FetchLdap({})
  BY <1>3, FetchLdapInv
<1>4. ASSUME NEW dn \in Dn, Execute(dn) PROVE ExportInv'
  BY <1>4, ExecuteInv
<1>5. CASE Finish
  <2>1. TypeOK'
    BY <1>5 DEF Finish, ExportInv, TypeOK, dbVars, Nowhere
  <2>. QED  BY <1>5, <2>1 DEF Finish, ExportInv, LockImpliesDisabled, PlanFits, CleanSoFar, Nowhere
<1>6. CASE Trouble
  BY <1>6, TroubleInv
<1>7. CASE UNCHANGED vars
  <2>1. TypeOK'
    BY <1>7 DEF vars, dbVars, syncVars, ExportInv, TypeOK
  <2>2. /\ entry' = entry /\ phase' = phase /\ desired' = desired /\ plan' = plan
        /\ clean' = clean
    BY <1>7 DEF vars, syncVars
  <2>3. \A dn : Fits(dn)' = Fits(dn)
    BY <2>2 DEF Fits, DifferingOf, DifferingUser, Differing, PasswordDiffers
  <2>. QED  BY <2>1, <2>2, <2>3 DEF ExportInv, LockImpliesDisabled, PlanFits, CleanSoFar, AsDesired
<1>. QED  BY <1>1, <1>2, <1>3, <1>4, <1>5, <1>6, <1>7 DEF Next, Work

(* The export is well typed, and its plan always fits the directory.       *)
THEOREM ExportInvHolds == Spec => []ExportInv
  BY InitInv, StepInv, PTL DEF Spec

THEOREM ExportTypeCorrect == Spec => []TypeOK
<1>1. ExportInv => TypeOK
  BY DEF ExportInv
<1>. QED  BY <1>1, ExportInvHolds, PTL

-----------------------------------------------------------------------------
(* No operation of a run makes the entry of a user usable whom the         *)
(* database, as this run has read it, blocks: whatever was refused before, *)
(* whatever the overlay has lifted, and whichever searches failed.         *)
THEOREM SuspendedAlwaysStayOut == Spec => SuspendedStayOut
<1> DEFINE StaysOut == \A dn \in Dn : dn[1] = "user" /\ entry'[dn] # entry[dn] /\ Usable(entry'[dn])
                          => ~ desired[dn].locked
<1>1. ExportInv /\ [Next]_vars => [StaysOut]_vars
  <2> SUFFICES ASSUME ExportInv, Next, NEW dn \in Dn, dn[1] = "user",
                      entry'[dn] # entry[dn], Usable(entry'[dn])
               PROVE  ~ desired[dn].locked
    OBVIOUS
  <2>1. Execute(dn)
    <3>1. entry' = entry \/ \E d \in Dn : Execute(d)
      <4>1. Database => entry' = entry
        BY DatabaseTyped DEF syncVars
      <4>. QED  BY <4>1 DEF Next, Work, Trouble, FetchDb, FetchLdap, Finish, Refuse, Abort
    <3>2. PICK d \in Dn : Execute(d)
      BY <3>1
    <3>3. entry' = [entry EXCEPT ![d] = Applied(d, plan[d])] /\ DOMAIN entry = Dn
      BY <3>2 DEF Execute, ExportInv, TypeOK
    <3>4. d = dn
      BY <3>3
    <3>. QED  BY <3>2, <3>4
  <2>2. /\ phase = "executing" /\ dn \in DOMAIN plan
        /\ entry'[dn] = Applied(dn, plan[dn])
    BY <2>1 DEF Execute, Next1, ExportInv, TypeOK
  <2>3. Fits(dn) /\ entry'[dn] # None
    BY <2>2 DEF ExportInv, PlanFits, Usable
  <2>4. /\ plan[dn].action = "delete" => entry'[dn] = None
        /\ plan[dn].action = "add" => entry'[dn] = IF entry[dn] = None THEN desired[dn] ELSE entry[dn]
        /\ plan[dn].action = "modify" =>
             \/ entry'[dn] = desired[dn]
             \/ /\ dn[1] = "user" /\ desired[dn].locked
                /\ entry'[dn] = [desired[dn] EXCEPT !.locked = FALSE]
    BY <2>2, AppliedResult
  <2>5. /\ dn \in DOMAIN desired
        /\ \/ entry'[dn] = desired[dn]
           \/ entry'[dn] = [desired[dn] EXCEPT !.locked = FALSE]
    <3>1. CASE plan[dn].action = "add"
      BY <2>3, <2>4, <3>1, entry'[dn] # entry[dn] DEF Fits
    <3>2. CASE plan[dn].action = "modify"
      BY <2>3, <2>4, <3>2 DEF Fits
    <3>3. plan[dn].action \in {"add", "modify"}
      BY <2>2, <2>3, <2>4 DEF ExportInv, TypeOK
    <3>. QED  BY <3>1, <3>2, <3>3
  <2>6. desired[dn] \in UserEntry /\ desired[dn].disabled = desired[dn].locked
    BY <2>5 DEF ExportInv, TypeOK, EntryOf, LockImpliesDisabled
  <2>7. [desired[dn] EXCEPT !.locked = FALSE].disabled = desired[dn].disabled
    BY <2>6 DEF UserEntry
  <2>8. entry'[dn].disabled = desired[dn].disabled
    <3>1. CASE entry'[dn] = desired[dn]
      BY <3>1
    <3>2. CASE entry'[dn] = [desired[dn] EXCEPT !.locked = FALSE]
      BY <2>7, <3>2
    <3>. QED  BY <2>5, <3>1, <3>2
  <2>. QED  BY <2>6, <2>8 DEF Usable
<1>. QED  BY <1>1, ExportInvHolds, PTL DEF Spec, SuspendedStayOut

(* A run in which nothing fails leaves what it has read, up to locks that  *)
(* the overlay has lifted.                                                 *)
THEOREM CleanRunAlwaysExports == Spec => CleanRunExports
<1> DEFINE Exports == phase = "executing" /\ phase' = "idle" /\ clean' =>
             \A dn \in Dn :
               IF dn \notin DOMAIN desired THEN entry[dn] = None
               ELSE \/ entry[dn] = desired[dn]
                    \/ /\ dn[1] = "user" /\ desired[dn].locked
                       /\ entry[dn] = [desired[dn] EXCEPT !.locked = FALSE]
<1>1. ExportInv /\ [Next]_vars => [Exports]_vars
  <2> SUFFICES ASSUME ExportInv, Next, phase = "executing", phase' = "idle", clean', NEW dn \in Dn
               PROVE  AsDesired(dn)
    BY DEF AsDesired
  <2>1. Finish
    <3>1. Database => phase' = phase
      BY DatabaseTyped DEF syncVars
    <3>. QED  BY <3>1 DEF Next, Work, Trouble, FetchDb, FetchLdap, Execute, Refuse, Abort, Fault
  <2>2. plan = Nowhere /\ clean
    BY <2>1 DEF Finish
  <2>. QED  BY <2>2 DEF ExportInv, CleanSoFar, Nowhere
<1>. QED  BY <1>1, ExportInvHolds, PTL DEF Spec, CleanRunExports
=============================================================================
