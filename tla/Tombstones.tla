----------------------------- MODULE Tombstones -----------------------------
(***************************************************************************)
(* Users, their unix accounts, and the tombstones that keep a login or a   *)
(* uid from being given out twice: the triggers of                         *)
(* pycroft/model/unix_account.py, under create_user and the other changes  *)
(* that the model allows.  Every action is one committed transaction.      *)
(*                                                                         *)
(* The two foreign keys onto the tombstones and the constraint trigger     *)
(* check_tombstone_consistency are no guards here, except where a trigger  *)
(* would run into one: that the other triggers suffice is a property.      *)
(***************************************************************************)
EXTENDS Integers

CONSTANTS
  User, Account,   \* row ids
  Login,
  Web,             \* sessions that run create_user
  MaxUid,          \* bound on unix_account_uid_seq
  AdoptOrphans,    \* may a new user take an account that had another user?
  Null

ASSUME IdAssumption == Null \notin User \cup Account \cup Login \cup Int
ASSUME UidAssumption == MaxUid \in Nat
ASSUME AdoptAssumption == AdoptOrphans \in BOOLEAN

VARIABLES
  users,      \* user id -> login and account, Null where there is no user
  accounts,   \* account id -> uid, Null where there is no account
  stones,     \* the unix_tombstone table
  nextUid,    \* unix_account_uid_seq
  checked,    \* web session -> the login that login_available accepted
  owner       \* history: login -> the first user who had it

vars == <<users, accounts, stones, nextUid, checked, owner>>

Uid   == 1 .. MaxUid
Stone == {s \in [uid: Uid \cup {Null}, login: Login \cup {Null}] :
            s.uid # Null \/ s.login # Null}

UserRow == [login: Login, account: Account \cup {Null}]

TypeOK ==
  /\ users \in [User -> UserRow \cup {Null}]
  /\ accounts \in [Account -> Uid \cup {Null}]
  /\ stones \subseteq Stone
  /\ nextUid \in 1 .. MaxUid + 1
  /\ checked \in [Web -> Login \cup {Null}]
  /\ owner \in [Login -> User \cup {Null}]

Init ==
  /\ users = [u \in User |-> Null]
  /\ accounts = [a \in Account |-> Null]
  /\ stones = {}
  /\ nextUid = 1
  /\ checked = [w \in Web |-> Null]
  /\ owner = [l \in Login |-> Null]

----------------------------------------------------------------------------
Users == {u \in User : users[u] # Null}
Accounts == {a \in Account : accounts[a] # Null}

(* A fresh row: ids come from a sequence and are not given out again.      *)
NewUser(u) == users[u] = Null /\ \A l \in Login : owner[l] # u

(* login_available: no tombstone has the login. *)
Available(l) == \A s \in stones : s.login # l

(* user.unix_account_id is unique. *)
Unclaimed(a) == \A u \in Users : users[u].account # a

(* check_tombstone_consistency: what the deferred trigger on both tables   *)
(* accepts of a user.                                                      *)
Consistent(u) ==
  users[u].account # Null =>
    /\ users[u].account \in Accounts
    /\ [uid |-> accounts[users[u].account], login |-> users[u].login] \in stones

(* The tombstone of uid gets the login l. *)
Bound(uid, l) == {s \in stones : s.uid # uid} \cup {[uid |-> uid, login |-> l]}

Assign(u, l, a) ==
  /\ users' = [users EXCEPT ![u] = [login |-> l, account |-> a]]
  /\ owner' = [owner EXCEPT ![l] = IF @ = Null THEN u ELSE @]

----------------------------------------------------------------------------
(* create_user: first the check, ... *)
CheckLogin(w, l) ==
  /\ checked[w] = Null
  /\ Available(l)
  /\ checked' = [checked EXCEPT ![w] = l]
  /\ UNCHANGED <<users, accounts, stones, nextUid, owner>>

(* ... then an account, whose trigger makes a tombstone for the uid, and a *)
(* user, whose trigger sets its login.  A tombstone that has the login by  *)
(* now is a unique violation.                                              *)
CreateUser(w, u, a) ==
  /\ checked[w] # Null
  /\ NewUser(u) /\ a \notin Accounts
  /\ nextUid <= MaxUid
  /\ \A s \in stones : s.login # checked[w]
  /\ accounts' = [accounts EXCEPT ![a] = nextUid]
  /\ Assign(u, checked[w], a)
  /\ stones' = Bound(nextUid, checked[w])
  /\ nextUid' = nextUid + 1
  /\ checked' = [checked EXCEPT ![w] = Null]

(* The transaction fails; a uid that it drew is gone. *)
AbortCreate(w) ==
  /\ checked[w] # Null
  /\ \/ nextUid' = nextUid
     \/ nextUid <= MaxUid /\ nextUid' = nextUid + 1
  /\ checked' = [checked EXCEPT ![w] = Null]
  /\ UNCHANGED <<users, accounts, stones, owner>>

MutInsertAccount(a) ==    \* mutation: no trigger on unix_account
  /\ a \notin Accounts
  /\ nextUid <= MaxUid
  /\ accounts' = [accounts EXCEPT ![a] = nextUid]
  /\ nextUid' = nextUid + 1
  /\ UNCHANGED <<users, stones, checked, owner>>

(* unix_account_ensure_tombstone *)
InsertAccount(a) ==
  /\ a \notin Accounts
  /\ nextUid <= MaxUid
  /\ accounts' = [accounts EXCEPT ![a] = nextUid]
  /\ stones' = stones \cup {[uid |-> nextUid, login |-> Null]}
  /\ nextUid' = nextUid + 1
  /\ UNCHANGED <<users, checked, owner>>

(* user_ensure_tombstone, INSERT, for a user without an account *)
InsertUser(u, l) ==
  /\ NewUser(u)
  /\ \A s \in stones : s.login # l
  /\ Assign(u, l, Null)
  /\ stones' = stones \cup {[uid |-> Null, login |-> l]}
  /\ UNCHANGED <<accounts, nextUid, checked>>

(* ... and with one.  v_ua_ts is not set in this branch, so that the       *)
(* refusal to re-couple never fires; logins are unique, and taking the     *)
(* hash away from a living user violates that user's foreign key.          *)
InsertUserWithAccount(u, l, a) ==
  /\ NewUser(u)
  /\ a \in Accounts /\ Unclaimed(a)
  /\ \A v \in Users : users[v].login # l
  /\ \A s \in stones : s.login = l => s.uid = accounts[a]
  /\ \A s \in stones : s.uid = accounts[a] =>
       \/ s.login = Null
       \/ AdoptOrphans /\ \A v \in Users : users[v].login # s.login
  /\ Assign(u, l, a)
  /\ stones' = Bound(accounts[a], l)
  /\ UNCHANGED <<accounts, nextUid, checked>>

MutCouple(u, a) ==    \* mutation: the account's tombstone is not looked at
  /\ u \in Users /\ a \in Accounts
  /\ users[u].account # a /\ Unclaimed(a)
  /\ [uid |-> Null, login |-> users[u].login] \in stones
  /\ stones' = Bound(accounts[a], users[u].login) \ {[uid |-> Null, login |-> users[u].login]}
  /\ users' = [users EXCEPT ![u].account = a]
  /\ UNCHANGED <<accounts, nextUid, checked, owner>>

(* user_ensure_tombstone, UPDATE OF unix_account_id to an account: refuse  *)
(* an account that had another user, give up a tombstone that has only the *)
(* login, and keep one that both share; anything else is a unique          *)
(* violation.                                                              *)
Couple(u, a) ==
  /\ u \in Users /\ a \in Accounts
  /\ users[u].account # a /\ Unclaimed(a)
  /\ LET l == users[u].login
     IN  /\ \A s \in stones : s.uid = accounts[a] => s.login \in {Null, l}
         /\ \A s \in stones : s.login = l => s.uid \in {Null, accounts[a]}
         /\ stones' = Bound(accounts[a], l) \ {[uid |-> Null, login |-> l]}
  /\ users' = [users EXCEPT ![u].account = a]
  /\ UNCHANGED <<accounts, nextUid, checked, owner>>

Decouple(u) ==
  /\ u \in Users /\ users[u].account # Null
  /\ users' = [users EXCEPT ![u].account = Null]
  /\ UNCHANGED <<accounts, stones, nextUid, checked, owner>>

(* The reference of the user is set to null. *)
DeleteAccount(a) ==
  /\ a \in Accounts
  /\ accounts' = [accounts EXCEPT ![a] = Null]
  /\ users' = [u \in User |-> IF u \in Users /\ users[u].account = a
                              THEN [users[u] EXCEPT !.account = Null] ELSE users[u]]
  /\ UNCHANGED <<stones, nextUid, checked, owner>>

MutDeleteUser(u) ==    \* mutation: the tombstone of the login goes as well
  /\ u \in Users
  /\ accounts' = [a \in Account |-> IF a = users[u].account THEN Null ELSE accounts[a]]
  /\ stones' = {s \in stones : s.login # users[u].login}
  /\ users' = [users EXCEPT ![u] = Null]
  /\ UNCHANGED <<nextUid, checked, owner>>

(* The deletion cascades to the account (relationship User.unix_account).  *)
DeleteUser(u) ==
  /\ u \in Users
  /\ accounts' = [a \in Account |-> IF a = users[u].account THEN Null ELSE accounts[a]]
  /\ users' = [users EXCEPT ![u] = Null]
  /\ UNCHANGED <<stones, nextUid, checked, owner>>

Next ==
  \/ \E w \in Web :
       \/ \E l \in Login : CheckLogin(w, l)
       \/ \E u \in User, a \in Account : CreateUser(w, u, a)
       \/ AbortCreate(w)
  \/ \E a \in Account : InsertAccount(a) \/ DeleteAccount(a)
  \/ \E u \in User :
       \/ \E l \in Login : InsertUser(u, l)
       \/ \E l \in Login, a \in Account : InsertUserWithAccount(u, l, a)
       \/ \E a \in Account : Couple(u, a)
       \/ Decouple(u)
       \/ DeleteUser(u)

Spec == Init /\ [][Next]_vars
----------------------------------------------------------------------------
(* Properties. *)

(* What the foreign keys and the consistency trigger demand                *)
(* (doc/arch/adr-006.rst: T_l, T_u, E_ul), though nothing refers to them:  *)
(* every login in use and every uid in use has its one tombstone, and a    *)
(* user with an account shares one with it.                                *)
TombstonesCover ==
  /\ \A u \in Users : \E s \in stones : s.login = users[u].login
  /\ \A a \in Accounts : \E s \in stones : s.uid = accounts[a]
  /\ \A u \in Users : Consistent(u)

(* uid and login_hash are unique among the tombstones, without the unique  *)
(* indexes having a say in what the UPDATE branch writes.                  *)
TombstonesUnique ==
  \A s, t \in stones : s # t => /\ s.uid # t.uid \/ s.uid = Null
                                /\ s.login # t.login \/ s.login = Null

(* "... that no login is doubly assigned" (doc/arch/adr-006.rst:31), also  *)
(* after its user is gone and however requests for it overlap.             *)
NoLoginTwice == \A u \in Users : owner[users[u].login] = u

(* "the information contained in the tombstone tables is monotonous"       *)
(* (doc/arch/adr-006.rst:146): what a tombstone says of a uid or a login   *)
(* is never forgotten, nor said of another.                                *)
Keeps(s, t) == (s.uid # Null => t.uid = s.uid) /\ (s.login # Null => t.login = s.login)

TombstonesMonotonous == [][\A s \in stones : \E t \in stones' : Keeps(s, t)]_vars

=============================================================================
