--------------------------- MODULE MemberRequests ---------------------------
(***************************************************************************)
(* Registration: a person applies, confirms an address by the key in a     *)
(* mail, and the request becomes an account, is merged into one or is      *)
(* denied.  Accounts confirm addresses the same way, and a token by mail   *)
(* lets the password be set (lib/user/member_request, mail_confirmation,   *)
(* edit, passwords, mail, and the pages and API calls on top of them).     *)
(*                                                                         *)
(* Left out: passwords themselves, permissions, move-in dates beyond       *)
(* whether they lie ahead, and the move-in task, see UserTasks.            *)
(***************************************************************************)
EXTENDS Rows

CONSTANTS
  Application,     \* what may be entered: name, login, email, person, room,
                   \* adult, dorm (a previous one is given), soon (later than today)
  Tenancy,         \* pairs of person and room
  FirstUsers,      \* the accounts at the beginning
  Lower            \* str.lower, of addresses

VARIABLES
  mails,      \* sent: [code, about, to], the address and the mailbox
  proven,     \* the mails that were answered
  answered,   \* codes that a committed request has used
  ended,      \* request for membership -> how often it has ended
  mixed       \* rows whose key may be that of a mail to another address

requestVars == <<rows, mails, proven, answered, ended, mixed>>

(* What is entered, and the columns of requests (prm) and accounts         *)
Table   == {"prm", "user"}
Field   == {"name", "login", "email", "person", "room", "adult", "dorm", "soon"}
Columns == [prm  |-> Field \cup {"confirmed", "key"},
            user |-> {"name", "login", "email", "person", "room", "confirmed", "key", "token"}]
Email   == {a.email : a \in Application} \cup {Lower[a.email] : a \in Application}

ASSUME RequestsAssumption ==
  /\ DOMAIN Ids = Table
  /\ \A a \in Application : DOMAIN a = Field /\ a.login # None
  /\ None \notin Email /\ \A e \in Email : e \in DOMAIN Lower /\ Lower[Lower[e]] = Lower[e]
  /\ DOMAIN FirstUsers \subseteq Ids["user"]
  /\ MaxRequests \in Nat /\ None \notin Nat

(* At the beginning no mail has been sent, so that there are no codes.     *)
ASSUME FirstUsersAssumption ==
  /\ \A u \in DOMAIN FirstUsers : /\ DOMAIN FirstUsers[u] = Columns["user"]
                                 /\ FirstUsers[u].key = None /\ FirstUsers[u].token = None
  /\ UniqueIn(FirstUsers, "login") /\ UniqueIn(FirstUsers, "person")

----------------------------------------------------------------------------
(* What is looked up. *)

AllUsers == DOMAIN db.user
Prms  == DOMAIN db.prm

PersonKnown(p) == p # None /\ \E u \in AllUsers : db.user[u].person = p

(* check_similar_user_in_room *)
SimilarInRoom(name, x) == x # None /\ \E u \in AllUsers : db.user[u].room = x /\ db.user[u].name = name

(* login_available: tombstones outlive accounts, but accounts stay here *)
LoginAvailable(l) == \A u \in AllUsers : db.user[u].login # l

(* check_new_user_data_unused *)
DataUnused(a) ==
  /\ ~ PersonKnown(a.person) /\ LoginAvailable(a.login)
  /\ \A u \in AllUsers : db.user[u].email # a.email

(* check_new_user_data; the dates entered are never invalid *)
DataFits(a, ignore_similar_name) == ignore_similar_name \/ ~ SimilarInRoom(a.name, a.room)

Code == Cardinality(mails) + 1     \* a random one is new

MutUnconfirmed(r, t, id, code) ==    \* mutation: only a new key
  Update(r, t, id, [key |-> code])

(* send_confirmation_email: the part that is written *)
Unconfirmed(r, t, id, code) == Update(r, t, id, [confirmed |-> FALSE, key |-> code])

(* user_send_mails: an account may have an internal mailbox, and gets its  *)
(* mail there unless it has it forwarded.                                  *)
InternalMailbox(u) == <<"internal", u>>
Mailboxes(t, id, e) == {e} \cup IF t = "user" THEN {InternalMailbox(id)} ELSE {}

PrmKey(id) == <<"prm", id>>
UserKey(u) == <<"user", u>>

(* Begin a request that sends nothing, sends a mail, or answers one.       *)
Begin(s, op, seen, r) ==
  /\ Decide(s, op, seen, r)
  /\ UNCHANGED <<mails, proven, answered, ended, mixed>>

(* A mail is on its way before the request commits. *)
BeginMailing(s, op, seen, r, e, boxes) ==
  /\ Decide(s, op, seen, r)
  /\ \E box \in boxes : mails' = mails \cup {[code |-> Code, about |-> e, to |-> box]}
  /\ UNCHANGED <<proven, answered, ended, mixed>>

BeginAnswering(s, op, mail, seen, r) ==
  /\ Decide(s, op, seen \cup {<<"code", mail.code>>}, r)
  /\ proven' = proven \cup {mail}
  /\ UNCHANGED <<mails, answered, ended, mixed>>

----------------------------------------------------------------------------
(* Requests for membership. *)

(* create_member_request *)
NewRequest(id, a) ==
  Insert(Nothing, "prm", id, Over([confirmed |-> FALSE, key |-> Code], a))

MayApply(a) ==
  /\ DataFits(a, FALSE)
  /\ a.dorm \/ DataUnused(a)
  /\ None \notin {a.person, a.room} => <<a.person, a.room>> \in Tenancy

(* RegistrationResource.post *)
Register(s, a) ==
  /\ MayApply(a) /\ NewIds("prm") # {}
  /\ BeginMailing(s, "register", {}, NewRequest(NewId("prm"), a), a.email, {a.email})

(* user_from_pre_member *)
AccountOf(p) ==
  [name |-> p.name, login |-> p.login, email |-> p.email, person |-> p.person,
   room |-> IF p.soon THEN None ELSE p.room, confirmed |-> p.confirmed, key |-> None, token |-> None]

MutFinished(r, id, ignore_similar_name) ==    \* mutation: the request stays
  LET p == RowIn(r, "prm", id)
  IN  IF p.room = None \/ ~ DataFits(p, ignore_similar_name) \/ ~ DataUnused(p) \/ NewIds("user") = {}
      THEN {} ELSE {Insert(r, "user", NewId("user"), AccountOf(p))}

(* finish_member_request: none if a check fails *)
Finished(r, id, ignore_similar_name) ==
  LET p == RowIn(r, "prm", id)
  IN  IF p.room = None \/ ~ DataFits(p, ignore_similar_name) \/ ~ DataUnused(p) \/ NewIds("user") = {}
      THEN {} ELSE {Insert(Delete(r, "prm", {id}), "user", NewId("user"), AccountOf(p))}

(* confirm_mail_address of a request: it becomes an account at once if     *)
(* nothing is left to be checked.  If that fails, nothing is confirmed.    *)
ConfirmedRequest(id) ==
  LET p == db.prm[id]
      r == Update(Nothing, "prm", id, [confirmed |-> TRUE, key |-> None])
  IN  IF p.person # None /\ p.room # None /\ ~ p.dorm /\ p.adult
      THEN {<<f, {<<"end", id>>}>> : f \in Finished(r, id, FALSE)}
      ELSE {<<r, {}>>}

(* confirm_mail_address of an account *)
ConfirmedUser(u) == Update(Nothing, "user", u, [confirmed |-> TRUE, key |-> None])

(* EmailConfirmResource.post *)
Confirm(s, mail) ==
  \/ \E id \in Prms :
       /\ db.prm[id].key = mail.code /\ ~ db.prm[id].confirmed
       /\ \E c \in ConfirmedRequest(id) :
            BeginAnswering(s, "confirm", mail, {PrmKey(id)} \cup c[2], c[1])
  \/ \E u \in AllUsers :
       /\ db.user[u].key = mail.code
       /\ BeginAnswering(s, "confirm", mail, {UserKey(u)}, ConfirmedUser(u))

(* member_request_finish: an administrator does not wait for the address *)
Finish(s, id) ==
  \E r \in Finished(Nothing, id, TRUE) : Begin(s, "finish", {PrmKey(id), <<"end", id>>}, r)

(* delete_member_request *)
Denied(id) == Delete(Nothing, "prm", {id})

(* member_request_delete *)
Deny(s, id) == Begin(s, "deny", {PrmKey(id), <<"end", id>>}, Denied(id))

(* edit_name and edit_person_id *)
Renamed(r, u, name)   == Update(r, "user", u, [name |-> name])
Identified(r, u, p)   == Update(r, "user", u, [person |-> p])

(* An address or None, as edit_email writes it *)
Lowered(e) == IF e = None THEN None ELSE Lower[e]

(* edit_email: what is written, and whether a mail is sent                 *)
EditedEmail(r, u, entered, is_confirmed) ==
  LET e    == Lowered(entered)
      sure == IF is_confirmed THEN Update(r, "user", u, [confirmed |-> TRUE, key |-> None]) ELSE r
      new  == Update(sure, "user", u, [email |-> e])
  IN  IF e = db.user[u].email THEN <<sure, FALSE>>
      ELSE IF e = None THEN <<Update(new, "user", u, [confirmed |-> FALSE, key |-> None]), FALSE>>
      ELSE IF is_confirmed THEN <<new, FALSE>> ELSE <<Unconfirmed(new, "user", u, Code), TRUE>>

MergedRoom(r, u, p) ==
  IF p.soon THEN r ELSE Update(r, "user", u, [room |-> p.room])

(* merge_member_request *)
Merged(id, u, what) ==
  LET p     == db.prm[id]
      r     == Delete(Nothing, "prm", {id})
      named == IF "name" \in what THEN Renamed(r, u, p.name) ELSE r
      mail  == IF "email" \in what THEN EditedEmail(named, u, p.email, p.confirmed) ELSE <<named, FALSE>>
      known == IF "person" \in what THEN Identified(mail[1], u, p.person) ELSE mail[1]
  IN  <<IF "room" \in what THEN MergedRoom(known, u, p) ELSE known, mail[2]>>

(* member_request_merge_confirm *)
Merge(s, id, u, what) ==
  LET p == db.prm[id]
      r == Merged(id, u, what)
      seen == {PrmKey(id), UserKey(u), <<"end", id>>}
  IN
  /\ "person" \in what => p.person # None
  /\ "room" \in what => p.room # None /\ p.room # db.user[u].room
  /\ IF r[2] THEN BeginMailing(s, "merge", seen, r[1], Lowered(p.email), Mailboxes("user", u, Lowered(p.email)))
     ELSE Begin(s, "merge", seen, r[1])

(* member_request_edit: the first transaction *)
EditRequest(s, id, a) ==
  /\ a.person \in {None, db.prm[id].person} \cup {t[1] : t \in Tenancy}
  /\ Begin(s, "edit", {PrmKey(id), <<"was", id, db.prm[id].email>>},
           Update(Nothing, "prm", id, [f \in Field \ {"dorm"} |-> a[f]]))

(* member_request_edit: the second one, if the address has changed *)
EditResend(s) ==
  \E id \in Prms, e \in Email :
    /\ request[s] # None /\ request[s].op = "edited" /\ <<"was", id, e>> \in request[s].seen
    /\ IF db.prm[id].email = e
       THEN request' = [request EXCEPT ![s] = None] /\ UNCHANGED <<given, mails>>
       ELSE /\ Pending(s, "resend", {PrmKey(id)}, Unconfirmed(Nothing, "prm", id, Code))
            /\ mails' = mails \cup {[code |-> Code, about |-> db.prm[id].email, to |-> db.prm[id].email]}
    /\ UNCHANGED <<db, requests, proven, answered, ended, mixed>>

----------------------------------------------------------------------------
(* Accounts. *)

(* ChangeEmailResource *)
ChangeEmail(s, u, e) ==
  LET r == EditedEmail(Nothing, u, e, FALSE)
  IN  IF r[2] THEN BeginMailing(s, "edit_email", {UserKey(u)}, r[1], Lowered(e), Mailboxes("user", u, Lowered(e)))
      ELSE Begin(s, "edit_email", {UserKey(u)}, r[1])

(* edit_user *)
EditUser(s, u, name, e, p) ==
  LET r == EditedEmail(Identified(Renamed(Nothing, u, name), u, p), u, e, FALSE)
  IN
  /\ p # db.user[u].person => ~ PersonKnown(p)
  /\ IF r[2] THEN BeginMailing(s, "edit_user", {UserKey(u)}, r[1], Lowered(e), Mailboxes("user", u, Lowered(e)))
     ELSE Begin(s, "edit_user", {UserKey(u)}, r[1])

(* resend_confirmation_mail, for requests and accounts *)
Resend(s, t, id) ==
  /\ ~ db[t][id].confirmed /\ db[t][id].email # None
  /\ BeginMailing(s, "resend", {<<t, id>>}, Unconfirmed(Nothing, t, id, Code),
                  db[t][id].email, Mailboxes(t, id, db[t][id].email))

(* EmailConfirmResource.get asks for no confirmed flag. *)
ResendByApi(s, u) ==
  /\ db.user[u].email # None
  /\ BeginMailing(s, "resend", {UserKey(u)}, Unconfirmed(Nothing, "user", u, Code),
                  db.user[u].email, Mailboxes("user", u, db.user[u].email))

(* get_user_by_id_or_login: the id or the login, and the address, whether  *)
(* it is confirmed or not; the code of an id is not checked.               *)
FoundWith(e) == {u \in AllUsers : e # None /\ Lowered(db.user[u].email) = Lowered(e)}

(* send_password_reset_mail, which never uses the internal mailbox *)
Tokened(u) == Update(Nothing, "user", u, [token |-> Code])

(* ResetPasswordResource.post *)
RequestReset(s, u) ==
  /\ u \in FoundWith(db.user[u].email)
  /\ BeginMailing(s, "request_reset", {UserKey(u)}, Tokened(u), db.user[u].email, {db.user[u].email})

(* change_password_from_token *)
PasswordChanged(u) == Update(Nothing, "user", u, [token |-> None, confirmed |-> TRUE])

(* ResetPasswordResource.patch *)
UseToken(s, mail) ==
  \E u \in AllUsers :
    /\ db.user[u].token = mail.code
    /\ BeginAnswering(s, "use_token", mail, {UserKey(u)}, PasswordChanged(u))

----------------------------------------------------------------------------

Applying(s) ==
  \/ \E a \in Application : Register(s, a) \/ \E id \in Prms : EditRequest(s, id, a)
  \/ \E id \in Prms :
       \/ Finish(s, id) \/ Deny(s, id) \/ Resend(s, "prm", id)
       \/ \E u \in AllUsers, what \in SUBSET {"name", "email", "person", "room"} : Merge(s, id, u, what)

OfUsers(s) ==
  \E u \in AllUsers :
    \/ Resend(s, "user", u) \/ ResendByApi(s, u) \/ RequestReset(s, u)
    \/ \E e \in Email \cup {None} :
         \/ ChangeEmail(s, u, e)
         \/ \E a \in Application : EditUser(s, u, a.name, e, a.person)

Start(s) ==
  /\ request[s] = None
  /\ Applying(s) \/ OfUsers(s) \/ \E mail \in mails : Confirm(s, mail) \/ UseToken(s, mail)

(* The constraints: login and swdd_person_id of accounts are unique. *)
Accepted(r) ==
  /\ UpdatesFindRows(r)
  /\ UniqueIn(WrittenRows(r, "user", {}), "login") /\ UniqueIn(WrittenRows(r, "user", {}), "person")

Image(k) == IF k[2] \in DOMAIN db[k[1]] THEN db[k[1]][k[2]] ELSE << >>
Keys == ({"prm"} \X Ids["prm"]) \cup ({"user"} \X Ids["user"])

Writes(r, fields) == {k \in Keys : /\ k[2] \in DOMAIN r.set[k[1]]
                                   /\ DOMAIN r.set[k[1]][k[2]] \cap fields # {}}

(* An edit of a request goes on after its first transaction. *)
Commit(s) ==
  LET r    == request[s]
      more == [Nothing EXCEPT !.op = "edited", !.seen = {k \in r.seen : k[1] = "was"}]
  IN
  /\ r # None /\ r.op # "edited" /\ Accepted(r)
  /\ db' = [t \in Table |-> WrittenRows(r, t, r.drop[t])]
  /\ request' = [Overtaken(s, {k \in Keys : Image(k)' # Image(k)}) EXCEPT
                   ![s] = IF r.op = "edit" THEN more ELSE None]
  /\ answered' = answered \cup {m.code : m \in {m \in mails : <<"code", m.code>> \in r.seen}}
  /\ ended' = [id \in Ids["prm"] |-> ended[id] + IF <<"end", id>> \in r.seen THEN 1 ELSE 0]
  /\ mixed' = {k \in Keys : Image(k)' # << >>} \cap
       IF r.op = "edit" \/ ~ r.fresh THEN mixed \cup Writes(r, {"email", "key"})
       ELSE mixed \ Writes(r, {"key"})
  /\ UNCHANGED <<given, requests, mails, proven>>

Lose(s) == Abandon(s) /\ UNCHANGED <<mails, proven, answered, ended, mixed>>

RequestsInit ==
  /\ db = [prm |-> << >>, user |-> FirstUsers]
  /\ given = [prm |-> {}, user |-> DOMAIN FirstUsers]
  /\ request = [s \in Session |-> None] /\ requests = 0
  /\ mails = {} /\ proven = {} /\ answered = {} /\ mixed = {} /\ ended = [id \in Ids["prm"] |-> 0]

RequestsNext == \E s \in Session : Start(s) \/ EditResend(s) \/ Commit(s) \/ Lose(s)

RequestsSpec == RequestsInit /\ [][RequestsNext]_requestVars

----------------------------------------------------------------------------
(* Rows and ids are of the right kind, and logins and tenant numbers of    *)
(* accounts are unique.                                                    *)
RequestTypes ==
  /\ requests \in 0 .. MaxRequests
  /\ DOMAIN db = Table /\ \A t \in Table : DOMAIN db[t] \subseteq given[t] /\ given[t] \subseteq Ids[t]
  /\ \A t \in Table : \A id \in DOMAIN db[t] : DOMAIN db[t][id] = Columns[t]
  /\ \A id \in Prms : db.prm[id].email \in Email
  /\ UniqueIn(db.user, "login") /\ UniqueIn(db.user, "person")

(* Finishing and merging take over what the request says. *)
TakenOver(s, e) ==
  \E id \in request[s].drop["prm"] : e \in {db.prm[id].email, Lower[db.prm[id].email]} /\ db.prm[id].confirmed

(* An address becomes a confirmed one only if a mail about it was answered *)
(* that went to it, or to the internal mailbox of the account it belongs   *)
(* to, which is where mails of many accounts go; or if a request in which  *)
(* it is confirmed is taken over.  This as long as the rows did not change *)
(* in between (send_confirmation_email, user_send_mails,                   *)
(* confirm_mail_address, edit_email, finish_ and merge_member_request).    *)
(* Exceptions: tokens; a request between the two transactions of           *)
(* member_request_edit, which may end after the first; and a row whose     *)
(* address and key were written by requests that overtook each other.      *)
ConfirmedIsProven ==
  [][\A s \in Session :
       /\ Fresh({"register", "confirm", "finish", "merge", "deny", "resend", "edit_email", "edit_user",
                 "request_reset"}, s)
       /\ request[s].seen \cap mixed = {}
       => \A t \in Table : \A id \in DOMAIN db'[t] :
           LET new == db'[t][id]
               was == id \in DOMAIN db[t] /\ db[t][id].confirmed /\ db[t][id].email = new.email
           IN  new.confirmed /\ ~ was =>
                 \/ TakenOver(s, new.email)
                 \/ \E m \in proven : m.about = new.email /\ m.to \in Mailboxes(t, id, new.email)]_requestVars

(* A request becomes one account, is merged once or is denied once, as     *)
(* long as nobody else ends it in between; an answered confirmation mail   *)
(* never makes an account of a request that has ended, whatever happens in *)
(* between.                                                                *)
RequestEndsOnce ==
  [][\A s \in Session :
       /\ request[s] # None /\ request'[s] \notin {request[s], [request[s] EXCEPT !.fresh = FALSE]}
       /\ ended' # ended /\ (request[s].fresh \/ request[s].op = "confirm")
       =>
         \A id \in Ids["prm"] : <<"end", id>> \in request[s].seen => ended[id] = 0]_requestVars

(* A key and a token work once, as long as the same mail is not answered   *)
(* twice at a time.                                                        *)
CodesWorkOnce ==
  [][\A s \in Session : Fresh({"confirm", "use_token"}, s) =>
       \A m \in mails : <<"code", m.code>> \in request[s].seen => m.code \notin answered]_requestVars

(* The rows are of the right kind, a request ends once, and what is sent   *)
(* by mail works once.                                                     *)
RequestsKeepOrder == []RequestTypes /\ RequestEndsOnce /\ CodesWorkOnce
=============================================================================
