------------------------------ MODULE MCMails ------------------------------
EXTENDS Mails, TLC

CONSTANTS ada, bob

Row(email, forwarded, mailbox, left, keep, owes) ==
  [email |-> email, forwarded |-> forwarded, mailbox |-> mailbox, left |-> left,
   keep |-> keep, owes |-> owes]

(* A member with both addresses, and somebody who left this year; who has *)
(* no address, may not be archived, leaves or returns comes of Change.     *)
FirstUsersDef ==
  {ada :> Row(TRUE, TRUE, TRUE, Null, FALSE, TRUE) @@ bob :> Row(TRUE, FALSE, FALSE, 0, FALSE, TRUE)}
=============================================================================
