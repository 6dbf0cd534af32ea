------------------------------ MODULE UserIds ------------------------------
(***************************************************************************)
(* User ids with their error detection codes, as members write them into   *)
(* the reference of a transfer (helpers/errorcode.py, lib/user/user_id.py, *)
(* and the reading of references in lib/finance/matching.py).              *)
(*                                                                         *)
(* What is written are the digits before the separator and those after it; *)
(* a reference without a separator has all its digits in the first.        *)
(***************************************************************************)
EXTENDS Integers, Sequences

(* n without its last k digits. *)
WithoutLast(n, k) ==
  LET rest[i \in 0 .. k] == IF i = 0 THEN n ELSE rest[i - 1] \div 10 IN rest[k]

(* {:04d} *)
Width(n) ==
  CHOOSE w \in 4 .. n + 4 : WithoutLast(n, w) = 0 /\ (w = 4 \/ WithoutLast(n, w - 1) # 0)

digits(n, w) == [i \in 1 .. w |-> WithoutLast(n, w - i) % 10]

(* int(uid) *)
Number(ds) ==
  LET read[i \in 0 .. Len(ds)] == IF i = 0 THEN 0 ELSE 10 * read[i - 1] + ds[i] IN read[Len(ds)]

DigitSum(ds) ==
  LET sum[i \in 0 .. Len(ds)] == IF i = 0 THEN 0 ELSE sum[i - 1] + ds[i] IN sum[Len(ds)]

Type1Code(n) == DigitSum(digits(n, Width(n))) % 10

Type2Code(n) == 98 - ((n * 100) % 97)

encode_type1_user_id(n) == [uid |-> digits(n, Width(n)), code |-> <<Type1Code(n)>>]

encode_type2_user_id(n) == [uid |-> digits(n, Width(n)), code |-> digits(Type2Code(n), 2)]

MutCheck(id) ==    \* mutation: the code is not compared
  id.code # <<>> /\ id.uid = digits(Number(id.uid), Width(Number(id.uid)))

check_user_id(id) ==
  /\ id.code # <<>>
  /\ id = IF Len(id.code) = 2 THEN encode_type2_user_id(Number(id.uid))
          ELSE encode_type1_user_id(Number(id.uid))

(* "interpret as type 2 UID with missing -" *)
WithDash(id) ==
  IF id.code # <<>> THEN id
  ELSE [uid |-> SubSeq(id.uid, 1, Len(id.uid) - 2),
        code |-> SubSeq(id.uid, Len(id.uid) - 1, Len(id.uid))]

(* The id that a reference, a sequence of what looks like an id, is taken  *)
(* for: the first that passes the check; -1 if none does.                  *)
MatchPycroftReference(reference) ==
  LET good == {i \in DOMAIN reference : check_user_id(WithDash(reference[i]))}
  IN IF good = {} THEN -1
     ELSE Number(WithDash(reference[CHOOSE i \in good : \A j \in good : i <= j]).uid)

----------------------------------------------------------------------------
(* Mistakes of those who write. *)

All(id) == id.uid \o id.code

Written(ds, id) ==
  [uid |-> SubSeq(ds, 1, Len(id.uid)), code |-> SubSeq(ds, Len(id.uid) + 1, Len(ds))]

OneDigitWrong(id) ==
  (UNION {{Written([All(id) EXCEPT ![i] = d], id) : d \in 0 .. 9} : i \in DOMAIN All(id)}) \ {id}

NeighboursSwapped(id) ==
  {Written([All(id) EXCEPT ![i] = All(id)[i + 1], ![i + 1] = All(id)[i]], id) :
     i \in 1 .. Len(All(id)) - 1} \ {id}

WithoutDash(id) == [uid |-> All(id), code |-> <<>>]

(* The numbers whose id of the first type has four digits and a code *)
OfFourDigits(n) == n < 10000

(* Every id is read back, of a one digit wrong no other user's id comes,   *)
(* nor of two neighbours swapped in an id of the second type, and without  *)
(* its dash an id of the second type is read right.  (One of the first     *)
(* type without its dash may be another's: WithDash.)                      *)
TyposAreCaughtIn(ids) == \A n \in ids :
  LET one == encode_type1_user_id(n)
      two == encode_type2_user_id(n)
  IN
  /\ MatchPycroftReference(<<one>>) = n
  /\ \A id \in {two, WithoutDash(two)} : MatchPycroftReference(<<id>>) = n
  /\ \A id \in OneDigitWrong(one) \cup OneDigitWrong(two) \cup NeighboursSwapped(two) :
       MatchPycroftReference(<<id>>) = -1
  /\ OfFourDigits(n) => MatchPycroftReference(<<WithoutDash(one)>>) = -1
=============================================================================
