---------------------------- MODULE FinanceProofs ----------------------------
(***************************************************************************)
(* Proofs about Ledger, for any accounts, activities, fees and clerks: the *)
(* books hold however requests overlap, and a request that no conflicting  *)
(* one has overtaken books a payment and a fee once and leaves what is     *)
(* confirmed alone.  And about BankImport, for any kinds of movements, any *)
(* sessions and any number of days: the days that are not over are left    *)
(* alone, and imports over the proposed days leave no gap.  And about      *)
(* UserIds, for any id: mistyped, it is nobody's.  And about Fees, for     *)
(* months of any length: a member is told what will be charged.            *)
(***************************************************************************)
EXTENDS Ledger, BankImport, FiniteSetTheorems, SequenceTheorems, WellFoundedInduction, TLAPS

----------------------------------------------------------------------------
(* Sums over finite sets *)

(* Induction over the subsets of a finite set. *)
LEMMA SetBySet ==
  ASSUME NEW S, IsFiniteSet(S), NEW T, {} \in T,
         \A s \in SUBSET S : s # {} /\ (\A x \in s : s \ {x} \in T) => s \in T
  PROVE  SUBSET S \subseteq T
<1> DEFINE M == {n \in Nat : \E s \in SUBSET S : s \notin T /\ n = Cardinality(s)}
<1>1. \A s \in SUBSET S : IsFiniteSet(s) /\ Cardinality(s) \in Nat
  BY FS_Subset, FS_CardinalityType
<1> SUFFICES ASSUME NEW b \in SUBSET S, b \notin T
             PROVE  FALSE
  OBVIOUS
<1>2. M \in SUBSET Nat /\ M # {}
  <2>1. Cardinality(b) \in M
    BY <1>1
  <2> QED
    BY <2>1
<1>3. PICK m \in M : \A n \in M : ~(<<n, m>> \in OpToRel(<, Nat))
  <2> HIDE DEF M
  <2> QED
    BY <1>2, WFMin, NatLessThanWellFounded, Zenon
<1>4. PICK s \in SUBSET S : s \notin T /\ m = Cardinality(s)
  OBVIOUS
<1>5. PICK x \in s : s \ {x} \notin T
  BY <1>4
<1>6. s \ {x} \in SUBSET S /\ Cardinality(s \ {x}) \in Nat /\ Cardinality(s \ {x}) = m - 1
  <2>1. Cardinality(s \ {x}) = Cardinality(s) - 1
    BY <1>1, FS_RemoveElement
  <2> QED
    BY <1>1, <1>4, <2>1
<1>7. Cardinality(s \ {x}) \in M
  BY <1>5, <1>6
<1>8. <<Cardinality(s \ {x}), m>> \in OpToRel(<, Nat)
  <2>1. m \in Nat /\ Cardinality(s \ {x}) < m
    BY <1>4, <1>6
  <2>2. PICK k \in Nat : k = Cardinality(s \ {x})
    BY <1>6
  <2>3. k < m
    BY <2>1, <2>2
  <2>4. <<k, m>> \in OpToRel(<, Nat)
    BY <2>1, <2>3, Zenon DEF OpToRel
  <2> QED
    BY <2>2, <2>4
<1> QED
  <2> HIDE DEF M
  <2> QED
    BY <1>3, <1>7, <1>8

(* g sums w over the subsets of S, in whatever order. *)
IsSum(g, S, w) ==
  /\ g \in [SUBSET S -> Int] /\ g[{}] = 0
  /\ \A s \in SUBSET S : \A x \in s : g[s] = w[x] + g[s \ {x}]

LEMMA SumExists ==
  ASSUME NEW S, IsFiniteSet(S), NEW w \in [S -> Int]
  PROVE  \E g : IsSum(g, S, w)
<1> DEFINE T == {s \in SUBSET S : \E g : IsSum(g, s, w)}
<1>1. {} \in T
  <2> DEFINE g == [s \in SUBSET {} |-> 0]
  <2>1. IsSum(g, {}, w)
    BY DEF IsSum
  <2>2. \E f : IsSum(f, {}, w)
    BY <2>1
  <2> QED
    BY <2>2
<1>2. ASSUME NEW s \in SUBSET S, s # {}, \A x \in s : s \ {x} \in T
      PROVE  s \in T
  <2>1. PICK x \in s : TRUE
    BY <1>2
  <2>2. PICK r : r = s \ {x}
    OBVIOUS
  <2>3. PICK g : IsSum(g, r, w)
    BY <1>2, <2>1, <2>2
  <2>4. /\ g \in [SUBSET r -> Int] /\ g[{}] = 0
        /\ \A t \in SUBSET r : \A y \in t : g[t] = w[y] + g[t \ {y}]
    BY <2>3 DEF IsSum
  <2>5. /\ w[x] \in Int /\ \A t \in SUBSET s : t \ {x} \in SUBSET r /\ (x \notin t => t \in SUBSET r)
        /\ \A t \in SUBSET r : g[t] \in Int /\ x \notin t
    BY <2>2, <2>4
  <2> DEFINE h == [t \in SUBSET s |-> IF x \in t THEN w[x] + g[t \ {x}] ELSE g[t]]
  <2>6. /\ h \in [SUBSET s -> Int] /\ h[{}] = 0
        /\ \A t \in SUBSET s : h[t] \in Int /\ h[t] = IF x \in t THEN w[x] + g[t \ {x}] ELSE g[t]
    <3>1. ASSUME NEW t \in SUBSET s PROVE (IF x \in t THEN w[x] + g[t \ {x}] ELSE g[t]) \in Int
      BY <2>5
    <3> QED
      BY <2>4, <3>1
  <2> HIDE DEF h
  <2>7. ASSUME NEW t \in SUBSET s, NEW y \in t
        PROVE  h[t] = w[y] + h[t \ {y}]
    <3>1. t \ {y} \in SUBSET s /\ w[y] \in Int
      OBVIOUS
    <3>2. CASE y = x
      <4>1. h[t] = w[x] + g[t \ {x}] /\ h[t \ {x}] = g[t \ {x}]
        BY <2>6, <3>1, <3>2
      <4> QED
        BY <3>2, <4>1
    <3>3. CASE y # x /\ x \notin t
      <4>1. h[t] = g[t] /\ h[t \ {y}] = g[t \ {y}] /\ t \in SUBSET r
        BY <2>5, <2>6, <3>1, <3>3
      <4> QED
        BY <2>4, <4>1
    <3>4. CASE y # x /\ x \in t
      <4>1. PICK a : a = t \ {x}
        OBVIOUS
      <4>2. PICK b : b = t \ {y}
        OBVIOUS
      <4>3. a \in SUBSET r /\ y \in a /\ a \ {y} = b \ {x} /\ b \in SUBSET s /\ x \in b
        BY <2>5, <3>1, <3>4, <4>1, <4>2
      <4>4. h[t] = w[x] + g[a] /\ h[b] = w[x] + g[b \ {x}]
        BY <2>6, <3>4, <4>1, <4>3
      <4>5. g[a] = w[y] + g[a \ {y}]
        BY <2>4, <4>3
      <4>6. g[b \ {x}] \in Int /\ g[a \ {y}] = g[b \ {x}]
        BY <2>5, <4>3
      <4>7. h[t] = w[x] + (w[y] + g[b \ {x}])
        BY <4>4, <4>5, <4>6
      <4> QED
        BY <2>5, <3>1, <4>2, <4>4, <4>6, <4>7
    <3> QED
      BY <3>2, <3>3, <3>4
  <2>8. IsSum(h, s, w)
    BY <2>6, <2>7 DEF IsSum
  <2>9. \E f : IsSum(f, s, w)
    BY <2>8
  <2> QED
    BY <2>9
<1>3. SUBSET S \subseteq T
  <2> HIDE DEF T
  <2> QED
    BY <1>1, <1>2, SetBySet
<1>4. S \in T
  <2>1. S \in SUBSET S
    OBVIOUS
  <2> HIDE DEF T
  <2> QED
    BY <1>3, <2>1
<1> QED
  BY <1>4

(* The recursion by which the sum of the community modules is defined.     *)
Sums(g, S, w) ==
  g = [s \in SUBSET S |->
         IF s = {} THEN 0
         ELSE w[CHOOSE x \in s : TRUE] + g[s \ {CHOOSE x \in s : TRUE}]]

LEMMA SumsIsSum ==
  ASSUME NEW S, IsFiniteSet(S), NEW w \in [S -> Int]
  PROVE  /\ \E g : Sums(g, S, w)
         /\ \A g : Sums(g, S, w) => IsSum(g, S, w)
<1> DEFINE pick(s) == CHOOSE x \in s : TRUE
<1>1. PICK f : IsSum(f, S, w)
  BY SumExists
<1>2. \A s \in SUBSET S : s # {} => pick(s) \in s /\ s \ {pick(s)} \in SUBSET S
  OBVIOUS
<1> HIDE DEF pick
<1>3. \A s \in SUBSET S : f[s] = IF s = {} THEN 0 ELSE w[pick(s)] + f[s \ {pick(s)}]
  BY <1>1, <1>2 DEF IsSum
<1>4. Sums(f, S, w)
  <2> DEFINE h == [s \in SUBSET S |-> IF s = {} THEN 0 ELSE w[pick(s)] + f[s \ {pick(s)}]]
  <2>1. \A s \in SUBSET S : f[s] = h[s]
    BY <1>3
  <2>2. f = [s \in SUBSET S |-> f[s]] /\ h = [s \in SUBSET S |-> h[s]]
    BY <1>1 DEF IsSum
  <2>3. f = h
    <3> HIDE DEF h
    <3> QED
      BY <2>1, <2>2
  <2> QED
    BY <2>3 DEF Sums, pick
<1>5. ASSUME NEW g, Sums(g, S, w)
      PROVE  IsSum(g, S, w)
  <2>1. /\ g = [s \in SUBSET S |-> g[s]]
        /\ \A s \in SUBSET S : g[s] = IF s = {} THEN 0 ELSE w[pick(s)] + g[s \ {pick(s)}]
    <3>1. g = [s \in SUBSET S |-> IF s = {} THEN 0 ELSE w[pick(s)] + g[s \ {pick(s)}]]
      BY <1>5 DEF Sums, pick
    <3> QED
      BY <3>1
  <2> DEFINE T == {s \in SUBSET S : g[s] = f[s]}
  <2>2. {} \in T
    BY <1>3, <2>1
  <2>3. ASSUME NEW s \in SUBSET S, s # {}, \A x \in s : s \ {x} \in T
        PROVE  s \in T
    <3>1. pick(s) \in s
      BY <1>2, <2>3
    <3>2. g[s \ {pick(s)}] = f[s \ {pick(s)}]
      BY <2>3, <3>1
    <3>3. g[s] = f[s]
      BY <1>3, <2>1, <2>3, <3>2
    <3> QED
      BY <3>3
  <2>4. SUBSET S \subseteq T
    <3> HIDE DEF T
    <3> QED
      BY <2>2, <2>3, SetBySet
  <2>5. \A s \in SUBSET S : g[s] = f[s]
    BY <2>4
  <2>6. f = [s \in SUBSET S |-> f[s]]
    BY <1>1 DEF IsSum
  <2>7. g = f
    BY <2>1, <2>5, <2>6
  <2> QED
    BY <1>1, <2>7
<1> QED
  BY <1>4, <1>5

(* Two sets side by side, the second one counted by k *)
LEMMA SumOfBoth ==
  ASSUME NEW L, NEW N, NEW X, IsFiniteSet(L), IsFiniteSet(N), L \cap N = {},
         NEW k \in [N -> X], \A i, j \in N : k[i] = k[j] => i = j, \A x \in X : \E i \in N : k[i] = x,
         NEW v, \A x \in X : v[x] \in Int, NEW w, NEW u, NEW f, NEW g, NEW h,
         IsSum(f, L \cup N, u), IsSum(g, L, w), IsSum(h, X, v),
         \A i \in L : u[i] = w[i], \A i \in N : u[i] = v[k[i]]
  PROVE  f[L \cup N] = g[L] + h[X]
<1> DEFINE Of(n) == {k[i] : i \in n}
<1>1. f[L] = g[L]
  <2> DEFINE T == {s \in SUBSET L : f[s] = g[s]}
  <2>1. {} \in T
    BY DEF IsSum
  <2>2. ASSUME NEW s \in SUBSET L, s # {}, \A x \in s : s \ {x} \in T
        PROVE  s \in T
    <3>1. PICK x \in s : f[s \ {x}] = g[s \ {x}]
      BY <2>2
    <3>2. s \in SUBSET (L \cup N) /\ u[x] = w[x]
      OBVIOUS
    <3>3. f[s] = u[x] + f[s \ {x}] /\ g[s] = w[x] + g[s \ {x}]
      BY <3>2 DEF IsSum
    <3> QED
      BY <3>1, <3>2, <3>3
  <2>3. SUBSET L \subseteq T
    <3> HIDE DEF T
    <3> QED
      BY <2>1, <2>2, SetBySet
  <2> QED
    BY <2>3
<1>2. f[L] \in Int
  <2>1. L \in SUBSET (L \cup N)
    OBVIOUS
  <2> QED
    BY <2>1 DEF IsSum
<1>3. f[L \cup N] = f[L] + h[Of(N)]
  <2> DEFINE T == {n \in SUBSET N : f[L \cup n] = f[L] + h[Of(n)]}
  <2>1. {} \in T
    <3>1. L \cup {} = L /\ Of({}) = {} /\ h[{}] = 0
      BY DEF IsSum
    <3> HIDE DEF Of
    <3>2. f[L \cup {}] = f[L] /\ h[Of({})] = 0
      BY <3>1, Zenon
    <3>3. f[L \cup {}] = f[L] + h[Of({})]
      BY <1>2, <3>2
    <3> QED
      BY <3>3
  <2>2. ASSUME NEW n \in SUBSET N, n # {}, \A x \in n : n \ {x} \in T
        PROVE  n \in T
    <3>1. PICK x \in n : n \ {x} \in T
      BY <2>2
    <3>2. f[L \cup (n \ {x})] = f[L] + h[Of(n \ {x})]
      BY <3>1
    <3>3. L \cup n \in SUBSET (L \cup N) /\ x \in L \cup n /\ (L \cup n) \ {x} = L \cup (n \ {x})
      OBVIOUS
    <3>4. f[L \cup n] = u[x] + f[L \cup (n \ {x})]
      <4>1. f[L \cup n] = u[x] + f[(L \cup n) \ {x}]
        <5>1. PICK b : b = L \cup n
          OBVIOUS
        <5>2. b \in SUBSET (L \cup N) /\ x \in b
          BY <5>1
        <5>3. f[b] = u[x] + f[b \ {x}]
          BY <5>2 DEF IsSum
        <5> QED
          BY <5>1, <5>3
      <4> QED
        BY <3>3, <4>1
    <3>5. Of(n) \in SUBSET X /\ k[x] \in Of(n) /\ Of(n) \ {k[x]} = Of(n \ {x})
      OBVIOUS
    <3> HIDE DEF Of
    <3>6. h[Of(n)] = v[k[x]] + h[Of(n \ {x})] /\ h[Of(n \ {x})] \in Int /\ h[Of(n)] \in Int
      <4>1. h[Of(n)] = v[k[x]] + h[Of(n) \ {k[x]}]
        BY <3>5 DEF IsSum
      <4>2. Of(n) \ {k[x]} \in SUBSET X
        BY <3>5
      <4>3. h[Of(n) \ {k[x]}] \in Int /\ h[Of(n)] \in Int
        BY <3>5, <4>2 DEF IsSum
      <4> QED
        BY <3>5, <4>1, <4>3
    <3>7. u[x] = v[k[x]] /\ v[k[x]] \in Int
      OBVIOUS
    <3>8. f[L \cup n] \in Int /\ f[L \cup (n \ {x})] \in Int
      <4>1. L \cup (n \ {x}) \in SUBSET (L \cup N)
        OBVIOUS
      <4> QED
        BY <3>3, <4>1 DEF IsSum
    <3>9. f[L \cup n] = f[L] + h[Of(n)]
      BY <1>2, <3>2, <3>4, <3>6, <3>7, <3>8
    <3> QED
      BY <3>9
  <2>3. SUBSET N \subseteq T
    <3> HIDE DEF T
    <3> QED
      BY <2>1, <2>2, SetBySet
  <2>4. N \in T
    <3>1. N \in SUBSET N
      OBVIOUS
    <3> HIDE DEF T
    <3> QED
      BY <2>3, <3>1
  <2> QED
    BY <2>4
<1>4. Of(N) = X
  OBVIOUS
<1> QED
  <2> HIDE DEF Of
  <2> QED
    BY <1>1, <1>3, <1>4

(* The sum over two accounts *)
LEMMA SumOfTwo ==
  ASSUME NEW a, NEW b, a # b, NEW f, DOMAIN f = {a, b}, f = [x \in {a, b} |-> f[x]],
         f[a] + f[b] = 0, f[a] \in Int, f[b] \in Int
  PROVE  Balanced(f)
<1> DEFINE sum == CHOOSE g : Sums(g, {a, b}, f)
<1>1. Balanced(f) <=> sum[{a, b}] = 0
  BY DEF Balanced, Total, MapThenSumSet, MapThenFoldSet, Sums
<1>2. IsFiniteSet({a, b}) /\ f \in [{a, b} -> Int]
  <2>1. IsFiniteSet({a}) /\ IsFiniteSet({b}) /\ {a} \cup {b} = {a, b}
    BY FS_Singleton
  <2>2. IsFiniteSet({a} \cup {b})
    BY <2>1, FS_Union
  <2>3. f \in [{a, b} -> Int]
    <3>1. \A x \in {a, b} : f[x] \in Int
      OBVIOUS
    <3> QED
      BY <3>1
  <2> QED
    BY <2>1, <2>2, <2>3
<1>3. IsSum(sum, {a, b}, f)
  <2>1. /\ \E g : Sums(g, {a, b}, f)
        /\ \A g : Sums(g, {a, b}, f) => IsSum(g, {a, b}, f)
    BY <1>2, SumsIsSum
  <2> QED
    BY <2>1
<1> HIDE DEF sum
<1>4. sum[{a, b}] = f[a] + sum[{b}] /\ sum[{b}] = f[b] + sum[{}] /\ sum[{}] = 0
  <2>1. {a, b} \ {a} = {b} /\ {b} \ {b} = {}
    OBVIOUS
  <2>2. sum[{a, b}] = f[a] + sum[{a, b} \ {a}] /\ sum[{b}] = f[b] + sum[{b} \ {b}]
    BY <1>3 DEF IsSum
  <2> QED
    BY <1>3, <2>1, <2>2 DEF IsSum
<1> QED
  BY <1>1, <1>4

LEMMA TransferIsLegal ==
  ASSUME NEW d \in Account, NEW c \in Account, d # c, NEW n \in Int
  PROVE  /\ Legal(Transfer(d, c, n))
         /\ DOMAIN Transfer(d, c, n) = {d, c} /\ Transfer(d, c, n) \in [{d, c} -> Int]
         /\ Transfer(d, c, n)[d] = -n /\ Transfer(d, c, n)[c] = n
<1> DEFINE f == Transfer(d, c, n)
<1>1. DOMAIN f = {d, c} /\ f \in [{d, c} -> Int] /\ f[d] = -n /\ f[c] = n
  BY DEF Transfer
<1> HIDE DEF f
<1>2. Balanced(f)
  <2>1. f[d] + f[c] = 0 /\ f[d] \in Int /\ f[c] \in Int
    BY <1>1
  <2>2. f = [x \in {d, c} |-> f[x]]
    BY <1>1
  <2> QED
    BY <1>1, <2>1, <2>2, SumOfTwo
<1>3. Cardinality({d, c}) = 2
  <2>1. IsFiniteSet({c}) /\ Cardinality({c}) = 1
    BY FS_Singleton
  <2>2. Cardinality({c} \cup {d}) = 2
    <3>1. d \notin {c}
      OBVIOUS
    <3>2. Cardinality({c} \cup {d}) = IF d \in {c} THEN Cardinality({c}) ELSE Cardinality({c}) + 1
      BY <2>1, FS_AddElement
    <3> QED
      BY <2>1, <3>1, <3>2
  <2>3. {c} \cup {d} = {d, c}
    OBVIOUS
  <2> QED
    BY <2>2, <2>3
<1> QED
  BY <1>1, <1>2, <1>3 DEF Legal, f

(* New transactions in a sequence: each of them once *)
LEMMA Numbered ==
  ASSUME NEW S, IsFiniteSet(S)
  PROVE  LET new == SetToSeq(S)
         IN  /\ Len(new) \in Nat /\ new \in [1 .. Len(new) -> S]
             /\ \A i, j \in 1 .. Len(new) : new[i] = new[j] => i = j
             /\ \A x \in S : \E i \in 1 .. Len(new) : new[i] = x
<1> DEFINE n   == Cardinality(S)
           new == SetToSeq(S)
<1>1. n \in Nat /\ ExistsBijection(1 .. n, S)
  BY FS_CardinalityType
<1>2. PICK f \in Bijection(1 .. n, S) : TRUE
  BY <1>1 DEF ExistsBijection
<1>3. f \in [1 .. n -> S] /\ IsInjective(f)
  BY <1>2 DEF Bijection, Injection
<1>4. new \in [1 .. n -> S] /\ IsInjective(new)
  BY <1>3 DEF SetToSeq
<1> HIDE DEF new
<1>5. Len(new) = n
  BY <1>1, <1>4
<1>6. new \in Injection(1 .. n, S)
  BY <1>4 DEF Injection
<1>7. IsFiniteSet(1 .. n) /\ Cardinality(1 .. n) = n
  BY <1>1, FS_Interval
<1>8. new \in Surjection(1 .. n, S)
  BY <1>6, <1>7, FS_Injection
<1> QED
  BY <1>1, <1>4, <1>5, <1>8 DEF IsInjective, Surjection, new

----------------------------------------------------------------------------
(* Transactions that may be inserted whenever it comes to that: legal, and *)
(* one for an activity at most, which moves its amount                     *)
Sound(X) ==
  /\ IsFiniteSet(X)
  /\ \A x \in X : /\ IsTransaction(x) /\ Legal(x.splits)
                  /\ x.origin # None => InAccount(x, Bank) = Amount[x.origin]
  /\ \A x, y \in X : x.origin = y.origin /\ x.origin # None => x = y

(* What is true of a request as long as nobody has overtaken it: its       *)
(* activities are not assigned, or so to what it deletes; that is not      *)
(* confirmed; nobody has been charged for the fee, and it charges once.    *)
ChargedBy(r, u) == \E x \in r.insert : u \in DOMAIN x.splits

ChargesOnce(r, f) ==
  \A u \in User : ChargedBy(r, u) =>
    Charges(u, f) = {} /\ \E x \in r.insert : ChargesIn(r.insert, u, f) = {x}

Informed(r) ==
  /\ \A a \in Origins(r) : assigned[a] = 0
  /\ \A a \in r.unlink : assigned[a] \in r.delete
  /\ \A i \in r.delete \cap Living : ~ ledger[i].confirmed
  /\ r.op = "fee" => \E f \in Fee : ChargesOnce(r, f)

Flushed == {s \in Clerk : request[s] # None /\ request[s].flushed}

(* The rows that flushed requests write: there are those that they update, *)
(* and no other flushed request writes them.                               *)
Locks ==
  /\ \A s \in Flushed : request[s].confirm \subseteq Living
  /\ \A s, o \in Flushed : s # o => ~ WritesTogether(request[s], request[o])

IInv ==
  /\ TypeOK /\ BooksHold /\ Locks
  /\ \A s \in Clerk : request[s] # None => Sound(request[s].insert)

FreshInv ==
  \A s \in Clerk : request[s] # None /\ request[s].fresh => Informed(request[s])

LEMMA InitIInv == Init => IInv /\ FreshInv
<1> SUFFICES ASSUME Init PROVE IInv /\ FreshInv
  OBVIOUS
<1>1. Living = {} /\ \A s \in Clerk : request[s] = None
  BY DEF Init, Living
<1>2. TypeOK
  BY <1>1, BoundAssumption DEF Init, TypeOK
<1>3. BooksHold /\ Locks
  BY <1>1 DEF Init, BooksHold, Locks, Flushed
<1> QED
  BY <1>1, <1>2, <1>3 DEF IInv, FreshInv

----------------------------------------------------------------------------
(* What is decided *)

LEMMA PaymentIsSound ==
  ASSUME NEW a \in Activity, NEW account \in Account \ {Bank}, NEW confirmed \in BOOLEAN
  PROVE  LET x == Payment(a, account, confirmed)
         IN  /\ IsTransaction(x) /\ Legal(x.splits) /\ x.origin = a
             /\ InAccount(x, Bank) = Amount[a]
<1> DEFINE x == Payment(a, account, confirmed)
           f == Transfer(account, Bank, Amount[a])
<1>1. Bank \in Account /\ Amount[a] \in Int /\ ValidOn[a] \in Nat
  BY ActivityAssumption DEF Account
<1>2. x = [splits |-> f, valid |-> ValidOn[a], confirmed |-> confirmed, origin |-> a]
  BY DEF Payment
<1>3. /\ Legal(f) /\ DOMAIN f = {account, Bank} /\ f \in [{account, Bank} -> Int]
      /\ f[Bank] = Amount[a]
  BY <1>1, TransferIsLegal
<1> HIDE DEF f
<1>4. x.splits = f /\ x.origin = a
  BY <1>2
<1>5. x \in Transaction({account, Bank})
  BY <1>1, <1>2, <1>3 DEF Transaction
<1>6. IsTransaction(x)
  BY <1>1, <1>3, <1>4, <1>5 DEF IsTransaction
<1>7. InAccount(x, Bank) = Amount[a]
  BY <1>3, <1>4 DEF InAccount
<1> HIDE DEF x
<1> QED
  BY <1>3, <1>4, <1>6, <1>7 DEF x

LEMMA FiniteImage ==
  ASSUME NEW A, IsFiniteSet(A), NEW f, DOMAIN f = A
  PROVE  IsFiniteSet({f[a] : a \in A})
<1> DEFINE T == {f[a] : a \in A}
           g == [a \in A |-> f[a]]
<1>1. g \in Surjection(A, T)
  BY DEF Surjection
<1> QED
  BY <1>1, FS_Surjection

LEMMA PaymentsAreSound ==
  ASSUME NEW A \in SUBSET Activity, NEW f, DOMAIN f = A,
         \A a \in A : \E account \in Account \ {Bank}, confirmed \in BOOLEAN :
                      f[a] = Payment(a, account, confirmed)
  PROVE  Sound({f[a] : a \in A}) /\ \A x \in {f[a] : a \in A} : x.origin \in A
<1>1. IsFiniteSet(A)
  BY FiniteAssumption, FS_Subset
<1>2. \A a \in A : /\ IsTransaction(f[a]) /\ Legal(f[a].splits) /\ f[a].origin = a
                   /\ InAccount(f[a], Bank) = Amount[a]
  BY PaymentIsSound
<1>3. IsFiniteSet({f[a] : a \in A})
  BY <1>1, FiniteImage
<1> QED
  BY <1>2, <1>3 DEF Sound

(* As long as the books stay the same *)
LEMMA SameBooks ==
  ASSUME UNCHANGED <<ledger, last, assigned, blocked>>, NEW s \in Clerk, NEW q, request'[s] = q
  PROVE  /\ Living' = Living /\ (BooksHold' <=> BooksHold)
         /\ IsRequest(request[s])' <=> IsRequest(q)
         /\ Informed(request[s])' <=> Informed(q)
<1>1. Living' = Living
  BY DEF Living
<1>2. BooksHold' <=> BooksHold
  BY <1>1 DEF BooksHold
<1>3. IsRequest(request[s])' <=> IsRequest(q)
  BY DEF IsRequest
<1>4. \A u, f : Charges(u, f)' = Charges(u, f)
  BY <1>1 DEF Charges
<1>5. \A f : ChargesOnce(request[s], f)' <=> ChargesOnce(q, f)
  BY <1>4 DEF ChargesOnce, ChargedBy
<1>6. Origins(request[s])' = Origins(q)
  BY DEF Origins
<1>7. Informed(request[s])' <=> Informed(q)
  BY <1>1, <1>5, <1>6 DEF Informed
<1> QED
  BY <1>1, <1>2, <1>3, <1>7

(* Requests that hold no locks come and go.                                *)
LEMMA UnlockedKeepIInv ==
  ASSUME IInv, FreshInv, UNCHANGED <<ledger, last, assigned, blocked>>,
         NEW s \in Clerk, NEW q, request' = [request EXCEPT ![s] = q],
         q # None => IsRequest(q) /\ Sound(q.insert) /\ ~ q.flushed /\ (q.fresh => Informed(q))
  PROVE  IInv' /\ FreshInv'
<1>1. request'[s] = q /\ \A o \in Clerk \ {s} : request'[o] = request[o]
  BY DEF IInv, TypeOK
<1>2. Living' = Living /\ (BooksHold' <=> BooksHold)
  BY SameBooks
<1>3. /\ IsRequest(request[s])' <=> IsRequest(q)
      /\ Informed(request[s])' <=> Informed(q)
  BY <1>1, SameBooks
<1>4. ASSUME NEW o \in Clerk \ {s}
      PROVE  /\ IsRequest(request[o])' <=> IsRequest(request[o])
             /\ Informed(request[o])' <=> Informed(request[o])
  BY <1>1, SameBooks
<1>5. TypeOK'
  <2>1. DOMAIN request' = Clerk
    BY DEF IInv, TypeOK
  <2>2. \A o \in Clerk : request'[o] = None \/ IsRequest(request[o])'
    BY <1>1, <1>3, <1>4 DEF IInv, TypeOK
  <2> QED
    BY <1>2, <2>1, <2>2 DEF IInv, TypeOK
<1>6. Locks'
  <2>1. \A o \in Flushed' : o \in Flushed /\ request'[o] = request[o]
    BY <1>1 DEF Flushed
  <2> QED
    BY <1>2, <2>1 DEF IInv, Locks, WritesTogether, Origins
<1>7. \A o \in Clerk : request'[o] # None => Sound(request'[o].insert)
  BY <1>1 DEF IInv
<1>8. FreshInv'
  BY <1>1, <1>3, <1>4 DEF FreshInv
<1> QED
  BY <1>2, <1>5, <1>6, <1>7, <1>8 DEF IInv, Sound

(* The request begins and is going to write this.                          *)
Starts(s, q, op, insert, confirm, delete, unlink, block, unblock) ==
  /\ request' = [request EXCEPT ![s] = q] /\ UNCHANGED <<ledger, last, assigned, blocked>>
  /\ DOMAIN q = DOMAIN Nothing
  /\ q.op = op /\ q.insert = insert /\ q.confirm = confirm /\ q.delete = delete
  /\ q.unlink = unlink /\ q.block = block /\ q.unblock = unblock
  /\ q.settles \in BOOLEAN /\ q.flushed = FALSE /\ q.fresh = TRUE /\ q.alone = TRUE

LEMMA DecideKeepsIInv ==
  ASSUME IInv, FreshInv, NEW s \in Clerk,
         NEW op \in {"assign", "match", "return", "create", "fee", "confirm", "delete", "default"},
         NEW X, Sound(X), NEW C \in SUBSET (1 .. last), NEW D \in SUBSET (1 .. last),
         NEW L \in SUBSET Activity, NEW B \in SUBSET User, NEW U \in SUBSET User,
         NEW q, Starts(s, q, op, X, C, D, L, B, U),
         \A x \in X : x.origin # None => assigned[x.origin] = 0,
         \A a \in L : assigned[a] \in D,
         \A i \in D \cap Living : ~ ledger[i].confirmed,
         op = "fee" => \E f \in Fee : ChargesOnce([insert |-> X], f)
  PROVE  IInv' /\ FreshInv'
<1>3. IsRequest(q)
  BY DEF Starts, IsRequest, Sound
<1>4. op = "fee" => \E f \in Fee : ChargesOnce(q, f)
  BY DEF Starts, ChargesOnce, ChargedBy
<1>5. Informed(q)
  BY <1>4 DEF Starts, Informed, Origins
<1> QED
  BY <1>3, <1>5, UnlockedKeepIInv DEF Starts

LEMMA SoundNothing == Sound({})
BY FS_EmptySet DEF Sound

LEMMA PaymentsKeepIInv ==
  ASSUME IInv, FreshInv, NEW s \in Clerk, NEW op \in {"assign", "match", "return"},
         NEW A \in SUBSET Unassigned, NEW account, \A a \in A : account[a] \in Account \ {Bank},
         NEW confirmed \in BOOLEAN, NEW X, X = {Payment(a, account[a], confirmed) : a \in A},
         NEW q, Starts(s, q, op, X, {}, {}, {}, {}, {})
  PROVE  IInv' /\ FreshInv'
<1>1. A \in SUBSET Activity /\ \A a \in A : assigned[a] = 0
  BY DEF Unassigned
<1> DEFINE f == [a \in A |-> Payment(a, account[a], confirmed)]
<1>2. /\ DOMAIN f = A /\ X = {f[a] : a \in A}
      /\ \A a \in A : \E c \in Account \ {Bank}, b \in BOOLEAN : f[a] = Payment(a, c, b)
  OBVIOUS
<1> HIDE DEF f
<1>4. Sound(X) /\ \A x \in X : x.origin \in A
  <2>1. Sound({f[a] : a \in A}) /\ \A x \in {f[a] : a \in A} : x.origin \in A
    BY <1>1, <1>2, PaymentsAreSound
  <2> QED
    BY <1>2, <2>1, Zenon
<1>3. \A x \in X : assigned[x.origin] = 0
  BY <1>1, <1>4
<1> QED
  BY <1>3, <1>4, DecideKeepsIInv

LEMMA AssignActivityKeepsIInv ==
  ASSUME IInv, FreshInv, NEW s \in Clerk, NEW a \in Activity, NEW account \in Payable,
         AssignActivity(s, a, account)
  PROVE  IInv' /\ FreshInv'
<1> DEFINE f == [x \in {a} |-> account]
           X == {Payment(x, f[x], s \in Treasurer) : x \in {a}}
           r == [Nothing EXCEPT !.insert = {Payment(a, account, s \in Treasurer)}, !.settles = TRUE]
<1>1. Decide(s, "assign", r) /\ {a} \in SUBSET Unassigned
  BY DEF AssignActivity
<1>2. \A x \in {a} : f[x] \in Account \ {Bank}
  BY ActivityAssumption DEF AssignActivity
<1>3. X = {Payment(a, account, s \in Treasurer)}
  OBVIOUS
<1>a. PICK q : q = [r EXCEPT !.op = "assign"]
  OBVIOUS
<1>4. Starts(s, q, "assign", X, {}, {}, {}, {}, {})
  BY <1>a, <1>1, <1>3 DEF Decide, Starts, Nothing
<1>5. (s \in Treasurer) \in BOOLEAN
  OBVIOUS
<1> HIDE DEF f, r
<1> QED
  BY <1>1, <1>2, <1>4, <1>5, PaymentsKeepIInv, ZenonT(30)

LEMMA MatchActivitiesKeepsIInv ==
  ASSUME IInv, FreshInv, NEW s \in Clerk, NEW A, MatchActivities(s, A)
  PROVE  IInv' /\ FreshInv'
<1> DEFINE X == {Payment(a, Beneficiary[a], TRUE) : a \in A}
           r == [Nothing EXCEPT !.insert = X, !.settles = TRUE]
<1>1. Decide(s, "match", r) /\ A \in SUBSET Unassigned
  BY DEF MatchActivities, Matchable
<1>2. \A a \in A : Beneficiary[a] \in Account \ {Bank}
  <2>1. ASSUME NEW a \in A PROVE Beneficiary[a] \in Account \ {Bank}
    <3>1. a \in Activity /\ Beneficiary[a] # None
      BY DEF MatchActivities, Matchable, Unassigned
    <3>2. PICK n : n = MatchPycroftReference(Reference[a])
      OBVIOUS
    <3>3. Beneficiary[a] = IF n \in DOMAIN UserOf THEN UserOf[n] ELSE Team[a]
      BY <3>1, <3>2 DEF Beneficiary
    <3> QED
      BY <3>1, <3>3, ActivityAssumption, AccountAssumption DEF Account
  <2> QED
    BY <2>1
<1>a. PICK q : q = [r EXCEPT !.op = "match"]
  OBVIOUS
<1>3. Starts(s, q, "match", X, {}, {}, {}, {}, {})
  BY <1>a, <1>1 DEF Decide, Starts, Nothing
<1> HIDE DEF r
<1> QED
  BY <1>1, <1>2, <1>3, PaymentsKeepIInv

LEMMA ReturnActivitiesKeepsIInv ==
  ASSUME IInv, FreshInv, NEW s \in Clerk, NEW A, ReturnActivities(s, A)
  PROVE  IInv' /\ FreshInv'
<1> DEFINE f == [a \in A |-> Unattributed]
           X == {Payment(a, f[a], FALSE) : a \in A}
           r == AttributedAsReturned(A)
<1>1. Decide(s, "return", r) /\ A \in SUBSET Unassigned
  BY DEF ReturnActivities
<1>2. \A a \in A : f[a] \in Account \ {Bank}
  BY AccountAssumption DEF Account
<1>3. X = {Payment(a, Unattributed, FALSE) : a \in A}
  OBVIOUS
<1>a. PICK q : q = [r EXCEPT !.op = "return"]
  OBVIOUS
<1>4. Starts(s, q, "return", X, {}, {}, {}, {}, {})
  BY <1>a, <1>1, <1>3 DEF Decide, Starts, Nothing, AttributedAsReturned
<1> HIDE DEF f, r
<1> QED
  BY <1>1, <1>2, <1>4, PaymentsKeepIInv

LEMMA CreateTransactionKeepsIInv ==
  ASSUME IInv, FreshInv, NEW s \in Clerk, NEW b \in Booking, CreateTransaction(s, b)
  PROVE  IInv' /\ FreshInv'
<1> DEFINE x == [splits |-> b.splits, valid |-> b.valid, confirmed |-> s \in Treasurer, origin |-> None]
           r == [ComplexTransaction(b, s \in Treasurer) EXCEPT !.settles = TRUE]
<1>1. Decide(s, "create", r) /\ Legal(b.splits)
  BY DEF CreateTransaction
<1>2. DOMAIN b.splits \subseteq Account /\ x \in Transaction(DOMAIN b.splits)
  BY BookingsAssumption DEF Transaction
<1>3. x.splits = b.splits /\ x.origin = None
  OBVIOUS
<1>a. PICK q : q = [r EXCEPT !.op = "create"]
  OBVIOUS
<1>4. Starts(s, q, "create", {x}, {}, {}, {}, {}, {})
  BY <1>a, <1>1 DEF Decide, Starts, Nothing, ComplexTransaction
<1> HIDE DEF x, r
<1>5. Sound({x})
  BY <1>1, <1>2, <1>3, FS_Singleton DEF Sound, IsTransaction
<1>6. \A y \in {x} : y.origin = None
  BY <1>3
<1> QED
  BY <1>1, <1>4, <1>5, <1>6, DecideKeepsIInv

LEMMA BookFeeKeepsIInv ==
  ASSUME IInv, FreshInv, NEW s \in Clerk, NEW f \in Fee, NEW home \in Homes, BookFee(s, f, home)
  PROVE  IInv' /\ FreshInv'
<1> DEFINE H == DOMAIN home
           post == [u \in H |-> [splits |-> Transfer(home[u], u, f.amount), valid |-> f.ends,
                                 confirmed |-> TRUE, origin |-> None]]
           X == {post[u] : u \in H}
           r == PostFees(f, home)
<1>1. Decide(s, "fee", r) /\ \A u \in H : Charges(u, f) = {}
  BY DEF BookFee
<1>2. H \in SUBSET User /\ \A u \in H : home[u] \in FeeAccount
  BY DEF Homes
<1>3. f.begins \in Nat /\ f.ends \in Nat /\ f.amount \in Nat \ {0} /\ f.begins <= f.ends
  BY FeeAssumption
<1>4. \A u \in H : u \in Account /\ home[u] \in Account /\ home[u] # u
  BY <1>2, AccountAssumption DEF Account
<1>5. ASSUME NEW u \in H
      PROVE  /\ Legal(Transfer(home[u], u, f.amount))
             /\ DOMAIN Transfer(home[u], u, f.amount) = {home[u], u}
             /\ Transfer(home[u], u, f.amount) \in [{home[u], u} -> Int]
             /\ Transfer(home[u], u, f.amount)[home[u]] = - f.amount
  <2> DEFINE h == home[u]
             n == f.amount
  <2>1. u \in Account /\ h \in Account /\ h # u /\ n \in Int
    BY <1>3, <1>4
  <2> HIDE DEF h, n
  <2>2. /\ Legal(Transfer(h, u, n)) /\ DOMAIN Transfer(h, u, n) = {h, u}
        /\ Transfer(h, u, n) \in [{h, u} -> Int] /\ Transfer(h, u, n)[h] = - n
    BY <2>1, TransferIsLegal
  <2> QED
    BY <2>2 DEF h, n
<1>6. \A u \in H : /\ post[u].splits = Transfer(home[u], u, f.amount)
                   /\ post[u].origin = None /\ post[u].valid = f.ends
                   /\ post[u] \in Transaction({home[u], u})
  BY <1>3, <1>5 DEF Transaction
<1>7. X = {[splits |-> Transfer(home[u], u, f.amount), valid |-> f.ends,
            confirmed |-> TRUE, origin |-> None] : u \in H}
  OBVIOUS
<1>a. PICK q : q = [r EXCEPT !.op = "fee"]
  OBVIOUS
<1>8. Starts(s, q, "fee", X, {}, {}, {}, {}, {})
  BY <1>a, <1>1, <1>7 DEF Decide, Starts, Nothing, PostFees
<1>9. DOMAIN post = H
  OBVIOUS
<1> HIDE DEF post, r
<1>10. \A x \in X : IsTransaction(x) /\ Legal(x.splits) /\ x.origin = None
  <2>1. ASSUME NEW u \in H
        PROVE  IsTransaction(post[u]) /\ Legal(post[u].splits) /\ post[u].origin = None
    <3>1. DOMAIN post[u].splits = {home[u], u} /\ {home[u], u} \subseteq Account
      BY <1>4, <1>5, <1>6
    <3> QED
      BY <1>5, <1>6, <3>1 DEF IsTransaction
  <2> QED
    BY <2>1
<1>11. Sound(X)
  <2>1. IsFiniteSet(H)
    BY <1>2, FiniteAssumption, FS_Subset
  <2>2. IsFiniteSet(X)
    BY <1>9, <2>1, FiniteImage
  <2> QED
    BY <1>10, <2>2 DEF Sound
<1>12. ASSUME NEW v \in User, NEW u \in H, v \in DOMAIN post[u].splits
       PROVE  u = v
  BY <1>2, <1>5, <1>6, <1>12, AccountAssumption
<1>13. ASSUME NEW u \in H
       PROVE  ChargesIn(X, u, f) = {post[u]}
  <2>1. ASSUME NEW x \in ChargesIn(X, u, f) PROVE x = post[u]
    BY <1>2, <1>12 DEF ChargesIn
  <2>2. post[u] \in ChargesIn(X, u, f)
    <3>1. u \in DOMAIN post[u].splits /\ home[u] \in FeeAccount \cap DOMAIN post[u].splits
      BY <1>2, <1>5, <1>6
    <3>2. home[u] # u /\ post[u].splits[home[u]] < 0
      <4>1. home[u] # u /\ post[u].splits[home[u]] = - f.amount
        BY <1>4, <1>5, <1>6
      <4>2. - f.amount < 0
        BY <1>3
      <4> QED
        BY <4>1, <4>2
    <3>3. f.begins <= post[u].valid /\ post[u].valid <= f.ends
      <4>1. post[u].valid = f.ends
        BY <1>6
      <4>2. f.ends <= f.ends
        BY <1>3
      <4> QED
        BY <1>3, <4>1, <4>2
    <3> QED
      BY <3>1, <3>2, <3>3 DEF ChargesIn
  <2> QED
    BY <2>1, <2>2
<1>14. ChargesOnce([insert |-> X], f)
  <2>1. ASSUME NEW v \in User, NEW x \in X, v \in DOMAIN x.splits
        PROVE  Charges(v, f) = {} /\ \E y \in X : ChargesIn(X, v, f) = {y}
    <3>1. v \in H
      BY <1>12, <2>1
    <3> QED
      BY <1>1, <1>13, <3>1
  <2> HIDE DEF X
  <2> QED
    BY <2>1 DEF ChargesOnce, ChargedBy
<1> HIDE DEF X
<1> QED
  BY <1>1, <1>8, <1>10, <1>11, <1>14, DecideKeepsIInv

LEMMA OthersKeepIInv ==
  ASSUME IInv, FreshInv, NEW s \in Clerk,
         \/ \E T \in SUBSET Unconfirmed : ConfirmAll(s, T)
         \/ \E i \in Id : ConfirmTransaction(s, i) \/ DeleteTransaction(s, i)
         \/ \E B \in SUBSET User : HandleDefaults(s, B)
  PROVE  IInv' /\ FreshInv'
<1>1. Unconfirmed \subseteq 1 .. last
  BY DEF Unconfirmed, Living, IInv, TypeOK, Id
<1>2. \A x \in {} : x.origin # None => assigned[x.origin] = 0
  OBVIOUS
<1>3. ASSUME NEW T \in SUBSET Unconfirmed, Decide(s, "confirm", Confirmation(T))
      PROVE  IInv' /\ FreshInv'
  <2>a. PICK q : q = [Confirmation(T) EXCEPT !.op = "confirm"]
    OBVIOUS
  <2>1. Starts(s, q, "confirm", {}, T, {}, {}, {}, {})
    BY <2>a, <1>3 DEF Decide, Starts, Nothing, Confirmation
  <2>2. T \in SUBSET (1 .. last)
    BY <1>1
  <2> QED
    BY <1>2, <1>3, <2>1, <2>2, SoundNothing, DecideKeepsIInv
<1>4. ASSUME NEW i \in Id, DeleteTransaction(s, i)
      PROVE  IInv' /\ FreshInv'
  <2> DEFINE L == {a \in Activity : assigned[a] = i}
  <2>a. PICK q : q = [Deletion(i) EXCEPT !.op = "delete"]
    OBVIOUS
  <2>1. Starts(s, q, "delete", {}, {}, {i}, L, {}, {})
    BY <2>a, <1>4 DEF Decide, Starts, Nothing, Deletion, DeleteTransaction
  <2>2. /\ {i} \in SUBSET (1 .. last) /\ L \in SUBSET Activity
        /\ \A a \in L : assigned[a] \in {i}
        /\ \A j \in {i} \cap Living : ~ ledger[j].confirmed
        /\ Decide(s, "delete", Deletion(i))
    BY <1>1, <1>4 DEF DeleteTransaction, Unconfirmed
  <2> HIDE DEF L
  <2> QED
    BY <1>2, <2>1, <2>2, SoundNothing, DecideKeepsIInv
<1>5. ASSUME NEW B \in SUBSET User, HandleDefaults(s, B)
      PROVE  IInv' /\ FreshInv'
  <2>1. PICK U : U = {u \in blocked : Balance(u) <= 0}
    OBVIOUS
  <2>2. U \in SUBSET User
    BY <2>1 DEF IInv, TypeOK
  <2> DEFINE r == [Nothing EXCEPT !.block = B, !.unblock = U]
  <2>3. Decide(s, "default", r)
    BY <1>5, <2>1 DEF HandleDefaults
  <2>a. PICK q : q = [r EXCEPT !.op = "default"]
    OBVIOUS
  <2>4. Starts(s, q, "default", {}, {}, {}, {}, B, U)
    BY <2>a, <2>3 DEF Decide, Starts, Nothing
  <2> HIDE DEF r
  <2> QED
    BY <1>2, <2>2, <2>3, <2>4, SoundNothing, DecideKeepsIInv
<1> QED
  BY <1>3, <1>4, <1>5 DEF ConfirmAll, ConfirmTransaction

LEMMA BeginKeepsIInv ==
  ASSUME IInv, FreshInv, NEW s \in Clerk, Begin(s)
  PROVE  IInv' /\ FreshInv'
BY AssignActivityKeepsIInv, MatchActivitiesKeepsIInv, ReturnActivitiesKeepsIInv,
   CreateTransactionKeepsIInv, BookFeeKeepsIInv, OthersKeepIInv DEF Begin

----------------------------------------------------------------------------
(* The statements: from here on the rows are locked. *)

LEMMA FlushKeepsIInv ==
  ASSUME IInv, FreshInv, NEW s \in Clerk, Flush(s)
  PROVE  IInv' /\ FreshInv'
<1>1. PICK r : r = request[s]
  OBVIOUS
<1>2. /\ r # None /\ r.confirm \subseteq Living /\ UNCHANGED <<ledger, last, assigned, blocked>>
      /\ \A o \in Flushed \ {s} : ~ WritesTogether(r, request[o])
  BY <1>1 DEF Flush, Flushed
<1>3. PICK found \in SUBSET r.unlink :
        request' = [request EXCEPT ![s] =
          [r EXCEPT !.flushed = TRUE, !.unlink = found,
                    !.unblock = IF r.settles THEN Settled(r) ELSE @]]
  BY <1>1 DEF Flush
<1>4. PICK q : q = [r EXCEPT !.flushed = TRUE, !.unlink = found,
                             !.unblock = IF r.settles THEN Settled(r) ELSE @]
  OBVIOUS
<1>5. request' = [request EXCEPT ![s] = q]
  BY <1>3, <1>4
<1>6. IsRequest(r) /\ Sound(r.insert) /\ DOMAIN request = Clerk
  BY <1>1, <1>2 DEF IInv, TypeOK
<1>7. /\ DOMAIN q = DOMAIN Nothing /\ q.op = r.op /\ q.insert = r.insert
      /\ q.confirm = r.confirm /\ q.delete = r.delete /\ q.unlink = found /\ q.block = r.block
      /\ q.unblock \in {r.unblock, Settled(r)} /\ q.settles = r.settles /\ q.flushed = TRUE
      /\ q.fresh = r.fresh /\ q.alone = r.alone
  BY <1>4, <1>6 DEF IsRequest, Nothing
<1>8. IsRequest(q)
  <2>1. Settled(r) \subseteq User
    BY DEF Settled, IInv, TypeOK
  <2> QED
    BY <1>6, <1>7, <2>1 DEF IsRequest
<1>9. Informed(r) => Informed(q)
  BY <1>7 DEF Informed, Origins, ChargesOnce, ChargedBy
<1>10. request'[s] = q /\ \A o \in Clerk \ {s} : request'[o] = request[o]
  BY <1>5, <1>6
<1>11. Living' = Living /\ (BooksHold' <=> BooksHold)
  BY <1>2, <1>10, SameBooks
<1>12. /\ IsRequest(request[s])' <=> IsRequest(q)
       /\ Informed(request[s])' <=> Informed(q)
  BY <1>2, <1>10, SameBooks
<1>13. ASSUME NEW o \in Clerk \ {s}
       PROVE  /\ IsRequest(request[o])' <=> IsRequest(request[o])
              /\ Informed(request[o])' <=> Informed(request[o])
  BY <1>2, <1>10, SameBooks
<1>14. TypeOK'
  <2>1. DOMAIN request' = Clerk
    BY <1>5, <1>6
  <2>2. \A o \in Clerk : request'[o] = None \/ IsRequest(request[o])'
    BY <1>8, <1>10, <1>12, <1>13 DEF IInv, TypeOK
  <2> QED
    BY <1>2, <1>11, <2>1, <2>2 DEF IInv, TypeOK
<1>15. Locks'
  <2>1. Flushed' \ {s} \subseteq Flushed /\ \A o \in Flushed' \ {s} : request'[o] = request[o]
    BY <1>10 DEF Flushed
  <2>2. \A p : ~ WritesTogether(r, p) => ~ WritesTogether(q, p) /\ ~ WritesTogether(p, q)
    BY <1>7 DEF WritesTogether, Origins
  <2>3. \A o \in Flushed' \ {s} : ~ WritesTogether(q, request[o]) /\ ~ WritesTogether(request[o], q)
    BY <1>2, <2>1, <2>2
  <2>4. \A o \in Flushed' : request'[o].confirm \subseteq Living
    BY <1>2, <1>7, <1>10, <2>1 DEF IInv, Locks
  <2>5. \A o, p \in Flushed' : o # p => ~ WritesTogether(request'[o], request'[p])
    BY <1>10, <2>1, <2>3 DEF IInv, Locks, Flushed
  <2> QED
    BY <1>11, <2>4, <2>5 DEF Locks, WritesTogether, Origins
<1>16. \A o \in Clerk : request'[o] # None => Sound(request'[o].insert)
  BY <1>6, <1>7, <1>10 DEF IInv
<1>17. FreshInv'
  <2>1. q.fresh => Informed(q)
    BY <1>1, <1>2, <1>7, <1>9 DEF FreshInv
  <2> QED
    BY <1>10, <1>12, <1>13, <2>1 DEF FreshInv
<1> QED
  BY <1>11, <1>14, <1>15, <1>16, <1>17 DEF IInv, Sound

LEMMA AbandonKeepsIInv ==
  ASSUME IInv, FreshInv, NEW s \in Clerk, Abandon(s)
  PROVE  IInv' /\ FreshInv'
BY UnlockedKeepIInv DEF Abandon

----------------------------------------------------------------------------
(* The commit: what becomes of the books. *)

New == last + 1 .. last'

(* a is assigned to a new transaction, to none any more, or as before.     *)
Links(r, a) ==
  \/ a \in Origins(r) /\ assigned'[a] \in New /\ ledger'[assigned'[a]].origin = a
  \/ a \notin Origins(r) /\ (a \in r.unlink \/ assigned[a] \in r.delete) /\ assigned'[a] = 0
  \/ a \notin Origins(r) \cup r.unlink /\ assigned[a] \notin r.delete /\ assigned'[a] = assigned[a]

LEMMA Inserted ==
  ASSUME IInv, NEW s \in Clerk, Commit(s), NEW r, r = request[s]
  PROVE  /\ last' \in 0 .. MaxTransaction /\ last <= last'
         /\ \A i \in New : ledger'[i] \in r.insert
         /\ \A i, j \in New : ledger'[i] = ledger'[j] => i = j
         /\ \A x \in r.insert : \E i \in New : ledger'[i] = x
         /\ \A a \in Activity : Links(r, a)
<1>1. PICK new : new = SetToSeq(r.insert)
  OBVIOUS
<1>2. r # None /\ Sound(r.insert) /\ last \in 0 .. MaxTransaction
  BY DEF IInv, TypeOK, Commit
<1>3. /\ Len(new) \in Nat /\ new \in [1 .. Len(new) -> r.insert]
      /\ \A i, j \in 1 .. Len(new) : new[i] = new[j] => i = j
      /\ \A x \in r.insert : \E i \in 1 .. Len(new) : new[i] = x
  BY <1>1, <1>2, Numbered DEF Sound
<1>4. /\ last + Len(new) <= MaxTransaction /\ last' = last + Len(new)
      /\ \A i \in Id : i \in New => ledger'[i] = new[i - last]
      /\ \A a \in Activity : assigned'[a] = Link(r, new, a)
  BY <1>1 DEF Commit, New
<1>5. /\ last' \in 0 .. MaxTransaction /\ last <= last'
      /\ \A i \in New : i \in Id /\ i - last \in 1 .. Len(new)
      /\ \A k \in 1 .. Len(new) : last + k \in New /\ (last + k) - last = k
  BY <1>2, <1>3, <1>4, BoundAssumption DEF New, Id
<1>6. \A i \in New : ledger'[i] = new[i - last] /\ ledger'[i] \in r.insert
  BY <1>3, <1>4, <1>5
<1>7. \A i, j \in New : ledger'[i] = ledger'[j] => i = j
  <2>1. ASSUME NEW i \in New, NEW j \in New, ledger'[i] = ledger'[j] PROVE i - last = j - last
    BY <1>3, <1>5, <1>6, <2>1
  <2>2. New \subseteq Int /\ last \in Int
    BY <1>2 DEF New
  <2> QED
    BY <2>1, <2>2
<1>8. \A x \in r.insert : \E i \in New : ledger'[i] = x
  <2>1. ASSUME NEW x \in r.insert PROVE \E i \in New : ledger'[i] = x
    <3>1. PICK k \in 1 .. Len(new) : new[k] = x
      BY <1>3
    <3>2. last + k \in New /\ ledger'[last + k] = x
      BY <1>5, <1>6, <3>1
    <3> QED
      BY <3>2
  <2> QED
    BY <2>1
<1>9. ASSUME NEW a \in Activity PROVE Links(r, a)
  <2>1. CASE a \in Origins(r)
    <3>1. PICK i \in New : ledger'[i].origin = a
      BY <1>8, <2>1 DEF Origins
    <3>2. \E j \in last + 1 .. last + Len(new) : new[j - last].origin = a
      BY <1>4, <1>6, <3>1 DEF New
    <3>3. assigned'[a] = CHOOSE j \in last + 1 .. last + Len(new) : new[j - last].origin = a
      BY <1>4, <2>1 DEF Link
    <3>4. assigned'[a] \in last + 1 .. last + Len(new) /\ new[assigned'[a] - last].origin = a
      BY <3>2, <3>3
    <3> QED
      BY <1>4, <1>6, <2>1, <3>4 DEF New, Links
  <2>2. CASE a \notin Origins(r)
    BY <1>4, <2>2 DEF Link, Links
  <2> QED
    BY <2>1, <2>2
<1> QED
  BY <1>5, <1>6, <1>7, <1>8, <1>9

LEMMA ConfirmedTransaction ==
  ASSUME NEW x, IsTransaction(x), NEW y, y = [x EXCEPT !.confirmed = TRUE]
  PROVE  /\ IsTransaction(y) /\ y.splits = x.splits /\ y.valid = x.valid /\ y.origin = x.origin
         /\ x.confirmed => y = x
<1>1. x \in Transaction(DOMAIN x.splits) /\ DOMAIN x.splits \subseteq Account
  BY DEF IsTransaction
<1>2. y \in Transaction(DOMAIN x.splits) /\ y.splits = x.splits /\ y.valid = x.valid /\ y.origin = x.origin
  BY <1>1 DEF Transaction
<1>3. x.confirmed => y = x
  BY <1>1 DEF Transaction
<1> QED
  BY <1>1, <1>2, <1>3 DEF IsTransaction

LEMMA TransactionIsSomething == \A x : IsTransaction(x) => x # None
BY NoneAssumption DEF IsTransaction

(* Of the transactions there were, those that are not deleted stay, and    *)
(* only the confirmation of those that are confirmed changes.              *)
LEMMA Kept ==
  ASSUME IInv, NEW s \in Clerk, Commit(s), NEW r, r = request[s]
  PROVE  /\ DOMAIN ledger' = Id /\ r.confirm \subseteq Living
         /\ Living' = (Living \ r.delete) \cup New
         /\ \A i \in Living \ r.delete :
              /\ IsTransaction(ledger'[i]) /\ ledger'[i].splits = ledger[i].splits
              /\ ledger'[i].valid = ledger[i].valid /\ ledger'[i].origin = ledger[i].origin
              /\ i \notin r.confirm \/ ledger[i].confirmed => ledger'[i] = ledger[i]
<1>1. r # None /\ r.flushed /\ IsRequest(r) /\ Sound(r.insert) /\ last \in 0 .. MaxTransaction
  BY DEF IInv, TypeOK, Commit
<1>2. r.confirm \subseteq Living
  BY <1>1 DEF IInv, Locks, Flushed
<1>3. /\ last' \in 0 .. MaxTransaction /\ last <= last'
      /\ \A i \in New : ledger'[i] \in r.insert
  BY Inserted
<1>4. \A i \in Living : i \in Id /\ i \notin New /\ IsTransaction(ledger[i])
  BY <1>1, <1>3 DEF Living, IInv, TypeOK, Id, New
<1>5. \A i \in Id \ New : ledger'[i] = IF i \in r.delete THEN None
                                        ELSE IF i \in r.confirm THEN [ledger[i] EXCEPT !.confirmed = TRUE]
                                        ELSE ledger[i]
  BY DEF Commit, New
<1>6. ASSUME NEW i \in Living \ r.delete
      PROVE  /\ IsTransaction(ledger'[i]) /\ ledger'[i].splits = ledger[i].splits
             /\ ledger'[i].valid = ledger[i].valid /\ ledger'[i].origin = ledger[i].origin
             /\ i \notin r.confirm \/ ledger[i].confirmed => ledger'[i] = ledger[i]
  <2>1. PICK x : x = ledger[i]
    OBVIOUS
  <2>2. PICK y : y = [x EXCEPT !.confirmed = TRUE]
    OBVIOUS
  <2>3. IsTransaction(x) /\ ledger'[i] = IF i \in r.confirm THEN y ELSE x
    BY <1>4, <1>5, <2>1, <2>2
  <2>4. /\ IsTransaction(y) /\ y.splits = x.splits /\ y.valid = x.valid /\ y.origin = x.origin
        /\ x.confirmed => y = x
    BY <2>2, <2>3, ConfirmedTransaction
  <2> QED
    BY <2>1, <2>3, <2>4
<1>7. Living' = (Living \ r.delete) \cup New
  <2>1. \A i \in Living \ r.delete : ledger'[i] # None
    BY <1>6, TransactionIsSomething
  <2>2. \A i \in New : i \in Id /\ ledger'[i] # None
    <3>1. New \subseteq Id
      BY <1>1, <1>3, BoundAssumption DEF New, Id
    <3> QED
      BY <1>1, <1>3, <3>1, TransactionIsSomething DEF Sound
  <2>3. \A i \in Id \ New : i \notin Living \ r.delete => ledger'[i] = None
    BY <1>2, <1>5 DEF Living
  <2> QED
    BY <1>4, <2>1, <2>2, <2>3 DEF Living
<1>8. DOMAIN ledger' = Id
  BY DEF Commit
<1> QED
  BY <1>2, <1>6, <1>7, <1>8

(* A request that goes on writes what it was going to write.               *)
LEMMA GoesOn ==
  ASSUME IInv, NEW s \in Clerk, Commit(s), NEW r, r = request[s], NEW o \in Clerk, request'[o] # None,
         NEW q, q = request[o], NEW p, p = request'[o]
  PROVE  /\ o # s /\ q # None /\ IsRequest(q) /\ DOMAIN p = DOMAIN Nothing
         /\ p.op = q.op /\ p.insert = q.insert /\ p.confirm = q.confirm /\ p.delete = q.delete
         /\ p.unlink = q.unlink /\ p.block = q.block /\ p.unblock = q.unblock
         /\ p.settles = q.settles /\ p.flushed = q.flushed /\ p.alone \in BOOLEAN
         /\ (p.alone => ~ Settles(q))
         /\ p.fresh \in BOOLEAN /\ (p.fresh => q.fresh /\ ~ Conflict(q, r))
<1>1. o # s /\ p = Overtaken(q, r)
  BY DEF Commit
<1>2. q # None /\ p = [q EXCEPT !.alone = @ /\ ~ Settles(q), !.fresh = @ /\ ~ Conflict(q, r)]
  BY <1>1 DEF Overtaken
<1>3. IsRequest(q)
  BY <1>2 DEF IInv, TypeOK
<1>4. "alone" \in DOMAIN q /\ "fresh" \in DOMAIN q /\ DOMAIN q = DOMAIN Nothing
      /\ q.alone \in BOOLEAN /\ q.fresh \in BOOLEAN
  BY <1>3 DEF IsRequest, Nothing
<1>5. p.alone = (q.alone /\ ~ Settles(q)) /\ p.fresh = (q.fresh /\ ~ Conflict(q, r))
  BY <1>2, <1>4
<1>6. /\ p.op = q.op /\ p.insert = q.insert /\ p.confirm = q.confirm /\ p.delete = q.delete
      /\ p.unlink = q.unlink /\ p.block = q.block /\ p.unblock = q.unblock
      /\ p.settles = q.settles /\ p.flushed = q.flushed /\ DOMAIN p = DOMAIN q
  BY <1>2, <1>3 DEF IsRequest, Nothing
<1> QED
  BY <1>1, <1>2, <1>3, <1>4, <1>5, <1>6

LEMMA CommitKeepsIInv ==
  ASSUME IInv, NEW s \in Clerk, Commit(s)
  PROVE  IInv'
<1>1. PICK r : r = request[s]
  OBVIOUS
<1>2. /\ last' \in 0 .. MaxTransaction /\ last <= last' /\ last \in 0 .. MaxTransaction
      /\ \A i \in New : ledger'[i] \in r.insert
      /\ \A a \in Activity : Links(r, a)
  BY <1>1, Inserted DEF IInv, TypeOK
<1>3. /\ DOMAIN ledger' = Id
      /\ Living' = (Living \ r.delete) \cup New
      /\ \A i \in Living \ r.delete :
           /\ IsTransaction(ledger'[i]) /\ ledger'[i].splits = ledger[i].splits
           /\ ledger'[i].valid = ledger[i].valid /\ ledger'[i].origin = ledger[i].origin
  BY <1>1, Kept
<1>4. r # None /\ r.flushed /\ IsRequest(r) /\ Sound(r.insert)
  BY <1>1 DEF IInv, TypeOK, Commit
<1>5. /\ DOMAIN request' = Clerk /\ blocked' \subseteq User
      /\ assigned' = [a \in Activity |-> assigned'[a]]
  BY <1>1, <1>4 DEF Commit, IInv, TypeOK, IsRequest
<1>6. \A i \in Living' : IsTransaction(ledger'[i]) /\ Legal(ledger'[i].splits) /\ i <= last'
  <2>1. \A i \in Living : i <= last /\ i \in Int /\ Legal(ledger[i].splits)
    BY DEF IInv, TypeOK, BooksHold, Living, Id
  <2>2. \A i \in New : i <= last'
    BY <1>2 DEF New
  <2> QED
    BY <1>2, <1>3, <1>4, <2>1, <2>2 DEF Sound
<1>7. \A a \in Activity : assigned'[a] \in {0} \cup Living'
  BY <1>2, <1>3 DEF Links, IInv, TypeOK
<1>8. \A a \in Activity : assigned'[a] # 0 =>
        ledger'[assigned'[a]].origin = a /\ InAccount(ledger'[assigned'[a]], Bank) = Amount[a]
  <2>1. ASSUME NEW a \in Activity, assigned'[a] # 0
        PROVE  ledger'[assigned'[a]].origin = a /\ InAccount(ledger'[assigned'[a]], Bank) = Amount[a]
    <3>1. CASE assigned'[a] \in New /\ ledger'[assigned'[a]].origin = a
      <4>1. a # None
        BY NoneAssumption
      <4> QED
        BY <1>2, <1>4, <3>1, <4>1 DEF Sound
    <3>2. CASE assigned[a] \notin r.delete /\ assigned'[a] = assigned[a]
      <4>1. assigned[a] \in Living \ r.delete
        BY <2>1, <3>2 DEF IInv, TypeOK
      <4>2. ledger[assigned[a]].origin = a /\ InAccount(ledger[assigned[a]], Bank) = Amount[a]
        BY <2>1, <3>2 DEF IInv, BooksHold
      <4> QED
        BY <1>3, <3>2, <4>1, <4>2 DEF InAccount
    <3> QED
      BY <1>2, <2>1, <3>1, <3>2 DEF Links
  <2> QED
    BY <2>1
<1>9. ASSUME NEW o \in Clerk, request'[o] # None
      PROVE  IsRequest(request[o])' /\ Sound(request'[o].insert)
  <2>1. PICK q : q = request[o]
    OBVIOUS
  <2>2. PICK p : p = request'[o]
    OBVIOUS
  <2>3. /\ q # None /\ IsRequest(q) /\ DOMAIN p = DOMAIN Nothing
        /\ p.op = q.op /\ p.insert = q.insert /\ p.confirm = q.confirm /\ p.delete = q.delete
        /\ p.unlink = q.unlink /\ p.block = q.block /\ p.unblock = q.unblock
        /\ p.settles = q.settles /\ p.flushed = q.flushed /\ p.alone \in BOOLEAN /\ p.fresh \in BOOLEAN
    BY <1>1, <1>9, <2>1, <2>2, GoesOn
  <2>4. 1 .. last \subseteq 1 .. last'
    BY <1>2
  <2>5. IsRequest(p)'
    BY <2>3, <2>4 DEF IsRequest
  <2>6. Sound(p.insert)
    BY <2>1, <2>3 DEF IInv
  <2>7. IsRequest(request[o])' <=> IsRequest(p)'
    BY <2>2 DEF IsRequest
  <2> QED
    BY <2>2, <2>5, <2>6, <2>7
<1>10. Locks'
  <2>1. ASSUME NEW o \in Flushed'
        PROVE  /\ o # s /\ o \in Flushed
               /\ request'[o].insert = request[o].insert /\ request'[o].unlink = request[o].unlink
               /\ request'[o].confirm = request[o].confirm /\ request'[o].delete = request[o].delete
    <3>1. o \in Clerk /\ request'[o] # None /\ request'[o].flushed
      BY DEF Flushed
    <3> QED
      BY <1>1, <3>1, GoesOn DEF Flushed
  <2>2. s \in Flushed
    BY <1>1, <1>4 DEF Flushed
  <2>3. \A o \in Flushed' : request'[o].confirm \subseteq Living'
    <3>1. ASSUME NEW o \in Flushed' PROVE request[o].confirm \subseteq Living \ r.delete
      BY <1>1, <2>1, <2>2 DEF IInv, Locks, WritesTogether
    <3> QED
      BY <1>3, <2>1, <3>1
  <2>4. \A o, p \in Flushed' : o # p => ~ WritesTogether(request'[o], request'[p])
    BY <2>1 DEF IInv, Locks, WritesTogether, Origins
  <2> QED
    BY <2>3, <2>4 DEF Locks
<1>11. TypeOK'
  <2>1. assigned' \in [Activity -> {0} \cup Living']
    BY <1>5, <1>7
  <2>2. \A o \in Clerk : request'[o] = None \/ IsRequest(request[o])'
    BY <1>9
  <2> QED
    BY <1>2, <1>3, <1>5, <1>6, <2>1, <2>2 DEF TypeOK
<1>12. BooksHold'
  BY <1>6, <1>8 DEF BooksHold
<1> QED
  BY <1>9, <1>10, <1>11, <1>12 DEF IInv

LEMMA CommitKeepsFreshInv ==
  ASSUME IInv, FreshInv, NEW s \in Clerk, Commit(s)
  PROVE  FreshInv'
<1>1. PICK r : r = request[s]
  OBVIOUS
<1> SUFFICES ASSUME NEW o \in Clerk, request'[o] # None, request'[o].fresh
             PROVE  Informed(request[o])'
  BY DEF FreshInv
<1>2. PICK q : q = request[o]
  OBVIOUS
<1>3. PICK p : p = request'[o]
  OBVIOUS
<1>4. /\ q # None /\ IsRequest(q) /\ p.op = q.op /\ p.insert = q.insert /\ p.delete = q.delete
      /\ p.unlink = q.unlink /\ q.fresh /\ ~ Conflict(q, r)
  BY <1>1, <1>2, <1>3, GoesOn
<1>5. Informed(q) /\ ~ WritesTogether(q, r)
  BY <1>2, <1>4 DEF FreshInv, Conflict
<1>6. /\ \A i \in New : ledger'[i] \in r.insert
      /\ \A a \in Activity : Links(r, a)
  BY <1>1, Inserted
<1>7. /\ Living' = (Living \ r.delete) \cup New
      /\ \A i \in Living \ r.delete :
           /\ ledger'[i].splits = ledger[i].splits /\ ledger'[i].valid = ledger[i].valid
           /\ i \notin r.confirm => ledger'[i] = ledger[i]
  BY <1>1, Kept
<1>8. r # None /\ IsRequest(r) /\ Sound(r.insert) /\ Sound(q.insert)
  BY <1>1, <1>2, <1>4 DEF IInv, TypeOK, Commit
<1>9. Origins(q) \subseteq Activity
  BY <1>8 DEF Origins, Sound, IsTransaction, Transaction
<1>10. \A a \in Origins(q) : assigned'[a] = 0
  BY <1>5, <1>6, <1>9 DEF Informed, WritesTogether, Links
<1>11. \A a \in q.unlink : assigned'[a] \in q.delete
  <2>1. q.unlink \subseteq Activity
    BY <1>4 DEF IsRequest
  <2> QED
    BY <1>5, <1>6, <2>1 DEF Informed, WritesTogether, Links
<1>12. \A i \in q.delete \cap Living' : ~ ledger'[i].confirmed
  <2>1. \A i \in New : i \notin q.delete
    BY <1>4 DEF IsRequest, New, IInv, TypeOK
  <2> QED
    BY <1>5, <1>7, <2>1 DEF Informed, WritesTogether
<1>13. ASSUME q.op = "fee"
       PROVE  \E f \in Fee : ChargesOnce(q, f)'
  <2>1. PICK f \in Fee : ChargesOnce(q, f)
    BY <1>5, <1>13 DEF Informed
  <2>2. ASSUME NEW u \in User, ChargedBy(q, u)
        PROVE  Charges(u, f)' = {}
    <3>1. Charges(u, f) = {} /\ ChargesIn(q.insert, u, f) # {}
      BY <2>1, <2>2 DEF ChargesOnce
    <3>2. ChargesIn(r.insert, u, f) = {}
      BY <1>4, <1>13, <3>1 DEF Conflict
    <3>3. \A i \in New : ChargesIn({ledger'[i]}, u, f) = {}
      BY <1>6, <3>2 DEF ChargesIn
    <3>4. \A i \in Living \ r.delete : ChargesIn({ledger'[i]}, u, f) = {}
      BY <1>7, <3>1 DEF Charges, ChargesIn
    <3> QED
      BY <1>7, <3>3, <3>4 DEF Charges
  <2> QED
    BY <2>1, <2>2 DEF ChargesOnce, ChargedBy
<1>14. Informed(p)'
  BY <1>4, <1>10, <1>11, <1>12, <1>13 DEF Informed, Origins, ChargesOnce, ChargedBy
<1> QED
  BY <1>3, <1>14

LEMMA NextKeepsIInv == IInv /\ FreshInv /\ [Next]_vars => IInv' /\ FreshInv'
<1>1. ASSUME IInv, FreshInv, NEW s \in Clerk, Begin(s) \/ Flush(s) \/ Commit(s) \/ Abandon(s)
      PROVE  IInv' /\ FreshInv'
  BY <1>1, BeginKeepsIInv, FlushKeepsIInv, CommitKeepsIInv, CommitKeepsFreshInv, AbandonKeepsIInv
<1>2. ASSUME IInv, FreshInv, UNCHANGED vars
      PROVE  IInv' /\ FreshInv'
  <2>1. UNCHANGED <<ledger, last, assigned, blocked>> /\ request' = request
    BY <1>2 DEF vars
  <2>2. ASSUME NEW s \in Clerk
        PROVE  /\ Living' = Living /\ (BooksHold' <=> BooksHold)
               /\ IsRequest(request[s])' <=> IsRequest(request[s])
               /\ Informed(request[s])' <=> Informed(request[s])
    BY <2>1, SameBooks
  <2>3. Living' = Living /\ (BooksHold' <=> BooksHold)
    BY <2>1 DEF Living, BooksHold
  <2>4. TypeOK'
    BY <1>2, <2>1, <2>2, <2>3 DEF IInv, TypeOK
  <2>5. Locks'
    BY <1>2, <2>1, <2>3 DEF IInv, Locks, Flushed, WritesTogether, Origins
  <2> QED
    BY <1>2, <2>1, <2>2, <2>3, <2>4, <2>5 DEF IInv, FreshInv, Sound
<1> QED
  BY <1>1, <1>2 DEF Next

LEMMA InvariantHolds == Spec => [](IInv /\ FreshInv)
BY InitIInv, NextKeepsIInv, PTL DEF Spec

----------------------------------------------------------------------------
(* What the books promise. *)

(* However many clerks assign, match, return, book, confirm and delete at  *)
(* once (lib/finance, web/blueprints/finance): every transaction is legal, *)
(* and an assigned activity has the transaction that was made for it and   *)
(* moves its amount.                                                       *)
THEOREM BooksStayLegal == Spec => []LedgerInv
<1>1. IInv => LedgerInv
  BY DEF IInv, LedgerInv
<1> QED
  BY <1>1, InvariantHolds, PTL

LEMMA FreshLeavesConfirmed ==
  ASSUME IInv, FreshInv, NEW s \in Clerk, Commits(s), request[s].fresh,
         NEW i \in Living, ledger[i].confirmed
  PROVE  ledger'[i] = ledger[i]
<1>1. PICK r : r = request[s]
  OBVIOUS
<1>2. Commit(s) /\ r # None /\ Informed(r)
  BY <1>1 DEF Commits, Commit, FreshInv
<1>3. i \in Living \ r.delete
  BY <1>2 DEF Informed
<1> QED
  BY <1>1, <1>2, <1>3, Kept

(* A transaction that is confirmed can be deleted or changed only by a     *)
(* request that began before it was confirmed (transaction_delete,         *)
(* lib/finance/transaction_crud.py).                                       *)
THEOREM ConfirmedStays == Spec => ConfirmedIsFinal
<1>1. IInv /\ FreshInv =>
        \A s \in Clerk : Commits(s) /\ request[s].fresh =>
          \A i \in Living : ledger[i].confirmed => ledger'[i] = ledger[i]
  BY FreshLeavesConfirmed
<1> QED
  BY <1>1, InvariantHolds, PTL DEF ConfirmedIsFinal

LEMMA FreshBooksPaymentsOnce ==
  ASSUME IInv, FreshInv, NEW s \in Clerk, Commits(s), request[s].fresh, PaymentsOnce
  PROVE  PaymentsOnce'
<1>1. PICK r : r = request[s]
  OBVIOUS
<1>2. Commit(s) /\ r # None /\ Informed(r) /\ Sound(r.insert)
  BY <1>1 DEF Commits, Commit, FreshInv, IInv
<1>3. /\ \A i \in New : ledger'[i] \in r.insert
      /\ \A i, j \in New : ledger'[i] = ledger'[j] => i = j
      /\ \A a \in Activity : Links(r, a)
  BY <1>1, <1>2, Inserted
<1>4. /\ Living' = (Living \ r.delete) \cup New
      /\ \A i \in Living \ r.delete :
           IsTransaction(ledger'[i]) /\ ledger'[i].origin = ledger[i].origin
  BY <1>1, <1>2, Kept
<1>5. ASSUME NEW i \in Living', NEW a, a = ledger'[i].origin, a # None
      PROVE  assigned'[a] = i
  <2>1. IsTransaction(ledger'[i])
    BY <1>2, <1>3, <1>4 DEF Sound
  <2>2. a \in Activity
    BY <1>5, <2>1 DEF IsTransaction, Transaction
  <2>3. CASE i \in New
    <3>1. a \in Origins(r)
      BY <1>3, <1>5, <2>3 DEF Origins
    <3>2. PICK j \in New : j = assigned'[a] /\ ledger'[j].origin = a
      BY <1>3, <2>2, <3>1 DEF Links
    <3>3. ledger'[i] = ledger'[j]
      BY <1>2, <1>3, <1>5, <2>3, <3>2 DEF Sound
    <3> QED
      BY <1>3, <2>3, <3>2, <3>3
  <2>4. CASE i \in Living \ r.delete
    <3>1. assigned[a] = i
      BY <1>4, <1>5, <2>4 DEF PaymentsOnce
    <3>2. i # 0
      BY <2>4 DEF Living, Id
    <3> QED
      BY <1>2, <1>3, <2>2, <2>4, <3>1, <3>2 DEF Links, Informed
  <2> QED
    BY <1>4, <2>3, <2>4
<1> QED
  BY <1>5 DEF PaymentsOnce

LEMMA FreshChargesOnce ==
  ASSUME IInv, FreshInv, NEW s \in Clerk, Commits(s), request[s].fresh, request[s].op = "fee"
  PROVE  \E f \in Fee : \A u \in User :
           (\E x \in request[s].insert : u \in DOMAIN x.splits) => Cardinality(Charges(u, f)') = 1
<1>1. PICK r : r = request[s]
  OBVIOUS
<1>2. Commit(s) /\ r # None /\ Informed(r)
  BY <1>1 DEF Commits, Commit, FreshInv
<1>3. /\ \A i \in New : ledger'[i] \in r.insert
      /\ \A i, j \in New : ledger'[i] = ledger'[j] => i = j
      /\ \A x \in r.insert : \E i \in New : ledger'[i] = x
  BY <1>1, <1>2, Inserted
<1>4. /\ Living' = (Living \ r.delete) \cup New
      /\ \A i \in Living \ r.delete :
           ledger'[i].splits = ledger[i].splits /\ ledger'[i].valid = ledger[i].valid
  BY <1>1, <1>2, Kept
<1>5. PICK f \in Fee : ChargesOnce(r, f)
  BY <1>1, <1>2 DEF Informed
<1>6. ASSUME NEW u \in User, ChargedBy(r, u)
      PROVE  Cardinality(Charges(u, f)') = 1
  <2>1. PICK x \in r.insert : Charges(u, f) = {} /\ ChargesIn(r.insert, u, f) = {x}
    BY <1>5, <1>6 DEF ChargesOnce
  <2>2. PICK i \in New : ledger'[i] = x
    BY <1>3
  <2>3. \A j \in New : ChargesIn({ledger'[j]}, u, f) # {} <=> j = i
    <3>1. ASSUME NEW j \in New, ChargesIn({ledger'[j]}, u, f) # {} PROVE j = i
      <4>1. ledger'[j] \in ChargesIn(r.insert, u, f)
        BY <1>3, <3>1 DEF ChargesIn
      <4> QED
        BY <1>3, <2>1, <2>2, <4>1
    <3>2. ChargesIn({x}, u, f) # {}
      BY <2>1 DEF ChargesIn
    <3> QED
      BY <2>2, <3>1, <3>2
  <2>4. \A j \in Living \ r.delete : ChargesIn({ledger'[j]}, u, f) = {}
    BY <1>4, <2>1 DEF Charges, ChargesIn
  <2>5. Charges(u, f)' = {i}
    BY <1>4, <2>3, <2>4 DEF Charges
  <2> QED
    BY <2>5, FS_Singleton
<1> QED
  BY <1>1, <1>6 DEF ChargedBy

(* Nothing is booked twice by a request that no conflicting one has        *)
(* overtaken: every payment on the bank account has the one transaction    *)
(* that was made for it (bank_account_activities_edit, _do_match,          *)
(* _return_do), and a user is charged once for a fee (membership_fee.py).  *)
THEOREM NothingIsBookedTwice == Spec => FreshBooksOnce
<1>1. IInv /\ FreshInv =>
        \A s \in Clerk : Commits(s) /\ request[s].fresh => (PaymentsOnce => PaymentsOnce')
  BY FreshBooksPaymentsOnce
<1>2. IInv /\ FreshInv =>
        \A s \in Clerk : Commits(s) /\ request[s].fresh /\ request[s].op = "fee" =>
          \E f \in Fee : \A u \in User :
            (\E x \in request[s].insert : u \in DOMAIN x.splits) => Cardinality(Charges(u, f)') = 1
  BY FreshChargesOnce
<1>3. Spec => FreshKeepsPaymentsOnce
  BY <1>1, InvariantHolds, PTL DEF FreshKeepsPaymentsOnce
<1>4. Spec => FeeChargedOnce
  BY <1>2, InvariantHolds, PTL DEF FeeChargedOnce
<1> QED
  BY <1>3, <1>4 DEF FreshBooksOnce

(* What is on an account in the transactions D of a ledger, and in those of a set *)
BalanceIn(books, D, c) == Total(D, LAMBDA i : InAccount(books[i], c))
BalanceOf(X, c)        == Total(X, LAMBDA x : InAccount(x, c))

LEMMA BalanceInIs ==
  ASSUME NEW D, IsFiniteSet(D), NEW books, NEW c, \A i \in D : InAccount(books[i], c) \in Int
  PROVE  \E g : IsSum(g, D, [i \in D |-> InAccount(books[i], c)]) /\ BalanceIn(books, D, c) = g[D]
<1> DEFINE w == [i \in D |-> InAccount(books[i], c)]
           pick(s) == CHOOSE x \in s : TRUE
           Is(g) == g = [s \in SUBSET D |-> IF s = {} THEN 0 ELSE InAccount(books[pick(s)], c) + g[s \ {pick(s)}]]
<1>1. BalanceIn(books, D, c) = (CHOOSE g : Is(g))[D]
  BY DEF BalanceIn, Total, MapThenSumSet, MapThenFoldSet
<1>2. ASSUME NEW g PROVE Is(g) <=> Sums(g, D, w)
  <2> DEFINE a == [s \in SUBSET D |-> IF s = {} THEN 0 ELSE InAccount(books[pick(s)], c) + g[s \ {pick(s)}]]
             b == [s \in SUBSET D |-> IF s = {} THEN 0 ELSE w[pick(s)] + g[s \ {pick(s)}]]
  <2>1. ASSUME NEW s \in SUBSET D
        PROVE  a[s] = b[s]
    <3>1. CASE s = {}
      BY <3>1
    <3>2. CASE s # {}
      <4>1. pick(s) \in D
        BY <3>2
      <4> HIDE DEF pick
      <4>2. w[pick(s)] = InAccount(books[pick(s)], c)
        BY <4>1
      <4> HIDE DEF w
      <4> QED
        BY <3>2, <4>2
    <3> QED
      BY <3>1, <3>2
  <2>2. a = b
    <3>1. a = [s \in SUBSET D |-> a[s]] /\ b = [s \in SUBSET D |-> b[s]]
      OBVIOUS
    <3> HIDE DEF a, b
    <3> QED
      BY <2>1, <3>1
  <2>3. (Is(g) <=> g = a) /\ (Sums(g, D, w) <=> g = b)
    BY DEF Sums
  <2> HIDE DEF a, b, Is
  <2> QED
    BY <2>2, <2>3
<1>3. w \in [D -> Int]
  OBVIOUS
<1> HIDE DEF Is, w
<1>4. /\ \E g : Sums(g, D, w)
      /\ \A g : Sums(g, D, w) => IsSum(g, D, w)
  BY <1>3, SumsIsSum
<1>5. PICK g : g = CHOOSE h : Is(h)
  OBVIOUS
<1>6. Is(g)
  BY <1>2, <1>4, <1>5
<1>7. IsSum(g, D, w) /\ BalanceIn(books, D, c) = g[D]
  BY <1>1, <1>2, <1>4, <1>5, <1>6
<1> QED
  BY <1>7 DEF w

LEMMA BalanceOfIs ==
  ASSUME NEW D, IsFiniteSet(D), NEW c, \A x \in D : InAccount(x, c) \in Int
  PROVE  \E g : IsSum(g, D, [x \in D |-> InAccount(x, c)]) /\ BalanceOf(D, c) = g[D]
<1> DEFINE w == [i \in D |-> InAccount(i, c)]
           pick(s) == CHOOSE x \in s : TRUE
           Is(g) == g = [s \in SUBSET D |-> IF s = {} THEN 0 ELSE InAccount(pick(s), c) + g[s \ {pick(s)}]]
<1>1. BalanceOf(D, c) = (CHOOSE g : Is(g))[D]
  BY DEF BalanceOf, Total, MapThenSumSet, MapThenFoldSet
<1>2. ASSUME NEW g PROVE Is(g) <=> Sums(g, D, w)
  <2> DEFINE a == [s \in SUBSET D |-> IF s = {} THEN 0 ELSE InAccount(pick(s), c) + g[s \ {pick(s)}]]
             b == [s \in SUBSET D |-> IF s = {} THEN 0 ELSE w[pick(s)] + g[s \ {pick(s)}]]
  <2>1. ASSUME NEW s \in SUBSET D
        PROVE  a[s] = b[s]
    <3>1. CASE s = {}
      BY <3>1
    <3>2. CASE s # {}
      <4>1. pick(s) \in D
        BY <3>2
      <4> HIDE DEF pick
      <4>2. w[pick(s)] = InAccount(pick(s), c)
        BY <4>1
      <4> HIDE DEF w
      <4> QED
        BY <3>2, <4>2
    <3> QED
      BY <3>1, <3>2
  <2>2. a = b
    <3>1. a = [s \in SUBSET D |-> a[s]] /\ b = [s \in SUBSET D |-> b[s]]
      OBVIOUS
    <3> HIDE DEF a, b
    <3> QED
      BY <2>1, <3>1
  <2>3. (Is(g) <=> g = a) /\ (Sums(g, D, w) <=> g = b)
    BY DEF Sums
  <2> HIDE DEF a, b, Is
  <2> QED
    BY <2>2, <2>3
<1>3. w \in [D -> Int]
  OBVIOUS
<1> HIDE DEF Is, w
<1>4. /\ \E g : Sums(g, D, w)
      /\ \A g : Sums(g, D, w) => IsSum(g, D, w)
  BY <1>3, SumsIsSum
<1>5. PICK g : g = CHOOSE h : Is(h)
  OBVIOUS
<1>6. Is(g)
  BY <1>2, <1>4, <1>5
<1>7. IsSum(g, D, w) /\ BalanceOf(D, c) = g[D]
  BY <1>1, <1>2, <1>4, <1>5, <1>6
<1> QED
  BY <1>7 DEF w

LEMMA BalancesAre ==
  /\ \A c : Balance(c) = BalanceIn(ledger, Living, c)
  /\ \A c : Balance(c)' = BalanceIn(ledger', Living', c)
  /\ \A r : Settled(r) = {u \in blocked : Balance(u) + BalanceOf(r.insert, u) <= 0}
<1>1. ASSUME NEW c PROVE Balance(c) = BalanceIn(ledger, Living, c)
  BY DEF Balance, BalanceIn, Total, MapThenSumSet, MapThenFoldSet
<1>2. ASSUME NEW c PROVE Balance(c)' = BalanceIn(ledger', Living', c)
  BY DEF Balance, BalanceIn, Total, MapThenSumSet, MapThenFoldSet
<1>3. ASSUME NEW r PROVE Settled(r) = {u \in blocked : Balance(u) + BalanceOf(r.insert, u) <= 0}
  BY DEF Settled, BalanceOf, Total, MapThenSumSet, MapThenFoldSet
<1> QED
  BY <1>1, <1>2, <1>3

----------------------------------------------------------------------------
(* Who has paid *)

LEMMA AmountsAreNumbers == \A x, c : IsTransaction(x) => InAccount(x, c) \in Int
BY DEF IsTransaction, Transaction, InAccount

LEMMA LivingAre ==
  ASSUME TypeOK
  PROVE  /\ IsFiniteSet(Living) /\ \A c : \A i \in Living : InAccount(ledger[i], c) \in Int
         /\ \A c : Balance(c) \in Int
<1>1. IsFiniteSet(Living)
  <2>1. IsFiniteSet(Id) /\ Living \in SUBSET Id
    BY BoundAssumption, FS_Interval DEF Id, Living
  <2> QED
    BY <2>1, FS_Subset
<1>2. \A c : \A i \in Living : InAccount(ledger[i], c) \in Int
  BY AmountsAreNumbers DEF TypeOK
<1>3. ASSUME NEW c PROVE Balance(c) \in Int
  <2>1. PICK g : IsSum(g, Living, [i \in Living |-> InAccount(ledger[i], c)]) /\ BalanceIn(ledger, Living, c) = g[Living]
    BY <1>1, <1>2, BalanceInIs
  <2>2. g \in [SUBSET Living -> Int]
    BY <2>1 DEF IsSum
  <2> QED
    BY <2>1, <2>2, BalancesAre
<1> QED
  BY <1>1, <1>2, <1>3

(* What a commit that deletes nothing books is what its transactions say.  *)
LEMMA CommitAdds ==
  ASSUME IInv, NEW s \in Clerk, Commit(s), NEW r, r = request[s], r.delete = {}, NEW c
  PROVE  Balance(c)' = Balance(c) + BalanceOf(r.insert, c)
<1>1. r # None /\ Sound(r.insert) /\ TypeOK
  BY DEF Commit, IInv
<1>2. /\ last' \in 0 .. MaxTransaction /\ last <= last'
      /\ \A i \in New : ledger'[i] \in r.insert
      /\ \A i, j \in New : ledger'[i] = ledger'[j] => i = j
      /\ \A x \in r.insert : \E i \in New : ledger'[i] = x
  BY Inserted
<1>3. /\ Living' = Living \cup New
      /\ \A i \in Living : IsTransaction(ledger'[i]) /\ ledger'[i].splits = ledger[i].splits
  BY Kept
<1>4. \A i \in Living' : InAccount(ledger'[i], c) \in Int
  <2>1. \A i \in Living' : IsTransaction(ledger'[i])
    BY <1>1, <1>2, <1>3 DEF Sound
  <2> QED
    BY <2>1, AmountsAreNumbers
<1>5. \A x \in r.insert : InAccount(x, c) \in Int
  BY <1>1, AmountsAreNumbers DEF Sound
<1>6. IsFiniteSet(Living) /\ IsFiniteSet(New) /\ IsFiniteSet(Living \cup New) /\ IsFiniteSet(r.insert)
      /\ \A i \in Living : InAccount(ledger[i], c) \in Int
  <2>1. IsFiniteSet(Living) /\ \A i \in Living : InAccount(ledger[i], c) \in Int
    BY <1>1, LivingAre
  <2>2. IsFiniteSet(New)
    <3>1. last + 1 \in Int /\ last' \in Int
      BY <1>1, <1>2 DEF TypeOK
    <3> QED
      BY <3>1, FS_Interval DEF New
  <2> QED
    BY <1>1, <2>1, <2>2, FS_Union DEF Sound
<1>7. Living \cap New = {}
  BY <1>1, <1>2 DEF TypeOK, New, Living, Id
<1> DEFINE u == [i \in Living \cup New |-> InAccount(ledger'[i], c)]
           w == [i \in Living |-> InAccount(ledger[i], c)]
           v == [x \in r.insert |-> InAccount(x, c)]
           k == [i \in New |-> ledger'[i]]
<1>8. PICK f : IsSum(f, Living \cup New, u) /\ BalanceIn(ledger', Living \cup New, c) = f[Living \cup New]
  <2>1. PICK D : D = Living \cup New
    OBVIOUS
  <2>2. IsFiniteSet(D) /\ \A i \in D : InAccount(ledger'[i], c) \in Int
    BY <1>3, <1>4, <1>6, <2>1
  <2>3. \E f : IsSum(f, D, [i \in D |-> InAccount(ledger'[i], c)]) /\ BalanceIn(ledger', D, c) = f[D]
    BY <2>2, BalanceInIs
  <2> QED
    BY <2>1, <2>3
<1>9. PICK g : IsSum(g, Living, w) /\ BalanceIn(ledger, Living, c) = g[Living]
  BY <1>6, BalanceInIs
<1>10. PICK h : IsSum(h, r.insert, v) /\ BalanceOf(r.insert, c) = h[r.insert]
  BY <1>5, <1>6, BalanceOfIs
<1>11. /\ k \in [New -> r.insert] /\ \A i, j \in New : k[i] = k[j] => i = j
       /\ \A x \in r.insert : \E i \in New : k[i] = x
       /\ \A x \in r.insert : v[x] \in Int
  BY <1>2, <1>5
<1>12. \A i \in Living : u[i] = w[i]
  BY <1>3 DEF InAccount
<1>13. \A i \in New : u[i] = v[k[i]]
  BY <1>2
<1> HIDE DEF u, v, w, k
<1>14. f[Living \cup New] = g[Living] + h[r.insert]
  BY <1>6, <1>7, <1>8, <1>9, <1>10, <1>11, <1>12, <1>13, SumOfBoth
<1> QED
  BY <1>3, <1>8, <1>9, <1>10, <1>14, BalancesAre

(* What a request that ends blocks knows as long as it is alone: who has   *)
(* paid, with what it has booked itself.                                   *)
KnowsPaid(r) ==
  /\ r.delete = {}
  /\ IF r.op = "default"
     THEN /\ ~ r.settles /\ r.insert = {}
          /\ \A u \in (blocked \ r.unblock) \cup r.block : Balance(u) > 0
     ELSE r.block = {} /\ (r.flushed => r.unblock = Settled(r))

AloneInv ==
  \A s \in Clerk : request[s] # None /\ request[s].alone /\ Settles(request[s]) => KnowsPaid(request[s])

LEMMA SameBalances ==
  ASSUME UNCHANGED <<ledger, last, assigned, blocked>>, NEW s \in Clerk, NEW q, request'[s] = q
  PROVE  KnowsPaid(request[s])' <=> KnowsPaid(q)
<1>1. \A c : Balance(c)' = Balance(c)
  <2>1. Living' = Living
    BY DEF Living
  <2> QED
    BY <2>1, BalancesAre
<1>2. Settled(request[s])' = Settled(q)
  <2>1. Settled(request[s])' = {u \in blocked' : Balance(u)' + BalanceOf(request'[s].insert, u) <= 0}
    BY DEF Settled, BalanceOf, Total, MapThenSumSet, MapThenFoldSet
  <2>2. Settled(q) = {u \in blocked : Balance(u) + BalanceOf(q.insert, u) <= 0}
    BY BalancesAre
  <2> QED
    BY <1>1, <2>1, <2>2
<1> QED
  BY <1>1, <1>2 DEF KnowsPaid

LEMMA SameBooksAlone ==
  ASSUME IInv, AloneInv, UNCHANGED <<ledger, last, assigned, blocked>>,
         NEW s \in Clerk, NEW q, request' = [request EXCEPT ![s] = q],
         q # None /\ q.alone /\ Settles(q) => KnowsPaid(q)
  PROVE  AloneInv'
<1>1. request'[s] = q /\ \A o \in Clerk \ {s} : request'[o] = request[o]
  BY DEF IInv, TypeOK
<1>2. \A o \in Clerk : Settles(request[o])' <=> Settles(request'[o])
  BY DEF Settles
<1>3. KnowsPaid(request[s])' <=> KnowsPaid(q)
  BY <1>1, SameBalances
<1>4. ASSUME NEW o \in Clerk \ {s} PROVE KnowsPaid(request[o])' <=> KnowsPaid(request[o])
  BY <1>1, SameBalances
<1> QED
  BY <1>1, <1>2, <1>3, <1>4 DEF AloneInv

LEMMA BeginKeepsAlone ==
  ASSUME IInv, AloneInv, NEW s \in Clerk, Begin(s)
  PROVE  AloneInv'
<1>1. PICK q : request' = [request EXCEPT ![s] = q] /\ UNCHANGED <<ledger, last, assigned, blocked>>
              /\ (Settles(q) => KnowsPaid(q))
  <2> DEFINE Good(q) == /\ request' = [request EXCEPT ![s] = q] /\ UNCHANGED <<ledger, last, assigned, blocked>>
                        /\ (Settles(q) => KnowsPaid(q))
  <2>1. ASSUME NEW op, NEW r, Decide(s, op, r),
               [r EXCEPT !.op = op].op = op,
               Settles([r EXCEPT !.op = op]) => KnowsPaid([r EXCEPT !.op = op])
        PROVE  \E q : Good(q)
    <3>1. Good([r EXCEPT !.op = op])
      BY <2>1 DEF Decide
    <3> QED
      BY <3>1
  <2>2. ASSUME NEW a \in Activity, NEW account \in Payable, AssignActivity(s, a, account)
        PROVE  \E q : Good(q)
    BY <2>1, <2>2 DEF AssignActivity, Nothing, KnowsPaid
  <2>3. ASSUME NEW A, MatchActivities(s, A)
        PROVE  \E q : Good(q)
    BY <2>1, <2>3 DEF MatchActivities, Nothing, KnowsPaid
  <2>4. ASSUME NEW A, ReturnActivities(s, A)
        PROVE  \E q : Good(q)
    BY <2>1, <2>4 DEF ReturnActivities, AttributedAsReturned, Nothing, Settles
  <2>5. ASSUME NEW b \in Booking, CreateTransaction(s, b)
        PROVE  \E q : Good(q)
    BY <2>1, <2>5 DEF CreateTransaction, ComplexTransaction, Nothing, KnowsPaid
  <2>6. ASSUME NEW f \in Fee, NEW home \in Homes, BookFee(s, f, home)
        PROVE  \E q : Good(q)
    BY <2>1, <2>6 DEF BookFee, PostFees, Nothing, Settles
  <2>7. ASSUME NEW T, Decide(s, "confirm", Confirmation(T))
        PROVE  \E q : Good(q)
    BY <2>1, <2>7 DEF Confirmation, Nothing, Settles
  <2>8. ASSUME NEW i, Decide(s, "delete", Deletion(i))
        PROVE  \E q : Good(q)
    BY <2>1, <2>8 DEF Deletion, Nothing, Settles
  <2>9. ASSUME NEW B, HandleDefaults(s, B)
        PROVE  \E q : Good(q)
    <3>1. \A u : Balance(u) \in Int
      BY LivingAre DEF IInv
    <3> DEFINE U == {u \in blocked : Balance(u) <= 0}
               r == [Nothing EXCEPT !.block = B, !.unblock = U]
    <3>2. \A u \in (blocked \ U) \cup B : Balance(u) > 0
      BY <2>9, <3>1 DEF HandleDefaults
    <3>3. Decide(s, "default", r)
      BY <2>9 DEF HandleDefaults
    <3>4. PICK q : q = [r EXCEPT !.op = "default"]
      OBVIOUS
    <3> HIDE DEF U
    <3>5. q.op = "default" /\ q.settles = FALSE /\ q.insert = {} /\ q.delete = {} /\ q.block = B /\ q.unblock = U
      BY <3>4 DEF Nothing
    <3>6. KnowsPaid(q)
      BY <3>2, <3>5 DEF KnowsPaid
    <3>7. Good(q)
      BY <3>3, <3>4, <3>6 DEF Decide
    <3> QED
      BY <3>7
  <2> HIDE DEF Good
  <2>10. \E q : Good(q)
    BY <2>2, <2>3, <2>4, <2>5, <2>6, <2>7, <2>8, <2>9
       DEF Begin, ConfirmAll, ConfirmTransaction, DeleteTransaction
  <2> QED
    BY <2>10 DEF Good
<1> QED
  BY <1>1, SameBooksAlone

LEMMA FlushKeepsAlone ==
  ASSUME IInv, AloneInv, NEW s \in Clerk, Flush(s)
  PROVE  AloneInv'
<1>1. PICK r : r = request[s]
  OBVIOUS
<1>2. PICK found : request' = [request EXCEPT ![s] =
        [r EXCEPT !.flushed = TRUE, !.unlink = found,
                  !.unblock = IF r.settles THEN Settled(r) ELSE @]]
  BY <1>1 DEF Flush
<1>3. PICK q : q = [r EXCEPT !.flushed = TRUE, !.unlink = found,
                             !.unblock = IF r.settles THEN Settled(r) ELSE @]
  OBVIOUS
<1>4. r # None /\ IsRequest(r) /\ UNCHANGED <<ledger, last, assigned, blocked>>
  BY <1>1 DEF Flush, IInv, TypeOK
<1>5. /\ q.op = r.op /\ q.insert = r.insert /\ q.delete = r.delete /\ q.block = r.block
      /\ q.unblock = (IF r.settles THEN Settled(r) ELSE r.unblock) /\ q.settles = r.settles
      /\ q.flushed = TRUE /\ q.alone = r.alone /\ r.settles \in BOOLEAN
  BY <1>3, <1>4 DEF IsRequest, Nothing
<1>6. Settled(q) = Settled(r)
  BY <1>5, BalancesAre
<1>7. q.alone /\ Settles(q) => KnowsPaid(q)
  <2> SUFFICES ASSUME q.alone, Settles(q) PROVE KnowsPaid(q)
    OBVIOUS
  <2>1. KnowsPaid(r) /\ Settles(r)
    BY <1>1, <1>4, <1>5 DEF AloneInv, Settles
  <2>2. CASE r.op = "default"
    BY <1>5, <2>1, <2>2 DEF KnowsPaid
  <2>3. CASE r.op # "default"
    BY <1>5, <1>6, <2>1, <2>3 DEF KnowsPaid, Settles
  <2> QED
    BY <2>2, <2>3
<1> QED
  BY <1>2, <1>3, <1>4, <1>7, SameBooksAlone

LEMMA CommitKeepsAlone ==
  ASSUME IInv, NEW s \in Clerk, Commit(s)
  PROVE  AloneInv'
<1>1. PICK r : r = request[s]
  OBVIOUS
<1>2. ASSUME NEW o \in Clerk, request'[o] # None, request'[o].alone
      PROVE  ~ Settles(request[o])'
  <2>1. PICK q : q = request[o]
    OBVIOUS
  <2>2. PICK p : p = request'[o]
    OBVIOUS
  <2>3. p.op = q.op /\ p.settles = q.settles /\ (p.alone => ~ Settles(q))
    BY <1>1, <1>2, <2>1, <2>2, GoesOn
  <2>4. ~ Settles(p)
    BY <1>2, <2>2, <2>3 DEF Settles
  <2> QED
    BY <2>2, <2>4 DEF Settles
<1> QED
  BY <1>2 DEF AloneInv

LEMMA AloneHolds == Spec => []AloneInv
<1>1. Init => AloneInv
  BY DEF Init, AloneInv
<1>2. IInv /\ AloneInv /\ [Next]_vars => AloneInv'
  <2> SUFFICES ASSUME IInv, AloneInv, [Next]_vars PROVE AloneInv'
    OBVIOUS
  <2>1. CASE \E s \in Clerk : Begin(s) \/ Flush(s) \/ Commit(s)
    BY <2>1, BeginKeepsAlone, FlushKeepsAlone, CommitKeepsAlone
  <2>2. CASE \E s \in Clerk : Abandon(s)
    <3>1. PICK s \in Clerk : Abandon(s)
      BY <2>2
    <3>2. request' = [request EXCEPT ![s] = None] /\ UNCHANGED <<ledger, last, assigned, blocked>>
      BY <3>1 DEF Abandon
    <3> QED
      BY <3>2, SameBooksAlone
  <2>3. CASE UNCHANGED vars
    <3>1. UNCHANGED <<ledger, last, assigned, blocked>> /\ request' = request
      BY <2>3 DEF vars
    <3>2. ASSUME NEW s \in Clerk
          PROVE  KnowsPaid(request[s])' <=> KnowsPaid(request[s])
      BY <3>1, SameBalances
    <3> QED
      BY <3>1, <3>2 DEF AloneInv, Settles
  <2> QED
    BY <2>1, <2>2, <2>3 DEF Next
<1> QED
  BY <1>1, <1>2, InvariantHolds, PTL DEF Spec

(* Whoever is still blocked after a request that books payments, or that   *)
(* handles defaults, owes something, whoever else was about to book: for   *)
(* all bookings, of any length (end_payment_in_default_memberships).       *)
THEOREM PaidAreUnblocked == Spec => PaidIsUnblocked
<1>1. ASSUME IInv, AloneInv, NEW s \in Clerk, Commits(s), request[s].alone, Settles(request[s]), NEW u \in blocked'
      PROVE  Balance(u)' > 0
  <2>1. PICK r : r = request[s]
    OBVIOUS
  <2>2. Commit(s) /\ r # None /\ r.flushed /\ KnowsPaid(r) /\ u \in (blocked \ r.unblock) \cup r.block
    BY <1>1, <2>1 DEF Commits, Commit, AloneInv
  <2>3. Balance(u)' = Balance(u) + BalanceOf(r.insert, u)
    BY <1>1, <2>1, <2>2, CommitAdds DEF KnowsPaid
  <2>4. Balance(u) \in Int /\ BalanceOf(r.insert, u) \in Int /\ (r.insert = {} => BalanceOf(r.insert, u) = 0)
    <3>1. Balance(u) \in Int
      BY <1>1, LivingAre DEF IInv
    <3>2. Sound(r.insert)
      BY <1>1, <2>1, <2>2 DEF IInv
    <3>3. IsFiniteSet(r.insert) /\ \A x \in r.insert : InAccount(x, u) \in Int
      BY <3>2, AmountsAreNumbers DEF Sound
    <3>4. PICK g : IsSum(g, r.insert, [x \in r.insert |-> InAccount(x, u)]) /\ BalanceOf(r.insert, u) = g[r.insert]
      BY <3>3, BalanceOfIs
    <3> QED
      BY <3>1, <3>4 DEF IsSum
  <2>5. CASE r.op = "default"
    BY <2>2, <2>3, <2>4, <2>5 DEF KnowsPaid
  <2>6. CASE r.op # "default"
    <3>1. u \in blocked /\ u \notin Settled(r)
      BY <2>2, <2>6 DEF KnowsPaid
    <3>2. ~ (Balance(u) + BalanceOf(r.insert, u) <= 0)
      BY <3>1, BalancesAre
    <3> QED
      BY <2>3, <2>4, <3>2
  <2> QED
    BY <2>5, <2>6
<1>2. IInv /\ AloneInv =>
        \A s \in Clerk : Commits(s) /\ request[s].alone /\ Settles(request[s]) =>
          \A u \in blocked' : Balance(u)' > 0
  BY <1>1
<1> QED
  BY <1>2, InvariantHolds, AloneHolds, PTL DEF PaidIsUnblocked

----------------------------------------------------------------------------
(* The digits of user ids.                                                 *)

(* A set of natural numbers has a least one.                               *)
LEMMA LeastNumber ==
  ASSUME NEW T \in SUBSET Nat, T # {}
  PROVE  \E m \in T : \A n \in T : m <= n
<1>1. PICK m \in T : \A n \in T : ~(<<n, m>> \in OpToRel(<, Nat))
  BY WFMin, NatLessThanWellFounded, Zenon
<1>2. ASSUME NEW n \in T
      PROVE  m <= n
  <2>1. n \in Nat /\ m \in Nat
    OBVIOUS
  <2>2. n < m => <<n, m>> \in OpToRel(<, Nat)
    BY <2>1, Zenon DEF OpToRel
  <2>3. ~(n < m)
    BY <2>2, <1>1, Zenon
  <2> QED
    BY <2>1, <2>3
<1> QED
  BY <1>2

(* Induction up to N, over a set.                                          *)
LEMMA UpTo ==
  ASSUME NEW N \in Nat, NEW T,
         0 \in T, \A n \in 0 .. N : n + 1 \in 0 .. N /\ n \in T => n + 1 \in T
  PROVE  0 .. N \subseteq T
<1>1. SUFFICES ASSUME (0 .. N) \ T # {}
               PROVE  FALSE
  OBVIOUS
<1>2. PICK m \in (0 .. N) \ T : \A n \in (0 .. N) \ T : m <= n
  <2>1. (0 .. N) \ T \in SUBSET Nat
    OBVIOUS
  <2> HIDE <1>1
  <2> QED
    BY <2>1, <1>1, LeastNumber, Zenon
<1>3. m # 0 /\ m - 1 \in 0 .. N /\ (m - 1) + 1 = m
  BY <1>2
<1>4. m - 1 \in T
  BY <1>2, <1>3
<1> QED
  BY <1>2, <1>3, <1>4

(* g is computed from e in N steps, and stays within D.                    *)
Computes(g, N, e, F) == g = [n \in 0 .. N |-> IF n = 0 THEN e ELSE F[n][g[n - 1]]]
Stays(g, N, D)       == \A n \in 0 .. N : g[n] \in D[n]

(* What is defined step by step exists, if every step stays in its set.    *)
LEMMA StepByStep ==
  ASSUME NEW N \in Nat, NEW D, NEW F, NEW e,
         e \in D[0],
         \A k \in 1 .. N : \A x \in D[k - 1] : F[k][x] \in D[k]
  PROVE  \E g : Computes(g, N, e, F) /\ Stays(g, N, D)
<1> DEFINE IsUpTo(g, n) == /\ g = [k \in 0 .. n |-> IF k = 0 THEN e ELSE F[k][g[k - 1]]]
                           /\ \A k \in 0 .. n : g[k] \in D[k]
           T == {n \in 0 .. N : \E g : IsUpTo(g, n)}
<1>1. 0 \in T
  <2> DEFINE g == [k \in 0 .. 0 |-> e]
  <2>1. IsUpTo(g, 0)
    OBVIOUS
  <2>2. \E f : IsUpTo(f, 0)
    BY <2>1
  <2>3. 0 \in 0 .. N
    OBVIOUS
  <2> QED
    BY <2>2, <2>3
<1>2. ASSUME NEW n \in 0 .. N, n + 1 \in 0 .. N, n \in T
      PROVE  n + 1 \in T
  <2>1. PICK g : IsUpTo(g, n)
    BY <1>2
  <2> DEFINE h == [k \in 0 .. n + 1 |-> IF k = n + 1 THEN F[n + 1][g[n]] ELSE g[k]]
  <2>2. g[n] \in D[n]
    BY <2>1
  <2>3. F[n + 1][g[n]] \in D[n + 1]
    <3>1. n + 1 \in 1 .. N /\ (n + 1) - 1 = n
      BY <1>2
    <3> QED
      BY <3>1, <2>2
  <2>4. \A k \in 0 .. n + 1 : h[k] \in D[k]
    <3>1. ASSUME NEW k \in 0 .. n
          PROVE  h[k] \in D[k]
      BY <2>1
    <3>2. h[n + 1] \in D[n + 1]
      BY <2>3
    <3> QED
      BY <3>1, <3>2
  <2>5. \A k \in 0 .. n + 1 : h[k] = IF k = 0 THEN e ELSE F[k][h[k - 1]]
    <3>1. ASSUME NEW k \in 0 .. n
          PROVE  h[k] = IF k = 0 THEN e ELSE F[k][h[k - 1]]
      <4>1. h[k] = g[k]
        OBVIOUS
      <4>2. k # 0 => k - 1 \in 0 .. n /\ h[k - 1] = g[k - 1]
        OBVIOUS
      <4>3. g[k] = IF k = 0 THEN e ELSE F[k][g[k - 1]]
        BY <2>1
      <4> QED
        BY <4>1, <4>2, <4>3
    <3>2. h[n + 1] = F[n + 1][h[(n + 1) - 1]]
      OBVIOUS
    <3> QED
      BY <3>1, <3>2, SMTT(30)
  <2>6. IsUpTo(h, n + 1)
    BY <2>4, <2>5
  <2> QED
    BY <2>6, <1>2
<1>3. N \in T
  <2> HIDE DEF T
  <2>1. 0 .. N \subseteq T
    BY <1>1, <1>2, UpTo, Zenon
  <2> QED
    BY <2>1
<1> QED
  BY <1>3 DEF Computes, Stays

(* ... and then it does stay there.                                        *)
LEMMA StepsStay ==
  ASSUME NEW N \in Nat, NEW D, NEW g,
         g[0] \in D[0],
         \A n \in 1 .. N : g[n - 1] \in D[n - 1] => g[n] \in D[n]
  PROVE  \A n \in 0 .. N : g[n] \in D[n]
<1> DEFINE T == {n \in 0 .. N : g[n] \in D[n]}
<1>1. 0 \in T
  <2>1. 0 \in 0 .. N
    OBVIOUS
  <2> QED
    BY <2>1
<1>2. \A n \in 0 .. N : n + 1 \in 0 .. N /\ n \in T => n + 1 \in T
  <2>1. ASSUME NEW n \in 0 .. N, n + 1 \in 0 .. N, n \in T
        PROVE  n + 1 \in T
    <3>1. n + 1 \in 1 .. N /\ (n + 1) - 1 = n
      BY <2>1
    <3> QED
      BY <3>1, <2>1
  <2> QED
    BY <2>1
<1>3. 0 .. N \subseteq T
  <2> HIDE DEF T
  <2> QED
    BY <1>1, <1>2, UpTo, Zenon
<1> QED
  BY <1>3

(* Numbers computed one from the other.                                    *)
LEMMA NumbersComputed ==
  ASSUME NEW N \in Nat, NEW e \in Int, NEW F, \A k \in 1 .. N : F[k] \in [Int -> Int]
  PROVE  \E g : Computes(g, N, e, F) /\ \A n \in 0 .. N : g[n] \in Int
<1> DEFINE D == [n \in 0 .. N |-> Int]
<1>1. e \in D[0]
  OBVIOUS
<1>2. ASSUME NEW k \in 1 .. N, NEW x \in D[k - 1]
      PROVE  F[k][x] \in D[k]
  <2>1. x \in Int /\ F[k] \in [Int -> Int] /\ D[k] = Int
    OBVIOUS
  <2> HIDE DEF D
  <2> QED
    BY <2>1
<1>3. \A n \in 0 .. N : D[n] = Int
  OBVIOUS
<1> HIDE DEF D
<1>4. PICK g : Computes(g, N, e, F) /\ Stays(g, N, D)
  BY <1>1, <1>2, StepByStep
<1> QED
  BY <1>3, <1>4 DEF Stays

LEMMA NumbersStay ==
  ASSUME NEW N \in Nat, NEW g, g[0] \in Int, \A n \in 1 .. N : g[n - 1] \in Int => g[n] \in Int
  PROVE  \A n \in 0 .. N : g[n] \in Int
<1> DEFINE D == [n \in 0 .. N |-> Int]
<1>1. g[0] \in D[0]
  OBVIOUS
<1>2. ASSUME NEW n \in 1 .. N, g[n - 1] \in D[n - 1]
      PROVE  g[n] \in D[n]
  <2>1. g[n - 1] \in Int
    BY <1>2
  <2>2. g[n] \in Int
    BY <2>1
  <2> QED
    BY <2>2
<1>3. \A n \in 0 .. N : D[n] = Int
  OBVIOUS
<1> HIDE DEF D
<1>4. \A n \in 0 .. N : g[n] \in D[n]
  BY <1>1, <1>2, StepsStay
<1> QED
  BY <1>3, <1>4

(* How int() reads the digits of a number, and how they are summed up.     *)
Reads(g, ds) ==
  /\ \A i \in 0 .. Len(ds) : g[i] \in Int
  /\ g[0] = 0 /\ \A i \in 1 .. Len(ds) : g[i] = 10 * g[i - 1] + ds[i]
SumsUp(g, ds) ==
  /\ \A i \in 0 .. Len(ds) : g[i] \in Int
  /\ g[0] = 0 /\ \A i \in 1 .. Len(ds) : g[i] = g[i - 1] + ds[i]

LEMMA NumberIs ==
  ASSUME NEW ds \in Seq(Int)
  PROVE  \E g : Reads(g, ds) /\ Number(ds) = g[Len(ds)]
<1> DEFINE N == Len(ds)
           F == [k \in 1 .. N |-> [x \in Int |-> 10 * x + ds[k]]]
           IsIt(g) == g = [i \in 0 .. N |-> IF i = 0 THEN 0 ELSE 10 * g[i - 1] + ds[i]]
           j == CHOOSE g : IsIt(g)
<1>1. N \in Nat /\ \A k \in 1 .. N : ds[k] \in Int
  OBVIOUS
<1>2. PICK g : Computes(g, N, 0, F) /\ \A n \in 0 .. N : g[n] \in Int
  <2>0. 0 \in Int
    OBVIOUS
  <2>1. \A k \in 1 .. N : F[k] \in [Int -> Int]
    BY <1>1
  <2> HIDE DEF F, N
  <2> QED
    BY <1>1, <2>1, <2>0, NumbersComputed, Zenon
<1>3. IsIt(g)
  <2>1. ASSUME NEW n \in 0 .. N
        PROVE  (IF n = 0 THEN 0 ELSE F[n][g[n - 1]]) = (IF n = 0 THEN 0 ELSE 10 * g[n - 1] + ds[n])
    <3>1. n # 0 => n \in 1 .. N /\ n - 1 \in 0 .. N
      BY <1>1
    <3> QED
      BY <3>1, <1>2
  <2> HIDE DEF F, N
  <2> QED
    BY <1>2, <2>1 DEF Computes
<1>4. IsIt(j)
  BY <1>3
<1>5. Number(ds) = j[N]
  BY DEF Number
<1> HIDE DEF j, F
<1>6. j[0] = 0 /\ \A i \in 1 .. N : j[i] = 10 * j[i - 1] + ds[i]
  BY <1>1, <1>4
<1>7. \A n \in 0 .. N : j[n] \in Int
  <2>1. \A n \in 1 .. N : j[n - 1] \in Int => j[n] \in Int
    BY <1>1, <1>6
  <2>2. j[0] \in Int
    BY <1>6
  <2> HIDE DEF N
  <2> QED
    BY <1>1, <2>1, <2>2, NumbersStay
<1> QED
  BY <1>5, <1>6, <1>7 DEF Reads

LEMMA DigitSumIs ==
  ASSUME NEW ds \in Seq(Int)
  PROVE  \E g : SumsUp(g, ds) /\ DigitSum(ds) = g[Len(ds)]
<1> DEFINE N == Len(ds)
           F == [k \in 1 .. N |-> [x \in Int |-> x + ds[k]]]
           IsIt(g) == g = [i \in 0 .. N |-> IF i = 0 THEN 0 ELSE g[i - 1] + ds[i]]
           j == CHOOSE g : IsIt(g)
<1>1. N \in Nat /\ \A k \in 1 .. N : ds[k] \in Int
  OBVIOUS
<1>2. PICK g : Computes(g, N, 0, F) /\ \A n \in 0 .. N : g[n] \in Int
  <2>0. 0 \in Int
    OBVIOUS
  <2>1. \A k \in 1 .. N : F[k] \in [Int -> Int]
    BY <1>1
  <2> HIDE DEF F, N
  <2> QED
    BY <1>1, <2>1, <2>0, NumbersComputed, Zenon
<1>3. IsIt(g)
  <2>1. ASSUME NEW n \in 0 .. N
        PROVE  (IF n = 0 THEN 0 ELSE F[n][g[n - 1]]) = (IF n = 0 THEN 0 ELSE g[n - 1] + ds[n])
    <3>1. n # 0 => n \in 1 .. N /\ n - 1 \in 0 .. N
      BY <1>1
    <3> QED
      BY <3>1, <1>2
  <2> HIDE DEF F, N
  <2> QED
    BY <1>2, <2>1 DEF Computes
<1>4. IsIt(j)
  BY <1>3
<1>5. DigitSum(ds) = j[N]
  BY DEF DigitSum
<1> HIDE DEF j, F
<1>6. j[0] = 0 /\ \A i \in 1 .. N : j[i] = j[i - 1] + ds[i]
  BY <1>1, <1>4
<1>7. \A n \in 0 .. N : j[n] \in Int
  <2>1. \A n \in 1 .. N : j[n - 1] \in Int => j[n] \in Int
    BY <1>1, <1>6
  <2>2. j[0] \in Int
    BY <1>6
  <2> HIDE DEF N
  <2> QED
    BY <1>1, <2>1, <2>2, NumbersStay
<1> QED
  BY <1>5, <1>6, <1>7 DEF SumsUp

(* What is left of a number that loses its last digit again and again.     *)
Divides(g, n, k) ==
  /\ \A i \in 0 .. k : g[i] \in Int
  /\ g[0] = n /\ \A i \in 1 .. k : g[i] = g[i - 1] \div 10

LEMMA WithoutLastIs ==
  ASSUME NEW n \in Nat, NEW k \in Nat
  PROVE  \E g : Divides(g, n, k) /\ WithoutLast(n, k) = g[k]
<1> DEFINE F == [m \in 1 .. k |-> [x \in Int |-> x \div 10]]
           IsIt(g) == g = [i \in 0 .. k |-> IF i = 0 THEN n ELSE g[i - 1] \div 10]
           j == CHOOSE g : IsIt(g)
<1>2. PICK g : Computes(g, k, n, F) /\ \A i \in 0 .. k : g[i] \in Int
  <2>0. n \in Int
    OBVIOUS
  <2>1. \A m \in 1 .. k : F[m] \in [Int -> Int]
    OBVIOUS
  <2> HIDE DEF F
  <2> QED
    BY <2>1, <2>0, NumbersComputed, Zenon
<1>3. IsIt(g)
  <2>1. ASSUME NEW i \in 0 .. k
        PROVE  (IF i = 0 THEN n ELSE F[i][g[i - 1]]) = (IF i = 0 THEN n ELSE g[i - 1] \div 10)
    <3>1. i # 0 => i \in 1 .. k /\ i - 1 \in 0 .. k
      OBVIOUS
    <3> QED
      BY <3>1, <1>2
  <2> HIDE DEF F
  <2> QED
    BY <1>2, <2>1 DEF Computes
<1>4. IsIt(j)
  BY <1>3
<1>5. WithoutLast(n, k) = j[k]
  BY DEF WithoutLast
<1> HIDE DEF j, F
<1>6. j[0] = n /\ \A i \in 1 .. k : j[i] = j[i - 1] \div 10
  BY <1>4
<1>7. \A i \in 0 .. k : j[i] \in Int
  <2>1. \A i \in 1 .. k : j[i - 1] \in Int => j[i] \in Int
    BY <1>6
  <2> QED
    BY <1>6, <2>1, NumbersStay
<1> QED
  BY <1>5, <1>6, <1>7 DEF Divides

(* Induction on what is left: one digit less each time, none in the end.   *)
LEMMA DividesAlike ==
  ASSUME NEW n \in Nat, NEW k \in Nat, NEW g, Divides(g, n, k), NEW m \in Nat, NEW h, Divides(h, n, m)
  PROVE  \A i \in 0 .. k : i <= m => g[i] = h[i]
<1> DEFINE T == {i \in 0 .. k : i <= m => g[i] = h[i]}
<1>1. 0 \in T
  BY DEF Divides
<1>2. ASSUME NEW i \in 0 .. k, i + 1 \in 0 .. k, i \in T
      PROVE  i + 1 \in T
  <2> SUFFICES ASSUME i + 1 <= m
               PROVE  g[i + 1] = h[i + 1]
    BY <1>2
  <2>1. i + 1 \in 1 .. k /\ i + 1 \in 1 .. m /\ (i + 1) - 1 = i /\ g[i] = h[i]
    BY <1>2
  <2>2. g[i + 1] = g[(i + 1) - 1] \div 10 /\ h[i + 1] = h[(i + 1) - 1] \div 10
    BY <2>1 DEF Divides
  <2> QED
    BY <2>1, <2>2
<1> HIDE DEF T
<1>3. 0 .. k \subseteq T
  BY <1>1, <1>2, UpTo
<1> QED
  BY <1>3 DEF T

LEMMA OneDigitLess ==
  ASSUME NEW n \in Nat, NEW k \in Nat
  PROVE  /\ WithoutLast(n, 0) = n
         /\ WithoutLast(n, k) \in Nat
         /\ WithoutLast(n, k + 1) = WithoutLast(n, k) \div 10
<1>1. PICK g : Divides(g, n, k) /\ WithoutLast(n, k) = g[k]
  BY WithoutLastIs
<1>2. PICK h : Divides(h, n, k + 1) /\ WithoutLast(n, k + 1) = h[k + 1]
  BY WithoutLastIs
<1>3. PICK f : Divides(f, n, 0) /\ WithoutLast(n, 0) = f[0]
  BY WithoutLastIs
<1>4. g[k] = h[k]
  BY <1>1, <1>2, DividesAlike
<1>5. h[k + 1] = h[k] \div 10
  <2>1. k + 1 \in 1 .. k + 1 /\ (k + 1) - 1 = k
    OBVIOUS
  <2>2. h[k + 1] = h[(k + 1) - 1] \div 10
    BY <1>2, <2>1 DEF Divides
  <2> QED
    BY <2>1, <2>2
<1>6. g[k] \in Nat
  <2> DEFINE T == {i \in 0 .. k : g[i] \in Nat}
  <2>1. 0 \in T
    BY <1>1 DEF Divides
  <2>2. ASSUME NEW i \in 0 .. k, i + 1 \in 0 .. k, i \in T
        PROVE  i + 1 \in T
    <3>1. i + 1 \in 1 .. k /\ (i + 1) - 1 = i /\ g[i] \in Nat
      BY <2>2
    <3>2. g[i + 1] = g[(i + 1) - 1] \div 10
      BY <1>1, <3>1 DEF Divides
    <3>3. g[i + 1] \in Nat
      BY <3>1, <3>2
    <3> QED
      BY <2>2, <3>3
  <2> HIDE DEF T
  <2>3. 0 .. k \subseteq T
    BY <2>1, <2>2, UpTo
  <2> QED
    BY <2>3 DEF T
<1> QED
  BY <1>1, <1>2, <1>3, <1>4, <1>5, <1>6 DEF Divides

LEMMA DigitsRunOut ==
  ASSUME NEW n \in Nat, NEW k \in Nat
  PROVE  /\ WithoutLast(n, k) = 0 \/ WithoutLast(n, k) + k <= n
         /\ \A m \in 0 .. k : WithoutLast(n, m) = 0 => WithoutLast(n, k) = 0
<1> DEFINE T == {i \in 0 .. k : /\ WithoutLast(n, i) = 0 \/ WithoutLast(n, i) + i <= n
                                /\ \A m \in 0 .. i : WithoutLast(n, m) = 0 => WithoutLast(n, i) = 0}
<1>1. 0 \in T
  <2>1. WithoutLast(n, 0) = n /\ n + 0 <= n
    BY OneDigitLess
  <2>2. \A m \in 0 .. 0 : m = 0
    OBVIOUS
  <2> QED
    BY <2>1, <2>2
<1>2. ASSUME NEW i \in 0 .. k, i + 1 \in 0 .. k, i \in T
      PROVE  i + 1 \in T
  <2>1. /\ WithoutLast(n, i) \in Nat /\ WithoutLast(n, i + 1) = WithoutLast(n, i) \div 10
        /\ WithoutLast(n, i + 1) \in Nat
    <3>1. i \in Nat /\ i + 1 \in Nat
      OBVIOUS
    <3> HIDE DEF T
    <3> QED
      BY <3>1, OneDigitLess
  <2>2. /\ WithoutLast(n, i) = 0 \/ WithoutLast(n, i) + i <= n
        /\ \A m \in 0 .. i : WithoutLast(n, m) = 0 => WithoutLast(n, i) = 0
    BY <1>2
  <2>3. \A x \in Nat : x \div 10 = 0 \/ (x \div 10) + 1 <= x
    OBVIOUS
  <2>4. 0 \div 10 = 0
    OBVIOUS
  <2>5. WithoutLast(n, i + 1) = 0 \/ WithoutLast(n, i + 1) + (i + 1) <= n
    <3>1. WithoutLast(n, i + 1) = 0 \/ WithoutLast(n, i + 1) + 1 <= WithoutLast(n, i)
      BY <2>1, <2>3
    <3> QED
      BY <3>1, <2>1, <2>2, <2>4
  <2>6. ASSUME NEW m \in 0 .. i + 1, WithoutLast(n, m) = 0
        PROVE  WithoutLast(n, i + 1) = 0
    <3>1. m = i + 1 \/ m \in 0 .. i
      OBVIOUS
    <3> QED
      BY <3>1, <2>1, <2>2, <2>4, <2>6
  <2> QED
    BY <1>2, <2>5, <2>6
<1> HIDE DEF T
<1>3. 0 .. k \subseteq T
  BY <1>1, <1>2, UpTo
<1> QED
  BY <1>3 DEF T

LEMMA FourDigits ==
  ASSUME NEW n \in Nat, n < 10000
  PROVE  WithoutLast(n, 4) = 0
<1>1. /\ WithoutLast(n, 0) = n
      /\ \A k \in Nat : WithoutLast(n, k) \in Nat
      /\ \A k \in Nat : WithoutLast(n, k + 1) = WithoutLast(n, k) \div 10
  <2>1. ASSUME NEW k \in Nat
        PROVE  /\ WithoutLast(n, 0) = n /\ WithoutLast(n, k) \in Nat
               /\ WithoutLast(n, k + 1) = WithoutLast(n, k) \div 10
    BY OneDigitLess
  <2> QED
    BY <2>1
<1>2. /\ WithoutLast(n, 1) = WithoutLast(n, 0) \div 10
      /\ WithoutLast(n, 2) = WithoutLast(n, 1) \div 10
      /\ WithoutLast(n, 3) = WithoutLast(n, 2) \div 10
      /\ WithoutLast(n, 4) = WithoutLast(n, 3) \div 10
  <2>1. /\ WithoutLast(n, 0 + 1) = WithoutLast(n, 0) \div 10
        /\ WithoutLast(n, 1 + 1) = WithoutLast(n, 1) \div 10
        /\ WithoutLast(n, 2 + 1) = WithoutLast(n, 2) \div 10
        /\ WithoutLast(n, 3 + 1) = WithoutLast(n, 3) \div 10
    BY <1>1
  <2> QED
    BY <2>1
<1>3. WithoutLast(n, 1) < 1000
  BY <1>1, <1>2
<1>4. WithoutLast(n, 2) < 100
  BY <1>1, <1>2, <1>3
<1>5. WithoutLast(n, 3) < 10
  BY <1>1, <1>2, <1>4
<1>6. \A x \in Nat : x < 10 => x \div 10 = 0
  OBVIOUS
<1>7. WithoutLast(n, 3) \in Nat
  BY <1>1
<1> QED
  BY <1>2, <1>5, <1>6, <1>7

LEMMA WidthIs ==
  ASSUME NEW n \in Nat
  PROVE  /\ Width(n) \in Nat /\ 4 <= Width(n)
         /\ WithoutLast(n, Width(n)) = 0
         /\ n < 10000 => Width(n) = 4
<1> DEFINE Fits(w) == WithoutLast(n, w) = 0 /\ (w = 4 \/ WithoutLast(n, w - 1) # 0)
           T == {w \in 4 .. n + 4 : WithoutLast(n, w) = 0}
<1>1. n + 4 \in T
  <2>1. /\ WithoutLast(n, n + 4) = 0 \/ WithoutLast(n, n + 4) + (n + 4) <= n
        /\ WithoutLast(n, n + 4) \in Nat
    BY DigitsRunOut, OneDigitLess
  <2> QED
    BY <2>1
<1>2. PICK m \in T : \A w \in T : m <= w
  <2>1. T \in SUBSET Nat /\ T # {}
    BY <1>1
  <2> HIDE DEF T
  <2> QED
    BY <2>1, LeastNumber
<1>3. m \in 4 .. n + 4 /\ Fits(m)
  <2>1. m - 1 \notin T
    BY <1>2
  <2> QED
    BY <2>1, <1>2
<1>4. Width(n) = CHOOSE w \in 4 .. n + 4 : Fits(w)
  BY DEF Width
<1>5. Width(n) \in 4 .. n + 4 /\ Fits(Width(n))
  BY <1>3, <1>4
<1>6. n < 10000 => Width(n) = 4
  <2> SUFFICES ASSUME n < 10000
               PROVE  Width(n) = 4
    OBVIOUS
  <2>1. WithoutLast(n, 4) = 0
    BY FourDigits
  <2>2. ASSUME Width(n) # 4
        PROVE  FALSE
    <3>1. Width(n) - 1 \in Nat /\ 4 \in 0 .. Width(n) - 1 /\ WithoutLast(n, Width(n) - 1) # 0
      BY <2>2, <1>5
    <3> QED
      BY <3>1, <2>1, DigitsRunOut
  <2> QED
    BY <2>2
<1> QED
  BY <1>5, <1>6

Digit == 0 .. 9

LEMMA DigitsAre ==
  ASSUME NEW n \in Nat, NEW w \in Nat
  PROVE  /\ digits(n, w) \in Seq(Digit) /\ digits(n, w) \in Seq(Int) /\ Len(digits(n, w)) = w
         /\ \A i \in 1 .. w : digits(n, w)[i] = WithoutLast(n, w - i) % 10
<1>1. \A i \in 1 .. w : WithoutLast(n, w - i) % 10 \in Digit
  <2> TAKE i \in 1 .. w
  <2>1. w - i \in Nat
    OBVIOUS
  <2>2. WithoutLast(n, w - i) \in Nat
    BY <2>1, OneDigitLess
  <2> QED
    BY <2>2 DEF Digit
<1>2. digits(n, w) \in Seq(Digit)
  BY <1>1 DEF digits
<1>3. Digit \subseteq Int
  BY DEF Digit
<1>4. Len(digits(n, w)) = w
  <2>1. DOMAIN digits(n, w) = 1 .. w
    BY DEF digits
  <2> QED
    BY <2>1, <1>2
<1>5. digits(n, w) \in Seq(Int)
  <2>1. \A i \in 1 .. w : WithoutLast(n, w - i) % 10 \in Int
    BY <1>1, <1>3
  <2> QED
    BY <2>1 DEF digits
<1>6. \A i \in 1 .. w : digits(n, w)[i] = WithoutLast(n, w - i) % 10
  BY DEF digits
<1> QED
  BY <1>2, <1>4, <1>5, <1>6

(* Read back, enough digits make the number.                               *)
LEMMA ReadBack ==
  ASSUME NEW n \in Nat, NEW w \in Nat, WithoutLast(n, w) = 0
  PROVE  Number(digits(n, w)) = n
<1> DEFINE ds == digits(n, w)
<1>1. /\ ds \in Seq(Int) /\ Len(ds) = w
      /\ \A i \in 1 .. w : ds[i] = WithoutLast(n, w - i) % 10
  BY DigitsAre
<1>2. PICK g : Reads(g, ds) /\ Number(ds) = g[w]
  BY <1>1, NumberIs
<1> HIDE DEF ds
<1> DEFINE R == {i \in 0 .. w : g[i] = WithoutLast(n, w - i)}
<1>3. 0 \in R
  BY <1>2 DEF Reads
<1>4. ASSUME NEW i \in 0 .. w, i + 1 \in 0 .. w, i \in R
      PROVE  i + 1 \in R
  <2>1. /\ i + 1 \in 1 .. w /\ (i + 1) - 1 = i
        /\ w - (i + 1) \in Nat /\ (w - (i + 1)) + 1 = w - i
    BY <1>4
  <2>2. g[i + 1] = 10 * g[i] + ds[i + 1] /\ ds[i + 1] = WithoutLast(n, w - (i + 1)) % 10
    BY <1>1, <1>2, <2>1 DEF Reads
  <2>3. g[i] = WithoutLast(n, w - i)
    BY <1>4
  <2> DEFINE x == WithoutLast(n, w - (i + 1))
  <2>4. x \in Nat /\ WithoutLast(n, w - i) = x \div 10
    <3> DEFINE k == w - (i + 1)
    <3>1. k \in Nat /\ k + 1 = w - i
      BY <2>1
    <3> HIDE DEF k
    <3>2. WithoutLast(n, k) \in Nat /\ WithoutLast(n, k + 1) = WithoutLast(n, k) \div 10
      BY <3>1, OneDigitLess
    <3> QED
      BY <3>1, <3>2 DEF k
  <2> HIDE DEF x
  <2>5. 10 * (x \div 10) + (x % 10) = x
    BY <2>4
  <2>6. g[i + 1] = x
    BY <2>2, <2>3, <2>4, <2>5 DEF x
  <2> QED
    BY <1>4, <2>6 DEF x
<1> HIDE DEF R
<1>5. 0 .. w \subseteq R
  BY <1>3, <1>4, UpTo
<1>6. g[w] = WithoutLast(n, w - w) /\ w - w = 0
  BY <1>5 DEF R
<1> QED
  BY <1>2, <1>6, OneDigitLess DEF ds

LEMMA TimesTen ==
  ASSUME NEW x \in Int, x % 97 # 0
  PROVE  (10 * x) % 97 # 0
OBVIOUS

LEMMA DifferentDigits ==
  ASSUME NEW x \in Int, NEW y \in Int, x # y, 0 <= x, x <= 9, 0 <= y, y <= 9
  PROVE  x - y \in -9 .. 9 /\ x - y # 0
OBVIOUS

(* Two readings that agree, and two that once have differed.               *)
LEMMA ReadsAlike ==
  ASSUME NEW ds \in Seq(Int), NEW es \in Seq(Int), Len(ds) = Len(es),
         NEW g, Reads(g, ds), NEW h, Reads(h, es),
         NEW k \in 0 .. Len(ds), \A i \in 1 .. k : ds[i] = es[i]
  PROVE  g[k] = h[k]
<1> DEFINE N == Len(ds)
           T == {i \in 0 .. k : g[i] = h[i]}
<1>1. N \in Nat /\ k \in Nat
  OBVIOUS
<1>2. 0 \in T
  BY <1>1 DEF Reads
<1>3. ASSUME NEW i \in 0 .. k, i + 1 \in 0 .. k, i \in T
      PROVE  i + 1 \in T
  <2>1. i + 1 \in 1 .. k /\ i + 1 \in 1 .. N /\ (i + 1) - 1 = i /\ g[i] = h[i]
    BY <1>1, <1>3
  <2>2. g[i + 1] = 10 * g[(i + 1) - 1] + ds[i + 1] /\ h[i + 1] = 10 * h[(i + 1) - 1] + es[i + 1]
    BY <2>1 DEF Reads
  <2> QED
    BY <1>3, <2>1, <2>2
<1> HIDE DEF T
<1>4. 0 .. k \subseteq T
  BY <1>1, <1>2, <1>3, UpTo
<1> QED
  BY <1>1, <1>4 DEF T

LEMMA ReadsApart ==
  ASSUME NEW ds \in Seq(Int), NEW es \in Seq(Int), Len(ds) = Len(es),
         NEW g, Reads(g, ds), NEW h, Reads(h, es),
         NEW k \in 0 .. Len(ds), (g[k] - h[k]) % 97 # 0, \A i \in k + 1 .. Len(ds) : ds[i] = es[i]
  PROVE  (g[Len(ds)] - h[Len(ds)]) % 97 # 0
<1> DEFINE N == Len(ds)
           M == N - k
           T == {i \in 0 .. M : (g[k + i] - h[k + i]) % 97 # 0}
<1>1. N \in Nat /\ k \in Nat /\ M \in Nat /\ k + M = N
  OBVIOUS
<1>2. 0 \in T
  BY <1>1
<1>3. ASSUME NEW i \in 0 .. M, i + 1 \in 0 .. M, i \in T
      PROVE  i + 1 \in T
  <2> DEFINE j == k + i
  <2>1. j + 1 \in 1 .. N /\ j + 1 \in k + 1 .. N /\ (j + 1) - 1 = j /\ k + (i + 1) = j + 1 /\ j \in 0 .. N
    BY <1>1, <1>3
  <2>2. (g[j] - h[j]) % 97 # 0
    BY <1>3
  <2> HIDE DEF T, j, N
  <2>3. g[j + 1] = 10 * g[(j + 1) - 1] + ds[j + 1] /\ h[j + 1] = 10 * h[(j + 1) - 1] + es[j + 1]
    BY <2>1 DEF Reads, N
  <2>4. ds[j + 1] = es[j + 1] /\ ds[j + 1] \in Int /\ g[j] \in Int /\ h[j] \in Int
    BY <2>1 DEF N, Reads
  <2>5. g[j + 1] - h[j + 1] = 10 * (g[j] - h[j])
    BY <2>1, <2>3, <2>4, SMTT(30)
  <2>6. (g[j + 1] - h[j + 1]) % 97 # 0
    <3> DEFINE x == g[j] - h[j]
    <3>1. x \in Int /\ x % 97 # 0
      BY <2>2, <2>4
    <3> HIDE DEF x
    <3>2. (10 * x) % 97 # 0
      BY <3>1, TimesTen
    <3> QED
      BY <2>5, <3>2 DEF x
  <2> QED
    BY <1>3, <2>1, <2>6 DEF T
<1> HIDE DEF T, M
<1>4. 0 .. M \subseteq T
  BY <1>1, <1>2, <1>3, UpTo
<1>5. M \in T
  BY <1>1, <1>4
<1> QED
  BY <1>1, <1>5 DEF T

LEMMA SeqOfMore ==
  ASSUME NEW S, NEW T, S \subseteq T
  PROVE  Seq(S) \subseteq Seq(T)
OBVIOUS

LEMMA DigitsAreNumbers ==
  ASSUME NEW ds \in Seq(Digit)
  PROVE  /\ ds \in Seq(Int) /\ Len(ds) \in Nat
         /\ \A i \in 1 .. Len(ds) : ds[i] \in Digit /\ ds[i] \in Int /\ 0 <= ds[i] /\ ds[i] <= 9
<1>1. Digit \subseteq Int /\ \A x \in Digit : x \in Int /\ 0 <= x /\ x <= 9
  BY DEF Digit
<1>2. Seq(Digit) \subseteq Seq(Int)
  BY <1>1, SeqOfMore
<1>3. Len(ds) \in Nat /\ \A i \in 1 .. Len(ds) : ds[i] \in Digit
  OBVIOUS
<1> QED
  BY <1>1, <1>2, <1>3

(* One digit wrong: the number read is another one modulo 97, the sum of   *)
(* the digits another one modulo 10.                                       *)
LEMMA OneWrong ==
  ASSUME NEW ds \in Seq(Digit), NEW es \in Seq(Digit), Len(ds) = Len(es),
         NEW k \in 1 .. Len(ds), ds[k] # es[k], \A i \in 1 .. Len(ds) : i # k => ds[i] = es[i]
  PROVE  /\ (Number(ds) - Number(es)) % 97 # 0
         /\ DigitSum(ds) % 10 # DigitSum(es) % 10
<1> DEFINE N == Len(ds)
<1>1. /\ N \in Nat /\ ds \in Seq(Int) /\ es \in Seq(Int) /\ Len(es) = N
      /\ \A i \in 1 .. N : /\ ds[i] \in Int /\ 0 <= ds[i] /\ ds[i] <= 9
                          /\ es[i] \in Int /\ 0 <= es[i] /\ es[i] <= 9
  BY DigitsAreNumbers
<1>2. /\ k \in 1 .. N /\ k - 1 \in 0 .. N /\ k \in 0 .. N
      /\ \A i \in 1 .. k - 1 : ds[i] = es[i]
      /\ \A i \in k + 1 .. N : ds[i] = es[i]
  BY <1>1
<1> DEFINE d == ds[k] - es[k]
<1>3. d \in -9 .. 9 /\ d # 0
  <2>1. /\ ds[k] \in Int /\ 0 <= ds[k] /\ ds[k] <= 9
        /\ es[k] \in Int /\ 0 <= es[k] /\ es[k] <= 9
    BY <1>1, <1>2
  <2> QED
    BY <2>1, DifferentDigits
<1>4. (Number(ds) - Number(es)) % 97 # 0
  <2>1. PICK g : Reads(g, ds) /\ Number(ds) = g[N]
    BY <1>1, NumberIs
  <2>2. PICK h : Reads(h, es) /\ Number(es) = h[N]
    BY <1>1, NumberIs
  <2>3. g[k - 1] = h[k - 1] /\ g[k - 1] \in Int
    <3> DEFINE l == k - 1
    <3>1. l \in 0 .. Len(ds) /\ \A i \in 1 .. l : ds[i] = es[i]
      BY <1>2
    <3> HIDE DEF l
    <3>2. g[l] = h[l]
      BY <1>1, <2>1, <2>2, <3>1, ReadsAlike
    <3>3. g[l] \in Int
      BY <2>1, <3>1 DEF Reads
    <3> QED
      BY <3>2, <3>3 DEF l
  <2>4. g[k] = 10 * g[k - 1] + ds[k] /\ h[k] = 10 * h[k - 1] + es[k]
    BY <1>1, <1>2, <2>1, <2>2 DEF Reads
  <2>5. g[k] - h[k] = d
    BY <2>3, <2>4, <1>1, <1>2
  <2>6. (g[k] - h[k]) % 97 # 0
    <3> HIDE DEF d
    <3>1. \A x \in -9 .. 9 : x # 0 => x % 97 # 0
      OBVIOUS
    <3> QED
      BY <1>3, <2>5, <3>1
  <2>7. (g[N] - h[N]) % 97 # 0
    <3>1. k \in 0 .. Len(ds) /\ \A i \in k + 1 .. Len(ds) : ds[i] = es[i]
      BY <1>2
    <3> QED
      BY <1>1, <2>1, <2>2, <2>6, <3>1, ReadsApart
  <2> QED
    BY <2>1, <2>2, <2>7
<1>5. DigitSum(ds) % 10 # DigitSum(es) % 10
  <2>1. PICK g : SumsUp(g, ds) /\ DigitSum(ds) = g[N]
    BY <1>1, DigitSumIs
  <2>2. PICK h : SumsUp(h, es) /\ DigitSum(es) = h[N]
    BY <1>1, DigitSumIs
  <2> DEFINE T == {i \in 0 .. N : g[i] - h[i] = IF i < k THEN 0 ELSE d}
  <2>3. 0 \in T
    BY <1>1, <1>2, <2>1, <2>2 DEF SumsUp
  <2>4. ASSUME NEW i \in 0 .. N, i + 1 \in 0 .. N, i \in T
        PROVE  i + 1 \in T
    <3>1. i + 1 \in 1 .. N /\ (i + 1) - 1 = i
      BY <1>1, <2>4
    <3>2. /\ g[i + 1] = g[i] + ds[i + 1] /\ h[i + 1] = h[i] + es[i + 1]
          /\ g[i] \in Int /\ h[i] \in Int /\ ds[i + 1] \in Int /\ es[i + 1] \in Int
      BY <1>1, <2>1, <2>2, <3>1 DEF SumsUp
    <3>3. g[i] - h[i] = IF i < k THEN 0 ELSE d
      BY <2>4
    <3>4. i + 1 # k => ds[i + 1] = es[i + 1]
      BY <3>1
    <3>5. g[i + 1] - h[i + 1] = IF i + 1 < k THEN 0 ELSE d
      <4>1. CASE i + 1 = k
        BY <4>1, <3>2, <3>3, <1>3
      <4>2. CASE i + 1 # k
        <5>1. i < k <=> i + 1 < k
          BY <4>2, <1>2
        <5> QED
          BY <4>2, <3>2, <3>3, <3>4, <5>1, <1>3
      <4> QED
        BY <4>1, <4>2
    <3> QED
      BY <2>4, <3>5
  <2> HIDE DEF T, N
  <2>5. 0 .. N \subseteq T
    BY <1>1, <2>3, <2>4, UpTo
  <2>6. N \in T
    BY <1>1, <2>5
  <2>7. g[N] - h[N] = d
    BY <1>2, <2>6 DEF T
  <2>8. g[N] \in Int /\ h[N] \in Int
    BY <1>1, <2>1, <2>2 DEF SumsUp, N
  <2>9. \A x, y \in Int : x - y \in -9 .. 9 /\ x - y # 0 => x % 10 # y % 10
    OBVIOUS
  <2> HIDE DEF d
  <2> QED
    BY <1>3, <2>1, <2>2, <2>7, <2>8, <2>9
<1> QED
  BY <1>4, <1>5

(* Two neighbours swapped.                                                 *)
LEMMA TwoSwapped ==
  ASSUME NEW ds \in Seq(Digit), NEW es \in Seq(Digit), Len(ds) = Len(es),
         NEW k \in 1 .. Len(ds) - 1, ds[k] # es[k], es[k] = ds[k + 1], es[k + 1] = ds[k],
         \A i \in 1 .. Len(ds) : i \notin {k, k + 1} => ds[i] = es[i]
  PROVE  (Number(ds) - Number(es)) % 97 # 0
<1> DEFINE N == Len(ds)
<1>1. /\ N \in Nat /\ ds \in Seq(Int) /\ es \in Seq(Int) /\ Len(es) = N
      /\ \A i \in 1 .. N : /\ ds[i] \in Int /\ 0 <= ds[i] /\ ds[i] <= 9
                          /\ es[i] \in Int /\ 0 <= es[i] /\ es[i] <= 9
  BY DigitsAreNumbers
<1>2. /\ k \in 1 .. N /\ k - 1 \in 0 .. N /\ k + 1 \in 1 .. N /\ k + 1 \in 0 .. N /\ (k + 1) - 1 = k
      /\ \A i \in 1 .. k - 1 : ds[i] = es[i]
      /\ \A i \in (k + 1) + 1 .. N : ds[i] = es[i]
  BY <1>1
<1>3. PICK g : Reads(g, ds) /\ Number(ds) = g[N]
  BY <1>1, NumberIs
<1>4. PICK h : Reads(h, es) /\ Number(es) = h[N]
  BY <1>1, NumberIs
<1> DEFINE l == k - 1
           m == k + 1
           x == ds[k]
           y == es[k]
<1>5. /\ l \in 0 .. N /\ m \in 0 .. N /\ l + 1 = k /\ m - 1 = k /\ k \in 1 .. N /\ m \in 1 .. N
      /\ \A i \in 1 .. l : ds[i] = es[i]
      /\ \A i \in m + 1 .. N : ds[i] = es[i]
      /\ x \in Int /\ 0 <= x /\ x <= 9 /\ y \in Int /\ 0 <= y /\ y <= 9 /\ x # y
      /\ ds[m] = y /\ es[m] = x
  BY <1>1, <1>2
<1>6. /\ g[k] = 10 * g[l] + x /\ h[k] = 10 * h[l] + y
      /\ g[m] = 10 * g[k] + y /\ h[m] = 10 * h[k] + x
      /\ g[l] \in Int /\ h[l] \in Int
  BY <1>1, <1>2, <1>3, <1>4, <1>5 DEF Reads
<1> HIDE DEF l, m, x, y
<1>7. g[l] = h[l]
  BY <1>1, <1>3, <1>4, <1>5, ReadsAlike, SMTT(30)
<1>8. g[m] - h[m] = 9 * (x - y)
  BY <1>5, <1>6, <1>7
<1>9. (g[m] - h[m]) % 97 # 0
  <2>1. \A d \in -9 .. 9 : d # 0 => (9 * d) % 97 # 0
    OBVIOUS
  <2>2. x - y \in -9 .. 9 /\ x - y # 0
    BY <1>5
  <2> QED
    BY <1>8, <2>1, <2>2
<1> QED
  BY <1>1, <1>3, <1>4, <1>5, <1>9, ReadsApart, SMTT(30)

(* The last digit replaced.                                                *)
LEMMA LastReplaced ==
  ASSUME NEW ds \in Seq(Digit), NEW es \in Seq(Digit), Len(ds) = Len(es), Len(ds) # 0,
         \A i \in 1 .. Len(ds) - 1 : ds[i] = es[i]
  PROVE  Number(ds) - Number(es) = ds[Len(ds)] - es[Len(ds)]
<1> DEFINE N == Len(ds)
<1>1. /\ N \in Nat \ {0} /\ ds \in Seq(Int) /\ es \in Seq(Int) /\ Len(es) = N
      /\ \A i \in 1 .. N : ds[i] \in Int /\ es[i] \in Int
  BY DigitsAreNumbers
<1>2. N \in 1 .. N /\ N - 1 \in 0 .. N
  BY <1>1
<1>3. PICK g : Reads(g, ds) /\ Number(ds) = g[N]
  BY <1>1, NumberIs
<1>4. PICK h : Reads(h, es) /\ Number(es) = h[N]
  BY <1>1, NumberIs
<1> DEFINE l == N - 1
<1>5. /\ l \in 0 .. N /\ \A i \in 1 .. l : ds[i] = es[i]
  BY <1>1, <1>2
<1>6. /\ g[N] = 10 * g[l] + ds[N] /\ h[N] = 10 * h[l] + es[N]
      /\ g[l] \in Int /\ h[l] \in Int /\ ds[N] \in Int /\ es[N] \in Int
  BY <1>1, <1>2, <1>3, <1>4 DEF Reads
<1> HIDE DEF l
<1>7. g[l] = h[l]
  BY <1>1, <1>3, <1>4, <1>5, ReadsAlike
<1> QED
  BY <1>1, <1>3, <1>4, <1>6, <1>7

LEMMA NotEmpty ==
  ASSUME NEW S, NEW s \in Seq(S), Len(s) # 0
  PROVE  s # <<>>
OBVIOUS

LEMMA SameDigits ==
  ASSUME NEW ds \in Seq(Digit), NEW es \in Seq(Digit), Len(ds) = Len(es),
         \A i \in 1 .. Len(ds) : ds[i] = es[i]
  PROVE  ds = es
BY SeqEqual

LEMMA NumberIsNatural ==
  ASSUME NEW ds \in Seq(Digit)
  PROVE  Number(ds) \in Nat /\ DigitSum(ds) \in Int
<1> DEFINE N == Len(ds)
<1>1. /\ N \in Nat /\ ds \in Seq(Int)
      /\ \A i \in 1 .. N : ds[i] \in Int /\ 0 <= ds[i]
  BY DigitsAreNumbers
<1>2. PICK g : Reads(g, ds) /\ Number(ds) = g[N]
  BY <1>1, NumberIs
<1>3. PICK h : SumsUp(h, ds) /\ DigitSum(ds) = h[N]
  BY <1>1, DigitSumIs
<1> DEFINE T == {i \in 0 .. N : g[i] \in Nat}
<1>4. 0 \in T
  BY <1>1, <1>2 DEF Reads
<1>5. ASSUME NEW i \in 0 .. N, i + 1 \in 0 .. N, i \in T
      PROVE  i + 1 \in T
  <2>1. i + 1 \in 1 .. N /\ (i + 1) - 1 = i /\ g[i] \in Nat
    BY <1>1, <1>5
  <2>2. g[i + 1] = 10 * g[i] + ds[i + 1]
    BY <1>2, <2>1 DEF Reads
  <2>3. g[i + 1] \in Nat
    BY <1>1, <2>1, <2>2
  <2> QED
    BY <1>5, <2>3
<1> HIDE DEF T, N
<1>6. 0 .. N \subseteq T
  BY <1>1, <1>4, <1>5, UpTo
<1>7. g[N] \in Nat
  BY <1>1, <1>6 DEF T
<1>8. h[N] \in Int
  BY <1>1, <1>3 DEF SumsUp, N
<1> QED
  BY <1>2, <1>3, <1>7, <1>8

LEMMA TwoDigits ==
  ASSUME NEW c \in 0 .. 99
  PROVE  /\ digits(c, 2) \in Seq(Digit) /\ Len(digits(c, 2)) = 2
         /\ digits(c, 2)[1] = c \div 10 /\ digits(c, 2)[2] = c % 10
<1>0. c \in Nat /\ 2 \in Nat /\ 0 \in Nat
  OBVIOUS
<1>1. /\ digits(c, 2) \in Seq(Digit) /\ Len(digits(c, 2)) = 2
      /\ \A i \in 1 .. 2 : digits(c, 2)[i] = WithoutLast(c, 2 - i) % 10
  BY <1>0, DigitsAre
<1>2. WithoutLast(c, 0) = c /\ WithoutLast(c, 0 + 1) = WithoutLast(c, 0) \div 10
  BY <1>0, OneDigitLess
<1>3. WithoutLast(c, 1) = c \div 10
  BY <1>2
<1>4. digits(c, 2)[1] = WithoutLast(c, 1) % 10 /\ digits(c, 2)[2] = WithoutLast(c, 0) % 10
  BY <1>1
<1>5. (c \div 10) % 10 = c \div 10
  OBVIOUS
<1> QED
  BY <1>1, <1>2, <1>3, <1>4, <1>5

LEMMA Type2Codes ==
  ASSUME NEW a \in Nat
  PROVE  /\ Type2Code(a) \in 2 .. 98
         /\ \A b \in Nat : Type2Code(a) = Type2Code(b) => (a - b) % 97 = 0
<1>1. Type2Code(a) \in 2 .. 98
  BY DEF Type2Code
<1>2. ASSUME NEW b \in Nat, Type2Code(a) = Type2Code(b)
      PROVE  (a - b) % 97 = 0
  <2>1. (a * 100) % 97 = (b * 100) % 97
    BY <1>2 DEF Type2Code
  <2> QED
    BY <2>1
<1> QED
  BY <1>1, <1>2

Coded(ds, cs) == [uid |-> ds, code |-> cs]

(* An id is checked by its digits.                                         *)
LEMMA CheckIs ==
  ASSUME NEW ds \in Seq(Digit), NEW cs \in Seq(Digit), check_user_id(Coded(ds, cs))
  PROVE  /\ Len(ds) \in Nat /\ 4 <= Len(ds) /\ Len(cs) \in {1, 2}
         /\ Len(cs) = 1 => cs[1] = DigitSum(ds) % 10
         /\ Len(cs) = 2 => Type2Code(Number(ds)) \in 2 .. 98 /\ 10 * cs[1] + cs[2] = Type2Code(Number(ds))
<1> DEFINE n == Number(ds)
<1>1. n \in Nat
  BY NumberIsNatural
<1>2. /\ Coded(ds, cs).uid = ds /\ Coded(ds, cs).code = cs
  BY DEF Coded
<1>3. Coded(ds, cs) = IF Len(cs) = 2 THEN encode_type2_user_id(n) ELSE encode_type1_user_id(n)
  BY <1>2 DEF check_user_id
<1>4. ds = digits(n, Width(n)) /\ cs = IF Len(cs) = 2 THEN digits(Type2Code(n), 2) ELSE <<Type1Code(n)>>
  BY <1>2, <1>3 DEF encode_type2_user_id, encode_type1_user_id
<1>5. Width(n) \in Nat /\ 4 <= Width(n)
  BY <1>1, WidthIs
<1>6. Len(ds) = Width(n)
  BY <1>1, <1>4, <1>5, DigitsAre
<1>7. ASSUME Len(cs) # 2
      PROVE  Len(cs) = 1 /\ cs[1] = DigitSum(ds) % 10
  <2>1. cs = <<Type1Code(n)>>
    BY <1>4, <1>7
  <2>2. Type1Code(n) = DigitSum(ds) % 10
    BY <1>4 DEF Type1Code
  <2> QED
    BY <2>1, <2>2
<1>8. ASSUME Len(cs) = 2
      PROVE  Type2Code(n) \in 2 .. 98 /\ 10 * cs[1] + cs[2] = Type2Code(n)
  <2> DEFINE c == Type2Code(n)
  <2>1. c \in 2 .. 98
    BY <1>1, Type2Codes
  <2>2. cs = digits(c, 2)
    BY <1>4, <1>8
  <2> HIDE DEF c, n
  <2>3. c \in 0 .. 99
    BY <2>1
  <2>4. cs[1] = c \div 10 /\ cs[2] = c % 10
    BY <2>2, <2>3, TwoDigits
  <2>5. 10 * (c \div 10) + (c % 10) = c
    BY <2>3
  <2> QED
    BY <2>1, <2>4, <2>5 DEF c
<1> QED
  BY <1>5, <1>6, <1>7, <1>8

(* What is written for a user passes the check and is read back.           *)
LEMMA EncodedIs ==
  ASSUME NEW n \in Nat
  PROVE  \E ds, c1, c2 \in Seq(Digit) :
           /\ 4 <= Len(ds) /\ (OfFourDigits(n) => Len(ds) = 4) /\ Number(ds) = n
           /\ Len(c1) = 1 /\ Len(c2) = 2
           /\ encode_type1_user_id(n) = Coded(ds, c1) /\ check_user_id(Coded(ds, c1))
           /\ encode_type2_user_id(n) = Coded(ds, c2) /\ check_user_id(Coded(ds, c2))
<1> DEFINE w  == Width(n)
           ds == digits(n, w)
           c1 == <<Type1Code(n)>>
           c2 == digits(Type2Code(n), 2)
<1>1. w \in Nat /\ 4 <= w /\ WithoutLast(n, w) = 0 /\ (OfFourDigits(n) => w = 4)
  BY WidthIs DEF OfFourDigits
<1> HIDE DEF w
<1>2. ds \in Seq(Digit) /\ Len(ds) = w
  BY <1>1, DigitsAre
<1>3. Number(ds) = n
  BY <1>1, ReadBack
<1>4. Type1Code(n) \in Digit
  <2>1. DigitSum(ds) \in Int
    BY <1>2, NumberIsNatural
  <2>2. Type1Code(n) = DigitSum(ds) % 10
    BY DEF Type1Code, w
  <2> HIDE DEF ds
  <2> QED
    BY <2>1, <2>2 DEF Digit
<1>5. c1 \in Seq(Digit) /\ Len(c1) = 1 /\ c1 # <<>>
  BY <1>4
<1>6. c2 \in Seq(Digit) /\ Len(c2) = 2
  <2>1. Type2Code(n) \in 0 .. 99
    BY Type2Codes
  <2> QED
    BY <2>1, TwoDigits
<1>7. encode_type1_user_id(n) = Coded(ds, c1) /\ encode_type2_user_id(n) = Coded(ds, c2)
  BY DEF encode_type1_user_id, encode_type2_user_id, Coded, w
<1> HIDE DEF ds, c1, c2
<1>8. /\ Coded(ds, c1).uid = ds /\ Coded(ds, c1).code = c1
      /\ Coded(ds, c2).uid = ds /\ Coded(ds, c2).code = c2
  BY DEF Coded
<1>9. check_user_id(Coded(ds, c1))
  BY <1>3, <1>5, <1>7, <1>8 DEF check_user_id
<1>10. check_user_id(Coded(ds, c2))
  <2>1. c2 # <<>>
    <3>1. Len(c2) # 0
      BY <1>6
    <3> QED
      BY <1>6, <3>1, NotEmpty
  <2> QED
    BY <1>3, <1>6, <1>7, <1>8, <2>1 DEF check_user_id
<1>11. /\ ds \in Seq(Digit) /\ c1 \in Seq(Digit) /\ c2 \in Seq(Digit)
       /\ 4 <= Len(ds) /\ (OfFourDigits(n) => Len(ds) = 4) /\ Number(ds) = n
  BY <1>1, <1>2, <1>3, <1>5, <1>6
<1> QED
  BY <1>5, <1>6, <1>7, <1>9, <1>10, <1>11, SMTT(30)

LEMMA MatchOne ==
  ASSUME NEW id
  PROVE  MatchPycroftReference(<<id>>)
           = IF check_user_id(WithDash(id)) THEN Number(WithDash(id).uid) ELSE -1
<1> DEFINE good == {i \in DOMAIN <<id>> : check_user_id(WithDash(<<id>>[i]))}
           first == CHOOSE i \in good : \A j \in good : i <= j
<1>1. DOMAIN <<id>> = {1} /\ <<id>>[1] = id
  OBVIOUS
<1>2. MatchPycroftReference(<<id>>) = IF good = {} THEN -1 ELSE Number(WithDash(<<id>>[first]).uid)
  BY DEF MatchPycroftReference
<1>3. good = IF check_user_id(WithDash(id)) THEN {1} ELSE {}
  BY <1>1
<1>4. good = {1} => first = 1
  <2> HIDE DEF good
  <2>1. good = {1} => \E i \in good : \A j \in good : i <= j
    OBVIOUS
  <2> QED
    BY <2>1
<1> HIDE DEF good, first
<1> QED
  BY <1>1, <1>2, <1>3, <1>4

(* The digits of an id, and what is made of digits written in their place. *)
LEMMA PartOf ==
  ASSUME NEW S, NEW s \in Seq(S), NEW m \in Int, NEW n \in Int, 1 <= m, n <= Len(s), m <= n + 1
  PROVE  /\ SubSeq(s, m, n) \in Seq(S) /\ Len(SubSeq(s, m, n)) = n - m + 1
         /\ \A i \in 1 .. n - m + 1 : SubSeq(s, m, n)[i] = s[m + i - 1]
<1>1. Len(s) \in Nat /\ \A i \in 1 .. Len(s) : s[i] \in S
  OBVIOUS
<1>2. \A i \in m .. n : s[i] \in S
  BY <1>1
<1>3. /\ SubSeq(s, m, n) \in Seq(S)
      /\ Len(SubSeq(s, m, n)) = IF m <= n THEN n - m + 1 ELSE 0
      /\ \A i \in 1 .. n - m + 1 : SubSeq(s, m, n)[i] = s[m + i - 1]
  BY <1>2, SubSeqProperties
<1>4. (IF m <= n THEN n - m + 1 ELSE 0) = n - m + 1
  OBVIOUS
<1> QED
  BY <1>3, <1>4

LEMMA AllIs ==
  ASSUME NEW ds \in Seq(Digit), NEW cs \in Seq(Digit)
  PROVE  /\ All(Coded(ds, cs)) \in Seq(Digit)
         /\ Len(All(Coded(ds, cs))) = Len(ds) + Len(cs)
         /\ \A i \in 1 .. Len(ds) : All(Coded(ds, cs))[i] = ds[i]
         /\ \A i \in 1 .. Len(cs) : All(Coded(ds, cs))[Len(ds) + i] = cs[i]
<1>1. All(Coded(ds, cs)) = ds \o cs
  BY DEF All, Coded
<1>2. /\ ds \o cs \in Seq(Digit) /\ Len(ds \o cs) = Len(ds) + Len(cs)
      /\ \A i \in 1 .. Len(ds) + Len(cs) : (ds \o cs)[i] = IF i <= Len(ds) THEN ds[i] ELSE cs[i - Len(ds)]
  BY ConcatProperties
<1> DEFINE L == Len(ds)
           M == Len(cs)
<1>3. L \in Nat /\ M \in Nat
  OBVIOUS
<1>4. \A i \in 1 .. L + M : (ds \o cs)[i] = IF i <= L THEN ds[i] ELSE cs[i - L]
  BY <1>2
<1> HIDE DEF L, M
<1>5. ASSUME NEW i \in 1 .. L
      PROVE  (ds \o cs)[i] = ds[i]
  <2>1. i \in 1 .. L + M /\ i <= L
    BY <1>3
  <2> QED
    BY <1>4, <2>1
<1>6. ASSUME NEW i \in 1 .. M
      PROVE  (ds \o cs)[L + i] = cs[i]
  <2>1. L + i \in 1 .. L + M /\ ~(L + i <= L) /\ (L + i) - L = i
    BY <1>3
  <2> QED
    BY <1>4, <2>1
<1> QED
  BY <1>1, <1>2, <1>5, <1>6 DEF L, M

LEMMA WrittenIs ==
  ASSUME NEW ds \in Seq(Digit), NEW cs \in Seq(Digit), NEW e \in Seq(Digit),
         Len(e) = Len(ds) + Len(cs)
  PROVE  \E es, ks \in Seq(Digit) :
           /\ Written(e, Coded(ds, cs)) = Coded(es, ks)
           /\ Len(es) = Len(ds) /\ Len(ks) = Len(cs)
           /\ \A i \in 1 .. Len(ds) : es[i] = e[i]
           /\ \A i \in 1 .. Len(cs) : ks[i] = e[Len(ds) + i]
<1> DEFINE L == Len(ds)
           M == Len(cs)
           es == SubSeq(e, 1, L)
           ks == SubSeq(e, L + 1, L + M)
<1>1. L \in Nat /\ M \in Nat /\ Len(e) = L + M
  OBVIOUS
<1>2. Written(e, Coded(ds, cs)) = Coded(es, ks)
  BY <1>1 DEF Written, Coded
<1> HIDE DEF L, M
<1>3. es \in Seq(Digit) /\ Len(es) = L /\ \A i \in 1 .. L : es[i] = e[i]
  <2>1. 1 \in Int /\ L \in Int /\ 1 <= 1 /\ L <= Len(e) /\ 1 <= L + 1
    BY <1>1
  <2>2. /\ es \in Seq(Digit) /\ Len(es) = L - 1 + 1
        /\ \A i \in 1 .. L - 1 + 1 : es[i] = e[1 + i - 1]
    BY <2>1, PartOf
  <2>3. L - 1 + 1 = L /\ \A i \in 1 .. L : 1 + i - 1 = i
    BY <1>1
  <2> HIDE DEF es
  <2> QED
    BY <2>2, <2>3
<1>4. ks \in Seq(Digit) /\ Len(ks) = M /\ \A i \in 1 .. M : ks[i] = e[L + i]
  <2>1. L + 1 \in Int /\ L + M \in Int /\ 1 <= L + 1 /\ L + M <= Len(e) /\ L + 1 <= (L + M) + 1
    BY <1>1
  <2>2. /\ ks \in Seq(Digit) /\ Len(ks) = (L + M) - (L + 1) + 1
        /\ \A i \in 1 .. (L + M) - (L + 1) + 1 : ks[i] = e[(L + 1) + i - 1]
    BY <2>1, PartOf
  <2>3. (L + M) - (L + 1) + 1 = M /\ \A i \in 1 .. M : (L + 1) + i - 1 = L + i
    BY <1>1
  <2> HIDE DEF ks
  <2> QED
    BY <2>2, <2>3
<1> HIDE DEF es, ks
<1> QED
  BY <1>2, <1>3, <1>4 DEF L, M

LEMMA WithoutDashIs ==
  ASSUME NEW ds \in Seq(Digit), NEW cs \in Seq(Digit), Len(ds) + Len(cs) >= 2
  PROVE  \E es, ks \in Seq(Digit) :
           /\ WithDash(WithoutDash(Coded(ds, cs))) = Coded(es, ks)
           /\ Len(es) = Len(ds) + Len(cs) - 2 /\ Len(ks) = 2
           /\ Len(cs) = 2 => es = ds /\ ks = cs
<1> DEFINE a == All(Coded(ds, cs))
           N == Len(a)
           es == SubSeq(a, 1, N - 2)
           ks == SubSeq(a, N - 1, N)
<1>1. /\ a \in Seq(Digit) /\ Len(ds) \in Nat /\ Len(cs) \in Nat
      /\ N = Len(ds) + Len(cs) /\ N \in Nat /\ N >= 2
      /\ \A i \in 1 .. Len(ds) : a[i] = ds[i]
      /\ \A i \in 1 .. Len(cs) : a[Len(ds) + i] = cs[i]
  <2>1. /\ a \in Seq(Digit) /\ N = Len(ds) + Len(cs)
        /\ \A i \in 1 .. Len(ds) : a[i] = ds[i]
        /\ \A i \in 1 .. Len(cs) : a[Len(ds) + i] = cs[i]
    BY AllIs
  <2> HIDE DEF a
  <2>2. Len(ds) \in Nat /\ Len(cs) \in Nat
    OBVIOUS
  <2> HIDE DEF N
  <2> QED
    BY <2>1, <2>2
<1>2. WithDash(WithoutDash(Coded(ds, cs))) = Coded(es, ks)
  BY DEF WithDash, WithoutDash, Coded
<1> HIDE DEF a
<1>3. es \in Seq(Digit) /\ Len(es) = N - 2 /\ \A i \in 1 .. N - 2 : es[i] = a[i]
  <2>1. 1 \in Int /\ N - 2 \in Int /\ 1 <= 1 /\ N - 2 <= N /\ 1 <= (N - 2) + 1
    BY <1>1
  <2>2. /\ es \in Seq(Digit) /\ Len(es) = (N - 2) - 1 + 1
        /\ \A i \in 1 .. (N - 2) - 1 + 1 : es[i] = a[1 + i - 1]
    BY <1>1, <2>1, PartOf
  <2> HIDE DEF es
  <2>3. (N - 2) - 1 + 1 = N - 2 /\ \A i \in 1 .. N - 2 : 1 + i - 1 = i
    BY <1>1
  <2> QED
    BY <2>2, <2>3
<1>4. ks \in Seq(Digit) /\ Len(ks) = 2 /\ \A i \in 1 .. 2 : ks[i] = a[(N - 2) + i]
  <2>1. N - 1 \in Int /\ N \in Int /\ 1 <= N - 1 /\ N <= N /\ N - 1 <= N + 1
    BY <1>1
  <2>2. /\ ks \in Seq(Digit) /\ Len(ks) = N - (N - 1) + 1
        /\ \A i \in 1 .. N - (N - 1) + 1 : ks[i] = a[(N - 1) + i - 1]
    BY <1>1, <2>1, PartOf
  <2> HIDE DEF ks
  <2>3. N - (N - 1) + 1 = 2 /\ \A i \in 1 .. 2 : (N - 1) + i - 1 = (N - 2) + i
    BY <1>1
  <2> QED
    BY <2>2, <2>3
<1> HIDE DEF es, ks, N
<1>5. ASSUME Len(cs) = 2
      PROVE  es = ds /\ ks = cs
  <2>1. N - 2 = Len(ds)
    BY <1>1, <1>5
  <2>2. es = ds
    <3>1. Len(es) = Len(ds) /\ \A i \in 1 .. Len(es) : es[i] = ds[i]
      BY <1>1, <1>3, <2>1
    <3> QED
      BY <1>3, <3>1, SameDigits
  <2>3. ks = cs
    <3>1. Len(ks) = Len(cs) /\ \A i \in 1 .. Len(ks) : ks[i] = cs[i]
      BY <1>1, <1>4, <1>5, <2>1
    <3> QED
      BY <1>4, <3>1, SameDigits
  <2> QED
    BY <2>2, <2>3
<1> QED
  BY <1>1, <1>2, <1>3, <1>4, <1>5

(* Another id with as many digits: of those of the number one is another,  *)
(* or two neighbours are swapped, or the last is swapped with the first of *)
(* the code, or only the code is another.                                  *)
OneIsWrong(ds, cs, es, ks) ==
  /\ ks = cs
  /\ \E k \in 1 .. Len(ds) : /\ ds[k] # es[k]
                             /\ \A i \in 1 .. Len(ds) : i # k => ds[i] = es[i]

TwoAreSwapped(ds, cs, es, ks) ==
  /\ ks = cs
  /\ \E k \in 1 .. Len(ds) - 1 :
       /\ ds[k] # es[k] /\ es[k] = ds[k + 1] /\ es[k + 1] = ds[k]
       /\ \A i \in 1 .. Len(ds) : i \notin {k, k + 1} => ds[i] = es[i]

SwappedWithCode(ds, cs, es, ks) ==
  /\ ds[Len(ds)] # cs[1] /\ es[Len(ds)] = cs[1] /\ ks[1] = ds[Len(ds)] /\ ks[2] = cs[2]
  /\ \A i \in 1 .. Len(ds) - 1 : ds[i] = es[i]

CodeIsWrong(ds, cs, es, ks) == es = ds /\ ks # cs

LEMMA CodeIsUnique ==
  ASSUME NEW ds \in Seq(Digit), NEW cs \in Seq(Digit), check_user_id(Coded(ds, cs)),
         NEW ks \in Seq(Digit), Len(ks) = Len(cs), check_user_id(Coded(ds, ks))
  PROVE  ks = cs
<1>1. /\ Len(cs) \in {1, 2}
      /\ Len(cs) = 1 => cs[1] = DigitSum(ds) % 10
      /\ Len(cs) = 2 => 10 * cs[1] + cs[2] = Type2Code(Number(ds))
  BY CheckIs
<1>2. /\ Len(ks) = 1 => ks[1] = DigitSum(ds) % 10
      /\ Len(ks) = 2 => 10 * ks[1] + ks[2] = Type2Code(Number(ds))
  BY CheckIs
<1>3. CASE Len(cs) = 1
  <2>1. ks[1] = cs[1]
    BY <1>1, <1>2, <1>3
  <2>2. \A i \in 1 .. Len(ks) : ks[i] = cs[i]
    BY <1>3, <2>1
  <2> QED
    BY <2>2, SameDigits
<1>4. CASE Len(cs) = 2
  <2>1. 10 * ks[1] + ks[2] = 10 * cs[1] + cs[2]
    BY <1>1, <1>2, <1>4
  <2>2. /\ \A i \in 1 .. Len(cs) : cs[i] \in Int /\ 0 <= cs[i] /\ cs[i] <= 9
        /\ \A i \in 1 .. Len(ks) : ks[i] \in Int /\ 0 <= ks[i] /\ ks[i] <= 9
    BY DigitsAreNumbers
  <2>3. 1 \in 1 .. Len(cs) /\ 2 \in 1 .. Len(cs) /\ 1 \in 1 .. Len(ks) /\ 2 \in 1 .. Len(ks)
    BY <1>4
  <2>4. /\ cs[1] \in Int /\ 0 <= cs[1] /\ cs[1] <= 9 /\ cs[2] \in Int /\ 0 <= cs[2] /\ cs[2] <= 9
        /\ ks[1] \in Int /\ 0 <= ks[1] /\ ks[1] <= 9 /\ ks[2] \in Int /\ 0 <= ks[2] /\ ks[2] <= 9
    BY <2>2, <2>3
  <2>5. ks[1] = cs[1] /\ ks[2] = cs[2]
    BY <2>1, <2>4, SMTT(30)
  <2>6. \A i \in 1 .. Len(ks) : ks[i] = cs[i]
    BY <1>4, <2>5
  <2> QED
    BY <2>6, SameDigits
<1> QED
  BY <1>1, <1>3, <1>4

LEMMA AcrossTheDash ==
  ASSUME NEW a \in Nat, NEW b \in Nat, NEW x \in 0 .. 9, NEW y \in 0 .. 9, NEW z \in Int,
         a - b = x - y, 10 * y + z = Type2Code(a), 10 * x + z = Type2Code(b)
  PROVE  x = y
<1> DEFINE u == (a * 100) \div 97
           v == (b * 100) \div 97
<1>1. /\ u \in Int /\ v \in Int
      /\ (a * 100) % 97 = 100 * a - 97 * u /\ (b * 100) % 97 = 100 * b - 97 * v
  OBVIOUS
<1> HIDE DEF u, v
<1>2. 10 * y + z = 98 - (100 * a - 97 * u) /\ 10 * x + z = 98 - (100 * b - 97 * v)
  BY <1>1 DEF Type2Code
<1>3. 90 * (x - y) = 97 * (u - v)
  BY <1>1, <1>2
<1>4. x - y \in -9 .. 9
  OBVIOUS
<1>5. \A d \in -9 .. 9 : \A t \in Int : 90 * d = 97 * t => d = 0
  OBVIOUS
<1>6. x - y = 0
  <2>1. u - v \in Int
    BY <1>1
  <2> QED
    BY <1>3, <1>4, <1>5, <2>1
<1> QED
  BY <1>6

(* The id made fails the check.                                            *)
LEMMA MistakesFail ==
  ASSUME NEW ds \in Seq(Digit), NEW cs \in Seq(Digit), check_user_id(Coded(ds, cs)),
         NEW es \in Seq(Digit), NEW ks \in Seq(Digit), Len(es) = Len(ds), Len(ks) = Len(cs),
         \/ OneIsWrong(ds, cs, es, ks) \/ CodeIsWrong(ds, cs, es, ks)
         \/ Len(cs) = 2 /\ (TwoAreSwapped(ds, cs, es, ks) \/ SwappedWithCode(ds, cs, es, ks))
  PROVE  ~check_user_id(Coded(es, ks))
<1> SUFFICES ASSUME check_user_id(Coded(es, ks))
             PROVE  FALSE
  OBVIOUS
<1> DEFINE a == Number(ds)
           b == Number(es)
<1>1. /\ Len(ds) \in Nat /\ 4 <= Len(ds) /\ Len(cs) \in {1, 2}
      /\ Len(cs) = 1 => cs[1] = DigitSum(ds) % 10
      /\ Len(cs) = 2 => 10 * cs[1] + cs[2] = Type2Code(a)
  BY CheckIs
<1>2. /\ Len(ks) = 1 => ks[1] = DigitSum(es) % 10
      /\ Len(ks) = 2 => 10 * ks[1] + ks[2] = Type2Code(b)
  BY CheckIs
<1>3. a \in Nat /\ b \in Nat
  BY NumberIsNatural
<1> HIDE DEF a, b
<1>4. ASSUME Len(cs) = 2, ks = cs, (a - b) % 97 # 0
      PROVE  FALSE
  <2>1. Type2Code(a) = Type2Code(b)
    BY <1>1, <1>2, <1>4
  <2> QED
    BY <1>3, <1>4, <2>1, Type2Codes
<1>5. CASE OneIsWrong(ds, cs, es, ks)
  <2>1. PICK k \in 1 .. Len(ds) : ds[k] # es[k] /\ \A i \in 1 .. Len(ds) : i # k => ds[i] = es[i]
    BY <1>5 DEF OneIsWrong
  <2>2. (a - b) % 97 # 0 /\ DigitSum(ds) % 10 # DigitSum(es) % 10
    BY <2>1, OneWrong DEF a, b
  <2>3. ks = cs
    BY <1>5 DEF OneIsWrong
  <2>4. Len(cs) # 1
    BY <1>1, <1>2, <2>2, <2>3
  <2> QED
    BY <1>1, <1>4, <2>2, <2>3, <2>4
<1>6. CASE CodeIsWrong(ds, cs, es, ks)
  <2>1. es = ds /\ ks # cs
    BY <1>6 DEF CodeIsWrong
  <2> QED
    BY <2>1, CodeIsUnique
<1>7. CASE Len(cs) = 2 /\ TwoAreSwapped(ds, cs, es, ks)
  <2>1. PICK k \in 1 .. Len(ds) - 1 :
          /\ ds[k] # es[k] /\ es[k] = ds[k + 1] /\ es[k + 1] = ds[k]
          /\ \A i \in 1 .. Len(ds) : i \notin {k, k + 1} => ds[i] = es[i]
    BY <1>7 DEF TwoAreSwapped
  <2>2. (a - b) % 97 # 0
    BY <2>1, TwoSwapped DEF a, b
  <2>3. ks = cs
    BY <1>7 DEF TwoAreSwapped
  <2> QED
    BY <1>4, <1>7, <2>2, <2>3
<1>8. CASE Len(cs) = 2 /\ SwappedWithCode(ds, cs, es, ks)
  <2> DEFINE x == ds[Len(ds)]
             y == cs[1]
             z == cs[2]
  <2>1. /\ x # y /\ es[Len(ds)] = y /\ ks[1] = x /\ ks[2] = z
        /\ \A i \in 1 .. Len(ds) - 1 : ds[i] = es[i]
    BY <1>8 DEF SwappedWithCode
  <2>2. a - b = x - y
    <3>1. Len(ds) # 0
      BY <1>1
    <3>2. a - b = ds[Len(ds)] - es[Len(ds)]
      BY <2>1, <3>1, LastReplaced DEF a, b
    <3> QED
      BY <2>1, <3>2
  <2>3. x \in 0 .. 9 /\ y \in 0 .. 9 /\ z \in Int
    <3>1. /\ \A i \in 1 .. Len(ds) : ds[i] \in Int /\ 0 <= ds[i] /\ ds[i] <= 9
          /\ \A i \in 1 .. Len(cs) : cs[i] \in Int /\ 0 <= cs[i] /\ cs[i] <= 9
      BY DigitsAreNumbers
    <3>2. Len(ds) \in 1 .. Len(ds) /\ 1 \in 1 .. Len(cs) /\ 2 \in 1 .. Len(cs)
      BY <1>1, <1>8
    <3>3. /\ x \in Int /\ 0 <= x /\ x <= 9 /\ y \in Int /\ 0 <= y /\ y <= 9 /\ z \in Int
      BY <3>1, <3>2
    <3> HIDE DEF x, y, z
    <3> QED
      BY <3>3
  <2>4. 10 * y + z = Type2Code(a) /\ 10 * x + z = Type2Code(b)
    BY <1>1, <1>2, <1>8, <2>1
  <2> HIDE DEF x, y, z
  <2>5. x = y
    BY <1>3, <2>2, <2>3, <2>4, AcrossTheDash
  <2> QED
    BY <2>1, <2>5
<1> QED
  BY <1>5, <1>6, <1>7, <1>8

LEMMA ChangedAt ==
  ASSUME NEW s \in Seq(Digit), NEW i \in 1 .. Len(s), NEW d \in Digit
  PROVE  /\ [s EXCEPT ![i] = d] \in Seq(Digit) /\ Len([s EXCEPT ![i] = d]) = Len(s)
         /\ [s EXCEPT ![i] = d][i] = d
         /\ \A j \in 1 .. Len(s) : j # i => [s EXCEPT ![i] = d][j] = s[j]
BY ExceptSeq

(* One digit written wrong.                                                *)
LEMMA OneDigitWrongIs ==
  ASSUME NEW ds \in Seq(Digit), NEW cs \in Seq(Digit), NEW id \in OneDigitWrong(Coded(ds, cs))
  PROVE  \E es, ks \in Seq(Digit) :
           /\ id = Coded(es, ks) /\ Len(es) = Len(ds) /\ Len(ks) = Len(cs)
           /\ OneIsWrong(ds, cs, es, ks) \/ CodeIsWrong(ds, cs, es, ks)
<1> DEFINE a == All(Coded(ds, cs))
           L == Len(ds)
           M == Len(cs)
<1>1. /\ a \in Seq(Digit) /\ Len(a) = L + M
      /\ \A i \in 1 .. L : a[i] = ds[i]
      /\ \A i \in 1 .. M : a[L + i] = cs[i]
  BY AllIs
<1>2. DOMAIN a = 1 .. L + M
  <2> HIDE DEF a, L, M
  <2> QED
    BY <1>1
<1>3. PICK i \in DOMAIN a, d \in 0 .. 9 : id = Written([a EXCEPT ![i] = d], Coded(ds, cs))
  BY DEF OneDigitWrong
<1>4. id # Coded(ds, cs)
  BY DEF OneDigitWrong
<1> HIDE DEF a
<1> DEFINE e == [a EXCEPT ![i] = d]
<1>5. L \in Nat /\ M \in Nat
  OBVIOUS
<1>6. /\ e \in Seq(Digit) /\ Len(e) = L + M
      /\ \A j \in 1 .. L + M : j # i => e[j] = a[j]
  <2>1. i \in 1 .. Len(a) /\ d \in Digit
    BY <1>1, <1>2 DEF Digit
  <2>2. /\ e \in Seq(Digit) /\ Len(e) = Len(a)
        /\ \A j \in 1 .. Len(a) : j # i => e[j] = a[j]
    BY <1>1, <2>1, ChangedAt
  <2> HIDE DEF e
  <2> QED
    BY <1>1, <2>2
<1> HIDE DEF e
<1>7. PICK es, ks \in Seq(Digit) :
        /\ Written(e, Coded(ds, cs)) = Coded(es, ks)
        /\ Len(es) = L /\ Len(ks) = M
        /\ \A j \in 1 .. L : es[j] = e[j]
        /\ \A j \in 1 .. M : ks[j] = e[L + j]
  BY <1>6, WrittenIs
<1>8. id = Coded(es, ks)
  BY <1>3, <1>7 DEF e
<1>9. es = ds \/ ks = cs
  <2>1. CASE i \in 1 .. L
    <3>1. ASSUME NEW j \in 1 .. M
          PROVE  ks[j] = cs[j]
      <4>1. L + j \in 1 .. L + M /\ L + j # i
        BY <1>5, <2>1
      <4> QED
        BY <1>1, <1>6, <1>7, <4>1
    <3> QED
      BY <1>7, <3>1, SameDigits
  <2>2. CASE i \notin 1 .. L
    <3>1. ASSUME NEW j \in 1 .. L
          PROVE  es[j] = ds[j]
      <4>1. j \in 1 .. L + M /\ j # i
        BY <1>5, <2>2
      <4> QED
        BY <1>1, <1>6, <1>7, <4>1
    <3> QED
      BY <1>7, <3>1, SameDigits
  <2> QED
    BY <2>1, <2>2
<1>10. ASSUME NEW j \in 1 .. L, j # i
       PROVE  ds[j] = es[j]
  <2>1. j \in 1 .. L + M
    BY <1>5
  <2> QED
    BY <1>1, <1>6, <1>7, <1>10, <2>1
<1>11. CASE es = ds
  <2>1. ks # cs
    BY <1>4, <1>8, <1>11
  <2> QED
    BY <1>7, <1>8, <1>11, <2>1 DEF CodeIsWrong
<1>12. CASE es # ds
  <2>1. ks = cs
    BY <1>9, <1>12
  <2>2. i \in 1 .. L /\ ds[i] # es[i]
    <3>1. \E j \in 1 .. L : ds[j] # es[j]
      BY <1>7, <1>12, SameDigits
    <3> QED
      BY <1>10, <3>1
  <2>3. OneIsWrong(ds, cs, es, ks)
    BY <1>10, <2>1, <2>2 DEF OneIsWrong
  <2> QED
    BY <1>7, <1>8, <2>3
<1> QED
  BY <1>11, <1>12

(* Two neighbours swapped in an id of the second type.                     *)
LEMMA NeighboursSwappedIs ==
  ASSUME NEW ds \in Seq(Digit), NEW cs \in Seq(Digit), Len(ds) # 0, Len(cs) = 2,
         NEW id \in NeighboursSwapped(Coded(ds, cs))
  PROVE  \E es, ks \in Seq(Digit) :
           /\ id = Coded(es, ks) /\ Len(es) = Len(ds) /\ Len(ks) = Len(cs)
           /\ \/ TwoAreSwapped(ds, cs, es, ks) \/ SwappedWithCode(ds, cs, es, ks)
              \/ CodeIsWrong(ds, cs, es, ks)
<1> DEFINE a == All(Coded(ds, cs))
           L == Len(ds)
<1>1. /\ a \in Seq(Digit) /\ Len(a) = L + 2
      /\ \A i \in 1 .. L : a[i] = ds[i]
      /\ \A i \in 1 .. 2 : a[L + i] = cs[i]
  <2>1. /\ a \in Seq(Digit) /\ Len(a) = Len(ds) + Len(cs)
        /\ \A i \in 1 .. Len(ds) : a[i] = ds[i]
        /\ \A i \in 1 .. Len(cs) : a[Len(ds) + i] = cs[i]
    BY AllIs
  <2> HIDE DEF a
  <2> QED
    BY <2>1
<1>2. PICK i \in 1 .. Len(a) - 1 : id = Written([a EXCEPT ![i] = a[i + 1], ![i + 1] = a[i]], Coded(ds, cs))
  BY DEF NeighboursSwapped
<1>3. id # Coded(ds, cs)
  BY DEF NeighboursSwapped
<1> HIDE DEF a
<1> DEFINE e == [a EXCEPT ![i] = a[i + 1], ![i + 1] = a[i]]
           m == i + 1
<1>4. L \in Nat /\ L # 0 /\ i \in 1 .. L + 1 /\ m \in 2 .. L + 2 /\ i \in 1 .. L + 2 /\ m \in 1 .. L + 2 /\ i # m
  <2>1. L \in Nat
    OBVIOUS
  <2> HIDE DEF L
  <2> QED
    BY <1>1, <2>1 DEF L
<1>5. /\ e \in Seq(Digit) /\ Len(e) = L + 2 /\ e[i] = a[m] /\ e[m] = a[i]
      /\ \A j \in 1 .. L + 2 : j # i /\ j # m => e[j] = a[j]
  <2>1. a[i] \in Digit /\ a[m] \in Digit
    <3>1. \A j \in 1 .. Len(a) : a[j] \in Digit
      BY <1>1
    <3> QED
      BY <1>1, <1>4, <3>1
  <2> DEFINE f == [a EXCEPT ![i] = a[m]]
  <2>2. /\ f \in Seq(Digit) /\ Len(f) = Len(a) /\ f[i] = a[m]
        /\ \A j \in 1 .. Len(a) : j # i => f[j] = a[j]
    BY <1>1, <1>4, <2>1, ChangedAt
  <2>3. e = [f EXCEPT ![m] = a[i]]
    OBVIOUS
  <2> HIDE DEF f
  <2> DEFINE h == [f EXCEPT ![m] = a[i]]
  <2>4. m \in 1 .. Len(f)
    BY <1>1, <1>4, <2>2
  <2>5. /\ h \in Seq(Digit) /\ Len(h) = Len(f) /\ h[m] = a[i]
        /\ \A j \in 1 .. Len(f) : j # m => h[j] = f[j]
    BY <2>1, <2>2, <2>4, ChangedAt
  <2>6. e = h
    BY <2>3
  <2> HIDE DEF e, h, m
  <2> QED
    BY <1>1, <1>4, <2>2, <2>5, <2>6
<1> HIDE DEF e
<1>6. PICK es, ks \in Seq(Digit) :
        /\ Written(e, Coded(ds, cs)) = Coded(es, ks)
        /\ Len(es) = L /\ Len(ks) = 2
        /\ \A j \in 1 .. L : es[j] = e[j]
        /\ \A j \in 1 .. 2 : ks[j] = e[L + j]
  <2>1. Len(e) = Len(ds) + Len(cs)
    BY <1>5
  <2>2. PICK es, ks \in Seq(Digit) :
          /\ Written(e, Coded(ds, cs)) = Coded(es, ks)
          /\ Len(es) = Len(ds) /\ Len(ks) = Len(cs)
          /\ \A j \in 1 .. Len(ds) : es[j] = e[j]
          /\ \A j \in 1 .. Len(cs) : ks[j] = e[Len(ds) + j]
    BY <1>5, <2>1, WrittenIs, ZenonT(30)
  <2> QED
    BY <2>2
<1>7. id = Coded(es, ks)
  BY <1>2, <1>6 DEF e
<1>8. ASSUME NEW j \in 1 .. L, j # i, j # m
      PROVE  ds[j] = es[j]
  <2>1. j \in 1 .. L + 2
    BY <1>4
  <2> QED
    BY <1>1, <1>5, <1>6, <1>8, <2>1
<1>9. ASSUME NEW j \in 1 .. 2, L + j # i, L + j # m
      PROVE  ks[j] = cs[j]
  <2>1. L + j \in 1 .. L + 2
    BY <1>4
  <2> QED
    BY <1>1, <1>5, <1>6, <1>9, <2>1
<1>10. CASE i \in 1 .. L - 1
  <2>1. i \in 1 .. L /\ m \in 1 .. L
    BY <1>4, <1>10
  <2>2. es[i] = ds[m] /\ es[m] = ds[i]
    BY <1>1, <1>5, <1>6, <2>1
  <2>3. ks = cs
    <3>1. \A j \in 1 .. 2 : L + j # i /\ L + j # m
      BY <1>4, <2>1
    <3> QED
      BY <1>6, <1>9, <3>1, SameDigits
  <2>4. ds[i] # es[i]
    <3> SUFFICES ASSUME ds[i] = es[i]
                 PROVE  FALSE
      OBVIOUS
    <3>1. \A j \in 1 .. L : es[j] = ds[j]
      BY <1>8, <2>2
    <3>2. es = ds
      BY <1>6, <3>1, SameDigits
    <3> QED
      BY <1>3, <1>7, <2>3, <3>2
  <2>5. TwoAreSwapped(ds, cs, es, ks)
    BY <1>8, <1>10, <2>2, <2>3, <2>4 DEF TwoAreSwapped
  <2> QED
    BY <1>6, <1>7, <2>5
<1>11. CASE i = L
  <2>1. i \in 1 .. L /\ m = L + 1 /\ L \in 1 .. L
    BY <1>4, <1>11
  <2>2. e[L] = a[L + 1] /\ e[L + 1] = a[L]
    BY <1>5, <1>11, <2>1
  <2>3. es[L] = cs[1] /\ ks[1] = ds[L]
    BY <1>1, <1>6, <2>1, <2>2
  <2>4. ks[2] = cs[2]
    <3>1. L + 2 # i /\ L + 2 # m
      BY <1>4, <1>11
    <3> QED
      BY <1>9, <3>1
  <2>5. \A j \in 1 .. L - 1 : j \in 1 .. L /\ j # i /\ j # m
    BY <1>4, <1>11
  <2>6. \A j \in 1 .. L - 1 : ds[j] = es[j]
    BY <1>8, <2>5
  <2>7. ds[L] # cs[1]
    <3> SUFFICES ASSUME ds[L] = cs[1]
                 PROVE  FALSE
      OBVIOUS
    <3>1. \A j \in 1 .. L : j = L \/ j \in 1 .. L - 1
      BY <1>4
    <3>2. \A j \in 1 .. L : es[j] = ds[j]
      BY <2>3, <2>6, <3>1
    <3>3. es = ds
      BY <1>6, <3>2, SameDigits
    <3>4. \A j \in 1 .. 2 : ks[j] = cs[j]
      BY <2>3, <2>4
    <3>5. ks = cs
      BY <1>6, <3>4, SameDigits
    <3> QED
      BY <1>3, <1>7, <3>3, <3>5
  <2>8. SwappedWithCode(ds, cs, es, ks)
    BY <2>3, <2>4, <2>6, <2>7 DEF SwappedWithCode
  <2> QED
    BY <1>6, <1>7, <2>8
<1>12. CASE i = L + 1
  <2>1. \A j \in 1 .. L : j # i /\ j # m
    BY <1>4, <1>12
  <2>2. es = ds
    BY <1>6, <1>8, <2>1, SameDigits
  <2>3. CodeIsWrong(ds, cs, es, ks)
    BY <1>3, <1>7, <2>2 DEF CodeIsWrong
  <2> QED
    BY <1>6, <1>7, <2>3
<1>13. i \in 1 .. L - 1 \/ i = L \/ i = L + 1
  BY <1>4
<1> QED
  BY <1>10, <1>11, <1>12, <1>13

(* An id with a code is read as it is written.                             *)
LEMMA ReadAsWritten ==
  ASSUME NEW ds \in Seq(Digit), NEW cs \in Seq(Digit), Len(cs) # 0
  PROVE  MatchPycroftReference(<<Coded(ds, cs)>>)
           = IF check_user_id(Coded(ds, cs)) THEN Number(ds) ELSE -1
<1>1. Coded(ds, cs).uid = ds /\ Coded(ds, cs).code = cs
  BY DEF Coded
<1>2. cs # <<>>
  BY NotEmpty
<1>3. WithDash(Coded(ds, cs)) = Coded(ds, cs)
  BY <1>1, <1>2 DEF WithDash
<1> QED
  BY <1>1, <1>3, MatchOne

(* Of every id, with either code, and without its dash if the code is of   *)
(* the second type, the reference is understood.  With a digit wrong, or   *)
(* two neighbours swapped if the code is of the second type, it is        *)
(* nobody's (check_user_id, matching.py:74).                               *)
THEOREM TyposAlwaysCaught ==
  ASSUME NEW ids \in SUBSET Nat
  PROVE  TyposAreCaughtIn(ids)
<1> SUFFICES ASSUME NEW n \in ids
             PROVE  LET one == encode_type1_user_id(n)
                        two == encode_type2_user_id(n)
                    IN  /\ MatchPycroftReference(<<one>>) = n
                        /\ \A id \in {two, WithoutDash(two)} : MatchPycroftReference(<<id>>) = n
                        /\ \A id \in OneDigitWrong(one) \cup OneDigitWrong(two) \cup NeighboursSwapped(two) :
                             MatchPycroftReference(<<id>>) = -1
                        /\ OfFourDigits(n) => MatchPycroftReference(<<WithoutDash(one)>>) = -1
  BY ZenonT(30) DEF TyposAreCaughtIn
<1> DEFINE one == encode_type1_user_id(n)
           two == encode_type2_user_id(n)
<1>1. n \in Nat
  OBVIOUS
<1>2. PICK ds, c1, c2 \in Seq(Digit) :
        /\ 4 <= Len(ds) /\ (OfFourDigits(n) => Len(ds) = 4) /\ Number(ds) = n
        /\ Len(c1) = 1 /\ Len(c2) = 2
        /\ one = Coded(ds, c1) /\ check_user_id(Coded(ds, c1))
        /\ two = Coded(ds, c2) /\ check_user_id(Coded(ds, c2))
  BY <1>1, EncodedIs
<1> HIDE DEF one, two
<1>3. Len(ds) \in Nat /\ Len(ds) # 0 /\ Len(c1) # 0 /\ Len(c2) # 0
  BY <1>2
<1>4. MatchPycroftReference(<<one>>) = n /\ MatchPycroftReference(<<two>>) = n
  BY <1>2, <1>3, ReadAsWritten, ZenonT(30)
<1>5. MatchPycroftReference(<<WithoutDash(two)>>) = n
  <2>1. Len(ds) + Len(c2) >= 2
    BY <1>2, <1>3
  <2>2. WithDash(WithoutDash(two)) = two
    BY <1>2, <2>1, WithoutDashIs
  <2>3. two.uid = ds
    BY <1>2 DEF Coded
  <2> QED
    BY <1>2, <2>2, <2>3, MatchOne
<1>6. ASSUME NEW cs \in Seq(Digit), Len(cs) # 0, check_user_id(Coded(ds, cs)),
             NEW es \in Seq(Digit), NEW ks \in Seq(Digit), Len(es) = Len(ds), Len(ks) = Len(cs),
             \/ OneIsWrong(ds, cs, es, ks) \/ CodeIsWrong(ds, cs, es, ks)
             \/ Len(cs) = 2 /\ (TwoAreSwapped(ds, cs, es, ks) \/ SwappedWithCode(ds, cs, es, ks))
      PROVE  MatchPycroftReference(<<Coded(es, ks)>>) = -1
  <2>1. ~check_user_id(Coded(es, ks))
    BY <1>6, MistakesFail
  <2>2. Len(ks) # 0
    BY <1>6
  <2> QED
    BY <2>1, <2>2, ReadAsWritten
<1>7. ASSUME NEW cs \in {c1, c2}, NEW id \in OneDigitWrong(Coded(ds, cs))
      PROVE  MatchPycroftReference(<<id>>) = -1
  <2>1. cs \in Seq(Digit) /\ Len(cs) # 0 /\ check_user_id(Coded(ds, cs))
    BY <1>2, <1>3, ZenonT(30)
  <2>2. PICK es, ks \in Seq(Digit) :
          /\ id = Coded(es, ks) /\ Len(es) = Len(ds) /\ Len(ks) = Len(cs)
          /\ OneIsWrong(ds, cs, es, ks) \/ CodeIsWrong(ds, cs, es, ks)
    BY <1>7, <2>1, OneDigitWrongIs
  <2> QED
    BY <1>6, <2>1, <2>2
<1>8. ASSUME NEW id \in NeighboursSwapped(two)
      PROVE  MatchPycroftReference(<<id>>) = -1
  <2>1. id \in NeighboursSwapped(Coded(ds, c2))
    BY <1>2, <1>8
  <2>2. PICK es, ks \in Seq(Digit) :
          /\ id = Coded(es, ks) /\ Len(es) = Len(ds) /\ Len(ks) = Len(c2)
          /\ \/ TwoAreSwapped(ds, c2, es, ks) \/ SwappedWithCode(ds, c2, es, ks)
             \/ CodeIsWrong(ds, c2, es, ks)
    BY <1>2, <1>3, <2>1, NeighboursSwappedIs
  <2> QED
    BY <1>2, <1>3, <1>6, <2>2, ZenonT(30)
<1>9. ASSUME OfFourDigits(n)
      PROVE  MatchPycroftReference(<<WithoutDash(one)>>) = -1
  <2>1. Len(ds) + Len(c1) = 5 /\ Len(ds) + Len(c1) >= 2
    <3>1. Len(ds) = 4 /\ Len(c1) = 1
      BY <1>2, <1>9
    <3> QED
      BY <3>1
  <2>2. PICK es, ks \in Seq(Digit) :
          /\ WithDash(WithoutDash(one)) = Coded(es, ks) /\ Len(es) = Len(ds) + Len(c1) - 2
    BY <1>2, <2>1, WithoutDashIs, ZenonT(30)
  <2>3. Len(es) = 3
    BY <2>1, <2>2
  <2>4. ~check_user_id(Coded(es, ks))
    <3> SUFFICES ASSUME check_user_id(Coded(es, ks))
                 PROVE  FALSE
      OBVIOUS
    <3>1. 4 <= Len(es)
      BY CheckIs
    <3> QED
      BY <2>3, <3>1
  <2> QED
    BY <2>2, <2>4, MatchOne
<1>10. \A id \in OneDigitWrong(one) \cup OneDigitWrong(two) : MatchPycroftReference(<<id>>) = -1
  BY <1>2, <1>7, ZenonT(30)
<1> QED
  BY <1>4, <1>5, <1>8, <1>9, <1>10 DEF one, two

(* A mistyped id in a reference pays for nobody: errorcode.py,             *)
(* matching.py:95.                                                         *)
THEOREM UserIdsAreSafe == Spec => []TyposAreCaught
<1>1. UserId \in SUBSET Nat
  BY UserIdAssumption, SMT
<1>2. TyposAreCaught
  BY <1>1, TyposAlwaysCaught DEF TyposAreCaught
<1> QED
  BY <1>2, PTL

----------------------------------------------------------------------------
(* The import of statements. *)

USE DayAssumption

(* What an import in progress has in its hands: nothing to store before it *)
(* has classified, and then nothing of a day that is not over.             *)
NewIsPast(r) ==
  /\ r.began <= today
  /\ r.phase = "fetched" => r.new = Empty
  /\ \A k \in Kind, d \in Day : r.new[k][d] # 0 => d < today

(* An import over the proposed days holds, or finds stored, every day      *)
(* before its own on which the bank booked something.                      *)
Held(r) == IF r.phase = "fetched" THEN r.statement ELSE r.new

HoldsAll(r) ==
  r.covers => \A k \in Kind, d \in Day :
    d < r.began /\ bank[k][d] # 0 => Held(r)[k][d] # 0 \/ stored[k][d] # 0

ImportInv ==
  \A s \in Session : session[s] # Null =>
    NewIsPast(session[s]) /\ (seamless => HoldsAll(session[s]))

BankIInv == BankTypeOK /\ NothingMissed /\ ImportInv

LEMMA ImportsBegin == BankInit => BankIInv
BY DEF BankInit, BankIInv, BankTypeOK, NothingMissed, ImportInv, Empty, Day

(* What is new is bounded like the statement, and of days that are over.   *)
LEMMA NewInType ==
  ASSUME BankTypeOK, NEW statement \in [Kind -> [Day -> 0 .. MaxCopies]]
  PROVE  /\ NewIn(statement) \in [Kind -> [Day -> 0 .. MaxCopies]]
         /\ \A k \in Kind, d \in Day : NewIn(statement)[k][d] # 0 => d < today
         /\ \A k \in Kind, d \in Day : d < today /\ statement[k][d] # 0
              => NewIn(statement)[k][d] # 0 \/ stored[k][d] # 0
BY DEF NewIn, BankTypeOK, Day

LEMMA BankBooksKeeps ==
  ASSUME BankIInv, NEW k \in Kind, BankBooks(k)
  PROVE  BankIInv'
<1>1. /\ bank' \in [Kind -> [Day -> 0 .. MaxCopies]]
      /\ \A j \in Kind, d \in Day : d # today => bank'[j][d] = bank[j][d]
  BY DEF BankIInv, BankTypeOK, BankBooks, Day
<1> UNCHANGED <<today, stored, imported, dialog, session, seamless>>
  BY DEF BankBooks
<1>0. today \in Nat /\ imported \in 0 .. today /\ Day \subseteq Nat
  BY DEF BankIInv, BankTypeOK, Day
<1>2. BankTypeOK'
  <2>1. ASSUME NEW j \in Kind, NEW d \in Day, d > today
        PROVE  bank'[j][d] = 0
    <3>1. bank[j][d] = 0 /\ d # today
      BY <1>0, <2>1 DEF BankIInv, BankTypeOK
    <3> QED
      BY <1>1, <3>1
  <2> QED
    BY <1>1, <2>1 DEF BankIInv, BankTypeOK
<1>3. NothingMissed'
  <2>1. ASSUME NEW j \in Kind, NEW d \in Day, d < imported
        PROVE  bank'[j][d] = bank[j][d]
    BY <1>0, <1>1, <2>1
  <2> QED
    BY <2>1 DEF BankIInv, NothingMissed
<1>4. ImportInv'
  <2>1. ASSUME NEW s \in Session, session[s] # Null
        PROVE  NewIsPast(session[s])' /\ (seamless => HoldsAll(session[s])')
    <3>1. session[s] \in Import /\ NewIsPast(session[s])
          /\ (seamless => HoldsAll(session[s]))
      BY <2>1 DEF BankIInv, BankTypeOK, ImportInv
    <3>2. ASSUME NEW d \in Day, d < session[s].began
          PROVE  d # today
      BY <3>1, <3>2 DEF NewIsPast, Import, Day, BankIInv, BankTypeOK
    <3>3. seamless => HoldsAll(session[s])'
      BY <1>1, <3>1, <3>2 DEF HoldsAll, Held
    <3> QED
      BY <3>1, <3>3 DEF NewIsPast
  <2> QED
    BY <2>1 DEF ImportInv
<1> QED
  BY <1>2, <1>3, <1>4 DEF BankIInv

LEMMA NextDayKeeps ==
  ASSUME BankIInv, NextDay
  PROVE  BankIInv'
<1>1. ASSUME NEW s \in Session, session'[s] # Null
      PROVE  /\ session[s] \in Import
             /\ session'[s] \in Import
             /\ session[s] # Null
             /\ \A f \in {"began", "phase", "covers", "statement", "new"} :
                  session'[s][f] = session[s][f]
  BY <1>1 DEF BankIInv, BankTypeOK, NextDay, Import
<1>2. BankTypeOK'
  BY <1>1 DEF BankIInv, BankTypeOK, NextDay, Day
<1>3. NothingMissed'
  BY DEF BankIInv, BankTypeOK, NothingMissed, NextDay, Day
<1>4. ImportInv'
  <2>1. ASSUME NEW s \in Session, session'[s] # Null
        PROVE  NewIsPast(session[s])' /\ (seamless' => HoldsAll(session[s])')
    <3>1. NewIsPast(session[s]) /\ (seamless => HoldsAll(session[s]))
      BY <1>1, <2>1 DEF BankIInv, ImportInv
    <3>2. HoldsAll(session[s])' <=> HoldsAll(session[s])
      BY <1>1, <2>1 DEF HoldsAll, Held, NextDay
    <3>3. /\ session'[s].began = session[s].began /\ session'[s].phase = session[s].phase
          /\ session'[s].new = session[s].new /\ session[s].began \in Day
          /\ session[s].new \in [Kind -> [Day -> 0 .. MaxCopies]]
      BY <1>1, <2>1 DEF Import
    <3>4. NewIsPast(session[s])'
      BY <3>1, <3>3 DEF NewIsPast, NextDay, Day, BankIInv, BankTypeOK
    <3> QED
      BY <3>1, <3>2, <3>4 DEF NextDay
  <2> QED
    BY <2>1 DEF ImportInv
<1> QED
  BY <1>2, <1>3, <1>4 DEF BankIInv

(* The days asked for begin no later than the last import: what is before  *)
(* them is stored, by NothingMissed.                                       *)
LEMMA FetchKeeps ==
  ASSUME BankIInv, NEW s \in Session, NEW from \in Day, NEW to \in Day, Fetch(s, from, to)
  PROVE  BankIInv'
<1> DEFINE answer == Answer(from, to)
           r == [began |-> today, phase |-> "fetched", fresh |-> TRUE,
                 covers |-> Covers(from, to), statement |-> answer, new |-> Empty]
<1>1. answer \in [Kind -> [Day -> 0 .. MaxCopies]] /\ Empty \in [Kind -> [Day -> 0 .. MaxCopies]]
  BY DEF BankIInv, BankTypeOK, Empty, Day, Answer
<1>2. r \in Import
  BY <1>1 DEF BankIInv, BankTypeOK, Import, Covers
<1>3. session' = [session EXCEPT ![s] = r]
  BY DEF Fetch
<1>4. BankTypeOK'
  BY <1>2, <1>3 DEF BankIInv, BankTypeOK, Fetch
<1>5. NothingMissed'
  BY DEF BankIInv, NothingMissed, Fetch
<1>6. NewIsPast(r)
  BY DEF NewIsPast, Empty, BankIInv, BankTypeOK, Day
<1>7. seamless => HoldsAll(r)
  <2>1. ASSUME seamless, r.covers, NEW k \in Kind, NEW d \in Day, d < today, bank[k][d] # 0
        PROVE  answer[k][d] # 0 \/ stored[k][d] # 0
    <3>1. (from = 1 \/ from <= imported) /\ today - 1 <= to
      BY <2>1 DEF Covers
    <3>2. /\ today \in Nat /\ imported \in Nat /\ from \in Nat /\ to \in Nat
          /\ d \in Nat /\ 1 <= d
      BY DEF BankIInv, BankTypeOK, Day
    <3>3. CASE d < from
      <4>1. d < imported
        BY <3>1, <3>2, <3>3
      <4> QED
        BY <2>1, <4>1 DEF BankIInv, NothingMissed
    <3>4. CASE ~(d < from)
      <4>1. d \in from .. to
        BY <2>1, <3>1, <3>2, <3>4
      <4> QED
        BY <2>1, <4>1 DEF Answer
    <3> QED
      BY <3>3, <3>4
  <2>2. Held(r) = answer /\ r.began = today
    BY DEF Held
  <2> HIDE DEF r, answer
  <2> QED
    BY <2>1, <2>2 DEF HoldsAll
<1>8. ImportInv'
  <2> HIDE DEF r
  <2>1. ASSUME NEW x \in Session, session'[x] # Null
        PROVE  NewIsPast(session'[x]) /\ (seamless => HoldsAll(session'[x]))
    BY <1>3, <1>6, <1>7, <2>1 DEF BankIInv, BankTypeOK, ImportInv
  <2> QED
    BY <2>1 DEF ImportInv, NewIsPast, HoldsAll, Fetch
<1> QED
  BY <1>4, <1>5, <1>8 DEF BankIInv

LEMMA ClassifyKeeps ==
  ASSUME BankIInv, NEW s \in Session, Classify(s)
  PROVE  BankIInv'
<1> DEFINE old == session[s]
           r == session'[s]
<1>1. old \in Import /\ NewIsPast(old) /\ (seamless => HoldsAll(old)) /\ old.phase = "fetched"
  BY DEF Classify, BankIInv, BankTypeOK, ImportInv
<1>2. /\ r.began = old.began /\ r.phase = "classified" /\ r.covers = old.covers
      /\ r.new = NewIn(old.statement) /\ r.fresh = old.fresh /\ r.statement = old.statement
      /\ r = [began |-> r.began, phase |-> r.phase, covers |-> r.covers, fresh |-> r.fresh,
              statement |-> r.statement, new |-> r.new]
      /\ \A x \in Session \ {s} : session'[x] = session[x]
      /\ DOMAIN session' = Session /\ session' = [x \in Session |-> session'[x]]
  BY <1>1 DEF Classify, BankIInv, BankTypeOK, Import
<1>3. old.statement \in [Kind -> [Day -> 0 .. MaxCopies]]
  BY <1>1 DEF Import
<1>4. /\ r.new \in [Kind -> [Day -> 0 .. MaxCopies]]
      /\ \A k \in Kind, d \in Day : r.new[k][d] # 0 => d < today
      /\ \A k \in Kind, d \in Day : d < today /\ old.statement[k][d] # 0
           => r.new[k][d] # 0 \/ stored[k][d] # 0
  BY <1>2, <1>3, NewInType DEF BankIInv
<1>5. r \in Import
  BY <1>1, <1>2, <1>3, <1>4 DEF Import
<1>6. BankTypeOK'
  BY <1>2, <1>5 DEF BankIInv, BankTypeOK, Classify
<1>7. NothingMissed'
  BY DEF BankIInv, NothingMissed, Classify
<1>8. NewIsPast(r)
  BY <1>1, <1>2, <1>4 DEF NewIsPast
<1>9. seamless => HoldsAll(r)
  <2>1. ASSUME seamless, r.covers, NEW k \in Kind, NEW d \in Day, d < r.began, bank[k][d] # 0
        PROVE  r.new[k][d] # 0 \/ stored[k][d] # 0
    <3>1. d < today
      BY <1>1, <1>2, <2>1 DEF NewIsPast, Import, BankIInv, BankTypeOK, Day
    <3>2. old.statement[k][d] # 0 \/ stored[k][d] # 0
      BY <1>1, <1>2, <2>1 DEF HoldsAll, Held
    <3> QED
      BY <1>4, <3>1, <3>2
  <2> QED
    BY <1>2, <2>1 DEF HoldsAll, Held
<1>10. ImportInv'
  <2>1. ASSUME NEW x \in Session, session'[x] # Null
        PROVE  NewIsPast(session'[x]) /\ (seamless => HoldsAll(session'[x]))
    BY <1>2, <1>8, <1>9, <2>1 DEF BankIInv, ImportInv
  <2> QED
    BY <2>1 DEF ImportInv, NewIsPast, HoldsAll, Classify
<1> QED
  BY <1>6, <1>7, <1>10 DEF BankIInv

(* Storing takes nothing away, and what the import held is then stored.    *)
LEMMA StoreKeeps ==
  ASSUME BankIInv, NEW s \in Session, Store(s)
  PROVE  BankIInv'
<1> DEFINE r == session[s]
<1>1. /\ r \in Import /\ NewIsPast(r) /\ (seamless => HoldsAll(r)) /\ r.phase = "classified"
      /\ r.began \in Day /\ r.new \in [Kind -> [Day -> 0 .. MaxCopies]]
  BY DEF Store, BankIInv, BankTypeOK, ImportInv, Import
<1>2. /\ stored' \in [Kind -> [Day -> Nat]]
      /\ \A k \in Kind, d \in Day : stored'[k][d] = stored[k][d] + r.new[k][d]
  BY <1>1 DEF Store, BankIInv, BankTypeOK
<1>3. \A k \in Kind, d \in Day : stored[k][d] # 0 \/ r.new[k][d] # 0 => stored'[k][d] # 0
  BY <1>1, <1>2 DEF BankIInv, BankTypeOK
<1>4. ASSUME NEW x \in Session, session'[x] # Null
      PROVE  /\ session[x] \in Import /\ session'[x] \in Import /\ session[x] # Null
             /\ \A f \in {"began", "phase", "covers", "statement", "new"} :
                  session'[x][f] = session[x][f]
  BY <1>4 DEF BankIInv, BankTypeOK, Store, Import
<1>5. imported' = (IF imported < r.began THEN r.began ELSE imported)
  BY DEF Store, ImportedAt
<1>6. BankTypeOK'
  <2>1. imported' \in 0 .. today
    BY <1>1, <1>5 DEF BankIInv, BankTypeOK, NewIsPast, Day
  <2>2. session' \in [Session -> Import \cup {Null}]
    BY <1>4 DEF Store
  <2>3. \A k \in Kind, d \in Day : d >= today => stored'[k][d] = 0
    <3>1. ASSUME NEW k \in Kind, NEW d \in Day, d >= today
          PROVE  stored[k][d] = 0 /\ r.new[k][d] = 0
      <4>1. today \in Nat /\ d \in Nat /\ stored[k][d] = 0
        BY <3>1 DEF BankIInv, BankTypeOK, Day
      <4>2. r.new[k][d] # 0 => d < today
        BY <1>1 DEF NewIsPast
      <4> QED
        BY <3>1, <4>1, <4>2
    <3> QED
      BY <1>2, <3>1 DEF Store
  <2>4. seamless' \in BOOLEAN
    BY DEF Store, BankIInv, BankTypeOK
  <2> QED
    BY <1>2, <2>1, <2>2, <2>3, <2>4 DEF BankIInv, BankTypeOK, Store
<1>7. NothingMissed'
  <2>1. ASSUME seamless', NEW k \in Kind, NEW d \in Day, d < imported', bank[k][d] # 0
        PROVE  stored'[k][d] # 0
    <3>1. seamless /\ r.covers
      BY <2>1 DEF Store
    <3>2. CASE d < imported
      BY <1>3, <2>1, <3>1, <3>2 DEF BankIInv, NothingMissed
    <3>3. CASE d < r.began
      <4>1. r.new[k][d] # 0 \/ stored[k][d] # 0
        BY <1>1, <2>1, <3>1, <3>3 DEF HoldsAll, Held
      <4> QED
        BY <1>3, <4>1
    <3> QED
      BY <1>5, <2>1, <3>2, <3>3
  <2> QED
    BY <2>1 DEF NothingMissed, Store
<1>8. ImportInv'
  <2>1. ASSUME NEW x \in Session, session'[x] # Null
        PROVE  NewIsPast(session'[x])
    <3>1. NewIsPast(session[x])
      BY <1>4, <2>1 DEF BankIInv, ImportInv
    <3> QED
      BY <1>4, <2>1, <3>1 DEF NewIsPast
  <2>2. ASSUME NEW x \in Session, session'[x] # Null, seamless'
        PROVE  HoldsAll(session[x])'
    <3>1. HoldsAll(session[x])
      BY <1>4, <2>2 DEF BankIInv, ImportInv, Store
    <3> QED
      BY <1>3, <1>4, <2>2, <3>1 DEF HoldsAll, Held, Store
  <2> QED
    BY <2>1, <2>2 DEF ImportInv, NewIsPast, Store
<1> QED
  BY <1>6, <1>7, <1>8 DEF BankIInv

LEMMA DiscardKeeps ==
  ASSUME BankIInv, NEW s \in Session, Discard(s)
  PROVE  BankIInv'
<1>1. BankTypeOK'
  BY DEF BankIInv, BankTypeOK, Discard
<1>2. NothingMissed'
  BY DEF BankIInv, NothingMissed, Discard
<1>3. ASSUME NEW x \in Session, session'[x] # Null
      PROVE  session'[x] = session[x]
  BY <1>3 DEF Discard, BankIInv, BankTypeOK
<1>4. ImportInv'
  BY <1>3 DEF BankIInv, ImportInv, NewIsPast, HoldsAll, Held, Discard
<1> QED
  BY <1>1, <1>2, <1>4 DEF BankIInv

(* The dialog with the bank has no part in what is stored. *)
LEMMA DialogKeeps ==
  ASSUME BankIInv, NEW s \in Session, Login(s) \/ SendTan(s)
  PROVE  BankIInv'
<1>1. UNCHANGED <<today, bank, stored, imported, session, seamless>>
  BY DEF Login, SendTan
<1>2. dialog' \in [Session -> {"none", "challenged", "open"}]
  BY DEF BankIInv, BankTypeOK, Login, SendTan
<1> QED
  BY <1>1, <1>2 DEF BankIInv, BankTypeOK, NothingMissed, ImportInv, NewIsPast, HoldsAll, Held

LEMMA StepKeeps == BankIInv /\ [BankNext]_bankVars => BankIInv'
<1> SUFFICES ASSUME BankIInv, [BankNext]_bankVars
             PROVE  BankIInv'
  OBVIOUS
<1>1. CASE \E k \in Kind : BankBooks(k)
  BY <1>1, BankBooksKeeps
<1>2. CASE NextDay
  BY <1>2, NextDayKeeps
<1>3. ASSUME NEW s \in Session, NEW from \in Day, NEW to \in Day, Fetch(s, from, to)
      PROVE  BankIInv'
  BY <1>3, FetchKeeps
<1>4. ASSUME NEW s \in Session, Classify(s)
      PROVE  BankIInv'
  BY <1>4, ClassifyKeeps
<1>5. ASSUME NEW s \in Session, Store(s)
      PROVE  BankIInv'
  BY <1>5, StoreKeeps
<1>6. ASSUME NEW s \in Session, Discard(s)
      PROVE  BankIInv'
  BY <1>6, DiscardKeeps
<1>7. CASE UNCHANGED bankVars
  BY <1>7 DEF bankVars, BankIInv, BankTypeOK, NothingMissed, ImportInv, NewIsPast, HoldsAll, Held
<1>8. ASSUME NEW s \in Session, Login(s) \/ SendTan(s)
      PROVE  BankIInv'
  BY <1>8, DialogKeeps
<1> QED
  BY <1>1, <1>2, <1>3, <1>4, <1>5, <1>6, <1>7, <1>8 DEF BankNext

(* The state has its types; in particular no activity is ever stored for a *)
(* day that is not over, whose movements process_transactions holds back.  *)
THEOREM TypeCorrect == BankSpec => []BankTypeOK
<1>1. BankIInv => BankTypeOK
  BY DEF BankIInv
<1> QED
  BY <1>1, ImportsBegin, StepKeeps, PTL DEF BankSpec

(* As long as every import covers the days that the form proposes, no day  *)
(* before the last import that has a movement at the bank is without one,  *)
(* for any number of overlapping and discarded imports.                    *)
THEOREM NothingEverMissed == BankSpec => []NothingMissed
<1>1. BankIInv => NothingMissed
  BY DEF BankIInv
<1> QED
  BY <1>1, ImportsBegin, StepKeeps, PTL DEF BankSpec

----------------------------------------------------------------------------
(* What an import that nothing has overtaken holds is all the bank has of  *)
(* a day, or nothing, and what it is going to store is not stored yet.     *)
FreshImportInv ==
  \A s \in Session : session[s] # Null /\ session[s].fresh =>
    \A k \in Kind, d \in Day :
      IF session[s].phase = "fetched"
      THEN d < today => session[s].statement[k][d] \in {0, bank[k][d]}
      ELSE session[s].new[k][d] # 0 =>
             session[s].new[k][d] = bank[k][d] /\ stored[k][d] = 0

LEMMA FreshStep ==
  ASSUME BankIInv, FreshImportInv, [BankNext]_bankVars
  PROVE  FreshImportInv'
<1>1. today \in Nat /\ Day \subseteq Nat
  BY DEF BankIInv, BankTypeOK, Day
<1>2. ASSUME NEW s \in Session, session[s] # Null
      PROVE  /\ session[s] \in Import /\ session[s].phase \in {"fetched", "classified"}
             /\ \A k \in Kind, d \in Day : session[s].new[k][d] # 0 => d < today
  BY <1>2 DEF BankIInv, BankTypeOK, ImportInv, NewIsPast, Import
<1>3. ASSUME NEW j \in Kind, BankBooks(j)
      PROVE  FreshImportInv'
  <2>1. \A k \in Kind, d \in Day : d < today => bank'[k][d] = bank[k][d]
    BY <1>1, <1>3 DEF BankBooks, BankIInv, BankTypeOK
  <2>2. UNCHANGED <<today, stored, session>>
    BY <1>3 DEF BankBooks
  <2> QED
    BY <1>2, <2>1, <2>2 DEF FreshImportInv
<1>4. CASE NextDay
  <2>1. ASSUME NEW s \in Session, session'[s] # Null, session'[s].fresh
        PROVE  session'[s] = session[s] /\ session[s].phase # "fetched"
    BY <1>2, <1>4, <2>1 DEF NextDay, Import
  <2> QED
    BY <1>4, <2>1 DEF FreshImportInv, NextDay
<1>5. ASSUME NEW s \in Session, NEW from \in Day, NEW to \in Day, Fetch(s, from, to)
      PROVE  FreshImportInv'
  <2>1. /\ session'[s].phase = "fetched"
        /\ \A k \in Kind, d \in Day : session'[s].statement[k][d] \in {0, bank[k][d]}
        /\ \A x \in Session \ {s} : session'[x] = session[x]
    BY <1>5 DEF Fetch, Answer, BankIInv, BankTypeOK
  <2> QED
    BY <1>5, <2>1 DEF FreshImportInv, Fetch
<1>6. ASSUME NEW s \in Session, Classify(s)
      PROVE  FreshImportInv'
  <2>1. /\ session[s] # Null /\ session[s].phase = "fetched" /\ session[s] \in Import
        /\ session'[s].phase = "classified" /\ session'[s].fresh = session[s].fresh
        /\ session'[s].new = NewIn(session[s].statement)
        /\ \A x \in Session \ {s} : session'[x] = session[x]
    BY <1>2, <1>6 DEF Classify, BankIInv, BankTypeOK, Import
  <2>2. ASSUME session[s].fresh, NEW k \in Kind, NEW d \in Day, session'[s].new[k][d] # 0
        PROVE  session'[s].new[k][d] = bank[k][d] /\ stored[k][d] = 0
    BY <2>1, <2>2 DEF FreshImportInv, NewIn
  <2>3. UNCHANGED <<today, bank, stored>>
    BY <1>6 DEF Classify
  <2> QED
    BY <2>1, <2>2, <2>3 DEF FreshImportInv
<1>7. ASSUME NEW s \in Session, Store(s)
      PROVE  FreshImportInv'
  <2>1. ASSUME NEW x \in Session, session'[x] # Null, session'[x].fresh
        PROVE  /\ session[x] # Null /\ session[x].fresh /\ session'[x].phase = "fetched"
               /\ session[x].phase = "fetched" /\ session'[x].statement = session[x].statement
    BY <1>2, <1>7, <2>1 DEF Store, Import
  <2> QED
    BY <1>7, <2>1 DEF FreshImportInv, Store
<1>8. ASSUME NEW s \in Session, Discard(s)
      PROVE  FreshImportInv'
  <2>1. ASSUME NEW x \in Session, session'[x] # Null
        PROVE  session'[x] = session[x]
    BY <1>8, <2>1 DEF Discard, BankIInv, BankTypeOK
  <2> QED
    BY <1>8, <2>1 DEF FreshImportInv, Discard
<1>9. CASE UNCHANGED bankVars
  BY <1>9 DEF bankVars, FreshImportInv
<1>10. ASSUME NEW s \in Session, Login(s) \/ SendTan(s)
       PROVE  FreshImportInv'
  BY <1>10 DEF Login, SendTan, FreshImportInv
<1> QED
  BY <1>3, <1>4, <1>5, <1>6, <1>7, <1>8, <1>9, <1>10 DEF BankNext

(* The import of a fresh session keeps all movements imported once each or *)
(* not at all, whichever days it and every other session ask for: only two *)
(* imports at once, or midnight, can break it.                             *)
THEOREM FreshAlwaysImportsOnce == BankSpec => FreshImportsOnce
<1>1. BankInit => FreshImportInv
  BY DEF BankInit, FreshImportInv
<1>2. ASSUME BankIInv, FreshImportInv, NEW s \in Session, session[s] # Null, session[s].fresh,
             Store(s), EachMovementOnce
      PROVE  EachMovementOnce'
  <2>1. /\ session[s].phase = "classified"
        /\ bank' = bank
        /\ \A k \in Kind, d \in Day : stored'[k][d] = stored[k][d] + session[s].new[k][d]
    BY <1>2 DEF Store
  <2>2. ASSUME NEW k \in Kind, NEW d \in Day
        PROVE  stored'[k][d] \in {0, bank[k][d]}
    <3>1. /\ stored[k][d] \in Nat /\ bank[k][d] \in Nat
          /\ session[s].new[k][d] \in Nat /\ stored[k][d] \in {0, bank[k][d]}
      BY <1>2 DEF BankIInv, BankTypeOK, Import, EachMovementOnce
    <3>2. session[s].new[k][d] # 0 => session[s].new[k][d] = bank[k][d] /\ stored[k][d] = 0
      BY <1>2, <2>1 DEF FreshImportInv
    <3> QED
      BY <2>1, <3>1, <3>2
  <2> QED
    BY <2>1, <2>2 DEF EachMovementOnce
<1>3. BankIInv /\ FreshImportInv =>
        \A s \in Session : session[s] # Null /\ session[s].fresh /\ Store(s)
          => (EachMovementOnce => EachMovementOnce')
  BY <1>2
<1> QED
  BY <1>1, <1>3, ImportsBegin, StepKeeps, FreshStep, PTL DEF BankSpec, FreshImportsOnce

----------------------------------------------------------------------------
(* What a member is told to expect. *)

LEMMA Product ==
  ASSUME NEW a \in Int, NEW b \in Int, NEW n \in Nat, a <= b
  PROVE  a * n \in Int /\ b * n \in Int /\ a * n <= b * n
<1>1. b = a + (b - a) /\ b - a \in Nat
  OBVIOUS
<1>2. b * n = a * n + (b - a) * n /\ (b - a) * n \in Nat
  BY <1>1
<1> QED
  BY <1>2

LEMMA MonthIs ==
  ASSUME NEW d \in Int
  PROVE  /\ Month(d) \in Int /\ Month(d) * MonthLength <= d /\ d < (Month(d) + 1) * MonthLength
         /\ \A m \in Int : m <= Month(d) <=> m * MonthLength <= d
<1> DEFINE n == MonthLength
<1>1. n \in Nat /\ n > 1
  BY MonthAssumption
<1>2. Month(d) \in Int /\ Month(d) * n <= d /\ d < (Month(d) + 1) * n
  BY <1>1 DEF Month
<1>3. ASSUME NEW m \in Int
      PROVE  m <= Month(d) <=> m * n <= d
  <2>1. m * n \in Int /\ Month(d) * n \in Int /\ (Month(d) + 1) * n \in Int
    BY <1>1, <1>2
  <2>2. m <= Month(d) => m * n <= Month(d) * n
    BY <1>1, <1>2, Product
  <2>3. m >= Month(d) + 1 => m * n >= (Month(d) + 1) * n
    BY <1>1, <1>2, Product
  <2> HIDE DEF n
  <2> QED
    BY <1>2, <2>1, <2>2, <2>3
<1> QED
  BY <1>2, <1>3

(* The two days of booking of a month *)
LEMMA DaysOfBooking ==
  ASSUME NEW m \in Int
  PROVE  /\ DayOf(m, BookingBegin) \in Int /\ DayOf(m, BookingEnd) \in Int /\ m * MonthLength \in Int
         /\ (m + 1) * MonthLength \in Int
         /\ m * MonthLength <= DayOf(m, BookingBegin) /\ DayOf(m, BookingBegin) <= DayOf(m, BookingEnd)
         /\ DayOf(m, BookingEnd) < (m + 1) * MonthLength
BY MonthAssumption, BookingAssumption DEF DayOf

LEMMA HasToPayIs ==
  ASSUME NEW joins \in Int, NEW leaves \in Int, NEW m \in Int
  PROVE  HasToPay(joins, leaves, m) <=>
           \/ joins < DayOf(m, BookingBegin) /\ DayOf(m, BookingBegin) <= leaves
           \/ joins <= DayOf(m, BookingEnd) /\ DayOf(m, BookingEnd) < leaves
<1>1. DayOf(m, BookingBegin) \in Int /\ DayOf(m, BookingEnd) \in Int
  BY DaysOfBooking
<1> QED
  BY <1>1 DEF HasToPay, HasFeeProperty, with_min_time, with_max_time, During

(* A month after this one is charged if the membership lasts until its     *)
(* first day of booking.                                                   *)
LEMMA LaterMonths ==
  ASSUME NEW now \in Nat, NEW joins \in 0 .. now, NEW leaves \in Int, leaves > now,
         NEW m \in Int, m > Month(now + 1)
  PROVE  HasToPay(joins, leaves, m) <=> m <= Month(leaves - (BookingBegin - 1))
<1>1. BookingBegin \in Nat /\ leaves - (BookingBegin - 1) \in Int
  BY BookingAssumption, MonthAssumption
<1>2. m <= Month(leaves - (BookingBegin - 1)) <=> m * MonthLength <= leaves - (BookingBegin - 1)
  BY <1>1, MonthIs
<1>3. m <= Month(leaves - (BookingBegin - 1)) <=> DayOf(m, BookingBegin) <= leaves
  BY <1>1, <1>2, DaysOfBooking, SMTT(30) DEF DayOf
<1>4. joins < m * MonthLength
  <2>1. Month(now + 1) \in Int /\ (m <= Month(now + 1) <=> m * MonthLength <= now + 1)
    BY MonthIs
  <2>2. now + 1 < m * MonthLength
    BY <2>1, DaysOfBooking
  <2> QED
    BY <2>2, DaysOfBooking
<1>5. joins < DayOf(m, BookingBegin) /\ joins <= DayOf(m, BookingEnd)
  BY <1>4, DaysOfBooking
<1>6. joins \in Int
  OBVIOUS
<1>7. HasToPay(joins, leaves, m) <=>
        \/ joins < DayOf(m, BookingBegin) /\ DayOf(m, BookingBegin) <= leaves
        \/ joins <= DayOf(m, BookingEnd) /\ DayOf(m, BookingEnd) < leaves
  BY <1>6, HasToPayIs
<1>8. /\ DayOf(m, BookingBegin) \in Int /\ DayOf(m, BookingEnd) \in Int
      /\ DayOf(m, BookingBegin) <= DayOf(m, BookingEnd)
  BY DaysOfBooking
<1> QED
  BY <1>3, <1>5, <1>7, <1>8

LEMMA OneMonthMore ==
  ASSUME NEW S, IsFiniteSet(S), NEW x, NEW P \in BOOLEAN, x \notin S
  PROVE  /\ IsFiniteSet(S \cup {y \in {x} : P}) /\ Cardinality(S \cup {y \in {x} : P}) = Cardinality(S) + One(P)
         /\ Cardinality(S) \in Nat
<1>1. Cardinality(S) \in Nat
  BY FS_CardinalityType
<1>2. CASE P
  <2>1. S \cup {y \in {x} : P} = S \cup {x}
    BY <1>2
  <2>2. IsFiniteSet(S \cup {x}) /\ Cardinality(S \cup {x}) = Cardinality(S) + 1
    BY FS_AddElement
  <2> QED
    BY <1>1, <1>2, <2>1, <2>2 DEF One
<1>3. CASE ~ P
  <2>1. S \cup {y \in {x} : P} = S
    BY <1>3
  <2> QED
    BY <1>1, <1>3, <2>1 DEF One
<1> QED
  BY <1>2, <1>3

(* What will be charged: last month, this month, and the months to come.   *)
LEMMA ChargedMonths ==
  ASSUME NEW now \in Nat, NEW joins \in 0 .. now, NEW leaves \in Int, leaves > now,
         NEW booked \in SUBSET {Month(now + 1) - 1, Month(now + 1)}
  PROVE  LET this == Month(now + 1)
             to   == Month(leaves - (BookingBegin - 1))
             Is(m) == One(m \notin booked /\ HasToPay(joins, leaves, m))
         IN  Cardinality(WillBeCharged(joins, leaves, now, booked))
             = Is(this - 1) + Is(this) + (IF to > this THEN to - this ELSE 0)
<1> DEFINE this == Month(now + 1)
           to   == Month(leaves - (BookingBegin - 1))
           P(m) == m \notin booked /\ HasToPay(joins, leaves, m)
           later == this + 1 .. to
<1>1. this \in Int /\ to \in Int /\ Month(leaves) \in Int /\ this <= Month(leaves) /\ to <= Month(leaves)
  <2>1. BookingBegin \in Nat /\ BookingBegin > 0 /\ leaves - (BookingBegin - 1) \in Int
    BY BookingAssumption, MonthAssumption
  <2>2. this \in Int /\ to \in Int /\ Month(leaves) \in Int
    BY <2>1, MonthIs
  <2>3. this <= Month(leaves)
    <3>1. this * MonthLength <= now + 1 /\ this * MonthLength \in Int
      BY <2>2, MonthIs, DaysOfBooking
    <3>2. this * MonthLength <= leaves
      BY <3>1
    <3> HIDE DEF this
    <3> QED
      BY <2>2, <3>2, MonthIs
  <2>4. to <= Month(leaves)
    <3>1. to * MonthLength <= leaves - (BookingBegin - 1) /\ to * MonthLength \in Int
      BY <2>1, <2>2, MonthIs, DaysOfBooking
    <3>2. to * MonthLength <= leaves
      BY <2>1, <3>1
    <3> HIDE DEF to
    <3> QED
      BY <2>2, <3>2, MonthIs
  <2> QED
    BY <2>2, <2>3, <2>4
<1>2. \A m \in Int : m > this => (HasToPay(joins, leaves, m) <=> m <= to) /\ m \notin booked
  <2>1. \A m \in Int : m > this => (HasToPay(joins, leaves, m) <=> m <= to)
    BY LaterMonths
  <2> HIDE DEF to
  <2> QED
    BY <1>1, <2>1
<1> HIDE DEF this, to
<1>3. WillBeCharged(joins, leaves, now, booked) = (later \cup {y \in {this} : P(this)}) \cup {y \in {this - 1} : P(this - 1)}
  <2>1. WillBeCharged(joins, leaves, now, booked) = {m \in this - 1 .. Month(leaves) : P(m)}
    BY DEF WillBeCharged, this
  <2>2. ASSUME NEW m \in this - 1 .. Month(leaves)
        PROVE  P(m) <=> m \in (later \cup {y \in {this} : P(this)}) \cup {y \in {this - 1} : P(this - 1)}
    <3>1. m \in Int /\ (m = this - 1 \/ m = this \/ m > this)
      BY <1>1
    <3>2. CASE m > this
      <4>1. P(m) <=> m \in later
        BY <1>1, <1>2, <3>1, <3>2
      <4>2. m # this /\ m # this - 1
        BY <1>1, <3>1, <3>2
      <4> QED
        BY <4>1, <4>2
    <3>3. CASE m = this
      <4>1. m \notin later /\ m # this - 1
        BY <1>1, <3>3
      <4> QED
        BY <3>3, <4>1
    <3>4. CASE m = this - 1
      <4>1. m \notin later /\ m # this
        BY <1>1, <3>4
      <4> QED
        BY <3>4, <4>1
    <3> QED
      BY <3>1, <3>2, <3>3, <3>4
  <2>3. (later \cup {y \in {this} : P(this)}) \cup {y \in {this - 1} : P(this - 1)} \subseteq this - 1 .. Month(leaves)
    BY <1>1
  <2> HIDE DEF P, later
  <2> QED
    BY <2>1, <2>2, <2>3
<1>4. IsFiniteSet(later) /\ Cardinality(later) = (IF to > this THEN to - this ELSE 0) /\ Cardinality(later) \in Nat
  <2>1. this + 1 \in Int /\ to \in Int
    BY <1>1
  <2>2. /\ IsFiniteSet(this + 1 .. to)
        /\ Cardinality(this + 1 .. to) = IF this + 1 > to THEN 0 ELSE to - (this + 1) + 1
    BY <2>1, FS_Interval
  <2> QED
    BY <1>1, <2>2
<1>5. this \notin later /\ this - 1 \notin later \cup {y \in {this} : P(this)}
  BY <1>1
<1>6. P(this) \in BOOLEAN /\ P(this - 1) \in BOOLEAN
  BY DEF HasToPay, HasFeeProperty
<1> HIDE DEF later
<1>7. /\ IsFiniteSet(later \cup {y \in {this} : P(this)})
      /\ Cardinality(later \cup {y \in {this} : P(this)}) = Cardinality(later) + One(P(this))
  <2> HIDE DEF P
  <2> QED
    BY <1>4, <1>5, <1>6, OneMonthMore
<1>8. Cardinality(WillBeCharged(joins, leaves, now, booked)) = (Cardinality(later) + One(P(this))) + One(P(this - 1))
  <2>1. PICK S : S = later \cup {y \in {this} : P(this)}
    OBVIOUS
  <2>2. PICK p : p = P(this - 1)
    OBVIOUS
  <2> HIDE DEF P
  <2>3. IsFiniteSet(S) /\ this - 1 \notin S /\ p \in BOOLEAN
    BY <1>5, <1>6, <1>7, <2>1, <2>2
  <2>4. Cardinality(S \cup {y \in {this - 1} : p}) = Cardinality(S) + One(p)
    BY <2>3, OneMonthMore
  <2>5. WillBeCharged(joins, leaves, now, booked) = S \cup {y \in {this - 1} : p}
    BY <1>3, <2>1, <2>2
  <2> QED
    BY <1>7, <2>1, <2>2, <2>4, <2>5
<1>9. One(P(this)) \in Nat /\ One(P(this - 1)) \in Nat
  BY DEF One
<1>10. Cardinality(WillBeCharged(joins, leaves, now, booked))
       = One(P(this - 1)) + One(P(this)) + (IF to > this THEN to - this ELSE 0)
  <2> HIDE DEF P
  <2> QED
    BY <1>1, <1>4, <1>8, <1>9
<1> QED
  BY <1>10 DEF this, to

(* estimate_balance says what post_transactions_for_membership_fee will    *)
(* charge until the membership ends, but in the three cases of Fees: on    *)
(* every day, whenever the membership began and ends, and for any length   *)
(* of a month and any days of booking in it.                               *)
THEOREM EstimateIsExact == EstimateIsRightFor(Nat, Nat)
<1>1. ASSUME NEW now \in Nat, NEW joins \in 0 .. now, NEW leaves \in Nat, leaves > now,
             NEW booked \in Bookings(joins, now)
      PROVE  \/ MonthsToPay(joins, leaves, now, booked)
                = Cardinality(WillBeCharged(joins, leaves, now, booked))
             \/ JoinedOnLastDay(joins, now, booked)
             \/ GivesBack(joins, leaves, now, booked)
             \/ ComesAndGoes(joins, leaves, now)
  <2> DEFINE this == Month(now + 1)
             to   == Month(leaves - (BookingBegin - 1))
             Begins(m) == DayOf(m, BookingBegin)
             Ends(m)   == DayOf(m, BookingEnd)
             Charged(m) == m \notin booked /\ HasToPay(joins, leaves, m)
             Due(m)     == joins < Ends(m)
  <2> SUFFICES ASSUME ~ JoinedOnLastDay(joins, now, booked), ~ GivesBack(joins, leaves, now, booked),
                      ~ ComesAndGoes(joins, leaves, now)
               PROVE  MonthsToPay(joins, leaves, now, booked)
                      = Cardinality(WillBeCharged(joins, leaves, now, booked))
    OBVIOUS
  <2>1. joins \in Int /\ this \in Int /\ to \in Int /\ this - 1 \in Int /\ BookingBegin \in Int
    BY BookingAssumption, MonthAssumption, MonthIs
  <2>2. \A m \in {this - 1, this} :
          /\ Begins(m) \in Int /\ Ends(m) \in Int /\ Begins(m) <= Ends(m)
          /\ HasToPay(joins, leaves, m) <=>
               \/ joins < Begins(m) /\ Begins(m) <= leaves
               \/ joins <= Ends(m) /\ Ends(m) < leaves
    <3>1. ASSUME NEW m \in Int
          PROVE  /\ Begins(m) \in Int /\ Ends(m) \in Int /\ Begins(m) <= Ends(m)
                 /\ HasToPay(joins, leaves, m) <=>
                      \/ joins < Begins(m) /\ Begins(m) <= leaves
                      \/ joins <= Ends(m) /\ Ends(m) < leaves
      <4>1. Begins(m) \in Int /\ Ends(m) \in Int /\ Begins(m) <= Ends(m)
        BY DaysOfBooking
      <4>2. leaves \in Int /\ joins \in Int
        OBVIOUS
      <4> QED
        BY <4>1, <4>2, HasToPayIs
    <3>2. \A m \in {this - 1, this} : m \in Int
      BY <2>1
    <3> QED
      BY <3>1, <3>2
  <2>a. joins <= now /\ joins < leaves /\ now + 1 <= leaves
    BY <1>1
  <2>3. booked \in SUBSET {this - 1, this} /\ \A m \in booked : joins <= Ends(m)
    <3>1. booked \in SUBSET {m \in {this - 1, this} : During(joins) <= with_max_time(Ends(m))}
      BY DEF Bookings
    <3>2. \A m \in {this - 1, this} : During(joins) <= with_max_time(Ends(m)) => joins <= Ends(m)
      BY <2>1, <2>2 DEF During, with_max_time
    <3> QED
      BY <3>1, <3>2
  <2>4. MonthsToPay(joins, leaves, now, booked)
        = to - this + One(Due(this)) + One(this - 1 \notin booked /\ Due(this - 1)) - One(this \in booked)
    <3>1. \A m \in {this - 1, this} : has_property(joins, with_min_time(Ends(m))) <=> Due(m)
      BY <2>1, <2>2 DEF has_property, During, with_min_time
    <3>2. Month(leaves - (BookingBegin - 1)) = to /\ diff_month(leaves - (BookingBegin - 1), now + 1) = to - this
      BY DEF diff_month
    <3>3. /\ One(has_property(joins, with_min_time(Ends(this)))) = One(Due(this))
          /\ One(this - 1 \notin booked /\ has_property(joins, with_min_time(Ends(this - 1))))
             = One(this - 1 \notin booked /\ Due(this - 1))
          /\ One(~ Outstanding(this, booked)) = One(this \in booked)
      BY <3>1 DEF One, Outstanding
    <3> HIDE DEF to, Due
    <3> QED
      BY <3>2, <3>3 DEF MonthsToPay, Outstanding
  <2>5. Cardinality(WillBeCharged(joins, leaves, now, booked))
        = One(Charged(this - 1)) + One(Charged(this)) + (IF to > this THEN to - this ELSE 0)
    <3>1. leaves \in Int /\ booked \in SUBSET {Month(now + 1) - 1, Month(now + 1)}
      BY <2>3
    <3>2. joins \in 0 .. now /\ now \in Nat /\ leaves > now
      BY <1>1
    <3>3. Cardinality(WillBeCharged(joins, leaves, now, booked))
          = One(Month(now + 1) - 1 \notin booked /\ HasToPay(joins, leaves, Month(now + 1) - 1))
            + One(Month(now + 1) \notin booked /\ HasToPay(joins, leaves, Month(now + 1)))
            + (IF Month(leaves - (BookingBegin - 1)) > Month(now + 1)
               THEN Month(leaves - (BookingBegin - 1)) - Month(now + 1) ELSE 0)
      <4> HIDE DEF this, to, Charged
      <4> QED
        BY <3>1, <3>2, ChargedMonths
    <3> QED
      BY <3>3
  <2>6. this * MonthLength <= now + 1 /\ Ends(this - 1) < this * MonthLength /\ this * MonthLength \in Int
    BY <2>1, MonthIs, DaysOfBooking
  <2>7. this - 1 <= to /\ (this <= to <=> Begins(this) <= leaves)
    <3>1. leaves - (BookingBegin - 1) \in Int /\ BookingBegin - 1 < MonthLength
      BY <2>1, BookingAssumption, MonthAssumption
    <3>2. \A m \in Int : m <= to <=> m * MonthLength <= leaves - (BookingBegin - 1)
      BY <3>1, MonthIs
    <3>3. (this - 1) * MonthLength = this * MonthLength - MonthLength
      BY <2>1, MonthAssumption
    <3>4. (this - 1) * MonthLength <= leaves - (BookingBegin - 1)
      <4>1. PICK p : p = this * MonthLength
        OBVIOUS
      <4>2. p \in Int /\ p <= now + 1 /\ MonthLength \in Int /\ (this - 1) * MonthLength = p - MonthLength
        BY <2>6, <3>3, <4>1, MonthAssumption
      <4> HIDE DEF this
      <4> QED
        BY <2>1, <2>a, <3>1, <4>2
    <3>5. Begins(this) <= leaves <=> this * MonthLength <= leaves - (BookingBegin - 1)
      BY <2>1, <2>6 DEF DayOf
    <3> HIDE DEF to, Begins
    <3> QED
      BY <2>1, <3>2, <3>4, <3>5
  <2>8. Charged(this - 1) <=> this - 1 \notin booked /\ Due(this - 1)
    <3>1. joins = Ends(this - 1) => this - 1 \in booked
      BY DEF JoinedOnLastDay, Outstanding
    <3>2. /\ Begins(this - 1) \in Int /\ Ends(this - 1) \in Int /\ Begins(this - 1) <= Ends(this - 1)
          /\ HasToPay(joins, leaves, this - 1) <=>
               \/ joins < Begins(this - 1) /\ Begins(this - 1) <= leaves
               \/ joins <= Ends(this - 1) /\ Ends(this - 1) < leaves
      BY <2>2
    <3> HIDE DEF this, Begins, Ends
    <3>3. Ends(this - 1) < leaves
      BY <2>6, <2>a, <3>2
    <3> QED
      BY <2>1, <3>1, <3>2, <3>3
  <2>9. joins # Ends(this)
    <3>1. this # this - 1
      BY <2>1
    <3> QED
      BY <3>1 DEF JoinedOnLastDay
  <2>10. to - this + One(Due(this)) - One(this \in booked)
         = One(Charged(this)) + (IF to > this THEN to - this ELSE 0)
    <3>1. CASE this <= to
      <4>1. CASE this \in booked
        <5>1. Due(this) /\ ~ Charged(this)
          BY <2>1, <2>2, <2>3, <2>9, <4>1
        <5> HIDE DEF this, to, Due, Charged
        <5> QED
          BY <2>1, <3>1, <4>1, <5>1 DEF One
      <4>2. CASE this \notin booked
        <5>1. Begins(this) <= leaves /\ ~ (joins >= Begins(this) /\ leaves <= Ends(this))
          BY <2>7, <3>1 DEF ComesAndGoes
        <5>2. Due(this) <=> Charged(this)
          <6> HIDE DEF this, Begins, Ends
          <6> QED
            BY <2>1, <2>2, <2>9, <4>2, <5>1
        <5> HIDE DEF this, to, Due, Charged
        <5> QED
          BY <2>1, <3>1, <4>2, <5>2 DEF One
      <4> QED
        BY <4>1, <4>2
    <3>2. CASE ~ (this <= to)
      <4>1. leaves < Begins(this) /\ to = this - 1
        BY <2>1, <2>2, <2>7, <3>2
      <4>2. this \notin booked
        BY <4>1 DEF GivesBack
      <4>3. Due(this) /\ ~ Charged(this)
        <5>1. /\ Begins(this) \in Int /\ Ends(this) \in Int /\ Begins(this) <= Ends(this)
              /\ HasToPay(joins, leaves, this) <=>
                   \/ joins < Begins(this) /\ Begins(this) <= leaves
                   \/ joins <= Ends(this) /\ Ends(this) < leaves
          BY <2>2
        <5> HIDE DEF this, Begins, Ends
        <5> QED
          BY <2>1, <2>a, <4>1, <5>1
      <4> HIDE DEF this, to, Due, Charged
      <4> QED
        BY <2>1, <4>1, <4>2, <4>3 DEF One
    <3> QED
      BY <3>1, <3>2
  <2>11. One(Charged(this - 1)) = One(this - 1 \notin booked /\ Due(this - 1))
    BY <2>8 DEF One
  <2>12. /\ One(Charged(this - 1)) \in Int /\ One(Charged(this)) \in Int
         /\ One(Due(this)) \in Int /\ One(this \in booked) \in Int
    BY DEF One
  <2> HIDE DEF this, to, Due, Charged
  <2> QED
    BY <2>1, <2>4, <2>5, <2>10, <2>11, <2>12
<1>2. EstimateIsRightFor(Nat, Nat)
  BY <1>1 DEF EstimateIsRightFor
<1> QED
  BY <1>2

(* The same of the days that a run looks at: what the web interface tells  *)
(* a member who asks is what the books will show.                          *)
THEOREM EstimateAlwaysRight == Spec => []EstimateIsRight
<1>1. MonthLength .. 2 * MonthLength - 1 \subseteq Nat /\ 0 .. 4 * MonthLength - 1 \subseteq Nat
  BY MonthAssumption
<1>2. \A days, ends \in SUBSET Nat : EstimateIsRightFor(days, ends)
  BY EstimateIsExact DEF EstimateIsRightFor
<1>3. EstimateIsRight
  BY <1>1, <1>2 DEF EstimateIsRight
<1> QED
  BY <1>3, PTL
=============================================================================
