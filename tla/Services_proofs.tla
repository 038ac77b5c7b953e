--------------------------- MODULE Services_proofs ---------------------------
(***************************************************************************)
(* Proofs about the services around the pipeline, for every value of their  *)
(* constants.  The services share no state: each is proved on its own       *)
(* specification, and the result carries over to Services.                  *)
(***************************************************************************)
EXTENDS Services, FiniteSetTheorems, TLAPS

-----------------------------------------------------------------------------
(* Numbers and lists. *)

(* A set of naturals that is not empty has a least element. *)
LEMMA LowestNumber ==
  ASSUME NEW S \in SUBSET Nat, S # {}
  PROVE  Min(S) \in S /\ \A k \in S : Min(S) <= k
  <1>1. PICK m \in S : \A k \in S : <<k, m>> \notin OpToRel(<, Nat)
    BY NatLessThanWellFounded, WFMin
  <1>2. \A k \in S : ~(k < m)
    BY <1>1 DEF OpToRel
  <1>3. \A k \in S : m <= k
    BY <1>2
  <1> QED
    BY <1>3 DEF Min

(* u is the list t behind the list s. *)
Joins(u, s, t) ==
  /\ \A k \in DOMAIN u :
        \/ k \in DOMAIN s /\ u[k] = s[k]
        \/ k > Len(s) /\ k - Len(s) \in DOMAIN t /\ u[k] = t[k - Len(s)]
  /\ \A k \in DOMAIN s : k \in DOMAIN u /\ u[k] = s[k]
  /\ \A k \in DOMAIN t : k + Len(s) \in DOMAIN u /\ u[k + Len(s)] = t[k]

(* What is in one list behind another. *)
LEMMA Concatenated ==
  ASSUME NEW S, NEW s \in Seq(S), NEW t \in Seq(S), NEW u, u = s \o t
  PROVE  u \in Seq(S) /\ Len(u) = Len(s) + Len(t) /\ Joins(u, s, t)
  <1>1. /\ u \in Seq(S) /\ Len(u) = Len(s) + Len(t) /\ Len(s) \in Nat /\ Len(t) \in Nat
        /\ \A k \in 1..Len(u) : u[k] = IF k <= Len(s) THEN s[k] ELSE t[k - Len(s)]
    OBVIOUS
  <1>2. DOMAIN u = 1..Len(u) /\ DOMAIN s = 1..Len(s) /\ DOMAIN t = 1..Len(t)
    BY <1>1
  <1>3. ASSUME NEW k \in DOMAIN u
        PROVE  \/ k \in DOMAIN s /\ u[k] = s[k]
               \/ k > Len(s) /\ k - Len(s) \in DOMAIN t /\ u[k] = t[k - Len(s)]
    <2>1. k \in 1..Len(u)
      BY <1>2
    <2>2. \/ k \in 1..Len(s) /\ u[k] = s[k]
          \/ k > Len(s) /\ k - Len(s) \in 1..Len(t) /\ u[k] = t[k - Len(s)]
      BY <1>1, <2>1
    <2> QED
      BY <1>2, <2>2
  <1>4. ASSUME NEW k \in DOMAIN t PROVE k + Len(s) \in DOMAIN u /\ u[k + Len(s)] = t[k]
    <2>1. k \in 1..Len(t)
      BY <1>2
    <2>2. k + Len(s) \in 1..Len(u) /\ u[k + Len(s)] = t[k]
      BY <1>1, <2>1
    <2> QED
      BY <1>2, <2>2
  <1>5. ASSUME NEW k \in DOMAIN s PROVE k \in DOMAIN u /\ u[k] = s[k]
    <2>1. k \in 1..Len(s)
      BY <1>2
    <2>2. k \in 1..Len(u) /\ u[k] = s[k]
      BY <1>1, <2>1
    <2> QED
      BY <1>2, <2>2
  <1>6. Joins(u, s, t)
    BY <1>3, <1>4, <1>5, Zenon DEF Joins
  <1> QED
    BY <1>1, <1>6

(* The end of a list. *)
LEMMA EndOf ==
  ASSUME NEW S, NEW s \in Seq(S), NEW k \in Nat, k <= Len(s), NEW u, u = SubSeq(s, k + 1, Len(s))
  PROVE  /\ u \in Seq(S) /\ Len(u) = Len(s) - k
         /\ \A i \in 1..(Len(s) - k) : u[i] = s[k + i]
  OBVIOUS

(* A position of a list, and what is there. *)
LEMMA EntryOf ==
  ASSUME NEW S, NEW s \in Seq(S), NEW i \in DOMAIN s
  PROVE  i \in Nat \ {0} /\ i <= Len(s) /\ s[i] \in S
  OBVIOUS

(* A list without its first entry. *)
LEMMA RestOf ==
  ASSUME NEW S, NEW s \in Seq(S), s # <<>>
  PROVE  /\ Tail(s) \in Seq(S) /\ Len(Tail(s)) = Len(s) - 1 /\ Len(s) \in Nat
         /\ \A i \in 1..(Len(s) - 1) : Tail(s)[i] = s[i + 1]
  OBVIOUS

(* A list of the members of a finite set has each of them once. *)
LEMMA ListOf ==
  ASSUME NEW S, IsFiniteSet(S)
  PROVE  /\ SetToSeq(S) \in Seq(S)
         /\ \A i, j \in DOMAIN SetToSeq(S) : SetToSeq(S)[i] = SetToSeq(S)[j] => i = j
  <1> DEFINE n == Cardinality(S)
             f == SetToSeq(S)
  <1>1. n \in Nat /\ ExistsBijection(1..n, S)
    BY FS_CardinalityType
  <1>2. \E g \in [1..n -> S] : IsInjective(g)
    BY <1>1 DEF ExistsBijection, Bijection, Injection
  <1>3. f \in [1..n -> S] /\ IsInjective(f)
    BY <1>2 DEF SetToSeq
  <1> HIDE DEF f, n
  <1>4. f \in Seq(S)
    BY <1>1, <1>3
  <1>5. \A i, j \in DOMAIN f : f[i] = f[j] => i = j
    BY <1>3 DEF IsInjective
  <1> QED
    BY <1>4, <1>5 DEF f

-----------------------------------------------------------------------------
(* Sums over finite sets.  What is said of every part of a finite set is shown by
   taking the smallest part of which it is false. *)

(* Among sets of members of a finite set there is one from which nothing can be
   taken away without leaving them. *)
LEMMA SmallestSet ==
  ASSUME NEW S, IsFiniteSet(S), NEW B \in SUBSET SUBSET S, B # {}
  PROVE  \E T \in B : \A x \in T : T \ {x} \notin B
  <1>1. IsWellFoundedOn(StrictSubsetOrdering(S), FiniteSubsetsOf(S)) /\ FiniteSubsetsOf(S) = SUBSET S
    BY FS_StrictSubsetOrderingWellFounded, FS_FiniteSubsetsOfFinite
  <1>2. PICK T \in B : \A U \in B : <<U, T>> \notin StrictSubsetOrdering(S)
    BY <1>1, WFMin
  <1>3. ASSUME NEW x \in T PROVE T \ {x} \notin B
    <2>1. <<T \ {x}, T>> \in StrictSubsetOrdering(S)
      BY DEF StrictSubsetOrdering
    <2> QED
      BY <1>2, <2>1
  <1> QED
    BY <1>3

(* g gives every part of S the sum of f over it. *)
Additive(g, f, S) ==
  /\ g \in [SUBSET S -> Nat] /\ g[{}] = 0
  /\ \A T \in SUBSET S : \A x \in S \ T : g[T \cup {x}] = g[T] + f[x]

(* There is such a g. *)
LEMMA AdditiveExists ==
  ASSUME NEW S, IsFiniteSet(S), NEW f \in [S -> Nat]
  PROVE  \E g : Additive(g, f, S)
  <1> DEFINE B == {T \in SUBSET S : ~\E g : Additive(g, f, T)}
  <1> SUFFICES ASSUME B # {} PROVE FALSE
    OBVIOUS
  <1>1. PICK T \in B : \A x \in T : T \ {x} \notin B
    BY SmallestSet
  <1>2. T # {}
    <2> DEFINE g == [s \in SUBSET {} |-> 0]
    <2>1. Additive(g, f, {})
      BY DEF Additive
    <2> HIDE DEF g
    <2> QED
      BY <2>1
  <1>3. PICK x \in T : TRUE
    BY <1>2
  <1>4. PICK h : Additive(h, f, T \ {x})
    BY <1>1, <1>3
  <1> DEFINE g == [s \in SUBSET T |-> IF x \in s THEN h[s \ {x}] + f[x] ELSE h[s]]
  <1>5. Additive(g, f, T)
    <2>1. f[x] \in Nat /\ h \in [SUBSET (T \ {x}) -> Nat] /\ h[{}] = 0
      BY <1>4 DEF Additive
    <2>2. \A s \in SUBSET T : s \ {x} \in SUBSET (T \ {x}) /\ (x \notin s => s \in SUBSET (T \ {x}))
      OBVIOUS
    <2>3. g \in [SUBSET T -> Nat] /\ g[{}] = 0
      BY <2>1, <2>2
    <2>4. ASSUME NEW U \in SUBSET T, NEW y \in T \ U PROVE g[U \cup {y}] = g[U] + f[y]
      <3>1. U \cup {y} \in SUBSET T /\ f[y] \in Nat
        OBVIOUS
      <3>2. CASE y = x
        <4>1. (U \cup {y}) \ {x} = U /\ x \notin U
          BY <3>2
        <4>2. g[U \cup {y}] = h[U] + f[x] /\ g[U] = h[U]
          BY <3>1, <3>2, <4>1
        <4> QED
          BY <3>2, <4>2
      <3>3. CASE y # x /\ x \in U
        <4>1. (U \cup {y}) \ {x} = (U \ {x}) \cup {y} /\ y \in (T \ {x}) \ (U \ {x})
              /\ U \ {x} \in SUBSET (T \ {x})
          BY <3>3
        <4>2. h[(U \ {x}) \cup {y}] = h[U \ {x}] + f[y]
          BY <1>4, <4>1 DEF Additive
        <4>3. g[U \cup {y}] = h[U \ {x}] + f[y] + f[x] /\ g[U] = h[U \ {x}] + f[x]
          BY <3>1, <3>3, <4>1, <4>2
        <4>4. h[U \ {x}] \in Nat
          BY <2>1, <4>1
        <4> HIDE DEF g
        <4> QED
          BY <2>1, <3>1, <4>3, <4>4
      <3>4. CASE y # x /\ x \notin U
        <4>1. x \notin U \cup {y} /\ y \in (T \ {x}) \ U /\ U \in SUBSET (T \ {x})
          BY <3>4
        <4>2. h[U \cup {y}] = h[U] + f[y]
          BY <1>4, <4>1 DEF Additive
        <4> QED
          BY <3>1, <3>4, <4>1, <4>2
      <3> QED
        BY <3>2, <3>3, <3>4
    <2> HIDE DEF g
    <2> QED
      BY <2>3, <2>4 DEF Additive
  <1> HIDE DEF g
  <1> QED
    BY <1>5

(* What the fold computes with: it takes an element away and adds its value. *)
Folds(h, f, S) ==
  h = [s \in SUBSET S |-> IF s = {} THEN 0
                          ELSE f[CHOOSE y \in s : TRUE] + h[s \ {CHOOSE y \in s : TRUE}]]

(* Whatever the fold computes with, its value for S is the sum. *)
LEMMA SumFolds ==
  ASSUME NEW S, NEW f, NEW g, Folds(g, f, S)
  PROVE  \E h : Folds(h, f, S) /\ SumFunctionOnSet(f, S) = h[S]
  <1> DEFINE iter == CHOOSE h : Folds(h, f, S)
  <1>1. Folds(iter, f, S)
    OBVIOUS
  <1>2. SumFunctionOnSet(f, S) = iter[S]
    BY DEF SumFunctionOnSet, FoldFunctionOnSet, MapThenFoldSet, Folds
  <1> QED
    BY <1>1, <1>2

(* The fold is the sum. *)
LEMMA SumIs ==
  ASSUME NEW S, IsFiniteSet(S), NEW f \in [S -> Nat], NEW g, Additive(g, f, S)
  PROVE  SumFunctionOnSet(f, S) = g[S]
  <1> DEFINE any(s) == CHOOSE y \in s : TRUE
  <1>1. ASSUME NEW s \in SUBSET S, s # {}
        PROVE  /\ any(s) \in s /\ s \ {any(s)} \in SUBSET S
               /\ g[s] = f[any(s)] + g[s \ {any(s)}]
    <2>1. any(s) \in s
      BY <1>1
    <2> DEFINE x == any(s)
    <2> HIDE DEF any
    <2>2. s \ {x} \in SUBSET S /\ x \in S \ (s \ {x}) /\ (s \ {x}) \cup {x} = s
      BY <2>1
    <2>3. g[s] = g[s \ {x}] + f[x] /\ g[s \ {x}] \in Nat /\ f[x] \in Nat
      BY <2>2 DEF Additive
    <2> HIDE DEF x
    <2>4. g[s] = f[x] + g[s \ {x}]
      BY <2>3
    <2> QED
      BY <2>1, <2>2, <2>4 DEF x
  <1>2. Folds(g, f, S)
    <2>1. g = [s \in SUBSET S |-> g[s]] /\ g[{}] = 0
      BY DEF Additive
    <2>2. \A s \in SUBSET S : g[s] = IF s = {} THEN 0 ELSE f[any(s)] + g[s \ {any(s)}]
      BY <1>1, <2>1
    <2> QED
      BY <2>1, <2>2, Zenon DEF Folds
  <1>3. PICK h : Folds(h, f, S) /\ SumFunctionOnSet(f, S) = h[S]
    BY <1>2, SumFolds
  <1> DEFINE B == {T \in SUBSET S : h[T] # g[T]}
  <1>4. B = {}
    <2> SUFFICES ASSUME B # {} PROVE FALSE
      OBVIOUS
    <2>1. PICK T \in B : \A x \in T : T \ {x} \notin B
      BY SmallestSet
    <2>2. T # {}
      BY <1>3, <2>1 DEF Folds, Additive
    <2>3. any(T) \in T /\ T \ {any(T)} \in SUBSET S /\ g[T] = f[any(T)] + g[T \ {any(T)}]
      BY <1>1, <2>2
    <2>4. h[T] = f[any(T)] + h[T \ {any(T)}]
      BY <1>3, <2>1, <2>2, Zenon DEF Folds
    <2>5. h[T \ {any(T)}] = g[T \ {any(T)}]
      BY <2>1, <2>3
    <2> HIDE DEF any
    <2> QED
      BY <2>1, <2>3, <2>4, <2>5
  <1> QED
    BY <1>3, <1>4

(* So a sum has such a g. *)
LEMMA SumOver ==
  ASSUME NEW S, IsFiniteSet(S), NEW f \in [S -> Nat]
  PROVE  \E g : Additive(g, f, S) /\ SumFunction(f) = g[S] /\ g[S] \in Nat
  <1>1. PICK g : Additive(g, f, S)
    BY AdditiveExists
  <1>2. SumFunctionOnSet(f, S) = g[S]
    BY <1>1, SumIs
  <1>3. DOMAIN f = S /\ g[S] \in Nat
    BY <1>1 DEF Additive
  <1> HIDE DEF SumFunction
  <1>4. SumFunction(f) = SumFunctionOnSet(f, DOMAIN f)
    BY Zenon DEF SumFunction
  <1> QED
    BY <1>1, <1>2, <1>3, <1>4, Zenon

(* The sum of nothing but zeros is zero. *)
LEMMA SumOfZeros ==
  ASSUME NEW S, IsFiniteSet(S)
  PROVE  SumFunction([x \in S |-> 0]) = 0
  <1> DEFINE f == [x \in S |-> 0]
             g == [T \in SUBSET S |-> 0]
  <1>1. f \in [S -> Nat] /\ DOMAIN f = S /\ g[S] = 0
    OBVIOUS
  <1>2. Additive(g, f, S)
    BY DEF Additive
  <1> HIDE DEF f, g
  <1>3. SumFunctionOnSet(f, S) = g[S]
    BY <1>1, <1>2, SumIs
  <1>4. SumFunction(f) = 0
    BY <1>1, <1>3, Zenon DEF SumFunction
  <1> QED
    BY <1>4 DEF f

(* What is added to one value is added to the sum. *)
LEMMA SumOfChange ==
  ASSUME NEW S, IsFiniteSet(S), NEW f \in [S -> Nat], NEW x \in S, NEW c \in Nat
  PROVE  SumFunction([f EXCEPT ![x] = @ + c]) = SumFunction(f) + c
  <1>1. PICK g : Additive(g, f, S) /\ SumFunction(f) = g[S] /\ g[S] \in Nat
    BY SumOver
  <1> DEFINE e == [f EXCEPT ![x] = @ + c]
             h == [T \in SUBSET S |-> IF x \in T THEN g[T] + c ELSE g[T]]
  <1>2. e \in [S -> Nat] /\ DOMAIN e = S /\ h[S] = g[S] + c
    OBVIOUS
  <1>3. Additive(h, e, S)
    <2>1. g \in [SUBSET S -> Nat] /\ g[{}] = 0
      BY <1>1 DEF Additive
    <2>2. h \in [SUBSET S -> Nat] /\ h[{}] = 0
      BY <2>1
    <2>3. ASSUME NEW T \in SUBSET S, NEW y \in S \ T PROVE h[T \cup {y}] = h[T] + e[y]
      <3>1. T \cup {y} \in SUBSET S /\ g[T \cup {y}] = g[T] + f[y]
        BY <1>1 DEF Additive
      <3>2. g[T] \in Nat /\ f[y] \in Nat /\ e[y] = IF y = x THEN f[y] + c ELSE f[y]
        BY <2>1
      <3>3. /\ h[T] = IF x \in T THEN g[T] + c ELSE g[T]
            /\ h[T \cup {y}] = IF x \in T \cup {y} THEN g[T] + f[y] + c ELSE g[T] + f[y]
        BY <3>1
      <3> HIDE DEF e, h
      <3> QED
        BY <3>2, <3>3
    <2> HIDE DEF e, h
    <2> QED
      BY <2>2, <2>3 DEF Additive
  <1> HIDE DEF e, h
  <1>4. SumFunctionOnSet(e, S) = h[S]
    BY <1>2, <1>3, SumIs
  <1>5. SumFunction(e) = SumFunction(f) + c
    <2>1. SumFunction(e) = h[S]
      BY <1>2, <1>4, Zenon DEF SumFunction
    <2> HIDE DEF SumFunction
    <2> QED
      BY <1>1, <1>2, <2>1
  <1> QED
    BY <1>5 DEF e

(* The sum over a part is at most the sum over the whole. *)
LEMMA SumOfPart ==
  ASSUME NEW S, IsFiniteSet(S), NEW f \in [S -> Nat], NEW T \in SUBSET S
  PROVE  /\ SumFunction([x \in T |-> f[x]]) \in Nat /\ SumFunction(f) \in Nat
         /\ SumFunction([x \in T |-> f[x]]) <= SumFunction(f)
  <1>1. PICK g : Additive(g, f, S) /\ SumFunction(f) = g[S] /\ g[S] \in Nat
    BY SumOver
  <1>2. g \in [SUBSET S -> Nat]
    BY <1>1 DEF Additive
  <1> DEFINE p == [x \in T |-> f[x]]
             h == [U \in SUBSET T |-> g[U]]
  <1>3. p \in [T -> Nat] /\ DOMAIN p = T /\ h[T] = g[T] /\ IsFiniteSet(T)
    BY FS_Subset
  <1>4. Additive(h, p, T)
    <2>1. h \in [SUBSET T -> Nat] /\ h[{}] = 0
      BY <1>1, <1>2 DEF Additive
    <2>2. ASSUME NEW U \in SUBSET T, NEW y \in T \ U PROVE h[U \cup {y}] = h[U] + p[y]
      <3>1. U \in SUBSET S /\ y \in S \ U /\ U \cup {y} \in SUBSET T
        OBVIOUS
      <3>2. g[U \cup {y}] = g[U] + f[y]
        BY <1>1, <3>1 DEF Additive
      <3> QED
        BY <3>1, <3>2
    <2> HIDE DEF h, p
    <2> QED
      BY <2>1, <2>2 DEF Additive
  <1> HIDE DEF h, p
  <1>5. SumFunctionOnSet(p, T) = h[T]
    BY <1>3, <1>4, SumIs
  <1>6. SumFunction(p) = g[T]
    BY <1>3, <1>5, Zenon DEF SumFunction
  <1> HIDE DEF SumFunction
  <1> DEFINE B == {U \in SUBSET S : ~(g[T] <= g[T \cup U])}
  <1>7. B = {}
    <2> SUFFICES ASSUME B # {} PROVE FALSE
      OBVIOUS
    <2>1. PICK U \in B : \A x \in U : U \ {x} \notin B
      BY SmallestSet
    <2>2. U # {}
      <3> SUFFICES ASSUME U = {} PROVE FALSE
        OBVIOUS
      <3>1. T \cup U = T
        OBVIOUS
      <3>2. g[T \cup U] = g[T] /\ g[T] \in Nat
        BY <1>2, <3>1
      <3>3. g[T] <= g[T \cup U]
        BY <3>2
      <3> QED
        BY <2>1, <3>3
    <2>3. PICK x \in U : TRUE
      BY <2>2
    <2>4. U \ {x} \in SUBSET S /\ T \cup (U \ {x}) \in SUBSET S /\ x \in S /\ f[x] \in Nat
      BY <2>1, <2>3
    <2>5. g[T] \in Nat /\ g[T \cup (U \ {x})] \in Nat /\ g[T] <= g[T \cup (U \ {x})]
      BY <1>2, <2>1, <2>3, <2>4
    <2>6. CASE x \in T
      <3>1. T \cup U = T \cup (U \ {x})
        BY <2>6
      <3> QED
        BY <2>1, <2>5, <3>1
    <2>7. CASE x \notin T
      <3>1. T \cup U = (T \cup (U \ {x})) \cup {x} /\ x \in S \ (T \cup (U \ {x}))
        BY <2>3, <2>4, <2>7
      <3>2. g[T \cup U] = g[T \cup (U \ {x})] + f[x]
        BY <1>1, <2>4, <3>1 DEF Additive
      <3>3. g[T] <= g[T \cup U]
        BY <2>4, <2>5, <3>2
      <3> QED
        BY <2>1, <3>3
    <2> QED
      BY <2>6, <2>7
  <1>8. g[T] <= g[S] /\ g[T] \in Nat
    <2>1. T \cup S = S /\ S \in SUBSET S
      OBVIOUS
    <2> QED
      BY <1>2, <1>7, <2>1
  <1>9. SumFunction(p) \in Nat /\ SumFunction(f) \in Nat /\ SumFunction(p) <= SumFunction(f)
    BY <1>1, <1>6, <1>8
  <1> QED
    BY <1>9 DEF p

-----------------------------------------------------------------------------
(* Accounts. *)

(* A callback goes on to another step with the same id. *)
LEMMA LoginMoves ==
  ASSUME AccountsInv, NEW l \in logins, NEW m \in Logins, m.id = l.id,
         m.step \in {"verify", "clean"} => m.state \in OAuthStates,
         \A u \in m.found : u \in users /\ u.github = m.github,
         logins' = (logins \ {l}) \cup {m}, UNCHANGED <<users, loggedIn>>
  PROVE  logins' \subseteq Logins /\ LoginsAreOwn'
  <1>1. logins' \subseteq Logins
    BY DEF AccountsInv, AccountsTypeOK
  <1>2. \A n \in logins' : (n \in logins /\ n # l) \/ n = m
    OBVIOUS
  <1>3. \A n \in logins : n # l => n.id # m.id
    BY DEF AccountsInv, LoginsAreOwn
  <1>4. \A n \in logins' : /\ n.step \in {"verify", "clean"} => n.state \in OAuthStates
                           /\ n.id <= loggedIn /\ \A u \in users : u.id # n.id
                           /\ \A u \in n.found : u \in users /\ u.github = n.github
    BY <1>2 DEF AccountsInv, LoginsAreOwn
  <1>5. \A n, o \in logins' : n.id = o.id => n = o
    BY <1>2, <1>3 DEF AccountsInv, LoginsAreOwn
  <1> QED
    BY <1>1, <1>4, <1>5 DEF AccountsInv, LoginsAreOwn

(* A callback is answered. *)
LEMMA LoginEnds ==
  ASSUME AccountsInv, NEW l \in logins, logins' = logins \ {l}, UNCHANGED <<users, loggedIn>>
  PROVE  logins' \subseteq Logins /\ LoginsAreOwn'
  BY DEF AccountsInv, AccountsTypeOK, LoginsAreOwn

(* A token for a row of the account. *)
LEMMA TokenNamesRow ==
  ASSUME AccountsInv, NEW u \in users', users \subseteq users', users' \subseteq UserRows,
         OneRowPerAccount', u.access = u.github, GenerateToken(u.github, u.id)
  PROVE  IdentityIsStable' /\ tokens' \subseteq Tokens
  <1> DEFINE new == [github |-> u.github, id |-> u.id, valid |-> TRUE]
  <1>1. new \in Tokens /\ new.github = u.github /\ new.id = u.id
    BY DEF Tokens, UserRows
  <1>2. tokens' = tokens \cup {new}
    BY DEF GenerateToken
  <1> HIDE DEF new
  <1>3. \A t \in tokens' : \E v \in users' : /\ v.id = t.id /\ v.github = t.github
                                           /\ v.access = t.github
    BY <1>1, <1>2 DEF AccountsInv, IdentityIsStable
  <1>4. \A t, v \in tokens' : t.github = v.github => t.id = v.id
    BY <1>3 DEF OneRowPerAccount
  <1> QED
    BY <1>1, <1>2, <1>3, <1>4 DEF AccountsInv, AccountsTypeOK, IdentityIsStable

(* The steps that touch neither users nor tokens. *)
LEMMA IdentityKept ==
  ASSUME AccountsInv, UNCHANGED <<users, tokens>>
  PROVE  IdentityIsStable' /\ OneRowPerAccount' /\ users' \subseteq UserRows
         /\ tokens' \subseteq Tokens
  BY DEF AccountsInv, AccountsTypeOK, IdentityIsStable, OneRowPerAccount

(* The steps that touch no state. *)
LEMMA StatesKept ==
  ASSUME AccountsInv, UNCHANGED <<stateRow, passedState>>
  PROVE  /\ StateUsedOnce' /\ FreshIsUnused'
         /\ stateRow' \in [OAuthStates -> {"unused", "fresh", "expired", "gone"}]
         /\ passedState' \in [OAuthStates -> Nat]
  BY DEF AccountsInv, AccountsTypeOK, StateUsedOnce, FreshIsUnused

(* A state is drawn, expires, is consumed or cleaned up. *)
LEMMA StateStep ==
  ASSUME AccountsInv,
         NEW s \in OAuthStates,
         \/ GetUrl(s) \/ StateExpires(s)
         \/ \E l \in logins : l.state = s /\ (VerifyAndConsume(l) \/ CleanState(l))
  PROVE  AccountsInv'
  <1> USE DEF GetUrl, StateExpires, VerifyAndConsume, CleanState
  <1>1. /\ stateRow \in [OAuthStates -> {"unused", "fresh", "expired", "gone"}]
        /\ passedState \in [OAuthStates -> Nat]
    BY DEF AccountsInv, AccountsTypeOK
  <1>2. /\ StateUsedOnce' /\ FreshIsUnused'
        /\ stateRow' \in [OAuthStates -> {"unused", "fresh", "expired", "gone"}]
        /\ passedState' \in [OAuthStates -> Nat]
    BY <1>1 DEF AccountsInv, StateUsedOnce, FreshIsUnused
  <1>3. UNCHANGED <<users, tokens, loggedIn>>
    OBVIOUS
  <1>4. logins' \subseteq Logins /\ LoginsAreOwn'
    <2>1. CASE GetUrl(s) \/ StateExpires(s)
      BY <2>1 DEF AccountsInv, AccountsTypeOK, LoginsAreOwn
    <2>2. ASSUME NEW l \in logins, l.state = s, VerifyAndConsume(l) \/ CleanState(l)
          PROVE  logins' \subseteq Logins /\ LoginsAreOwn'
      <3>1. l \in Logins /\ \A u \in l.found : u \in users /\ u.github = l.github
        BY DEF AccountsInv, AccountsTypeOK, LoginsAreOwn
      <3>2. CASE Answered(l)
        BY <1>3, <3>2, LoginEnds DEF Answered
      <3>3. ASSUME NEW step \in {"exchange", "clean"}, Moves(l, step)
            PROVE  logins' \subseteq Logins /\ LoginsAreOwn'
        <4> DEFINE m == [l EXCEPT !.step = step]
        <4>1. /\ m \in Logins /\ m.id = l.id /\ m.state = l.state /\ m.found = l.found
              /\ m.github = l.github
          BY <3>1 DEF Logins
        <4>2. logins' = (logins \ {l}) \cup {m}
          BY <3>3 DEF Moves
        <4> HIDE DEF m
        <4> QED
          BY <1>3, <2>2, <3>1, <4>1, <4>2, LoginMoves
      <3> QED
        BY <2>2, <3>2, <3>3
    <2> QED
      BY <2>1, <2>2
  <1>5. loggedIn' \in 0..MaxLogins
    BY <1>3 DEF AccountsInv, AccountsTypeOK
  <1> QED
    BY <1>2, <1>3, <1>4, <1>5, IdentityKept DEF AccountsInv, AccountsTypeOK

(* A callback arrives, with a new id. *)
LEMMA CallbackStep ==
  ASSUME AccountsInv, NEW s \in OAuthStates \cup {"none"}, NEW github \in Githubs,
         NEW step \in {"verify", "exchange"}, step = "verify" => s \in OAuthStates,
         Callback(s, github, step)
  PROVE  AccountsInv'
  <1> DEFINE new == [state |-> s, github |-> github, step |-> step, id |-> loggedIn + 1,
                     found |-> {}]
  <1>1. /\ loggedIn \in 0..MaxLogins /\ loggedIn + 1 \in Ids /\ loggedIn' = loggedIn + 1
        /\ logins' = logins \cup {new}
        /\ UNCHANGED <<stateRow, users, tokens, passedState>>
    BY AccountsConstants DEF AccountsInv, AccountsTypeOK, Callback, Ids
  <1>2. /\ new \in Logins /\ new.id = loggedIn + 1 /\ new.found = {}
        /\ new.step = step /\ new.state = s
    BY <1>1 DEF Logins
  <1> HIDE DEF new
  <1>3. \A l \in logins : l.id \in Nat /\ l.id <= loggedIn
    BY DEF AccountsInv, AccountsTypeOK, LoginsAreOwn, Logins, Ids
  <1>4. \A u \in users : u.id \in Nat /\ u.id <= loggedIn
    BY DEF AccountsInv, AccountsTypeOK, LoginsAreOwn, UserRows, Ids
  <1>5. LoginsAreOwn'
    <2>1. \A l \in logins' : /\ l.step \in {"verify", "clean"} => l.state \in OAuthStates
                             /\ l.id <= loggedIn' /\ \A u \in users : u.id # l.id
                             /\ \A u \in l.found : u \in users /\ u.github = l.github
      BY <1>1, <1>2, <1>3, <1>4 DEF AccountsInv, LoginsAreOwn
    <2>2. \A l, m \in logins' : l.id = m.id => l = m
      BY <1>1, <1>2, <1>3 DEF AccountsInv, LoginsAreOwn
    <2>3. \A u \in users : u.id <= loggedIn' /\ u.access = u.github
      BY <1>1, <1>4 DEF AccountsInv, LoginsAreOwn
    <2> QED
      BY <1>1, <2>1, <2>2, <2>3 DEF LoginsAreOwn
  <1>6. AccountsTypeOK'
    BY <1>1, <1>2, AccountsConstants DEF AccountsInv, AccountsTypeOK, Ids
  <1> QED
    BY <1>1, <1>5, <1>6, IdentityKept, StatesKept DEF AccountsInv

(* Between GitHub's answer and the two statements of findOrCreate. *)
LEMMA LoginStep ==
  ASSUME AccountsInv, NEW l \in logins, Exchange(l) \/ LoginFails(l) \/ FindByGithubId(l)
  PROVE  AccountsInv'
  <1>1. UNCHANGED <<stateRow, users, loggedIn, tokens, passedState>>
    BY DEF Exchange, LoginFails, FindByGithubId
  <1>2. l \in Logins /\ \A u \in l.found : u \in users /\ u.github = l.github
    BY DEF AccountsInv, AccountsTypeOK, LoginsAreOwn
  <1>3. logins' \subseteq Logins /\ LoginsAreOwn'
    <2>1. CASE LoginFails(l)
      BY <1>1, <2>1, LoginEnds DEF LoginFails, Answered
    <2>2. CASE Exchange(l)
      <3> DEFINE m == [l EXCEPT !.step = "find"]
      <3>1. /\ m \in Logins /\ m.id = l.id /\ m.step = "find" /\ m.found = l.found
            /\ m.github = l.github
        BY <1>2 DEF Logins
      <3>2. logins' = (logins \ {l}) \cup {m}
        BY <2>2 DEF Exchange, Moves
      <3> HIDE DEF m
      <3> QED
        BY <1>1, <1>2, <3>1, <3>2, LoginMoves
    <2>3. CASE FindByGithubId(l)
      <3> DEFINE rows == {u \in users : u.github = l.github}
                 m == [l EXCEPT !.found = rows,
                                !.step = IF rows = {} THEN "insert" ELSE "update"]
      <3>1. rows \in SUBSET UserRows
        BY DEF AccountsInv, AccountsTypeOK
      <3>2. /\ m \in Logins /\ m.id = l.id /\ m.step \in {"insert", "update"}
            /\ m.found = rows /\ m.github = l.github
        BY <1>2, <3>1 DEF Logins
      <3>3. logins' = (logins \ {l}) \cup {m}
        BY <2>3 DEF FindByGithubId
      <3>4. \A u \in rows : u \in users /\ u.github = l.github
        OBVIOUS
      <3> HIDE DEF m, rows
      <3> QED
        BY <1>1, <3>2, <3>3, <3>4, LoginMoves
    <2> QED
      BY <2>1, <2>2, <2>3
  <1>4. loggedIn' \in 0..MaxLogins
    BY <1>1 DEF AccountsInv, AccountsTypeOK
  <1> QED
    BY <1>1, <1>3, <1>4, IdentityKept, StatesKept DEF AccountsInv, AccountsTypeOK

(* The first login of an account inserts its row, and only one of several
   simultaneous ones does. *)
LEMMA InsertStep ==
  ASSUME AccountsInv, NEW l \in logins, InsertUser(l)
  PROVE  AccountsInv'
  <1> DEFINE u == [id |-> l.id, github |-> l.github, access |-> l.github]
  <1>1. /\ l \in Logins /\ users' = users \cup {u} /\ logins' = logins \ {l}
        /\ GenerateToken(l.github, l.id) /\ \A v \in users : v.github # l.github
        /\ UNCHANGED <<stateRow, loggedIn, passedState>>
    BY DEF AccountsInv, AccountsTypeOK, InsertUser, InsertAllowed, Answered
  <1>2. u \in UserRows /\ u.id = l.id /\ u.github = l.github /\ u.access = l.github
    BY <1>1 DEF UserRows, Logins
  <1> HIDE DEF u
  <1>3. users' \subseteq UserRows
    BY <1>1, <1>2 DEF AccountsInv, AccountsTypeOK
  <1>4. OneRowPerAccount'
    BY <1>1, <1>2 DEF AccountsInv, OneRowPerAccount, LoginsAreOwn
  <1>5. IdentityIsStable' /\ tokens' \subseteq Tokens
    BY <1>1, <1>2, <1>3, <1>4, TokenNamesRow
  <1>6. LoginsAreOwn' /\ logins' \subseteq Logins
    BY <1>1, <1>2 DEF AccountsInv, AccountsTypeOK, LoginsAreOwn
  <1>7. loggedIn' \in 0..MaxLogins
    BY <1>1 DEF AccountsInv, AccountsTypeOK
  <1> QED
    BY <1>1, <1>3, <1>4, <1>5, <1>6, <1>7, StatesKept DEF AccountsInv, AccountsTypeOK

(* A later login finds the row, and changes nothing in it but the token. *)
LEMMA UpdateStep ==
  ASSUME AccountsInv, NEW l \in logins, UpdateUser(l)
  PROVE  AccountsInv'
  <1>1. PICK u \in l.found : /\ users' = (users \ {u}) \cup {[u EXCEPT !.access = l.github]}
                             /\ GenerateToken(u.github, u.id)
    BY DEF UpdateUser
  <1>2. u \in users /\ u \in UserRows /\ u.github = l.github /\ u.access = u.github
    BY DEF AccountsInv, AccountsTypeOK, LoginsAreOwn
  <1>3. [u EXCEPT !.access = l.github] = u
    BY <1>2 DEF UserRows
  <1>4. users' = users
    BY <1>1, <1>2, <1>3
  <1>5. logins' = logins \ {l} /\ UNCHANGED <<stateRow, loggedIn, passedState>>
    BY DEF UpdateUser, Answered
  <1>6. users' \subseteq UserRows /\ OneRowPerAccount'
    BY <1>4 DEF AccountsInv, AccountsTypeOK, OneRowPerAccount
  <1>7. IdentityIsStable' /\ tokens' \subseteq Tokens
    BY <1>1, <1>2, <1>4, <1>6, TokenNamesRow
  <1>8. LoginsAreOwn' /\ logins' \subseteq Logins
    BY <1>4, <1>5, LoginEnds
  <1>9. loggedIn' \in 0..MaxLogins
    BY <1>5 DEF AccountsInv, AccountsTypeOK
  <1> QED
    BY <1>5, <1>6, <1>7, <1>8, <1>9, StatesKept DEF AccountsInv, AccountsTypeOK

(* A token expires, or is exchanged for a new one of the same row. *)
LEMMA TokenStep ==
  ASSUME AccountsInv, NEW t \in tokens, TokenExpires(t) \/ Refresh(t)
  PROVE  AccountsInv'
  <1>1. UNCHANGED <<stateRow, users, logins, loggedIn, passedState>>
    BY DEF TokenExpires, Refresh
  <1>2. users' \subseteq UserRows /\ OneRowPerAccount'
    BY <1>1 DEF AccountsInv, AccountsTypeOK, OneRowPerAccount
  <1>3. IdentityIsStable' /\ tokens' \subseteq Tokens
    <2>1. CASE Refresh(t)
      <3>1. PICK u \in Authorised(t) : GenerateToken(u.github, u.id)
        BY <2>1 DEF Refresh
      <3>2. u \in users /\ u.access = u.github
        BY DEF Authorised, AccountsInv, LoginsAreOwn
      <3> QED
        BY <1>1, <1>2, <3>1, <3>2, TokenNamesRow
    <2>2. CASE TokenExpires(t)
      <3> DEFINE old == [t EXCEPT !.valid = FALSE]
      <3>1. old \in Tokens /\ old.github = t.github /\ old.id = t.id
        BY DEF AccountsInv, AccountsTypeOK, Tokens
      <3>2. tokens' = (tokens \ {t}) \cup {old}
        BY <2>2 DEF TokenExpires
      <3> HIDE DEF old
      <3> QED
        BY <1>1, <3>1, <3>2 DEF AccountsInv, AccountsTypeOK, IdentityIsStable
    <2> QED
      BY <2>1, <2>2
  <1>4. LoginsAreOwn' /\ logins' \subseteq Logins /\ loggedIn' \in 0..MaxLogins
    BY <1>1 DEF AccountsInv, AccountsTypeOK, LoginsAreOwn
  <1> QED
    BY <1>1, <1>2, <1>3, <1>4, StatesKept DEF AccountsInv, AccountsTypeOK

(* Every step of the accounts keeps their invariant. *)
LEMMA AccountsSteps ==
  ASSUME AccountsInv, [AccountsNext]_accountVars
  PROVE  AccountsInv'
  <1>1. CASE \E s \in OAuthStates : GetUrl(s) \/ StateExpires(s)
    BY <1>1, StateStep
  <1>2. CASE \E github \in Githubs :
          (\E s \in OAuthStates : GetCallback(s, github)) \/ PostCallback(github)
    BY <1>2, CallbackStep DEF GetCallback, PostCallback
  <1>3. CASE \E l \in logins :
          \/ VerifyAndConsume(l) \/ CleanState(l) \/ Exchange(l) \/ LoginFails(l)
          \/ FindByGithubId(l) \/ InsertUser(l) \/ UpdateUser(l)
    <2>1. ASSUME NEW l \in logins, VerifyAndConsume(l) \/ CleanState(l) PROVE AccountsInv'
      <3>1. l.state \in OAuthStates
        BY <2>1 DEF VerifyAndConsume, CleanState, AccountsInv, LoginsAreOwn
      <3> QED
        BY <2>1, <3>1, StateStep
    <2> QED
      BY <1>3, <2>1, LoginStep, InsertStep, UpdateStep
  <1>4. CASE \E t \in tokens : TokenExpires(t) \/ Refresh(t)
    BY <1>4, TokenStep
  <1>5. CASE UNCHANGED accountVars
    BY <1>5, IdentityKept, StatesKept
       DEF accountVars, AccountsInv, AccountsTypeOK, LoginsAreOwn
  <1> QED
    BY <1>1, <1>2, <1>3, <1>4, <1>5 DEF AccountsNext

(* However callbacks are repeated and interleave, a state passes at most once,
   an account has one row, and every token names the row of its account. *)
THEOREM AccountsAreSound == AccountsSpec => []AccountsInv
  <1>1. AccountsInit => AccountsInv
    BY AccountsConstants DEF AccountsInit, AccountsInv, AccountsTypeOK, StateUsedOnce,
       IdentityIsStable, OneRowPerAccount, FreshIsUnused, LoginsAreOwn
  <1> QED
    BY <1>1, AccountsSteps, PTL DEF AccountsSpec

-----------------------------------------------------------------------------
(* The settings of a project. *)

(* The key a configuration gets: the one that was given, or the one it had. *)
LEMMA PreferredKey ==
  ASSUME NEW key \in Providers \cup {NoKey}, NEW other \in Providers \cup {NoKey}
  PROVE  /\ Preferred(key, other) \in Providers \cup {NoKey}
         /\ Preferred(key, other) = NoKey => key = NoKey /\ other = NoKey
  BY DEF Preferred

(* The keys that are read from a stored configuration. *)
LEMMA ExistingKeys ==
  ASSUME NEW llm \in Configs \cup {NoLLM}
  PROVE  /\ ExistingKey(llm) \in Providers \cup {NoKey}
         /\ \A p \in Phases : ExistingPhaseKey(llm, p) \in Providers \cup {NoKey}
  <1>1. CASE llm = NoLLM
    BY <1>1 DEF ExistingKey, ExistingPhaseKey
  <1>2. CASE llm # NoLLM
    <2>1. llm \in Configs
      BY <1>2
    <2>2. llm.default \in LLMConfigs /\ llm.phases \in PhaseConfigs
      BY <2>1 DEF Configs
    <2>3. ExistingKey(llm) \in Providers \cup {NoKey}
      BY <2>2 DEF ExistingKey, LLMConfigs
    <2>4. ASSUME NEW p \in Phases
          PROVE  ExistingPhaseKey(llm, p) \in Providers \cup {NoKey}
      <3>1. llm.phases[p] # NoPhase => llm.phases[p] \in LLMConfigs
        BY <2>2 DEF PhaseConfigs
      <3> QED
        BY <3>1 DEF ExistingPhaseKey, LLMConfigs
    <2> QED
      BY <2>3, <2>4
  <1> QED
    BY <1>1, <1>2

(* A configuration with another key. *)
LEMMA Rekeyed ==
  ASSUME NEW c \in LLMConfigs, NEW key \in Providers \cup {NoKey}
  PROVE  /\ [c EXCEPT !.key = key] \in LLMConfigs
         /\ [c EXCEPT !.key = key].key = key
         /\ [c EXCEPT !.key = key].provider = c.provider
  BY DEF LLMConfigs

(* What PUT /llm-config stores is a configuration, and its keys suffice: those
   that validation let pass for the sake of a key the row already had get it. *)
LEMMA BuiltKeysSuffice ==
  ASSUME NEW llm \in Configs \cup {NoLLM}, NEW body \in PutBodies, AcceptsLLM(llm, body)
  PROVE  BuildLLMConfig(llm, body) \in Configs /\ KeysSuffice(BuildLLMConfig(llm, body))
  <1> DEFINE old == ExistingKey(llm)
             oldOf(p) == ExistingPhaseKey(llm, p)
             d == [body.default EXCEPT !.key = Preferred(body.default.key, old)]
             of(p) == [body.phases[p] EXCEPT !.key = Preferred(body.phases[p].key, oldOf(p))]
             ph == [p \in Phases |-> IF body.phases[p] = NoPhase THEN NoPhase ELSE of(p)]
             built == [form |-> "current", default |-> d, phases |-> ph]
  <1>0. body.default \in LLMConfigs /\ body.phases \in PhaseConfigs
    BY DEF PutBodies
  <1>1. old \in Providers \cup {NoKey} /\ \A p \in Phases : oldOf(p) \in Providers \cup {NoKey}
    BY ExistingKeys
  <1>2. body.default.key \in Providers \cup {NoKey}
    BY <1>0 DEF LLMConfigs
  <1>3. /\ Preferred(body.default.key, old) \in Providers \cup {NoKey}
        /\ Preferred(body.default.key, old) = NoKey => body.default.key = NoKey /\ old = NoKey
    BY <1>1, <1>2, PreferredKey
  <1>4. /\ d \in LLMConfigs /\ d.key = Preferred(body.default.key, old)
        /\ d.provider = body.default.provider
    BY <1>0, <1>3, Rekeyed
  <1>5. d.provider \in NeedsKey => d.key # NoKey
    BY <1>3, <1>4 DEF AcceptsLLM, ValidLLMConfig
  <1>6. ASSUME NEW p \in Phases, body.phases[p] # NoPhase
        PROVE  /\ of(p) \in LLMConfigs
               /\ of(p).provider \in NeedsKey =>
                    of(p).key # NoKey \/ (of(p).provider = d.provider /\ d.key # NoKey)
    <2>1. body.phases[p] \in LLMConfigs
      BY <1>0, <1>6 DEF PhaseConfigs
    <2>2. body.phases[p].key \in Providers \cup {NoKey}
      BY <2>1 DEF LLMConfigs
    <2>3. /\ Preferred(body.phases[p].key, oldOf(p)) \in Providers \cup {NoKey}
          /\ Preferred(body.phases[p].key, oldOf(p)) = NoKey =>
                body.phases[p].key = NoKey /\ oldOf(p) = NoKey
      BY <1>1, <2>2, PreferredKey
    <2>4. /\ of(p) \in LLMConfigs /\ of(p).key = Preferred(body.phases[p].key, oldOf(p))
          /\ of(p).provider = body.phases[p].provider
      BY <2>1, <2>3, Rekeyed
    <2>5. body.phases[p].provider \in NeedsKey =>
             body.phases[p].key # NoKey \/ PhaseFallback(llm, body, p) # NoKey
      BY <1>6 DEF AcceptsLLM, ValidLLMConfig
    <2>6. PhaseFallback(llm, body, p) # NoKey =>
             \/ oldOf(p) # NoKey
             \/ body.phases[p].provider = body.default.provider /\ old # NoKey
      BY DEF PhaseFallback, Preferred
    <2> HIDE DEF old, oldOf, d, of
    <2> QED
      BY <1>3, <1>4, <2>3, <2>4, <2>5, <2>6
  <1>7. BuildLLMConfig(llm, body) = built
    BY DEF BuildLLMConfig
  <1> HIDE DEF old, oldOf, d, of
  <1>8. ph \in PhaseConfigs
    BY <1>6 DEF PhaseConfigs
  <1>9. built \in Configs
    BY <1>4, <1>8 DEF Configs
  <1>10. KeysSuffice(built)
    BY <1>5, <1>6 DEF KeysSuffice
  <1> QED
    BY <1>7, <1>9, <1>10

(* Keys that suffice reach the phases, through getFullProjectLLMConfig and
   getPhaseConfig. *)
LEMMA SufficientKeysReachPhases ==
  ASSUME settings \in SettingsSet, KeysSuffice(settings.llm)
  PROVE  PhaseHasKey
  <1> DEFINE llm == settings.llm
             config == FullLLMConfig(llm)
  <1>1. llm \in Configs \cup {NoLLM}
    BY DEF SettingsSet
  <1>2. SUFFICES ASSUME NEW p \in Phases, PhaseConfig(config, p).provider \in NeedsKey
                 PROVE  PhaseConfig(config, p).key # NoKey
    BY DEF PhaseHasKey
  <1>3. CASE llm = NoLLM
    <2>1. config.default.provider \notin NeedsKey /\ config.phases[p] = NoPhase
      BY <1>3, SettingsConstants DEF FullLLMConfig, DefaultLLMConfig
    <2> QED
      BY <1>2, <2>1 DEF PhaseConfig
  <1>4. CASE llm # NoLLM /\ llm.form = "legacy"
    <2>1. config.default = llm.default /\ config.phases[p] = NoPhase
      BY <1>4 DEF FullLLMConfig, MigrateLegacyConfig
    <2> QED
      BY <1>2, <1>4, <2>1 DEF PhaseConfig, KeysSuffice
  <1>5. CASE llm # NoLLM /\ llm.form # "legacy"
    <2>1. config = llm /\ llm.default \in LLMConfigs /\ llm.phases[p] \in LLMConfigs \cup {NoPhase}
      BY <1>1, <1>5 DEF FullLLMConfig, Configs, PhaseConfigs
    <2>2. CASE llm.phases[p] = NoPhase
      BY <1>2, <1>5, <2>1, <2>2 DEF PhaseConfig, KeysSuffice
    <2>3. CASE llm.phases[p] # NoPhase
      <3> DEFINE own == llm.phases[p]
                 inherited == [own EXCEPT !.key = llm.default.key]
      <3>1. own \in LLMConfigs /\ llm.default.key \in Providers \cup {NoKey}
        BY <2>1, <2>3 DEF LLMConfigs
      <3>2. inherited.key = llm.default.key /\ inherited.provider = own.provider
        BY <3>1, Rekeyed
      <3>3. PhaseConfig(config, p) = IF own.key = NoKey /\ own.provider = llm.default.provider
                                     THEN inherited ELSE own
        BY <2>1, <2>3 DEF PhaseConfig
      <3>4. own.provider \in NeedsKey =>
               \/ own.key # NoKey
               \/ own.provider = llm.default.provider /\ llm.default.key # NoKey
        BY <1>5, <2>3 DEF KeysSuffice
      <3> HIDE DEF own, inherited
      <3> QED
        BY <1>2, <3>2, <3>3, <3>4
    <2> QED
      BY <2>2, <2>3
  <1> QED
    BY <1>3, <1>4, <1>5

(* A request arrives and reads the row. *)
LEMMA ArriveStep ==
  ASSUME SettingsInv, NEW kind \in {"patch", "put_llm", "reset_llm", "detect"},
         NEW value \in SettingValues, NEW body \in PutBodies \cup {NoLLM},
         kind = "put_llm" => body \in PutBodies,
         Arrive(kind, value, body)
  PROVE  SettingsInv'
  <1> DEFINE new == Request(kind, value, body)
  <1>1. /\ new.kind = kind /\ new.value = value /\ new.body = body
        /\ new.read = settings /\ new.before = settings /\ new \in Requests
    BY SettingsConstants DEF Request, Requests, SettingsInv, SettingsTypeOK
  <1>2. /\ requests' = requests \cup {new} /\ overlapped' = (overlapped \/ requests # {})
        /\ requested' = requested + 1 /\ requested < MaxRequests
        /\ settings' = settings /\ expected' = expected
    BY DEF Arrive
  <1> HIDE DEF new
  <1>3. SettingsTypeOK'
    <2>1. requested' \in 0..MaxRequests
      BY <1>2, SettingsConstants DEF SettingsInv, SettingsTypeOK
    <2>2. overlapped' \in BOOLEAN
      BY <1>2 DEF SettingsInv, SettingsTypeOK
    <2> QED
      BY <1>1, <1>2, <2>1, <2>2 DEF SettingsInv, SettingsTypeOK
  <1>4. StoredKeysSuffice'
    BY <1>1, <1>2 DEF SettingsInv, StoredKeysSuffice, KeysSuffice
  <1>5. ReadsAreCurrent'
    <2>1. SUFFICES ASSUME ~overlapped' PROVE requests' = {new}
      BY <1>1, <1>2 DEF ReadsAreCurrent
    <2> QED
      BY <1>2, <2>1
  <1>6. PhaseHasKey'
    BY <1>2 DEF SettingsInv, PhaseHasKey, FullLLMConfig
  <1>7. SettingsAreExact'
    BY <1>2 DEF SettingsInv, SettingsAreExact
  <1> QED
    BY <1>3, <1>4, <1>5, <1>6, <1>7 DEF SettingsInv

(* updateSettings reads the row again. *)
LEMMA ReadAgainStep ==
  ASSUME SettingsInv, NEW r \in requests, ReadAgain(r)
  PROVE  SettingsInv'
  <1> DEFINE q == [r EXCEPT !.read = settings, !.step = "merged"]
  <1>1. requests' = (requests \ {r}) \cup {q} /\ UNCHANGED <<settings, requested, expected, overlapped>>
    BY DEF ReadAgain
  <1>2. /\ r.kind # "put_llm"
        /\ q.kind = r.kind /\ q.before = r.before /\ q.read = settings /\ q \in Requests
    BY DEF ReadAgain, Requests, SettingsInv, SettingsTypeOK
  <1> HIDE DEF q
  <1>3. SettingsTypeOK'
    BY <1>1, <1>2 DEF SettingsInv, SettingsTypeOK
  <1>4. StoredKeysSuffice'
    BY <1>1, <1>2 DEF SettingsInv, StoredKeysSuffice, KeysSuffice
  <1>5. ReadsAreCurrent'
    BY <1>1, <1>2 DEF SettingsInv, ReadsAreCurrent
  <1>6. PhaseHasKey' /\ SettingsAreExact'
    BY <1>1 DEF SettingsInv, PhaseHasKey, FullLLMConfig, SettingsAreExact
  <1> QED
    BY <1>3, <1>4, <1>5, <1>6 DEF SettingsInv

(* The body of PUT /llm-config, with a given key told apart by its provider. *)
LEMMA KeyedBodies ==
  ASSUME NEW body \in Bodies
  PROVE  [default |-> Keyed(body.default), phases |-> [p \in Phases |-> Keyed(body.phases[p])]]
            \in PutBodies
  <1> DEFINE Given == [provider : Providers, key : {NoKey, "given"}]
  <1>1. ASSUME NEW c \in Given PROVE Keyed(c) \in LLMConfigs
    <2>1. CASE c # NoPhase /\ c.key = "given"
      <3>1. [c EXCEPT !.key = c.provider] \in LLMConfigs
        BY DEF LLMConfigs
      <3> QED
        BY <2>1, <3>1 DEF Keyed
    <2>2. CASE c = NoPhase \/ c.key # "given"
      BY <2>2 DEF Keyed, LLMConfigs, NoPhase
    <2> QED
      BY <2>1, <2>2
  <1>2. Keyed(NoPhase) = NoPhase
    BY DEF Keyed
  <1>3. body.default \in Given /\ body.phases \in [Phases -> Given \cup {NoPhase}]
    BY DEF Bodies
  <1> HIDE DEF Given
  <1>4. [p \in Phases |-> Keyed(body.phases[p])] \in PhaseConfigs
    BY <1>1, <1>2, <1>3 DEF PhaseConfigs
  <1> QED
    BY <1>1, <1>3, <1>4 DEF PutBodies

(* Some settings with another LLM configuration, stack or rest. *)
LEMMA SettingsWith ==
  ASSUME NEW s \in SettingsSet, NEW llm \in Configs \cup {NoLLM}, NEW v \in SettingValues
  PROVE  /\ [s EXCEPT !.llm = llm] \in SettingsSet /\ [s EXCEPT !.llm = llm].llm = llm
         /\ [s EXCEPT !.other = v] \in SettingsSet /\ [s EXCEPT !.other = v].llm = s.llm
         /\ [s EXCEPT !.stack = v] \in SettingsSet
         /\ [s EXCEPT !.stack = v] = [llm |-> s.llm, stack |-> v, other |-> s.other]
         /\ s.llm \in Configs \cup {NoLLM}
  BY DEF SettingsSet

(* The row is written. *)
LEMMA WriteStep ==
  ASSUME SettingsInv, NEW r \in requests, WriteSettings(r)
  PROVE  SettingsInv'
  <1> DEFINE llm == r.read.llm
  <1>1. /\ settings' = Outcome(r, r.before, r.read) /\ expected' = Intended(r)
        /\ requests' = requests \ {r} /\ UNCHANGED <<requested, overlapped>>
    BY DEF WriteSettings
  <1>2. r \in Requests /\ (r.kind = "put_llm" => r.body \in PutBodies)
    BY DEF SettingsInv, SettingsTypeOK
  <1>3. /\ r.read \in SettingsSet /\ r.before \in SettingsSet /\ r.value \in SettingValues
        /\ r.kind \in {"patch", "put_llm", "reset_llm", "detect"}
    BY <1>2 DEF Requests
  <1>4. /\ expected \in SettingsSet /\ KeysSuffice(r.read.llm) /\ KeysSuffice(r.before.llm)
        /\ NoLLM \in Configs \cup {NoLLM} /\ KeysSuffice(NoLLM)
    BY DEF SettingsInv, SettingsTypeOK, StoredKeysSuffice, KeysSuffice
  <1>5. /\ settings' \in SettingsSet /\ KeysSuffice(settings'.llm)
        /\ expected' \in SettingsSet
        /\ r.read = expected /\ r.before = expected => settings' = expected'
    <2>1. CASE r.kind = "patch"
      <3>1. settings' = [r.read EXCEPT !.other = r.value] /\ expected' = [expected EXCEPT !.other = r.value]
        BY <1>1, <2>1 DEF Outcome, Intended, MergedSettings
      <3>2. /\ [r.read EXCEPT !.other = r.value] \in SettingsSet
            /\ [r.read EXCEPT !.other = r.value].llm = r.read.llm
            /\ [expected EXCEPT !.other = r.value] \in SettingsSet
        BY <1>3, <1>4, SettingsWith
      <3> QED
        BY <1>4, <3>1, <3>2
    <2>2. CASE r.kind = "put_llm"
      <3>1. AcceptsLLM(llm, r.body) =>
              /\ settings' = [r.read EXCEPT !.llm = BuildLLMConfig(llm, r.body)]
              /\ settings' \in SettingsSet /\ KeysSuffice(settings'.llm)
        <4>1. HAVE AcceptsLLM(llm, r.body)
        <4>2. settings' = [r.read EXCEPT !.llm = BuildLLMConfig(llm, r.body)]
          BY <1>1, <2>2, <4>1 DEF Outcome
        <4>3. BuildLLMConfig(llm, r.body) \in Configs /\ KeysSuffice(BuildLLMConfig(llm, r.body))
          BY <1>2, <1>3, <2>2, <4>1, SettingsWith, BuiltKeysSuffice
        <4>4. /\ [r.read EXCEPT !.llm = BuildLLMConfig(llm, r.body)] \in SettingsSet
              /\ [r.read EXCEPT !.llm = BuildLLMConfig(llm, r.body)].llm = BuildLLMConfig(llm, r.body)
          BY <1>3, <4>3, SettingsWith
        <4> QED
          BY <4>2, <4>3, <4>4
      <3>2. AcceptsLLM(expected.llm, r.body) =>
              /\ expected' = [expected EXCEPT !.llm = BuildLLMConfig(expected.llm, r.body)]
              /\ expected' \in SettingsSet
        <4>1. HAVE AcceptsLLM(expected.llm, r.body)
        <4>2. expected' = [expected EXCEPT !.llm = BuildLLMConfig(expected.llm, r.body)]
          BY <1>1, <2>2, <4>1 DEF Intended
        <4>3. BuildLLMConfig(expected.llm, r.body) \in Configs
          BY <1>2, <1>3, <1>4, <2>2, <4>1, SettingsWith, BuiltKeysSuffice
        <4> QED
          BY <1>3, <1>4, <4>2, <4>3, SettingsWith
      <3>3. ~AcceptsLLM(llm, r.body) => settings' = r.read
        BY <1>1, <2>2 DEF Outcome
      <3>4. ~AcceptsLLM(expected.llm, r.body) => expected' = expected
        BY <1>1, <2>2 DEF Intended
      <3> QED
        BY <1>3, <1>4, <3>1, <3>2, <3>3, <3>4
    <2>3. CASE r.kind = "reset_llm"
      <3>1. settings' = [r.read EXCEPT !.llm = NoLLM] /\ expected' = [expected EXCEPT !.llm = NoLLM]
        BY <1>1, <2>3 DEF Outcome, Intended
      <3>2. /\ [r.read EXCEPT !.llm = NoLLM] \in SettingsSet /\ [r.read EXCEPT !.llm = NoLLM].llm = NoLLM
            /\ [expected EXCEPT !.llm = NoLLM] \in SettingsSet
        BY <1>3, <1>4, SettingsWith
      <3> QED
        BY <1>4, <3>1, <3>2
    <2>4. CASE r.kind = "detect"
      <3> DEFINE merged == [llm |-> IF r.before.llm = NoLLM THEN llm ELSE r.before.llm,
                            stack |-> r.value, other |-> r.before.other]
      <3>1. settings' = merged /\ expected' = [expected EXCEPT !.stack = r.value]
        BY <1>1, <2>4 DEF Outcome, Intended, WithStack
      <3>2. merged \in SettingsSet /\ merged.llm \in {llm, r.before.llm}
        BY <1>3 DEF SettingsSet
      <3>3. /\ [expected EXCEPT !.stack = r.value] \in SettingsSet
            /\ [expected EXCEPT !.stack = r.value]
                  = [llm |-> expected.llm, stack |-> r.value, other |-> expected.other]
        BY <1>3, <1>4, SettingsWith
      <3>4. r.read = expected /\ r.before = expected =>
               merged = [llm |-> expected.llm, stack |-> r.value, other |-> expected.other]
        OBVIOUS
      <3> HIDE DEF merged
      <3> QED
        BY <1>4, <3>1, <3>2, <3>3, <3>4
    <2> QED
      BY <1>3, <2>1, <2>2, <2>3, <2>4
  <1>6. SettingsTypeOK'
    BY <1>1, <1>5 DEF SettingsInv, SettingsTypeOK
  <1>7. StoredKeysSuffice'
    BY <1>1, <1>5 DEF SettingsInv, StoredKeysSuffice, KeysSuffice
  <1>8. SettingsAreExact' /\ ReadsAreCurrent'
    <2>1. SUFFICES ASSUME ~overlapped PROVE settings' = expected' /\ requests' = {}
      BY <1>1 DEF SettingsAreExact, ReadsAreCurrent
    <2> QED
      BY <1>1, <1>5, <2>1 DEF SettingsInv, SettingsAreExact, ReadsAreCurrent
  <1>9. PhaseHasKey'
    <2>1. (settings \in SettingsSet /\ KeysSuffice(settings.llm) => PhaseHasKey)'
      BY SufficientKeysReachPhases, PTL
    <2> QED
      BY <1>5, <2>1
  <1> QED
    BY <1>6, <1>7, <1>8, <1>9 DEF SettingsInv

(* Every step of the settings keeps their invariant. *)
LEMMA SettingsSteps ==
  ASSUME SettingsInv, [SettingsNext]_settingsVars
  PROVE  SettingsInv'
  <1>1. settings.other \in SettingValues /\ NoLLM \in PutBodies \cup {NoLLM}
    BY DEF SettingsInv, SettingsTypeOK, SettingsSet
  <1>2. CASE \E value \in SettingValues : PatchSettings(value) \/ DetectStack(value)
    BY <1>1, <1>2, ArriveStep DEF PatchSettings, DetectStack
  <1>3. CASE \E body \in Bodies :
               PutLLMConfig([default |-> Keyed(body.default),
                             phases |-> [p \in Phases |-> Keyed(body.phases[p])]])
    <2>1. \E body \in PutBodies : Arrive("put_llm", settings.other, body)
      BY <1>3, KeyedBodies DEF PutLLMConfig
    <2> QED
      BY <1>1, <2>1, ArriveStep
  <1>4. CASE DeleteLLMConfig
    BY <1>1, <1>4, ArriveStep DEF DeleteLLMConfig
  <1>5. CASE \E r \in requests : ReadAgain(r) \/ WriteSettings(r)
    BY <1>5, ReadAgainStep, WriteStep
  <1>6. CASE UNCHANGED settingsVars
    BY <1>6 DEF settingsVars, SettingsInv, SettingsTypeOK, PhaseHasKey, FullLLMConfig,
       SettingsAreExact, StoredKeysSuffice, ReadsAreCurrent
  <1> QED
    BY <1>2, <1>3, <1>4, <1>5, <1>6 DEF SettingsNext

(* Whatever the routes store, keep and inherit, every phase that needs a key
   has one; and requests that do not overlap lose nothing of one another. *)
THEOREM SettingsAreSound == SettingsSpec => []SettingsInv
  <1>1. ASSUME SettingsInit PROVE SettingsInv
    <2> DEFINE Old(p) == [form |-> "legacy",
                          default |-> [provider |-> p, key |-> IF p \in NeedsKey THEN p ELSE NoKey],
                          phases |-> [q \in Phases |-> NoPhase]]
    <2>1. PICK llm \in {NoLLM} \cup {Old(p) : p \in Providers} :
             \E v \in SettingValues : settings = [llm |-> llm, stack |-> v, other |-> v]
      BY <1>1 DEF SettingsInit
    <2>2. llm \in Configs \cup {NoLLM} /\ KeysSuffice(llm)
      <3>1. ASSUME NEW p \in Providers PROVE Old(p) \in Configs /\ KeysSuffice(Old(p))
        BY SettingsConstants DEF Configs, LLMConfigs, PhaseConfigs, KeysSuffice
      <3>2. KeysSuffice(NoLLM)
        BY DEF KeysSuffice
      <3> HIDE DEF Old
      <3> QED
        BY <3>1, <3>2
    <2>3. settings \in SettingsSet /\ KeysSuffice(settings.llm)
      BY <2>1, <2>2 DEF SettingsSet
    <2>4. PhaseHasKey
      BY <2>3, SufficientKeysReachPhases
    <2>5. requests = {} /\ requested = 0 /\ expected = settings /\ overlapped = FALSE
      BY <1>1 DEF SettingsInit
    <2>6. requested \in 0..MaxRequests
      BY <2>5, SettingsConstants
    <2>7. overlapped \in BOOLEAN
      BY <2>5
    <2> QED
      BY <2>3, <2>4, <2>5, <2>6, <2>7
         DEF SettingsInv, SettingsTypeOK, SettingsAreExact, StoredKeysSuffice, ReadsAreCurrent
  <1> QED
    BY <1>1, SettingsSteps, PTL DEF SettingsSpec

-----------------------------------------------------------------------------
(* The activity log. *)

(* One more entry at the end of a queue. *)
LEMMA AppendedEntry ==
  ASSUME NEW s \in Seq(Entries), NEW n \in Entries, n \notin ToSet(s), IsInjective(s)
  PROVE  /\ Append(s, n) \in Seq(Entries) /\ Append(s, n) # <<>>
         /\ Len(Append(s, n)) = Len(s) + 1
         /\ ToSet(Append(s, n)) = ToSet(s) \cup {n} /\ IsInjective(Append(s, n))
  <1> DEFINE t == Append(s, n)
  <1>1. t \in Seq(Entries) /\ Len(t) = Len(s) + 1 /\ Len(s) \in Nat /\ t # <<>>
    OBVIOUS
  <1>2. \A i \in 1..Len(t) : t[i] = IF i <= Len(s) THEN s[i] ELSE n
    OBVIOUS
  <1> HIDE DEF t
  <1>3. ToSet(t) = ToSet(s) \cup {n}
    <2>1. \A x \in ToSet(t) : x \in ToSet(s) \cup {n}
      BY <1>1, <1>2 DEF ToSet
    <2>2. \A x \in ToSet(s) : x \in ToSet(t)
      BY <1>1, <1>2 DEF ToSet
    <2>3. n \in ToSet(t)
      BY <1>1, <1>2 DEF ToSet
    <2> QED
      BY <2>1, <2>2, <2>3
  <1>4. IsInjective(t)
    BY <1>1, <1>2 DEF IsInjective, ToSet
  <1> QED
    BY <1>1, <1>3, <1>4 DEF t

(* One batch behind another. *)
LEMMA ConcatenatedEntries ==
  ASSUME NEW s \in Seq(Entries), NEW t \in Seq(Entries),
         IsInjective(s), IsInjective(t), Apart(s, t)
  PROVE  /\ s \o t \in Seq(Entries)
         /\ ToSet(s \o t) = ToSet(s) \cup ToSet(t) /\ IsInjective(s \o t)
  <1> DEFINE u == s \o t
  <1>1. u \in Seq(Entries) /\ Len(u) = Len(s) + Len(t) /\ Len(s) \in Nat /\ Len(t) \in Nat
    OBVIOUS
  <1>2. \A i \in 1..Len(u) : u[i] = IF i <= Len(s) THEN s[i] ELSE t[i - Len(s)]
    OBVIOUS
  <1>3. \A i \in 1..Len(t) : u[i + Len(s)] = t[i]
    BY <1>1, <1>2
  <1> HIDE DEF u
  <1>4. ToSet(u) = ToSet(s) \cup ToSet(t)
    <2>1. \A x \in ToSet(u) : x \in ToSet(s) \cup ToSet(t)
      BY <1>1, <1>2 DEF ToSet
    <2>2. \A x \in ToSet(s) : x \in ToSet(u)
      BY <1>1, <1>2 DEF ToSet
    <2>3. ASSUME NEW i \in 1..Len(t) PROVE t[i] \in ToSet(u)
      <3>1. i + Len(s) \in 1..Len(u) /\ u[i + Len(s)] = t[i]
        BY <1>1, <1>3
      <3> QED
        BY <1>1, <3>1 DEF ToSet
    <2>4. \A x \in ToSet(t) : x \in ToSet(u)
      BY <2>3 DEF ToSet
    <2> QED
      BY <2>1, <2>2, <2>4
  <1>5. IsInjective(u)
    <2>1. SUFFICES ASSUME NEW i \in 1..Len(u), NEW j \in 1..Len(u), u[i] = u[j], i < j PROVE FALSE
      BY <1>1 DEF IsInjective
    <2>2. CASE j <= Len(s)
      BY <1>1, <1>2, <2>1, <2>2 DEF IsInjective
    <2>3. CASE i > Len(s)
      BY <1>1, <1>2, <2>1, <2>3 DEF IsInjective
    <2>4. CASE i <= Len(s) /\ j > Len(s)
      <3>1. i \in 1..Len(s) /\ j - Len(s) \in 1..Len(t)
        BY <1>1, <2>1, <2>4
      <3>2. s[i] = t[j - Len(s)]
        <4>1. u[i] = s[i] /\ u[j] = t[j - Len(s)]
          BY <1>1, <1>2, <2>4, <3>1
        <4> QED
          BY <2>1, <4>1
      <3>3. s[i] \in ToSet(s) /\ t[j - Len(s)] \in ToSet(t)
        BY <3>1 DEF ToSet
      <3> QED
        BY <3>2, <3>3 DEF Apart
    <2> QED
      BY <2>2, <2>3, <2>4, <1>1
  <1> QED
    BY <1>1, <1>4, <1>5 DEF u

(* A batch leaves the queue: nothing is lost, and nothing is in two places. *)
LEMMA BatchTaken ==
  ASSUME LogInv, NEW batch \in Seq(Entries), batch # <<>>, IsInjective(batch),
         Apart(batch, logRow), \A b \in appending : Apart(b, batch),
         logged' \in Nat, logged <= logged', logged' \in 0..MaxLogs,
         ToSet(batch) \subseteq 1..logged',
         logged' = logged \/ (logged' = logged + 1 /\ ToSet(batch) = ToSet(logQueue) \cup {logged'}),
         logged' = logged => ToSet(batch) = ToSet(logQueue),
         appending' = appending \cup {batch}, logQueue' = <<>>,
         halt' \in {"no", "flushing", "stopped"}, halt' = "no" => halt = "no",
         UNCHANGED <<logRow, logFailed>>
  PROVE  LogInv'
  <1>1. logged \in Nat
    BY DEF LogInv, LogTypeOK
  <1>2. LogTypeOK'
    BY ActivityConstants DEF LogInv, LogTypeOK
  <1>3. LoggedOnce'
    BY DEF LogInv, LoggedOnce
  <1>4. ToSet(logQueue') = {} /\ IsInjective(logQueue')
    BY DEF ToSet, IsInjective
  <1>5. \A s \in appending' \cup {logQueue', logRow'} : ToSet(s) \subseteq 1..logged'
    <2>1. ASSUME NEW s \in appending \cup {logQueue, logRow} PROVE ToSet(s) \subseteq 1..logged'
      BY <1>1 DEF LogInv, LogIsApart
    <2> QED
      BY <1>4, <2>1
  <1>6. LogIsApart'
    <2>1. logFailed \subseteq 1..logged'
      BY <1>1 DEF LogInv, LogIsApart
    <2> QED
      BY <1>4, <1>5, <2>1 DEF LogInv, LogIsApart, Apart
  <1>7. LogIsComplete'
    <2>1. SUFFICES ASSUME halt' = "no", NEW n \in 1..logged'
                   PROVE  n \in ToSet(logRow) \cup logFailed \/ \E b \in appending' : n \in ToSet(b)
      BY <1>4 DEF LogIsComplete
    <2>2. CASE n \in ToSet(batch)
      BY <2>2
    <2>3. CASE n \notin ToSet(batch)
      <3>1. n \in 1..logged /\ n \notin ToSet(logQueue)
        BY <1>1, <2>1, <2>3
      <3> QED
        BY <2>1, <3>1 DEF LogInv, LogIsComplete
    <2> QED
      BY <2>2, <2>3
  <1> QED
    BY <1>2, <1>3, <1>6, <1>7 DEF LogInv

(* flushAllActivityLogs takes what is queued. *)
LEMMA TakeAllStep ==
  ASSUME LogInv, logQueue # <<>>, TakeAll, UNCHANGED <<logRow, logFailed, logged>>,
         halt' \in {"no", "flushing", "stopped"}, halt' = "no" => halt = "no"
  PROVE  LogInv'
  <1>1. /\ logged \in 0..MaxLogs /\ logged \in Nat /\ logQueue \in Seq(Entries)
    BY ActivityConstants DEF LogInv, LogTypeOK
  <1>2. /\ IsInjective(logQueue) /\ Apart(logQueue, logRow) /\ ToSet(logQueue) \subseteq 1..logged
        /\ \A b \in appending : Apart(b, logQueue)
    BY DEF LogInv, LogIsApart
  <1> QED
    BY <1>1, <1>2, BatchTaken DEF TakeAll

(* An event's entry is queued, and a full batch taken at once. *)
LEMMA QueueStep ==
  ASSUME LogInv, logged < MaxLogs, QueueActivityLog, UNCHANGED <<logRow, logFailed, halt>>
  PROVE  LogInv'
  <1> DEFINE n == logged + 1
             entries == Append(logQueue, n)
  <1>1. /\ logged \in 0..MaxLogs /\ logged \in Nat /\ n \in Entries /\ n \in 0..MaxLogs
        /\ logQueue \in Seq(Entries) /\ 1..logged \subseteq 1..n /\ n \notin 1..logged
        /\ halt \in {"no", "flushing", "stopped"}
    BY ActivityConstants DEF LogInv, LogTypeOK, Entries
  <1>2. logged' = n
    BY DEF QueueActivityLog
  <1>3. \A s \in appending \cup {logQueue, logRow} : ToSet(s) \subseteq 1..logged /\ n \notin ToSet(s)
    BY <1>1 DEF LogInv, LogIsApart
  <1>4. IsInjective(logQueue) /\ n \notin ToSet(logQueue)
    BY <1>3 DEF LogInv, LogIsApart
  <1>5. /\ entries \in Seq(Entries) /\ entries # <<>> /\ IsInjective(entries)
        /\ ToSet(entries) = ToSet(logQueue) \cup {n}
    BY <1>1, <1>4, AppendedEntry
  <1>6. /\ Apart(entries, logRow) /\ \A b \in appending : Apart(b, entries)
        /\ ToSet(entries) \subseteq 1..n
    BY <1>1, <1>3, <1>5 DEF LogInv, LogIsApart, Apart
  <1>7. CASE Len(entries) >= MaxBatch
    <2>1. appending' = appending \cup {entries} /\ logQueue' = <<>>
      BY <1>7 DEF QueueActivityLog, Forced
    <2> HIDE DEF entries
    <2> QED
      BY <1>1, <1>2, <1>5, <1>6, <2>1, BatchTaken
  <1>8. CASE ~(Len(entries) >= MaxBatch)
    <2>1. logQueue' = entries /\ appending' = appending
      BY <1>8 DEF QueueActivityLog
    <2>2. Len(entries) < MaxBatch
      BY <1>5, <1>8, ActivityConstants
    <2> HIDE DEF entries
    <2>3. LogTypeOK'
      BY <1>1, <1>2, <1>5, <2>1, <2>2 DEF LogInv, LogTypeOK
    <2>4. LoggedOnce'
      BY DEF LogInv, LoggedOnce
    <2>5. LogIsApart'
      <3>1. \A s \in appending' \cup {logQueue', logRow'} : ToSet(s) \subseteq 1..n
        BY <1>1, <1>3, <1>6, <2>1
      <3>2. logFailed \subseteq 1..n
        BY <1>1 DEF LogInv, LogIsApart
      <3> QED
        BY <1>2, <1>5, <1>6, <2>1, <3>1, <3>2 DEF LogInv, LogIsApart
    <2>6. LogIsComplete'
      <3>1. \A i \in 1..n : i \in 1..logged \/ i = n
        BY <1>1
      <3> QED
        BY <1>2, <1>5, <2>1, <3>1 DEF LogInv, LogIsComplete
    <2> QED
      BY <2>3, <2>4, <2>5, <2>6 DEF LogInv
  <1> QED
    BY <1>7, <1>8

(* A write ends, in the row or in the log of failures. *)
LEMMA AppendStep ==
  ASSUME LogInv, NEW batch \in appending, NEW ok \in BOOLEAN, EndAppend(batch, ok)
  PROVE  LogInv'
  <1>1. appending' = appending \ {batch} /\ UNCHANGED <<logQueue, logged, halt>>
    BY DEF EndAppend
  <1>2. /\ batch \in Seq(Entries) /\ logRow \in Seq(Entries)
        /\ IsInjective(batch) /\ IsInjective(logRow) /\ Apart(logRow, batch)
        /\ Apart(batch, logQueue) /\ Apart(logQueue, logRow)
        /\ \A b \in appending' : Apart(b, batch) /\ Apart(b, logRow) /\ Apart(b, logQueue)
    BY <1>1 DEF LogInv, LogTypeOK, LogIsApart, LoggedOnce, Apart
  <1>3. \A s \in appending \cup {logQueue, logRow} : ToSet(s) \subseteq 1..logged
    BY DEF LogInv, LogIsApart
  <1>4. logFailed \subseteq 1..logged /\ 1..logged \subseteq Entries
    BY ActivityConstants DEF LogInv, LogIsApart, LogTypeOK, Entries
  <1>5. CASE ok
    <2>1. logRow' = logRow \o batch /\ logFailed' = logFailed
      BY <1>5 DEF EndAppend, Appended
    <2>2. /\ logRow' \in Seq(Entries) /\ IsInjective(logRow')
          /\ ToSet(logRow') = ToSet(logRow) \cup ToSet(batch)
      BY <1>2, <2>1, ConcatenatedEntries
    <2>3. LogTypeOK'
      BY <1>1, <2>1, <2>2 DEF LogInv, LogTypeOK
    <2>4. LogIsApart'
      <3>1. Apart(logQueue, logRow') /\ \A b \in appending' : Apart(b, logRow')
        BY <1>2, <2>2 DEF Apart
      <3>2. \A s \in appending' \cup {logQueue', logRow'} : ToSet(s) \subseteq 1..logged
        BY <1>1, <1>3, <2>2
      <3> QED
        BY <1>1, <1>4, <2>1, <3>1, <3>2 DEF LogInv, LogIsApart
    <2>5. LogIsComplete'
      BY <1>1, <2>1, <2>2 DEF LogInv, LogIsComplete
    <2> QED
      BY <2>2, <2>3, <2>4, <2>5 DEF LogInv, LoggedOnce
  <1>6. CASE ~ok
    <2>1. logRow' = logRow /\ logFailed' = logFailed \cup ToSet(batch)
      BY <1>6 DEF EndAppend
    <2>2. logFailed' \subseteq 1..logged /\ logFailed' \subseteq Entries
      BY <1>3, <1>4, <2>1
    <2>3. LogTypeOK'
      BY <1>1, <2>1, <2>2 DEF LogInv, LogTypeOK
    <2>4. LogIsApart'
      BY <1>1, <2>1, <2>2 DEF LogInv, LogIsApart
    <2>5. LogIsComplete'
      BY <1>1, <2>1 DEF LogInv, LogIsComplete
    <2> QED
      BY <2>1, <2>3, <2>4, <2>5 DEF LogInv, LoggedOnce
  <1> QED
    BY <1>5, <1>6

(* Every step of the log keeps its invariant. *)
LEMMA LogSteps ==
  ASSUME LogInv, [LogNext]_logVars
  PROVE  LogInv'
  <1>1. CASE FlushTimer
    BY <1>1, TakeAllStep DEF FlushTimer
  <1>2. CASE Stop
    <2>1. CASE logQueue = <<>>
      BY <1>2, <2>1 DEF Stop, LogInv, LogTypeOK, LoggedOnce, LogIsApart, LogIsComplete
    <2>2. CASE logQueue # <<>>
      BY <1>2, <2>2, TakeAllStep DEF Stop
    <2> QED
      BY <2>1, <2>2
  <1>3. CASE Stopped
    <2>1. ToSet(logQueue') = {} /\ IsInjective(logQueue') /\ logQueue' \in Seq(Entries) /\ Len(logQueue') = 0
      BY <1>3 DEF Stopped, ToSet, IsInjective
    <2> QED
      BY <1>3, <2>1, ActivityConstants
         DEF Stopped, LogInv, LogTypeOK, LoggedOnce, LogIsApart, LogIsComplete, Apart
  <1>4. ASSUME NEW event \in Events, NEW part \in Parts, HandleEvent(event, part) PROVE LogInv'
    <2>1. CASE IsSaved(FrontendType(event, part))
      BY <1>4, <2>1, QueueStep DEF HandleEvent
    <2>2. CASE ~IsSaved(FrontendType(event, part))
      BY <1>4, <2>2 DEF HandleEvent, LogInv, LogTypeOK, LoggedOnce, LogIsApart, LogIsComplete
    <2> QED
      BY <2>1, <2>2
  <1>5. CASE \E batch \in appending : \E ok \in BOOLEAN : EndAppend(batch, ok)
    BY <1>5, AppendStep
  <1>6. CASE UNCHANGED logVars
    BY <1>6 DEF logVars, LogInv, LogTypeOK, LoggedOnce, LogIsApart, LogIsComplete
  <1> QED
    BY <1>1, <1>2, <1>3, <1>4, <1>5, <1>6 DEF LogNext

LEMMA LogStarts ==
  ASSUME LogInit
  PROVE  LogInv
  <1>1. ToSet(<<>>) = {} /\ IsInjective(<<>>)
    BY DEF ToSet, IsInjective
  <1> QED
    BY <1>1, ActivityConstants
       DEF LogInit, LogInv, LogTypeOK, LoggedOnce, LogIsApart, LogIsComplete, Apart

(* Every entry is queued, on its way, in the row once, or known to have failed,
   however timer, full batches, writes and stop() interleave. *)
THEOREM LogIsSound == LogSpec => []LogInv
  BY LogStarts, LogSteps, PTL DEF LogSpec

-----------------------------------------------------------------------------
(* Projects and repositories. *)

(* A list of the repositories in a set: all of them, and no other. *)
LEMMA ListOfRepos ==
  ASSUME NEW S \in SUBSET Repos
  PROVE  SetToSeq(S) \in Seq(Repos) /\ ToSet(SetToSeq(S)) = S
  <1> DEFINE n == Cardinality(S)
             f == SetToSeq(S)
  <1>1. IsFiniteSet(S)
    BY RepositoriesConstants, FS_Subset
  <1>2. n \in Nat /\ ExistsBijection(1..n, S)
    BY <1>1, FS_CardinalityType
  <1>3. \E g \in [1..n -> S] : IsInjective(g)
    BY <1>2 DEF ExistsBijection, Bijection, Injection
  <1>4. f \in [1..n -> S] /\ IsInjective(f)
    BY <1>3 DEF SetToSeq
  <1> HIDE DEF f
  <1>5. Cardinality(1..n) = n
    BY <1>2, FS_Interval
  <1>6. f \in Injection(1..n, S)
    BY <1>4 DEF Injection
  <1> HIDE DEF n
  <1>7. f \in Surjection(1..n, S)
    BY <1>1, <1>5, <1>6, FS_Injection DEF n
  <1>8. ToSet(f) = S
    BY <1>4, <1>7 DEF Surjection, ToSet
  <1>9. f \in Seq(Repos)
    BY <1>2, <1>4
  <1> QED
    BY <1>8, <1>9 DEF f

(* What is stored reads back as what the client meant, by either of the two
   routes: a secret that comes back encrypted is not encrypted again. *)
LEMMA StoredReadsBack ==
  ASSUME NEW list \in EnvLists, OnlySecretsEncrypted(list)
  PROVE  /\ PrepareForStorage(list) \in EnvLists /\ Meant(list) \in EnvLists
         /\ OnlySecretsEncrypted(PrepareForStorage(list))
         /\ Decrypted(PrepareForStorage(list)) = Meant(list)
         /\ Decrypted(list) = Meant(list)
  <1> DEFINE Values == [form : Forms, text : EnvTexts \cup {"none"}]
  <1>1. ASSUME NEW v \in Values
        PROVE  /\ Encrypt(v) \in Values /\ Decrypt(v) \in Values
               /\ Decrypt(Encrypt(v)) = Decrypt(v)
    <2>1. CASE v.form = "plain"
      <3> DEFINE w == [v EXCEPT !.form = "encrypted"]
      <3>1. Encrypt(v) = w /\ Decrypt(v) = v
        BY <2>1 DEF Encrypt, Decrypt
      <3>2. w \in Values /\ w.form = "encrypted" /\ w.text = v.text
        BY DEF Forms
      <3>3. Plain(v.text) = v
        BY <2>1 DEF Plain
      <3> HIDE DEF w
      <3>4. Decrypt(w) = v
        BY <3>2, <3>3 DEF Decrypt
      <3> QED
        BY <3>1, <3>2, <3>4
    <2>2. CASE v.form = "encrypted"
      <3>1. Encrypt(v) = v /\ Decrypt(v) = Plain(v.text)
        BY <2>2 DEF Encrypt, Decrypt
      <3>2. Plain(v.text) \in Values
        BY DEF Plain, Forms
      <3> QED
        BY <3>1, <3>2
    <2>3. CASE v.form = "unset"
      BY <2>3 DEF Encrypt, Decrypt
    <2> QED
      BY <2>1, <2>2, <2>3 DEF Forms
  <1>2. \A k \in EnvKeys : list[k] \in Values
    BY DEF EnvLists
  <1>3. \A k \in EnvKeys \ SecretKeys : Decrypt(list[k]) = list[k]
    BY DEF OnlySecretsEncrypted, Decrypt
  <1>4. Meant(list) = [k \in EnvKeys |-> Decrypt(list[k])]
    BY DEF Meant, Decrypt
  <1> HIDE DEF Values
  <1>5. PrepareForStorage(list) \in EnvLists /\ Meant(list) \in EnvLists
    BY <1>1, <1>2, <1>4 DEF PrepareForStorage, EnvLists, Values
  <1>6. OnlySecretsEncrypted(PrepareForStorage(list))
    BY DEF PrepareForStorage, OnlySecretsEncrypted
  <1>7. Decrypted(PrepareForStorage(list)) = Meant(list)
    BY <1>1, <1>2, <1>3, <1>4 DEF PrepareForStorage, Decrypted
  <1>8. Decrypted(list) = Meant(list)
    BY <1>3, <1>4 DEF Decrypted
  <1> QED
    BY <1>5, <1>6, <1>7, <1>8

(* The invariant's two halves: what is stored and read of the variables ... *)
EnvPart == /\ {envColumn, envFile, given, fileGiven} \subseteq [Repos -> EnvLists]
           /\ EnvRoundTrip /\ EnvFileIsGiven /\ ReadIsGiven

(* ... and which repositories are active. *)
RowPart == /\ project \in {"none", "active", "deleted"}
           /\ repoRow \in [Repos -> {"absent", "active", "inactive"}]
           /\ late \subseteq Repos /\ NothingLeftActive /\ DeletionReachesAll

RequestPart == repoRequested \in 0..MaxRepoRequests /\ repoRequests \subseteq RepoRequests

LEMMA RepositoriesParts == RepositoriesInv <=> EnvPart /\ RowPart /\ RequestPart
  BY DEF RepositoriesInv, RepositoriesTypeOK, EnvPart, RowPart, RequestPart

(* The steps that leave the variables alone; requests read what is stored. *)
LEMMA EnvKept ==
  ASSUME EnvPart, UNCHANGED <<envColumn, envFile, given, fileGiven>>,
         \A r \in repoRequests' :
            \/ r.read = envColumn /\ r.wanted = given
            \/ \E q \in repoRequests : r.read = q.read /\ r.wanted = q.wanted
  PROVE  EnvPart'
  <1>1. ASSUME NEW r \in repoRequests', NEW x \in Repos PROVE Decrypted(r.read[x]) = r.wanted[x]
    <2>1. CASE r.read = envColumn /\ r.wanted = given
      BY <2>1 DEF EnvPart, EnvRoundTrip
    <2>2. CASE \E q \in repoRequests : r.read = q.read /\ r.wanted = q.wanted
      BY <2>2 DEF EnvPart, ReadIsGiven
    <2> QED
      BY <2>1, <2>2
  <1> QED
    BY <1>1 DEF EnvPart, EnvRoundTrip, EnvFileIsGiven, ReadIsGiven, OnlySecretsEncrypted

(* A request of several statements arrives. *)
LEMMA AskedStep ==
  ASSUME RequestPart, {envColumn, given} \subseteq [Repos -> EnvLists],
         NEW kind \in {"create", "delete", "launch"}, NEW rest \in Seq(Repos), Asked(kind, rest)
  PROVE  /\ RequestPart'
         /\ \E new : /\ repoRequests' = repoRequests \cup {new}
                     /\ new.kind = kind /\ new.rest = rest
                     /\ new.read = envColumn /\ new.wanted = given
  <1> DEFINE new == [kind |-> kind, rest |-> rest, all |-> ToSet(rest), read |-> envColumn,
                     wanted |-> given, id |-> repoRequested]
  <1>1. ToSet(rest) \in SUBSET Repos
    BY DEF ToSet
  <1>2. repoRequested \in 0..MaxRepoRequests /\ repoRequested + 1 \in 0..MaxRepoRequests
    BY RepositoriesConstants DEF RequestPart, Asked
  <1>3. new \in RepoRequests
    BY <1>1, <1>2 DEF RepoRequests
  <1>4. repoRequests' = repoRequests \cup {new} /\ repoRequested' = repoRequested + 1
    BY DEF Asked
  <1>5. new.kind = kind /\ new.rest = rest /\ new.read = envColumn /\ new.wanted = given
    OBVIOUS
  <1> HIDE DEF new
  <1> QED
    BY <1>2, <1>3, <1>4, <1>5 DEF RequestPart

(* A request goes on to its next repository. *)
LEMMA NextOf ==
  ASSUME RequestPart, NEW r \in repoRequests, r.rest # <<>>
  PROVE  LET q == [r EXCEPT !.rest = Tail(@)]
         IN /\ q \in RepoRequests /\ q.kind = r.kind /\ q.read = r.read /\ q.wanted = r.wanted
            /\ q.rest = Tail(r.rest)
            /\ Head(r.rest) \in Repos /\ ToSet(r.rest) = {Head(r.rest)} \cup ToSet(Tail(r.rest))
            /\ r.rest \in Seq(Repos)
  <1> DEFINE s == r.rest
  <1>1. r \in RepoRequests /\ s \in Seq(Repos) /\ s # <<>>
    BY DEF RequestPart, RepoRequests
  <1>2. Tail(s) \in Seq(Repos) /\ Head(s) \in Repos
    BY <1>1
  <1>3. ToSet(s) = {Head(s)} \cup ToSet(Tail(s))
    <2>1. Head(s) = s[1] /\ Len(s) \in Nat \ {0} /\ Len(Tail(s)) = Len(s) - 1
      BY <1>1
    <2>2. \A i \in 1..Len(Tail(s)) : Tail(s)[i] = s[i + 1]
      BY <1>1
    <2>3. ASSUME NEW i \in 1..Len(s) PROVE s[i] \in {Head(s)} \cup ToSet(Tail(s))
      <3>1. CASE i = 1
        BY <2>1, <3>1
      <3>2. CASE i # 1
        <4>1. i - 1 \in 1..Len(Tail(s)) /\ Tail(s)[i - 1] = s[i]
          BY <2>1, <2>2, <3>2
        <4>2. DOMAIN Tail(s) = 1..Len(Tail(s))
          BY <1>2
        <4>3. Tail(s)[i - 1] \in ToSet(Tail(s))
          BY <4>1, <4>2, Zenon DEF ToSet
        <4> QED
          BY <4>1, <4>3
      <3> QED
        BY <3>1, <3>2
    <2>4. ASSUME NEW i \in 1..Len(Tail(s)) PROVE Tail(s)[i] \in ToSet(s)
      <3>1. i + 1 \in 1..Len(s) /\ Tail(s)[i] = s[i + 1]
        BY <2>1, <2>2
      <3> QED
        BY <1>1, <3>1 DEF ToSet
    <2>5. Head(s) \in ToSet(s)
      BY <1>1, <2>1 DEF ToSet
    <2>6. \A x \in ToSet(s) : x \in {Head(s)} \cup ToSet(Tail(s))
      BY <1>1, <2>3 DEF ToSet
    <2>7. \A x \in ToSet(Tail(s)) : x \in ToSet(s)
      BY <1>2, <2>4 DEF ToSet
    <2> QED
      BY <2>5, <2>6, <2>7
  <1>4. /\ [r EXCEPT !.rest = Tail(r.rest)] \in RepoRequests
        /\ [r EXCEPT !.rest = Tail(r.rest)].kind = r.kind
        /\ [r EXCEPT !.rest = Tail(r.rest)].read = r.read
        /\ [r EXCEPT !.rest = Tail(r.rest)].wanted = r.wanted
        /\ [r EXCEPT !.rest = Tail(r.rest)].rest = Tail(r.rest)
    BY <1>1, <1>2 DEF RepoRequests
  <1> QED
    BY <1>1, <1>2, <1>3, <1>4

(* POST /projects and a launch read what there is; so does a deletion, which
   lists all that is active then. *)
LEMMA ReadingStep ==
  ASSUME RepositoriesInv,
         \/ \E xs \in SUBSET Repos : CreateProject(SetToSeq(xs))
         \/ LaunchReads \/ DeleteProject
  PROVE  RepositoriesInv'
  <1>1. EnvPart /\ RowPart /\ RequestPart
    BY RepositoriesParts
  <1>2. PICK kind \in {"create", "launch", "delete"}, xs \in SUBSET Repos :
           /\ Asked(kind, SetToSeq(xs))
           /\ kind = "delete" => /\ xs = {x \in Repos : repoRow[x] = "active"}
                                 /\ late' = IF project = "active" THEN {} ELSE late
                                 /\ UNCHANGED project /\ \A r \in repoRequests : r.kind # "delete"
           /\ kind # "delete" => late' = late
           /\ project' \in {project, "active"} /\ (project = "none" \/ project' = project)
    <2>1. {x \in Repos : repoRow[x] = "active"} \in SUBSET Repos
      OBVIOUS
    <2> QED
      BY <2>1 DEF CreateProject, LaunchReads, DeleteProject, ActiveRepos
  <1>3. UNCHANGED <<repoRow, envColumn, envFile, given, fileGiven>>
    BY DEF CreateProject, LaunchReads, DeleteProject
  <1>4. SetToSeq(xs) \in Seq(Repos) /\ ToSet(SetToSeq(xs)) = xs
    BY ListOfRepos
  <1>5. /\ RequestPart'
        /\ \E new : /\ repoRequests' = repoRequests \cup {new}
                    /\ new.kind = kind /\ new.rest = SetToSeq(xs)
                    /\ new.read = envColumn /\ new.wanted = given
    BY <1>1, <1>2, <1>4, AskedStep DEF EnvPart
  <1>6. PICK new : /\ repoRequests' = repoRequests \cup {new}
                   /\ new.kind = kind /\ new.rest = SetToSeq(xs)
                   /\ new.read = envColumn /\ new.wanted = given
    BY <1>5
  <1>7. EnvPart'
    BY <1>1, <1>3, <1>6, EnvKept
  <1>8. NothingLeftActive'
    BY <1>1, <1>2, <1>3 DEF RowPart, NothingLeftActive
  <1>9. ToSet(new.rest) = xs
    BY <1>4, <1>6
  <1>10. \A r \in repoRequests' : r \in repoRequests \/ r = new
    BY <1>6
  <1>11. DeletionReachesAll'
    <2>1. CASE kind = "delete"
      BY <1>2, <1>3, <1>6, <1>9, <1>10, <2>1 DEF DeletionReachesAll
    <2>2. CASE kind # "delete"
      <3>1. new.kind # "delete" /\ late' = late
        BY <1>2, <1>6, <2>2
      <3> QED
        BY <1>1, <1>3, <1>10, <3>1 DEF RowPart, DeletionReachesAll
    <2> QED
      BY <2>1, <2>2
  <1>12. RowPart'
    BY <1>1, <1>2, <1>3, <1>8, <1>11 DEF RowPart
  <1> QED
    BY <1>5, <1>7, <1>12, RepositoriesParts, PTL

(* A repository is inserted or deactivated, by a request's next statement or by
   a request of its own. *)
LEMMA RowStep ==
  ASSUME RepositoriesInv,
         \/ \E r \in repoRequests : CreateNextRepository(r) \/ DeleteNextRepository(r)
         \/ \E x \in Repos : AddRepository(x) \/ DeleteRepository(x)
  PROVE  RepositoriesInv'
  <1>1. EnvPart /\ RowPart /\ RequestPart
    BY RepositoriesParts
  <1>2. UNCHANGED <<project, envColumn, envFile, given, fileGiven>>
    BY DEF CreateNextRepository, DeleteNextRepository, AddRepository, DeleteRepository
  <1>3. ASSUME NEW x \in Repos,
               \/ repoRow' = [repoRow EXCEPT ![x] = "active"] /\ late' = late \cup {x}
               \/ repoRow' = [repoRow EXCEPT ![x] = "inactive"] /\ late' = late,
               repoRequests' = repoRequests, repoRequested' \in 0..MaxRepoRequests
        PROVE  EnvPart' /\ RowPart' /\ RequestPart'
    <2>1. EnvPart' /\ RequestPart'
      BY <1>1, <1>2, <1>3, EnvKept DEF RequestPart
    <2>2. repoRow' \in [Repos -> {"absent", "active", "inactive"}] /\ late' \subseteq Repos
      BY <1>1, <1>3 DEF RowPart
    <2>3. \A y \in Repos : repoRow'[y] = "active" => repoRow[y] = "active" \/ y \in late'
      BY <1>1, <1>3 DEF RowPart
    <2>4. late \subseteq late'
      BY <1>3
    <2> QED
      BY <1>1, <1>2, <1>3, <2>1, <2>2, <2>3, <2>4 DEF RowPart, NothingLeftActive, DeletionReachesAll
  <1>4. ASSUME NEW x \in Repos, AddRepository(x) \/ DeleteRepository(x) PROVE RepositoriesInv'
    <2>1. repoRequests' = repoRequests /\ repoRequested' \in 0..MaxRepoRequests
      BY <1>1, <1>4, RepositoriesConstants DEF AddRepository, DeleteRepository, AskedOnce, RequestPart
    <2>2. \/ repoRow' = [repoRow EXCEPT ![x] = "active"] /\ late' = late \cup {x}
          \/ repoRow' = [repoRow EXCEPT ![x] = "inactive"] /\ late' = late
      BY <1>4 DEF AddRepository, DeleteRepository, Inserted
    <2>3. EnvPart' /\ RowPart' /\ RequestPart'
      BY <1>3, <2>1, <2>2
    <2> QED
      BY <2>3, RepositoriesParts, PTL
  <1>5. ASSUME NEW r \in repoRequests, CreateNextRepository(r) \/ DeleteNextRepository(r)
        PROVE  RepositoriesInv'
    <2> DEFINE x == Head(r.rest)
               q == [r EXCEPT !.rest = Tail(@)]
    <2>1. r.rest # <<>> /\ repoRequests' = (repoRequests \ {r}) \cup {q} /\ UNCHANGED repoRequested
      BY <1>5 DEF CreateNextRepository, DeleteNextRepository, Replaced
    <2>2. /\ q \in RepoRequests /\ q.kind = r.kind /\ q.read = r.read /\ q.wanted = r.wanted
          /\ x \in Repos /\ q.rest = Tail(r.rest) /\ ToSet(r.rest) = {x} \cup ToSet(Tail(r.rest))
      BY <1>1, <2>1, NextOf
    <2>3. \/ /\ r.kind = "create" /\ repoRow' = [repoRow EXCEPT ![x] = "active"]
             /\ late' = late \cup {x}
          \/ /\ r.kind = "delete" /\ repoRow' = [repoRow EXCEPT ![x] = "inactive"]
             /\ late' = late
      BY <1>5 DEF CreateNextRepository, DeleteNextRepository, Inserted
    <2>4. ToSet(r.rest) = {x} \cup ToSet(q.rest)
      BY <2>2, Zenon
    <2> HIDE DEF q, x
    <2>5. EnvPart'
      BY <1>1, <1>2, <2>1, <2>2, EnvKept
    <2>6. RequestPart'
      BY <1>1, <2>1, <2>2 DEF RequestPart
    <2>7. repoRow' \in [Repos -> {"absent", "active", "inactive"}] /\ late' \subseteq Repos
      BY <1>1, <2>2, <2>3 DEF RowPart
    <2>8. \A y \in Repos : repoRow'[y] = "active" => repoRow[y] = "active" \/ y \in late'
      BY <1>1, <2>2, <2>3 DEF RowPart
    <2>9. late \subseteq late'
      BY <2>3
    <2>10. NothingLeftActive'
      BY <1>1, <1>2, <2>8, <2>9 DEF RowPart, NothingLeftActive
    <2>11. ASSUME NEW s \in repoRequests', s.kind = "delete", NEW y \in Repos, repoRow'[y] = "active"
           PROVE  y \in late' \cup ToSet(s.rest)
      <3>1. CASE s \in repoRequests
        BY <1>1, <2>8, <2>9, <2>11, <3>1 DEF RowPart, DeletionReachesAll
      <3>2. CASE s = q
        <4>1. r.kind = "delete" /\ y # x
          BY <1>1, <2>2, <2>3, <2>11, <3>2 DEF RowPart
        <4>2. y \in late \cup ToSet(r.rest) \/ y \in late'
          BY <1>1, <2>8, <2>11, <4>1 DEF RowPart, DeletionReachesAll
        <4>3. ToSet(s.rest) = ToSet(q.rest)
          BY <3>2, Zenon
        <4> QED
          BY <2>4, <2>9, <4>1, <4>2, <4>3
      <3> QED
        BY <2>1, <3>1, <3>2
    <2>12. \A s, t \in repoRequests' : s.kind = "delete" /\ t.kind = "delete" => s = t
      BY <1>1, <2>1, <2>2 DEF RowPart, DeletionReachesAll
    <2>13. RowPart'
      BY <1>1, <1>2, <2>7, <2>10, <2>11, <2>12 DEF RowPart, DeletionReachesAll
    <2> QED
      BY <2>5, <2>6, <2>13, RepositoriesParts, PTL
  <1> QED
    BY <1>4, <1>5

(* A request is answered, or one of its statements throws. *)
LEMMA AnsweredStep ==
  ASSUME RepositoriesInv, NEW r \in repoRequests,
         CreateAnswered(r) \/ StatementFails(r) \/ DeleteAnswered(r)
  PROVE  RepositoriesInv'
  <1>1. EnvPart /\ RowPart /\ RequestPart
    BY RepositoriesParts
  <1>2. /\ repoRequests' \subseteq repoRequests
        /\ UNCHANGED <<repoRow, envColumn, envFile, repoRequested, given, fileGiven, late>>
    BY DEF CreateAnswered, StatementFails, DeleteAnswered, Replaced
  <1>3. EnvPart' /\ RequestPart'
    BY <1>1, <1>2, EnvKept DEF RequestPart
  <1>4. DeletionReachesAll'
    BY <1>1, <1>2 DEF RowPart, DeletionReachesAll
  <1>5. NothingLeftActive' /\ project' \in {"none", "active", "deleted"}
    <2>1. CASE project' = project
      BY <1>1, <1>2, <2>1 DEF RowPart, NothingLeftActive
    <2>2. CASE DeleteAnswered(r)
      <3>1. project' = "deleted" /\ r.kind = "delete" /\ ToSet(r.rest) = {}
        BY <2>2 DEF DeleteAnswered, ToSet
      <3> QED
        BY <1>1, <1>2, <3>1 DEF RowPart, DeletionReachesAll, NothingLeftActive
    <2> QED
      BY <2>1, <2>2 DEF CreateAnswered, StatementFails
  <1>6. RowPart'
    BY <1>1, <1>2, <1>4, <1>5 DEF RowPart
  <1> QED
    BY <1>3, <1>6, RepositoriesParts, PTL

(* Variables are stored, by PUT /env, DELETE /env or PUT /repositories/:id. *)
LEMMA StoreStep ==
  ASSUME RepositoriesInv, NEW x \in Repos,
         \/ ClearEnv(x)
         \/ \E list \in SentLists(x) :
               PutEnv(x, list) \/ \E row \in {"active", "inactive"} : UpdateRepository(x, list, row)
  PROVE  RepositoriesInv'
  <1>1. EnvPart /\ RowPart /\ RequestPart
    BY RepositoriesParts
  <1>2. /\ repoRequests' = repoRequests /\ UNCHANGED <<project, envFile, fileGiven>>
        /\ repoRequested < MaxRepoRequests /\ repoRequested' = repoRequested + 1
    BY DEF ClearEnv, PutEnv, UpdateRepository, Stored, AskedOnce
  <1>3. ASSUME NEW list \in SentLists(x) PROVE list \in EnvLists /\ OnlySecretsEncrypted(list)
    <2>1. list \in EnvLists /\ \A k \in EnvKeys : list[k] \in Sendable(x, k)
      BY DEF SentLists
    <2>2. ASSUME NEW k \in EnvKeys \ SecretKeys PROVE list[k].form # "encrypted"
      <3>1. \/ list[k] = Unset \/ list[k] = envColumn[x][k]
            \/ \E text \in EnvTexts : list[k] = Plain(text)
        BY <2>1 DEF Sendable
      <3>2. envColumn[x][k].form # "encrypted"
        BY <1>1 DEF EnvPart, ReadIsGiven, OnlySecretsEncrypted
      <3>3. Unset.form = "unset" /\ \A text : Plain(text).form = "plain"
        BY DEF Unset, Plain
      <3> QED
        BY <3>1, <3>2, <3>3
    <2> QED
      BY <2>1, <2>2 DEF OnlySecretsEncrypted
  <1>4. PICK new \in EnvLists, meant \in EnvLists :
           /\ OnlySecretsEncrypted(new) /\ Decrypted(new) = meant
           /\ envColumn' = [envColumn EXCEPT ![x] = new]
           /\ given' = [given EXCEPT ![x] = meant]
    <2>1. CASE ClearEnv(x)
      <3>1. NoVariables \in EnvLists /\ OnlySecretsEncrypted(NoVariables)
        BY DEF NoVariables, EnvLists, Unset, Forms, OnlySecretsEncrypted
      <3>2. Decrypted(NoVariables) = NoVariables
        BY DEF Decrypted, NoVariables, Unset, Decrypt
      <3> QED
        BY <2>1, <3>1, <3>2 DEF ClearEnv, Stored
    <2>2. ASSUME NEW list \in SentLists(x), PutEnv(x, list)
          PROVE  \E new \in EnvLists, meant \in EnvLists :
                    /\ OnlySecretsEncrypted(new) /\ Decrypted(new) = meant
                    /\ envColumn' = [envColumn EXCEPT ![x] = new]
                    /\ given' = [given EXCEPT ![x] = meant]
      BY <1>3, <2>2, StoredReadsBack DEF PutEnv, Stored
    <2>3. ASSUME NEW list \in SentLists(x), NEW row, UpdateRepository(x, list, row)
          PROVE  \E new \in EnvLists, meant \in EnvLists :
                    /\ OnlySecretsEncrypted(new) /\ Decrypted(new) = meant
                    /\ envColumn' = [envColumn EXCEPT ![x] = new]
                    /\ given' = [given EXCEPT ![x] = meant]
      BY <1>3, <2>3, StoredReadsBack DEF UpdateRepository, Stored
    <2> QED
      BY <2>1, <2>2, <2>3
  <1>5. EnvPart'
    <2>1. {envColumn', envFile', given', fileGiven'} \subseteq [Repos -> EnvLists]
      BY <1>1, <1>2, <1>4 DEF EnvPart
    <2>2. \A y \in Repos : /\ envColumn'[y] = IF y = x THEN new ELSE envColumn[y]
                           /\ given'[y] = IF y = x THEN meant ELSE given[y]
      BY <1>1, <1>4 DEF EnvPart
    <2>3. ASSUME NEW y \in Repos
          PROVE  Decrypted(envColumn'[y]) = given'[y] /\ OnlySecretsEncrypted(envColumn'[y])
      <3>1. CASE y = x
        BY <1>4, <2>2, <3>1
      <3>2. CASE y # x
        BY <1>1, <2>2, <3>2 DEF EnvPart, EnvRoundTrip, ReadIsGiven
      <3> QED
        BY <3>1, <3>2
    <2> QED
      BY <1>1, <1>2, <2>1, <2>3
         DEF EnvPart, EnvRoundTrip, EnvFileIsGiven, ReadIsGiven, OnlySecretsEncrypted
  <1>6. RowPart'
    <2>1. /\ repoRow' \in [Repos -> {"absent", "active", "inactive"}] /\ late' \subseteq Repos
          /\ late \subseteq late'
      BY <1>1 DEF RowPart, ClearEnv, PutEnv, UpdateRepository
    <2>2. \A y \in Repos : repoRow'[y] = "active" => repoRow[y] = "active" \/ y \in late'
      BY <1>1 DEF RowPart, ClearEnv, PutEnv, UpdateRepository
    <2> QED
      BY <1>1, <1>2, <2>1, <2>2 DEF RowPart, NothingLeftActive, DeletionReachesAll
  <1>7. RequestPart'
    BY <1>1, <1>2, RepositoriesConstants DEF RequestPart
  <1> QED
    BY <1>5, <1>6, <1>7, RepositoriesParts, PTL

(* A launch writes the .env of its next repository. *)
LEMMA LaunchStep ==
  ASSUME RepositoriesInv, NEW r \in repoRequests, LaunchWritesEnv(r)
  PROVE  RepositoriesInv'
  <1> DEFINE x == Head(r.rest)
             q == [r EXCEPT !.rest = Tail(@)]
  <1>1. EnvPart /\ RowPart /\ RequestPart
    BY RepositoriesParts
  <1>2. /\ r.kind = "launch" /\ r.rest # <<>> /\ repoRequests' \in {repoRequests \ {r}, (repoRequests \ {r}) \cup {q}}
        /\ UNCHANGED <<project, repoRow, envColumn, repoRequested, given, late>>
    BY DEF LaunchWritesEnv, Replaced
  <1>3. /\ q \in RepoRequests /\ q.kind = r.kind /\ q.read = r.read /\ q.wanted = r.wanted
        /\ x \in Repos
    BY <1>1, <1>2, NextOf
  <1>4. \/ UNCHANGED <<envFile, fileGiven>>
        \/ /\ envFile' = [envFile EXCEPT ![x] = Decrypted(r.read[x])]
           /\ fileGiven' = [fileGiven EXCEPT ![x] = r.wanted[x]]
    BY DEF LaunchWritesEnv, EnvFileContent
  <1> HIDE DEF q, x
  <1>5. r.wanted \in [Repos -> EnvLists] /\ Decrypted(r.read[x]) = r.wanted[x]
    BY <1>1, <1>3 DEF EnvPart, ReadIsGiven, RequestPart, RepoRequests
  <1>6. envFile' \in [Repos -> EnvLists] /\ fileGiven' \in [Repos -> EnvLists] /\ EnvFileIsGiven'
    <2>1. CASE UNCHANGED <<envFile, fileGiven>>
      BY <1>1, <2>1 DEF EnvPart, EnvFileIsGiven
    <2>2. CASE /\ envFile' = [envFile EXCEPT ![x] = r.wanted[x]]
               /\ fileGiven' = [fileGiven EXCEPT ![x] = r.wanted[x]]
      BY <1>1, <1>3, <1>5, <2>2 DEF EnvPart, EnvFileIsGiven
    <2> QED
      BY <1>4, <1>5, <2>1, <2>2
  <1>7. \A s \in repoRequests' : \A y \in Repos : Decrypted(s.read[y]) = s.wanted[y]
    <2>1. \A y \in Repos : Decrypted(r.read[y]) = r.wanted[y]
      BY <1>1 DEF EnvPart, ReadIsGiven
    <2>2. \A y \in Repos : Decrypted(q.read[y]) = q.wanted[y]
      BY <1>3, <2>1, Zenon
    <2> QED
      BY <1>1, <1>2, <2>2 DEF EnvPart, ReadIsGiven
  <1>8. EnvPart'
    BY <1>1, <1>2, <1>6, <1>7 DEF EnvPart, EnvRoundTrip, ReadIsGiven, OnlySecretsEncrypted
  <1>9. RowPart' /\ RequestPart'
    BY <1>1, <1>2, <1>3 DEF RowPart, RequestPart, NothingLeftActive, DeletionReachesAll
  <1> QED
    BY <1>8, <1>9, RepositoriesParts, PTL

(* However requests overlap, fail half-way and are sent again, the variables
   read back as given, the .env files hold what their launch read, and a
   deleted project keeps nothing active that its deletion could have seen. *)
THEOREM RepositoriesAreSound == RepositoriesSpec => []RepositoriesInv
  <1>1. ASSUME RepositoriesInit PROVE RepositoriesInv
    <2>1. NoVariables \in EnvLists /\ OnlySecretsEncrypted(NoVariables) /\ Decrypted(NoVariables) = NoVariables
      BY DEF NoVariables, EnvLists, Unset, Forms, OnlySecretsEncrypted, Decrypted, Decrypt
    <2>2. EnvPart
      BY <1>1, <2>1 DEF RepositoriesInit, EnvPart, EnvRoundTrip, EnvFileIsGiven, ReadIsGiven
    <2>3. RowPart /\ RequestPart
      BY <1>1, RepositoriesConstants
         DEF RepositoriesInit, RowPart, RequestPart, NothingLeftActive, DeletionReachesAll
    <2> QED
      BY <2>2, <2>3, RepositoriesParts
  <1>2. ASSUME RepositoriesInv, [RepositoriesNext]_repoVars PROVE RepositoriesInv'
    <2>1. CASE UNCHANGED repoVars
      BY <1>2, <2>1
         DEF repoVars, RepositoriesInv, RepositoriesTypeOK, EnvRoundTrip, EnvFileIsGiven,
             NothingLeftActive, ReadIsGiven, OnlySecretsEncrypted, DeletionReachesAll
    <2>2. CASE RepositoriesNext
      BY <1>2, <2>2, ReadingStep, RowStep, AnsweredStep, StoreStep, LaunchStep DEF RepositoriesNext
    <2> QED
      BY <1>2, <2>1, <2>2
  <1> QED
    BY <1>1, <1>2, PTL DEF RepositoriesSpec

-----------------------------------------------------------------------------
(* The execution trace. *)

(* The highest of some numbers. *)
LEMMA HighestNumber ==
  ASSUME NEW S \in SUBSET Nat, S # {}, NEW n \in Nat, \A x \in S : x <= n
  PROVE  Max(S) \in S /\ Max(S) <= n
  <1> DEFINE Bounds == {k \in Nat : \A x \in S : x <= k}
  <1>1. Bounds \subseteq Nat /\ Bounds # {}
    OBVIOUS
  <1>2. PICK m \in Bounds : \A k \in Bounds : <<k, m>> \notin OpToRel(<, Nat)
    BY <1>1, NatLessThanWellFounded, WFMin
  <1>3. \A k \in Bounds : ~(k < m)
    BY <1>1, <1>2 DEF OpToRel
  <1>4. m \in S
    <2>1. SUFFICES ASSUME m \notin S PROVE FALSE
      OBVIOUS
    <2>2. \A x \in S : x < m
      BY <2>1
    <2>3. PICK x \in S : x < m
      BY <2>2
    <2>4. m - 1 \in Nat /\ \A y \in S : y <= m - 1
      BY <2>2, <2>3
    <2> QED
      BY <1>3, <2>4
  <1>5. \E x \in S : \A y \in S : x >= y
    BY <1>4
  <1>6. Max(S) \in S
    BY <1>5 DEF Max
  <1> QED
    BY <1>6

(* What the rows and the objects refer to. *)
LEMMA TraceRefs ==
  ASSUME TraceInv
  PROVE  /\ {Len(executions), Len(turns), Len(calls), MaxExecutions, MaxTurns, MaxCalls} \subseteq Nat
         /\ DOMAIN tracked = 1..Len(executions) /\ DOMAIN executions = 1..Len(executions)
         /\ DOMAIN turns = 1..Len(turns) /\ DOMAIN calls = 1..Len(calls)
         /\ active # 0 => active \in DOMAIN tracked
         /\ \A t \in DOMAIN turns : turns[t] \in TurnRows /\ turns[t].exec \in DOMAIN tracked
                                    /\ turns[t].number \in Nat
         /\ \A e \in DOMAIN tracked : /\ tracked[e] \in Objects
                                      /\ tracked[e].turn \in 0..Len(turns)
                                      /\ tracked[e].number \in 0..Len(turns)
                                      /\ tracked[e].pending \in [ToolUses -> 0..Len(calls)]
         /\ \A c \in DOMAIN calls : calls[c] \in CallRows /\ calls[c].turn \in DOMAIN turns
                                    /\ calls[c].order \in Nat
         /\ \A b \in beginning : b \in Beginnings /\ b.exec \in DOMAIN tracked /\ b.order \in Nat
         /\ \A f \in finishing : f \in Finishings /\ f.exec \in DOMAIN tracked /\ f.call \in DOMAIN calls
  <1>1. /\ executions \in Seq({"running", "completed"}) /\ tracked \in Seq(Objects)
        /\ turns \in Seq(TurnRows) /\ calls \in Seq(CallRows)
        /\ Len(tracked) = Len(executions)
    BY DEF TraceInv, TraceTypeOK
  <1>2. {Len(executions), Len(turns), Len(calls), MaxExecutions, MaxTurns, MaxCalls} \subseteq Nat
    BY <1>1, ExecutionConstants
  <1>3. /\ DOMAIN tracked = 1..Len(executions) /\ DOMAIN executions = 1..Len(executions)
        /\ DOMAIN turns = 1..Len(turns) /\ DOMAIN calls = 1..Len(calls)
    BY <1>1
  <1>4. active # 0 => active \in DOMAIN tracked
    BY <1>2, <1>3 DEF TraceInv, TraceTypeOK
  <1>5. ASSUME NEW t \in DOMAIN turns
        PROVE  turns[t] \in TurnRows /\ turns[t].exec \in DOMAIN tracked /\ turns[t].number \in Nat
    <2>1. turns[t] \in TurnRows
      BY <1>1, <1>3
    <2>2. turns[t].exec \in 1..MaxExecutions /\ turns[t].number \in 1..MaxTurns
      BY <2>1 DEF TurnRows
    <2>3. turns[t].exec <= Len(executions)
      BY DEF TraceInv, RefersToRows
    <2> QED
      BY <1>2, <1>3, <2>1, <2>2, <2>3
  <1>6. ASSUME NEW e \in DOMAIN tracked
        PROVE  /\ tracked[e] \in Objects
               /\ tracked[e].turn \in 0..Len(turns) /\ tracked[e].number \in 0..Len(turns)
               /\ tracked[e].pending \in [ToolUses -> 0..Len(calls)]
    <2>1. tracked[e] \in Objects
      BY <1>1, <1>3
    <2>2. /\ tracked[e].turn \in 0..MaxTurns /\ tracked[e].number \in 0..MaxTurns
          /\ tracked[e].pending \in [ToolUses -> 0..MaxCalls]
      BY <2>1 DEF Objects
    <2>3. /\ tracked[e].turn <= Len(turns) /\ tracked[e].number <= Len(turns)
          /\ \A u \in ToolUses : tracked[e].pending[u] <= Len(calls)
      BY DEF TraceInv, RefersToRows
    <2>4. \A u \in ToolUses : tracked[e].pending[u] \in 0..Len(calls)
      BY <1>2, <2>2, <2>3
    <2> QED
      BY <1>2, <2>1, <2>2, <2>3, <2>4
  <1>7. ASSUME NEW c \in DOMAIN calls
        PROVE  calls[c] \in CallRows /\ calls[c].turn \in DOMAIN turns /\ calls[c].order \in Nat
    <2>1. calls[c] \in CallRows
      BY <1>1, <1>3
    <2>2. calls[c].turn \in 0..MaxTurns /\ calls[c].order \in Nat
      BY <2>1 DEF CallRows
    <2>3. calls[c].turn # 0 /\ calls[c].turn <= Len(turns)
      BY DEF TraceInv, RefersToRows, CallInItsExecution
    <2> QED
      BY <1>2, <1>3, <2>1, <2>2, <2>3
  <1>8. ASSUME NEW b \in beginning
        PROVE  b \in Beginnings /\ b.exec \in DOMAIN tracked /\ b.order \in Nat
    BY <1>2, <1>3 DEF TraceInv, TraceTypeOK, RefersToRows, Beginnings
  <1>9. ASSUME NEW f \in finishing
        PROVE  f \in Finishings /\ f.exec \in DOMAIN tracked /\ f.call \in DOMAIN calls
    BY <1>2, <1>3 DEF TraceInv, TraceTypeOK, RefersToRows, Finishings
  <1> QED
    BY <1>2, <1>3, <1>4, <1>5, <1>6, <1>7, <1>8, <1>9

(* An execution is registered. *)
LEMMA StartExecutionStep ==
  ASSUME TraceInv, StartExecution
  PROVE  TraceInv'
  <1>1. /\ Len(executions) \in Nat /\ Len(executions) < MaxExecutions /\ MaxExecutions \in Nat
        /\ Len(tracked) = Len(executions) /\ MaxTurns \in Nat /\ MaxCalls \in Nat
    BY ExecutionConstants DEF TraceInv, TraceTypeOK, StartExecution
  <1>2. Untracked \in Objects /\ Untracked.turn = 0 /\ Untracked.number = 0
        /\ \A u \in ToolUses : Untracked.pending[u] = 0
    BY <1>1 DEF Untracked, Objects
  <1>3. /\ executions' \in Seq({"running", "completed"}) /\ Len(executions') = Len(executions) + 1
        /\ tracked' \in Seq(Objects) /\ Len(tracked') = Len(executions')
        /\ \A e \in DOMAIN tracked' : tracked'[e] = IF e \in DOMAIN tracked THEN tracked[e] ELSE Untracked
        /\ DOMAIN tracked \subseteq DOMAIN tracked'
        /\ DOMAIN executions \subseteq DOMAIN executions'
    <2>1. executions' = Append(executions, "running") /\ tracked' = Append(tracked, Untracked)
      BY DEF StartExecution
    <2>2. executions \in Seq({"running", "completed"}) /\ tracked \in Seq(Objects)
      BY DEF TraceInv, TraceTypeOK
    <2> QED
      BY <1>1, <1>2, <2>1, <2>2
  <1>4. /\ starting' = starting \cup {Len(executions) + 1}
        /\ UNCHANGED <<active, closing, turns, opening, calls, beginning, finishing>>
    BY DEF StartExecution
  <1>5. DOMAIN executions' = 1..Len(executions') /\ DOMAIN tracked = 1..Len(executions)
        /\ DOMAIN tracked' = 1..Len(executions')
    BY <1>1, <1>3 DEF TraceInv, TraceTypeOK
  <1>6. TraceTypeOK'
    <2>1. starting' \cup closing' \subseteq DOMAIN executions'
      BY <1>1, <1>3, <1>4, <1>5 DEF TraceInv, TraceTypeOK
    <2>2. active' \in 0..Len(executions')
      BY <1>1, <1>3, <1>4 DEF TraceInv, TraceTypeOK
    <2> QED
      BY <1>1, <1>3, <1>4, <2>1, <2>2 DEF TraceInv, TraceTypeOK
  <1>7. TurnNumbersDistinct' /\ CallInItsExecution' /\ CallsAreBounded'
    BY <1>4 DEF TraceInv, TurnNumbersDistinct, CallInItsExecution, CallsAreBounded
  <1>8. RefersToRows'
    <2>1. ASSUME NEW e \in DOMAIN tracked'
          PROVE  /\ tracked'[e].number <= Len(turns) /\ tracked'[e].turn <= Len(turns)
                 /\ \A u \in ToolUses : tracked'[e].pending[u] <= Len(calls)
      <3>1. Len(turns) \in Nat /\ Len(calls) \in Nat
        BY DEF TraceInv, TraceTypeOK
      <3> QED
        BY <1>2, <1>3, <3>1 DEF TraceInv, RefersToRows
    <2>2. \A t \in DOMAIN turns : turns[t].exec <= Len(executions')
      BY <1>1, <1>3, TraceRefs
    <2>3. \A b \in beginning \cup finishing : b.exec <= Len(executions')
      BY <1>1, <1>3 DEF TraceInv, TraceTypeOK, RefersToRows, Beginnings, Finishings
    <2> QED
      BY <1>4, <2>1, <2>2, <2>3 DEF TraceInv, RefersToRows
  <1>9. \A t \in DOMAIN turns : turns[t].exec \in DOMAIN tracked
    BY TraceRefs
  <1>10. \A b \in beginning : b.exec \in DOMAIN tracked
    BY TraceRefs
  <1>11. TurnsAreOwn'
    BY <1>2, <1>3, <1>4, <1>9, <1>10 DEF TraceInv, TurnsAreOwn
  <1>12. PendingIsOwn'
    <2>1. DOMAIN tracked = DOMAIN executions /\ DOMAIN tracked' = DOMAIN executions'
      BY <1>5 DEF TraceInv, TraceTypeOK
    <2> QED
      BY <1>2, <1>3, <1>4, <2>1 DEF TraceInv, PendingIsOwn
  <1> QED
    BY <1>6, <1>7, <1>8, <1>11, <1>12 DEF TraceInv

(* Executions become active, are completed and forgotten. *)
LEMMA SwitchStep ==
  ASSUME TraceInv,
         \/ CompleteExecution
         \/ \E e \in DOMAIN executions : ExecutionStarted(e) \/ ExecutionCompleted(e)
  PROVE  TraceInv'
  <1>1. UNCHANGED <<tracked, turns, opening, calls, beginning, finishing>>
    BY DEF CompleteExecution, ExecutionStarted, ExecutionCompleted
  <1>2. executions' \in Seq({"running", "completed"}) /\ Len(executions') = Len(executions)
    <2>1. executions \in Seq({"running", "completed"})
      BY DEF TraceInv, TraceTypeOK
    <2>2. ASSUME NEW e \in DOMAIN executions, executions' = [executions EXCEPT ![e] = "completed"]
          PROVE  executions' \in Seq({"running", "completed"}) /\ Len(executions') = Len(executions)
      BY <2>1, <2>2
    <2>3. \/ executions' = executions
          \/ \E e \in DOMAIN executions : executions' = [executions EXCEPT ![e] = "completed"]
      BY DEF CompleteExecution, ExecutionStarted, ExecutionCompleted
    <2> QED
      BY <2>1, <2>2, <2>3
  <1>3. DOMAIN executions' = DOMAIN executions
    BY <1>2, TraceRefs
  <1>4. active' \in 0..Len(executions) /\ starting' \cup closing' \subseteq DOMAIN executions
    BY TraceRefs DEF TraceInv, TraceTypeOK, CompleteExecution, ExecutionStarted, ExecutionCompleted
  <1>5. TraceTypeOK'
    BY <1>1, <1>2, <1>3, <1>4 DEF TraceInv, TraceTypeOK
  <1> QED
    BY <1>1, <1>2, <1>3, <1>5
       DEF TraceInv, TurnNumbersDistinct, CallInItsExecution, PendingIsOwn, RefersToRows,
           TurnsAreOwn, CallsAreBounded

(* One object of the tracker changes. *)
LEMMA ObjectChanged ==
  ASSUME TraceInv, NEW a \in DOMAIN tracked, NEW o \in Objects,
         tracked' = [tracked EXCEPT ![a] = o]
  PROVE  /\ tracked' \in Seq(Objects) /\ Len(tracked') = Len(tracked)
         /\ DOMAIN tracked' = DOMAIN tracked
         /\ \A e \in DOMAIN tracked : tracked'[e] = IF e = a THEN o ELSE tracked[e]
  BY DEF TraceInv, TraceTypeOK

(* A message of the agent. *)
LEMMA StartTurnStep ==
  ASSUME TraceInv, StartTurn
  PROVE  TraceInv'
  <1> DEFINE a == active
             n == tracked[a].number + 1
             o == [tracked[a] EXCEPT !.number = n]
             row == [exec |-> a, number |-> n]
  <1>1. /\ a \in DOMAIN tracked /\ Len(turns) < MaxTurns
        /\ UNCHANGED <<executions, active, starting, closing, calls, beginning, finishing>>
        /\ opening' = opening \cup {Len(turns) + 1}
        /\ tracked' = [tracked EXCEPT ![a] = o] /\ turns' = Append(turns, row)
    BY TraceRefs DEF StartTurn, TurnRow, TurnNumber
  <1>2. /\ tracked[a] \in Objects /\ tracked[a].number \in 0..Len(turns) /\ n \in 1..MaxTurns
        /\ n \in Nat /\ n <= Len(turns) + 1
    BY <1>1, TraceRefs
  <1>3. /\ o \in Objects /\ o.number = n /\ o.turn = tracked[a].turn /\ o.pending = tracked[a].pending
    BY <1>2 DEF Objects
  <1>4. row \in TurnRows /\ row.exec = a /\ row.number = n
    BY <1>1, <1>2, TraceRefs DEF TurnRows, TraceInv, TraceTypeOK
  <1> HIDE DEF n, o, row
  <1>5. /\ tracked' \in Seq(Objects) /\ Len(tracked') = Len(tracked)
        /\ DOMAIN tracked' = DOMAIN tracked
        /\ \A e \in DOMAIN tracked : tracked'[e] = IF e = a THEN o ELSE tracked[e]
    BY <1>1, <1>3, ObjectChanged
  <1>6. /\ turns' \in Seq(TurnRows) /\ Len(turns') = Len(turns) + 1 /\ Len(turns) \in Nat
        /\ DOMAIN turns' = 1..(Len(turns) + 1) /\ DOMAIN turns = 1..Len(turns)
        /\ \A t \in DOMAIN turns' : turns'[t] = IF t \in DOMAIN turns THEN turns[t] ELSE row
    BY <1>1, <1>4 DEF TraceInv, TraceTypeOK
  <1>7. TraceTypeOK'
    <2>1. opening' \subseteq DOMAIN turns' /\ Len(turns') <= MaxTurns
      BY <1>1, <1>6, TraceRefs DEF TraceInv, TraceTypeOK
    <2> QED
      BY <1>1, <1>5, <1>6, <2>1 DEF TraceInv, TraceTypeOK
  <1>8. /\ \A t \in DOMAIN turns' : turns'[t].number <= tracked'[turns'[t].exec].number
        /\ \A t \in DOMAIN turns : turns[t].exec = a => turns[t].number < n
    <2>1. ASSUME NEW t \in DOMAIN turns
          PROVE  /\ turns[t].number <= tracked'[turns[t].exec].number
                 /\ turns[t].exec = a => turns[t].number < n
      <3>1. /\ turns[t].exec \in DOMAIN tracked /\ turns[t].number \in Nat
            /\ turns[t].number <= tracked[turns[t].exec].number
        BY TraceRefs DEF TraceInv, TurnsAreOwn
      <3> QED
        BY <1>2, <1>3, <1>5, <3>1 DEF n
    <2> QED
      BY <1>1, <1>2, <1>3, <1>4, <1>5, <1>6, <2>1
  <1>9. TurnNumbersDistinct'
    <2>1. SUFFICES ASSUME NEW t \in DOMAIN turns', NEW s \in DOMAIN turns', t < s,
                          turns'[t].exec = turns'[s].exec
                   PROVE  turns'[t].number # turns'[s].number
      BY <1>6 DEF TurnNumbersDistinct
    <2>2. t \in DOMAIN turns
      BY <1>6, <2>1
    <2>3. CASE s \in DOMAIN turns
      BY <1>6, <2>1, <2>2, <2>3 DEF TraceInv, TurnNumbersDistinct
    <2>4. CASE s \notin DOMAIN turns
      <3>1. turns[t].exec = a /\ turns'[s].number = n /\ turns'[t].number = turns[t].number
        BY <1>4, <1>6, <2>1, <2>2, <2>4
      <3> QED
        BY <1>2, <1>8, <2>2, <3>1, TraceRefs
    <2> QED
      BY <2>3, <2>4
  <1>10. CallInItsExecution'
    BY <1>1, <1>6, TraceRefs DEF TraceInv, CallInItsExecution
  <1>11. PendingIsOwn'
    BY <1>1, <1>3, <1>5, TraceRefs, SMTT(30) DEF TraceInv, PendingIsOwn
  <1>12. RefersToRows'
    <2>1. ASSUME NEW e \in DOMAIN tracked'
          PROVE  /\ tracked'[e].number <= Len(turns') /\ tracked'[e].turn <= Len(turns')
                 /\ \A u \in ToolUses : tracked'[e].pending[u] <= Len(calls')
      <3>1. /\ tracked[e].number \in 0..Len(turns) /\ tracked[e].turn \in 0..Len(turns)
            /\ \A u \in ToolUses : tracked[e].pending[u] <= Len(calls)
        BY <1>5, TraceRefs DEF TraceInv, RefersToRows
      <3> QED
        BY <1>1, <1>2, <1>3, <1>5, <1>6, <3>1
    <2>2. \A t \in DOMAIN turns' : turns'[t].exec <= Len(executions)
      BY <1>1, <1>4, <1>6, TraceRefs DEF TraceInv, RefersToRows
    <2>3. \A c \in DOMAIN calls : calls[c].turn <= Len(turns')
      BY <1>6, TraceRefs
    <2> QED
      BY <1>1, <2>1, <2>2, <2>3 DEF TraceInv, RefersToRows
  <1>13. TurnsAreOwn'
    <2>1. \A e \in DOMAIN tracked' : tracked'[e].turn # 0 => turns'[tracked'[e].turn].exec = e
      <3>1. \A e \in DOMAIN tracked : tracked'[e].turn = tracked[e].turn /\ tracked[e].turn \in 0..Len(turns)
        BY <1>3, <1>5, TraceRefs
      <3> QED
        BY <1>5, <1>6, <3>1 DEF TraceInv, TurnsAreOwn
    <2>2. \A b \in beginning : tracked'[b.exec].turn # 0
      BY <1>3, <1>5, TraceRefs DEF TraceInv, TurnsAreOwn
    <2> QED
      BY <1>1, <1>8, <2>1, <2>2 DEF TurnsAreOwn
  <1>14. CallsAreBounded'
    BY <1>1 DEF TraceInv, CallsAreBounded
  <1> QED
    BY <1>7, <1>9, <1>10, <1>11, <1>12, <1>13, <1>14 DEF TraceInv

(* A turn becomes the current one of its execution. *)
LEMMA TurnStartedStep ==
  ASSUME TraceInv, NEW t \in DOMAIN turns, TurnStarted(t)
  PROVE  TraceInv'
  <1> DEFINE a == turns[t].exec
             o == [tracked[a] EXCEPT !.turn = t]
  <1>1. /\ tracked' = [tracked EXCEPT ![a] = o] /\ opening' \subseteq opening
        /\ UNCHANGED <<executions, active, starting, closing, turns, calls, beginning, finishing>>
    BY DEF TurnStarted
  <1>2. a \in DOMAIN tracked /\ tracked[a] \in Objects /\ t \in 1..MaxTurns /\ t \in 1..Len(turns)
    BY TraceRefs DEF TraceInv, TraceTypeOK
  <1>3. /\ o \in Objects /\ o.turn = t /\ o.number = tracked[a].number
        /\ o.pending = tracked[a].pending
    BY <1>2 DEF Objects
  <1> HIDE DEF o
  <1>4. /\ tracked' \in Seq(Objects) /\ Len(tracked') = Len(tracked)
        /\ DOMAIN tracked' = DOMAIN tracked
        /\ \A e \in DOMAIN tracked : tracked'[e] = IF e = a THEN o ELSE tracked[e]
    BY <1>1, <1>2, <1>3, ObjectChanged
  <1>5. \A e \in DOMAIN tracked : /\ tracked'[e].number = tracked[e].number
                                  /\ tracked'[e].pending = tracked[e].pending
                                  /\ tracked'[e].turn = IF e = a THEN t ELSE tracked[e].turn
    BY <1>3, <1>4
  <1>6. TraceTypeOK'
    BY <1>1, <1>4 DEF TraceInv, TraceTypeOK
  <1>7. TurnNumbersDistinct' /\ CallInItsExecution' /\ CallsAreBounded'
    BY <1>1 DEF TraceInv, TurnNumbersDistinct, CallInItsExecution, CallsAreBounded
  <1>8. PendingIsOwn'
    BY <1>1, <1>5, TraceRefs, SMTT(30) DEF TraceInv, PendingIsOwn
  <1>9. RefersToRows'
    BY <1>1, <1>2, <1>4, <1>5, TraceRefs, SMTT(30) DEF TraceInv, RefersToRows
  <1>10. TurnsAreOwn'
    BY <1>1, <1>2, <1>4, <1>5, TraceRefs, SMTT(30) DEF TraceInv, TurnsAreOwn
  <1> QED
    BY <1>6, <1>7, <1>8, <1>9, <1>10 DEF TraceInv

(* A set and one element more. *)
LEMMA OneElementMore ==
  ASSUME NEW S, IsFiniteSet(S), NEW x, NEW T, T = S \cup {x}
  PROVE  /\ IsFiniteSet(T) /\ Cardinality(T) \in Nat /\ Cardinality(S) \in Nat
         /\ Cardinality(T) <= Cardinality(S) + 1
  <1>1. /\ IsFiniteSet(S \cup {x})
        /\ Cardinality(S \cup {x}) = IF x \in S THEN Cardinality(S) ELSE Cardinality(S) + 1
    BY FS_AddElement
  <1>2. Cardinality(S) \in Nat
    BY FS_CardinalityType
  <1> QED
    BY <1>1, <1>2

(* A tool starts, or its order is read: one call more, or one that knows it. *)
LEMMA BeginningStep ==
  ASSUME TraceInv,
         (\E u \in ToolUses : StartToolCall(u)) \/ (\E b \in beginning : ReadOrder(b))
  PROVE  TraceInv'
  <1>1. UNCHANGED <<executions, tracked, active, starting, closing, turns, opening, calls, finishing>>
    BY DEF StartToolCall, ReadOrder
  <1>2. /\ beginning' \subseteq Beginnings
        /\ \A b \in beginning' : /\ b.exec <= Len(executions) /\ b.order <= Len(calls) + 1
                                 /\ tracked[b.exec].turn # 0
        /\ IsFiniteSet(beginning') /\ Len(calls) + Cardinality(beginning') <= MaxCalls
    <2>1. IsFiniteSet(beginning) /\ Cardinality(beginning) \in Nat
      BY FS_CardinalityType DEF TraceInv, CallsAreBounded
    <2>2. ASSUME NEW u \in ToolUses, StartToolCall(u) PROVE <1>2!:
      <3> DEFINE new == [exec |-> active, use |-> u, order |-> 0, turn |-> tracked[active].turn]
      <3>1. /\ beginning' = beginning \cup {new} /\ Len(calls) + Cardinality(beginning) < MaxCalls
            /\ active \in DOMAIN tracked /\ tracked[active].turn # 0
        BY <2>2, TraceRefs DEF StartToolCall
      <3>2. tracked[active].turn \in 1..MaxTurns /\ active \in 1..MaxExecutions /\ active <= Len(executions)
        BY <3>1, TraceRefs DEF TraceInv, TraceTypeOK
      <3>3. new \in Beginnings /\ new.exec = active /\ new.order = 0
        BY <3>2 DEF Beginnings
      <3> HIDE DEF new
      <3>4. /\ IsFiniteSet(beginning') /\ Cardinality(beginning') <= Cardinality(beginning) + 1
            /\ Cardinality(beginning') \in Nat
        BY <2>1, <3>1, OneElementMore
      <3>5. Len(calls) + Cardinality(beginning') <= MaxCalls
        BY <2>1, <3>1, <3>4, TraceRefs
      <3>6. \A b \in beginning' : b \in beginning \/ b = new
        BY <3>1
      <3> QED
        BY <3>1, <3>2, <3>3, <3>4, <3>5, <3>6, TraceRefs DEF TraceInv, TraceTypeOK, RefersToRows, TurnsAreOwn
    <2>3. ASSUME NEW b \in beginning, ReadOrder(b) PROVE <1>2!:
      <3> DEFINE orders == {0} \cup {c.order : c \in {d \in ToSet(calls) : d.turn = b.turn}}
                 q == [b EXCEPT !.order = Max(orders) + 1]
      <3>1. beginning' = (beginning \ {b}) \cup {q}
        BY <2>3 DEF ReadOrder
      <3>2. \A c \in ToSet(calls) : c.order \in Nat /\ c.order <= Len(calls)
        BY TraceRefs DEF ToSet, TraceInv, RefersToRows
      <3>3. orders \in SUBSET Nat /\ orders # {} /\ Len(calls) \in Nat /\ \A x \in orders : x <= Len(calls)
        BY <3>2, TraceRefs
      <3> HIDE DEF orders
      <3>4. Max(orders) \in Nat /\ Max(orders) <= Len(calls)
        BY <3>3, HighestNumber
      <3>5. q \in Beginnings /\ q.exec = b.exec /\ q.order = Max(orders) + 1
        <4>1. b \in Beginnings /\ Max(orders) + 1 \in Nat
          BY <3>4, TraceRefs
        <4> QED
          BY <4>1 DEF Beginnings
      <3> HIDE DEF q
      <3>6. /\ IsFiniteSet(beginning \ {b}) /\ Cardinality(beginning \ {b}) = Cardinality(beginning) - 1
        BY <2>1, FS_RemoveElement
      <3>7. /\ IsFiniteSet(beginning') /\ Cardinality(beginning') <= Cardinality(beginning \ {b}) + 1
            /\ Cardinality(beginning') \in Nat /\ Cardinality(beginning \ {b}) \in Nat
        BY <3>1, <3>6, OneElementMore
      <3>8. Len(calls) + Cardinality(beginning') <= MaxCalls
        BY <2>1, <3>6, <3>7, TraceRefs DEF TraceInv, CallsAreBounded
      <3>9. \A s \in beginning' : s \in beginning \/ s = q
        BY <3>1
      <3>10. q.order <= Len(calls) + 1
        BY <3>3, <3>4, <3>5
      <3> QED
        BY <3>1, <3>5, <3>7, <3>8, <3>9, <3>10 DEF TraceInv, TraceTypeOK, RefersToRows, TurnsAreOwn
    <2> QED
      BY <2>2, <2>3
  <1>3. TraceTypeOK'
    BY <1>1, <1>2 DEF TraceInv, TraceTypeOK
  <1> QED
    BY <1>1, <1>2, <1>3
       DEF TraceInv, TurnNumbersDistinct, CallInItsExecution, PendingIsOwn, RefersToRows,
           TurnsAreOwn, CallsAreBounded

(* The row of a call is created in the current turn of the execution the call
   began with, and the call is pending there. *)
LEMMA CallStartedStep ==
  ASSUME TraceInv, NEW b \in beginning, ToolCallStarted(b)
  PROVE  TraceInv'
  <1> DEFINE a == b.exec
             c == Len(calls) + 1
             o == [tracked[a] EXCEPT !.pending = [tracked[a].pending EXCEPT ![b.use] = c]]
             row == [exec |-> a, turn |-> tracked[a].turn, use |-> b.use, order |-> b.order,
                     done |-> FALSE]
  <1>1. /\ calls' = Append(calls, row) /\ tracked' = [tracked EXCEPT ![a] = o]
        /\ beginning' = beginning \ {b}
        /\ UNCHANGED <<executions, active, starting, closing, turns, opening, finishing>>
    BY DEF ToolCallStarted, CallRow, OwnerOf, PendingHolder
  <1>2. /\ a \in DOMAIN tracked /\ tracked[a] \in Objects /\ b \in Beginnings
        /\ tracked[a].turn \in 1..Len(turns) /\ turns[tracked[a].turn].exec = a
        /\ b.order <= c /\ b.order \in Nat /\ Len(calls) \in Nat
    BY TraceRefs DEF TraceInv, TurnsAreOwn, RefersToRows
  <1>3. b.use \in ToolUses /\ a \in 1..MaxExecutions
    BY <1>2 DEF Beginnings
  <1>4. /\ IsFiniteSet(beginning') /\ Cardinality(beginning') = Cardinality(beginning) - 1
        /\ Cardinality(beginning') \in Nat
    <2>1. IsFiniteSet(beginning)
      BY DEF TraceInv, CallsAreBounded
    <2>2. IsFiniteSet(beginning \ {b}) /\ Cardinality(beginning \ {b}) = Cardinality(beginning) - 1
      BY <2>1, FS_RemoveElement
    <2>3. Cardinality(beginning \ {b}) \in Nat
      BY <2>2, FS_CardinalityType
    <2> QED
      BY <1>1, <2>2, <2>3
  <1>5. Cardinality(beginning) \in Nat
    BY FS_CardinalityType DEF TraceInv, CallsAreBounded
  <1>6. c \in 1..MaxCalls /\ c + Cardinality(beginning') <= MaxCalls
    BY <1>2, <1>4, <1>5, TraceRefs DEF TraceInv, CallsAreBounded
  <1>7. /\ o \in Objects /\ o.turn = tracked[a].turn /\ o.number = tracked[a].number
        /\ o.pending = [tracked[a].pending EXCEPT ![b.use] = c]
    BY <1>2, <1>3, <1>6, SMTT(30) DEF Objects
  <1>8. row \in CallRows /\ row.exec = a /\ row.turn = tracked[a].turn /\ row.use = b.use
        /\ row.order = b.order
    <2>1. tracked[a].turn \in 0..MaxTurns
      BY <1>2 DEF Objects
    <2> QED
      BY <1>2, <1>3, <2>1 DEF CallRows
  <1> HIDE DEF o, row
  <1>9. /\ tracked' \in Seq(Objects) /\ Len(tracked') = Len(tracked)
        /\ DOMAIN tracked' = DOMAIN tracked
        /\ \A e \in DOMAIN tracked : tracked'[e] = IF e = a THEN o ELSE tracked[e]
    BY <1>1, <1>2, <1>7, ObjectChanged
  <1>10. /\ calls' \in Seq(CallRows) /\ Len(calls') = c /\ DOMAIN calls' = 1..c
         /\ \A d \in DOMAIN calls' : calls'[d] = IF d \in DOMAIN calls THEN calls[d] ELSE row
         /\ DOMAIN calls = 1..Len(calls) /\ calls'[c] = row
    BY <1>1, <1>8 DEF TraceInv, TraceTypeOK
  <1>11. \A e \in DOMAIN tracked : /\ tracked'[e].number = tracked[e].number
                                   /\ tracked'[e].turn = tracked[e].turn
    BY <1>7, <1>9
  <1>12. \A e \in DOMAIN tracked : \A u \in ToolUses :
            /\ tracked[e].pending[u] \in 0..Len(calls)
            /\ tracked'[e].pending[u] = IF e = a /\ u = b.use THEN c ELSE tracked[e].pending[u]
    <2>1. ASSUME NEW e \in DOMAIN tracked, NEW u \in ToolUses
          PROVE  /\ tracked[e].pending[u] \in 0..Len(calls)
                 /\ tracked'[e].pending[u] = IF e = a /\ u = b.use THEN c ELSE tracked[e].pending[u]
      <3>1. tracked[e].pending \in [ToolUses -> 0..Len(calls)]
        BY TraceRefs
      <3>2. CASE e = a
        BY <1>3, <1>7, <1>9, <3>1, <3>2
      <3>3. CASE e # a
        BY <1>9, <3>1, <3>3
      <3> QED
        BY <3>2, <3>3
    <2> QED
      BY <2>1
  <1>13. TraceTypeOK'
    BY <1>1, <1>6, <1>9, <1>10 DEF TraceInv, TraceTypeOK
  <1>14. TurnNumbersDistinct' /\ TurnsAreOwn'
    <2>1. TurnNumbersDistinct'
      BY <1>1 DEF TraceInv, TurnNumbersDistinct
    <2>2. \A t \in DOMAIN turns : turns[t].number <= tracked'[turns[t].exec].number
      BY <1>11, TraceRefs DEF TraceInv, TurnsAreOwn
    <2>3. \A e \in DOMAIN tracked' : tracked'[e].turn # 0 => turns[tracked'[e].turn].exec = e
      BY <1>9, <1>11 DEF TraceInv, TurnsAreOwn
    <2>4. \A s \in beginning : tracked'[s.exec].turn # 0
      BY <1>11, TraceRefs DEF TraceInv, TurnsAreOwn
    <2> QED
      BY <1>1, <2>1, <2>2, <2>3, <2>4 DEF TurnsAreOwn
  <1>15. CallInItsExecution'
    BY <1>1, <1>2, <1>8, <1>10 DEF TraceInv, CallInItsExecution
  <1>16. PendingIsOwn'
    <2>1. ASSUME NEW e \in DOMAIN executions, NEW u \in ToolUses, tracked'[e].pending[u] # 0
          PROVE  calls'[tracked'[e].pending[u]].exec = e /\ calls'[tracked'[e].pending[u]].use = u
      <3>1. CASE e = a /\ u = b.use
        BY <1>2, <1>8, <1>10, <1>12, <3>1
      <3>2. CASE ~(e = a /\ u = b.use)
        <4>1. e \in DOMAIN tracked /\ tracked'[e].pending[u] = tracked[e].pending[u]
          BY <1>12, <3>2, TraceRefs
        <4>2. tracked[e].pending[u] \in 1..Len(calls)
          BY <1>12, <2>1, <4>1
        <4>3. calls'[tracked[e].pending[u]] = calls[tracked[e].pending[u]]
          BY <1>2, <1>10, <4>2
        <4> QED
          BY <2>1, <4>1, <4>3 DEF TraceInv, PendingIsOwn
      <3> QED
        BY <3>1, <3>2
    <2>2. \A f \in finishing : calls'[f.call] = calls[f.call]
      BY <1>2, <1>10, TraceRefs
    <2> QED
      BY <1>1, <2>1, <2>2 DEF TraceInv, PendingIsOwn
  <1>17. RefersToRows'
    <2>1. \A e \in DOMAIN tracked' : /\ tracked'[e].number <= Len(turns) /\ tracked'[e].turn <= Len(turns)
      BY <1>9, <1>11 DEF TraceInv, RefersToRows
    <2>2. \A e \in DOMAIN tracked' : \A u \in ToolUses : tracked'[e].pending[u] <= c
      BY <1>2, <1>9, <1>12
    <2>3. \A d \in DOMAIN calls' : calls'[d].turn <= Len(turns) /\ calls'[d].order <= c
      <3>1. \A d \in DOMAIN calls : calls[d].turn <= Len(turns) /\ calls[d].order <= Len(calls)
                                    /\ calls[d].order \in Nat
        BY TraceRefs DEF TraceInv, RefersToRows
      <3>2. row.turn <= Len(turns) /\ row.order <= c
        BY <1>2, <1>8, TraceRefs
      <3> QED
        BY <1>2, <1>10, <3>1, <3>2
    <2>4. /\ \A s \in beginning' : s.exec <= Len(executions) /\ s.order <= c + 1
          /\ \A f \in finishing : f.call <= c
      BY <1>1, <1>2, TraceRefs DEF TraceInv, RefersToRows
    <2> QED
      BY <1>1, <1>10, <2>1, <2>2, <2>3, <2>4 DEF TraceInv, RefersToRows
  <1>18. CallsAreBounded'
    BY <1>4, <1>6, <1>10 DEF CallsAreBounded
  <1> QED
    BY <1>13, <1>14, <1>15, <1>16, <1>17, <1>18 DEF TraceInv

(* A tool ends, and its call is looked up. *)
LEMMA CompleteCallStep ==
  ASSUME TraceInv, NEW u \in ToolUses, CompleteToolCall(u)
  PROVE  TraceInv'
  <1> DEFINE c == tracked[active].pending[u]
             new == [exec |-> active, use |-> u, call |-> c]
  <1>1. /\ finishing' = finishing \cup {new} /\ active # 0 /\ c # 0
        /\ UNCHANGED <<executions, tracked, active, starting, closing, turns, opening, calls, beginning>>
    BY DEF CompleteToolCall
  <1>2. /\ active \in DOMAIN executions /\ active \in 1..MaxExecutions /\ active <= Len(executions)
        /\ c \in 1..Len(calls) /\ c \in 1..MaxCalls
    BY <1>1, TraceRefs DEF TraceInv, TraceTypeOK
  <1>3. calls[c].exec = active /\ calls[c].use = u
    BY <1>1, <1>2 DEF TraceInv, PendingIsOwn
  <1>4. new \in Finishings /\ new.exec = active /\ new.use = u /\ new.call = c
    BY <1>2 DEF Finishings
  <1> HIDE DEF new, c
  <1>5. \A f \in finishing' : f \in finishing \/ f = new
    BY <1>1
  <1>6. TraceTypeOK'
    BY <1>1, <1>4 DEF TraceInv, TraceTypeOK
  <1>7. PendingIsOwn' /\ RefersToRows'
    BY <1>1, <1>2, <1>3, <1>4, <1>5, TraceRefs, SMTT(30) DEF TraceInv, PendingIsOwn, RefersToRows
  <1> QED
    BY <1>1, <1>6, <1>7
       DEF TraceInv, TurnNumbersDistinct, CallInItsExecution, TurnsAreOwn, CallsAreBounded

(* The call's row is completed, and the call no longer pending. *)
LEMMA CallCompletedStep ==
  ASSUME TraceInv, NEW f \in finishing, ToolCallCompleted(f)
  PROVE  TraceInv'
  <1> DEFINE a == f.exec
             o == [tracked[a] EXCEPT !.pending = [tracked[a].pending EXCEPT ![f.use] = 0]]
             row == [calls[f.call] EXCEPT !.done = TRUE]
  <1>1. /\ calls' = [calls EXCEPT ![f.call] = row] /\ tracked' = [tracked EXCEPT ![a] = o]
        /\ finishing' \subseteq finishing
        /\ UNCHANGED <<executions, active, starting, closing, turns, opening, beginning>>
    BY DEF ToolCallCompleted
  <1>2. /\ a \in DOMAIN tracked /\ tracked[a] \in Objects /\ f.call \in DOMAIN calls
        /\ calls[f.call] \in CallRows /\ f \in Finishings /\ MaxCalls \in Nat
    BY TraceRefs
  <1>3. /\ o \in Objects /\ o.turn = tracked[a].turn /\ o.number = tracked[a].number
        /\ o.pending = [tracked[a].pending EXCEPT ![f.use] = 0]
    BY <1>2 DEF Objects
  <1>4. /\ row \in CallRows /\ row.exec = calls[f.call].exec /\ row.turn = calls[f.call].turn
        /\ row.use = calls[f.call].use /\ row.order = calls[f.call].order
    BY <1>2 DEF CallRows
  <1> HIDE DEF o, row
  <1>5. /\ tracked' \in Seq(Objects) /\ Len(tracked') = Len(tracked)
        /\ DOMAIN tracked' = DOMAIN tracked
        /\ \A e \in DOMAIN tracked : tracked'[e] = IF e = a THEN o ELSE tracked[e]
    BY <1>1, <1>2, <1>3, ObjectChanged
  <1>6. /\ calls' \in Seq(CallRows) /\ Len(calls') = Len(calls) /\ DOMAIN calls' = DOMAIN calls
        /\ \A d \in DOMAIN calls : calls'[d] = IF d = f.call THEN row ELSE calls[d]
    BY <1>1, <1>2, <1>4 DEF TraceInv, TraceTypeOK
  <1>7. \A d \in DOMAIN calls : /\ calls'[d].exec = calls[d].exec /\ calls'[d].turn = calls[d].turn
                                /\ calls'[d].use = calls[d].use /\ calls'[d].order = calls[d].order
    BY <1>4, <1>6
  <1>8. \A e \in DOMAIN tracked : /\ tracked'[e].number = tracked[e].number
                                  /\ tracked'[e].turn = tracked[e].turn
    BY <1>3, <1>5
  <1>9. \A e \in DOMAIN tracked : \A u \in ToolUses :
            tracked[e].pending[u] \in 0..Len(calls) /\ tracked'[e].pending[u] \in {0, tracked[e].pending[u]}
    <2>1. ASSUME NEW e \in DOMAIN tracked, NEW u \in ToolUses
          PROVE  /\ tracked[e].pending[u] \in 0..Len(calls)
                 /\ tracked'[e].pending[u] \in {0, tracked[e].pending[u]}
      <3>1. tracked[e].pending \in [ToolUses -> 0..Len(calls)]
        BY TraceRefs
      <3>2. CASE e = a
        BY <1>3, <1>5, <3>1, <3>2
      <3>3. CASE e # a
        BY <1>5, <3>1, <3>3
      <3> QED
        BY <3>2, <3>3
    <2> QED
      BY <2>1
  <1>10. TraceTypeOK'
    BY <1>1, <1>5, <1>6 DEF TraceInv, TraceTypeOK
  <1>11. TurnNumbersDistinct' /\ TurnsAreOwn'
    <2>1. TurnNumbersDistinct'
      BY <1>1 DEF TraceInv, TurnNumbersDistinct
    <2>2. \A t \in DOMAIN turns : turns[t].number <= tracked'[turns[t].exec].number
      BY <1>8, TraceRefs DEF TraceInv, TurnsAreOwn
    <2>3. \A e \in DOMAIN tracked' : tracked'[e].turn # 0 => turns[tracked'[e].turn].exec = e
      BY <1>5, <1>8 DEF TraceInv, TurnsAreOwn
    <2>4. \A s \in beginning : tracked'[s.exec].turn # 0
      BY <1>8, TraceRefs DEF TraceInv, TurnsAreOwn
    <2> QED
      BY <1>1, <2>1, <2>2, <2>3, <2>4 DEF TurnsAreOwn
  <1>12. CallInItsExecution'
    BY <1>1, <1>6, <1>7 DEF TraceInv, CallInItsExecution
  <1>13. PendingIsOwn'
    <2>1. ASSUME NEW e \in DOMAIN executions, NEW u \in ToolUses, tracked'[e].pending[u] # 0
          PROVE  calls'[tracked'[e].pending[u]].exec = e /\ calls'[tracked'[e].pending[u]].use = u
      <3>1. e \in DOMAIN tracked /\ tracked'[e].pending[u] = tracked[e].pending[u]
        BY <1>9, <2>1, TraceRefs
      <3>2. tracked[e].pending[u] \in DOMAIN calls
        BY <1>9, <2>1, <3>1, TraceRefs
      <3> QED
        BY <1>7, <2>1, <3>1, <3>2 DEF TraceInv, PendingIsOwn
    <2> QED
      BY <1>1, <1>7, <2>1, TraceRefs DEF TraceInv, PendingIsOwn
  <1>14. RefersToRows'
    <2>1. \A e \in DOMAIN tracked' : /\ tracked'[e].number <= Len(turns) /\ tracked'[e].turn <= Len(turns)
      BY <1>5, <1>8 DEF TraceInv, RefersToRows
    <2>2. \A e \in DOMAIN tracked' : \A u \in ToolUses : tracked'[e].pending[u] <= Len(calls)
      BY <1>5, <1>9, TraceRefs, SMTT(30)
    <2>3. \A d \in DOMAIN calls' : calls'[d].turn <= Len(turns) /\ calls'[d].order <= Len(calls)
      BY <1>6, <1>7 DEF TraceInv, RefersToRows
    <2> QED
      BY <1>1, <1>6, <2>1, <2>2, <2>3 DEF TraceInv, RefersToRows
  <1>15. CallsAreBounded'
    BY <1>1, <1>6 DEF TraceInv, CallsAreBounded
  <1> QED
    BY <1>10, <1>11, <1>12, <1>13, <1>14, <1>15 DEF TraceInv

(* However the tracker's calls overlap and executions take over from one another,
   turns have numbers of their own, calls are filed under a turn of their
   execution, and a completion closes a call of its own. *)
THEOREM TraceIsSound == TraceSpec => []TraceInv
  <1>1. ASSUME TraceInit PROVE TraceInv
    <2>1. IsFiniteSet({}) /\ Cardinality({}) = 0
      BY FS_EmptySet
    <2> QED
      BY <1>1, <2>1, ExecutionConstants
         DEF TraceInit, TraceInv, TraceTypeOK, TurnNumbersDistinct, CallInItsExecution,
             PendingIsOwn, RefersToRows, TurnsAreOwn, CallsAreBounded
  <1>2. ASSUME TraceInv, [TraceNext]_traceVars PROVE TraceInv'
    <2>1. CASE UNCHANGED traceVars
      BY <1>2, <2>1
         DEF traceVars, TraceInv, TraceTypeOK, TurnNumbersDistinct, CallInItsExecution,
             PendingIsOwn, RefersToRows, TurnsAreOwn, CallsAreBounded
    <2>2. CASE TraceNext
      BY <1>2, <2>2, StartExecutionStep, SwitchStep, StartTurnStep, TurnStartedStep,
         BeginningStep, CallStartedStep, CompleteCallStep, CallCompletedStep DEF TraceNext
    <2> QED
      BY <1>2, <2>1, <2>2
  <1> QED
    BY <1>1, <1>2, PTL DEF TraceSpec

-----------------------------------------------------------------------------
(* What a task costs. *)

(* A ledger is restored from the row, or charged. *)
LEMMA ChargedLedger ==
  ASSUME MoneyIsKept, NEW s \in CostSessions, NEW c \in Charges, spent + c <= MaxSpent
  PROVE  /\ Charge(s, c) \in Ledgers /\ Charge(s, c) # NoLedger
         /\ Charge(s, c).total = ledger.total + c
         /\ \A q \in CostSessions : Charge(s, c).sessions[q] <= Charge(s, c).total
         /\ c \in Nat \ {0} /\ spent \in Nat /\ ledger.total \in Nat /\ ledger.total <= spent
  <1> DEFINE old == IF HasLedger THEN ledger ELSE NewLedger(0)
             new == [total |-> old.total + c, sessions |-> [old.sessions EXCEPT ![s] = @ + c]]
  <1>1. c \in Nat \ {0} /\ spent \in Nat /\ MaxSpent \in Nat
    BY CostConstants DEF MoneyIsKept, CostTypeOK
  <1>2. NoLedger.total = 0
    BY DEF NoLedger
  <1>3. ledger.total \in Nat /\ ledger.total <= spent
    <2>1. CASE ledger = NoLedger
      BY <1>1, <1>2, <2>1
    <2>2. CASE ledger # NoLedger
      <3>1. ledger \in Ledgers
        BY <2>2 DEF MoneyIsKept, CostTypeOK
      <3>2. ledger.total \in 0..MaxSpent
        BY <3>1 DEF Ledgers
      <3> QED
        BY <1>1, <2>2, <3>2 DEF MoneyIsKept, NeverOvercharged, CostShown, HasLedger
    <2> QED
      BY <2>1, <2>2
  <1>4. /\ old \in Ledgers /\ old.total = ledger.total
        /\ \A q \in CostSessions : old.sessions[q] <= old.total
    <2>1. CASE HasLedger
      BY <2>1 DEF MoneyIsKept, CostTypeOK, WritesAreSpent, HasLedger
    <2>2. CASE ~HasLedger
      <3>1. old = NewLedger(0) /\ ledger = NoLedger
        BY <2>2 DEF HasLedger
      <3>2. NewLedger(0) \in Ledgers /\ NewLedger(0).total = 0
            /\ \A q \in CostSessions : NewLedger(0).sessions[q] <= 0
        BY <1>1 DEF NewLedger, Ledgers
      <3> HIDE DEF old
      <3> QED
        BY <1>2, <3>1, <3>2
    <2> QED
      BY <2>1, <2>2
  <1> HIDE DEF old
  <1>5. old.sessions \in [CostSessions -> 0..MaxSpent] /\ old.total \in 0..MaxSpent
    BY <1>4 DEF Ledgers
  <1>6. old.total + c \in 0..MaxSpent
    BY <1>1, <1>3, <1>4
  <1>7. \A q \in CostSessions : /\ new.sessions[q] = IF q = s THEN old.sessions[q] + c ELSE old.sessions[q]
                                /\ new.sessions[q] <= old.total + c /\ new.sessions[q] \in 0..MaxSpent
    BY <1>1, <1>4, <1>5, <1>6
  <1>8. new.sessions \in [CostSessions -> 0..MaxSpent] /\ new.total = old.total + c
    BY <1>5, <1>7
  <1>9. new \in Ledgers
    BY <1>6, <1>8 DEF Ledgers
  <1>10. new # NoLedger
    BY <1>1, <1>2, <1>3, <1>4, <1>8
  <1>11. Charge(s, c) = new
    BY DEF Charge, old
  <1> HIDE DEF new
  <1> QED
    BY <1>1, <1>3, <1>4, <1>7, <1>8, <1>9, <1>10, <1>11

(* A step_finish is booked. *)
LEMMA RecordStep ==
  ASSUME MoneyIsKept, NEW s \in CostSessions, NEW c \in Charges, RecordCost(s, c)
  PROVE  MoneyIsKept'
  <1> DEFINE w == [amount |-> ledger'.total, awaited |-> FALSE]
  <1>1. /\ costJob = "running" /\ spent + c <= MaxSpent /\ spent' = spent + c
        /\ ledger' = Charge(s, c) /\ UNCHANGED <<costRow, costJob, restored>>
    BY DEF RecordCost
  <1>2. \/ /\ Cents(ledger.total) # Cents(ledger'.total)
           /\ writes' = writes \cup {w} /\ doubtful' = (doubtful \/ writes # {})
        \/ Cents(ledger.total) = Cents(ledger'.total) /\ UNCHANGED <<writes, doubtful>>
    BY DEF RecordCost, PassesCent, PersistCostToDb
  <1>3. /\ ledger' \in Ledgers /\ ledger' # NoLedger /\ ledger'.total = ledger.total + c
        /\ \A q \in CostSessions : ledger'.sessions[q] <= ledger'.total
        /\ c \in Nat \ {0} /\ spent \in Nat /\ ledger.total \in Nat /\ ledger.total <= spent
    BY <1>1, ChargedLedger
  <1>4. ledger'.total \in 0..MaxSpent /\ ledger'.total <= spent' /\ spent' \in 0..MaxSpent /\ spent <= spent'
    BY <1>1, <1>3, CostConstants
  <1>5. /\ w \in [amount : 0..MaxSpent, awaited : BOOLEAN] /\ w.amount = ledger'.total
    BY <1>4
  <1> HIDE DEF w
  <1>6. CostTypeOK'
    <2>1. writes' \subseteq [amount : 0..MaxSpent, awaited : BOOLEAN]
      BY <1>2, <1>5 DEF MoneyIsKept, CostTypeOK
    <2>2. doubtful' \in BOOLEAN
      BY <1>2 DEF MoneyIsKept, CostTypeOK
    <2> QED
      BY <1>1, <1>3, <1>4, <2>1, <2>2 DEF MoneyIsKept, CostTypeOK
  <1>7. NeverOvercharged'
    BY <1>1, <1>3, <1>4 DEF MoneyIsKept, CostTypeOK, NeverOvercharged, CostShown, HasLedger
  <1>8. WritesAreSpent'
    <2>1. \A v \in writes : v.amount \in 0..MaxSpent /\ v.amount <= spent
      BY DEF MoneyIsKept, CostTypeOK, WritesAreSpent
    <2>2. \A v \in writes' : v \in writes \/ v = w
      BY <1>2
    <2>3. \A v \in writes' : v.amount <= spent'
      BY <1>1, <1>3, <1>4, <1>5, <2>1, <2>2
    <2> QED
      BY <1>3, <2>3 DEF WritesAreSpent
  <1>9. LedgerFirst'
    BY <1>1, <1>3 DEF LedgerFirst
  <1>10. RowIsCurrent' /\ WriteIsCurrent'
    <2>1. SUFFICES ASSUME ~doubtful'
                   PROVE  /\ writes' = {} => Cents(costRow) = Cents(ledger'.total)
                          /\ \A u, v \in writes' : u = v
                          /\ \A v \in writes' : Cents(v.amount) = Cents(ledger'.total)
      BY <1>1, <1>3 DEF RowIsCurrent, WriteIsCurrent
    <2>2. ~doubtful
      BY <1>2, <2>1
    <2>3. CASE Cents(ledger.total) # Cents(ledger'.total) /\ writes' = {w} 
      BY <1>5, <2>3
    <2>4. CASE Cents(ledger.total) = Cents(ledger'.total) /\ writes' = writes
      <3>1. /\ \A u, v \in writes : u = v
            /\ \A v \in writes : Cents(v.amount) = Cents(ledger.total)
            /\ ledger = NoLedger => costRow = 0
            /\ writes = {} /\ ledger # NoLedger => Cents(costRow) = Cents(ledger.total)
        BY <1>1, <2>2 DEF MoneyIsKept, RowIsCurrent, WriteIsCurrent
      <3>2. ledger = NoLedger => ledger.total = 0
        BY DEF NoLedger
      <3>3. writes = {} => Cents(costRow) = Cents(ledger.total)
        BY <3>1, <3>2
      <3> QED
        BY <2>4, <3>1, <3>3
    <2> QED
      BY <1>2, <2>1, <2>3, <2>4
  <1> QED
    BY <1>6, <1>7, <1>8, <1>9, <1>10 DEF MoneyIsKept

(* A job is launched; a launch from a later phase restores the row. *)
LEMMA LaunchCostStep ==
  ASSUME MoneyIsKept, LaunchFresh \/ LaunchResumed \/ \E loaded \in BOOLEAN : RestoreCosts(loaded)
  PROVE  MoneyIsKept'
  <1>1. UNCHANGED <<costRow, writes, spent>>
    BY DEF LaunchFresh, LaunchResumed, RestoreCosts
  <1>2. costRow \in 0..MaxSpent /\ spent \in 0..MaxSpent /\ costRow <= spent /\ MaxSpent \in Nat
    BY CostConstants DEF MoneyIsKept, CostTypeOK, NeverOvercharged
  <1>3. CASE LaunchFresh
    <2>1. /\ UNCHANGED <<ledger, restored>> /\ costJob' = "running"
          /\ doubtful' = (doubtful \/ (ledger = NoLedger /\ costRow > 0))
      BY <1>3 DEF LaunchFresh
    <2>2. doubtful' \in BOOLEAN /\ (~doubtful' => ~doubtful /\ (ledger = NoLedger => ~(costRow > 0)))
      BY <2>1 DEF MoneyIsKept, CostTypeOK
    <2>3. CostTypeOK' /\ NeverOvercharged' /\ WritesAreSpent' /\ LedgerFirst'
      BY <1>1, <2>1, <2>2 DEF MoneyIsKept, CostTypeOK, NeverOvercharged, CostShown, HasLedger,
         WritesAreSpent, LedgerFirst
    <2>4. ~(costRow > 0) => costRow = 0
      BY <1>2
    <2>5. RowIsCurrent' /\ WriteIsCurrent'
      BY <1>1, <2>1, <2>2, <2>4 DEF MoneyIsKept, RowIsCurrent, WriteIsCurrent
    <2> QED
      BY <2>3, <2>5 DEF MoneyIsKept
  <1>4. CASE LaunchResumed
    BY <1>4 DEF LaunchResumed, MoneyIsKept, CostTypeOK, NeverOvercharged, CostShown, HasLedger,
       WritesAreSpent, LedgerFirst, RowIsCurrent, WriteIsCurrent
  <1>5. ASSUME NEW loaded \in BOOLEAN, RestoreCosts(loaded) PROVE MoneyIsKept'
    <2>1. /\ costJob = "restoring" /\ costJob' = "running"
          /\ doubtful' = (doubtful \/ (~loaded /\ costRow > 0))
      BY <1>5 DEF RestoreCosts
    <2>2. ledger = NoLedger /\ writes = {}
      BY <2>1 DEF MoneyIsKept, LedgerFirst
    <2>3. doubtful' \in BOOLEAN /\ (~doubtful' => ~doubtful /\ (loaded \/ ~(costRow > 0)))
      BY <2>1 DEF MoneyIsKept, CostTypeOK
    <2>4. CASE loaded /\ costRow > 0
      <3>1. ledger' = NewLedger(costRow) /\ restored' = costRow
        BY <1>5, <2>4 DEF RestoreCosts
      <3>2. /\ NewLedger(costRow) \in Ledgers /\ NewLedger(costRow).total = costRow
            /\ \A s \in CostSessions : NewLedger(costRow).sessions[s] <= costRow
        BY <1>2 DEF NewLedger, Ledgers
      <3>3. NewLedger(costRow) # NoLedger
        <4>1. NoLedger.total = 0
          BY DEF NoLedger
        <4> QED
          BY <1>2, <2>4, <3>2, <4>1
      <3>4. CostTypeOK'
        BY <1>1, <1>2, <2>1, <2>3, <3>1, <3>2 DEF MoneyIsKept, CostTypeOK
      <3>5. NeverOvercharged'
        BY <1>1, <1>2, <3>1, <3>2, <3>3 DEF NeverOvercharged, CostShown, HasLedger
      <3>6. WritesAreSpent' /\ LedgerFirst'
        BY <1>1, <2>1, <2>2, <3>1, <3>2, <3>3 DEF WritesAreSpent, LedgerFirst
      <3>7. RowIsCurrent' /\ WriteIsCurrent'
        BY <1>1, <2>2, <3>1, <3>2, <3>3 DEF RowIsCurrent, WriteIsCurrent
      <3> QED
        BY <3>4, <3>5, <3>6, <3>7 DEF MoneyIsKept
    <2>5. CASE ~(loaded /\ costRow > 0)
      <3>1. UNCHANGED <<ledger, restored>>
        BY <1>5, <2>5 DEF RestoreCosts
      <3>2. ~(costRow > 0) => costRow = 0
        BY <1>2
      <3>3. CostTypeOK'
        BY <1>1, <2>1, <2>3, <3>1 DEF MoneyIsKept, CostTypeOK
      <3>4. NeverOvercharged' /\ WritesAreSpent' /\ LedgerFirst'
        BY <1>1, <2>1, <3>1 DEF MoneyIsKept, NeverOvercharged, CostShown, HasLedger,
           WritesAreSpent, LedgerFirst
      <3>5. RowIsCurrent' /\ WriteIsCurrent'
        BY <1>1, <2>2, <2>3, <2>5, <3>1, <3>2 DEF RowIsCurrent, WriteIsCurrent
      <3> QED
        BY <3>3, <3>4, <3>5 DEF MoneyIsKept
    <2> QED
      BY <2>4, <2>5
  <1> QED
    BY <1>3, <1>4, <1>5

(* The job is over, and its total written. *)
LEMMA EndJobStep ==
  ASSUME MoneyIsKept, EndJob
  PROVE  MoneyIsKept'
  <1> DEFINE w == [amount |-> ledger.total, awaited |-> TRUE]
  <1>1. UNCHANGED <<ledger, costRow, spent, restored>>
    BY DEF EndJob
  <1>2. CASE ~HasLedger
    BY <1>2 DEF EndJob, MoneyIsKept, CostTypeOK, NeverOvercharged, CostShown, HasLedger,
       WritesAreSpent, LedgerFirst, RowIsCurrent, WriteIsCurrent
  <1>3. CASE HasLedger
    <2>1. /\ ledger # NoLedger /\ costJob' = "ending" /\ writes' = writes \cup {w}
          /\ doubtful' = (doubtful \/ writes # {})
      BY <1>3 DEF EndJob, HasLedger, PersistCostToDb
    <2>2. doubtful' \in BOOLEAN /\ (~doubtful' => ~doubtful /\ writes = {})
      BY <2>1 DEF MoneyIsKept, CostTypeOK
    <2>3. ledger \in Ledgers /\ ledger.total <= spent
      BY <1>3, <2>1 DEF MoneyIsKept, CostTypeOK, NeverOvercharged, CostShown
    <2>4. w \in [amount : 0..MaxSpent, awaited : BOOLEAN] /\ w.amount = ledger.total
      BY <2>3 DEF Ledgers
    <2> HIDE DEF w
    <2>5. CostTypeOK'
      BY <1>1, <2>1, <2>2, <2>4 DEF MoneyIsKept, CostTypeOK
    <2>6. NeverOvercharged'
      BY <1>1 DEF MoneyIsKept, NeverOvercharged, CostShown, HasLedger
    <2>7. WritesAreSpent' /\ LedgerFirst'
      BY <1>1, <2>1, <2>3, <2>4 DEF MoneyIsKept, WritesAreSpent, LedgerFirst
    <2>8. RowIsCurrent' /\ WriteIsCurrent'
      BY <1>1, <2>1, <2>2, <2>4 DEF RowIsCurrent, WriteIsCurrent
    <2> QED
      BY <2>5, <2>6, <2>7, <2>8 DEF MoneyIsKept
  <1> QED
    BY <1>2, <1>3

(* A write ends, in the row or not; or the server dies in the middle of it. *)
LEMMA WriteEndsStep ==
  ASSUME MoneyIsKept,
         CostCrash \/ \E w \in writes : \E ok \in BOOLEAN : EndWrite(w, ok)
  PROVE  MoneyIsKept'
  <1>1. \A w \in writes : w.amount \in 0..MaxSpent /\ w.amount <= spent /\ ledger # NoLedger
    BY DEF MoneyIsKept, CostTypeOK, WritesAreSpent, LedgerFirst
  <1>2. CASE CostCrash
    <2>1. /\ ledger' = NoLedger /\ restored' = 0 /\ costJob' = "none" /\ writes' = {} /\ spent' = spent
          /\ doubtful' = (doubtful \/ writes # {})
          /\ costRow' = costRow \/ \E w \in writes : costRow' = w.amount
      BY <1>2 DEF CostCrash, RowAfter
    <2>2. costRow' \in 0..MaxSpent /\ costRow' <= spent
      BY <1>1, <2>1 DEF MoneyIsKept, CostTypeOK, NeverOvercharged
    <2>3. doubtful' \in BOOLEAN
      BY <2>1 DEF MoneyIsKept, CostTypeOK
    <2>4. CostTypeOK'
      BY <2>1, <2>2, <2>3, CostConstants DEF MoneyIsKept, CostTypeOK
    <2> QED
      BY <2>1, <2>2, <2>4 DEF MoneyIsKept, NeverOvercharged, CostShown, HasLedger,
         WritesAreSpent, LedgerFirst, RowIsCurrent, WriteIsCurrent
  <1>3. ASSUME NEW w \in writes, NEW ok \in BOOLEAN, EndWrite(w, ok) PROVE MoneyIsKept'
    <2>1. /\ writes' = writes \ {w} /\ UNCHANGED <<ledger, spent, restored>>
          /\ costRow' = (IF ok THEN w.amount ELSE costRow) /\ doubtful' = (doubtful \/ ~ok)
          /\ costJob' = (IF w.awaited THEN "none" ELSE costJob)
      BY <1>3 DEF EndWrite, RowAfter
    <2>2. doubtful' \in BOOLEAN /\ (~doubtful' => ~doubtful /\ ok)
      BY <2>1 DEF MoneyIsKept, CostTypeOK
    <2>3. costRow' \in 0..MaxSpent /\ costRow' <= spent /\ ledger # NoLedger
      BY <1>1, <2>1 DEF MoneyIsKept, CostTypeOK, NeverOvercharged
    <2>4. costJob' \in {"none", "restoring", "running", "ending"} /\ costJob' # "restoring"
      BY <2>1, <2>3 DEF MoneyIsKept, CostTypeOK, LedgerFirst
    <2>5. CostTypeOK'
      BY <2>1, <2>2, <2>3, <2>4 DEF MoneyIsKept, CostTypeOK
    <2>6. NeverOvercharged'
      BY <2>1, <2>3 DEF MoneyIsKept, NeverOvercharged, CostShown, HasLedger
    <2>7. WritesAreSpent' /\ LedgerFirst'
      BY <2>1, <2>3, <2>4 DEF MoneyIsKept, WritesAreSpent, LedgerFirst
    <2>8. RowIsCurrent' /\ WriteIsCurrent'
      <3>1. SUFFICES ASSUME ~doubtful' PROVE writes' = {} /\ Cents(costRow') = Cents(ledger.total)
        BY <2>1, <2>3 DEF RowIsCurrent, WriteIsCurrent
      <3>2. /\ \A v \in writes : v = w
            /\ Cents(w.amount) = Cents(ledger.total)
        BY <2>2, <3>1 DEF MoneyIsKept, WriteIsCurrent
      <3>3. costRow' = w.amount
        BY <2>1, <2>2, <3>1
      <3> QED
        BY <2>1, <3>2, <3>3
    <2> QED
      BY <2>5, <2>6, <2>7, <2>8 DEF MoneyIsKept
  <1> QED
    BY <1>2, <1>3

(* Across launches, restarts, restores and writes that fail, overlap or are cut
   off, neither the user nor the row is told of more than was spent, and the row
   is less than a cent behind unless a write or a restore went wrong. *)
THEOREM MoneyIsNeverInvented == CostSpec => []MoneyIsKept
  <1>1. ASSUME CostInit PROVE MoneyIsKept
    <2>1. CostTypeOK
      <3>1. 0 \in 0..MaxSpent
        BY CostConstants
      <3> QED
        BY <1>1, <3>1 DEF CostInit, CostTypeOK
    <2> QED
      BY <1>1, <2>1 DEF CostInit, MoneyIsKept, NeverOvercharged, CostShown, HasLedger,
         WritesAreSpent, LedgerFirst, RowIsCurrent, WriteIsCurrent
  <1>2. ASSUME MoneyIsKept, [CostNext]_costVars PROVE MoneyIsKept'
    <2>1. CASE UNCHANGED costVars
      BY <1>2, <2>1 DEF costVars, MoneyIsKept, CostTypeOK, NeverOvercharged, CostShown, HasLedger,
         WritesAreSpent, LedgerFirst, RowIsCurrent, WriteIsCurrent
    <2>2. CASE CostNext
      BY <1>2, <2>2, RecordStep, LaunchCostStep, EndJobStep, WriteEndsStep DEF CostNext
    <2> QED
      BY <1>2, <2>1, <2>2
  <1> QED
    BY <1>1, <1>2, PTL DEF CostSpec

(* A charge is added to the total and to its session; a restored ledger has no
   sessions yet; nothing else changes the one or the other. *)
LEMMA SumsStep ==
  ASSUME MoneyIsKept, TotalsAddUp, CostNext
  PROVE  TotalsAddUp'
  <1> HIDE DEF SumFunction
  <1>1. IsFiniteSet(CostSessions) /\ SumFunction([s \in CostSessions |-> 0]) = 0
    BY CostConstants, SumOfZeros
  <1>2. NoLedger.total = 0 /\ SumFunction(NoLedger.sessions) = 0
    <2>1. NoLedger.total = 0 /\ NoLedger.sessions = <<>>
      BY DEF NoLedger
    <2>2. <<>> = [s \in {} |-> 0]
      OBVIOUS
    <2>3. SumFunction([s \in {} |-> 0]) = 0
      BY FS_EmptySet, SumOfZeros
    <2> QED
      BY <2>1, <2>2, <2>3
  <1>3. \A n : NewLedger(n).total = n /\ NewLedger(n).sessions = [s \in CostSessions |-> 0]
    BY DEF NewLedger
  <1>4. CASE UNCHANGED <<ledger, restored>>
    BY <1>4 DEF TotalsAddUp
  <1>5. CASE CostCrash
    BY <1>2, <1>5 DEF CostCrash, TotalsAddUp
  <1>6. ASSUME NEW loaded \in BOOLEAN, RestoreCosts(loaded) PROVE TotalsAddUp'
    <2>1. CASE UNCHANGED <<ledger, restored>>
      BY <1>4, <2>1
    <2>2. CASE ledger' = NewLedger(costRow) /\ restored' = costRow
      <3>1. costRow \in Nat
        BY CostConstants DEF MoneyIsKept, CostTypeOK
      <3>2. ledger'.total = costRow /\ SumFunction(ledger'.sessions) = 0
        BY <1>1, <1>3, <2>2
      <3> QED
        BY <2>2, <3>1, <3>2 DEF TotalsAddUp
    <2> QED
      BY <1>6, <2>1, <2>2 DEF RestoreCosts
  <1>7. ASSUME NEW s \in CostSessions, NEW c \in Charges, RecordCost(s, c) PROVE TotalsAddUp'
    <2> DEFINE old == IF HasLedger THEN ledger ELSE NewLedger(0)
    <2>1. ledger' = [total |-> old.total + c, sessions |-> [old.sessions EXCEPT ![s] = @ + c]]
          /\ restored' = restored
      BY <1>7 DEF RecordCost, Charge
    <2>2. c \in Nat /\ restored \in Nat /\ MaxSpent \in Nat
      BY CostConstants DEF MoneyIsKept, CostTypeOK
    <2>3. /\ old.sessions \in [CostSessions -> Nat] /\ old.total = restored + SumFunction(old.sessions)
      <3>1. CASE HasLedger
        <4>1. old = ledger /\ ledger \in Ledgers
          BY <3>1 DEF HasLedger, MoneyIsKept, CostTypeOK
        <4>2. ledger.sessions \in [CostSessions -> Nat]
          BY <2>2, <4>1 DEF Ledgers
        <4> HIDE DEF old
        <4> QED
          BY <4>1, <4>2 DEF TotalsAddUp
      <3>2. CASE ~HasLedger
        <4>1. old = NewLedger(0) /\ restored = 0
          BY <1>2, <2>2, <3>2 DEF HasLedger, TotalsAddUp
        <4> HIDE DEF old
        <4> QED
          BY <1>1, <1>3, <4>1
      <3> QED
        BY <3>1, <3>2
    <2> HIDE DEF old
    <2>4. SumFunction([old.sessions EXCEPT ![s] = @ + c]) = SumFunction(old.sessions) + c
      BY <1>1, <2>2, <2>3, SumOfChange
    <2>5. SumFunction(old.sessions) \in Nat
      BY <1>1, <2>3, SumOver
    <2>6. ledger'.total = old.total + c /\ ledger'.sessions = [old.sessions EXCEPT ![s] = @ + c]
      BY <2>1
    <2>7. ledger'.total = restored' + SumFunction(ledger'.sessions)
      BY <2>1, <2>2, <2>3, <2>4, <2>5, <2>6
    <2> QED
      BY <2>7 DEF TotalsAddUp
  <1> QED
    BY <1>4, <1>5, <1>6, <1>7 DEF CostNext, LaunchFresh, LaunchResumed, EndJob, EndWrite

(* The ledger, the row and what was spent agree: besides, the total is at every
   moment what was restored plus what the sessions cost. *)
THEOREM CostIsSound == CostSpec => []CostInv
  <1> HIDE DEF SumFunction
  <1>1. ASSUME CostInit PROVE TotalsAddUp
    <2>1. ledger.total = 0 /\ ledger.sessions = <<>> /\ restored = 0
      BY <1>1 DEF CostInit, NoLedger
    <2>2. <<>> = [s \in {} |-> 0]
      OBVIOUS
    <2>3. SumFunction([s \in {} |-> 0]) = 0
      BY FS_EmptySet, SumOfZeros
    <2> QED
      BY <2>1, <2>2, <2>3 DEF TotalsAddUp
  <1>2. ASSUME MoneyIsKept, TotalsAddUp, [CostNext]_costVars PROVE TotalsAddUp'
    <2>1. CASE UNCHANGED costVars
      BY <1>2, <2>1 DEF costVars, TotalsAddUp
    <2> QED
      BY <1>2, <2>1, SumsStep
  <1> QED
    BY <1>1, <1>2, MoneyIsNeverInvented, PTL DEF CostSpec, CostInv

-----------------------------------------------------------------------------
(* The context cache. *)

(* While there is room for one more refresh, one of the numbers is free. *)
LEMMA FreeNumber ==
  ASSUME CacheTypeOK, Cardinality(refreshes) < MaxRefreshes
  PROVE  Min({n \in 1..MaxRefreshes : \A r \in refreshes : r.id # n}) \in 1..MaxRefreshes
  <1> DEFINE free == {n \in 1..MaxRefreshes : \A r \in refreshes : r.id # n}
  <1>1. free # {}
    <2>1. SUFFICES ASSUME \A n \in 1..MaxRefreshes : \E r \in refreshes : r.id = n PROVE FALSE
      OBVIOUS
    <2> DEFINE owner == [n \in 1..MaxRefreshes |-> CHOOSE r \in refreshes : r.id = n]
    <2>2. \A n \in 1..MaxRefreshes : owner[n] \in refreshes /\ owner[n].id = n
      BY <2>1
    <2>3. owner \in Injection(1..MaxRefreshes, refreshes)
      <3>1. owner \in [1..MaxRefreshes -> refreshes]
        BY <2>2
      <3>2. \A a, b \in 1..MaxRefreshes : owner[a] = owner[b] => a = b
        BY <2>2
      <3> HIDE DEF owner
      <3> QED
        BY <3>1, <3>2 DEF Injection, IsInjective
    <2>4. IsFiniteSet(refreshes)
      BY DEF CacheTypeOK
    <2>5. Cardinality(1..MaxRefreshes) <= Cardinality(refreshes)
      BY <2>3, <2>4, FS_Injection
    <2>6. MaxRefreshes \in Nat
      BY CacheConstants
    <2>7. Cardinality(1..MaxRefreshes) = MaxRefreshes
      BY <2>6, FS_Interval
    <2>8. Cardinality(refreshes) \in Nat
      BY <2>4, FS_CardinalityType
    <2> QED
      BY <2>5, <2>6, <2>7, <2>8
  <1>2. Min(free) \in free
    <2>1. free \in SUBSET Nat
      BY CacheConstants
    <2> HIDE DEF free
    <2> QED
      BY <1>1, <2>1, LowestNumber
  <1> QED
    BY <1>2

(* The files change, a hit schedules a refresh or a scan begins: no context is
   touched, and a refresh that begins has detected nothing. *)
LEMMA CacheAskedStep ==
  ASSUME TotalsAreTrue,
         \/ \E k \in CacheKeys : CacheHit(k) \/ CacheMiss(k)
         \/ \E k \in CacheKeys : \E f \in Files : \E size \in Sizes : EditDisk(k, f, size)
  PROVE  TotalsAreTrue'
  <1>1. ASSUME NEW k \in CacheKeys, NEW f \in Files, NEW size \in Sizes, EditDisk(k, f, size)
        PROVE  TotalsAreTrue'
    <2>1. disk' = [disk EXCEPT ![k][f] = size] /\ UNCHANGED <<contexts, caches, refreshes>>
      BY <1>1 DEF EditDisk
    <2>2. disk' \in [CacheKeys -> [Files -> Sizes]]
      BY <2>1 DEF TotalsAreTrue, CacheTypeOK
    <2> QED
      BY <2>1, <2>2 DEF TotalsAreTrue, CacheTypeOK, TotalsAgree, LaggingIsRefreshed
  <1>2. ASSUME NEW k \in CacheKeys, CacheMiss(k) PROVE TotalsAreTrue'
    BY <1>2 DEF CacheMiss, TotalsAreTrue, CacheTypeOK, TotalsAgree, LaggingIsRefreshed
  <1>3. ASSUME NEW k \in CacheKeys, CacheHit(k) PROVE TotalsAreTrue'
    <2>1. PICK n \in 1..MaxRefreshes :
             refreshes' = refreshes \cup {[id |-> n, context |-> caches[k], key |-> k,
                                           left |-> {}, detected |-> FALSE]}
      BY <1>3, FreeNumber DEF CacheHit, TotalsAreTrue
    <2> DEFINE new == [id |-> n, context |-> caches[k], key |-> k, left |-> {}, detected |-> FALSE]
    <2>2. caches[k] \in DOMAIN contexts /\ caches[k] \in Nat
      BY <1>3 DEF CacheHit, TotalsAreTrue, CacheTypeOK
    <2>3. UNCHANGED <<disk, contexts, caches>>
      BY <1>3 DEF CacheHit
    <2>4. new \in Refreshes
      BY <2>2 DEF Refreshes
    <2>5. IsFiniteSet(refreshes')
      BY <2>1, OneElementMore DEF TotalsAreTrue, CacheTypeOK
    <2>6. CacheTypeOK'
      <3>1. refreshes' = refreshes \cup {new} /\ new.context = caches[k]
        BY <2>1
      <3> HIDE DEF new
      <3>2. refreshes' \subseteq Refreshes /\ \A r \in refreshes' : r.context \in DOMAIN contexts
        BY <2>2, <2>4, <3>1 DEF TotalsAreTrue, CacheTypeOK
      <3> QED
        BY <2>3, <2>5, <3>2 DEF TotalsAreTrue, CacheTypeOK
    <2>7. LaggingIsRefreshed'
      BY <2>1, <2>3 DEF TotalsAreTrue, LaggingIsRefreshed
    <2> QED
      BY <2>6, <2>7, <2>3 DEF TotalsAreTrue, TotalsAgree, LaggingIsRefreshed
  <1> QED
    BY <1>1, <1>2, <1>3

(* A scan is over: the context it built is true, the others keep their numbers. *)
LEMMA BuildStep ==
  ASSUME TotalsAreTrue, NEW k \in CacheKeys, BuildContext(k)
  PROVE  TotalsAreTrue'
  <1> DEFINE built == [files |-> disk[k], total |-> SumOf(disk[k])]
             filled == [caches EXCEPT ![k] = Len(contexts) + 1]
  <1>1. /\ contexts' = Append(contexts, built)
        /\ \A q \in CacheKeys : caches'[q] \in {filled[q], 0}
        /\ caches' = [q \in CacheKeys |-> caches'[q]]
        /\ UNCHANGED <<disk, refreshes>>
    BY DEF BuildContext
  <1>2. built \in Contexts
    BY DEF TotalsAreTrue, CacheTypeOK, Contexts, Totals
  <1> HIDE DEF built
  <1>3. /\ contexts' \in Seq(Contexts) /\ Len(contexts') = Len(contexts) + 1
        /\ Len(contexts) \in Nat
        /\ contexts'[Len(contexts) + 1] = built
        /\ \A c \in DOMAIN contexts : contexts'[c] = contexts[c]
        /\ DOMAIN contexts = 1..Len(contexts) /\ DOMAIN contexts' = 1..(Len(contexts) + 1)
    BY <1>1, <1>2 DEF TotalsAreTrue, CacheTypeOK
  <1>4. caches' \in [CacheKeys -> 0..Len(contexts')]
    <2>1. \A q \in CacheKeys : filled[q] \in 0..(Len(contexts) + 1)
      BY <1>3 DEF TotalsAreTrue, CacheTypeOK
    <2> HIDE DEF filled
    <2>2. \A q \in CacheKeys : caches'[q] \in 0..(Len(contexts) + 1)
      BY <1>1, <1>3, <2>1
    <2> QED
      BY <1>1, <1>3, <2>2
  <1>5. CacheTypeOK'
    BY <1>1, <1>3, <1>4 DEF TotalsAreTrue, CacheTypeOK
  <1>6. built.total = SumOf(built.files)
    BY DEF built
  <1>7. LaggingIsRefreshed'
    BY <1>1, <1>3, <1>6 DEF TotalsAreTrue, LaggingIsRefreshed
  <1> QED
    BY <1>5, <1>7 DEF TotalsAreTrue, TotalsAgree, LaggingIsRefreshed

(* What applyDiff leaves of the contexts: one has other files, and the total of
   its files when the refresh is over. *)
LEMMA AppliedTo ==
  ASSUME CacheTypeOK, NEW c \in DOMAIN contexts, NEW files \in [Files -> Sizes], NEW f,
         NEW last \in BOOLEAN, ApplyTo(c, files, f, last)
  PROVE  /\ contexts' \in Seq(Contexts) /\ Len(contexts') = Len(contexts)
         /\ DOMAIN contexts' = DOMAIN contexts
         /\ \A d \in DOMAIN contexts : d # c => contexts'[d] = contexts[d]
         /\ last => contexts'[c].total = SumOf(contexts'[c].files)
  <1> DEFINE total == IF last THEN SumOf(files) ELSE contexts[c].total
             new == [contexts[c] EXCEPT !.files = files, !.total = total]
  <1>1. contexts' = [contexts EXCEPT ![c] = new]
    BY DEF ApplyTo, Retotal
  <1>2. contexts[c] \in Contexts
    BY DEF CacheTypeOK
  <1>3. total \in Totals
    BY <1>2 DEF Contexts, Totals
  <1> HIDE DEF total
  <1>4. new \in Contexts /\ new.files = files /\ new.total = total
    BY <1>2, <1>3 DEF Contexts
  <1> HIDE DEF new
  <1>5. /\ contexts' \in Seq(Contexts) /\ Len(contexts') = Len(contexts)
        /\ DOMAIN contexts' = DOMAIN contexts
        /\ contexts'[c] = new
        /\ \A d \in DOMAIN contexts : d # c => contexts'[d] = contexts[d]
    BY <1>1, <1>4 DEF CacheTypeOK
  <1> QED
    BY <1>4, <1>5 DEF total

(* A refresh moves on or ends.  If it moves on it has files left, and the total
   of its context may lag; if it ends having changed something, the total is
   computed anew. *)
LEMMA RefreshMoves ==
  ASSUME TotalsAreTrue, NEW r \in refreshes, NEW over \in BOOLEAN, NEW next,
         UNCHANGED <<disk, caches>>,
         refreshes' = (refreshes \ {r}) \cup (IF over THEN {} ELSE {next}),
         ~over => /\ next \in Refreshes /\ next.context = r.context
                  /\ next.detected /\ next.left # {},
         /\ contexts' \in Seq(Contexts) /\ Len(contexts') = Len(contexts)
         /\ DOMAIN contexts' = DOMAIN contexts,
         \A d \in DOMAIN contexts : d # r.context => contexts'[d] = contexts[d],
         over => \/ contexts' = contexts /\ ~r.detected
                 \/ contexts'[r.context].total = SumOf(contexts'[r.context].files)
  PROVE  TotalsAreTrue'
  <1>1. IsFiniteSet(refreshes')
    <2>1. IsFiniteSet(refreshes \ {r})
      BY FS_RemoveElement DEF TotalsAreTrue, CacheTypeOK
    <2>2. CASE over
      BY <2>1, <2>2
    <2>3. CASE ~over
      <3>1. refreshes' = (refreshes \ {r}) \cup {next}
        BY <2>3
      <3> QED
        BY <2>1, <3>1, OneElementMore
    <2> QED
      BY <2>2, <2>3
  <1>2. CacheTypeOK'
    BY <1>1 DEF TotalsAreTrue, CacheTypeOK
  <1>3. \A s \in refreshes' : s.detected => s.left # {}
    BY DEF TotalsAreTrue, LaggingIsRefreshed
  <1>4. ASSUME NEW c \in DOMAIN contexts, \A s \in refreshes' : s.context = c => ~s.detected
        PROVE  contexts'[c].total = SumOf(contexts'[c].files)
    <2>1. CASE c # r.context
      <3>1. \A s \in refreshes : s.context = c => ~s.detected
        BY <1>4, <2>1
      <3> QED
        BY <2>1, <3>1 DEF TotalsAreTrue, LaggingIsRefreshed
    <2>2. CASE c = r.context
      <3>1. over
        BY <1>4, <2>2
      <3>2. CASE contexts' = contexts /\ ~r.detected
        <4>1. \A s \in refreshes : s.context = c => ~s.detected
          BY <1>4, <3>2
        <4> QED
          BY <3>2, <4>1 DEF TotalsAreTrue, LaggingIsRefreshed
      <3> QED
        BY <2>2, <3>1, <3>2
    <2> QED
      BY <2>1, <2>2
  <1>5. LaggingIsRefreshed'
    BY <1>3, <1>4 DEF LaggingIsRefreshed
  <1> QED
    BY <1>2, <1>5 DEF TotalsAreTrue, TotalsAgree, LaggingIsRefreshed

(* The comparison with the disk. *)
LEMMA DetectStep ==
  ASSUME TotalsAreTrue, NEW r \in refreshes, Detect(r)
  PROVE  TotalsAreTrue'
  <1> DEFINE files == contexts[r.context].files
             deleted == {f \in Files : files[f] # 0 /\ disk[r.key][f] = 0}
             changed == {f \in Files : disk[r.key][f] # 0 /\ disk[r.key][f] # files[f]}
             kept == [f \in Files |-> IF f \in deleted THEN 0 ELSE files[f]]
             next == [r EXCEPT !.left = changed, !.detected = TRUE]
             over == changed = {}
  <1>1. /\ CacheTypeOK /\ r \in Refreshes /\ r.context \in DOMAIN contexts
        /\ files \in [Files -> Sizes] /\ 0 \in Sizes
    <2>1. CacheTypeOK /\ r \in Refreshes /\ r.context \in DOMAIN contexts
      BY DEF TotalsAreTrue, CacheTypeOK
    <2>2. contexts[r.context] \in Contexts
      BY <2>1 DEF CacheTypeOK
    <2>3. 0 \in Sizes
      BY CacheConstants DEF Sizes
    <2> QED
      BY <2>1, <2>2, <2>3 DEF Contexts
  <1>2. kept \in [Files -> Sizes]
    BY <1>1
  <1>3. /\ ~r.detected
        /\ IF deleted \cup changed = {} THEN contexts' = contexts
           ELSE ApplyTo(r.context, kept, CHOOSE f \in Files : TRUE, over)
        /\ refreshes' = (refreshes \ {r}) \cup (IF over THEN {} ELSE {next})
        /\ UNCHANGED <<disk, caches>>
    BY DEF Detect
  <1>4. changed \in SUBSET Files
    OBVIOUS
  <1> HIDE DEF changed, deleted, kept
  <1>5. /\ next \in Refreshes /\ next.context = r.context /\ next.detected
        /\ next.left = changed
    BY <1>1, <1>4 DEF Refreshes
  <1> HIDE DEF next
  <1>6. CASE deleted \cup changed = {}
    <2>1. contexts' = contexts /\ over
      BY <1>3, <1>6
    <2> QED
      BY <1>1, <1>3, <2>1, RefreshMoves DEF CacheTypeOK
  <1>7. CASE deleted \cup changed # {}
    <2>1. ApplyTo(r.context, kept, CHOOSE f \in Files : TRUE, over)
      BY <1>3, <1>7
    <2>2. over \in BOOLEAN
      OBVIOUS
    <2>3. ~over => next.left # {}
      BY <1>5
    <2> HIDE DEF over
    <2>4. /\ contexts' \in Seq(Contexts) /\ Len(contexts') = Len(contexts)
          /\ DOMAIN contexts' = DOMAIN contexts
          /\ \A d \in DOMAIN contexts : d # r.context => contexts'[d] = contexts[d]
          /\ over => contexts'[r.context].total = SumOf(contexts'[r.context].files)
      BY <1>1, <1>2, <2>1, <2>2, AppliedTo
    <2> QED
      BY <1>3, <1>5, <2>2, <2>3, <2>4, RefreshMoves
  <1> QED
    BY <1>6, <1>7

(* One file is read. *)
LEMMA ApplyFileStep ==
  ASSUME TotalsAreTrue, NEW r \in refreshes, NEW f \in Files, ApplyFile(r, f)
  PROVE  TotalsAreTrue'
  <1> DEFINE old == contexts[r.context].files
             files == [old EXCEPT ![f] = IF disk[r.key][f] = 0 THEN @ ELSE disk[r.key][f]]
             next == [r EXCEPT !.left = @ \ {f}]
             over == r.left = {f}
  <1>1. /\ CacheTypeOK /\ r \in Refreshes /\ r.context \in DOMAIN contexts
        /\ old \in [Files -> Sizes] /\ disk[r.key] \in [Files -> Sizes]
    <2>1. CacheTypeOK /\ r \in Refreshes /\ r.context \in DOMAIN contexts
      BY DEF TotalsAreTrue, CacheTypeOK
    <2>2. contexts[r.context] \in Contexts
      BY <2>1 DEF CacheTypeOK
    <2>3. r.key \in CacheKeys
      BY <2>1 DEF Refreshes
    <2> QED
      BY <2>1, <2>2, <2>3 DEF CacheTypeOK, Contexts
  <1>2. files \in [Files -> Sizes]
    BY <1>1
  <1>3. /\ r.detected /\ f \in r.left
        /\ ApplyTo(r.context, files, f, over)
        /\ refreshes' = (refreshes \ {r}) \cup (IF over THEN {} ELSE {next})
        /\ UNCHANGED <<disk, caches>>
    BY DEF ApplyFile
  <1> HIDE DEF files
  <1>4. /\ next \in Refreshes /\ next.context = r.context /\ next.detected
        /\ next.left = r.left \ {f}
    BY <1>1, <1>3 DEF Refreshes
  <1>5. ~over => next.left # {}
    BY <1>3, <1>4
  <1>6. over \in BOOLEAN
    OBVIOUS
  <1> HIDE DEF next, over
  <1>7. /\ contexts' \in Seq(Contexts) /\ Len(contexts') = Len(contexts)
        /\ DOMAIN contexts' = DOMAIN contexts
        /\ \A d \in DOMAIN contexts : d # r.context => contexts'[d] = contexts[d]
        /\ over => contexts'[r.context].total = SumOf(contexts'[r.context].files)
    BY <1>1, <1>2, <1>3, <1>6, AppliedTo
  <1> QED
    BY <1>3, <1>4, <1>5, <1>6, <1>7, RefreshMoves

(* What the list of contexts is after one of them was updated. *)
LEMMA TouchedList ==
  ASSUME UpdatedListsAll, NEW c \in DOMAIN contexts, contexts \in Seq(Contexts)
  PROVE  /\ Touch(c) \in Seq(DOMAIN contexts) /\ Len(Touch(c)) = Len(contexts)
         /\ \A d \in DOMAIN contexts : \E n \in DOMAIN Touch(c) : Touch(c)[n] = d
  <1> DEFINE i == CHOOSE n \in DOMAIN updated : updated[n] = c
             before == SubSeq(updated, 1, i - 1)
             after == SubSeq(updated, i + 1, Len(updated))
             len == Len(contexts)
  <1>1. /\ updated \in Seq(DOMAIN contexts) /\ len = Len(updated) /\ len \in Nat
        /\ DOMAIN updated = 1..len
    BY DEF UpdatedListsAll
  <1>2. i \in 1..len /\ updated[i] = c
    BY <1>1 DEF UpdatedListsAll
  <1>3. Touch(c) = Append(before \o after, c)
    BY DEF Touch, RemoveAt
  <1> HIDE DEF i
  <1>4. /\ before \in Seq(DOMAIN contexts) /\ Len(before) = i - 1
        /\ \A n \in 1..(i - 1) : before[n] = updated[n]
    BY <1>1, <1>2
  <1>5. /\ after \in Seq(DOMAIN contexts) /\ Len(after) = len - i
        /\ \A n \in 1..(len - i) : after[n] = updated[n + i]
    BY <1>1, <1>2
  <1> HIDE DEF before, after, len
  <1> DEFINE rest == before \o after
  <1>6. /\ rest \in Seq(DOMAIN contexts) /\ Len(rest) = len - 1
        /\ \A n \in 1..(i - 1) : rest[n] = updated[n]
        /\ \A n \in 1..(len - i) : rest[i - 1 + n] = updated[n + i]
    <2> DEFINE b == Len(before)
               a == Len(after)
    <2>0. b = i - 1 /\ a = len - i /\ i \in Nat /\ 1 <= i /\ i <= len /\ len \in Nat
      BY <1>1, <1>2, <1>4, <1>5
    <2>1. /\ rest \in Seq(DOMAIN contexts) /\ Len(rest) = b + a
          /\ \A n \in 1..(b + a) : rest[n] = IF n <= b THEN before[n] ELSE after[n - b]
      <3>1. before \in Seq(DOMAIN contexts) /\ after \in Seq(DOMAIN contexts)
        BY <1>4, <1>5
      <3> QED
        BY <3>1
    <2> HIDE DEF rest, a, b
    <2>2. Len(rest) = len - 1
      BY <2>0, <2>1
    <2>3. ASSUME NEW n \in 1..(i - 1) PROVE rest[n] = updated[n]
      <3>1. n \in 1..(b + a) /\ n <= b
        BY <2>0
      <3> QED
        BY <1>4, <2>1, <3>1
    <2>4. ASSUME NEW n \in 1..(len - i) PROVE rest[i - 1 + n] = updated[n + i]
      <3>1. i - 1 + n \in 1..(b + a) /\ ~(i - 1 + n <= b) /\ (i - 1 + n) - b = n
        BY <2>0
      <3> QED
        BY <1>5, <2>1, <3>1
    <2> QED
      BY <2>1, <2>2, <2>3, <2>4
  <1> HIDE DEF rest
  <1>7. /\ Touch(c) \in Seq(DOMAIN contexts) /\ Len(Touch(c)) = len
        /\ Touch(c)[len] = c /\ \A n \in 1..(len - 1) : Touch(c)[n] = rest[n]
        /\ DOMAIN Touch(c) = 1..len
    <2>1. Touch(c) = Append(rest, c) /\ rest \in Seq(DOMAIN contexts) /\ Len(rest) \in Nat
      BY <1>3, <1>6 DEF rest
    <2>2. /\ Touch(c) \in Seq(DOMAIN contexts) /\ Len(Touch(c)) = Len(rest) + 1
          /\ Touch(c)[Len(rest) + 1] = c
          /\ \A n \in 1..Len(rest) : Touch(c)[n] = rest[n]
      BY <2>1
    <2>3. Len(rest) = len - 1 /\ Len(rest) + 1 = len
      BY <1>1, <1>6
    <2>4. DOMAIN Touch(c) = 1..Len(Touch(c))
      BY <2>2
    <2> QED
      BY <2>2, <2>3, <2>4
  <1>8. ASSUME NEW d \in DOMAIN contexts PROVE \E n \in 1..len : Touch(c)[n] = d
    <2>1. PICK m \in 1..len : updated[m] = d
      BY <1>1 DEF UpdatedListsAll
    <2>2. CASE m < i
      <3>1. m \in 1..(i - 1) /\ m \in 1..(len - 1)
        BY <1>1, <1>2, <2>2
      <3> QED
        BY <1>6, <1>7, <2>1, <3>1
    <2>3. CASE m = i
      <3>1. len \in 1..len /\ d = c
        BY <1>1, <1>2, <2>1, <2>3
      <3> QED
        BY <1>7, <3>1
    <2>4. CASE m > i
      <3>1. m - i \in 1..(len - i) /\ m - 1 \in 1..(len - 1) /\ m - 1 \in 1..len
            /\ i - 1 + (m - i) = m - 1 /\ (m - i) + i = m
        BY <1>1, <1>2, <2>4
      <3> QED
        BY <1>6, <1>7, <2>1, <3>1
    <2> QED
      BY <1>2, <2>2, <2>3, <2>4
  <1> QED
    BY <1>7, <1>8 DEF len

(* The list is only changed by a scan, which appends its context, and by the
   end of a refresh, which moves its context to the end. *)
LEMMA CacheListStep ==
  ASSUME CacheInv, CacheNext
  PROVE  UpdatedListsAll'
  <1>1. /\ contexts \in Seq(Contexts) /\ Len(contexts) \in Nat
        /\ DOMAIN contexts = 1..Len(contexts)
        /\ updated \in Seq(DOMAIN contexts) /\ Len(updated) = Len(contexts)
        /\ DOMAIN updated = 1..Len(contexts)
    BY DEF CacheInv, TotalsAreTrue, CacheTypeOK, UpdatedListsAll
  <1>2. ASSUME NEW k \in CacheKeys, BuildContext(k) PROVE UpdatedListsAll'
    <2> DEFINE new == Len(contexts) + 1
               built == [files |-> disk[k], total |-> SumOf(disk[k])]
    <2>1. contexts' = Append(contexts, built) /\ updated' = Append(updated, new)
      BY <1>2 DEF BuildContext
    <2> HIDE DEF built
    <2>2. DOMAIN contexts' = 1..new /\ Len(contexts') = new
      BY <1>1, <2>1
    <2>3. updated \in Seq(1..new)
      BY <1>1
    <2>4. /\ updated' \in Seq(1..new) /\ Len(updated') = new /\ DOMAIN updated' = 1..new
          /\ updated'[new] = new /\ \A n \in 1..Len(contexts) : updated'[n] = updated[n]
      BY <1>1, <2>1, <2>3
    <2>5. ASSUME NEW c \in 1..new PROVE \E n \in 1..new : updated'[n] = c
      <3>1. CASE c = new
        BY <2>4, <3>1
      <3>2. CASE c # new
        <4>1. c \in 1..Len(contexts)
          BY <1>1, <3>2
        <4>2. PICK n \in 1..Len(contexts) : updated[n] = c
          BY <1>1, <4>1 DEF CacheInv, UpdatedListsAll
        <4>3. n \in 1..new
          BY <1>1
        <4> QED
          BY <2>4, <4>2, <4>3
      <3> QED
        BY <3>1, <3>2
    <2> QED
      BY <2>2, <2>4, <2>5 DEF UpdatedListsAll
  <1>3. ASSUME NEW c \in DOMAIN contexts, NEW files \in [Files -> Sizes], NEW f,
               NEW last \in BOOLEAN, ApplyTo(c, files, f, last)
        PROVE  UpdatedListsAll'
    <2>1. DOMAIN contexts' = DOMAIN contexts /\ Len(contexts') = Len(contexts)
      BY <1>3, AppliedTo DEF CacheInv, TotalsAreTrue
    <2>2. CASE last
      <3>1. updated' = Touch(c)
        BY <1>3, <2>2 DEF ApplyTo
      <3> QED
        BY <1>1, <2>1, <3>1, TouchedList DEF CacheInv, UpdatedListsAll
    <2>3. CASE ~last
      <3>1. updated' = updated
        BY <1>3, <2>3 DEF ApplyTo
      <3> QED
        BY <2>1, <3>1 DEF CacheInv, UpdatedListsAll
    <2> QED
      BY <2>2, <2>3
  <1>4. CASE UNCHANGED <<contexts, updated>>
    BY <1>4 DEF CacheInv, UpdatedListsAll
  <1>5. ASSUME NEW r \in refreshes
        PROVE  /\ r.context \in DOMAIN contexts /\ r.key \in CacheKeys
               /\ contexts[r.context].files \in [Files -> Sizes]
               /\ disk[r.key] \in [Files -> Sizes]
    <2>1. r \in Refreshes /\ r.context \in DOMAIN contexts
      BY DEF CacheInv, TotalsAreTrue, CacheTypeOK
    <2>2. contexts[r.context] \in Contexts
      BY <1>1, <2>1
    <2>3. r.key \in CacheKeys
      BY <2>1 DEF Refreshes
    <2> QED
      BY <2>1, <2>2, <2>3 DEF CacheInv, TotalsAreTrue, CacheTypeOK, Contexts
  <1>6. ASSUME NEW r \in refreshes, Detect(r) PROVE UpdatedListsAll'
    <2> DEFINE files == contexts[r.context].files
               deleted == {f \in Files : files[f] # 0 /\ disk[r.key][f] = 0}
               changed == {f \in Files : disk[r.key][f] # 0 /\ disk[r.key][f] # files[f]}
               kept == [f \in Files |-> IF f \in deleted THEN 0 ELSE files[f]]
               last == changed = {}
    <2>1. \/ UNCHANGED <<contexts, updated>>
          \/ ApplyTo(r.context, kept, CHOOSE f \in Files : TRUE, last)
      BY <1>6 DEF Detect
    <2>2. kept \in [Files -> Sizes]
      <3>1. 0 \in Sizes
        BY CacheConstants DEF Sizes
      <3> QED
        BY <1>5, <3>1
    <2>3. last \in BOOLEAN
      OBVIOUS
    <2> HIDE DEF kept, last
    <2> QED
      BY <1>3, <1>4, <1>5, <2>1, <2>2, <2>3
  <1>7. ASSUME NEW r \in refreshes, NEW f \in Files, ApplyFile(r, f) PROVE UpdatedListsAll'
    <2> DEFINE old == contexts[r.context].files
               files == [old EXCEPT ![f] = IF disk[r.key][f] = 0 THEN @ ELSE disk[r.key][f]]
               last == r.left = {f}
    <2>1. ApplyTo(r.context, files, f, last)
      BY <1>7 DEF ApplyFile
    <2>2. files \in [Files -> Sizes]
      BY <1>5
    <2>3. last \in BOOLEAN
      OBVIOUS
    <2> HIDE DEF files, last
    <2> QED
      BY <1>3, <1>5, <2>1, <2>2, <2>3
  <1> QED
    BY <1>2, <1>4, <1>6, <1>7 DEF CacheNext, CacheHit, CacheMiss, EditDisk

(* A refresh adds no context. *)
LEMMA RefreshAddsNone ==
  ASSUME CacheTypeOK, NEW r \in refreshes, Detect(r) \/ \E f \in Files : ApplyFile(r, f)
  PROVE  Len(contexts') = Len(contexts)
  <1>1. contexts \in Seq(Contexts)
    BY DEF CacheTypeOK
  <1>2. ASSUME NEW c, NEW files, NEW f, NEW last, ApplyTo(c, files, f, last)
        PROVE  Len(contexts') = Len(contexts)
    <2>1. contexts' = [contexts EXCEPT ![c] = contexts'[c]] \/ contexts' = contexts
      <3>1. CASE c \in DOMAIN contexts
        BY <1>1, <1>2, <3>1 DEF ApplyTo
      <3>2. CASE c \notin DOMAIN contexts
        BY <1>1, <1>2, <3>2 DEF ApplyTo
      <3> QED
        BY <3>1, <3>2
    <2> QED
      BY <1>1, <2>1
  <1> QED
    BY <1>2 DEF Detect, ApplyFile

(* A scan is counted when it begins, and as its context when it is over. *)
LEMMA CacheBoundStep ==
  ASSUME CacheInv, CacheNext
  PROVE  BuildsAreBounded'
  <1>1. /\ contexts \in Seq(Contexts) /\ Len(contexts) \in Nat /\ IsFiniteSet(building)
        /\ Cardinality(building) \in Nat /\ MaxBuilds \in Nat
    BY CacheConstants, FS_CardinalityType
       DEF CacheInv, TotalsAreTrue, CacheTypeOK, BuildsAreBounded
  <1>2. ASSUME NEW k \in CacheKeys, CacheMiss(k) PROVE BuildsAreBounded'
    <2>1. /\ building' = building \cup {k} /\ UNCHANGED contexts
          /\ Len(contexts) + Cardinality(building) < MaxBuilds
      BY <1>2 DEF CacheMiss
    <2>2. /\ IsFiniteSet(building') /\ Cardinality(building') \in Nat
          /\ Cardinality(building') <= Cardinality(building) + 1
      BY <1>1, <2>1, OneElementMore
    <2> QED
      BY <1>1, <2>1, <2>2 DEF CacheInv, BuildsAreBounded
  <1>3. ASSUME NEW k \in CacheKeys, BuildContext(k) PROVE BuildsAreBounded'
    <2> DEFINE built == [files |-> disk[k], total |-> SumOf(disk[k])]
    <2>1. building' = building \ {k} /\ k \in building /\ contexts' = Append(contexts, built)
      BY <1>3 DEF BuildContext
    <2> HIDE DEF built
    <2>2. IsFiniteSet(building') /\ Cardinality(building') = Cardinality(building) - 1
      BY <1>1, <2>1, FS_RemoveElement
    <2>3. Len(contexts') = Len(contexts) + 1
      BY <1>1, <2>1
    <2> QED
      BY <1>1, <2>1, <2>2, <2>3 DEF CacheInv, BuildsAreBounded
  <1>4. CASE UNCHANGED building /\ Len(contexts') = Len(contexts)
    BY <1>4 DEF CacheInv, BuildsAreBounded
  <1>5. ASSUME NEW r \in refreshes, Detect(r) \/ \E f \in Files : ApplyFile(r, f)
        PROVE  UNCHANGED building /\ Len(contexts') = Len(contexts)
    BY <1>5, RefreshAddsNone DEF CacheInv, TotalsAreTrue, Detect, ApplyFile
  <1> QED
    BY <1>2, <1>3, <1>4, <1>5 DEF CacheNext, CacheHit, EditDisk

(* However the refreshes of a context overlap, its total is the sum of its files
   once none of them has anything left to read, and the order in which contexts
   are evicted has each of them once. *)
THEOREM CacheIsSound == CacheSpec => []CacheInv
  <1>1. ASSUME CacheInit PROVE CacheInv
    <2>1. /\ 1 \in Sizes /\ contexts = <<>> /\ updated = <<>> /\ refreshes = {} /\ building = {}
          /\ MaxBuilds \in Nat
      BY <1>1, CacheConstants DEF CacheInit, Sizes
    <2>2. IsFiniteSet(refreshes) /\ IsFiniteSet(building) /\ Cardinality(building) = 0
      BY <2>1, FS_EmptySet
    <2>3. CacheTypeOK
      BY <1>1, <2>1, <2>2 DEF CacheInit, CacheTypeOK
    <2>4. BuildsAreBounded
      BY <2>1, <2>2 DEF BuildsAreBounded
    <2>5. UpdatedListsAll
      BY <2>1 DEF UpdatedListsAll
    <2> QED
      BY <2>1, <2>3, <2>4, <2>5 DEF CacheInv, TotalsAreTrue, TotalsAgree, LaggingIsRefreshed
  <1>2. ASSUME CacheInv, [CacheNext]_cacheVars PROVE CacheInv'
    <2>1. CASE UNCHANGED cacheVars
      BY <1>2, <2>1 DEF cacheVars, CacheInv, TotalsAreTrue, CacheTypeOK, TotalsAgree,
         LaggingIsRefreshed, BuildsAreBounded, UpdatedListsAll
    <2>2. CASE CacheNext
      <3>1. TotalsAreTrue'
        BY <1>2, <2>2, CacheAskedStep, BuildStep, DetectStep, ApplyFileStep DEF CacheNext, CacheInv
      <3> QED
        BY <1>2, <2>2, <3>1, CacheListStep, CacheBoundStep DEF CacheInv
    <2> QED
      BY <1>2, <2>1, <2>2
  <1> QED
    BY <1>1, <1>2, PTL DEF CacheSpec

(* The sizes of contexts are natural numbers. *)
LEMMA TotalsAreNatural ==
  ASSUME NEW c \in Contexts
  PROVE  c.total \in Nat
  <1> HIDE DEF SumFunction
  <1>1. PICK files \in [Files -> Sizes] : c.total = SumFunction(files)
    BY DEF Contexts, Totals, SumOf
  <1>2. files \in [Files -> Nat] /\ IsFiniteSet(Files)
    BY CacheConstants DEF Sizes
  <1>3. SumFunction(files) \in Nat
    BY <1>2, SumOver
  <1> QED
    BY <1>1, <1>3

(* Eviction stops, and what stays then fits. *)
LEMMA EvictionFits ==
  ASSUME NEW n \in Nat, NEW size \in [0..n -> Nat], size[n] = 0
  PROVE  Evicted(size) \in 0..n /\ size[Evicted(size)] <= CacheLimit
  <1> DEFINE fits == {m \in DOMAIN size : 5 * size[m] <= 4 * CacheLimit}
  <1>1. CacheLimit \in Nat /\ DOMAIN size = 0..n /\ 0 \in 0..n /\ n \in 0..n
    BY CacheConstants
  <1>2. CASE size[0] > CacheLimit
    <2>1. n \in fits
      BY <1>1
    <2>2. fits \in SUBSET Nat /\ fits # {}
      BY <1>1, <2>1
    <2>3. Min(fits) \in fits
      <3> HIDE DEF fits
      <3> QED
        BY <2>2, LowestNumber
    <2>4. Evicted(size) = Min(fits)
      BY <1>2 DEF Evicted
    <2>5. Min(fits) \in 0..n /\ 5 * size[Min(fits)] <= 4 * CacheLimit
      BY <1>1, <2>3
    <2> DEFINE m == Min(fits)
    <2> HIDE DEF m
    <2>6. m \in 0..n /\ 5 * size[m] <= 4 * CacheLimit /\ Evicted(size) = m
      BY <2>4, <2>5 DEF m
    <2>7. size[m] \in Nat
      BY <2>6
    <2>8. size[m] <= CacheLimit
      BY <1>1, <2>6, <2>7
    <2> QED
      BY <2>6, <2>8
  <1>3. CASE ~(size[0] > CacheLimit)
    <2>1. Evicted(size) = 0 /\ size[0] \in Nat
      BY <1>1, <1>3 DEF Evicted
    <2> QED
      BY <1>1, <1>3, <2>1
  <1> QED
    BY <1>2, <1>3

(* What is cached after a scan is among what stays, and that fits. *)
LEMMA RoomStep ==
  ASSUME CacheInv, NEW k \in CacheKeys, BuildContext(k)
  PROVE  TotalSize(contexts, Cached)' <= CacheLimit
  <1> HIDE DEF SumFunction
  <1>1. PICK new \in Nat : new = Len(contexts) + 1
    BY DEF CacheInv, TotalsAreTrue, CacheTypeOK
  <1> DEFINE built == Append(contexts, [files |-> disk[k], total |-> SumOf(disk[k])])
             filled == [caches EXCEPT ![k] = new]
             order == Append(updated, new)
             left(n) == Range(filled) \cap ToSet(SubSeq(order, n + 1, Len(order)))
             size == [n \in 0..Len(order) |-> TotalSize(built, left(n))]
             stays == left(Evicted(size))
  <1>2. contexts' = built /\ stays = Staying(built, Range(filled), order)
    BY <1>1 DEF BuildContext, Staying
  <1>3. caches' = [q \in CacheKeys |-> IF filled[q] \in stays THEN filled[q] ELSE 0]
    <2>1. caches' = [q \in CacheKeys |-> IF filled[q] \in Staying(built, Range(filled), order)
                                         THEN filled[q] ELSE 0]
      BY <1>1 DEF BuildContext
    <2> HIDE DEF filled, stays, built, order
    <2> QED
      BY <1>2, <2>1
  <1>4. built \in Seq(Contexts) /\ DOMAIN built = 1..new
    <2>1. contexts' \in Seq(Contexts)
      BY BuildStep DEF CacheInv, TotalsAreTrue, CacheTypeOK
    <2>2. contexts \in Seq(Contexts) /\ Len(contexts) \in Nat
      BY DEF CacheInv, TotalsAreTrue, CacheTypeOK
    <2> QED
      BY <1>1, <1>2, <2>1, <2>2
  <1>5. \A c \in 1..new : built[c].total \in Nat
    <2> HIDE DEF built
    <2>1. \A c \in 1..new : built[c] \in Contexts
      BY <1>4
    <2> QED
      BY <2>1, TotalsAreNatural
  <1>6. order \in Seq(1..new) /\ Len(order) \in Nat
    <2>1. /\ updated \in Seq(DOMAIN contexts) /\ DOMAIN contexts = 1..Len(contexts)
          /\ Len(contexts) \in Nat
      BY DEF CacheInv, UpdatedListsAll, TotalsAreTrue, CacheTypeOK
    <2>2. updated \in Seq(1..new) /\ new \in 1..new
      BY <1>1, <2>1
    <2> QED
      BY <2>2
  <1> HIDE DEF built, order
  <1>7. \A n \in 0..Len(order) : left(n) \in SUBSET (1..new)
    <2>1. \A n \in 0..Len(order) : ToSet(SubSeq(order, n + 1, Len(order))) \in SUBSET (1..new)
      <3>1. ASSUME NEW n \in 0..Len(order)
            PROVE  ToSet(SubSeq(order, n + 1, Len(order))) \in SUBSET (1..new)
        <4> DEFINE u == SubSeq(order, n + 1, Len(order))
        <4>1. u \in Seq(1..new)
          BY <1>6, EndOf
        <4> HIDE DEF u
        <4>2. ToSet(u) \in SUBSET (1..new)
          BY <4>1 DEF ToSet
        <4> QED
          BY <4>2 DEF u
      <3> QED
        BY <3>1
    <2> QED
      BY <2>1
  <1>8. left(Len(order)) = {}
    <2>1. SubSeq(order, Len(order) + 1, Len(order)) = <<>>
      BY <1>6
    <2>2. ToSet(<<>>) = {}
      BY DEF ToSet
    <2> QED
      BY <2>1, <2>2
  <1> HIDE DEF left, filled
  <1>9. IsFiniteSet(1..new)
    BY FS_Interval
  <1>10. ASSUME NEW S \in SUBSET (1..new)
         PROVE  /\ [c \in S |-> built[c].total] \in [S -> Nat] /\ IsFiniteSet(S)
                /\ TotalSize(built, S) \in Nat
    <2>1. [c \in S |-> built[c].total] \in [S -> Nat] /\ IsFiniteSet(S)
      BY <1>5, <1>9, FS_Subset
    <2>2. SumFunction([c \in S |-> built[c].total]) \in Nat
      BY <2>1, SumOver
    <2> QED
      BY <2>1, <2>2 DEF TotalSize
  <1>11. size \in [0..Len(order) -> Nat] /\ size[Len(order)] = 0
    <2>1. size \in [0..Len(order) -> Nat]
      BY <1>7, <1>10
    <2>2. size[Len(order)] = TotalSize(built, {})
      <3>1. Len(order) \in 0..Len(order)
        BY <1>6
      <3>2. size[Len(order)] = TotalSize(built, left(Len(order)))
        BY <3>1
      <3> HIDE DEF size
      <3> QED
        BY <1>8, <3>2, Zenon
    <2>3. [c \in {} |-> built[c].total] = [c \in {} |-> 0]
      OBVIOUS
    <2>4. SumFunction([c \in {} |-> 0]) = 0
      BY FS_EmptySet, SumOfZeros
    <2> HIDE DEF size
    <2> QED
      BY <2>1, <2>2, <2>3, <2>4 DEF TotalSize
  <1>12. Evicted(size) \in 0..Len(order) /\ size[Evicted(size)] <= CacheLimit
    <2> HIDE DEF size
    <2> QED
      BY <1>6, <1>11, EvictionFits
  <1>13. stays \in SUBSET (1..new) /\ TotalSize(built, stays) <= CacheLimit
    <2> DEFINE e == Evicted(size)
    <2>1. e \in 0..Len(order) /\ size[e] <= CacheLimit /\ stays = left(e)
      BY <1>12
    <2> HIDE DEF e, stays
    <2>2. size[e] = TotalSize(built, left(e))
      BY <2>1
    <2> HIDE DEF size
    <2> QED
      BY <1>7, <2>1, <2>2
  <1> HIDE DEF size, stays
  <1>14. Cached' \in SUBSET stays
    BY <1>3 DEF Cached
  <1> DEFINE kept == Cached'
             f == [c \in stays |-> built[c].total]
  <1>15. kept \in SUBSET stays
    BY <1>14
  <1>16. TotalSize(built, kept) <= TotalSize(built, stays)
         /\ TotalSize(built, kept) \in Nat /\ TotalSize(built, stays) \in Nat
    <2> HIDE DEF kept
    <2>1. f \in [stays -> Nat] /\ IsFiniteSet(stays)
      BY <1>10, <1>13
    <2>2. [c \in kept |-> built[c].total] = [c \in kept |-> f[c]]
      BY <1>15
    <2> HIDE DEF f
    <2>3. /\ SumFunction([c \in kept |-> f[c]]) <= SumFunction(f)
          /\ SumFunction([c \in kept |-> f[c]]) \in Nat /\ SumFunction(f) \in Nat
      BY <1>15, <2>1, SumOfPart
    <2>4. TotalSize(built, kept) = SumFunction([c \in kept |-> f[c]])
      BY <2>2 DEF TotalSize
    <2>5. TotalSize(built, stays) = SumFunction(f)
      BY DEF TotalSize, f
    <2> QED
      BY <2>3, <2>4, <2>5
  <1>17. TotalSize(built, kept) <= CacheLimit
    <2> HIDE DEF kept, f
    <2> QED
      BY <1>13, <1>16, CacheConstants
  <1>18. TotalSize(contexts, Cached)' = TotalSize(built, kept)
    BY <1>2 DEF TotalSize
  <1> QED
    BY <1>17, <1>18

(* Only a scan adds a context. *)
LEMMA OnlyScansAdd ==
  ASSUME CacheInv, CacheNext, Len(contexts') > Len(contexts)
  PROVE  \E k \in CacheKeys : BuildContext(k)
  <1>1. Len(contexts) \in Nat /\ ~(Len(contexts) > Len(contexts))
    BY DEF CacheInv, TotalsAreTrue, CacheTypeOK
  <1>2. ASSUME NEW r \in refreshes, Detect(r) \/ \E f \in Files : ApplyFile(r, f)
        PROVE  Len(contexts') = Len(contexts)
    BY <1>2, RefreshAddsNone DEF CacheInv, TotalsAreTrue
  <1> QED
    BY <1>1, <1>2 DEF CacheNext, CacheHit, CacheMiss, EditDisk

(* However much the refreshes let the contexts grow, after every scan what is
   cached is within the limit. *)
THEOREM ScansLeaveRoom == CacheSpec => RoomAfterBuild
  <1>1. ASSUME CacheInv, [CacheNext]_cacheVars
        PROVE  [Len(contexts') > Len(contexts) => TotalSize(contexts, Cached)' <= CacheLimit]_cacheVars
    BY <1>1, OnlyScansAdd, RoomStep
  <1> QED
    BY <1>1, CacheIsSound, PTL DEF CacheSpec, RoomAfterBuild

-----------------------------------------------------------------------------
(* The activity stream. *)

(* The multiples of a batch are a batch apart. *)
LEMMA Multiples ==
  ASSUME NEW l \in Nat \ {0}
  PROVE  /\ 0 * l = 0
         /\ \A n \in Nat : n * l \in Nat /\ n <= n * l /\ (n + 1) * l = n * l + l
         /\ \A m, n \in Nat : m <= n => m * l <= n * l
  OBVIOUS

(* The timer's loop ends, and no round of it finds nothing. *)
LEMMA RoundsSuffice ==
  ASSUME NEW S, pending \in Seq(S)
  PROVE  /\ Rounds \in 0..Len(pending) /\ Len(pending) <= Rounds * BatchLimit
         /\ \A i \in 1..Rounds : (i - 1) * BatchLimit < Len(pending)
  <1> DEFINE enough == {n \in 0..Len(pending) : Len(pending) <= n * BatchLimit}
  <1>1. Len(pending) \in Nat
    OBVIOUS
  <1>2. Len(pending) \in enough
    BY <1>1, Multiples, StreamConstants
  <1>3. enough \in SUBSET Nat
    BY <1>1
  <1>4. Rounds \in enough /\ \A k \in enough : Rounds <= k
    BY <1>2, <1>3, LowestNumber DEF Rounds
  <1>5. ASSUME NEW i \in 1..Rounds PROVE (i - 1) * BatchLimit < Len(pending)
    <2>1. i - 1 \in 0..Len(pending) /\ i - 1 \notin enough
      BY <1>1, <1>4
    <2>2. (i - 1) * BatchLimit \in Nat
      BY <2>1, Multiples, StreamConstants
    <2> QED
      BY <1>1, <2>1, <2>2
  <1> QED
    BY <1>4, <1>5

(* Where the j-th activity of the i-th batch was waiting. *)
At(i, j) == (i - 1) * BatchLimit + j

(* What the batches of the timer hold. *)
LEMMA BatchesHold ==
  ASSUME NEW S, pending \in Seq(S)
  PROVE  /\ Chunked \in Seq(Seq(S)) /\ Len(Chunked) = Rounds
         /\ \A i \in DOMAIN Chunked : \A j \in DOMAIN Chunked[i] :
              /\ At(i, j) \in DOMAIN pending /\ Chunked[i][j] = pending[At(i, j)]
              /\ j \in 1..BatchLimit
         /\ \A i \in 1..Rounds, j \in 1..BatchLimit :
              At(i, j) <= Len(pending) => j \in DOMAIN Chunked[i]
  <1>1. Len(pending) \in Nat /\ Rounds \in Nat /\ BatchLimit \in Nat \ {0}
    BY RoundsSuffice, StreamConstants
  <1>2. ASSUME NEW i \in 1..Rounds
        PROVE  /\ Chunked[i] \in Seq(S)
               /\ \A j \in DOMAIN Chunked[i] :
                    /\ At(i, j) \in DOMAIN pending /\ Chunked[i][j] = pending[At(i, j)]
                    /\ j \in 1..BatchLimit
               /\ \A j \in 1..BatchLimit : At(i, j) <= Len(pending) => j \in DOMAIN Chunked[i]
    <2> DEFINE lo == (i - 1) * BatchLimit
               hi == IF i * BatchLimit < Len(pending) THEN i * BatchLimit ELSE Len(pending)
    <2>1. Chunked[i] = SubSeq(pending, lo + 1, hi)
      BY DEF Chunked
    <2>2. i - 1 \in Nat /\ (i - 1) + 1 = i
      BY <1>1
    <2>3. lo \in Nat /\ i * BatchLimit = lo + BatchLimit
      BY <1>1, <2>2, Multiples
    <2>4. lo < Len(pending)
      BY RoundsSuffice
    <2>5. hi \in Nat /\ lo <= hi /\ hi <= Len(pending) /\ hi <= lo + BatchLimit
          /\ (hi = Len(pending) \/ hi = lo + BatchLimit)
      BY <1>1, <2>3, <2>4
    <2>6. \A j : At(i, j) = lo + j
      BY DEF At
    <2> HIDE DEF lo, hi
    <2>7. /\ Chunked[i] \in Seq(S) /\ Len(Chunked[i]) = hi - lo
          /\ \A j \in 1..(hi - lo) : Chunked[i][j] = pending[lo + j]
      BY <1>1, <2>1, <2>3, <2>5
    <2>8. DOMAIN Chunked[i] = 1..(hi - lo)
      BY <2>7
    <2>9. \A j \in 1..(hi - lo) : lo + j \in 1..Len(pending) /\ j \in 1..BatchLimit
      BY <1>1, <2>3, <2>5
    <2>10. \A j \in 1..BatchLimit : lo + j <= Len(pending) => j \in 1..(hi - lo)
      BY <1>1, <2>3, <2>5
    <2> QED
      BY <2>6, <2>7, <2>8, <2>9, <2>10
  <1>3. Chunked \in Seq(Seq(S)) /\ DOMAIN Chunked = 1..Rounds /\ Len(Chunked) = Rounds
    <2>1. DOMAIN Chunked = 1..Rounds /\ \A i \in 1..Rounds : Chunked[i] \in Seq(S)
      BY <1>2 DEF Chunked
    <2>2. Chunked = [i \in 1..Rounds |-> Chunked[i]]
      BY DEF Chunked
    <2> QED
      BY <1>1, <2>1, <2>2
  <1> QED
    BY <1>2, <1>3

(* Later in a batch or in a later batch is later in what was waiting. *)
LEMMA BatchesInOrder ==
  ASSUME NEW i \in Nat \ {0}, NEW j \in 1..BatchLimit, NEW k \in Nat \ {0}, NEW m \in 1..BatchLimit,
         i < k \/ (i = k /\ j < m)
  PROVE  At(i, j) < At(k, m)
  <1>0. BatchLimit \in Nat \ {0}
    BY StreamConstants
  <1>1. CASE i < k
    <2>1. i \in Nat /\ k - 1 \in Nat /\ i <= k - 1 /\ i - 1 \in Nat /\ (i - 1) + 1 = i
      BY <1>1
    <2>2. /\ i * BatchLimit <= (k - 1) * BatchLimit
          /\ i * BatchLimit = (i - 1) * BatchLimit + BatchLimit
          /\ (i - 1) * BatchLimit \in Nat /\ (k - 1) * BatchLimit \in Nat
      BY <1>0, <2>1, Multiples
    <2> QED
      BY <1>0, <2>2 DEF At
  <1>2. CASE i = k /\ j < m
    <2>1. (i - 1) * BatchLimit \in Nat
      BY <1>0, Multiples
    <2> QED
      BY <1>0, <1>2, <2>1 DEF At
  <1> QED
    BY <1>1, <1>2

(* Every activity that waits is in one of the batches. *)
LEMMA BatchesMissNone ==
  ASSUME NEW S, pending \in Seq(S), NEW m \in DOMAIN pending
  PROVE  \E i \in DOMAIN Chunked : \E j \in DOMAIN Chunked[i] : Chunked[i][j] = pending[m]
  <1> DEFINE reach == {n \in 0..Len(pending) : m <= n * BatchLimit}
             i == Min(reach)
             j == m - (i - 1) * BatchLimit
  <1>1. /\ Len(pending) \in Nat /\ BatchLimit \in Nat \ {0} /\ m \in 1..Len(pending)
        /\ Rounds \in 0..Len(pending) /\ Len(pending) <= Rounds * BatchLimit
    BY RoundsSuffice, StreamConstants
  <1>2. Rounds * BatchLimit \in Nat
    BY <1>1, Multiples
  <1>3. Rounds \in reach
    BY <1>1, <1>2
  <1>4. i \in reach /\ \A k \in reach : i <= k
    <2>1. reach \in SUBSET Nat
      BY <1>1
    <2> QED
      BY <1>3, <2>1, LowestNumber
  <1>5. i \in 1..Rounds
    <2>1. i # 0
      BY <1>1, <1>4, Multiples
    <2> HIDE DEF i
    <2> QED
      BY <1>1, <1>3, <1>4, <2>1
  <1> HIDE DEF i
  <1>6. i - 1 \in 0..Len(pending) /\ i - 1 \notin reach /\ i - 1 \in Nat /\ (i - 1) + 1 = i
    <2>1. i \in Nat /\ i - 1 \in 0..Len(pending) /\ i - 1 \in Nat /\ (i - 1) + 1 = i
      BY <1>1, <1>5
    <2> HIDE DEF reach
    <2>2. ~(i <= i - 1)
      BY <2>1
    <2> QED
      BY <1>4, <2>1, <2>2
  <1>7. (i - 1) * BatchLimit \in Nat /\ i * BatchLimit = (i - 1) * BatchLimit + BatchLimit
    BY <1>1, <1>6, Multiples
  <1>8. j \in 1..BatchLimit /\ At(i, j) = m
    BY <1>1, <1>4, <1>6, <1>7 DEF At
  <1> HIDE DEF j
  <1>9. j \in DOMAIN Chunked[i] /\ i \in DOMAIN Chunked
    <2>1. DOMAIN Chunked = 1..Rounds
      BY DEF Chunked
    <2> QED
      BY <1>1, <1>5, <1>8, <2>1, BatchesHold
  <1> QED
    BY <1>8, <1>9, BatchesHold

(* What the new batches of a step may be: they hold what waited, each activity
   once, in its order. *)
Batched(C) ==
  /\ C \in Seq(Seq(1..MaxActivities))
  /\ \A b \in DOMAIN C : \A i \in DOMAIN C[b] : \E m \in DOMAIN pending : C[b][i] = pending[m]
  /\ \A m \in DOMAIN pending : \E b \in DOMAIN C : \E i \in DOMAIN C[b] : C[b][i] = pending[m]
  /\ \A b, c \in DOMAIN C : \A i \in DOMAIN C[b], j \in DOMAIN C[c] :
        b < c \/ (b = c /\ i < j) => C[b][i] < C[c][j]

LEMMA ChunkedIsBatched ==
  ASSUME StreamInv
  PROVE  Batched(Chunked)
  <1>1. pending \in Seq(1..MaxActivities) /\ BatchLimit \in Nat \ {0}
    BY StreamConstants DEF StreamInv, StreamTypeOK
  <1>2. DOMAIN Chunked = 1..Rounds /\ Rounds \in Nat
    BY <1>1, RoundsSuffice DEF Chunked
  <1>3. ASSUME NEW b \in DOMAIN Chunked, NEW c \in DOMAIN Chunked,
               NEW i \in DOMAIN Chunked[b], NEW j \in DOMAIN Chunked[c], b < c \/ (b = c /\ i < j)
        PROVE  Chunked[b][i] < Chunked[c][j]
    <2>1. /\ At(b, i) \in DOMAIN pending /\ Chunked[b][i] = pending[At(b, i)] /\ i \in 1..BatchLimit
          /\ At(c, j) \in DOMAIN pending /\ Chunked[c][j] = pending[At(c, j)] /\ j \in 1..BatchLimit
      BY <1>1, BatchesHold
    <2>2. At(b, i) < At(c, j)
      <3>1. b \in Nat \ {0} /\ c \in Nat \ {0}
        BY <1>2
      <3> QED
        BY <1>3, <2>1, <3>1, BatchesInOrder
    <2> QED
      BY <2>1, <2>2 DEF StreamInv, WaitingIsYounger
  <1>4. \A b \in DOMAIN Chunked : \A i \in DOMAIN Chunked[b] :
           \E m \in DOMAIN pending : Chunked[b][i] = pending[m]
    BY <1>1, BatchesHold
  <1>5. \A m \in DOMAIN pending :
           \E b \in DOMAIN Chunked : \E i \in DOMAIN Chunked[b] : Chunked[b][i] = pending[m]
    BY <1>1, BatchesMissNone
  <1>6. Chunked \in Seq(Seq(1..MaxActivities))
    BY <1>1, BatchesHold
  <1> QED
    BY <1>3, <1>4, <1>5, <1>6 DEF Batched

(* flush() is one batch of everything. *)
LEMMA FlushIsBatched ==
  ASSUME StreamInv
  PROVE  Batched(<<pending>>) /\ Append(emitted, pending) = emitted \o <<pending>>
  <1>1. pending \in Seq(1..MaxActivities) /\ emitted \in Seq(Seq(1..MaxActivities))
    BY DEF StreamInv, StreamTypeOK
  <1>2. <<pending>> \in Seq(Seq(1..MaxActivities)) /\ Len(<<pending>>) = 1 /\ <<pending>>[1] = pending
    BY <1>1
  <1>3. DOMAIN <<pending>> = {1}
    BY <1>2
  <1>4. Append(emitted, pending) = emitted \o <<pending>>
    BY <1>1
  <1>5. Batched(<<pending>>)
    <2> DEFINE C == <<pending>>
    <2>1. C \in Seq(Seq(1..MaxActivities)) /\ DOMAIN C = {1} /\ C[1] = pending
      BY <1>2, <1>3
    <2> HIDE DEF C
    <2>2. Batched(C)
      BY <2>1 DEF Batched, StreamInv, WaitingIsYounger
    <2> QED
      BY <2>2 DEF C
  <1> QED
    BY <1>4, <1>5

(* No activity is twice in the batches E, and those not urgent are in order. *)
OnceInOrder(E) ==
  \A b, c \in DOMAIN E : \A i \in DOMAIN E[b], j \in DOMAIN E[c] :
     /\ E[b][i] = E[c][j] => b = c /\ i = j
     /\ (b < c \/ (b = c /\ i < j)) /\ E[b][i] \notin urgent /\ E[c][j] \notin urgent
        => E[b][i] < E[c][j]

(* Batches behind batches: no activity twice, and in order. *)
LEMMA BatchesBehind ==
  ASSUME StreamInv, NEW C, Batched(C), NEW E, E = emitted \o C
  PROVE  OnceInOrder(E)
  <1> SUFFICES ASSUME NEW b \in DOMAIN E, NEW c \in DOMAIN E, NEW i \in DOMAIN E[b],
                      NEW j \in DOMAIN E[c]
               PROVE  /\ E[b][i] = E[c][j] => b = c /\ i = j
                      /\ (b < c \/ (b = c /\ i < j)) /\ E[b][i] \notin urgent /\ E[c][j] \notin urgent
                         => E[b][i] < E[c][j]
    BY Zenon DEF OnceInOrder
  <1> DEFINE n == Len(emitted)
  <1>1. /\ emitted \in Seq(Seq(1..MaxActivities)) /\ C \in Seq(Seq(1..MaxActivities))
        /\ pending \in Seq(1..MaxActivities)
    BY DEF StreamInv, StreamTypeOK, Batched
  <1>2. /\ \/ b \in DOMAIN emitted /\ E[b] = emitted[b]
           \/ b > n /\ b - n \in DOMAIN C /\ E[b] = C[b - n]
        /\ \/ c \in DOMAIN emitted /\ E[c] = emitted[c]
           \/ c > n /\ c - n \in DOMAIN C /\ E[c] = C[c - n]
        /\ E \in Seq(Seq(1..MaxActivities))
    <2>1. E \in Seq(Seq(1..MaxActivities)) /\ Joins(E, emitted, C)
      BY <1>1, Concatenated
    <2> QED
      BY <2>1 DEF Joins
  <1>3. n \in Nat /\ b \in Nat /\ c \in Nat /\ \A k \in DOMAIN emitted : k <= n
    BY <1>1, <1>2
  <1>4. i \in Nat /\ j \in Nat /\ E[b][i] \in Nat /\ E[c][j] \in Nat
    <2>1. E[b] \in Seq(1..MaxActivities) /\ E[c] \in Seq(1..MaxActivities)
      BY <1>2, EntryOf
    <2>2. i \in Nat /\ j \in Nat /\ E[b][i] \in 1..MaxActivities /\ E[c][j] \in 1..MaxActivities
      BY <2>1, EntryOf
    <2>3. \A x \in 1..MaxActivities : x \in Nat
      BY StreamConstants
    <2> QED
      BY <2>2, <2>3
  <1> HIDE DEF n
  <1>5. b \in DOMAIN emitted /\ E[b] = emitted[b] => E[b][i] \in Sent
    BY DEF Sent, ToSet
  <1>6. c \in DOMAIN emitted /\ E[c] = emitted[c] => E[c][j] \in Sent
    BY DEF Sent, ToSet
  <1>7. b - n \in DOMAIN C /\ E[b] = C[b - n] => \E m \in DOMAIN pending : E[b][i] = pending[m]
    BY DEF Batched
  <1>8. c - n \in DOMAIN C /\ E[c] = C[c - n] => \E m \in DOMAIN pending : E[c][j] = pending[m]
    BY DEF Batched
  <1>9. \A m \in DOMAIN pending : pending[m] \notin Sent
    BY DEF StreamInv, EmittedOnce, ToSet
  <1>10. CASE b \in DOMAIN emitted /\ E[b] = emitted[b] /\ c \in DOMAIN emitted /\ E[c] = emitted[c]
    BY <1>10 DEF StreamInv, EmittedOnce, BatchesKeepOrder
  <1>11. CASE /\ b > n /\ b - n \in DOMAIN C /\ E[b] = C[b - n]
              /\ c > n /\ c - n \in DOMAIN C /\ E[c] = C[c - n]
    <2>1. /\ b - n < c - n <=> b < c
          /\ b - n = c - n <=> b = c
          /\ c - n < b - n <=> c < b
      BY <1>3
    <2>2. /\ b < c \/ (b = c /\ i < j) => E[b][i] < E[c][j]
          /\ c < b \/ (c = b /\ j < i) => E[c][j] < E[b][i]
      BY <1>11, <2>1 DEF Batched
    <2> QED
      BY <1>3, <1>4, <2>2
  <1>12. CASE /\ b \in DOMAIN emitted /\ E[b] = emitted[b]
              /\ c > n /\ c - n \in DOMAIN C /\ E[c] = C[c - n]
    <2>1. E[b][i] # E[c][j]
      BY <1>5, <1>8, <1>9, <1>12
    <2>2. E[b][i] \notin urgent => E[b][i] < E[c][j]
      BY <1>8, <1>12 DEF StreamInv, WaitingIsYounger
    <2> QED
      BY <2>1, <2>2
  <1>13. CASE /\ c \in DOMAIN emitted /\ E[c] = emitted[c]
              /\ b > n /\ b - n \in DOMAIN C /\ E[b] = C[b - n]
    <2>1. E[b][i] # E[c][j]
      BY <1>6, <1>7, <1>9, <1>13
    <2>2. ~(b < c) /\ b # c
      BY <1>3, <1>13
    <2> QED
      BY <2>1, <2>2
  <1> QED
    BY <1>2, <1>10, <1>11, <1>12, <1>13

(* Batches of what waited go out, and nothing waits. *)
LEMMA BatchesGoOut ==
  ASSUME StreamInv, NEW C, Batched(C), emitted' = emitted \o C, pending' = <<>>,
         UNCHANGED <<history, accepted, urgent, cleared>>, recent' = recent, timer' \in BOOLEAN
  PROVE  StreamInv'
  <1> DEFINE n == Len(emitted)
  <1>1. emitted \in Seq(Seq(1..MaxActivities)) /\ C \in Seq(Seq(1..MaxActivities))
    BY DEF StreamInv, StreamTypeOK, Batched
  <1>2. /\ emitted' \in Seq(Seq(1..MaxActivities))
        /\ \A b \in DOMAIN emitted' :
              \/ b \in DOMAIN emitted /\ emitted'[b] = emitted[b]
              \/ b - n \in DOMAIN C /\ emitted'[b] = C[b - n]
        /\ \A b \in DOMAIN emitted : b \in DOMAIN emitted' /\ emitted'[b] = emitted[b]
        /\ \A b \in DOMAIN C : b + n \in DOMAIN emitted' /\ emitted'[b + n] = C[b]
    <2>1. emitted' \in Seq(Seq(1..MaxActivities)) /\ Joins(emitted', emitted, C)
      BY <1>1, Concatenated
    <2> QED
      BY <2>1 DEF Joins
  <1> HIDE DEF n
  <1>3. ASSUME NEW b \in DOMAIN emitted', NEW c \in DOMAIN emitted',
               NEW i \in DOMAIN emitted'[b], NEW j \in DOMAIN emitted'[c]
        PROVE  /\ emitted'[b][i] = emitted'[c][j] => b = c /\ i = j
               /\ (b < c \/ (b = c /\ i < j)) /\ {emitted'[b][i], emitted'[c][j]} \cap urgent' = {}
                  => emitted'[b][i] < emitted'[c][j]
    <2>1. OnceInOrder(emitted')
      BY BatchesBehind
    <2>2. {emitted'[b][i], emitted'[c][j]} \cap urgent' = {}
            => emitted'[b][i] \notin urgent /\ emitted'[c][j] \notin urgent
      OBVIOUS
    <2> QED
      BY <2>1, <2>2 DEF OnceInOrder
  <1>11. Sent' = Sent \cup ToSet(pending)
    <2>1. ASSUME NEW x \in Sent' PROVE x \in Sent \cup ToSet(pending)
      <3>1. PICK b \in DOMAIN emitted' : \E i \in DOMAIN emitted'[b] : x = emitted'[b][i]
        BY <2>1 DEF Sent, ToSet
      <3>2. CASE b \in DOMAIN emitted /\ emitted'[b] = emitted[b]
        BY <3>1, <3>2 DEF Sent, ToSet
      <3>3. CASE b - n \in DOMAIN C /\ emitted'[b] = C[b - n]
        BY <3>1, <3>3 DEF Batched, ToSet
      <3> QED
        BY <1>2, <3>2, <3>3
    <2>2. ASSUME NEW x \in Sent PROVE x \in Sent'
      <3>1. PICK b \in DOMAIN emitted : \E i \in DOMAIN emitted[b] : x = emitted[b][i]
        BY <2>2 DEF Sent, ToSet
      <3>2. x \in ToSet(emitted'[b]) /\ b \in DOMAIN emitted'
        BY <1>2, <3>1 DEF ToSet
      <3> QED
        BY <3>2 DEF Sent
    <2>3. ASSUME NEW x \in ToSet(pending) PROVE x \in Sent'
      <3>1. PICK m \in DOMAIN pending : x = pending[m]
        BY <2>3 DEF ToSet
      <3>2. PICK b \in DOMAIN C : \E i \in DOMAIN C[b] : C[b][i] = x
        BY <3>1 DEF Batched
      <3>3. x \in ToSet(emitted'[b + n]) /\ b + n \in DOMAIN emitted'
        BY <1>2, <3>2 DEF ToSet
      <3> QED
        BY <3>3 DEF Sent
    <2> QED
      BY <2>1, <2>2, <2>3
  <1>12. ToSet(pending') = {} /\ DOMAIN pending' = {} /\ pending' \in Seq(1..MaxActivities)
    BY DEF ToSet
  <1>13. EmittedOnce'
    BY <1>3, <1>11, <1>12 DEF StreamInv, EmittedOnce
  <1>14. BatchesKeepOrder'
    <2>1. SUFFICES ASSUME NEW b \in DOMAIN emitted', NEW c \in DOMAIN emitted',
                          NEW i \in DOMAIN emitted'[b], NEW j \in DOMAIN emitted'[c],
                          b < c \/ (b = c /\ i < j),
                          {emitted'[b][i], emitted'[c][j]} \cap urgent' = {}
                   PROVE  emitted'[b][i] < emitted'[c][j]
      BY DEF BatchesKeepOrder
    <2> QED
      BY <1>3, <2>1
  <1>15. StreamTypeOK' /\ WaitingIsYounger' /\ HistoryIsNewest'
    BY <1>2, <1>12 DEF StreamInv, StreamTypeOK, WaitingIsYounger, HistoryIsNewest
  <1> QED
    BY <1>13, <1>14, <1>15 DEF StreamInv

(* Nothing goes out, and what waits is the same. *)
LEMMA StreamRests ==
  ASSUME StreamInv, UNCHANGED <<pending, timer, history, emitted, accepted, urgent, cleared>>,
         recent' \subseteq HighFrequency
  PROVE  StreamInv'
  <1>1. Sent' = Sent
    BY DEF Sent, ToSet
  <1> QED
    BY <1>1 DEF StreamInv, StreamTypeOK, EmittedOnce, BatchesKeepOrder, WaitingIsYounger,
       HistoryIsNewest, ToSet

(* The history with one more activity, trimmed, is the newest activities. *)
LEMMA HistoryStep ==
  ASSUME StreamInv, accepted < MaxActivities, history' = Trimmed(Append(history, accepted + 1)),
         accepted' = accepted + 1
  PROVE  /\ history' \in Seq(1..MaxActivities) /\ Len(history') <= HistorySize
         /\ \A i \in DOMAIN history' : history'[i] = accepted' - Len(history') + i
  <1> DEFINE h == Append(history, accepted + 1)
  <1>1. /\ history \in Seq(1..MaxActivities) /\ accepted \in Nat /\ MaxActivities \in Nat
        /\ HistorySize \in Nat /\ accepted + 1 \in 1..MaxActivities /\ Len(history) <= HistorySize
        /\ \A i \in 1..Len(history) : history[i] = accepted - Len(history) + i
    BY StreamConstants DEF StreamInv, StreamTypeOK, HistoryIsNewest
  <1>2. /\ h \in Seq(1..MaxActivities) /\ Len(h) = Len(history) + 1 /\ Len(history) \in Nat
        /\ \A i \in 1..Len(history) : h[i] = history[i]
        /\ h[Len(history) + 1] = accepted + 1
    BY <1>1
  <1> HIDE DEF h
  <1>3. ASSUME NEW i \in 1..Len(h) PROVE h[i] = accepted + 1 - Len(h) + i
    <2>1. CASE i \in 1..Len(history)
      BY <1>1, <1>2, <2>1
    <2>2. CASE i = Len(history) + 1
      BY <1>1, <1>2, <2>2
    <2> QED
      BY <1>2, <2>1, <2>2
  <1>4. CASE Len(h) > HistorySize
    <2> DEFINE k == Len(h) - HistorySize
    <2>1. history' = SubSeq(h, k + 1, Len(h))
      BY <1>4 DEF Trimmed, h
    <2>0. k \in Nat /\ k <= Len(h)
      BY <1>1, <1>2, <1>4
    <2>2. /\ history' \in Seq(1..MaxActivities) /\ Len(history') = Len(h) - k
          /\ \A i \in 1..(Len(h) - k) : history'[i] = h[k + i]
      <3> HIDE DEF k
      <3> QED
        BY <1>2, <2>0, <2>1, EndOf
    <2>3. Len(history') = HistorySize /\ DOMAIN history' = 1..HistorySize
      BY <1>1, <1>2, <2>2
    <2>4. \A i \in 1..HistorySize : k + i \in 1..Len(h) /\ history'[i] = h[k + i]
      <3>1. HistorySize = Len(h) - k
        BY <1>1, <1>2
      <3> HIDE DEF k
      <3> QED
        BY <1>1, <1>2, <2>0, <2>2, <3>1
    <2>5. ASSUME NEW i \in 1..HistorySize PROVE history'[i] = accepted' - HistorySize + i
      <3>1. history'[i] = accepted + 1 - Len(h) + (k + i)
        BY <1>3, <2>4
      <3> QED
        BY <1>1, <1>2, <3>1
    <2>6. \A i \in DOMAIN history' : history'[i] = accepted' - Len(history') + i
      BY <2>3, <2>5
    <2> QED
      BY <1>1, <2>2, <2>3, <2>6
  <1>5. CASE ~(Len(h) > HistorySize)
    <2>1. history' = h
      BY <1>5 DEF Trimmed, h
    <2> QED
      BY <1>1, <1>2, <1>3, <1>5, <2>1
  <1> QED
    BY <1>4, <1>5

(* No activity has the number of the next one yet. *)
LEMMA NextIsNew ==
  ASSUME StreamInv
  PROVE  /\ accepted \in Nat
         /\ \A b \in DOMAIN emitted : \A i \in DOMAIN emitted[b] :
               emitted[b][i] \in Nat /\ emitted[b][i] <= accepted
         /\ \A i \in DOMAIN pending : pending[i] \in Nat /\ pending[i] <= accepted
         /\ \A x \in urgent \cup cleared : x <= accepted
         /\ \A x \in Sent \cup ToSet(pending) \cup cleared : x # accepted + 1
  <1>1. /\ accepted \in Nat /\ urgent \cup cleared \subseteq 1..accepted
        /\ Sent \cup ToSet(pending) \cup cleared = 1..accepted
    BY StreamConstants DEF StreamInv, StreamTypeOK, EmittedOnce
  <1>2. \A b \in DOMAIN emitted : \A i \in DOMAIN emitted[b] : emitted[b][i] \in 1..accepted
    BY <1>1 DEF Sent, ToSet
  <1>3. \A i \in DOMAIN pending : pending[i] \in 1..accepted
    BY <1>1 DEF ToSet
  <1>4. \A x \in 1..accepted : x \in Nat /\ x <= accepted /\ x # accepted + 1
    BY <1>1
  <1> QED
    BY <1>1, <1>2, <1>3, <1>4

(* An important activity goes out at once, before what waits. *)
LEMMA UrgentStep ==
  ASSUME StreamInv, NEW type \in HighPriority, StreamActivity(type)
  PROVE  EmittedOnce' /\ BatchesKeepOrder' /\ WaitingIsYounger'
         /\ emitted' \in Seq(Seq(1..MaxActivities))
  <1> DEFINE x == accepted + 1
             n == Len(emitted)
  <1>1. /\ emitted' = Append(emitted, <<x>>) /\ urgent' = urgent \cup {x}
        /\ UNCHANGED <<pending, cleared>> /\ accepted' = x /\ accepted < MaxActivities
    BY DEF StreamActivity
  <1>2. /\ emitted \in Seq(Seq(1..MaxActivities)) /\ MaxActivities \in Nat /\ accepted \in Nat
    BY StreamConstants DEF StreamInv, StreamTypeOK
  <1>3. x \in 1..MaxActivities /\ 1..x = 1..accepted \cup {x}
    BY <1>1, <1>2
  <1>4. <<x>> \in Seq(1..MaxActivities) /\ DOMAIN <<x>> = {1} /\ <<x>>[1] = x
    BY <1>3
  <1>5. /\ emitted' \in Seq(Seq(1..MaxActivities)) /\ n \in Nat
        /\ \A b \in DOMAIN emitted : b \in DOMAIN emitted' /\ emitted'[b] = emitted[b] /\ b < n + 1
        /\ n + 1 \in DOMAIN emitted' /\ emitted'[n + 1] = <<x>>
        /\ \A b \in DOMAIN emitted' : b \in DOMAIN emitted \/ b = n + 1
    BY <1>1, <1>2, <1>4
  <1>6. /\ \A b \in DOMAIN emitted : \A i \in DOMAIN emitted[b] : emitted[b][i] # x
        /\ \A i \in DOMAIN pending : pending[i] # x
        /\ x \notin cleared /\ x \notin ToSet(pending)
    BY NextIsNew DEF Sent, ToSet
  <1> HIDE DEF x, n
  <1>7. Sent' = Sent \cup {x}
    <2>1. ASSUME NEW y \in Sent' PROVE y \in Sent \cup {x}
      <3>1. PICK b \in DOMAIN emitted' : \E i \in DOMAIN emitted'[b] : y = emitted'[b][i]
        BY <2>1 DEF Sent, ToSet
      <3>2. CASE b = n + 1
        BY <1>4, <1>5, <3>1, <3>2
      <3>3. CASE b \in DOMAIN emitted
        <4>1. y \in ToSet(emitted[b])
          BY <1>5, <3>1, <3>3 DEF ToSet
        <4> QED
          BY <3>3, <4>1 DEF Sent
      <3> QED
        BY <1>5, <3>2, <3>3
    <2>2. ASSUME NEW y \in Sent PROVE y \in Sent'
      <3>1. PICK b \in DOMAIN emitted : \E i \in DOMAIN emitted[b] : y = emitted[b][i]
        BY <2>2 DEF Sent, ToSet
      <3>2. y \in ToSet(emitted'[b]) /\ b \in DOMAIN emitted'
        BY <1>5, <3>1 DEF ToSet
      <3> QED
        BY <3>2 DEF Sent
    <2>3. x \in Sent'
      <3>1. x \in ToSet(emitted'[n + 1])
        BY <1>4, <1>5 DEF ToSet
      <3> QED
        BY <1>5, <3>1 DEF Sent
    <2> QED
      BY <2>1, <2>2, <2>3
  <1>8. EmittedOnce'
    <2>1. ASSUME NEW b \in DOMAIN emitted', NEW c \in DOMAIN emitted',
                 NEW i \in DOMAIN emitted'[b], NEW j \in DOMAIN emitted'[c],
                 emitted'[b][i] = emitted'[c][j]
          PROVE  b = c /\ i = j
      <3>1. CASE b \in DOMAIN emitted /\ c \in DOMAIN emitted
        BY <1>5, <2>1, <3>1 DEF StreamInv, EmittedOnce
      <3>2. CASE b = n + 1 \/ c = n + 1
        BY <1>4, <1>5, <1>6, <2>1, <3>2
      <3> QED
        BY <1>5, <3>1, <3>2
    <2>2. /\ Sent' \cap (ToSet(pending') \cup cleared') = {}
          /\ Sent' \cup ToSet(pending') \cup cleared' = 1..accepted'
          /\ ToSet(pending') \cap cleared' = {}
      BY <1>1, <1>3, <1>6, <1>7 DEF StreamInv, EmittedOnce
    <2> QED
      BY <2>1, <2>2 DEF EmittedOnce
  <1>9. BatchesKeepOrder'
    <2>1. SUFFICES ASSUME NEW b \in DOMAIN emitted', NEW c \in DOMAIN emitted',
                          NEW i \in DOMAIN emitted'[b], NEW j \in DOMAIN emitted'[c],
                          b < c \/ (b = c /\ i < j),
                          {emitted'[b][i], emitted'[c][j]} \cap urgent' = {}
                   PROVE  emitted'[b][i] < emitted'[c][j]
      BY DEF BatchesKeepOrder
    <2>2. b # n + 1 /\ c # n + 1
      <3>1. emitted'[b][i] \notin urgent' /\ emitted'[c][j] \notin urgent'
        BY <2>1
      <3>2. ASSUME NEW m \in DOMAIN emitted'[n + 1] PROVE emitted'[n + 1][m] \in urgent'
        BY <1>1, <1>4, <1>5, <3>2
      <3>3. b # n + 1
        BY <3>1, <3>2
      <3>4. c # n + 1
        BY <3>1, <3>2
      <3> QED
        BY <3>3, <3>4
    <2>3. b \in DOMAIN emitted /\ c \in DOMAIN emitted /\ emitted'[b] = emitted[b] /\ emitted'[c] = emitted[c]
      BY <1>5, <2>2
    <2>4. {emitted[b][i], emitted[c][j]} \cap urgent = {}
      BY <1>1, <2>1, <2>3
    <2> QED
      BY <2>1, <2>3, <2>4 DEF StreamInv, BatchesKeepOrder
  <1>10. WaitingIsYounger'
    <2>1. ASSUME NEW k \in DOMAIN pending, NEW b \in DOMAIN emitted', NEW i \in DOMAIN emitted'[b],
                 emitted'[b][i] \notin urgent'
          PROVE  emitted'[b][i] < pending[k]
      <3>1. b # n + 1
        BY <1>1, <1>4, <1>5, <2>1
      <3>2. b \in DOMAIN emitted /\ emitted'[b] = emitted[b]
        BY <1>5, <3>1
      <3> QED
        BY <1>1, <2>1, <3>2 DEF StreamInv, WaitingIsYounger
    <2>2. \A k \in DOMAIN pending : pending[k] \notin urgent'
      BY <1>1, <1>6 DEF StreamInv, WaitingIsYounger
    <2> QED
      BY <1>1, <2>1, <2>2 DEF StreamInv, WaitingIsYounger
  <1> QED
    BY <1>5, <1>8, <1>9, <1>10

(* Any other activity waits behind the ones that wait. *)
LEMMA WaitStep ==
  ASSUME StreamInv, NEW type, type \notin HighPriority, StreamActivity(type)
  PROVE  EmittedOnce' /\ BatchesKeepOrder' /\ WaitingIsYounger'
         /\ pending' \in Seq(1..MaxActivities)
  <1> DEFINE x == accepted + 1
             n == Len(pending)
  <1>1. /\ pending' = Append(pending, x)
        /\ UNCHANGED <<emitted, urgent, cleared>> /\ accepted' = x /\ accepted < MaxActivities
    BY DEF StreamActivity
  <1>2. /\ pending \in Seq(1..MaxActivities) /\ MaxActivities \in Nat /\ accepted \in Nat
    BY StreamConstants DEF StreamInv, StreamTypeOK
  <1>3. x \in 1..MaxActivities /\ 1..x = 1..accepted \cup {x} /\ x \in Nat
    BY <1>1, <1>2
  <1>4. /\ pending' \in Seq(1..MaxActivities) /\ n \in Nat
        /\ \A b \in DOMAIN pending : b \in DOMAIN pending' /\ pending'[b] = pending[b] /\ b < n + 1
        /\ n + 1 \in DOMAIN pending' /\ pending'[n + 1] = x
        /\ \A b \in DOMAIN pending' : b \in Nat /\ (b \in DOMAIN pending \/ b = n + 1)
    BY <1>1, <1>2, <1>3
  <1>5. /\ \A b \in DOMAIN emitted : \A i \in DOMAIN emitted[b] : emitted[b][i] < x
        /\ \A i \in DOMAIN pending : pending[i] < x
        /\ x \notin cleared /\ x \notin Sent /\ x \notin urgent
    BY NextIsNew
  <1>6. Sent' = Sent
    BY <1>1 DEF Sent, ToSet
  <1> HIDE DEF x, n
  <1>7. ToSet(pending') = ToSet(pending) \cup {x}
    BY <1>4 DEF ToSet
  <1>8. EmittedOnce'
    BY <1>1, <1>3, <1>5, <1>6, <1>7 DEF StreamInv, EmittedOnce
  <1>9. BatchesKeepOrder'
    BY <1>1 DEF StreamInv, BatchesKeepOrder
  <1>10. WaitingIsYounger'
    <2>1. ASSUME NEW i \in DOMAIN pending', NEW j \in DOMAIN pending', i < j
          PROVE  pending'[i] < pending'[j]
      <3>1. CASE j \in DOMAIN pending
        <4>1. i \in DOMAIN pending
          BY <1>4, <2>1, <3>1
        <4> QED
          BY <1>4, <2>1, <3>1, <4>1 DEF StreamInv, WaitingIsYounger
      <3>2. CASE j = n + 1
        BY <1>4, <1>5, <2>1, <3>2
      <3> QED
        BY <1>4, <3>1, <3>2
    <2>2. ASSUME NEW k \in DOMAIN pending'
          PROVE  /\ pending'[k] \notin urgent'
                 /\ \A b \in DOMAIN emitted' : \A i \in DOMAIN emitted'[b] :
                      emitted'[b][i] \notin urgent' => emitted'[b][i] < pending'[k]
      <3>1. CASE k \in DOMAIN pending
        BY <1>1, <1>4, <3>1 DEF StreamInv, WaitingIsYounger
      <3>2. CASE k = n + 1
        BY <1>1, <1>4, <1>5, <3>2
      <3> QED
        BY <1>4, <3>1, <3>2
    <2> QED
      BY <2>1, <2>2 DEF WaitingIsYounger
  <1> QED
    BY <1>4, <1>8, <1>9, <1>10

(* stream(): throttled kinds aside, the activity is kept and goes its way. *)
LEMMA StreamActivityStep ==
  ASSUME StreamInv, NEW type, StreamActivity(type)
  PROVE  StreamInv'
  <1>1. EmittedOnce' /\ BatchesKeepOrder' /\ WaitingIsYounger'
    BY UrgentStep, WaitStep
  <1>2. pending' \in Seq(1..MaxActivities) /\ emitted' \in Seq(Seq(1..MaxActivities))
    BY UrgentStep, WaitStep DEF StreamActivity, StreamInv, StreamTypeOK
  <1>3. accepted < MaxActivities /\ accepted' = accepted + 1 /\ accepted \in 0..MaxActivities
        /\ MaxActivities \in Nat
    BY StreamConstants DEF StreamActivity, StreamInv, StreamTypeOK
  <1>4. history' = Trimmed(Append(history, accepted + 1))
    BY DEF StreamActivity
  <1>5. /\ history' \in Seq(1..MaxActivities) /\ Len(history') <= HistorySize
        /\ \A i \in DOMAIN history' : history'[i] = accepted' - Len(history') + i
    BY <1>3, <1>4, HistoryStep
  <1>6. timer' \in BOOLEAN /\ (pending' # <<>> => timer')
    BY DEF StreamActivity, StreamInv, StreamTypeOK, HistoryIsNewest
  <1>7. recent' \subseteq HighFrequency
    BY DEF StreamActivity, StreamInv, StreamTypeOK
  <1>8. urgent' \cup cleared' \subseteq 1..accepted' /\ accepted' \in 0..MaxActivities
    <2>1. urgent \cup cleared \subseteq 1..accepted
      BY DEF StreamInv, StreamTypeOK
    <2>2. 1..accepted \subseteq 1..(accepted + 1) /\ accepted + 1 \in 1..(accepted + 1)
      BY <1>3
    <2>3. urgent' \cup cleared' \subseteq urgent \cup cleared \cup {accepted + 1}
      BY DEF StreamActivity
    <2> QED
      BY <1>3, <2>1, <2>2, <2>3
  <1> QED
    BY <1>1, <1>2, <1>5, <1>6, <1>7, <1>8 DEF StreamInv, StreamTypeOK, HistoryIsNewest

(* clearHistory drops what waits and the timer with it. *)
LEMMA ClearHistoryStep ==
  ASSUME StreamInv, ClearHistory
  PROVE  StreamInv'
  <1>1. /\ history' = <<>> /\ pending' = <<>> /\ timer' = FALSE
        /\ cleared' = cleared \cup ToSet(pending) /\ UNCHANGED <<emitted, recent, accepted, urgent>>
    BY DEF ClearHistory
  <1>2. Sent' = Sent /\ ToSet(pending') = {} /\ DOMAIN pending' = {} /\ DOMAIN history' = {}
    BY <1>1 DEF Sent, ToSet
  <1>3. EmittedOnce'
    BY <1>1, <1>2 DEF StreamInv, EmittedOnce
  <1>4. ToSet(pending) \subseteq 1..accepted
    BY DEF StreamInv, EmittedOnce
  <1>5. StreamTypeOK'
    <2>1. history' \in Seq(1..MaxActivities) /\ pending' \in Seq(1..MaxActivities) /\ Len(history') <= HistorySize
      BY <1>1, StreamConstants
    <2> QED
      BY <1>1, <1>4, <2>1 DEF StreamInv, StreamTypeOK
  <1> QED
    BY <1>1, <1>2, <1>3, <1>5 DEF StreamInv, BatchesKeepOrder, WaitingIsYounger, HistoryIsNewest

(* However flush(), the batch timer, important activities and clearHistory
   interleave, every accepted activity goes out once or waits for a timer that is
   set, those that wait go out in the order they were made, and the history is the
   newest activities without a gap. *)
THEOREM StreamIsSound == StreamSpec => []StreamInv
  <1>1. ASSUME StreamInit PROVE StreamInv
    <2>1. Sent = {} /\ ToSet(pending) = {} /\ 1..0 = {}
      BY <1>1 DEF StreamInit, Sent, ToSet
    <2>2. StreamTypeOK
      <3>1. /\ <<>> \in Seq(1..MaxActivities) /\ Len(<<>>) <= HistorySize
            /\ <<>> \in Seq(Seq(1..MaxActivities)) /\ 0 \in 0..MaxActivities
        BY StreamConstants
      <3> QED
        BY <1>1, <3>1 DEF StreamInit, StreamTypeOK
    <2>3. DOMAIN pending = {} /\ DOMAIN emitted = {} /\ DOMAIN history = {}
      BY <1>1 DEF StreamInit
    <2> QED
      BY <1>1, <2>1, <2>2, <2>3 DEF StreamInit, StreamInv, EmittedOnce, BatchesKeepOrder,
         WaitingIsYounger, HistoryIsNewest
  <1>2. ASSUME StreamInv, [StreamNext]_streamVars PROVE StreamInv'
    <2>1. CASE UNCHANGED streamVars
      BY <1>2, <2>1, StreamRests DEF streamVars, StreamInv, StreamTypeOK
    <2>2. ASSUME NEW type, StreamActivity(type) PROVE StreamInv'
      BY <1>2, <2>2, StreamActivityStep
    <2>3. ASSUME NEW type, IntervalOver(type) PROVE StreamInv'
      BY <1>2, <2>3, StreamRests DEF IntervalOver, StreamInv, StreamTypeOK
    <2>4. CASE BatchTimer
      BY <1>2, <2>4, ChunkedIsBatched, BatchesGoOut DEF BatchTimer
    <2>5. CASE FlushStream
      <3>1. timer' \in BOOLEAN
        BY <1>2, <2>5 DEF FlushStream, StreamInv, StreamTypeOK
      <3> QED
        BY <1>2, <2>5, <3>1, FlushIsBatched, BatchesGoOut DEF FlushStream, Emptied
    <2>6. CASE ClearHistory
      BY <1>2, <2>6, ClearHistoryStep
    <2> QED
      BY <1>2, <2>1, <2>2, <2>3, <2>4, <2>5, <2>6 DEF StreamNext
  <1> QED
    BY <1>1, <1>2, PTL DEF StreamSpec

-----------------------------------------------------------------------------
(* The findings and their records. *)

(* What happens to records once they exist. *)
Delivered == BufferedFirst /\ SentWasReceived /\ BufferedIsKept /\ TakenOnce

(* The steps that touch no record. *)
LEMMA DeliveryRests ==
  ASSUME SpyInv, UNCHANGED <<records, buffered, buffer, flights, received, doubted, spyCrashes>>
  PROVE  Delivered'
  BY DEF SpyInv, Delivered, BufferedFirst, SentWasReceived, BufferedIsKept, TakenOnce, OnTheWay,
     TraceRecords, ToSet

(* The pushes rest. *)
LEMMA PushesRest ==
  ASSUME SpyInv, UNCHANGED <<pushes, records, buffered>>
  PROVE  PushHasItsRecord'
  BY DEF SpyInv, PushHasItsRecord, TraceRecords

(* The pushes rest, and the spy at most forgets findings. *)
LEMMA FindingsRest ==
  ASSUME SpyInv, UNCHANGED <<made, pushes, records>>, found' \subseteq found
  PROVE  FindingInOneRecord'
  <1>1. \A p, i : Ahead(p, i)' <=> Ahead(p, i)
    BY DEF Ahead
  <1> QED
    BY <1>1 DEF SpyInv, FindingInOneRecord, FindingNumbers, TraceRecords

(* The findings are finitely many. *)
LEMMA FindingsFinite ==
  ASSUME SpyTypeOK
  PROVE  /\ IsFiniteSet(found) /\ MaxFindings \in Nat /\ found \subseteq 1..MaxFindings
         /\ \A T \in SUBSET found : IsFiniteSet(T) /\ Cardinality(T) \in 0..MaxFindings
  <1>1. MaxFindings \in Nat
    BY SecurityTraceConstants
  <1>2. found \subseteq 1..MaxFindings
    <2>1. DOMAIN made = 1..Len(made) /\ Len(made) \in Nat
      BY DEF SpyTypeOK
    <2>2. 1..Len(made) \subseteq 1..MaxFindings
      BY <1>1, <2>1 DEF SpyTypeOK
    <2> QED
      BY <2>1, <2>2 DEF SpyTypeOK, FindingNumbers
  <1>3. IsFiniteSet(1..MaxFindings) /\ Cardinality(1..MaxFindings) = MaxFindings
    BY <1>1, FS_Interval
  <1>4. ASSUME NEW T \in SUBSET found PROVE IsFiniteSet(T) /\ Cardinality(T) \in 0..MaxFindings
    <2>1. IsFiniteSet(T) /\ Cardinality(T) <= MaxFindings
      BY <1>2, <1>3, FS_Subset
    <2> QED
      BY <1>1, <2>1, FS_CardinalityType
  <1> QED
    BY <1>1, <1>2, <1>4

(* A finding is stored: its number is new. *)
LEMMA FindingStep ==
  ASSUME SpyInv, NEW session \in SpySessions, NEW severity \in Severities,
         StoreFinding(session, severity), UNCHANGED NotSpy,
         scan' \in {"idle", "running", "ok", "failed"}
  PROVE  SpyInv'
  <1> DEFINE n == Len(made) + 1
             new == [session |-> session, severity |-> severity]
  <1>1. /\ made' = Append(made, new) /\ found' = found \cup {n} /\ Len(made) < MaxFindings
        /\ counts' = [counts EXCEPT ![severity] = @ + 1]
    BY DEF StoreFinding
  <1>2. new \in Findings /\ new.severity = severity /\ MaxFindings \in Nat
    BY SecurityTraceConstants DEF Findings
  <1>3. UNCHANGED <<pushes, records, buffer, flights, received, buffered, doubted, enabled, spyCrashes>>
    BY DEF NotSpy
  <1> HIDE DEF new
  <1>4. made \in Seq(Findings) /\ found \subseteq DOMAIN made /\ counts \in [Severities -> 0..MaxFindings]
    BY DEF SpyInv, SpyTypeOK, FindingNumbers
  <1>5. /\ made' \in Seq(Findings) /\ DOMAIN made' = DOMAIN made \cup {n} /\ n \notin DOMAIN made
        /\ \A f \in DOMAIN made : made'[f] = made[f]
        /\ made'[n] = new /\ Len(made') <= MaxFindings
    BY <1>1, <1>2, <1>4
  <1> HIDE DEF n
  <1>6. \A s \in Severities : counts[s] = Cardinality({f \in found : made[f].severity = s})
    BY DEF SpyInv, MetricsAgree
  <1>7. MetricsAgree' /\ counts' \in [Severities -> 0..MaxFindings]
    <2>1. ASSUME NEW s \in Severities
          PROVE  /\ counts'[s] = Cardinality({f \in found' : made'[f].severity = s})
                 /\ counts'[s] \in Nat
      <3> DEFINE old == {f \in found : made[f].severity = s}
      <3>1. IsFiniteSet(old) /\ Cardinality(old) \in Nat /\ n \notin old
        BY <1>4, <1>5, FindingsFinite DEF SpyInv
      <3>0. counts[s] = Cardinality(old)
        BY <1>6
      <3>2. CASE s = severity
        <4>1. {f \in found' : made'[f].severity = s} = old \cup {n}
          BY <1>1, <1>2, <1>4, <1>5, <3>2
        <4>2. Cardinality(old \cup {n}) = Cardinality(old) + 1
          BY <3>1, FS_AddElement
        <4>3. counts'[s] = counts[s] + 1
          BY <1>1, <1>4, <3>2
        <4>4. Cardinality({f \in found' : made'[f].severity = s}) = Cardinality(old) + 1
          BY <4>1, <4>2
        <4> HIDE DEF old
        <4>5. counts'[s] = Cardinality(old) + 1 /\ Cardinality(old) + 1 \in Nat
          BY <3>0, <3>1, <4>3
        <4> QED
          BY <4>4, <4>5
      <3>3. CASE s # severity
        <4>1. {f \in found' : made'[f].severity = s} = old
          BY <1>1, <1>2, <1>4, <1>5, <3>3
        <4>2. counts'[s] = counts[s]
          BY <1>1, <1>4, <3>3
        <4> QED
          BY <3>0, <3>1, <4>1, <4>2
      <3> QED
        BY <3>2, <3>3
    <2>2. found' \subseteq DOMAIN made'
      BY <1>1, <1>4, <1>5
    <2>3. IsFiniteSet(found') /\ found' \subseteq 1..MaxFindings
      <3>1. n \in 1..MaxFindings
        BY <1>1, <1>2, <1>4 DEF n
      <3>2. IsFiniteSet(found) /\ found \subseteq 1..MaxFindings
        BY FindingsFinite DEF SpyInv
      <3> QED
        BY <1>1, <3>1, <3>2, FS_AddElement
    <2>4. ASSUME NEW s \in Severities PROVE counts'[s] \in 0..MaxFindings
      <3> DEFINE T == {f \in found' : made'[f].severity = s}
      <3>1. T \in SUBSET (1..MaxFindings)
        BY <2>3
      <3>2. Cardinality(T) <= Cardinality(1..MaxFindings) /\ Cardinality(1..MaxFindings) = MaxFindings
        BY <1>2, <3>1, FS_Interval, FS_Subset
      <3>3. counts'[s] = Cardinality(T) /\ counts'[s] \in Nat
        BY <2>1
      <3> HIDE DEF T
      <3> QED
        BY <1>2, <3>2, <3>3
    <2>5. DOMAIN counts' = Severities /\ counts' = [s \in Severities |-> counts'[s]]
      BY <1>1, <1>4
    <2> QED
      BY <2>1, <2>4, <2>5 DEF MetricsAgree
  <1>8. SpyTypeOK'
    BY <1>1, <1>3, <1>4, <1>5, <1>7 DEF SpyInv, SpyTypeOK, FindingNumbers
  <1>9. FindingInOneRecord'
    BY <1>1, <1>3, <1>4, <1>5 DEF SpyInv, FindingInOneRecord, FindingNumbers, TraceRecords, Ahead
  <1>10. PushHasItsRecord' /\ Delivered'
    BY <1>3, PushesRest, DeliveryRests
  <1> QED
    BY <1>7, <1>8, <1>9, <1>10 DEF SpyInv, Delivered

(* The scan goes on and nothing else does. *)
LEMMA ScanOnly ==
  ASSUME SpyInv, UNCHANGED <<found, counts, made, NotSpy>>,
         scan' \in {"idle", "running", "ok", "failed"}
  PROVE  SpyInv'
  <1>1. UNCHANGED <<pushes, records, buffer, flights, received, buffered, doubted, enabled, spyCrashes>>
    BY DEF NotSpy
  <1>2. PushHasItsRecord' /\ Delivered'
    BY <1>1, PushesRest, DeliveryRests
  <1>3. FindingInOneRecord'
    BY <1>1, FindingsRest
  <1>4. SpyTypeOK' /\ MetricsAgree'
    BY <1>1 DEF SpyInv, SpyTypeOK, MetricsAgree, FindingNumbers
  <1> QED
    BY <1>2, <1>3, <1>4 DEF SpyInv, Delivered

(* The groups of a push are apart, and all of them findings of the spy. *)
LEMMA GroupsAreApart ==
  ASSUME SpyTypeOK
  PROVE  /\ Groups(found) \in Seq(SUBSET (1..MaxFindings))
         /\ \A i \in DOMAIN Groups(found) : Groups(found)[i] \subseteq found
         /\ \A i, j \in DOMAIN Groups(found) :
               i # j => Groups(found)[i] \cap Groups(found)[j] = {}
  <1> DEFINE of(s) == {f \in found : made[f].session = s /\ made[f].severity \in Reported}
             S == {of(s) : s \in SpySessions} \ {{}}
             g == Groups(found)
  <1>1. S \subseteq SUBSET found
    OBVIOUS
  <1>2. IsFiniteSet(S)
    <2>1. IsFiniteSet(SUBSET found)
      BY FindingsFinite, FS_SUBSET
    <2> QED
      BY <1>1, <2>1, FS_Subset
  <1>3. g = SetToSeq(S)
    BY DEF Groups
  <1>4. \A a, b \in S : a # b => a \cap b = {}
    OBVIOUS
  <1> HIDE DEF S, g
  <1>5. g \in Seq(S) /\ \A i, j \in DOMAIN g : g[i] = g[j] => i = j
    BY <1>2, <1>3, ListOf
  <1>6. \A i \in DOMAIN g : g[i] \in S
    BY <1>5
  <1>7. \A i \in DOMAIN g : g[i] \subseteq found /\ g[i] \in SUBSET (1..MaxFindings)
    BY <1>1, <1>6, FindingsFinite
  <1>8. g \in Seq(SUBSET (1..MaxFindings))
    <2>1. Len(g) \in Nat /\ DOMAIN g = 1..Len(g) /\ g = [i \in 1..Len(g) |-> g[i]]
      BY <1>5
    <2> QED
      BY <1>7, <2>1
  <1>9. \A i, j \in DOMAIN g : i # j => g[i] \cap g[j] = {}
    BY <1>4, <1>5, <1>6
  <1> QED
    BY <1>7, <1>8, <1>9 DEF g

(* A push takes over findings of the spy. *)
LEMMA PushStarts ==
  ASSUME SpyInv, NEW new \in Pushes, new.step = "create", new.groups # <<>>,
         \A i \in DOMAIN new.groups : new.groups[i] \subseteq found,
         \A i, j \in DOMAIN new.groups : i # j => new.groups[i] \cap new.groups[j] = {},
         pushes' = Append(pushes, new), found' = {}, UNCHANGED <<made, records, buffered>>
  PROVE  pushes' \in Seq(Pushes) /\ FindingInOneRecord' /\ PushHasItsRecord'
  <1> DEFINE n == Len(pushes) + 1
  <1>1. pushes \in Seq(Pushes)
    BY DEF SpyInv, SpyTypeOK
  <1>2. /\ pushes' \in Seq(Pushes) /\ DOMAIN pushes' = DOMAIN pushes \cup {n} /\ n \notin DOMAIN pushes
        /\ pushes'[n] = new /\ \A p \in DOMAIN pushes : pushes'[p] = pushes[p]
    BY <1>1
  <1> HIDE DEF n
  <1>3. /\ \A r \in TraceRecords : records[r].findings \cap found = {}
        /\ \A p \in DOMAIN pushes : \A i \in DOMAIN pushes[p].groups :
              pushes[p].groups[i] \cap found = {}
    BY DEF SpyInv, FindingInOneRecord
  <1>4. FindingInOneRecord'
    <2>1. /\ \A r, q \in TraceRecords' : r # q => records'[r].findings \cap records'[q].findings = {}
          /\ \A r \in TraceRecords' : records'[r].findings \subseteq FindingNumbers' \ found'
      BY DEF SpyInv, FindingInOneRecord, TraceRecords, FindingNumbers
    <2>2. ASSUME NEW p \in DOMAIN pushes', NEW i \in DOMAIN pushes'[p].groups
          PROVE  /\ pushes'[p].groups[i] \subseteq FindingNumbers' \ found'
                 /\ Ahead(p, i)' => \A r \in TraceRecords' :
                      pushes'[p].groups[i] \cap records'[r].findings = {}
      <3>1. CASE p = n
        BY <1>2, <1>3, <3>1 DEF SpyInv, SpyTypeOK, TraceRecords, FindingNumbers
      <3>2. CASE p # n
        BY <1>2, <3>2 DEF SpyInv, FindingInOneRecord, TraceRecords, FindingNumbers, Ahead
      <3> QED
        BY <3>1, <3>2
    <2>3. ASSUME NEW p \in DOMAIN pushes', NEW i \in DOMAIN pushes'[p].groups,
                 NEW q \in DOMAIN pushes', NEW j \in DOMAIN pushes'[q].groups, p # q \/ i # j
          PROVE  pushes'[p].groups[i] \cap pushes'[q].groups[j] = {}
      <3>1. CASE p = n /\ q = n
        BY <1>2, <2>3, <3>1
      <3>2. CASE p = n /\ q # n
        BY <1>2, <1>3, <3>2
      <3>3. CASE p # n /\ q = n
        BY <1>2, <1>3, <3>3
      <3>4. CASE p # n /\ q # n
        BY <1>2, <2>3, <3>4 DEF SpyInv, FindingInOneRecord
      <3> QED
        BY <3>1, <3>2, <3>3, <3>4
    <2> QED
      BY <2>1, <2>2, <2>3 DEF FindingInOneRecord
  <1>5. PushHasItsRecord'
    BY <1>2 DEF SpyInv, PushHasItsRecord, TraceRecords
  <1> QED
    BY <1>2, <1>4, <1>5

(* The execution ends: its findings go into the groups of a push, and the spy
   forgets them. *)
LEMMA EndTaskStep ==
  ASSUME SpyInv, EndTask
  PROVE  SpyInv'
  <1> DEFINE g == Groups(found)
             new == [groups |-> g, step |-> "create", record |-> 0, flight |-> 0]
  <1>1. /\ found' = {} /\ counts' = [s \in Severities |-> 0] /\ scan' = "idle"
        /\ UNCHANGED <<made, records, buffer, flights, received, buffered, doubted, enabled, spyCrashes>>
    BY DEF EndTask, ClearFindings
  <1>2. /\ g \in Seq(SUBSET (1..MaxFindings))
        /\ \A i \in DOMAIN g : g[i] \subseteq found
        /\ \A i, j \in DOMAIN g : i # j => g[i] \cap g[j] = {}
    BY GroupsAreApart DEF SpyInv
  <1>3. pushes' = pushes \/ (g # <<>> /\ pushes' = Append(pushes, new))
    BY DEF EndTask
  <1> HIDE DEF g
  <1>4. new \in Pushes /\ new.groups = g /\ new.step = "create"
    BY <1>2 DEF Pushes
  <1> HIDE DEF new
  <1>5. pushes' \in Seq(Pushes) /\ FindingInOneRecord' /\ PushHasItsRecord'
    <2>1. CASE g # <<>> /\ pushes' = Append(pushes, new)
      BY <1>1, <1>2, <1>4, <2>1, PushStarts
    <2>2. CASE pushes' = pushes
      BY <1>1, <2>2, PushesRest, FindingsRest DEF SpyInv, SpyTypeOK
    <2> QED
      BY <1>3, <2>1, <2>2
  <1>6. MetricsAgree'
    <2>1. \A s \in Severities : {f \in found' : made'[f].severity = s} = {}
      BY <1>1
    <2> QED
      BY <1>1, <2>1, FS_EmptySet DEF MetricsAgree
  <1>7. SpyTypeOK'
    <2>1. 0 \in 0..MaxFindings
      BY SecurityTraceConstants
    <2> QED
      BY <1>1, <1>5, <2>1 DEF SpyInv, SpyTypeOK, FindingNumbers
  <1>8. Delivered'
    BY <1>1, DeliveryRests
  <1> QED
    BY <1>5, <1>6, <1>7, <1>8 DEF SpyInv, Delivered

(* A push whose step and record change, but not its groups. *)
LEMMA PushAt ==
  ASSUME SpyInv, NEW p \in DOMAIN pushes, NEW new \in Pushes, pushes' = [pushes EXCEPT ![p] = new]
  PROVE  /\ pushes' \in Seq(Pushes) /\ DOMAIN pushes' = DOMAIN pushes /\ pushes'[p] = new
         /\ \A q \in DOMAIN pushes : q # p => pushes'[q] = pushes[q]
  BY DEF SpyInv, SpyTypeOK

(* The record of a push's first group: its findings are in no other. *)
LEMMA CreateRecordStep ==
  ASSUME SpyInv, NEW p \in DOMAIN pushes, NEW persisted \in BOOLEAN, CreateRecord(p, persisted)
  PROVE  SpyInv'
  <1> DEFINE n == Len(records) + 1
             row == TrainingRow(Head(pushes[p].groups), persisted)
             new == [pushes[p] EXCEPT !.step = "buffer", !.record = n]
             g == pushes[p].groups
  <1>1. /\ pushes[p].step = "create" /\ records' = Append(records, row) /\ received' = Append(received, 0)
        /\ UNCHANGED <<found, counts, made, scan, buffer, flights, buffered, doubted, enabled, spyCrashes>>
    BY DEF CreateRecord
  <1>2. /\ pushes \in Seq(Pushes) /\ records \in Seq(TrainingRows) /\ received \in Seq(Nat)
        /\ Len(received) = Len(records)
    BY DEF SpyInv, SpyTypeOK
  <1>3. pushes[p] \in Pushes /\ n \in Nat
    BY <1>2
  <1>4. g \in Seq(SUBSET (1..MaxFindings)) /\ g # <<>>
    BY <1>1, <1>3 DEF Pushes, SpyInv, PushHasItsRecord
  <1>5. 1 \in DOMAIN g /\ Head(g) = g[1] /\ g[1] \in SUBSET (1..MaxFindings)
    BY <1>4
  <1>6. row \in TrainingRows /\ row.findings = g[1] /\ row.row # "sent"
    BY <1>5 DEF TrainingRow, TrainingRows
  <1>7. /\ new \in Pushes /\ new.groups = g /\ new.step = "buffer" /\ new.record = n
        /\ pushes' = [pushes EXCEPT ![p] = new]
    BY <1>1, <1>3 DEF Pushes, CreateRecord
  <1>8. /\ records' \in Seq(TrainingRows) /\ TraceRecords' = TraceRecords \cup {n} /\ n \notin TraceRecords
        /\ records'[n] = row /\ \A r \in TraceRecords : records'[r] = records[r]
    BY <1>1, <1>2, <1>6 DEF TraceRecords
  <1>9. /\ received' \in Seq(Nat) /\ Len(received') = Len(records') /\ received'[n] = 0
        /\ \A r \in TraceRecords : received'[r] = received[r]
    BY <1>1, <1>2 DEF TraceRecords
  <1> HIDE DEF n, row, new
  <1>10. /\ pushes' \in Seq(Pushes) /\ DOMAIN pushes' = DOMAIN pushes /\ pushes'[p] = new
         /\ \A q \in DOMAIN pushes : q # p => pushes'[q] = pushes[q]
    BY <1>7, PushAt
  <1>11. \A q \in DOMAIN pushes : pushes'[q].groups = pushes[q].groups
    BY <1>7, <1>10
  <1> HIDE DEF g
  <1>12. \A r \in TraceRecords : g[1] \cap records[r].findings = {}
    BY <1>1, <1>5 DEF SpyInv, FindingInOneRecord, Ahead, g
  <1>13. FindingInOneRecord'
    <2>1. \A r, q \in TraceRecords' : r # q => records'[r].findings \cap records'[q].findings = {}
      BY <1>6, <1>8, <1>12 DEF SpyInv, FindingInOneRecord
    <2>2. \A r \in TraceRecords' : records'[r].findings \subseteq FindingNumbers' \ found'
      <3>1. g[1] \subseteq FindingNumbers \ found
        BY <1>5 DEF SpyInv, FindingInOneRecord, g
      <3> QED
        BY <1>1, <1>6, <1>8, <3>1 DEF SpyInv, FindingInOneRecord, FindingNumbers
    <2>3. ASSUME NEW q \in DOMAIN pushes', NEW i \in DOMAIN pushes'[q].groups, Ahead(q, i)',
                 NEW r \in TraceRecords'
          PROVE  pushes'[q].groups[i] \cap records'[r].findings = {}
      <3>1. q \in DOMAIN pushes /\ i \in DOMAIN pushes[q].groups /\ pushes'[q].groups[i] = pushes[q].groups[i]
        BY <1>10, <1>11
      <3>2. Ahead(q, i) /\ (q = p => i # 1)
        <4>1. CASE q = p
          BY <1>1, <1>7, <1>10, <2>3, <3>1, <4>1 DEF Ahead
        <4>2. CASE q # p
          BY <1>10, <2>3, <3>1, <4>2 DEF Ahead
        <4> QED
          BY <4>1, <4>2
      <3>3. CASE r = n
        BY <1>5, <1>6, <1>8, <3>1, <3>2, <3>3 DEF SpyInv, FindingInOneRecord, g
      <3>4. CASE r # n
        BY <1>8, <3>1, <3>2, <3>4 DEF SpyInv, FindingInOneRecord
      <3> QED
        BY <3>3, <3>4
    <2>4. \A q \in DOMAIN pushes' : \A i \in DOMAIN pushes'[q].groups :
             pushes'[q].groups[i] \subseteq FindingNumbers' \ found'
      BY <1>1, <1>10, <1>11 DEF SpyInv, FindingInOneRecord, FindingNumbers
    <2>5. \A q, o \in DOMAIN pushes' : \A i \in DOMAIN pushes'[q].groups, j \in DOMAIN pushes'[o].groups :
             q # o \/ i # j => pushes'[q].groups[i] \cap pushes'[o].groups[j] = {}
      BY <1>10, <1>11 DEF SpyInv, FindingInOneRecord
    <2> QED
      BY <2>1, <2>2, <2>3, <2>4, <2>5 DEF FindingInOneRecord
  <1>14. PushHasItsRecord'
    <2>1. \A q \in DOMAIN pushes : pushes[q].step = "buffer" => pushes[q].record \in TraceRecords \ buffered
      BY DEF SpyInv, PushHasItsRecord
    <2>2. n \notin buffered
      BY <1>8 DEF SpyInv, BufferedFirst
    <2>3. \A q \in DOMAIN pushes' : pushes'[q].step \in {"create", "buffer"} => pushes'[q].groups # <<>>
      BY <1>4, <1>7, <1>10 DEF SpyInv, PushHasItsRecord
    <2> QED
      BY <1>1, <1>7, <1>8, <1>10, <2>1, <2>2, <2>3 DEF SpyInv, PushHasItsRecord
  <1>15. Delivered'
    <2>1. BufferedFirst'
      <3>1. ~(0 > 0)
        OBVIOUS
      <3>2. \A r \in TraceRecords' : received'[r] > 0 => r \in buffered
        BY <1>8, <1>9, <3>1 DEF SpyInv, BufferedFirst
      <3> QED
        BY <1>1, <1>8, <3>2 DEF SpyInv, BufferedFirst
    <2>2. SentWasReceived'
      BY <1>1, <1>6, <1>8, <1>9 DEF SpyInv, SentWasReceived, BufferedFirst
    <2>3. BufferedIsKept'
      BY <1>1, <1>8, <1>9 DEF SpyInv, BufferedIsKept, BufferedFirst, OnTheWay
    <2>4. TakenOnce'
      <3>1. n \notin ToSet(buffer) /\ \A f \in DOMAIN flights : ~OnTheWay(n, f)
        BY <1>8 DEF SpyInv, BufferedFirst, OnTheWay
      <3>2. \A r \in TraceRecords' \ doubted : r # n => r \in TraceRecords \ doubted /\ received'[r] = received[r]
        BY <1>8, <1>9
      <3>3. \A r : \A f \in DOMAIN flights : OnTheWay(r, f)' <=> OnTheWay(r, f)
        BY <1>1 DEF OnTheWay
      <3>4. received'[n] <= 1
        BY <1>9
      <3>5. ASSUME NEW r \in TraceRecords' \ doubted'
            PROVE  /\ received'[r] <= 1
                   /\ r \in ToSet(buffer) => received'[r] = 0 /\ \A f \in DOMAIN flights : ~OnTheWay(r, f)
                   /\ \A f \in DOMAIN flights : OnTheWay(r, f) =>
                        received'[r] = 0 /\ \A o \in DOMAIN flights : OnTheWay(r, o) => o = f
        <4>1. CASE r = n
          BY <3>1, <3>4, <4>1
        <4>2. CASE r # n
          BY <1>1, <3>2, <4>2 DEF SpyInv, TakenOnce
        <4> QED
          BY <4>1, <4>2
      <3> QED
        BY <1>1, <3>3, <3>5 DEF TakenOnce
    <2> QED
      BY <2>1, <2>2, <2>3, <2>4 DEF Delivered
  <1>16. SpyTypeOK' /\ MetricsAgree'
    BY <1>1, <1>8, <1>9, <1>10 DEF SpyInv, SpyTypeOK, MetricsAgree, FindingNumbers
  <1> QED
    BY <1>13, <1>14, <1>15, <1>16 DEF SpyInv, Delivered

(* Only the step and the awaited request of a push change, away from "buffer". *)
LEMMA AfterFlushStep ==
  ASSUME SpyInv, NEW p \in DOMAIN pushes, AfterFlush(p)
  PROVE  SpyInv'
  <1> DEFINE new == [pushes[p] EXCEPT !.step = IF pushes[p].groups # <<>> THEN "create" ELSE "over"]
  <1>1. /\ pushes[p].step = "flush"
        /\ UNCHANGED <<found, counts, made, scan, records, buffer, flights, received, buffered,
                       doubted, enabled, spyCrashes>>
    BY DEF AfterFlush
  <1>2. pushes[p] \in Pushes
    BY DEF SpyInv, SpyTypeOK
  <1>3. /\ new \in Pushes /\ pushes' = [pushes EXCEPT ![p] = new] /\ new.groups = pushes[p].groups
        /\ new.step \in {"create", "over"} /\ (new.step = "create" => new.groups # <<>>)
    BY <1>2 DEF AfterFlush, Pushes
  <1> HIDE DEF new
  <1>4. /\ pushes' \in Seq(Pushes) /\ DOMAIN pushes' = DOMAIN pushes /\ pushes'[p] = new
        /\ \A q \in DOMAIN pushes : q # p => pushes'[q] = pushes[q]
    BY <1>3, PushAt
  <1>5. \A q \in DOMAIN pushes :
           /\ pushes'[q].groups = pushes[q].groups
           /\ pushes'[q].step = "buffer" <=> pushes[q].step = "buffer"
    BY <1>1, <1>3, <1>4
  <1>6. FindingInOneRecord'
    BY <1>1, <1>4, <1>5 DEF SpyInv, FindingInOneRecord, Ahead, FindingNumbers, TraceRecords
  <1>7. PushHasItsRecord'
    BY <1>1, <1>3, <1>4, <1>5 DEF SpyInv, PushHasItsRecord, TraceRecords
  <1>8. Delivered'
    BY <1>1, DeliveryRests
  <1>9. SpyTypeOK' /\ MetricsAgree'
    BY <1>1, <1>4 DEF SpyInv, SpyTypeOK, MetricsAgree, FindingNumbers
  <1> QED
    BY <1>6, <1>7, <1>8, <1>9 DEF SpyInv, Delivered

(* The push goes on with the groups behind the one that became a record. *)
LEMMA NextGroupStep ==
  ASSUME SpyInv, NEW p \in DOMAIN pushes, pushes[p].step = "buffer", NEW flight \in Nat,
         NextGroup(p, flight), buffered' \subseteq buffered \cup {pushes[p].record},
         UNCHANGED <<found, made, records>>
  PROVE  pushes' \in Seq(Pushes) /\ FindingInOneRecord' /\ PushHasItsRecord'
  <1> DEFINE g == pushes[p].groups
             step == IF flight # 0 THEN "flush" ELSE IF Len(g) > 1 THEN "create" ELSE "over"
             new == [pushes[p] EXCEPT !.groups = Tail(@), !.flight = flight, !.record = 0, !.step = step]
  <1>1. pushes[p] \in Pushes /\ g # <<>>
    BY DEF SpyInv, SpyTypeOK, PushHasItsRecord
  <1>2. g \in Seq(SUBSET (1..MaxFindings))
    BY <1>1 DEF Pushes
  <1>3. /\ Tail(g) \in Seq(SUBSET (1..MaxFindings))
        /\ \A i \in DOMAIN Tail(g) : i + 1 \in DOMAIN g /\ Tail(g)[i] = g[i + 1] /\ i + 1 > 1 /\ i \in Nat
        /\ Len(g) > 1 => Tail(g) # <<>>
    <2> HIDE DEF g
    <2>1. /\ Tail(g) \in Seq(SUBSET (1..MaxFindings)) /\ Len(Tail(g)) = Len(g) - 1 /\ Len(g) \in Nat
          /\ \A i \in 1..(Len(g) - 1) : Tail(g)[i] = g[i + 1]
      BY <1>1, <1>2, RestOf
    <2>2. DOMAIN Tail(g) = 1..(Len(g) - 1) /\ DOMAIN g = 1..Len(g)
      BY <1>2, <2>1
    <2>3. Len(g) > 1 => Tail(g) # <<>>
      <3> DEFINE t == Tail(g)
      <3>1. Len(t) = Len(g) - 1 /\ Len(g) \in Nat
        BY <2>1
      <3> HIDE DEF t
      <3>2. t = <<>> => Len(t) = 0
        OBVIOUS
      <3>3. Len(g) > 1 => t # <<>>
        BY <3>1, <3>2
      <3> QED
        BY <3>3 DEF t
    <2>4. \A i \in 1..(Len(g) - 1) : i + 1 \in 1..Len(g) /\ i + 1 > 1 /\ i \in Nat
      BY <2>1
    <2> QED
      BY <2>1, <2>2, <2>3, <2>4
  <1>4. step \in {"flush", "create", "over"} /\ (step = "create" => Tail(g) # <<>>)
    BY <1>3
  <1> HIDE DEF step
  <1>5. /\ new \in Pushes /\ new.groups = Tail(g) /\ new.step = step
    BY <1>1, <1>3, <1>4 DEF Pushes
  <1>6. pushes' = [pushes EXCEPT ![p] = new]
    BY DEF NextGroup, step
  <1> HIDE DEF new, g
  <1>7. /\ pushes' \in Seq(Pushes) /\ DOMAIN pushes' = DOMAIN pushes /\ pushes'[p] = new
        /\ \A q \in DOMAIN pushes : q # p => pushes'[q] = pushes[q]
    BY <1>5, <1>6, PushAt
  <1> DEFINE from(q, i) == IF q = p THEN i + 1 ELSE i
  <1>8. ASSUME NEW q \in DOMAIN pushes', NEW i \in DOMAIN pushes'[q].groups
        PROVE  /\ q \in DOMAIN pushes /\ from(q, i) \in DOMAIN pushes[q].groups
               /\ pushes'[q].groups[i] = pushes[q].groups[from(q, i)]
               /\ Ahead(q, i)' => Ahead(q, from(q, i))
               /\ (q = p => i \in Nat)
    <2>1. CASE q = p
      BY <1>3, <1>5, <1>7, <2>1 DEF Ahead, g
    <2>2. CASE q # p
      BY <1>7, <2>2 DEF Ahead
    <2> QED
      BY <2>1, <2>2
  <1>9. FindingInOneRecord'
    <2>1. /\ \A r, q \in TraceRecords' : r # q => records'[r].findings \cap records'[q].findings = {}
          /\ \A r \in TraceRecords' : records'[r].findings \subseteq FindingNumbers' \ found'
      BY DEF SpyInv, FindingInOneRecord, TraceRecords, FindingNumbers
    <2>2. ASSUME NEW q \in DOMAIN pushes', NEW i \in DOMAIN pushes'[q].groups
          PROVE  /\ pushes'[q].groups[i] \subseteq FindingNumbers' \ found'
                 /\ Ahead(q, i)' => \A r \in TraceRecords' :
                      pushes'[q].groups[i] \cap records'[r].findings = {}
      <3> HIDE DEF from
      <3> QED
        BY <1>8 DEF SpyInv, FindingInOneRecord, TraceRecords, FindingNumbers
    <2>3. ASSUME NEW q \in DOMAIN pushes', NEW i \in DOMAIN pushes'[q].groups,
                 NEW o \in DOMAIN pushes', NEW j \in DOMAIN pushes'[o].groups, q # o \/ i # j
          PROVE  pushes'[q].groups[i] \cap pushes'[o].groups[j] = {}
      <3>1. q # o \/ from(q, i) # from(o, j)
        BY <1>8, <2>3
      <3> HIDE DEF from
      <3> QED
        BY <1>8, <3>1 DEF SpyInv, FindingInOneRecord
    <2> QED
      BY <2>1, <2>2, <2>3 DEF FindingInOneRecord
  <1>10. PushHasItsRecord'
    <2>1. \A q \in DOMAIN pushes' : pushes'[q].step = "buffer" => q # p /\ pushes'[q] = pushes[q]
      BY <1>4, <1>5, <1>7
    <2>2. \A q \in DOMAIN pushes' : pushes'[q].step \in {"create", "buffer"} => pushes'[q].groups # <<>>
      BY <1>4, <1>5, <1>7 DEF SpyInv, PushHasItsRecord
    <2> QED
      BY <1>7, <2>1, <2>2 DEF SpyInv, PushHasItsRecord, TraceRecords
  <1> QED
    BY <1>7, <1>9, <1>10

(* What a record needs to be in the buffer or in a request. *)
Unsent(r) ==
  /\ r \in TraceRecords /\ (r \notin doubted => received[r] = 0)
  /\ r \notin doubted => \A f \in DOMAIN flights : ~OnTheWay(r, f)

(* The buffer, with a record more or not, goes out as one request. *)
LEMMA BatchGoesOut ==
  ASSUME SpyInv, NEW ids \in Seq(Nat), \A r \in ToSet(ids) : Unsent(r),
         ToSet(buffer) \subseteq ToSet(ids), ToSet(ids) \subseteq buffered',
         buffered' = buffered \cup ToSet(ids), buffered' \subseteq TraceRecords,
         flights' = Append(flights, [ids |-> ids, step |-> "sent"]), buffer' = <<>>,
         UNCHANGED <<records, received, doubted, spyCrashes>>
  PROVE  Delivered' /\ flights' \in Seq(Flights)
  <1> DEFINE new == [ids |-> ids, step |-> "sent"]
  <1>0. PICK n : n = Len(flights) + 1
    OBVIOUS
  <1>1. new \in Flights /\ new.ids = ids /\ new.step = "sent"
    BY DEF Flights
  <1> HIDE DEF new
  <1>2. flights \in Seq(Flights) /\ flights' = Append(flights, new)
    BY DEF SpyInv, SpyTypeOK, new
  <1>3. /\ flights' \in Seq(Flights) /\ DOMAIN flights' = DOMAIN flights \cup {n}
        /\ flights'[n] = new /\ n \notin DOMAIN flights
        /\ \A f \in DOMAIN flights : flights'[f] = flights[f]
    BY <1>0, <1>1, <1>2
  <1>4. ToSet(buffer') = {} /\ TraceRecords' = TraceRecords
    BY DEF ToSet, TraceRecords
  <1>5. ASSUME NEW r
        PROVE  /\ OnTheWay(r, n)' <=> r \in ToSet(ids)
               /\ \A f \in DOMAIN flights : OnTheWay(r, f)' <=> OnTheWay(r, f)
    <2>1. flights'[n].ids = ids /\ flights'[n].step = "sent"
      BY <1>1, <1>3
    <2>2. OnTheWay(r, n)' <=> r \in ToSet(ids)
      BY <2>1 DEF OnTheWay
    <2>3. \A f \in DOMAIN flights : OnTheWay(r, f)' <=> OnTheWay(r, f)
      BY <1>3 DEF OnTheWay
    <2> QED
      BY <2>2, <2>3
  <1>6. BufferedFirst'
    BY <1>1, <1>3, <1>4 DEF SpyInv, BufferedFirst
  <1>7. SentWasReceived'
    BY <1>1, <1>3, <1>4 DEF SpyInv, SentWasReceived
  <1>8. BufferedIsKept'
    <2>1. SUFFICES ASSUME spyCrashes = 0, NEW r \in buffered'
                   PROVE  received[r] > 0 \/ \E f \in DOMAIN flights' : OnTheWay(r, f)'
      BY DEF BufferedIsKept
    <2>2. CASE r \in ToSet(ids)
      BY <1>3, <1>5, <2>2
    <2>3. CASE r \notin ToSet(ids)
      BY <1>3, <1>5, <2>1, <2>3 DEF SpyInv, BufferedIsKept
    <2> QED
      BY <2>2, <2>3
  <1>9. TakenOnce'
    <2>1. SUFFICES ASSUME NEW r \in TraceRecords \ doubted
                   PROVE  /\ received[r] <= 1
                          /\ \A f \in DOMAIN flights' : OnTheWay(r, f)' =>
                                received[r] = 0 /\ \A o \in DOMAIN flights' : OnTheWay(r, o)' => o = f
      BY <1>4 DEF TakenOnce
    <2>2. CASE r \in ToSet(ids)
      BY <1>3, <1>5, <2>2 DEF Unsent, SpyInv, TakenOnce
    <2>3. CASE r \notin ToSet(ids)
      BY <1>3, <1>5, <2>3 DEF SpyInv, TakenOnce
    <2> QED
      BY <2>2, <2>3
  <1> QED
    BY <1>3, <1>6, <1>7, <1>8, <1>9 DEF Delivered

(* The flush timer sends what is in the buffer. *)
LEMMA TimerFlushStep ==
  ASSUME SpyInv, TimerFlush
  PROVE  SpyInv'
  <1>1. /\ flights' = Append(flights, [ids |-> buffer, step |-> "sent"]) /\ buffer' = <<>>
        /\ UNCHANGED <<found, counts, made, scan, pushes, buffered, spyCrashes, records, received,
                       doubted, enabled>>
    BY DEF TimerFlush, SendBatch, NotFlights
  <1>2. \A r \in ToSet(buffer) : Unsent(r)
    BY DEF SpyInv, BufferedFirst, TakenOnce, Unsent
  <1>3. buffer \in Seq(Nat) /\ ToSet(buffer) \subseteq buffered /\ buffered \subseteq TraceRecords
    BY DEF SpyInv, SpyTypeOK, BufferedFirst
  <1>4. Delivered' /\ flights' \in Seq(Flights)
    BY <1>1, <1>2, <1>3, BatchGoesOut
  <1>5. SpyTypeOK' /\ MetricsAgree'
    BY <1>1, <1>4 DEF SpyInv, SpyTypeOK, MetricsAgree, FindingNumbers
  <1>6. PushHasItsRecord' /\ FindingInOneRecord'
    BY <1>1, PushesRest, FindingsRest
  <1> QED
    BY <1>4, <1>5, <1>6 DEF SpyInv, Delivered

(* A record that was not buffered yet is nowhere on its way. *)
LEMMA RecordIsUnsent ==
  ASSUME SpyInv, NEW p \in DOMAIN pushes, pushes[p].step = "buffer"
  PROVE  pushes[p].record \in TraceRecords \ buffered /\ Unsent(pushes[p].record)
         /\ pushes[p].record \in Nat
  <1>1. pushes[p].record \in TraceRecords \ buffered
    BY DEF SpyInv, PushHasItsRecord
  <1>2. received[pushes[p].record] = 0
    <2>1. received \in Seq(Nat) /\ DOMAIN received = TraceRecords
      BY DEF SpyInv, SpyTypeOK, TraceRecords
    <2>2. received[pushes[p].record] \in Nat /\ ~(received[pushes[p].record] > 0)
      BY <1>1, <2>1 DEF SpyInv, BufferedFirst
    <2> QED
      BY <2>2
  <1>3. \A f \in DOMAIN flights : ~OnTheWay(pushes[p].record, f)
    BY <1>1 DEF SpyInv, BufferedFirst, OnTheWay
  <1>4. TraceRecords \subseteq Nat
    BY DEF SpyInv, SpyTypeOK, TraceRecords
  <1> QED
    BY <1>1, <1>2, <1>3, <1>4 DEF Unsent

(* A record joins the buffer. *)
LEMMA RecordJoins ==
  ASSUME SpyInv, NEW r \in Nat, Unsent(r), buffered' = buffered \cup {r},
         ToSet(buffer') = ToSet(buffer) \cup {r},
         UNCHANGED <<flights, records, received, doubted, spyCrashes>>
  PROVE  Delivered'
  <1>1. TraceRecords' = TraceRecords /\ r \in TraceRecords
    BY DEF TraceRecords, Unsent
  <1>2. \A q : \A f \in DOMAIN flights : OnTheWay(q, f)' <=> OnTheWay(q, f)
    BY DEF OnTheWay
  <1>3. BufferedFirst'
    BY <1>1 DEF SpyInv, BufferedFirst
  <1>4. SentWasReceived'
    BY <1>1 DEF SpyInv, SentWasReceived
  <1>5. BufferedIsKept'
    BY <1>2 DEF SpyInv, BufferedIsKept
  <1>6. TakenOnce'
    BY <1>1, <1>2 DEF SpyInv, TakenOnce, Unsent
  <1> QED
    BY <1>3, <1>4, <1>5, <1>6 DEF Delivered

(* The record of a push is buffered, and a full buffer goes out with it. *)
LEMMA BufferRecordStep ==
  ASSUME SpyInv, NEW p \in DOMAIN pushes, BufferRecord(p)
  PROVE  SpyInv'
  <1> DEFINE r == pushes[p].record
             filled == Append(buffer, r)
  <1>1. /\ pushes[p].step = "buffer"
        /\ buffered' = IF enabled THEN buffered \cup {r} ELSE buffered
        /\ UNCHANGED <<found, counts, made, scan, records, received, doubted, enabled, spyCrashes>>
        /\ \/ ~enabled /\ UNCHANGED <<buffer, flights>> /\ NextGroup(p, 0)
           \/ enabled /\ buffer' = filled /\ flights' = flights /\ NextGroup(p, 0)
           \/ /\ enabled /\ flights' = Append(flights, [ids |-> filled, step |-> "sent"])
              /\ buffer' = <<>> /\ NextGroup(p, Len(flights) + 1)
    BY DEF BufferRecord, SendBatch
  <1>2. r \in TraceRecords \ buffered /\ Unsent(r) /\ r \in Nat
    BY <1>1, RecordIsUnsent
  <1>3. buffer \in Seq(Nat) /\ flights \in Seq(Flights) /\ Len(flights) + 1 \in Nat
    BY DEF SpyInv, SpyTypeOK
  <1>4. filled \in Seq(Nat) /\ ToSet(filled) = ToSet(buffer) \cup {r}
    <2> HIDE DEF r
    <2>1. /\ filled \in Seq(Nat) /\ DOMAIN filled = DOMAIN buffer \cup {Len(buffer) + 1}
          /\ filled[Len(buffer) + 1] = r
          /\ \A i \in DOMAIN buffer : filled[i] = buffer[i]
      BY <1>2, <1>3
    <2> QED
      BY <2>1 DEF ToSet
  <1>5. \A q \in ToSet(buffer) : Unsent(q)
    BY DEF SpyInv, BufferedFirst, TakenOnce, Unsent
  <1>6. ToSet(buffer) \subseteq buffered /\ buffered \subseteq TraceRecords
    BY DEF SpyInv, BufferedFirst
  <1> HIDE DEF filled
  <1>7. Delivered' /\ buffer' \in Seq(Nat) /\ flights' \in Seq(Flights)
    <2>1. CASE ~enabled /\ UNCHANGED <<buffer, flights>>
      BY <1>1, <1>3, <2>1, DeliveryRests
    <2>2. CASE enabled /\ buffer' = filled /\ flights' = flights
      BY <1>1, <1>2, <1>3, <1>4, <2>2, RecordJoins
    <2>3. CASE enabled /\ flights' = Append(flights, [ids |-> filled, step |-> "sent"]) /\ buffer' = <<>>
      <3>1. /\ \A q \in ToSet(filled) : Unsent(q)
            /\ buffered' = buffered \cup ToSet(filled) /\ buffered' \subseteq TraceRecords
            /\ ToSet(filled) \subseteq buffered' /\ ToSet(buffer) \subseteq ToSet(filled)
        BY <1>1, <1>2, <1>4, <1>5, <1>6, <2>3
      <3> QED
        BY <1>1, <1>4, <2>3, <3>1, BatchGoesOut
    <2> QED
      BY <1>1, <2>1, <2>2, <2>3
  <1>8. pushes' \in Seq(Pushes) /\ FindingInOneRecord' /\ PushHasItsRecord'
    BY <1>1, <1>3, NextGroupStep
  <1>9. SpyTypeOK' /\ MetricsAgree'
    BY <1>1, <1>7, <1>8 DEF SpyInv, SpyTypeOK, MetricsAgree, FindingNumbers
  <1> QED
    BY <1>7, <1>8, <1>9 DEF SpyInv, Delivered

(* The answer to a request, good or bad, and whether the batch was taken or not. *)
LEMMA FlightAnswerStep ==
  ASSUME SpyInv, NEW f \in DOMAIN flights, NEW taken \in BOOLEAN, NEW ok \in BOOLEAN,
         FlightAnswer(f, taken, ok)
  PROVE  SpyInv'
  <1> DEFINE ids == flights[f].ids
             new == [flights[f] EXCEPT !.step = IF ok THEN "ok" ELSE "failed"]
  <1>1. /\ flights[f].step = "sent" /\ (ok => taken)
        /\ received' = [r \in TraceRecords |-> IF taken /\ r \in ToSet(ids)
                                              THEN received[r] + 1 ELSE received[r]]
        /\ buffer' = IF ok THEN buffer ELSE ids \o buffer
        /\ doubted' = IF ok THEN doubted ELSE doubted \cup ToSet(ids)
        /\ UNCHANGED <<found, counts, made, scan, pushes, buffered, spyCrashes, records, enabled>>
    BY DEF FlightAnswer, BufferAfter, Rebuffer, NotFlights
  <1>2. /\ buffer \in Seq(Nat) /\ flights \in Seq(Flights) /\ received \in Seq(Nat)
        /\ Len(received) = Len(records) /\ records \in Seq(TrainingRows)
    BY DEF SpyInv, SpyTypeOK
  <1>3. flights[f] \in Flights /\ ids \in Seq(Nat)
    <2>1. flights[f] \in Flights
      BY <1>2
    <2> QED
      BY <2>1 DEF Flights
  <1>4. /\ new \in Flights /\ new.ids = ids /\ new.step = (IF ok THEN "ok" ELSE "failed")
        /\ flights' = [flights EXCEPT ![f] = new]
    BY <1>3 DEF Flights, FlightAnswer
  <1> HIDE DEF new
  <1>5. /\ flights' \in Seq(Flights) /\ DOMAIN flights' = DOMAIN flights /\ flights'[f] = new
        /\ \A g \in DOMAIN flights : g # f => flights'[g] = flights[g]
    BY <1>2, <1>4
  <1>6. TraceRecords' = TraceRecords /\ TraceRecords = 1..Len(records) /\ Len(records) \in Nat
    BY <1>1, <1>2 DEF TraceRecords
  <1>7. \A r \in TraceRecords : received[r] \in Nat
    BY <1>2, <1>6
  <1>8. received' \in Seq(Nat) /\ Len(received') = Len(records')
    <2>1. \A r \in TraceRecords : received'[r] \in Nat
      BY <1>1, <1>7
    <2>2. received' = [r \in 1..Len(records) |-> received'[r]]
      BY <1>1, <1>6
    <2> QED
      BY <1>1, <1>6, <2>1, <2>2
  <1>9. \A r \in TraceRecords :
           /\ received'[r] \in Nat /\ (received[r] > 0 => received'[r] > 0)
           /\ taken /\ r \in ToSet(ids) => received'[r] = received[r] + 1 /\ received'[r] > 0
           /\ ~taken \/ r \notin ToSet(ids) => received'[r] = received[r]
    BY <1>1, <1>7
  <1>10. buffer' \in Seq(Nat) /\ ToSet(buffer') = IF ok THEN ToSet(buffer) ELSE ToSet(ids) \cup ToSet(buffer)
    <2>1. CASE ok
      BY <1>1, <1>2, <2>1
    <2>2. CASE ~ok
      <3>1. buffer' \in Seq(Nat) /\ Joins(buffer', ids, buffer)
        BY <1>1, <1>2, <1>3, <2>2, Concatenated
      <3> HIDE DEF ids
      <3>2. \A x \in ToSet(buffer') : x \in ToSet(ids) \cup ToSet(buffer)
        BY <3>1 DEF Joins, ToSet
      <3>3. \A x \in ToSet(ids) \cup ToSet(buffer) : x \in ToSet(buffer')
        BY <3>1 DEF Joins, ToSet
      <3> QED
        BY <2>2, <3>1, <3>2, <3>3
    <2> QED
      BY <2>1, <2>2
  <1>11. \A r : ~OnTheWay(r, f)'
    BY <1>4, <1>5 DEF OnTheWay
  <1>12. \A r : \A g \in DOMAIN flights : g # f => (OnTheWay(r, g)' <=> OnTheWay(r, g))
    BY <1>5 DEF OnTheWay
  <1>13. \A r : OnTheWay(r, f) <=> r \in ToSet(ids)
    BY <1>1 DEF OnTheWay
  <1>14. ToSet(ids) \subseteq buffered /\ buffered \subseteq TraceRecords
    BY DEF SpyInv, BufferedFirst
  <1> HIDE DEF ids
  <1>15. BufferedFirst'
    <2>1. \A r \in TraceRecords : received'[r] > 0 => r \in buffered
      BY <1>9, <1>14 DEF SpyInv, BufferedFirst
    <2>2. \A g \in DOMAIN flights' : ToSet(flights'[g].ids) \subseteq buffered
      BY <1>4, <1>5, <1>14 DEF SpyInv, BufferedFirst
    <2> QED
      BY <1>1, <1>6, <1>10, <1>14, <2>1, <2>2 DEF SpyInv, BufferedFirst
  <1>16. SentWasReceived'
    <2>1. \A r \in TraceRecords' : records'[r].row = "sent" => received'[r] > 0
      BY <1>1, <1>6, <1>9 DEF SpyInv, SentWasReceived
    <2>2. ASSUME NEW g \in DOMAIN flights', flights'[g].step = "ok", NEW r \in ToSet(flights'[g].ids)
          PROVE  received'[r] > 0
      <3>1. CASE g = f
        BY <1>1, <1>4, <1>5, <1>9, <1>14, <2>2, <3>1
      <3>2. CASE g # f
        BY <1>5, <1>9, <2>2, <3>2 DEF SpyInv, SentWasReceived, BufferedFirst
      <3> QED
        BY <3>1, <3>2
    <2> QED
      BY <2>1, <2>2 DEF SentWasReceived
  <1>17. BufferedIsKept'
    <2>1. SUFFICES ASSUME spyCrashes = 0, NEW r \in buffered
                   PROVE  r \in ToSet(buffer') \/ received'[r] > 0 \/ \E g \in DOMAIN flights' : OnTheWay(r, g)'
      BY <1>1 DEF BufferedIsKept
    <2>2. CASE r \in ToSet(ids)
      BY <1>1, <1>9, <1>10, <1>14, <2>2
    <2>3. CASE r \notin ToSet(ids)
      BY <1>5, <1>9, <1>10, <1>12, <1>13, <1>14, <2>1, <2>3 DEF SpyInv, BufferedIsKept
    <2> QED
      BY <2>2, <2>3
  <1>18. TakenOnce'
    <2>1. SUFFICES ASSUME NEW r \in TraceRecords \ doubted'
                   PROVE  /\ received'[r] <= 1
                          /\ r \in ToSet(buffer') =>
                                received'[r] = 0 /\ \A g \in DOMAIN flights : ~OnTheWay(r, g)'
                          /\ \A g \in DOMAIN flights : OnTheWay(r, g)' =>
                                received'[r] = 0 /\ \A o \in DOMAIN flights : OnTheWay(r, o)' => o = g
      BY <1>5, <1>6 DEF TakenOnce
    <2>2. r \notin doubted
      BY <1>1
    <2>3. CASE r \in ToSet(ids)
      <3>1. ok /\ taken
        BY <1>1, <2>3
      <3>2. received[r] = 0 /\ r \notin ToSet(buffer) /\ \A o \in DOMAIN flights : OnTheWay(r, o) => o = f
        BY <1>13, <2>2, <2>3 DEF SpyInv, TakenOnce
      <3>3. received'[r] <= 1
        BY <1>9, <2>3, <3>1, <3>2
      <3>4. \A g \in DOMAIN flights : ~OnTheWay(r, g)'
        BY <1>11, <1>12, <3>2
      <3> QED
        BY <1>10, <3>1, <3>2, <3>3, <3>4
    <2>4. CASE r \notin ToSet(ids)
      <3>1. received'[r] = received[r] /\ (r \in ToSet(buffer') <=> r \in ToSet(buffer))
        BY <1>9, <1>10, <2>4
      <3>2. \A g \in DOMAIN flights : OnTheWay(r, g)' <=> OnTheWay(r, g)
        BY <1>11, <1>12, <1>13, <2>4
      <3> QED
        BY <2>2, <3>1, <3>2 DEF SpyInv, TakenOnce
    <2> QED
      BY <2>3, <2>4
  <1>19. SpyTypeOK' /\ MetricsAgree'
    BY <1>1, <1>5, <1>8, <1>10 DEF SpyInv, SpyTypeOK, MetricsAgree, FindingNumbers
  <1>20. PushHasItsRecord' /\ FindingInOneRecord'
    BY <1>1, PushesRest, FindingsRest
  <1> QED
    BY <1>15, <1>16, <1>17, <1>18, <1>19, <1>20 DEF SpyInv

(* The rows of a batch that was answered are marked, or that failed. *)
LEMMA MarkRowsStep ==
  ASSUME SpyInv, NEW f \in DOMAIN flights, NEW written \in BOOLEAN, MarkRows(f, written)
  PROVE  SpyInv'
  <1>1. /\ flights[f].step \in {"ok", "failed"} /\ flights' = [flights EXCEPT ![f] = FlightOver]
        /\ records' = [r \in TraceRecords |-> IF written /\ r \in ToSet(flights[f].ids)
                                             THEN MarkedAs(records[r], flights[f].step)
                                             ELSE records[r]]
        /\ UNCHANGED <<found, counts, made, scan, pushes, buffered, spyCrashes, buffer, received,
                       doubted, enabled>>
    BY DEF MarkRows, NotFlights
  <1>2. flights \in Seq(Flights) /\ records \in Seq(TrainingRows) /\ Len(received) = Len(records)
    BY DEF SpyInv, SpyTypeOK
  <1>3. /\ FlightOver \in Flights /\ FlightOver.step = "done" /\ FlightOver.ids = <<>>
    BY DEF FlightOver, Flights
  <1>4. /\ flights' \in Seq(Flights) /\ DOMAIN flights' = DOMAIN flights /\ flights'[f] = FlightOver
        /\ \A g \in DOMAIN flights : g # f => flights'[g] = flights[g]
    BY <1>1, <1>2, <1>3
  <1>5. ToSet(<<>>) = {}
    BY DEF ToSet
  <1>6. TraceRecords = 1..Len(records) /\ Len(records) \in Nat
    BY <1>2 DEF TraceRecords
  <1>7. ASSUME NEW r \in TraceRecords
        PROVE  /\ records'[r] \in TrainingRows /\ records'[r].findings = records[r].findings
               /\ records'[r].row = "sent" => received[r] > 0
    <2>1. records[r] \in TrainingRows
      BY <1>2 DEF TraceRecords
    <2>2. CASE written /\ r \in ToSet(flights[f].ids) /\ records[r].row # "none" /\ flights[f].step = "ok"
      <3>1. records'[r] = [records[r] EXCEPT !.row = "sent"]
        BY <1>1, <2>2 DEF MarkedAs
      <3>2. received[r] > 0
        BY <2>2 DEF SpyInv, SentWasReceived
      <3> QED
        BY <2>1, <3>1, <3>2 DEF TrainingRows
    <2>3. CASE ~(written /\ r \in ToSet(flights[f].ids) /\ records[r].row # "none" /\ flights[f].step = "ok")
      <3>1. records'[r] = records[r]
        BY <1>1, <2>3 DEF MarkedAs
      <3> QED
        BY <2>1, <3>1 DEF SpyInv, SentWasReceived
    <2> QED
      BY <2>2, <2>3
  <1>8. records' \in Seq(TrainingRows) /\ Len(records') = Len(records) /\ TraceRecords' = TraceRecords
    <2>1. records' = [r \in 1..Len(records) |-> records'[r]]
      BY <1>1, <1>6
    <2>2. records' \in Seq(TrainingRows) /\ Len(records') = Len(records)
      BY <1>6, <1>7, <2>1
    <2> QED
      BY <1>6, <2>2 DEF TraceRecords
  <1>9. \A r : \A g \in DOMAIN flights : OnTheWay(r, g)' <=> OnTheWay(r, g)
    BY <1>1, <1>3, <1>4 DEF OnTheWay
  <1>10. BufferedFirst'
    BY <1>1, <1>3, <1>4, <1>5, <1>8 DEF SpyInv, BufferedFirst
  <1>11. SentWasReceived'
    BY <1>1, <1>3, <1>4, <1>7, <1>8 DEF SpyInv, SentWasReceived
  <1>12. BufferedIsKept' /\ TakenOnce'
    <2>1. BufferedIsKept'
      BY <1>1, <1>4, <1>9 DEF SpyInv, BufferedIsKept
    <2>2. TakenOnce'
      <3>1. UNCHANGED <<buffer, received, doubted>> /\ DOMAIN flights' = DOMAIN flights
        BY <1>1, <1>4
      <3> QED
        BY <1>8, <1>9, <3>1 DEF SpyInv, TakenOnce
    <2> QED
      BY <2>1, <2>2
  <1>13. FindingInOneRecord'
    <2>1. \A r \in TraceRecords : records'[r].findings = records[r].findings
      BY <1>7
    <2>2. UNCHANGED <<found, made, pushes>>
      BY <1>1
    <2>3. \A p, i : Ahead(p, i)' <=> Ahead(p, i)
      BY <2>2 DEF Ahead
    <2>4. \A p \in DOMAIN pushes : \A i \in DOMAIN pushes[p].groups :
            Ahead(p, i) => \A r \in TraceRecords : pushes[p].groups[i] \cap records'[r].findings = {}
      BY <2>1 DEF SpyInv, FindingInOneRecord
    <2>5. /\ \A r, q \in TraceRecords : r # q => records'[r].findings \cap records'[q].findings = {}
          /\ \A r \in TraceRecords : records'[r].findings \subseteq FindingNumbers \ found
      BY <2>1 DEF SpyInv, FindingInOneRecord
    <2> QED
      BY <1>8, <2>2, <2>3, <2>4, <2>5 DEF SpyInv, FindingInOneRecord, FindingNumbers
  <1>14. PushHasItsRecord'
    BY <1>1, <1>8 DEF SpyInv, PushHasItsRecord
  <1>15. SpyTypeOK' /\ MetricsAgree'
    BY <1>1, <1>4, <1>8 DEF SpyInv, SpyTypeOK, MetricsAgree, FindingNumbers
  <1> QED
    BY <1>10, <1>11, <1>12, <1>13, <1>14, <1>15 DEF SpyInv

(* The process dies: only the records and what was taken remain. *)
LEMMA SpyCrashStep ==
  ASSUME SpyInv, SpyCrash
  PROVE  SpyInv'
  <1> DEFINE gone == [groups |-> <<>>, step |-> "over", record |-> 0, flight |-> 0]
  <1>1. /\ spyCrashes' = spyCrashes + 1 /\ spyCrashes < MaxSpyCrashes
        /\ found' = {} /\ counts' = [s \in Severities |-> 0] /\ scan' = "idle"
        /\ pushes' = [p \in DOMAIN pushes |-> gone] /\ flights' = [f \in DOMAIN flights |-> FlightOver]
        /\ buffer' = <<>> /\ UNCHANGED <<made, records, received, buffered, doubted, enabled>>
    BY DEF SpyCrash
  <1>2. /\ gone \in Pushes /\ gone.groups = <<>> /\ gone.step = "over"
        /\ FlightOver \in Flights /\ FlightOver.step = "done" /\ FlightOver.ids = <<>>
    BY DEF FlightOver, Flights, Pushes
  <1> HIDE DEF gone
  <1>3. /\ pushes \in Seq(Pushes) /\ flights \in Seq(Flights) /\ spyCrashes \in 0..MaxSpyCrashes
        /\ MaxSpyCrashes \in Nat /\ MaxFindings \in Nat
    BY SecurityTraceConstants DEF SpyInv, SpyTypeOK
  <1>4. /\ pushes' \in Seq(Pushes) /\ DOMAIN pushes' = DOMAIN pushes
        /\ \A p \in DOMAIN pushes : pushes'[p] = gone
    BY <1>1, <1>2, <1>3
  <1>5. /\ flights' \in Seq(Flights) /\ DOMAIN flights' = DOMAIN flights
        /\ \A f \in DOMAIN flights : flights'[f] = FlightOver
    BY <1>1, <1>2, <1>3
  <1>6. ToSet(<<>>) = {} /\ DOMAIN <<>> = {} /\ TraceRecords' = TraceRecords
    BY <1>1 DEF ToSet, TraceRecords
  <1>7. spyCrashes' \in 0..MaxSpyCrashes /\ spyCrashes' # 0
    BY <1>1, <1>3
  <1>8. \A r : \A f \in DOMAIN flights : ~OnTheWay(r, f)'
    BY <1>2, <1>5 DEF OnTheWay
  <1>9. Delivered'
    <2>1. BufferedFirst'
      BY <1>1, <1>2, <1>5, <1>6 DEF SpyInv, BufferedFirst
    <2>2. SentWasReceived'
      BY <1>1, <1>2, <1>5, <1>6 DEF SpyInv, SentWasReceived
    <2>3. BufferedIsKept'
      BY <1>7 DEF BufferedIsKept
    <2>4. TakenOnce'
      BY <1>1, <1>5, <1>6, <1>8 DEF SpyInv, TakenOnce
    <2> QED
      BY <2>1, <2>2, <2>3, <2>4 DEF Delivered
  <1>10. FindingInOneRecord'
    BY <1>1, <1>2, <1>4, <1>6 DEF SpyInv, FindingInOneRecord, FindingNumbers
  <1>11. PushHasItsRecord'
    BY <1>2, <1>4 DEF PushHasItsRecord
  <1>12. MetricsAgree'
    <2>1. \A s \in Severities : {f \in found' : made'[f].severity = s} = {}
      BY <1>1
    <2> QED
      BY <1>1, <2>1, FS_EmptySet DEF MetricsAgree
  <1>13. SpyTypeOK'
    <2>1. counts' \in [Severities -> 0..MaxFindings] /\ buffer' \in Seq(Nat)
      BY <1>1, <1>3
    <2> QED
      BY <1>1, <1>4, <1>5, <1>7, <2>1 DEF SpyInv, SpyTypeOK, FindingNumbers
  <1> QED
    BY <1>9, <1>10, <1>11, <1>12, <1>13 DEF SpyInv, Delivered

(* Whatever executions, pushes, flushes, answers and crashes overlap: the metrics
   agree with the findings, a finding is in one record only, a row that says sent was
   taken, no record is lost without a crash and none is taken twice unless a request
   with it failed. *)
THEOREM SpyIsSound == SpySpec => []SpyInv
  <1>1. ASSUME SpyInit PROVE SpyInv
    <2>1. /\ found = {} /\ counts = [s \in Severities |-> 0] /\ made = <<>> /\ scan = "idle"
          /\ pushes = <<>> /\ records = <<>> /\ buffer = <<>> /\ flights = <<>> /\ received = <<>>
          /\ buffered = {} /\ enabled \in BOOLEAN /\ spyCrashes = 0
      BY <1>1 DEF SpyInit
    <2>2. ToSet(<<>>) = {} /\ DOMAIN <<>> = {} /\ TraceRecords = {}
      BY <2>1 DEF ToSet, TraceRecords
    <2>3. SpyTypeOK
      <3>1. /\ 0 \in 0..MaxFindings /\ 0 \in 0..MaxSpyCrashes /\ Len(<<>>) <= MaxFindings
            /\ <<>> \in Seq(Findings) /\ <<>> \in Seq(Pushes) /\ <<>> \in Seq(TrainingRows)
            /\ <<>> \in Seq(Nat) /\ <<>> \in Seq(Flights)
        BY SecurityTraceConstants
      <3> QED
        BY <2>1, <3>1 DEF SpyTypeOK
    <2>4. MetricsAgree
      <3>1. \A s \in Severities : {f \in found : made[f].severity = s} = {}
        BY <2>1
      <3> QED
        BY <2>1, <3>1, FS_EmptySet DEF MetricsAgree
    <2> QED
      BY <2>1, <2>2, <2>3, <2>4 DEF SpyInv, FindingInOneRecord, PushHasItsRecord, BufferedFirst,
         SentWasReceived, BufferedIsKept, TakenOnce
  <1>2. ASSUME SpyInv, [SpyNext]_spyVars PROVE SpyInv'
    <2>1. CASE UNCHANGED spyVars
      BY <1>2, <2>1, ScanOnly DEF spyVars, NotSpy, SpyInv, SpyTypeOK
    <2>2. CASE SpyStep
      <3>1. PICK s \in SpySessions, severity \in Severities :
               Analyze(s, severity) \/ RegisterExternal(s, severity) \/ ScanFile(s, severity)
        BY <2>2 DEF SpyStep
      <3>2. StoreFinding(s, severity) /\ UNCHANGED <<scan, NotSpy>>
        BY <3>1 DEF Analyze, RegisterExternal, ScanFile
      <3>3. scan' \in {"idle", "running", "ok", "failed"} /\ UNCHANGED NotSpy
        BY <1>2, <3>2 DEF SpyInv, SpyTypeOK
      <3> QED
        BY <1>2, <3>2, <3>3, FindingStep
    <2>3. CASE ScanStep
      BY <1>2, <2>3, ScanOnly, EndTaskStep DEF ScanStep, StartScan, EndScan, ScanFails
    <2>4. CASE PushStep
      BY <1>2, <2>4, CreateRecordStep, BufferRecordStep, AfterFlushStep DEF PushStep
    <2>5. CASE FlightStep
      BY <1>2, <2>5, TimerFlushStep, FlightAnswerStep, MarkRowsStep DEF FlightStep
    <2>6. CASE SpyCrash
      BY <1>2, <2>6, SpyCrashStep
    <2> QED
      BY <1>2, <2>1, <2>2, <2>3, <2>4, <2>5, <2>6 DEF SpyNext
  <1> QED
    BY <1>1, <1>2, PTL DEF SpySpec

-----------------------------------------------------------------------------
(* The services together. *)

(* A step of the services is a step of each, or leaves it alone. *)
LEMMA ServicesApart ==
  ASSUME [ServicesNext]_serviceVars
  PROVE  /\ [AccountsNext]_accountVars /\ [SettingsNext]_settingsVars /\ [LogNext]_logVars
         /\ [RepositoriesNext]_repoVars /\ [TraceNext]_traceVars /\ [CostNext]_costVars
         /\ [CacheNext]_cacheVars /\ [StreamNext]_streamVars /\ [SpyNext]_spyVars
  BY DEF ServicesNext, serviceVars, BesidesSpy, BesidesCost, BesidesTrace, BesidesLog,
     BesidesStream, BesidesCache, BesidesSettings, BesidesRepositories, BesidesAccounts

(* What was proved of each service holds of all of them side by side. *)
THEOREM ServicesAreSound ==
  ServicesSpec => /\ [](/\ AccountsInv /\ SettingsInv /\ LogInv /\ RepositoriesInv /\ TraceInv
                        /\ CostInv /\ CacheInv /\ StreamInv /\ SpyInv)
                  /\ RoomAfterBuild
  <1>1. ServicesInit => /\ AccountsInit /\ SettingsInit /\ LogInit /\ RepositoriesInit
                        /\ TraceInit /\ CostInit /\ CacheInit /\ StreamInit /\ SpyInit
    BY DEF ServicesInit
  <1>2. ServicesSpec => /\ AccountsSpec /\ SettingsSpec /\ RepositoriesSpec /\ TraceSpec
                        /\ CostSpec /\ CacheSpec /\ StreamSpec /\ SpySpec
    BY <1>1, ServicesApart, PTL
       DEF ServicesSpec, AccountsSpec, SettingsSpec, RepositoriesSpec, TraceSpec, CostSpec, CacheSpec,
           StreamSpec, SpySpec
  <1>3. ServicesSpec => []LogInv
    BY <1>1, LogStarts, LogSteps, ServicesApart, PTL DEF ServicesSpec
  <1> QED
    BY <1>2, <1>3, AccountsAreSound, SettingsAreSound, RepositoriesAreSound, TraceIsSound,
       CostIsSound, CacheIsSound, ScansLeaveRoom, StreamIsSound, SpyIsSound, PTL
=============================================================================
