-------------------------- MODULE StructureLemmas --------------------------
(***************************************************************************)
(* What several proofs need about data that is defined by induction.       *)
(*                                                                         *)
(* First, doubly linked lists as gc.c keeps them: a head, and for each     *)
(* block the block before it, which is ListHead for the first one, and the *)
(* block after it, which is Null for the last.  "Reachable along the list" *)
(* would be a definition by induction; that every set closed under the     *)
(* successor is the whole list says the same.                              *)
(*                                                                         *)
(* Second, functions defined by recursion: f[x] is Def(c, f, x), where Def *)
(* looks at f where Rank is smaller only, and c is what else the           *)
(* definition depends on.  The domain, Def and Rank are parameters of the  *)
(* module, so that an instance of it gives the equations of one recursive  *)
(* definition.  Induction is by the smallest counterexample, which is a    *)
(* set and not an operator.                                                *)
(*                                                                         *)
(* A module that has lists only, or recursion only, gives the parameters   *)
(* of the other part any values.                                           *)
(***************************************************************************)
EXTENDS Integers, WellFoundedInduction, TLAPS

CONSTANTS Null, ListHead, Dom(_), Def(_, _, _), Rank(_, _)

-----------------------------------------------------------------------------
(* S holds the list that starts at h with successors N.                    *)
Holds(S, h, N) ==
    /\ h \in S \cup {Null}
    /\ \A b \in S : N[b] \in S \cup {Null}

(* The blocks of L, and no others, form a list from h, where P and N give  *)
(* the predecessor and the successor of each.                              *)
IsList(L, h, P, N) ==
    /\ h # Null => h \in L /\ P[h] = ListHead
    /\ \A b \in L : N[b] # Null => N[b] \in L /\ P[N[b]] = b
    /\ \A b \in L : \/ P[b] = ListHead /\ h = b
                    \/ P[b] \in L /\ N[P[b]] = b
    /\ \A S \in SUBSET L : Holds(S, h, N) => S = L

(* Only the links of the blocks on the list matter.                        *)
LEMMA SameLinks ==
    ASSUME NEW L, NEW h, NEW P, NEW N, NEW P2, NEW N2, IsList(L, h, P, N),
           \A b \in L : P2[b] = P[b] /\ N2[b] = N[b]
    PROVE  IsList(L, h, P2, N2)
<1>1. /\ h # Null => h \in L /\ P2[h] = ListHead
      /\ \A b \in L : N2[b] # Null => N2[b] \in L /\ P2[N2[b]] = b
      /\ \A b \in L : \/ P2[b] = ListHead /\ h = b
                      \/ P2[b] \in L /\ N2[P2[b]] = b
  BY DEF IsList
<1>2. \A S \in SUBSET L : Holds(S, h, N2) => Holds(S, h, N)
  BY DEF Holds
<1>3. \A S \in SUBSET L : Holds(S, h, N2) => S = L
  BY <1>2 DEF IsList
<1> QED
  BY <1>1, <1>3 DEF IsList

(* No block of a list is its own successor.                                *)
LEMMA NoSelfLink ==
    ASSUME NEW L, NEW h, NEW P, NEW N, NEW c \in L,
           Null \notin L, ListHead \notin L, IsList(L, h, P, N)
    PROVE  N[c] # c
<1> SUFFICES ASSUME N[c] = c PROVE FALSE
  OBVIOUS
<1> USE DEF IsList
<1>1. c # Null /\ P[c] = c
  OBVIOUS
<1>2. h # c
  BY <1>1
<1>3. \A b \in L \ {c} : N[b] # c
  BY <1>1
<1>4. Holds(L \ {c}, h, N)
  BY <1>2, <1>3 DEF Holds
<1> QED
  BY <1>4

(* Unlinking a block leaves a list.                                        *)
LEMMA UnlinkList ==
    ASSUME NEW L, NEW h, NEW P, NEW N, NEW c \in L, NEW h2, NEW P2, NEW N2,
           Null \notin L, ListHead \notin L, IsList(L, h, P, N),
           h2 = IF P[c] = ListHead THEN N[c] ELSE h,
           \A b \in L \ {c} : P2[b] = IF b = N[c] THEN P[c] ELSE P[b],
           \A b \in L \ {c} : N2[b] = IF b = P[c] THEN N[c] ELSE N[b]
    PROVE  IsList(L \ {c}, h2, P2, N2)
<1>1. N[c] # c /\ P[c] # c
  <2>1. N[c] # c
    BY NoSelfLink
  <2> QED
    BY <2>1 DEF IsList
<1>2. h2 # Null => h2 \in L \ {c} /\ P2[h2] = ListHead
  BY <1>1 DEF IsList
<1>3. ASSUME NEW b \in L \ {c}, N2[b] # Null
      PROVE  N2[b] \in L \ {c} /\ P2[N2[b]] = b
  BY <1>1, <1>3 DEF IsList
<1>4. ASSUME NEW b \in L \ {c}
      PROVE  \/ P2[b] = ListHead /\ h2 = b
             \/ P2[b] \in L \ {c} /\ N2[P2[b]] = b
  BY <1>1, <1>4 DEF IsList
<1>5. ASSUME NEW S \in SUBSET (L \ {c}), Holds(S, h2, N2)
      PROVE  S = L \ {c}
  <2>1. Holds(S \cup {c}, h, N)
    BY <1>1, <1>5 DEF Holds, IsList
  <2>2. S \cup {c} = L
    BY <2>1 DEF IsList
  <2> QED
    BY <2>2
<1> QED
  BY <1>2, <1>3, <1>4, <1>5 DEF IsList

(* Putting a new block in front of a list gives a list.                    *)
LEMMA PushList ==
    ASSUME NEW L, NEW h, NEW P, NEW N, NEW c, c \notin L, c # Null, NEW P2, NEW N2,
           Null \notin L, ListHead \notin L \cup {c}, IsList(L, h, P, N),
           P2[c] = ListHead, N2[c] = h,
           \A b \in L : P2[b] = IF b = h THEN c ELSE P[b],
           \A b \in L : N2[b] = N[b]
    PROVE  IsList(L \cup {c}, c, P2, N2)
<1>1. ASSUME NEW b \in L \cup {c}, N2[b] # Null
      PROVE  N2[b] \in L \cup {c} /\ P2[N2[b]] = b
  BY <1>1 DEF IsList
<1>2. ASSUME NEW b \in L \cup {c}
      PROVE  \/ P2[b] = ListHead /\ c = b
             \/ P2[b] \in L \cup {c} /\ N2[P2[b]] = b
  BY <1>2 DEF IsList
<1>3. ASSUME NEW S \in SUBSET (L \cup {c}), Holds(S, c, N2)
      PROVE  S = L \cup {c}
  <2>1. c \in S
    BY <1>3 DEF Holds
  <2>2. Holds(S \ {c}, h, N)
    BY <1>3, <2>1 DEF Holds, IsList
  <2>3. S \ {c} = L
    BY <2>2 DEF IsList
  <2> QED
    BY <2>1, <2>3
<1> QED
  BY <1>1, <1>2, <1>3 DEF IsList

(* Putting block d in the place of block c leaves a list.                  *)
LEMMA ReplaceList ==
    ASSUME NEW L, NEW h, NEW P, NEW N, NEW c \in L, NEW d, d \notin L, d # Null,
           NEW h2, NEW P2, NEW N2,
           Null \notin L, ListHead \notin L \cup {d}, IsList(L, h, P, N),
           h2 = IF P[c] = ListHead THEN d ELSE h,
           P2[d] = P[c], N2[d] = N[c],
           \A b \in L \ {c} : P2[b] = IF b = N[c] THEN d ELSE P[b],
           \A b \in L \ {c} : N2[b] = IF b = P[c] THEN d ELSE N[b]
    PROVE  IsList((L \cup {d}) \ {c}, h2, P2, N2)
<1> DEFINE M == (L \cup {d}) \ {c}
<1>1. N[c] # c /\ P[c] # c
  <2>1. N[c] # c
    BY NoSelfLink
  <2> QED
    BY <2>1 DEF IsList
<1>2. h2 # Null => h2 \in M /\ P2[h2] = ListHead
  BY <1>1 DEF IsList
<1>3. ASSUME NEW b \in M, N2[b] # Null
      PROVE  N2[b] \in M /\ P2[N2[b]] = b
  <2>1. CASE b = d
    BY <1>1, <1>3, <2>1 DEF IsList
  <2>2. CASE b # d
    BY <1>1, <1>3, <2>2 DEF IsList
  <2> QED
    BY <2>1, <2>2
<1>4. ASSUME NEW b \in M
      PROVE  \/ P2[b] = ListHead /\ h2 = b
             \/ P2[b] \in M /\ N2[P2[b]] = b
  <2>1. CASE b = d
    BY <1>1, <2>1 DEF IsList
  <2>2. CASE b # d
    BY <1>1, <2>2 DEF IsList
  <2> QED
    BY <2>1, <2>2
<1>5. ASSUME NEW S \in SUBSET M, Holds(S, h2, N2)
      PROVE  S = M
  <2>1. Holds((S \ {d}) \cup {c}, h, N)
    BY <1>1, <1>5 DEF Holds, IsList
  <2>2. (S \ {d}) \cup {c} = L
    BY <2>1 DEF IsList
  <2>3. d \in S
    <3>1. SUFFICES ASSUME d \notin S PROVE FALSE
      OBVIOUS
    <3>2. Holds(S, h, N)
      BY <1>1, <1>5, <2>2, <3>1 DEF Holds, IsList
    <3> QED
      BY <3>1, <3>2 DEF IsList
  <2> QED
    BY <2>2, <2>3
<1> HIDE DEF M
<1>6. IsList(M, h2, P2, N2)
  BY <1>2, <1>3, <1>4, <1>5 DEF IsList
<1> QED
  BY <1>6 DEF M

(* The blocks of L that every set holding the list from h has: those from  *)
(* h on.                                                                   *)
From(L, h, N) == {b \in L : \A S \in SUBSET L : Holds(S, h, N) => b \in S}

LEMMA FromHolds ==
    ASSUME NEW L, NEW h, NEW N, Holds(L, h, N)
    PROVE  Holds(From(L, h, N), h, N)
BY DEF Holds, From

(* A step along the list takes its first block off, whether that block     *)
(* stays in the list (M = L) or is unlinked from it on the way.            *)
LEMMA FromStep ==
    ASSUME NEW L, NEW h \in L, NEW N, NEW M, NEW N2, Null \notin L, Holds(L, h, N),
           L \ {h} \subseteq M, M \subseteq L,
           \A b \in M : N2[b] = N[b] \/ (N[b] = h /\ N2[b] = N[h]),
           \A b \in From(L, h, N) : N[b] # h
    PROVE  From(M, N[h], N2) = From(L, h, N) \ {h}
<1> DEFINE A == From(L, h, N)
<1>1. Holds(A, h, N) /\ A \subseteq L
  BY FromHolds DEF From
<1>2. A \ {h} \in SUBSET M
  BY <1>1
<1>3. Holds(A \ {h}, N[h], N2)
  <2>1. \A b \in A : N[b] # h
    OBVIOUS
  <2> HIDE DEF A
  <2> QED
    BY <1>1, <1>2, <2>1 DEF Holds, From
<1>4. From(M, N[h], N2) \subseteq A \ {h}
  <2> HIDE DEF A
  <2> QED
    BY <1>2, <1>3 DEF From
<1>5. ASSUME NEW S \in SUBSET M, Holds(S, N[h], N2)
      PROVE  A \ {h} \subseteq S
  <2>1. Holds(S \cup {h}, h, N)
    BY <1>5 DEF Holds
  <2> QED
    BY <2>1 DEF From
<1>6. A \ {h} \subseteq From(M, N[h], N2)
  <2> HIDE DEF A
  <2> QED
    BY <1>2, <1>5 DEF From
<1> QED
  BY <1>4, <1>6

-----------------------------------------------------------------------------
(* A set of natural numbers that is not empty has a smallest element.      *)
LEMMA LeastNat ==
    ASSUME NEW S \in SUBSET Nat, S # {}
    PROVE  \E m \in S : \A k \in S : m <= k
<1> DEFINE R == OpToRel(<, Nat)
<1>1. IsWellFoundedOn(R, Nat)
  BY NatLessThanWellFounded
<1>2. PICK m \in S : \A k \in S : <<k, m>> \notin R
  <2> HIDE DEF R
  <2> QED BY <1>1, WFMin
<1>3. \A k \in S : k < m => <<k, m>> \in R
  BY DEF OpToRel
<1> HIDE DEF R
<1>4. \A k \in S : ~(k < m)
  BY <1>2, <1>3
<1> QED
  BY <1>4

Ranked(c) == \A x \in Dom(c) : Rank(c, x) \in Nat

(* Def(c, g, x) depends on g at elements of smaller rank only.             *)
Local(c) ==
    \A g, h : \A x \in Dom(c) :
        (\A y \in Dom(c) : Rank(c, y) < Rank(c, x) => g[y] = h[y]) => Def(c, g, x) = Def(c, h, x)

(* g is defined up to rank n.                                              *)
UpTo(c, g, n) == \A x \in Dom(c) : Rank(c, x) <= n => g[x] = Def(c, g, x)

(* What satisfies the equation is determined by it.                        *)
LEMMA OneUpTo ==
    ASSUME NEW c, Ranked(c), Local(c), NEW g, NEW h, NEW n \in Nat, UpTo(c, g, n), UpTo(c, h, n),
           NEW x \in Dom(c), Rank(c, x) <= n
    PROVE  g[x] = h[x]
<1> DEFINE D == {k \in Nat : \E y \in Dom(c) : Rank(c, y) = k /\ k <= n /\ g[y] # h[y]}
<1> SUFFICES ASSUME g[x] # h[x] PROVE FALSE
  OBVIOUS
<1>0. D # {}
  <2>1. Rank(c, x) \in D
    BY DEF Ranked
  <2> QED
    BY <2>1
<1>1. PICK k \in D : \A j \in D : k <= j
  <2>1. D \in SUBSET Nat
    OBVIOUS
  <2> HIDE DEF D
  <2> QED
    BY <1>0, <2>1, LeastNat
<1>2. PICK y \in Dom(c) : Rank(c, y) = k /\ k <= n /\ g[y] # h[y]
  OBVIOUS
<1>3. \A z \in Dom(c) : Rank(c, z) < Rank(c, y) => g[z] = h[z]
  BY <1>1, <1>2 DEF Ranked
<1>4. Def(c, g, y) = Def(c, h, y)
  BY <1>3 DEF Local
<1> QED
  BY <1>2, <1>4 DEF UpTo

(* Up to any rank, something satisfies the equation: take what satisfies   *)
(* it up to the rank of each element as the value there.                   *)
LEMMA SomeUpTo ==
    ASSUME NEW c, Ranked(c), Local(c), NEW n \in Nat
    PROVE  \E g : UpTo(c, g, n)
<1> DEFINE D == {k \in Nat : ~ \E g : UpTo(c, g, k)}
<1> SUFFICES ASSUME D # {} PROVE FALSE
  OBVIOUS
<1>1. PICK m \in D : \A j \in D : m <= j
  <2>1. D \in SUBSET Nat
    OBVIOUS
  <2> HIDE DEF D
  <2> QED
    BY <2>1, LeastNat
<1>2. \A j \in Nat : j < m => \E g : UpTo(c, g, j)
  BY <1>1
<1>0. m \in Nat
  OBVIOUS
<1> DEFINE C(j) == CHOOSE g : UpTo(c, g, j)
           F == [x \in Dom(c) |-> C(Rank(c, x))[x]]
           G == [x \in Dom(c) |-> IF Rank(c, x) = m THEN Def(c, F, x) ELSE F[x]]
<1>3. ASSUME NEW j \in Nat, j < m PROVE UpTo(c, C(j), j)
  BY <1>2, <1>3
<1>4. ASSUME NEW j \in Nat, j < m, NEW x \in Dom(c), Rank(c, x) <= j PROVE C(j)[x] = F[x]
  <2> DEFINE i == Rank(c, x)
  <2>1. i \in Nat /\ i <= j /\ i < m
    BY <1>0, <1>4 DEF Ranked
  <2>2. UpTo(c, C(i), i) /\ UpTo(c, C(j), j)
    BY <1>3, <1>4, <2>1
  <2>3. F[x] = C(i)[x]
    OBVIOUS
  <2> HIDE DEF C, F, i
  <2>4. UpTo(c, C(j), i)
    BY <1>4, <2>1, <2>2 DEF UpTo, Ranked
  <2>5. i <= i /\ Rank(c, x) = i
    BY <2>1 DEF i
  <2> QED
    BY <2>1, <2>2, <2>3, <2>4, <2>5, OneUpTo
<1>5. ASSUME NEW x \in Dom(c), Rank(c, x) < m PROVE G[x] = Def(c, G, x)
  <2> DEFINE j == Rank(c, x)
  <2>1. j \in Nat /\ j < m
    BY <1>5 DEF Ranked
  <2>2. UpTo(c, C(j), j)
    BY <1>3, <2>1
  <2>3. \A y \in Dom(c) : Rank(c, y) <= j => C(j)[y] = F[y] /\ Rank(c, y) # m
    <3>1. \A y \in Dom(c) : Rank(c, y) <= j => C(j)[y] = F[y]
      BY <1>4, <2>1
    <3>2. \A y \in Dom(c) : Rank(c, y) <= j => Rank(c, y) # m
      BY <1>0, <2>1 DEF Ranked
    <3> QED
      BY <3>1, <3>2
  <2>4. \A y \in Dom(c) : Rank(c, y) # m => G[y] = F[y]
    OBVIOUS
  <2> HIDE DEF C, F, G
  <2>5. \A y \in Dom(c) : Rank(c, y) <= j => C(j)[y] = G[y]
    BY <2>3, <2>4
  <2>6. j <= j /\ Rank(c, x) = j
    BY <2>1
  <2>7. Def(c, C(j), x) = Def(c, G, x)
    <3>1. \A y \in Dom(c) : Rank(c, y) < Rank(c, x) => C(j)[y] = G[y]
      BY <2>1, <2>5 DEF Ranked
    <3> QED
      BY <3>1 DEF Local
  <2> HIDE DEF j
  <2> QED
    BY <2>2, <2>5, <2>6, <2>7 DEF UpTo
<1>6. ASSUME NEW x \in Dom(c), Rank(c, x) = m PROVE G[x] = Def(c, G, x)
  <2>1. G[x] = Def(c, F, x)
    BY <1>6
  <2>2. \A y \in Dom(c) : Rank(c, y) < Rank(c, x) => F[y] = G[y]
    <3>1. \A y \in Dom(c) : Rank(c, y) < Rank(c, x) => Rank(c, y) # m
      BY <1>0, <1>6 DEF Ranked
    <3> QED
      BY <3>1
  <2> HIDE DEF F, G
  <2> QED
    BY <2>1, <2>2 DEF Local
<1>7. UpTo(c, G, m)
  <2> HIDE DEF G
  <2>1. \A x \in Dom(c) : Rank(c, x) <= m => Rank(c, x) < m \/ Rank(c, x) = m
    BY <1>0 DEF Ranked
  <2> QED
    BY <1>5, <1>6, <2>1 DEF UpTo
<1> QED
  <2> HIDE DEF G
  <2> QED
    BY <1>7

(* Some function satisfies the equation; so does the one that a recursive  *)
(* definition chooses.                                                     *)
LEMMA SomeFunction ==
    ASSUME NEW c, Ranked(c), Local(c)
    PROVE  \E f : f = [x \in Dom(c) |-> Def(c, f, x)]
<1> DEFINE C(j) == CHOOSE g : UpTo(c, g, j)
           F == [x \in Dom(c) |-> C(Rank(c, x))[x]]
<1>1. ASSUME NEW j \in Nat PROVE UpTo(c, C(j), j)
  BY SomeUpTo
<1>2. ASSUME NEW j \in Nat, NEW x \in Dom(c), Rank(c, x) <= j PROVE C(j)[x] = F[x]
  <2> DEFINE i == Rank(c, x)
  <2>1. i \in Nat /\ i <= j
    BY <1>2 DEF Ranked
  <2>2. UpTo(c, C(i), i) /\ UpTo(c, C(j), j)
    BY <1>1, <2>1
  <2>3. F[x] = C(i)[x]
    OBVIOUS
  <2> HIDE DEF C, F, i
  <2>4. UpTo(c, C(j), i)
    BY <1>2, <2>1, <2>2 DEF UpTo, Ranked
  <2>5. i <= i /\ Rank(c, x) = i
    BY <2>1 DEF i
  <2> QED
    BY <2>1, <2>2, <2>3, <2>4, <2>5, OneUpTo
<1>3. ASSUME NEW x \in Dom(c) PROVE F[x] = Def(c, F, x)
  <2> DEFINE j == Rank(c, x)
  <2>1. j \in Nat
    BY DEF Ranked
  <2>2. F[x] = C(j)[x] /\ UpTo(c, C(j), j)
    BY <1>1, <2>1
  <2> HIDE DEF C, F
  <2>3. \A y \in Dom(c) : Rank(c, y) < Rank(c, x) => C(j)[y] = F[y]
    BY <1>2, <2>1 DEF Ranked
  <2>4. Def(c, C(j), x) = Def(c, F, x)
    BY <2>3 DEF Local
  <2>5. j <= j /\ Rank(c, x) = j
    BY <2>1
  <2> HIDE DEF j
  <2> QED
    BY <2>2, <2>4, <2>5 DEF UpTo
<1>4. F = [x \in Dom(c) |-> Def(c, F, x)]
  <2>1. F = [x \in Dom(c) |-> F[x]]
    OBVIOUS
  <2> HIDE DEF F
  <2> QED
    BY <1>3, <2>1
<1> QED
  BY <1>4

LEMMA RecursiveFunction ==
    ASSUME NEW c, Ranked(c), Local(c), NEW f, f = CHOOSE g : g = [x \in Dom(c) |-> Def(c, g, x)]
    PROVE  f = [x \in Dom(c) |-> Def(c, f, x)]
<1>1. \E g : g = [x \in Dom(c) |-> Def(c, g, x)]
  BY SomeFunction
<1> QED
  BY <1>1

=============================================================================
