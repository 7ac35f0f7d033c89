---------------------------- MODULE TypeScanProofs ----------------------------
(***************************************************************************)
(* Proofs about TypeScan for every table of types: the precise search      *)
(* reads pointers only, and all of them unless an array is nested.         *)
(***************************************************************************)
EXTENDS TypeScan, TLAPS

Words == INSTANCE StructureLemmas WITH
    Dom <- LAMBDA c : Type, Def <- LAMBDA c, f, t : WordsOf(f, t),
    Rank <- LAMBDA c, t : t, Null <- 0, ListHead <- 0

Flats == INSTANCE StructureLemmas WITH
    Dom <- LAMBDA c : Type, Def <- LAMBDA c, f, t : FlatIn(f, t),
    Rank <- LAMBDA c, t : t, Null <- 0, ListHead <- 0

(* What the assumption says of the table that is walked.                   *)
LEMMA TableFacts ==
    ASSUME uniqtype \in Tables, NEW t \in Type
    PROVE  /\ t \in Nat
           /\ uniqtype[t].kind \in Kind
           /\ uniqtype[t].pos_maxoff \in Nat /\ uniqtype[t].length \in Nat
           /\ Len(uniqtype[t].related) \in Nat
           /\ \A k \in 1 .. Len(uniqtype[t].related) :
                 /\ uniqtype[t].related[k].type \in Type /\ uniqtype[t].related[k].type < t
                 /\ uniqtype[t].related[k].off \in Nat
           /\ uniqtype[t].kind = "array" => 1 \in 1 .. Len(uniqtype[t].related)
<1> DEFINE M == [type : {s \in Type : s < t}, off : Nat]
           r == uniqtype[t].related
<1>1. /\ t \in Nat /\ uniqtype[t].kind \in Kind
      /\ uniqtype[t].pos_maxoff \in Nat /\ uniqtype[t].length \in Nat
      /\ r \in Seq(M) /\ (uniqtype[t].kind = "array" => r # <<>>)
  BY TypeAssumption DEF TypeAssumption
<1>2. Len(r) \in Nat /\ (r # <<>> => 1 \in 1 .. Len(r)) /\ \A k \in 1 .. Len(r) : r[k] \in M
  <2> HIDE DEF r, M
  <2> QED
    BY <1>1
<1> QED
  BY <1>1, <1>2

LEMMA WordsEquation ==
    ASSUME uniqtype \in Tables, NEW t \in Type
    PROVE  PointerWords[t] = WordsOf(PointerWords, t)
<1>1. Type \subseteq Nat
  BY TypeAssumption DEF TypeAssumption
<1>2. ASSUME NEW g, NEW h, NEW s \in Type, \A m \in Type : m < s => g[m] = h[m]
      PROVE  WordsOf(g, s) = WordsOf(h, s)
  BY <1>2, TableFacts DEF WordsOf, Kind
<1>3. Words!Ranked(0) /\ Words!Local(0)
  BY <1>1, <1>2 DEF Words!Local, Words!Ranked
<1>4. PointerWords = CHOOSE g : g = [n \in Type |-> WordsOf(g, n)]
  BY DEF PointerWords
<1>5. PointerWords = [n \in Type |-> WordsOf(PointerWords, n)]
  BY <1>3, <1>4, Words!RecursiveFunction
<1> QED
  BY <1>5

LEMMA FlatEquation ==
    ASSUME uniqtype \in Tables, NEW t \in Type
    PROVE  Flat[t] = FlatIn(Flat, t)
<1>1. Type \subseteq Nat
  BY TypeAssumption DEF TypeAssumption
<1>2. ASSUME NEW g, NEW h, NEW s \in Type, \A m \in Type : m < s => g[m] = h[m]
      PROVE  FlatIn(g, s) = FlatIn(h, s)
  BY <1>2, TableFacts DEF FlatIn
<1>3. Flats!Ranked(0) /\ Flats!Local(0)
  BY <1>1, <1>2 DEF Flats!Local, Flats!Ranked
<1>4. Flat = CHOOSE g : g = [n \in Type |-> FlatIn(g, n)]
  BY DEF Flat
<1>5. Flat = [n \in Type |-> FlatIn(Flat, n)]
  BY <1>3, <1>4, Flats!RecursiveFunction
<1> QED
  BY <1>5

(* A member has a type of the table, an earlier one, and an offset.        *)
LEMMA MemberFacts ==
    ASSUME uniqtype \in Tables, NEW t \in Type, HasSubobjects(t), NEW j \in 0 .. Members(t) - 1
    PROVE  /\ ElementType(t, j) \in Type /\ ElementType(t, j) < t
           /\ MemberOffset(t, j) \in Nat
<1> USE DEF HasSubobjects, Members, ElementType, MemberOffset
<1>1. CASE uniqtype[t].kind = "composite"
  <2>1. j + 1 \in 1 .. Len(uniqtype[t].related)
    BY <1>1, TableFacts
  <2> QED
    BY <1>1, <2>1, TableFacts
<1>2. CASE uniqtype[t].kind = "array"
  <2> DEFINE e == uniqtype[t].related[1].type
  <2>1. e \in Type /\ e < t
    BY <1>2, TableFacts
  <2>2. uniqtype[e].pos_maxoff \in Nat
    BY <2>1, TableFacts
  <2>3. j * uniqtype[e].pos_maxoff \in Nat
    <3>1. \A m, n \in Nat : m * n \in Nat
      OBVIOUS
    <3>2. j \in Nat
      BY <1>2, TableFacts
    <3> QED
      BY <2>2, <3>1, <3>2
  <2> QED
    BY <1>2, <2>1, <2>3
<1> QED
  BY <1>1, <1>2

LEMMA MembersFacts ==
    ASSUME uniqtype \in Tables, NEW t \in Type, HasSubobjects(t)
    PROVE  Members(t) \in Nat
BY TableFacts DEF HasSubobjects, Members

(* The words of member j of an object of type t that lies at address a.    *)
MemberWords(a, t, j) == Shift(PointerWords[ElementType(t, j)], a + MemberOffset(t, j))

(* The pointer words of a type are those of its members.                   *)
LEMMA WordsOfMembers ==
    ASSUME uniqtype \in Tables, NEW t \in Type, HasSubobjects(t)
    PROVE  PointerWords[t] = UNION {MemberWords(0, t, j) : j \in 0 .. Members(t) - 1}
<1>1. PointerWords[t] = WordsOf(PointerWords, t)
  BY WordsEquation
<1>2. ASSUME NEW j \in 0 .. Members(t) - 1
      PROVE  MemberWords(0, t, j) = Shift(PointerWords[ElementType(t, j)], MemberOffset(t, j))
  <2>1. 0 + MemberOffset(t, j) = MemberOffset(t, j)
    BY MemberFacts
  <2> QED
    BY <2>1 DEF MemberWords
<1>3. CASE uniqtype[t].kind = "composite"
  <2> DEFINE n == Len(uniqtype[t].related)
             W(k) == Shift(PointerWords[uniqtype[t].related[k].type], uniqtype[t].related[k].off)
  <2>1. PointerWords[t] = UNION {W(k) : k \in 1 .. n}
    BY <1>1, <1>3 DEF WordsOf
  <2>2. Members(t) = n /\ n \in Nat
    BY <1>3, TableFacts DEF Members
  <2>3. \A j \in 0 .. n - 1 : MemberWords(0, t, j) = W(j + 1)
    BY <1>2, <1>3, <2>2 DEF ElementType, MemberOffset
  <2> HIDE DEF W, n
  <2>4. \A k \in 1 .. n : k - 1 \in 0 .. n - 1 /\ W((k - 1) + 1) = W(k)
    BY <2>2
  <2>5. \A k \in 1 .. n : W(k) = MemberWords(0, t, k - 1)
    BY <2>3, <2>4
  <2>6. \A j \in 0 .. n - 1 : j + 1 \in 1 .. n
    BY <2>2
  <2> QED
    BY <2>1, <2>2, <2>3, <2>4, <2>5, <2>6
<1>4. CASE uniqtype[t].kind = "array"
  <2> DEFINE e == uniqtype[t].related[1].type
             W(k) == Shift(PointerWords[e], k * uniqtype[e].pos_maxoff)
  <2>1. PointerWords[t] = UNION {W(k) : k \in 0 .. uniqtype[t].length - 1}
    BY <1>1, <1>4 DEF WordsOf
  <2>2. \A j \in 0 .. Members(t) - 1 : MemberWords(0, t, j) = W(j)
    BY <1>2, <1>4 DEF ElementType, MemberOffset
  <2>3. Members(t) = uniqtype[t].length
    BY <1>4 DEF Members
  <2> HIDE DEF W
  <2> QED
    BY <2>1, <2>2, <2>3
<1> QED
  BY <1>3, <1>4 DEF HasSubobjects

(* Offsets of words are natural numbers.                                   *)
LEMMA WordsAreNat ==
    ASSUME uniqtype \in Tables, NEW t \in Type
    PROVE  PointerWords[t] \subseteq Nat
<1> DEFINE D == {s \in Type : ~(PointerWords[s] \subseteq Nat)}
<1> SUFFICES ASSUME D # {} PROVE FALSE
  OBVIOUS
<1>1. PICK s \in D : \A r \in D : s <= r
  <2>1. D \in SUBSET Nat
    BY TypeAssumption DEF TypeAssumption
  <2> HIDE DEF D
  <2> QED
    BY <2>1, Words!LeastNat
<1>2. ~HasSubobjects(s)
  <2> SUFFICES ASSUME HasSubobjects(s) PROVE FALSE
    OBVIOUS
  <2>1. ASSUME NEW j \in 0 .. Members(s) - 1
        PROVE  MemberWords(0, s, j) \subseteq Nat
    <3>1. ElementType(s, j) \in Type /\ ElementType(s, j) < s /\ MemberOffset(s, j) \in Nat
      BY MemberFacts
    <3>2. ElementType(s, j) \in Nat /\ s \in Nat
      BY <3>1, TableFacts
    <3>3. PointerWords[ElementType(s, j)] \subseteq Nat
      BY <1>1, <3>1, <3>2
    <3> QED
      BY <3>1, <3>3 DEF MemberWords, Shift
  <2>2. PointerWords[s] = UNION {MemberWords(0, s, j) : j \in 0 .. Members(s) - 1}
    BY WordsOfMembers
  <2> QED
    BY <2>1, <2>2
<1>3. uniqtype[s].kind \in {"base", "pointer"}
  BY <1>2, TableFacts DEF HasSubobjects, Kind
<1>4. PointerWords[s] \in {{}, {0}}
  BY <1>3, WordsEquation DEF WordsOf
<1> QED
  BY <1>4


-----------------------------------------------------------------------------
(* The invariant.                                                          *)

(* The activations, from the object on; a nested one is that of the member *)
(* before the one at which the activation around it stands.                *)
StackInv ==
    /\ uniqtype \in Tables
    /\ object \in Type
    /\ stack \in Seq([address : Nat, type : Type, i : Nat])
    /\ read \in Seq(Nat)

(* The words an activation still has before it.                            *)
Pending(a) ==
    UNION {MemberWords(a.address, a.type, j) : j \in a.i .. Members(a.type) - 1}

(* All that is read, or will be from where the activations are, are words  *)
(* of the object at which there is a pointer.                              *)
WordsInv ==
    /\ WordsRead \subseteq PointerWords[object]
    /\ \A k \in 1 .. Len(stack) :
          Shift(PointerWords[stack[k].type], stack[k].address) \subseteq PointerWords[object]

(* In a flat object, what is not read yet is before some activation.       *)
PendingInv ==
    HasSubobjects(object) /\ Flat[object] =>
        /\ \A k \in 1 .. Len(stack) : HasSubobjects(stack[k].type) /\ Flat[stack[k].type]
        /\ \A w \in PointerWords[object] :
              w \in WordsRead \/ \E k \in 1 .. Len(stack) : w \in Pending(stack[k])

IInv == StackInv /\ TypeOK /\ WordsInv /\ PendingInv

(* The words of an object at a, member by member.                          *)
LEMMA ShiftedWords ==
    ASSUME uniqtype \in Tables, NEW t \in Type, HasSubobjects(t), NEW a \in Nat
    PROVE  Shift(PointerWords[t], a) = UNION {MemberWords(a, t, j) : j \in 0 .. Members(t) - 1}
<1>1. PointerWords[t] = UNION {MemberWords(0, t, j) : j \in 0 .. Members(t) - 1}
  BY WordsOfMembers
<1>2. ASSUME NEW j \in 0 .. Members(t) - 1
      PROVE  Shift(MemberWords(0, t, j), a) = MemberWords(a, t, j)
  <2> DEFINE m == MemberOffset(t, j)
             P == PointerWords[ElementType(t, j)]
  <2>1. m \in Nat /\ P \subseteq Nat
    BY MemberFacts, WordsAreNat
  <2>2. \A w \in P : w + (0 + m) + a = w + (a + m)
    BY <2>1
  <2> QED
    BY <2>2 DEF Shift, MemberWords
<1>3. Shift(UNION {MemberWords(0, t, j) : j \in 0 .. Members(t) - 1}, a)
         = UNION {Shift(MemberWords(0, t, j), a) : j \in 0 .. Members(t) - 1}
  BY DEF Shift
<1> QED
  BY <1>1, <1>2, <1>3

LEMMA InitIInv == Init => IInv
<1> SUFFICES ASSUME Init PROVE IInv
  OBVIOUS
<1> DEFINE a == Activation(0, object)
<1>1. uniqtype \in Tables /\ object \in Type /\ stack = <<a>> /\ read = <<>>
  BY DEF Init
<1>2. a \in [address : Nat, type : Type, i : Nat] /\ a.address = 0 /\ a.type = object /\ a.i = 0
  BY <1>1 DEF Activation
<1>3. Len(stack) = 1 /\ stack[1] = a /\ stack \in Seq({a}) /\ WordsRead = {}
  BY <1>1 DEF WordsRead
<1>4. StackInv
  BY <1>1, <1>2 DEF StackInv
<1>5. TypeOK
  BY <1>1, <1>2, <1>3, MembersFacts DEF TypeOK
<1>6. Shift(PointerWords[object], 0) = PointerWords[object]
  BY <1>1, WordsAreNat DEF Shift
<1>7. WordsInv
  BY <1>2, <1>3, <1>6 DEF WordsInv
<1>8. ASSUME HasSubobjects(object) PROVE PointerWords[object] = Pending(a)
  BY <1>1, <1>2, <1>6, <1>8, ShiftedWords DEF Pending
<1>9. PendingInv
  BY <1>2, <1>3, <1>8 DEF PendingInv
<1> QED
  BY <1>4, <1>5, <1>7, <1>9 DEF IInv


-----------------------------------------------------------------------------
(* Steps.                                                                  *)

(* The table does not change, nor does what is said of it.                 *)
LEMMA SameTable ==
    ASSUME uniqtype' = uniqtype
    PROVE  /\ PointerWords' = PointerWords
           /\ Flat' = Flat
           /\ \A t : HasSubobjects(t)' = HasSubobjects(t) /\ Members(t)' = Members(t)
           /\ \A t, j : ElementType(t, j)' = ElementType(t, j) /\ MemberOffset(t, j)' = MemberOffset(t, j)
           /\ \A a, t, j : MemberWords(a, t, j)' = MemberWords(a, t, j)
           /\ \A a : Pending(a)' = Pending(a)
<1>1. PointerWords' = PointerWords
  BY DEF PointerWords, WordsOf
<1>2. Flat' = Flat
  BY DEF Flat, FlatIn
<1>3. \A t : HasSubobjects(t)' = HasSubobjects(t) /\ Members(t)' = Members(t)
  BY DEF HasSubobjects, Members
<1>4. \A t, j : ElementType(t, j)' = ElementType(t, j)
  BY DEF ElementType
<1>5. \A t, j : MemberOffset(t, j)' = MemberOffset(t, j)
  BY <1>4 DEF MemberOffset
<1>6. \A a, t, j : MemberWords(a, t, j)' = MemberWords(a, t, j)
  BY <1>1, <1>4, <1>5 DEF MemberWords
<1>7. \A a : Pending(a)' = Pending(a)
  BY <1>3, <1>6 DEF Pending
<1> QED
  BY <1>1, <1>2, <1>3, <1>4, <1>5, <1>6, <1>7

LEMMA TopFacts ==
    ASSUME StackInv, stack # <<>>
    PROVE  /\ Len(stack) \in Nat \ {0}
           /\ Top \in [address : Nat, type : Type, i : Nat]
           /\ Advanced \in Seq([address : Nat, type : Type, i : Nat])
           /\ Len(Advanced) = Len(stack)
           /\ \A k \in 1 .. Len(stack) - 1 : Advanced[k] = stack[k]
           /\ Advanced[Len(stack)] = [Top EXCEPT !.i = @ + 1]
<1> DEFINE A == [address : Nat, type : Type, i : Nat]
           n == Len(stack)
<1>1. stack \in Seq(A) /\ n \in Nat \ {0} /\ n \in 1 .. n /\ stack[n] \in A
  <2>1. stack \in Seq(A) /\ stack # <<>>
    BY DEF StackInv
  <2> HIDE DEF A
  <2>2. n \in Nat \ {0}
    BY <2>1
  <2>3. n \in 1 .. n
    BY <2>2
  <2> QED
    BY <2>1, <2>2, <2>3
<1>2. Top = stack[n]
  BY DEF Top
<1>3. [Top EXCEPT !.i = @ + 1] \in A
  BY <1>1, <1>2
<1>4. Advanced = [stack EXCEPT ![n] = [Top EXCEPT !.i = @ + 1]]
  BY <1>2 DEF Advanced
<1> HIDE DEF A
<1>5. \A s \in Seq(A), e \in A : \A k \in 1 .. Len(s) :
         /\ [s EXCEPT ![k] = e] \in Seq(A) /\ Len([s EXCEPT ![k] = e]) = Len(s)
         /\ \A m \in 1 .. Len(s) : [s EXCEPT ![k] = e][m] = IF m = k THEN e ELSE s[m]
  OBVIOUS
<1> QED
  BY <1>1, <1>2, <1>3, <1>4, <1>5 DEF A

(* The member at which the innermost activation stands.                    *)
LEMMA ElementFacts ==
    ASSUME IInv, stack # <<>>, AtMember
    PROVE  /\ Element \in Type /\ Address \in Nat
           /\ Top.i \in 0 .. Members(Top.type) - 1 /\ Members(Top.type) \in Nat
           /\ MemberWords(Top.address, Top.type, Top.i) = Shift(PointerWords[Element], Address)
           /\ Shift(PointerWords[Element], Address) \subseteq PointerWords[object]
           /\ \A w \in Pending(Top) :
                 \/ w \in Shift(PointerWords[Element], Address)
                 \/ w \in Pending([Top EXCEPT !.i = @ + 1])
<1> DEFINE t == Top.type
<1>1. t \in Type /\ Top.i \in Nat /\ Top.address \in Nat /\ uniqtype \in Tables
  BY TopFacts DEF IInv, StackInv
<1>2. Top.i \in 0 .. Members(t) - 1 /\ Members(t) \in Nat /\ HasSubobjects(t)
  BY <1>1, MembersFacts DEF AtMember
<1>3. Element \in Type /\ MemberOffset(t, Top.i) \in Nat
  BY <1>1, <1>2, MemberFacts DEF Element
<1>4. MemberWords(Top.address, t, Top.i) = Shift(PointerWords[Element], Address)
  BY DEF MemberWords, Element, Address
<1>5. Shift(PointerWords[Element], Address) \subseteq PointerWords[object]
  <2>1. Len(stack) \in 1 .. Len(stack) /\ stack[Len(stack)] = Top
    BY TopFacts DEF IInv, Top
  <2>2. Shift(PointerWords[t], Top.address) \subseteq PointerWords[object]
    BY <2>1 DEF IInv, WordsInv
  <2>3. Shift(PointerWords[t], Top.address)
           = UNION {MemberWords(Top.address, t, j) : j \in 0 .. Members(t) - 1}
    BY <1>1, <1>2, ShiftedWords
  <2> QED
    BY <1>2, <1>4, <2>2, <2>3
<1>6. ASSUME NEW w \in Pending(Top)
      PROVE  \/ w \in Shift(PointerWords[Element], Address)
             \/ w \in Pending([Top EXCEPT !.i = @ + 1])
  <2> DEFINE next == [Top EXCEPT !.i = @ + 1]
  <2>1. next.address = Top.address /\ next.type = t /\ next.i = Top.i + 1
    BY TopFacts DEF IInv
  <2>2. PICK j \in Top.i .. Members(t) - 1 : w \in MemberWords(Top.address, t, j)
    BY DEF Pending
  <2>3. j = Top.i \/ j \in Top.i + 1 .. Members(t) - 1
    BY <1>2
  <2> HIDE DEF next
  <2>4. w \in Shift(PointerWords[Element], Address) \/ w \in Pending(next)
    BY <1>4, <2>1, <2>2, <2>3 DEF Pending
  <2> QED
    BY <2>4 DEF next
<1> QED
  BY <1>1, <1>2, <1>3, <1>4, <1>5, <1>6 DEF Address


(* What TypeOK, WordsInv and PendingInv say of a stack s.                  *)
Nested(s) ==
    /\ \A k \in 1 .. Len(s) :
          HasSubobjects(s[k].type) => s[k].i \in 0 .. Members(s[k].type)
    /\ \A k \in 1 .. Len(s) - 1 :
          /\ s[k + 1].type = ElementType(s[k].type, s[k].i - 1)
          /\ s[k + 1].address = s[k].address + MemberOffset(s[k].type, s[k].i - 1)

WithinObject(s) ==
    \A k \in 1 .. Len(s) :
        Shift(PointerWords[s[k].type], s[k].address) \subseteq PointerWords[object]

AllFlat(s) == \A k \in 1 .. Len(s) : HasSubobjects(s[k].type) /\ Flat[s[k].type]

Left(s, w) == \E k \in 1 .. Len(s) : w \in Pending(s[k])

LEMMA StackOfInv ==
    ASSUME IInv
    PROVE  /\ Nested(stack) /\ WithinObject(stack)
           /\ HasSubobjects(object) /\ Flat[object] => AllFlat(stack)
BY DEF IInv, TypeOK, WordsInv, PendingInv, Nested, WithinObject, AllFlat

(* The invariant after a step, from what holds of the stack it leaves.     *)
LEMMA InvOfStack ==
    ASSUME IInv, NEW s \in Seq([address : Nat, type : Type, i : Nat]), stack' = s,
           uniqtype' = uniqtype, object' = object, read' \in Seq(Nat),
           Nested(s), WithinObject(s), WordsRead' \subseteq PointerWords[object],
           HasSubobjects(object) /\ Flat[object] =>
               AllFlat(s) /\ \A w \in PointerWords[object] : w \in WordsRead' \/ Left(s, w)
    PROVE  IInv'
<1> DEFINE A == [address : Nat, type : Type, i : Nat]
<1>1. StackInv'
  BY DEF IInv, StackInv
<1>2. \A k \in 1 .. Len(s) : s[k].type \in Type /\ s[k].address \in Nat
  <2>1. \A k \in 1 .. Len(s) : s[k] \in A
    <3>1. s \in Seq(A)
      OBVIOUS
    <3> HIDE DEF A
    <3> QED
      BY <3>1
  <2> QED
    BY <2>1
<1>3. TypeOK'
  <2>1. object' \in Type
    BY DEF IInv, StackInv
  <2>2. \A t : HasSubobjects(t)' = HasSubobjects(t) /\ Members(t)' = Members(t)
    BY SameTable
  <2>3. \A t, j : ElementType(t, j)' = ElementType(t, j) /\ MemberOffset(t, j)' = MemberOffset(t, j)
    BY SameTable
  <2> QED
    BY <1>2, <2>1, <2>2, <2>3 DEF TypeOK, Nested
<1>4. WordsInv'
  BY SameTable DEF WordsInv, WithinObject, Shift
<1>5. PendingInv'
  <2>1. PointerWords' = PointerWords /\ Flat' = Flat
    BY SameTable
  <2>2. \A t : HasSubobjects(t)' = HasSubobjects(t)
    BY SameTable
  <2>3. \A a : Pending(a)' = Pending(a)
    BY SameTable
  <2> QED
    BY <2>1, <2>2, <2>3 DEF PendingInv, AllFlat, Left
<1> QED
  BY <1>1, <1>3, <1>4, <1>5 DEF IInv

(* Going on to the next member.                                            *)
LEMMA AdvancedStack ==
    ASSUME IInv, stack # <<>>, AtMember
    PROVE  /\ Nested(Advanced) /\ WithinObject(Advanced)
           /\ HasSubobjects(object) /\ Flat[object] => AllFlat(Advanced)
           /\ \A w : Left(stack, w) => Left(Advanced, w) \/ w \in Shift(PointerWords[Element], Address)
<1> DEFINE n == Len(stack)
           next == [Top EXCEPT !.i = @ + 1]
<1>1. /\ n \in Nat \ {0} /\ Len(Advanced) = n /\ stack[n] = Top /\ Advanced[n] = next
      /\ \A k \in 1 .. n - 1 : Advanced[k] = stack[k]
  BY TopFacts DEF IInv, Top
<1>2. /\ next.type = Top.type /\ next.address = Top.address /\ next.i = Top.i + 1
      /\ next.i \in 0 .. Members(Top.type)
  BY ElementFacts, TopFacts DEF IInv
<1> HIDE DEF next, n
<1>3. \A k \in 1 .. n :
         /\ Advanced[k].type = stack[k].type /\ Advanced[k].address = stack[k].address
         /\ k # n => Advanced[k] = stack[k]
  BY <1>1, <1>2
<1>4. Len(stack) = n
  BY DEF n
<1>5. Nested(Advanced)
  <2>1. ASSUME NEW k \in 1 .. n, HasSubobjects(Advanced[k].type)
        PROVE  Advanced[k].i \in 0 .. Members(Advanced[k].type)
    BY <1>1, <1>2, <1>3, <1>4, <2>1, StackOfInv DEF Nested
  <2>2. ASSUME NEW k \in 1 .. n - 1
        PROVE  /\ Advanced[k + 1].type = ElementType(Advanced[k].type, Advanced[k].i - 1)
               /\ Advanced[k + 1].address
                     = Advanced[k].address + MemberOffset(Advanced[k].type, Advanced[k].i - 1)
    <3>1. k \in 1 .. n /\ k + 1 \in 1 .. n /\ k # n
      BY <1>1
    <3> QED
      BY <1>3, <1>4, <3>1, StackOfInv DEF Nested
  <2> QED
    BY <1>1, <2>1, <2>2 DEF Nested
<1>6. WithinObject(Advanced)
  BY <1>1, <1>3, <1>4, StackOfInv DEF WithinObject
<1>7. ASSUME HasSubobjects(object) /\ Flat[object] PROVE AllFlat(Advanced)
  BY <1>1, <1>3, <1>4, <1>7, StackOfInv DEF AllFlat
<1>8. ASSUME NEW w, Left(stack, w)
      PROVE  Left(Advanced, w) \/ w \in Shift(PointerWords[Element], Address)
  <2>1. PICK k \in 1 .. n : w \in Pending(stack[k])
    BY <1>4, <1>8 DEF Left
  <2>2. CASE k # n
    BY <1>1, <1>3, <2>1, <2>2 DEF Left
  <2>3. CASE k = n
    <3>1. w \in Pending(next) \/ w \in Shift(PointerWords[Element], Address)
      BY <1>1, <2>1, <2>3, ElementFacts DEF next
    <3>2. n \in 1 .. n
      BY <1>1
    <3> QED
      BY <1>1, <3>1, <3>2 DEF Left
  <2> QED
    BY <2>2, <2>3
<1> QED
  BY <1>5, <1>6, <1>7, <1>8


(* A flat object has no array and only flat objects for members.           *)
LEMMA FlatElement ==
    ASSUME IInv, stack # <<>>, AtMember, HasSubobjects(object), Flat[object]
    PROVE  Flat[Element] /\ uniqtype[Element].kind # "array"
<1> DEFINE r == uniqtype[Top.type].related
<1>1. uniqtype \in Tables
  BY DEF IInv, StackInv
<1>2. Flat[Top.type] /\ HasSubobjects(Top.type) /\ Top.type \in Type
  <2>1. Len(stack) \in 1 .. Len(stack) /\ stack[Len(stack)] = Top /\ Top.type \in Type
    BY TopFacts DEF IInv, Top
  <2> QED
    BY <2>1, StackOfInv DEF AllFlat
<1>3. FlatIn(Flat, Top.type)
  BY <1>1, <1>2, FlatEquation
<1>4. \E k \in 1 .. Len(r) : Element = r[k].type
  <2>1. CASE uniqtype[Top.type].kind = "array"
    BY <1>1, <1>2, <2>1, TableFacts DEF Element, ElementType
  <2>2. CASE uniqtype[Top.type].kind = "composite"
    <3>1. Top.i + 1 \in 1 .. Len(r)
      BY <2>2, ElementFacts DEF Members
    <3> QED
      BY <2>2, <3>1 DEF Element, ElementType
  <2> QED
    BY <1>2, <2>1, <2>2 DEF HasSubobjects
<1> QED
  BY <1>3, <1>4 DEF FlatIn

LEMMA ReadPointerInv ==
    ASSUME IInv, ReadPointer
    PROVE  IInv'
<1>1. /\ stack # <<>> /\ AtMember /\ uniqtype[Element].kind = "pointer"
      /\ read' = Append(read, Address) /\ stack' = Advanced
      /\ uniqtype' = uniqtype /\ object' = object
  BY DEF ReadPointer
<1>2. Advanced \in Seq([address : Nat, type : Type, i : Nat])
  BY <1>1, TopFacts DEF IInv
<1>3. Element \in Type /\ Address \in Nat /\ uniqtype \in Tables /\ read \in Seq(Nat)
  BY <1>1, ElementFacts DEF IInv, StackInv
<1>4. Shift(PointerWords[Element], Address) = {Address}
  <2>1. PointerWords[Element] = {0}
    BY <1>1, <1>3, WordsEquation DEF WordsOf
  <2> QED
    BY <1>3, <2>1 DEF Shift
<1>5. read' \in Seq(Nat)
  BY <1>1, <1>3
<1>6. WordsRead' = WordsRead \cup {Address}
  BY <1>1, <1>3 DEF WordsRead
<1>7. WordsRead' \subseteq PointerWords[object]
  BY <1>1, <1>4, <1>6, ElementFacts DEF IInv, WordsInv
<1>8. ASSUME HasSubobjects(object), Flat[object], NEW w \in PointerWords[object]
      PROVE  w \in WordsRead' \/ Left(Advanced, w)
  <2>1. w \in WordsRead \/ Left(stack, w)
    BY <1>8 DEF IInv, PendingInv, Left
  <2> QED
    BY <1>1, <1>4, <1>6, <2>1, AdvancedStack
<1> QED
  BY <1>1, <1>2, <1>5, <1>7, <1>8, AdvancedStack, InvOfStack

LEMMA RecurseInv ==
    ASSUME IInv, Recurse
    PROVE  IInv'
<1> DEFINE a == Activation(Address, Element)
           s == Append(Advanced, a)
           n == Len(stack)
<1>1. /\ stack # <<>> /\ AtMember /\ uniqtype[Element].kind = "composite"
      /\ stack' = s /\ UNCHANGED <<uniqtype, object, read>>
  BY DEF Recurse
<1>2. Element \in Type /\ Address \in Nat /\ uniqtype \in Tables /\ read \in Seq(Nat)
  BY <1>1, ElementFacts DEF IInv, StackInv
<1>3. /\ a \in [address : Nat, type : Type, i : Nat]
      /\ a.address = Address /\ a.type = Element /\ a.i = 0
  BY <1>2 DEF Activation
<1>4. /\ n \in Nat \ {0} /\ Len(Advanced) = n
      /\ Advanced \in Seq([address : Nat, type : Type, i : Nat])
      /\ Advanced[n].type = Top.type /\ Advanced[n].address = Top.address
      /\ Advanced[n].i - 1 = Top.i
  <2>1. /\ n \in Nat \ {0} /\ Len(Advanced) = n
        /\ Advanced \in Seq([address : Nat, type : Type, i : Nat])
        /\ Advanced[n] = [Top EXCEPT !.i = @ + 1]
        /\ Top \in [address : Nat, type : Type, i : Nat]
    BY <1>1, TopFacts DEF IInv
  <2>2. /\ Advanced[n].type = Top.type /\ Advanced[n].address = Top.address
        /\ Advanced[n].i = Top.i + 1
    BY <2>1
  <2>3. Top.i \in Nat
    BY <2>1
  <2> QED
    BY <2>1, <2>2, <2>3
<1> HIDE DEF a, n
<1>5. /\ s \in Seq([address : Nat, type : Type, i : Nat])
      /\ Len(s) = n + 1 /\ s[n + 1] = a /\ \A k \in 1 .. n : s[k] = Advanced[k]
  BY <1>3, <1>4
<1> HIDE DEF s
<1>6. HasSubobjects(Element) /\ Members(Element) \in Nat
  BY <1>1, <1>2, MembersFacts DEF HasSubobjects
<1>7. Nested(s)
  <2>1. ASSUME NEW k \in 1 .. n + 1, HasSubobjects(s[k].type)
        PROVE  s[k].i \in 0 .. Members(s[k].type)
    <3>1. CASE k = n + 1
      BY <1>3, <1>5, <1>6, <3>1
    <3>2. CASE k \in 1 .. n
      BY <1>1, <1>4, <1>5, <2>1, <3>2, AdvancedStack DEF Nested
    <3> QED
      BY <1>4, <3>1, <3>2
  <2>2. ASSUME NEW k \in 1 .. n
        PROVE  /\ s[k + 1].type = ElementType(s[k].type, s[k].i - 1)
               /\ s[k + 1].address = s[k].address + MemberOffset(s[k].type, s[k].i - 1)
    <3>1. CASE k = n
      BY <1>3, <1>4, <1>5, <3>1 DEF Element, Address
    <3>2. CASE k # n
      <4>1. k \in 1 .. n - 1 /\ k + 1 \in 1 .. n
        BY <1>4, <3>2
      <4> QED
        BY <1>1, <1>4, <1>5, <4>1, AdvancedStack DEF Nested
    <3> QED
      BY <3>1, <3>2
  <2>3. (n + 1) - 1 = n
    BY <1>4
  <2> QED
    BY <1>5, <2>1, <2>2, <2>3 DEF Nested
<1>8. \A k \in 1 .. n + 1 : k = n + 1 \/ k \in 1 .. n
  BY <1>4
<1>9. WithinObject(s)
  BY <1>1, <1>3, <1>4, <1>5, <1>8, ElementFacts, AdvancedStack DEF WithinObject
<1>10. WordsRead' = WordsRead /\ WordsRead' \subseteq PointerWords[object]
  BY <1>1 DEF WordsRead, IInv, WordsInv
<1>11. ASSUME HasSubobjects(object), Flat[object]
       PROVE  AllFlat(s) /\ \A w \in PointerWords[object] : w \in WordsRead' \/ Left(s, w)
  <2>1. Flat[Element]
    BY <1>1, <1>11, FlatElement
  <2>2. AllFlat(s)
    BY <1>1, <1>3, <1>4, <1>5, <1>6, <1>8, <1>11, <2>1, AdvancedStack DEF AllFlat
  <2>3. Shift(PointerWords[Element], Address) = Pending(a)
    BY <1>2, <1>3, <1>6, ShiftedWords DEF Pending
  <2>4. ASSUME NEW w \in PointerWords[object] PROVE w \in WordsRead \/ Left(s, w)
    <3>1. w \in WordsRead \/ Left(stack, w)
      BY <1>11 DEF IInv, PendingInv, Left
    <3>2. w \in WordsRead \/ Left(Advanced, w) \/ w \in Pending(a)
      BY <1>1, <2>3, <3>1, AdvancedStack
    <3>3. n + 1 \in 1 .. n + 1 /\ \A k \in 1 .. n : k \in 1 .. n + 1
      BY <1>4
    <3> QED
      BY <1>4, <1>5, <3>2, <3>3 DEF Left
  <2> QED
    BY <1>10, <2>2, <2>4
<1>12. stack' = s /\ uniqtype' = uniqtype /\ object' = object /\ read' \in Seq(Nat)
  BY <1>1, <1>2
<1> QED
  BY <1>5, <1>7, <1>9, <1>10, <1>11, <1>12, InvOfStack


LEMMA PassOverInv ==
    ASSUME IInv, PassOver
    PROVE  IInv'
<1>1. /\ stack # <<>> /\ AtMember /\ uniqtype[Element].kind \notin {"pointer", "composite"}
      /\ stack' = Advanced /\ UNCHANGED <<uniqtype, object, read>>
  BY DEF PassOver
<1>2. Advanced \in Seq([address : Nat, type : Type, i : Nat])
  BY <1>1, TopFacts DEF IInv
<1>3. Element \in Type /\ uniqtype \in Tables /\ read' \in Seq(Nat)
  BY <1>1, ElementFacts DEF IInv, StackInv
<1>4. WordsRead' = WordsRead /\ WordsRead' \subseteq PointerWords[object]
  BY <1>1 DEF WordsRead, IInv, WordsInv
<1>5. ASSUME HasSubobjects(object), Flat[object], NEW w \in PointerWords[object]
      PROVE  w \in WordsRead \/ Left(Advanced, w)
  <2>1. uniqtype[Element].kind = "base"
    BY <1>1, <1>3, <1>5, FlatElement, TableFacts DEF Kind
  <2>2. Shift(PointerWords[Element], Address) = {}
    <3>1. PointerWords[Element] = {}
      BY <1>3, <2>1, WordsEquation DEF WordsOf
    <3> QED
      BY <3>1 DEF Shift
  <2>3. w \in WordsRead \/ Left(stack, w)
    BY <1>5 DEF IInv, PendingInv, Left
  <2> QED
    BY <1>1, <2>2, <2>3, AdvancedStack
<1> QED
  BY <1>1, <1>2, <1>3, <1>4, <1>5, AdvancedStack, InvOfStack

LEMMA ReturnInv ==
    ASSUME IInv, ReturnFromObject
    PROVE  IInv'
<1> DEFINE n == Len(stack)
           s == SubSeq(stack, 1, n - 1)
           A == [address : Nat, type : Type, i : Nat]
<1>1. stack # <<>> /\ ~AtMember /\ stack' = s /\ UNCHANGED <<uniqtype, object, read>>
  BY DEF ReturnFromObject
<1>2. n \in Nat \ {0} /\ n \in 1 .. n /\ stack[n] = Top /\ Top \in A /\ stack \in Seq(A)
  BY <1>1, TopFacts DEF IInv, StackInv, Top
<1>3. s \in Seq(A) /\ Len(s) = n - 1 /\ \A k \in 1 .. n - 1 : s[k] = stack[k]
  <2> HIDE DEF A
  <2>1. \A k \in 1 .. n - 1 : k \in 1 .. n
    BY <1>2
  <2>2. s = [k \in 1 .. n - 1 |-> stack[k]]
    BY <1>2
  <2>3. \A k \in 1 .. n - 1 : stack[k] \in A
    BY <1>2, <2>1
  <2>4. n - 1 \in Nat
    BY <1>2
  <2> HIDE DEF s, n
  <2> QED
    BY <2>2, <2>3, <2>4
<1>4. n = Len(stack)
  OBVIOUS
<1> HIDE DEF n, s
<1>5. /\ \A k \in 1 .. n - 1 : k \in 1 .. n
      /\ \A k \in 1 .. (n - 1) - 1 : k \in 1 .. n - 1 /\ k + 1 \in 1 .. n - 1
      /\ \A k \in 1 .. n : k = n \/ k \in 1 .. n - 1
  BY <1>2
<1>6. Nested(s)
  BY <1>3, <1>4, <1>5, StackOfInv DEF Nested
<1>7. WithinObject(s)
  BY <1>3, <1>4, <1>5, StackOfInv DEF WithinObject
<1>8. uniqtype \in Tables /\ read' \in Seq(Nat)
  BY <1>1 DEF IInv, StackInv
<1>9. WordsRead' = WordsRead /\ WordsRead' \subseteq PointerWords[object]
  BY <1>1 DEF WordsRead, IInv, WordsInv
<1>10. ASSUME HasSubobjects(object), Flat[object]
       PROVE  AllFlat(s) /\ \A w \in PointerWords[object] : w \in WordsRead' \/ Left(s, w)
  <2>1. AllFlat(stack)
    BY <1>10, StackOfInv
  <2>2. AllFlat(s)
    BY <1>3, <1>4, <1>5, <2>1 DEF AllFlat
  <2>3. Pending(Top) = {}
    <3>1. HasSubobjects(Top.type) /\ Top.type \in Type /\ Top.i \in Nat
      BY <1>2, <1>4, <2>1 DEF AllFlat
    <3>2. Members(Top.type) \in Nat /\ ~(Top.i < Members(Top.type))
      BY <1>1, <1>8, <3>1, MembersFacts DEF AtMember
    <3>3. Top.i .. Members(Top.type) - 1 = {}
      BY <3>1, <3>2
    <3> QED
      BY <3>3 DEF Pending
  <2>4. ASSUME NEW w \in PointerWords[object] PROVE w \in WordsRead \/ Left(s, w)
    <3>1. w \in WordsRead \/ \E k \in 1 .. n : w \in Pending(stack[k])
      BY <1>4, <1>10 DEF IInv, PendingInv
    <3> QED
      BY <1>2, <1>3, <1>5, <2>3, <3>1 DEF Left
  <2> QED
    BY <1>9, <2>2, <2>4
<1> QED
  BY <1>1, <1>3, <1>6, <1>7, <1>8, <1>9, <1>10, InvOfStack

LEMMA Invariance == Spec => []IInv
<1>1. IInv /\ [Next]_vars => IInv'
  <2> SUFFICES ASSUME IInv, [Next]_vars PROVE IInv'
    OBVIOUS
  <2>1. CASE Next
    BY <2>1, ReadPointerInv, RecurseInv, PassOverInv, ReturnInv DEF Next
  <2>2. CASE UNCHANGED vars
    <3>1. UNCHANGED <<uniqtype, object, stack, read>>
      BY <2>2 DEF vars
    <3>2. WordsRead' = WordsRead
      BY <3>1 DEF WordsRead
    <3>3. stack \in Seq([address : Nat, type : Type, i : Nat]) /\ read' \in Seq(Nat)
          /\ WordsRead' \subseteq PointerWords[object]
      BY <3>1, <3>2 DEF IInv, StackInv, WordsInv
    <3>4. ASSUME HasSubobjects(object), Flat[object], NEW w \in PointerWords[object]
          PROVE  w \in WordsRead' \/ Left(stack, w)
      BY <3>2, <3>4 DEF IInv, PendingInv, Left
    <3> QED
      BY <3>1, <3>3, <3>4, StackOfInv, InvOfStack
  <2> QED
    BY <2>1, <2>2
<1> QED
  BY <1>1, InitIInv, PTL DEF Spec

-----------------------------------------------------------------------------
(* Theorems.                                                               *)

(* The variables keep their types, and the activations are nested as the   *)
(* types of the object are, for any table of types.                        *)
THEOREM TypeCorrect == Spec => []TypeOK
<1>1. IInv => TypeOK
  BY DEF IInv
<1> QED
  BY <1>1, Invariance, PTL

(* process_heap_object_recursive gives no word to valid_heap_object that   *)
(* is not a pointer by the object's type, whatever that type is.           *)
THEOREM PointersOnly == Spec => []ReadsOnlyPointers
<1>1. IInv => ReadsOnlyPointers
  BY DEF IInv, WordsInv, ReadsOnlyPointers
<1> QED
  BY <1>1, Invariance, PTL

(* When it returns it has given all of them, if the object has subobjects  *)
(* and no array is nested in it.                                           *)
THEOREM FlatSearched == Spec => []FlatObjectsSearched
<1>1. IInv => FlatObjectsSearched
  <2> SUFFICES ASSUME IInv, stack = <<>>, HasSubobjects(object), Flat[object]
               PROVE  WordsRead = PointerWords[object]
    BY DEF FlatObjectsSearched
  <2>1. WordsRead \subseteq PointerWords[object]
    BY DEF IInv, WordsInv
  <2>2. \A w \in PointerWords[object] : w \in WordsRead
    BY DEF IInv, PendingInv
  <2> QED
    BY <2>1, <2>2
<1> QED
  BY <1>1, Invariance, PTL

=============================================================================
