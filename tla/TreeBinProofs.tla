---------------------------- MODULE TreeBinProofs ----------------------------
(***************************************************************************)
(* Proofs about TreeBin.                                                   *)
(***************************************************************************)
EXTENDS TreeBin, SequenceTheorems, FiniteSetTheorems, TLAPS

-----------------------------------------------------------------------------
(* Powers of two, quotients and remainders.                                *)

Powers == INSTANCE StructureLemmas WITH
    Dom <- LAMBDA c : Nat, Def <- LAMBDA c, f, k : IF k = 0 THEN 1 ELSE 2 * f[k - 1],
    Rank <- LAMBDA c, k : k, ListHead <- Null

LEMMA LeastOf ==
    ASSUME NEW S \in SUBSET Nat, S # {}
    PROVE  \E m \in S : \A k \in S : m <= k
BY Powers!LeastNat

LEMMA TwoEquation ==
    ASSUME NEW k \in Nat
    PROVE  Two[k] = IF k = 0 THEN 1 ELSE 2 * Two[k - 1]
<1>1. Powers!Ranked(0) /\ Powers!Local(0)
  BY DEF Powers!Ranked, Powers!Local
<1>2. Two = CHOOSE g : g = [n \in Nat |-> IF n = 0 THEN 1 ELSE 2 * g[n - 1]]
  BY DEF Two
<1>3. Two = [n \in Nat |-> IF n = 0 THEN 1 ELSE 2 * Two[n - 1]]
  BY <1>1, <1>2, Powers!RecursiveFunction
<1> QED
  BY <1>3

LEMMA TwoFacts ==
    /\ Two[0] = 1
    /\ \A k \in Nat : Two[k] \in Nat \ {0} /\ Two[k + 1] = 2 * Two[k]
<1>1. Two[0] = 1
  BY TwoEquation
<1>2. ASSUME NEW k \in Nat PROVE Two[k + 1] = 2 * Two[k]
  BY TwoEquation
<1> DEFINE D == {k \in Nat : Two[k] \notin Nat \ {0}}
<1>3. D = {}
  <2> SUFFICES ASSUME D # {} PROVE FALSE
    OBVIOUS
  <2>1. PICK k \in D : \A j \in D : k <= j
    BY LeastOf
  <2>2. k # 0
    BY <1>1
  <2>3. k - 1 \in Nat /\ k - 1 \notin D /\ k - 1 + 1 = k
    BY <2>1, <2>2
  <2>4. Two[k] = 2 * Two[k - 1]
    BY <1>2, <2>3
  <2> QED
    BY <2>3, <2>4
<1> QED
  BY <1>1, <1>2, <1>3

LEMMA TwoSum ==
    ASSUME NEW a \in Nat, NEW b \in Nat
    PROVE  Two[a + b] = Two[a] * Two[b]
<1> DEFINE D == {k \in Nat : Two[a + k] # Two[a] * Two[k]}
<1> SUFFICES ASSUME D # {} PROVE FALSE
  OBVIOUS
<1>1. PICK k \in D : \A j \in D : k <= j
  BY LeastOf
<1>2. k # 0
  BY TwoFacts
<1> DEFINE j == k - 1
<1>3. j \in Nat /\ j \notin D /\ j + 1 = k /\ a + k = (a + j) + 1
  BY <1>1, <1>2
<1>4. Two[a + j] = Two[a] * Two[j]
  BY <1>3
<1>5. Two[k] = 2 * Two[j] /\ Two[a + k] = 2 * Two[a + j]
  BY <1>3, TwoFacts
<1>6. Two[a] \in Nat /\ Two[j] \in Nat
  BY <1>3, TwoFacts
<1>7. Two[a] * (2 * Two[j]) = 2 * (Two[a] * Two[j])
  BY <1>6
<1> QED
  BY <1>4, <1>5, <1>7

LEMMA TwoGrows ==
    ASSUME NEW a \in Nat, NEW b \in Nat
    PROVE  /\ a < b => 2 * Two[a] <= Two[b]
           /\ a <= b => Two[a] <= Two[b]
           /\ Two[a] < Two[b] => a < b
<1>1. ASSUME NEW x \in Nat, NEW y \in Nat, x <= y PROVE Two[x] <= Two[y]
  <2>1. PICK d \in Nat : y = x + d
    <3>1. y - x \in Nat /\ y = x + (y - x)
      BY <1>1
    <3> QED
      BY <3>1
  <2>2. Two[y] = Two[x] * Two[d]
    BY <2>1, TwoSum
  <2>3. Two[x] \in Nat /\ Two[d] \in Nat /\ Two[d] >= 1
    BY TwoFacts
  <2>4. \A u, v \in Nat : v >= 1 => u <= u * v
    OBVIOUS
  <2> QED
    BY <2>2, <2>3, <2>4
<1>2. a < b => 2 * Two[a] <= Two[b]
  BY <1>1, TwoFacts
<1> QED
  BY <1>1, <1>2, TwoFacts

(* Quotient and remainder are what they should be, and the only ones.      *)
LEMMA DivMod ==
    ASSUME NEW x \in Int, NEW m \in Nat \ {0}
    PROVE  x \div m \in Int /\ x % m \in 0 .. m - 1 /\ x = (x \div m) * m + (x % m)
<1>1. x = m * (x \div m) + (x % m)
  OBVIOUS
<1> QED
  BY <1>1

LEMMA DivModIs ==
    ASSUME NEW m \in Nat \ {0}, NEW q \in Int, NEW r \in 0 .. m - 1
    PROVE  (q * m + r) \div m = q /\ (q * m + r) % m = r
<1> DEFINE x == q * m + r
           d == x \div m
           e == x % m
<1>1. x \in Int
  OBVIOUS
<1>2. d \in Int /\ e \in 0 .. m - 1 /\ x = d * m + e
  BY <1>1, DivMod
<1>3. (d - q) * m = r - e
  <2> HIDE DEF d, e
  <2> QED
    BY <1>2
<1>4. \A k \in Int : k >= 1 => k * m >= m
  OBVIOUS
<1>5. \A k \in Int : k <= -1 => k * m <= -m
  OBVIOUS
<1>6. d - q = 0
  <2> HIDE DEF d, e
  <2> QED
    BY <1>2, <1>3, <1>4, <1>5
<1> HIDE DEF d, e
<1>7. d = q
  BY <1>2, <1>6
<1>8. e = r
  BY <1>2, <1>7
<1> QED
  BY <1>7, <1>8 DEF d, e

-----------------------------------------------------------------------------
(* Words: shifts and the top bit.                                          *)

LEMMA WordFacts ==
    /\ Width \in Nat /\ IntWidth \in Nat /\ TreeShift \in Nat /\ NTreeBins \in Nat
    /\ Width >= 2 /\ TreeShift >= 2 /\ NTreeBins >= 2
    /\ Two[Width] \in Nat \ {0} /\ Two[Width - 1] \in Nat \ {0}
    /\ Two[Width] = 2 * Two[Width - 1]
    /\ MinLarge \in Nat /\ MinLarge >= 4
    /\ Sizes \subseteq Word /\ Word \subseteq Nat
<1>1. /\ Width \in Nat /\ IntWidth \in Nat /\ TreeShift \in Nat /\ NTreeBins \in Nat
      /\ Width >= 2 /\ TreeShift >= 2 /\ NTreeBins >= 2
  BY TreeAssumption DEF TreeAssumption
<1>2. Width - 1 \in Nat /\ (Width - 1) + 1 = Width
  BY <1>1
<1>3. /\ Two[Width] \in Nat \ {0} /\ Two[Width - 1] \in Nat \ {0}
      /\ Two[Width] = 2 * Two[Width - 1]
  BY <1>1, <1>2, TwoFacts
<1>4. Two[1] = 2 /\ Two[2] = 4
  BY TwoFacts
<1>5. MinLarge \in Nat /\ MinLarge >= 4
  BY <1>1, <1>4, TwoFacts, TwoGrows DEF MinLarge
<1> QED
  BY <1>1, <1>3, <1>5 DEF Sizes, Word

LEMMA ShiftTwice ==
    ASSUME NEW x \in Nat, NEW j \in Nat, NEW k \in Nat
    PROVE  /\ ShiftLeft(x, j) \in Word
           /\ ShiftLeft(ShiftLeft(x, j), k) = ShiftLeft(x, j + k)
<1> DEFINE M == Two[Width]
           a == x * Two[j]
           q == a \div M
           r == a % M
           y == r * Two[k]
           d == y \div M
           e == y % M
<1>1. M \in Nat \ {0} /\ Two[j] \in Nat /\ Two[k] \in Nat /\ Two[j + k] = Two[j] * Two[k]
  BY WordFacts, TwoFacts, TwoSum
<1>2. a \in Int
  BY <1>1
<1>3. q \in Int /\ r \in 0 .. M - 1 /\ a = (q * M) + r
  <2> HIDE DEF M, a
  <2> QED
    BY <1>1, <1>2, DivMod
<1>4. y \in Int
  <2> HIDE DEF M, r
  <2> QED
    BY <1>1, <1>3
<1>5. d \in Int /\ e \in 0 .. M - 1 /\ y = (d * M) + e
  <2> HIDE DEF M, y
  <2> QED
    BY <1>1, <1>4, DivMod
<1>6. x * Two[j + k] = a * Two[k]
  <2>1. \A u, v, w \in Nat : u * (v * w) = (u * v) * w
    OBVIOUS
  <2> QED
    BY <1>1, <2>1
<1>7. a * Two[k] = (((q * Two[k]) + d) * M) + e
  <2> HIDE DEF M, a, q, r, d, e
  <2>1. a * Two[k] = ((q * M) + r) * Two[k]
    BY <1>3
  <2>2. \A u, v, w, z \in Int : ((u * v) + w) * z = ((u * z) * v) + (w * z)
    OBVIOUS
  <2>3. a * Two[k] = ((q * Two[k]) * M) + y
    BY <1>1, <1>3, <2>1, <2>2
  <2>4. q * Two[k] \in Int
    BY <1>1, <1>3
  <2>5. \A u, v, w \in Int : ((u * w) + (v * w)) = (u + v) * w
    OBVIOUS
  <2> HIDE DEF y
  <2> QED
    BY <1>1, <1>5, <2>3, <2>4, <2>5
<1>8. (x * Two[j + k]) % M = e
  <2> HIDE DEF M, a, q, r, y, d, e
  <2> DEFINE p == (q * Two[k]) + d
  <2>1. p \in Int
    BY <1>1, <1>3, <1>5
  <2>2. x * Two[j + k] = (p * M) + e
    BY <1>6, <1>7
  <2> HIDE DEF p
  <2>3. ((p * M) + e) % M = e
    BY <1>1, <1>5, <2>1, DivModIs
  <2> QED
    BY <2>2, <2>3
<1>9. ShiftLeft(x, j) = r
  BY DEF ShiftLeft
<1>10. ShiftLeft(r, k) = e /\ ShiftLeft(x, j + k) = e
  BY <1>8 DEF ShiftLeft
<1>11. r \in Word
  BY <1>3 DEF Word
<1> HIDE DEF r
<1> QED
  BY <1>9, <1>10, <1>11

LEMMA TopBitIs ==
    ASSUME NEW w \in Word
    PROVE  /\ TopBit(w) \in Side
           /\ TopBit(w) = 0 <=> w < Two[Width - 1]
           /\ ShiftLeft(w, 1) = IF TopBit(w) = 0 THEN 2 * w ELSE (2 * w) - Two[Width]
<1> DEFINE H == Two[Width - 1]
<1>1. H \in Nat \ {0} /\ Two[Width] = 2 * H /\ w \in 0 .. (2 * H) - 1 /\ Two[1] = 2
  BY WordFacts, TwoFacts DEF Word
<1>2. TopBit(w) = w \div H /\ ShiftLeft(w, 1) = (w * 2) % (2 * H)
  BY <1>1 DEF TopBit, ShiftLeft
<1> HIDE DEF H
<1>3. CASE w < H
  <2>1. w = (0 * H) + w /\ w \in 0 .. H - 1
    BY <1>1, <1>3
  <2>2. w \div H = 0
    BY <1>1, <2>1, DivModIs
  <2>3. w * 2 = (0 * (2 * H)) + (2 * w) /\ 2 * w \in 0 .. (2 * H) - 1 /\ 2 * H \in Nat \ {0}
    BY <1>1, <1>3
  <2>4. (w * 2) % (2 * H) = 2 * w
    BY <2>3, DivModIs
  <2> QED
    BY <1>2, <1>3, <2>2, <2>4 DEF Side, H
<1>4. CASE ~(w < H)
  <2>1. w = (1 * H) + (w - H) /\ w - H \in 0 .. H - 1
    BY <1>1, <1>4
  <2>2. w \div H = 1
    BY <1>1, <2>1, DivModIs
  <2>3. w * 2 = (1 * (2 * H)) + ((2 * w) - (2 * H)) /\ (2 * w) - (2 * H) \in 0 .. (2 * H) - 1
        /\ 2 * H \in Nat \ {0}
    BY <1>1, <1>4
  <2>4. (w * 2) % (2 * H) = (2 * w) - (2 * H)
    BY <2>3, DivModIs
  <2> QED
    BY <1>1, <1>2, <1>4, <2>2, <2>4 DEF Side, H
<1> QED
  BY <1>3, <1>4

-----------------------------------------------------------------------------
(* The index of a size, and the word whose bits lead to it.                *)

LEMMA HalvesOf ==
    ASSUME NEW k \in Nat, NEW b \in {0, 1}
    PROVE  ((2 * k) + b) \div 2 = k /\ ((2 * k) + b) % 2 = b
OBVIOUS

(* The range of sizes of an index, in halves of its power of two.          *)
LEMMA MinsizeIs ==
    ASSUME NEW k \in Nat, NEW b \in {0, 1}
    PROVE  /\ minsize_for_tree_index((2 * k) + b) = (2 + b) * Two[k + TreeShift - 1]
           /\ Two[k + TreeShift - 1] \in Nat \ {0}
           /\ Two[k + TreeShift] = 2 * Two[k + TreeShift - 1]
           /\ minsize_for_tree_index((2 * k) + b) \in Nat
           /\ minsize_for_tree_index((2 * k) + b + 1) = (3 + b) * Two[k + TreeShift - 1]
<1> DEFINE g == Two[k + TreeShift - 1]
<1>1. k + TreeShift - 1 \in Nat /\ k + TreeShift - 1 + 1 = k + TreeShift
  BY WordFacts
<1>2. g \in Nat \ {0} /\ Two[k + TreeShift] = 2 * g
  BY <1>1, TwoFacts
<1>3. minsize_for_tree_index((2 * k) + b) = (2 * g) + (b * g)
  <2>1. minsize_for_tree_index((2 * k) + b) = Two[k + TreeShift] + (b * g)
    BY HalvesOf DEF minsize_for_tree_index
  <2> QED
    BY <1>2, <2>1
<1>4. minsize_for_tree_index((2 * k) + b + 1) = (3 + b) * g
  <2>1. CASE b = 0
    <3>1. (2 * k) + b + 1 = (2 * k) + 1
      BY <2>1
    <3>2. minsize_for_tree_index((2 * k) + 1) = Two[k + TreeShift] + (1 * g)
      BY HalvesOf DEF minsize_for_tree_index
    <3> HIDE DEF g
    <3> QED
      BY <1>2, <2>1, <3>1, <3>2
  <2>2. CASE b = 1
    <3>1. (2 * k) + b + 1 = (2 * (k + 1)) + 0 /\ k + 1 \in Nat
      BY <2>2
    <3>2. ((2 * (k + 1)) + 0) \div 2 = k + 1 /\ ((2 * (k + 1)) + 0) % 2 = 0
      BY <3>1, HalvesOf
    <3>3. minsize_for_tree_index((2 * k) + b + 1)
              = Two[(k + 1) + TreeShift] + (0 * Two[(k + 1) + TreeShift - 1])
      BY <3>1, <3>2 DEF minsize_for_tree_index
    <3>4. (k + 1) + TreeShift = (k + TreeShift) + 1 /\ (k + 1) + TreeShift - 1 = k + TreeShift
          /\ k + TreeShift \in Nat
      BY WordFacts
    <3>5. Two[(k + TreeShift) + 1] = 2 * Two[k + TreeShift]
      BY <3>4, TwoFacts
    <3> HIDE DEF g
    <3> QED
      BY <1>2, <2>2, <3>3, <3>4, <3>5
  <2> QED
    BY <2>1, <2>2
<1> HIDE DEF g
<1>5. (2 * g) + (b * g) = (2 + b) * g /\ (2 + b) * g \in Nat
  BY <1>2
<1> QED
  BY <1>2, <1>3, <1>4, <1>5 DEF g

(* Between two powers of two.                                              *)
LEMMA PowerBelow ==
    ASSUME NEW x \in Nat \ {0}, NEW n \in Nat, x < Two[n]
    PROVE  \E k \in 0 .. n : k < n /\ Two[k] <= x /\ x < Two[k + 1]
<1> DEFINE D == {k \in Nat : x < Two[k]}
<1>1. PICK k \in D : \A j \in D : k <= j
  BY LeastOf
<1>2. k # 0 /\ k \in Nat /\ x < Two[k] /\ k <= n
  BY <1>1, TwoFacts
<1>3. k - 1 \in 0 .. n /\ k - 1 \in Nat /\ (k - 1) + 1 = k /\ k - 1 < n
  BY <1>2
<1>4. k - 1 \notin D
  BY <1>1, <1>3
<1>5. Two[k - 1] <= x
  BY <1>3, <1>4, TwoFacts
<1> QED
  BY <1>2, <1>3, <1>5

(* The size without its low bits, of which none is lost.                   *)
LEMMA HighBits ==
    ASSUME NEW s \in Sizes
    PROVE  LET X == (s \div Two[TreeShift]) % Two[IntWidth] IN
           /\ X \in Nat \ {0} /\ X < Two[IntWidth]
           /\ X * Two[TreeShift] <= s /\ s < (X + 1) * Two[TreeShift]
<1> DEFINE T == Two[TreeShift]
           I == Two[IntWidth]
           y == s \div T
<1>1. T \in Nat \ {0} /\ I \in Nat \ {0} /\ s \in Nat /\ T <= s /\ s < Two[Width]
  BY WordFacts, TwoFacts DEF Sizes, MinLarge
<1>2. y \in Int /\ (s % T) \in 0 .. T - 1 /\ s = (y * T) + (s % T)
  <2> HIDE DEF T
  <2> QED
    BY <1>1, DivMod
<1>3. Two[Width] <= I * T
  <2>1. Two[Width] <= Two[IntWidth + TreeShift]
    BY WordFacts, TwoGrows, TreeAssumption DEF TreeAssumption
  <2> QED
    BY <2>1, WordFacts, TwoSum
<1> HIDE DEF T, I, y
<1>4. y * T <= s /\ s < (y + 1) * T
  BY <1>1, <1>2
<1>5. y >= 1
  <2> SUFFICES ASSUME y <= 0 PROVE FALSE
    BY <1>2
  <2>1. (y + 1) * T <= T /\ (y + 1) * T \in Int
    BY <1>1, <1>2
  <2> QED
    BY <1>1, <1>4, <2>1
<1>6. y < I
  <2> SUFFICES ASSUME y >= I PROVE FALSE
    BY <1>1, <1>2
  <2>1. y * T >= I * T /\ y * T \in Int /\ I * T \in Int /\ Two[Width] \in Int
    BY <1>1, <1>2, WordFacts
  <2> QED
    BY <1>1, <1>3, <1>4, <2>1
<1>7. y % I = y
  <2>1. y = (0 * I) + y /\ y \in 0 .. I - 1
    BY <1>1, <1>2, <1>5, <1>6
  <2> QED
    BY <1>1, <2>1, DivModIs
<1> QED
  BY <1>2, <1>4, <1>5, <1>6, <1>7 DEF T, I, y

(* A size lies in the range of its index.                                  *)
LEMMA IndexFacts ==
    ASSUME NEW s \in Sizes
    PROVE  LET i == compute_tree_index(s) IN
           /\ i \in Index
           /\ minsize_for_tree_index(i) <= s
           /\ i = NTreeBins - 1 \/ s < minsize_for_tree_index(i + 1)
<1> DEFINE T == Two[TreeShift]
           X == (s \div T) % Two[IntWidth]
           K == CHOOSE k \in 0 .. Width : Two[k] <= X /\ X < Two[k + 1]
           h == NTreeBins \div 2
           i == compute_tree_index(s)
           g == Two[K + TreeShift - 1]
<1>1. X \in Nat \ {0} /\ X < Two[IntWidth] /\ X * T <= s /\ s < (X + 1) * T
  BY HighBits
<1>2. i = IF X >= Two[h] THEN NTreeBins - 1 ELSE (2 * K) + ((s \div g) % 2)
  <2>1. X # 0
    BY <1>1
  <2> QED
    BY <2>1 DEF compute_tree_index
<1>3. K \in 0 .. Width /\ Two[K] <= X /\ X < Two[K + 1]
  <2>1. PICK k \in 0 .. IntWidth : k < IntWidth /\ Two[k] <= X /\ X < Two[k + 1]
    <3> HIDE DEF X
    <3> QED
      BY <1>1, WordFacts, PowerBelow
  <2>2. k \in 0 .. Width
    BY WordFacts, TreeAssumption DEF TreeAssumption
  <2> HIDE DEF X
  <2> QED
    BY <2>1, <2>2
<1>4. h \in Nat \ {0} /\ NTreeBins = 2 * h
  <2>1. NTreeBins % 2 = 0 /\ NTreeBins \in Nat /\ NTreeBins >= 2
    BY WordFacts, TreeAssumption DEF TreeAssumption
  <2> QED
    BY <2>1
<1>5. T \in Nat \ {0} /\ s \in Nat /\ TreeShift \in Nat /\ TreeShift >= 2
  BY WordFacts, TwoFacts
<1> HIDE DEF X, K, h, i, T
<1>6. CASE X >= Two[h]
  <2> DEFINE k == h - 1
             f == Two[k + TreeShift - 1]
  <2>1. k \in Nat /\ i = (2 * k) + 1
    BY <1>2, <1>4, <1>6
  <2>2. minsize_for_tree_index(i) = (2 + 1) * f /\ f \in Nat \ {0} /\ Two[k + TreeShift] = 2 * f
    BY <2>1, MinsizeIs
  <2>3. (k + TreeShift) + 1 = h + TreeShift /\ k + TreeShift \in Nat
    BY <1>4, <1>5
  <2>4. Two[h + TreeShift] = 2 * Two[k + TreeShift] /\ Two[h + TreeShift] = Two[h] * T
    BY <1>4, <1>5, <2>3, TwoFacts, TwoSum DEF T
  <2>5. Two[h] * T <= X * T /\ Two[h] * T \in Int /\ X * T \in Int
    BY <1>1, <1>4, <1>5, <1>6, TwoFacts
  <2>6. minsize_for_tree_index(i) <= s
    <3> HIDE DEF f
    <3> QED
      BY <1>1, <1>5, <2>2, <2>4, <2>5
  <2>7. i \in Index /\ i = NTreeBins - 1
    BY <1>4, <2>1 DEF Index
  <2> QED
    BY <2>6, <2>7 DEF i
<1>7. CASE ~(X >= Two[h])
  <2> DEFINE b == (s \div g) % 2
  <2>1. K < h
    <3>1. Two[K] < Two[h] /\ K \in Nat
      BY <1>1, <1>3, <1>4, <1>7, TwoFacts
    <3> QED
      BY <1>4, <3>1, TwoGrows
  <2>2. g \in Nat \ {0} /\ Two[K + TreeShift] = 2 * g /\ Two[K + TreeShift] = Two[K] * T
    <3>1. K \in Nat
      BY <1>3
    <3> QED
      BY <1>5, <3>1, MinsizeIs, TwoSum DEF T
  <2>3. 2 * g <= s /\ s < 4 * g
    <3>1. Two[K] * T <= X * T /\ X * T \in Int
      BY <1>1, <1>3, <1>5, TwoFacts
    <3>2. X + 1 <= 2 * Two[K] /\ Two[K] \in Nat
      BY <1>1, <1>3, TwoFacts
    <3>3. (X + 1) * T <= (2 * Two[K]) * T /\ (X + 1) * T \in Int
      BY <1>1, <1>5, <3>2
    <3>4. (2 * Two[K]) * T = 2 * (Two[K] * T)
      BY <1>5, <3>2
    <3> HIDE DEF g
    <3> QED
      BY <1>1, <1>5, <2>2, <3>1, <3>3, <3>4
  <2>4. b \in {0, 1} /\ (2 + b) * g <= s /\ s < (3 + b) * g
    <3>1. CASE s < 3 * g
      <4> DEFINE r == s - (2 * g)
      <4>1. s = (2 * g) + r /\ r \in 0 .. g - 1
        BY <1>5, <2>2, <2>3, <3>1
      <4>2. s \div g = 2
        <5> HIDE DEF g, r
        <5>1. ((2 * g) + r) \div g = 2
          BY <2>2, <4>1, DivModIs
        <5> QED
          BY <4>1, <5>1
      <4>3. b = 0
        BY <4>2
      <4> HIDE DEF b, g
      <4> QED
        BY <2>2, <2>3, <3>1, <4>3
    <3>2. CASE ~(s < 3 * g)
      <4> DEFINE r == s - (3 * g)
      <4>1. s = (3 * g) + r /\ r \in 0 .. g - 1
        BY <1>5, <2>2, <2>3, <3>2
      <4>2. s \div g = 3
        <5> HIDE DEF g, r
        <5>1. ((3 * g) + r) \div g = 3
          BY <2>2, <4>1, DivModIs
        <5> QED
          BY <4>1, <5>1
      <4>3. b = 1
        BY <4>2
      <4> HIDE DEF b, g
      <4> QED
        BY <1>5, <2>2, <2>3, <3>2, <4>3
    <3> QED
      BY <3>1, <3>2
  <2>5. i = (2 * K) + b
    BY <1>2, <1>7
  <2> HIDE DEF b, g
  <2>6. K \in Nat
    BY <1>3
  <2>7. minsize_for_tree_index(i) = (2 + b) * g /\ minsize_for_tree_index(i + 1) = (3 + b) * g
    BY <2>4, <2>5, <2>6, MinsizeIs DEF g
  <2>8. i \in Index
    BY <1>4, <2>1, <2>4, <2>5, <2>6 DEF Index
  <2> QED
    BY <2>4, <2>7, <2>8 DEF i
<1> QED
  BY <1>6, <1>7

LEMMA IndexParts ==
    ASSUME NEW i \in Index
    PROVE  \E k \in Nat, b \in {0, 1} : i = (2 * k) + b
<1>1. i \in Nat
  BY WordFacts DEF Index
<1>2. i \div 2 \in Nat /\ i % 2 \in {0, 1} /\ i = (2 * (i \div 2)) + (i % 2)
  BY <1>1
<1> QED
  BY <1>2

LEMMA MinsizeGrows ==
    ASSUME NEW i \in Index, NEW j \in Index, i <= j
    PROVE  /\ minsize_for_tree_index(i) <= minsize_for_tree_index(j)
           /\ minsize_for_tree_index(i) \in Nat
<1>1. PICK k \in Nat, b \in {0, 1} : i = (2 * k) + b
  BY IndexParts
<1>2. PICK l \in Nat, c \in {0, 1} : j = (2 * l) + c
  BY IndexParts
<1> DEFINE g == Two[k + TreeShift - 1]
           h == Two[l + TreeShift - 1]
<1>3. minsize_for_tree_index(i) = (2 + b) * g /\ minsize_for_tree_index(j) = (2 + c) * h
      /\ g \in Nat \ {0} /\ h \in Nat \ {0} /\ minsize_for_tree_index(i) \in Nat
  BY <1>1, <1>2, MinsizeIs
<1>4. CASE k = l
  <2>1. b <= c /\ g = h
    BY <1>1, <1>2, <1>4
  <2> HIDE DEF g, h
  <2> QED
    BY <1>3, <2>1
<1>5. CASE k < l
  <2>1. k + TreeShift - 1 \in Nat /\ l + TreeShift - 1 \in Nat
        /\ k + TreeShift - 1 < l + TreeShift - 1
    BY <1>5, WordFacts
  <2>2. 2 * g <= h
    BY <2>1, TwoGrows
  <2> HIDE DEF g, h
  <2>3. (2 + b) * g <= 3 * g /\ 2 * h <= (2 + c) * h
    BY <1>3
  <2> QED
    BY <1>3, <2>2, <2>3
<1>6. k <= l
  BY <1>1, <1>2
<1> QED
  BY <1>4, <1>5, <1>6

(* Sizes are ordered as their indices are.                                 *)
LEMMA IndexOrder ==
    ASSUME NEW r \in Sizes, NEW s \in Sizes, compute_tree_index(r) < compute_tree_index(s)
    PROVE  r < s
<1> DEFINE i == compute_tree_index(r)
           j == compute_tree_index(s)
<1>1. /\ i \in Index /\ j \in Index /\ i < j
      /\ i = NTreeBins - 1 \/ r < minsize_for_tree_index(i + 1)
      /\ minsize_for_tree_index(j) <= s
  BY IndexFacts
<1> HIDE DEF i, j
<1>2. i + 1 \in Index /\ i + 1 <= j /\ i # NTreeBins - 1
  BY <1>1, WordFacts DEF Index
<1>3. minsize_for_tree_index(i + 1) <= minsize_for_tree_index(j)
      /\ minsize_for_tree_index(i + 1) \in Nat
      /\ minsize_for_tree_index(j) \in Nat
  <2>1. j <= j
    BY <1>1, WordFacts DEF Index
  <2> QED
    BY <1>1, <1>2, <2>1, MinsizeGrows
<1>4. r \in Nat /\ s \in Nat
  BY WordFacts
<1> QED
  BY <1>1, <1>2, <1>3, <1>4

(* The word of s after d steps down, and the bit that is on top of it.     *)
Key(s, d) == ShiftLeft(ShiftLeft(s, leftshift_for_tree_index(compute_tree_index(s))), d)
Bit(s, d) == TopBit(Key(s, d))

(* The bits of a size s in the range of an index are those of its distance *)
(* from the beginning of that range, or those of s itself in the last bin. *)
LEMMA KeyIs ==
    ASSUME NEW s \in Sizes
    PROVE  LET i == compute_tree_index(s)
               l == leftshift_for_tree_index(i)
           IN  /\ l \in Nat
               /\ i = NTreeBins - 1 => ShiftLeft(s, l) = s
               /\ i # NTreeBins - 1 => ShiftLeft(s, l) = (s - minsize_for_tree_index(i)) * Two[l]
<1> DEFINE i == compute_tree_index(s)
           l == leftshift_for_tree_index(i)
           M == Two[Width]
<1>1. i \in Index /\ minsize_for_tree_index(i) <= s
      /\ (i = NTreeBins - 1 \/ s < minsize_for_tree_index(i + 1))
  BY IndexFacts
<1>2. s \in Nat /\ M \in Nat \ {0} /\ s < M
  BY WordFacts DEF Sizes
<1> HIDE DEF i
<1>3. CASE i = NTreeBins - 1
  <2>1. l = 0
    BY <1>3 DEF leftshift_for_tree_index
  <2>2. ShiftLeft(s, 0) = (s * 1) % M
    BY TwoFacts DEF ShiftLeft
  <2> HIDE DEF M, l
  <2>3. s * 1 = (0 * M) + s /\ s \in 0 .. M - 1
    BY <1>2
  <2>4. (s * 1) % M = s
    BY <1>2, <2>3, DivModIs
  <2> QED
    BY <1>3, <2>1, <2>2, <2>4 DEF i, l
<1>4. CASE i # NTreeBins - 1
  <2>1. PICK k \in Nat, b \in {0, 1} : i = (2 * k) + b
    BY <1>1, IndexParts
  <2> DEFINE m == k + TreeShift - 1
             g == Two[m]
             r == s - minsize_for_tree_index(i)
  <2>2. /\ minsize_for_tree_index(i) = (2 + b) * g /\ g \in Nat \ {0} /\ Two[k + TreeShift] = 2 * g
        /\ minsize_for_tree_index(i + 1) = (3 + b) * g /\ m \in Nat
    BY <2>1, MinsizeIs, WordFacts
  <2>3. r \in 0 .. g - 1 /\ s = ((2 + b) * g) + r /\ 2 * g <= s
    <3> HIDE DEF g
    <3>1. (3 + b) * g = ((2 + b) * g) + g /\ (2 + b) * g >= 2 * g
      BY <2>2
    <3> QED
      BY <1>1, <1>2, <1>4, <2>2, <3>1
  <2>4. k + TreeShift < Width
    <3>1. Two[k + TreeShift] < Two[Width]
      BY <1>2, <2>2, <2>3
    <3> QED
      BY <3>1, TwoGrows, WordFacts
  <2>5. l = Width - m /\ l \in Nat /\ l + m = Width
    <3>1. l = Width - 1 - (k + TreeShift - 2)
      BY <1>4, <2>1, HalvesOf DEF leftshift_for_tree_index
    <3> HIDE DEF l
    <3> QED
      BY <2>4, <3>1, WordFacts
  <2>6. Two[l] * g = M /\ Two[l] \in Nat \ {0}
    BY <2>2, <2>5, TwoSum, TwoFacts
  <2> HIDE DEF l, m, g, M, r
  <2> DEFINE L == Two[l]
             z == r * L
  <2>7. s * L = ((2 + b) * M) + z
    <3>1. s * L = (((2 + b) * g) + r) * L
      BY <2>3
    <3>2. (((2 + b) * g) + r) * L = ((2 + b) * (L * g)) + (r * L)
      BY <2>2, <2>3, <2>6
    <3> QED
      BY <2>6, <3>1, <3>2
  <2>8. z \in 0 .. M - 1
    <3>1. r \in Nat /\ r + 1 <= g /\ g \in Nat /\ L \in Nat /\ L >= 1 /\ M = L * g
      BY <2>2, <2>3, <2>6
    <3> HIDE DEF L
    <3>2. r * L \in Nat /\ (r + 1) * L <= g * L /\ (r + 1) * L = (r * L) + L /\ g * L = M
      BY <3>1
    <3> QED
      BY <1>2, <3>1, <3>2
  <2>9. (s * L) % M = z
    <3> HIDE DEF z, L
    <3>1. 2 + b \in Int
      OBVIOUS
    <3>2. (((2 + b) * M) + z) % M = z
      BY <1>2, <2>8, <3>1, DivModIs
    <3> QED
      BY <2>7, <3>2
  <2>10. ShiftLeft(s, l) = z
    BY <2>9 DEF ShiftLeft, M
  <2> QED
    BY <1>4, <2>5, <2>10 DEF i, l, r
<1> QED
  BY <1>3, <1>4

LEMMA KeyFacts ==
    ASSUME NEW s \in Sizes, NEW d \in Nat
    PROVE  /\ Key(s, d) \in Word
           /\ Bit(s, d) \in Side
           /\ Key(s, 0) = ShiftLeft(s, leftshift_for_tree_index(compute_tree_index(s)))
           /\ Key(s, d + 1) = ShiftLeft(Key(s, d), 1)
<1> DEFINE l == leftshift_for_tree_index(compute_tree_index(s))
           w == ShiftLeft(s, l)
<1>1. l \in Nat /\ s \in Nat
  BY KeyIs, WordFacts
<1> HIDE DEF l
<1>2. w \in Word /\ w \in Nat /\ ShiftLeft(w, 0) = w
  <2>1. l + 0 = l
    BY <1>1
  <2>2. w \in Word /\ ShiftLeft(w, 0) = ShiftLeft(s, l + 0)
    BY <1>1, ShiftTwice
  <2> QED
    BY <2>1, <2>2, WordFacts
<1>3. Key(s, d) = ShiftLeft(w, d) /\ Key(s, 0) = ShiftLeft(w, 0) /\ Key(s, d + 1) = ShiftLeft(w, d + 1)
  BY DEF Key, l
<1> HIDE DEF w
<1>4. Key(s, d) \in Word /\ Key(s, d + 1) = ShiftLeft(Key(s, d), 1)
  BY <1>2, <1>3, ShiftTwice
<1>5. Bit(s, d) \in Side
  BY <1>4, TopBitIs DEF Bit
<1> QED
  BY <1>2, <1>3, <1>4, <1>5 DEF w, l

(* Sizes of one bin are ordered as their words are.                        *)
LEMMA KeyOrder ==
    ASSUME NEW r \in Sizes, NEW s \in Sizes, compute_tree_index(r) = compute_tree_index(s), r < s
    PROVE  Key(r, 0) < Key(s, 0)
<1> DEFINE i == compute_tree_index(s)
           l == leftshift_for_tree_index(i)
           m == minsize_for_tree_index(i)
<1>1. /\ Key(r, 0) = ShiftLeft(r, l) /\ Key(s, 0) = ShiftLeft(s, l)
  BY KeyFacts
<1>2. l \in Nat /\ r \in Nat /\ s \in Nat /\ m \in Nat /\ Two[l] \in Nat /\ Two[l] >= 1 /\ m <= r
  <2>1. l \in Nat /\ i \in Index /\ m <= r
    BY KeyIs, IndexFacts
  <2>2. i <= i
    BY <2>1, WordFacts DEF Index
  <2>3. m \in Nat
    <3> HIDE DEF i
    <3> QED
      BY <2>1, <2>2, MinsizeGrows
  <2> QED
    BY <2>1, <2>3, TwoFacts, WordFacts
<1>3. CASE i = NTreeBins - 1
  <2>1. ShiftLeft(r, l) = r /\ ShiftLeft(s, l) = s
    BY <1>3, KeyIs
  <2> QED
    BY <1>1, <2>1
<1>4. CASE i # NTreeBins - 1
  <2>1. ShiftLeft(r, l) = (r - m) * Two[l] /\ ShiftLeft(s, l) = (s - m) * Two[l]
    BY <1>4, KeyIs
  <2> DEFINE a == r - m
             b == s - m
             L == Two[l]
  <2>2. a \in Nat /\ b \in Nat /\ a + 1 <= b /\ L \in Nat /\ L >= 1
    BY <1>2
  <2> HIDE DEF a, b, L
  <2>3. (a + 1) * L <= b * L /\ (a + 1) * L = (a * L) + L /\ a * L \in Nat /\ b * L \in Nat
    BY <2>2
  <2>4. a * L < b * L
    BY <2>2, <2>3
  <2> QED
    BY <1>1, <2>1, <2>4 DEF a, b, L
<1> QED
  BY <1>3, <1>4

(* r and s are of one bin and have the same first d bits.                  *)
Agree(r, s, d) ==
    /\ compute_tree_index(r) = compute_tree_index(s)
    /\ \A e \in Nat : e < d => Bit(r, e) = Bit(s, e)

LEMMA KeysAgree ==
    ASSUME NEW r \in Sizes, NEW s \in Sizes, NEW d \in Nat, Agree(r, s, d), r < s
    PROVE  Key(r, d) < Key(s, d)
<1> DEFINE D == {e \in Nat : e <= d /\ ~(Key(r, e) < Key(s, e))}
<1> SUFFICES ASSUME D # {} PROVE FALSE
  OBVIOUS
<1>1. PICK e \in D : \A f \in D : e <= f
  BY LeastOf
<1>2. e # 0 /\ e \in Nat /\ e <= d /\ ~(Key(r, e) < Key(s, e))
  BY KeyOrder DEF Agree
<1> DEFINE f == e - 1
<1>3. f \in Nat /\ f < d /\ f + 1 = e /\ f < e
  BY <1>2
<1>4. Key(r, f) < Key(s, f)
  BY <1>1, <1>3
<1> HIDE DEF D, f
<1>5. /\ Key(r, f) \in Word /\ Key(s, f) \in Word
      /\ Key(r, e) = ShiftLeft(Key(r, f), 1) /\ Key(s, e) = ShiftLeft(Key(s, f), 1)
  BY <1>3, KeyFacts
<1>6. TopBit(Key(r, f)) = TopBit(Key(s, f))
  BY <1>3 DEF Agree, Bit
<1>7. Key(r, f) \in Nat /\ Key(s, f) \in Nat /\ Two[Width] \in Nat
  BY <1>5, WordFacts
<1>8. Key(r, e) < Key(s, e)
  BY <1>4, <1>5, <1>6, <1>7, TopBitIs
<1> QED
  BY <1>2, <1>8

(* Of two sizes with the same first bits, that with a 0 next is smaller.   *)
LEMMA BitOrder ==
    ASSUME NEW r \in Sizes, NEW s \in Sizes, NEW d \in Nat, Agree(r, s, d), Bit(r, d) = 0, Bit(s, d) # 0
    PROVE  r < s
<1>1. r \in Nat /\ s \in Nat /\ r # s
  BY WordFacts
<1> SUFFICES ASSUME s < r PROVE FALSE
  BY <1>1
<1>2. Agree(s, r, d)
  BY DEF Agree
<1>3. Key(s, d) < Key(r, d)
  BY <1>2, KeysAgree
<1>4. Key(s, d) \in Word /\ Key(r, d) \in Word /\ Key(s, d) \in Nat /\ Key(r, d) \in Nat
  BY KeyFacts, WordFacts
<1>5. Key(r, d) < Two[Width - 1] /\ ~(Key(s, d) < Two[Width - 1])
  BY <1>4, TopBitIs DEF Bit
<1> QED
  BY <1>3, <1>4, <1>5, WordFacts

LEMMA AgreeFacts ==
    /\ \A r, d : Agree(r, r, d)
    /\ \A r, s, d : Agree(r, s, d) => Agree(s, r, d)
    /\ \A r, s, u, d : Agree(r, s, d) /\ Agree(s, u, d) => Agree(r, u, d)
    /\ \A r, s : \A d, e \in Nat : Agree(r, s, e) /\ d <= e => Agree(r, s, d)
    /\ \A r, s : \A d \in Nat : Agree(r, s, d) /\ Bit(r, d) = Bit(s, d) <=> Agree(r, s, d + 1)
    /\ \A r, s : Agree(r, s, 0) <=> compute_tree_index(r) = compute_tree_index(s)
BY DEF Agree

-----------------------------------------------------------------------------
(* The trees.  N are the chunks in them, with fields nd; tb are the roots, *)
(* and at says how many steps below the root of its tree a chunk is.       *)

(* A tree that is not empty begins with a root.                            *)
RootsHold(N, nd, tb, at) ==
    \A i \in Index : tb[i] # Null =>
        /\ tb[i] \in N /\ nd[tb[i]].parent = Root /\ at[tb[i]] = 0
        /\ compute_tree_index(nd[tb[i]].size) = i

(* A chunk is at the place below its parent that its size says, and has    *)
(* the bits that led to the parent.                                        *)
Placed(nd, at, c, p) ==
    /\ at[c] = at[p] + 1
    /\ Agree(nd[c].size, nd[p].size, at[p])
    /\ nd[p].child[Bit(nd[c].size, at[p])] = c

ParentsHold(N, nd, tb, at) ==
    \A c \in N :
        \/ nd[c].parent = Root /\ tb[compute_tree_index(nd[c].size)] = c
        \/ nd[c].parent \in N /\ Placed(nd, at, c, nd[c].parent)

ChildrenHold(N, nd, at) ==
    \A c \in N : \A b \in Side : nd[c].child[b] # Null =>
        /\ nd[c].child[b] \in N
        /\ nd[nd[c].child[b]].parent = c
        /\ Bit(nd[nd[c].child[b]].size, at[c]) = b

Bounded(N, nd, at) ==
    /\ N \subseteq Chunk
    /\ \A c \in N : at[c] \in Nat /\ nd[c].size \in Sizes
    /\ \E D \in Nat : \A c \in N : at[c] <= D

Trie(N, nd, tb, at) ==
    /\ Bounded(N, nd, at)
    /\ RootsHold(N, nd, tb, at)
    /\ ParentsHold(N, nd, tb, at)
    /\ ChildrenHold(N, nd, at)

LEMMA NotChunks == Null \notin Chunk /\ Root \notin Chunk /\ Root # Null /\ Side = {0, 1}
BY TreeAssumption DEF TreeAssumption, Side

(* X becomes the root of an empty tree.                                    *)
AddsRoot(N, nd, tb, at, X, nd2, tb2, at2) ==
    /\ nd2[X].size \in Sizes /\ nd2[X].parent = Root /\ \A b \in Side : nd2[X].child[b] = Null
    /\ tb[compute_tree_index(nd2[X].size)] = Null
    /\ \A c \in N : nd2[c].size = nd[c].size /\ nd2[c].parent = nd[c].parent
                    /\ nd2[c].child = nd[c].child /\ at2[c] = at[c]
    /\ at2[X] = 0
    /\ \A i \in Index : tb2[i] = IF i = compute_tree_index(nd2[X].size) THEN X ELSE tb[i]

LEMMA AddRoot ==
    ASSUME NEW N, NEW nd, NEW tb, NEW at, Trie(N, nd, tb, at),
           NEW X \in Chunk, X \notin N, NEW nd2, NEW tb2, NEW at2, AddsRoot(N, nd, tb, at, X, nd2, tb2, at2)
    PROVE  Trie(N \cup {X}, nd2, tb2, at2)
<1> DEFINE M == N \cup {X}
           I == compute_tree_index(nd2[X].size)
<1> USE NotChunks DEF AddsRoot
<1>1. Bounded(M, nd2, at2)
  <2>1. PICK D \in Nat : \A c \in N : at[c] <= D
    BY DEF Trie, Bounded
  <2>2. \A c \in M : at2[c] <= D
    BY <2>1 DEF Trie, Bounded
  <2> QED
    BY <2>1, <2>2 DEF Trie, Bounded
<1>2. I \in Index
  BY IndexFacts
<1>3. RootsHold(M, nd2, tb2, at2)
  BY DEF Trie, RootsHold
<1>4. ParentsHold(M, nd2, tb2, at2)
  <2>1. ASSUME NEW c \in N, nd[c].parent = Root
        PROVE  nd2[c].parent = Root /\ tb2[compute_tree_index(nd2[c].size)] = c
    <3>1. compute_tree_index(nd[c].size) \in Index
      BY IndexFacts DEF Trie, Bounded
    <3>2. nd[c].parent \notin N
      BY <2>1 DEF Trie, Bounded
    <3>3. tb[compute_tree_index(nd[c].size)] = c
      BY <3>2 DEF Trie, ParentsHold
    <3>4. c # Null
      BY DEF Trie, Bounded
    <3> QED
      BY <2>1, <3>1, <3>3, <3>4
  <2>2. ASSUME NEW c \in N, nd[c].parent # Root
        PROVE  nd2[c].parent \in M /\ Placed(nd2, at2, c, nd2[c].parent)
    BY <2>2 DEF Trie, ParentsHold, Placed
  <2> QED
    BY <1>2, <2>1, <2>2 DEF ParentsHold
<1>5. ChildrenHold(M, nd2, at2)
  BY DEF Trie, ChildrenHold
<1> QED
  BY <1>1, <1>3, <1>4, <1>5 DEF Trie

(* A chunk below T, where the bits of its size lead.                       *)
LeafAdded(N, X, T, b, nd, at, nd2, at2) ==
    /\ nd2[X].size \in Sizes /\ nd2[X].parent = T /\ \A e \in Side : nd2[X].child[e] = Null
    /\ nd[T].child[b] = Null /\ b = Bit(nd2[X].size, at[T])
    /\ Agree(nd2[X].size, nd[T].size, at[T])
    /\ at2[X] = at[T] + 1
    /\ \A c \in N : nd2[c].size = nd[c].size /\ nd2[c].parent = nd[c].parent /\ at2[c] = at[c]
    /\ \A c \in N, e \in Side : nd2[c].child[e] = IF c = T /\ e = b THEN X ELSE nd[c].child[e]

LEMMA AddLeaf ==
    ASSUME NEW N, NEW nd, NEW tb, NEW at, Trie(N, nd, tb, at),
           NEW X \in Chunk, X \notin N, NEW T \in N, NEW b \in Side, NEW nd2, NEW at2,
           LeafAdded(N, X, T, b, nd, at, nd2, at2)
    PROVE  Trie(N \cup {X}, nd2, tb, at2)
<1> DEFINE M == N \cup {X}
<1> SUFFICES ASSUME nd2[X].size \in Sizes, nd2[X].parent = T, \A e \in Side : nd2[X].child[e] = Null,
                    nd[T].child[b] = Null, b = Bit(nd2[X].size, at[T]),
                    Agree(nd2[X].size, nd[T].size, at[T]),
                    \A c \in N : /\ nd2[c].size = nd[c].size
                                 /\ nd2[c].parent = nd[c].parent /\ at2[c] = at[c],
                    \A c \in N, e \in Side :
                        nd2[c].child[e] = IF c = T /\ e = b THEN X ELSE nd[c].child[e],
                    at2[X] = at[T] + 1
             PROVE  Trie(M, nd2, tb, at2)
  BY DEF LeafAdded
<1> USE NotChunks
<1>0. \A c \in N : c # Null /\ c # X /\ at[c] \in Nat /\ nd[c].size \in Sizes
  BY DEF Trie, Bounded
<1>1. Bounded(M, nd2, at2)
  <2>1. PICK D \in Nat : \A c \in N : at[c] <= D
    BY DEF Trie, Bounded
  <2>2. \A c \in M : at2[c] <= D + 1
    BY <1>0, <2>1
  <2>3. M \subseteq Chunk /\ \A c \in M : at2[c] \in Nat /\ nd2[c].size \in Sizes
    BY <1>0 DEF Trie, Bounded
  <2>4. D + 1 \in Nat
    BY <2>1
  <2> QED
    BY <2>2, <2>3, <2>4 DEF Bounded
<1>2. RootsHold(M, nd2, tb, at2)
  BY DEF Trie, RootsHold
<1>3. ParentsHold(M, nd2, tb, at2)
  <2>1. ASSUME NEW c \in N, nd[c].parent \in N, Placed(nd, at, c, nd[c].parent)
        PROVE  nd2[c].parent \in M /\ Placed(nd2, at2, c, nd2[c].parent)
    <3> DEFINE p == nd[c].parent
    <3>1. Bit(nd[c].size, at[p]) \in Side
      BY <1>0, <2>1, KeyFacts
    <3>2. nd2[p].child[Bit(nd[c].size, at[p])] = c
      BY <1>0, <2>1, <3>1 DEF Placed
    <3> QED
      BY <2>1, <3>2 DEF Placed
  <2>2. nd2[X].parent \in M /\ Placed(nd2, at2, X, nd2[X].parent)
    BY DEF Placed
  <2>3. ASSUME NEW c \in N, nd[c].parent = Root, tb[compute_tree_index(nd[c].size)] = c
        PROVE  nd2[c].parent = Root /\ tb[compute_tree_index(nd2[c].size)] = c
    BY <2>3
  <2> QED
    BY <2>1, <2>2, <2>3 DEF Trie, ParentsHold
<1>4. ChildrenHold(M, nd2, at2)
  <2> SUFFICES ASSUME NEW c \in M, NEW e \in Side, nd2[c].child[e] # Null
               PROVE  /\ nd2[c].child[e] \in M
                      /\ nd2[nd2[c].child[e]].parent = c
                      /\ Bit(nd2[nd2[c].child[e]].size, at2[c]) = e
    BY DEF ChildrenHold
  <2>1. c \in N
    OBVIOUS
  <2>2. CASE c = T /\ e = b
    BY <2>1, <2>2
  <2>3. CASE ~(c = T /\ e = b)
    <3>1. nd2[c].child[e] = nd[c].child[e]
      BY <2>1, <2>3
    <3> QED
      BY <2>1, <3>1 DEF Trie, ChildrenHold
  <2> QED
    BY <2>2, <2>3
<1> QED
  BY <1>1, <1>2, <1>3, <1>4 DEF Trie

(* A chunk without children is taken away.                                 *)
LEMMA DropLeaf ==
    ASSUME NEW N, NEW nd, NEW tb, NEW at, Trie(N, nd, tb, at),
           NEW R \in N, \A b \in Side : nd[R].child[b] = Null, NEW nd2, NEW tb2,
           \A c \in N \ {R} : nd2[c].size = nd[c].size /\ nd2[c].parent = nd[c].parent,
           \A c \in N \ {R}, e \in Side :
               nd2[c].child[e] = IF nd[c].child[e] = R THEN Null ELSE nd[c].child[e],
           \A i \in Index : tb2[i] = IF tb[i] = R THEN Null ELSE tb[i]
    PROVE  Trie(N \ {R}, nd2, tb2, at)
<1> DEFINE M == N \ {R}
<1> USE NotChunks
<1>0. \A c \in N : c # Null /\ at[c] \in Nat /\ nd[c].size \in Sizes
  BY DEF Trie, Bounded
<1>1. Bounded(M, nd2, at)
  BY DEF Trie, Bounded
<1>2. RootsHold(M, nd2, tb2, at)
  BY DEF Trie, RootsHold
<1>3. ParentsHold(M, nd2, tb2, at)
  <2>1. ASSUME NEW c \in M, nd[c].parent \in N, Placed(nd, at, c, nd[c].parent)
        PROVE  nd2[c].parent \in M /\ Placed(nd2, at, c, nd2[c].parent)
    <3> DEFINE p == nd[c].parent
    <3>1. Bit(nd[c].size, at[p]) \in Side
      BY <1>0, <2>1, KeyFacts
    <3>2. p # R
      BY <1>0, <2>1, <3>1 DEF Placed
    <3>3. nd2[p].child[Bit(nd[c].size, at[p])] = c
      BY <1>0, <2>1, <3>1, <3>2 DEF Placed
    <3> QED
      BY <2>1, <3>2, <3>3 DEF Placed
  <2>2. ASSUME NEW c \in M, nd[c].parent = Root, tb[compute_tree_index(nd[c].size)] = c
        PROVE  nd2[c].parent = Root /\ tb2[compute_tree_index(nd2[c].size)] = c
    <3>1. compute_tree_index(nd[c].size) \in Index
      BY <1>0, IndexFacts
    <3> QED
      BY <2>2, <3>1
  <2> QED
    BY <2>1, <2>2 DEF Trie, ParentsHold
<1>4. ChildrenHold(M, nd2, at)
  BY DEF Trie, ChildrenHold
<1> QED
  BY <1>1, <1>2, <1>3, <1>4 DEF Trie

(* R takes the place of X, whose first bits it has.                        *)
InPlace(N, X, R, nd, tb, at, nd2, tb2, at2) ==
    /\ nd2[R].size \in Sizes /\ Agree(nd2[R].size, nd[X].size, at[X])
    /\ nd2[R].parent = nd[X].parent /\ \A e \in Side : nd2[R].child[e] = nd[X].child[e]
    /\ at2[R] = at[X]
    /\ \A c \in N \ {X} :
          /\ nd2[c].size = nd[c].size /\ at2[c] = at[c]
          /\ nd2[c].parent = IF nd[c].parent = X THEN R ELSE nd[c].parent
    /\ \A c \in N \ {X}, e \in Side :
          nd2[c].child[e] = IF nd[c].child[e] = X THEN R ELSE nd[c].child[e]
    /\ \A i \in Index : tb2[i] = IF tb[i] = X THEN R ELSE tb[i]

LEMMA PutInPlace ==
    ASSUME NEW N, NEW nd, NEW tb, NEW at, Trie(N, nd, tb, at),
           NEW X \in N, NEW R \in Chunk \ N, NEW nd2, NEW tb2, NEW at2,
           InPlace(N, X, R, nd, tb, at, nd2, tb2, at2)
    PROVE  Trie((N \ {X}) \cup {R}, nd2, tb2, at2)
<1> DEFINE M == (N \ {X}) \cup {R}
<1> SUFFICES ASSUME nd2[R].size \in Sizes, Agree(nd2[R].size, nd[X].size, at[X]),
                    nd2[R].parent = nd[X].parent, \A e \in Side : nd2[R].child[e] = nd[X].child[e],
                    at2[R] = at[X],
                    \A c \in N \ {X} :
                        /\ nd2[c].size = nd[c].size /\ at2[c] = at[c]
                        /\ nd2[c].parent = IF nd[c].parent = X THEN R ELSE nd[c].parent,
                    \A c \in N \ {X}, e \in Side :
                        nd2[c].child[e] = IF nd[c].child[e] = X THEN R ELSE nd[c].child[e],
                    \A i \in Index : tb2[i] = IF tb[i] = X THEN R ELSE tb[i]
             PROVE  Trie(M, nd2, tb2, at2)
  BY DEF InPlace
<1> USE NotChunks
<1>0. /\ \A c \in N : c \in Chunk /\ c # Null /\ c # Root /\ c # R /\ at[c] \in Nat /\ nd[c].size \in Sizes
      /\ R # Null /\ R # Root
  BY DEF Trie, Bounded
<1>1. Bounded(M, nd2, at2)
  BY DEF Trie, Bounded
<1>2. compute_tree_index(nd2[R].size) = compute_tree_index(nd[X].size)
  BY DEF Agree
<1>3. \A e \in Nat : e < at[X] => Bit(nd2[R].size, e) = Bit(nd[X].size, e)
  BY DEF Agree
<1>4. RootsHold(M, nd2, tb2, at2)
  <2> SUFFICES ASSUME NEW i \in Index, tb2[i] # Null
               PROVE  /\ tb2[i] \in M /\ nd2[tb2[i]].parent = Root /\ at2[tb2[i]] = 0
                      /\ compute_tree_index(nd2[tb2[i]].size) = i
    BY DEF RootsHold
  <2>1. tb[i] # Null
    BY <1>0
  <2>2. tb[i] \in N /\ nd[tb[i]].parent = Root /\ at[tb[i]] = 0 /\ compute_tree_index(nd[tb[i]].size) = i
    BY <2>1 DEF Trie, RootsHold
  <2>3. CASE tb[i] = X
    BY <1>2, <2>2, <2>3
  <2>4. CASE tb[i] # X
    BY <1>0, <2>2, <2>4
  <2> QED
    BY <2>3, <2>4
<1>5. ParentsHold(M, nd2, tb2, at2)
  <2>1. ASSUME NEW c \in N, nd[c].parent = Root, tb[compute_tree_index(nd[c].size)] = c
        PROVE  \E d \in M : /\ d = IF c = X THEN R ELSE c
                            /\ nd2[d].parent = Root /\ tb2[compute_tree_index(nd2[d].size)] = d
    <3>1. compute_tree_index(nd[c].size) \in Index
      BY <1>0, IndexFacts
    <3>2. CASE c = X
      BY <1>2, <2>1, <3>1, <3>2
    <3>3. CASE c # X
      BY <1>0, <2>1, <3>1, <3>3
    <3> QED
      BY <3>2, <3>3
  <2>2. ASSUME NEW c \in N, nd[c].parent \in N, Placed(nd, at, c, nd[c].parent)
        PROVE  \E d \in M : /\ d = IF c = X THEN R ELSE c
                            /\ nd2[d].parent \in M /\ Placed(nd2, at2, d, nd2[d].parent)
    <3> DEFINE p == nd[c].parent
               e == Bit(nd[c].size, at[p])
    <3>1. e \in Side /\ nd[p].child[e] = c /\ at[c] = at[p] + 1 /\ Agree(nd[c].size, nd[p].size, at[p])
      BY <1>0, <2>2, KeyFacts DEF Placed
    <3>2. p # c
      BY <1>0, <2>2, <3>1
    <3>3. CASE c = X
      <4>1. nd2[R].parent = p /\ p \in M /\ p \in N \ {X} /\ at2[p] = at[p] /\ nd2[p].size = nd[p].size
        BY <2>2, <3>2, <3>3
      <4>2. at[p] \in Nat /\ at[p] < at[X] /\ at[p] <= at[X] /\ at[X] \in Nat
        BY <1>0, <2>2, <3>1, <3>3
      <4>3. Bit(nd2[R].size, at[p]) = e
        BY <1>3, <3>3, <4>2
      <4>4. nd2[p].child[e] = R
        BY <3>1, <3>3, <4>1
      <4>5. Agree(nd2[R].size, nd[X].size, at[p])
        BY <4>2, AgreeFacts
      <4>6. Agree(nd2[R].size, nd[p].size, at[p])
        BY <3>1, <3>3, <4>5, AgreeFacts
      <4>7. at2[R] = at2[p] + 1 /\ R \in M
        BY <3>1, <3>3, <4>1
      <4> HIDE DEF p, e, M
      <4>8. Placed(nd2, at2, R, p)
        BY ONLY <4>1, <4>3, <4>4, <4>6, <4>7 DEF Placed
      <4>9. R \in M /\ nd2[R].parent \in M /\ Placed(nd2, at2, R, nd2[R].parent)
        BY ONLY <4>1, <4>7, <4>8
      <4> QED
        BY ONLY <3>3, <4>9
    <3>4. CASE c # X /\ p = X
      <4>1. nd2[c].parent = R /\ nd2[c].size = nd[c].size /\ at2[c] = at[c]
        BY <3>4
      <4>2. nd2[R].child[e] = c
        BY <3>1, <3>4
      <4>3. Agree(nd[X].size, nd2[R].size, at[X])
        BY AgreeFacts
      <4>4. Agree(nd[c].size, nd2[R].size, at[X])
        BY <3>1, <3>4, <4>3, AgreeFacts
      <4> QED
        BY <3>1, <3>4, <4>1, <4>2, <4>4 DEF Placed
    <3>5. CASE c # X /\ p # X
      <4>1. nd2[c].parent = p /\ nd2[c].size = nd[c].size /\ at2[c] = at[c]
        BY <3>5
      <4>2. p \in N \ {X} /\ at2[p] = at[p] /\ nd2[p].size = nd[p].size
        BY <2>2, <3>5
      <4>3. nd2[p].child[e] = c
        BY <3>1, <3>5, <4>2
      <4> QED
        BY <3>1, <3>5, <4>1, <4>2, <4>3 DEF Placed
    <3> QED
      BY <3>3, <3>4, <3>5
  <2>3. ASSUME NEW d \in M PROVE \E c \in N : d = IF c = X THEN R ELSE c
    <3>1. CASE d = R
      BY <3>1
    <3>2. CASE d # R
      BY <3>2
    <3> QED
      BY <3>1, <3>2
  <2> QED
    BY <2>1, <2>2, <2>3 DEF Trie, ParentsHold
<1>6. ChildrenHold(M, nd2, at2)
  <2> SUFFICES ASSUME NEW d \in M, NEW e \in Side, nd2[d].child[e] # Null
               PROVE  /\ nd2[d].child[e] \in M
                      /\ nd2[nd2[d].child[e]].parent = d
                      /\ Bit(nd2[nd2[d].child[e]].size, at2[d]) = e
    BY DEF ChildrenHold
  <2> DEFINE c == IF d = R THEN X ELSE d
             k == nd[c].child[e]
  <2>1. c \in N /\ at2[d] = at[c] /\ (c = X <=> d = R)
    BY <1>0
  <2>2. k # Null
    BY <1>0
  <2>3. k \in N /\ nd[k].parent = c /\ Bit(nd[k].size, at[c]) = e
    BY <2>1, <2>2 DEF Trie, ChildrenHold
  <2>4. at[k] = at[c] + 1
    BY <1>0, <2>1, <2>3 DEF Trie, ParentsHold, Placed
  <2>5. k # c
    BY <1>0, <2>1, <2>4
  <2>6. CASE k = X
    <3>1. d # R /\ nd2[d].child[e] = R
      BY <2>1, <2>5, <2>6
    <3>2. nd2[R].parent = d
      BY <2>3, <2>6, <3>1
    <3>3. at[c] \in Nat /\ at[c] < at[X]
      BY <1>0, <2>1, <2>4, <2>6
    <3> QED
      BY <1>3, <2>1, <2>3, <2>6, <3>1, <3>2, <3>3
  <2>7. CASE k # X
    <3>1. nd2[d].child[e] = k /\ k \in N \ {X}
      BY <2>3, <2>7
    <3>2. nd2[k].parent = d
      BY <2>1, <2>3, <3>1
    <3> QED
      BY <2>1, <2>3, <3>1, <3>2
  <2> QED
    BY <2>6, <2>7
<1> QED
  BY <1>1, <1>4, <1>5, <1>6 DEF Trie

LEMMA TrieFacts ==
    ASSUME NEW N, NEW nd, NEW tb, NEW at, Trie(N, nd, tb, at), NEW c \in N
    PROVE  /\ c \in Chunk /\ c # Null /\ c # Root /\ at[c] \in Nat
           /\ nd[c].size \in Sizes /\ nd[c].size \in Nat /\ compute_tree_index(nd[c].size) \in Index
           /\ at[c] = 0 => nd[c].parent = Root /\ tb[compute_tree_index(nd[c].size)] = c
           /\ at[c] # 0 => nd[c].parent \in N /\ Placed(nd, at, c, nd[c].parent)
           /\ nd[c].parent \in N \cup {Root}
<1>1. /\ c \in Chunk /\ c # Null /\ c # Root /\ at[c] \in Nat
      /\ nd[c].size \in Sizes /\ nd[c].size \in Nat /\ compute_tree_index(nd[c].size) \in Index
  BY NotChunks, IndexFacts, WordFacts DEF Trie, Bounded
<1>2. CASE nd[c].parent = Root /\ tb[compute_tree_index(nd[c].size)] = c
  <2>1. at[c] = 0
    BY <1>1, <1>2 DEF Trie, RootsHold
  <2> QED
    BY <1>1, <1>2, <2>1
<1>3. CASE nd[c].parent \in N /\ Placed(nd, at, c, nd[c].parent)
  <2>1. at[nd[c].parent] \in Nat
    BY <1>3 DEF Trie, Bounded
  <2>2. at[c] # 0
    BY <1>3, <2>1 DEF Placed
  <2> QED
    BY <1>1, <1>3, <2>2
<1> QED
  BY <1>2, <1>3 DEF Trie, ParentsHold

(* w is u or below it.                                                     *)
Under(nd, at, w, u) == at[u] <= at[w] /\ Agree(nd[w].size, nd[u].size, at[u])

(* Position and first bits determine a chunk.                              *)
LEMMA OneAtDepth ==
    ASSUME NEW N, NEW nd, NEW tb, NEW at, Trie(N, nd, tb, at),
           NEW u \in N, NEW w \in N, Under(nd, at, w, u), at[w] = at[u]
    PROVE  w = u
<1> DEFINE Two2(n, x, y) == x # y /\ at[x] = n /\ at[y] = n /\ Agree(nd[x].size, nd[y].size, n)
           D == {n \in Nat : \E x, y \in N : Two2(n, x, y)}
<1> SUFFICES ASSUME w # u PROVE FALSE
  OBVIOUS
<1>1. at[u] \in D
  <2>1. at[u] \in Nat
    BY TrieFacts
  <2>2. Two2(at[u], w, u)
    BY DEF Under
  <2> QED
    BY <2>1, <2>2
<1>2. PICK n \in D : \A k \in D : n <= k
  <2>1. D \in SUBSET Nat /\ D # {}
    BY <1>1
  <2> HIDE DEF D
  <2> QED
    BY <2>1, LeastOf
<1>3. PICK x, y \in N : Two2(n, x, y)
  OBVIOUS
<1>4. compute_tree_index(nd[x].size) = compute_tree_index(nd[y].size)
  BY <1>3 DEF Agree
<1>5. CASE n = 0
  <2>1. tb[compute_tree_index(nd[x].size)] = x /\ tb[compute_tree_index(nd[y].size)] = y
    BY <1>3, <1>5, TrieFacts
  <2> QED
    BY <1>3, <1>4, <2>1
<1>6. CASE n # 0
  <2> DEFINE p == nd[x].parent
             q == nd[y].parent
  <2>1. p \in N /\ q \in N /\ Placed(nd, at, x, p) /\ Placed(nd, at, y, q)
    BY <1>3, <1>6, TrieFacts
  <2>2. at[p] \in Nat /\ at[q] \in Nat /\ n = at[p] + 1 /\ n = at[q] + 1
    BY <1>3, <2>1, TrieFacts DEF Placed
  <2>3. at[p] = at[q] /\ at[p] < n /\ at[p] <= n /\ n \in Nat
    BY <2>2
  <2>4. Agree(nd[x].size, nd[y].size, at[p])
    BY <1>3, <2>2, <2>3, AgreeFacts
  <2>5. Agree(nd[p].size, nd[q].size, at[p])
    <3>1. Agree(nd[p].size, nd[x].size, at[p]) /\ Agree(nd[y].size, nd[q].size, at[p])
      BY <2>1, <2>3, AgreeFacts DEF Placed
    <3>2. Agree(nd[p].size, nd[y].size, at[p])
      BY <2>4, <3>1, AgreeFacts
    <3> QED
      BY <3>1, <3>2, AgreeFacts
  <2>6. p = q
    <3> SUFFICES ASSUME p # q PROVE FALSE
      OBVIOUS
    <3>1. at[p] \in D
      BY <2>1, <2>2, <2>3, <2>5
    <3> QED
      BY <1>2, <2>2, <2>3, <3>1
  <2>7. Bit(nd[x].size, at[p]) = Bit(nd[y].size, at[p])
    BY <1>3, <2>2, <2>3 DEF Agree
  <2> QED
    BY <1>3, <2>1, <2>6, <2>7 DEF Placed
<1> QED
  BY <1>5, <1>6

(* A set of chunks has one that is highest.                                *)
LEMMA Highest ==
    ASSUME NEW N, NEW nd, NEW tb, NEW at, Trie(N, nd, tb, at), NEW B \in SUBSET N, B # {}
    PROVE  \E y \in B : \A z \in B : at[y] <= at[z]
<1> DEFINE D == {at[y] : y \in B}
<1>1. D \in SUBSET Nat /\ D # {}
  BY TrieFacts
<1>2. PICK n \in D : \A k \in D : n <= k
  <2> HIDE DEF D
  <2> QED
    BY <1>1, LeastOf
<1> QED
  BY <1>2

(* The child of u on whose side y is, and that y is below it.              *)
Turn(nd, at, u, y) == nd[u].child[Bit(nd[y].size, at[u])]

Leads(N, nd, at, u, y) ==
    /\ Turn(nd, at, u, y) \in N /\ Turn(nd, at, u, y) # Null
    /\ Under(nd, at, y, Turn(nd, at, u, y))
    /\ at[Turn(nd, at, u, y)] = at[u] + 1

(* What is below u is u or below a child of it.                            *)
LEMMA Descend ==
    ASSUME NEW N, NEW nd, NEW tb, NEW at, Trie(N, nd, tb, at),
           NEW u \in N, NEW w \in N, Under(nd, at, w, u), w # u
    PROVE  Leads(N, nd, at, u, w) /\ at[u] < at[w]
<1> DEFINE B == {y \in N : y # u /\ Under(nd, at, y, u) /\ ~Leads(N, nd, at, u, y)}
<1>0. ASSUME NEW y \in N, y # u, Under(nd, at, y, u)
      PROVE  at[u] < at[y] /\ at[u] \in Nat /\ at[y] \in Nat
  <2>1. at[y] # at[u]
    BY <1>0, OneAtDepth
  <2> QED
    BY <1>0, <2>1, TrieFacts DEF Under
<1>1. SUFFICES ASSUME B # {} PROVE FALSE
  BY <1>0
<1>2. PICK y \in B : \A z \in B : at[y] <= at[z]
  <2> HIDE DEF B
  <2>1. B \in SUBSET N
    BY DEF B
  <2> QED
    BY <1>1, <2>1, Highest
<1>3. y \in N /\ y # u /\ Under(nd, at, y, u) /\ ~Leads(N, nd, at, u, y)
  OBVIOUS
<1>4. at[u] < at[y] /\ at[u] \in Nat /\ at[y] \in Nat
  BY <1>0, <1>3
<1>5. PICK p \in N : p = nd[y].parent /\ Placed(nd, at, y, p)
  BY <1>3, <1>4, TrieFacts
<1>6. at[p] \in Nat /\ at[y] = at[p] + 1 /\ at[u] <= at[p] /\ at[p] < at[y]
  <2>1. at[p] \in Nat /\ at[y] = at[p] + 1
    BY <1>5, TrieFacts DEF Placed
  <2> QED
    BY <1>4, <2>1
<1>7. Agree(nd[y].size, nd[p].size, at[p])
  BY <1>5 DEF Placed
<1>8. Under(nd, at, p, u)
  <2>1. Agree(nd[y].size, nd[p].size, at[u])
    BY <1>4, <1>6, <1>7, AgreeFacts
  <2>2. Agree(nd[p].size, nd[u].size, at[u])
    BY <1>3, <2>1, AgreeFacts DEF Under
  <2> QED
    BY <1>6, <2>2 DEF Under
<1>9. CASE p = u
  <2>1. Turn(nd, at, u, y) = y
    BY <1>5, <1>9 DEF Placed, Turn
  <2>2. Under(nd, at, y, y)
    BY <1>4, AgreeFacts DEF Under
  <2>3. y # Null
    BY <1>3, TrieFacts
  <2> QED
    BY <1>3, <1>6, <1>9, <2>1, <2>2, <2>3 DEF Leads
<1>10. CASE p # u
  <2>1. p \notin B
    BY <1>2, <1>4, <1>6
  <2>2. Leads(N, nd, at, u, p)
    BY <1>8, <1>10, <2>1
  <2>3. PICK x \in N : x = Turn(nd, at, u, p) /\ x # Null /\ Under(nd, at, p, x) /\ at[x] = at[u] + 1
    BY <2>2 DEF Leads
  <2>4. at[u] < at[p] /\ at[x] \in Nat /\ at[x] <= at[p]
    BY <1>0, <1>8, <1>10, <2>3, TrieFacts DEF Under
  <2>5. Turn(nd, at, u, y) = x
    BY <1>4, <1>7, <2>3, <2>4 DEF Agree, Turn
  <2>6. Agree(nd[p].size, nd[x].size, at[x])
    BY <2>3 DEF Under
  <2>7. Agree(nd[y].size, nd[p].size, at[x])
    BY <1>6, <1>7, <2>4, AgreeFacts
  <2>8. Agree(nd[y].size, nd[x].size, at[x])
    BY <2>6, <2>7, AgreeFacts
  <2>9. Under(nd, at, y, x)
    BY <1>4, <1>6, <2>4, <2>8 DEF Under
  <2> QED
    BY <1>3, <2>3, <2>5, <2>9 DEF Leads
<1> QED
  BY <1>9, <1>10

(* A child is one step below.                                              *)
LEMMA ChildFacts ==
    ASSUME NEW N, NEW nd, NEW tb, NEW at, Trie(N, nd, tb, at),
           NEW u \in N, NEW b \in Side, nd[u].child[b] # Null
    PROVE  LET x == nd[u].child[b] IN
           /\ x \in N /\ nd[x].parent = u /\ at[x] = at[u] + 1
           /\ Agree(nd[x].size, nd[u].size, at[u]) /\ Bit(nd[x].size, at[u]) = b
           /\ \A w \in N : Under(nd, at, w, x) => Under(nd, at, w, u) /\ Bit(nd[w].size, at[u]) = b
<1> DEFINE x == nd[u].child[b]
<1>1. x \in N /\ nd[x].parent = u /\ Bit(nd[x].size, at[u]) = b
  BY DEF Trie, ChildrenHold
<1>2. u # Root /\ at[u] \in Nat
  BY TrieFacts
<1>3. Placed(nd, at, x, u)
  BY <1>1, <1>2, TrieFacts
<1> HIDE DEF x
<1>4. ASSUME NEW w \in N, Under(nd, at, w, x)
      PROVE  Under(nd, at, w, u) /\ Bit(nd[w].size, at[u]) = b
  <2>1. at[x] = at[u] + 1 /\ at[x] <= at[w] /\ Agree(nd[w].size, nd[x].size, at[x]) /\ at[w] \in Nat
    BY <1>3, <1>4, TrieFacts DEF Under, Placed
  <2>2. Agree(nd[w].size, nd[x].size, at[u]) /\ Bit(nd[w].size, at[u]) = Bit(nd[x].size, at[u])
    BY <1>2, <2>1, AgreeFacts
  <2>3. Agree(nd[w].size, nd[u].size, at[u])
    BY <1>3, <2>2, AgreeFacts DEF Placed
  <2> QED
    BY <1>1, <1>2, <2>1, <2>2, <2>3 DEF Under
<1> QED
  BY <1>1, <1>3, <1>4 DEF Placed, x

IsChild(N, nd, at, u, b, x) ==
    /\ x \in N /\ nd[x].parent = u /\ at[x] = at[u] + 1
    /\ Agree(nd[x].size, nd[u].size, at[u]) /\ Bit(nd[x].size, at[u]) = b
    /\ \A w \in N : Under(nd, at, w, x) => Under(nd, at, w, u) /\ Bit(nd[w].size, at[u]) = b

LEMMA ChildIs ==
    ASSUME NEW N, NEW nd, NEW tb, NEW at, Trie(N, nd, tb, at),
           NEW u \in N, NEW b \in Side, nd[u].child[b] # Null
    PROVE  IsChild(N, nd, at, u, b, nd[u].child[b])
BY ChildFacts DEF IsChild

(* A chunk in a tree has a root above it.                                  *)
LEMMA RootOf ==
    ASSUME NEW N, NEW nd, NEW tb, NEW at, Trie(N, nd, tb, at), NEW w \in N
    PROVE  LET r == tb[compute_tree_index(nd[w].size)] IN
           r \in N /\ at[r] = 0 /\ Under(nd, at, w, r) /\ r # Null
<1> DEFINE Rt(y) == tb[compute_tree_index(nd[y].size)]
           D == {n \in Nat : \E y \in N : at[y] = n /\ Rt(y) = Null}
<1>1. D = {}
  <2> SUFFICES ASSUME D # {} PROVE FALSE
    OBVIOUS
  <2>1. PICK n \in D : \A k \in D : n <= k
    <3>1. D \in SUBSET Nat
      OBVIOUS
    <3> HIDE DEF D
    <3> QED
      BY <3>1, LeastOf
  <2>2. PICK y \in N : at[y] = n /\ Rt(y) = Null
    OBVIOUS
  <2>3. n # 0
    BY <2>2, TrieFacts
  <2> DEFINE p == nd[y].parent
  <2>4. p \in N /\ Placed(nd, at, y, p)
    BY <2>2, <2>3, TrieFacts
  <2>5. Rt(p) = Rt(y) /\ at[p] \in Nat /\ at[p] < n
    BY <2>2, <2>4, TrieFacts DEF Placed, Agree
  <2>6. at[p] \in D
    BY <2>2, <2>4, <2>5
  <2> QED
    BY <2>1, <2>5, <2>6
<1>2. Rt(w) # Null
  BY <1>1, TrieFacts
<1>3. compute_tree_index(nd[w].size) \in Index
  BY TrieFacts
<1>4. Rt(w) \in N /\ at[Rt(w)] = 0 /\ compute_tree_index(nd[Rt(w)].size) = compute_tree_index(nd[w].size)
  BY <1>2, <1>3 DEF Trie, RootsHold
<1>5. Under(nd, at, w, Rt(w))
  BY <1>4, AgreeFacts, TrieFacts DEF Under
<1> QED
  BY <1>2, <1>4, <1>5

-----------------------------------------------------------------------------
(* The ways down.  c has a tree state t, the chunks N in its trees, their  *)
(* places at, and a bound D of these; a way down gets less far to go.      *)

(* Chunks that are not in a tree have no children.                         *)
Bare(N, nd) == \A c \in Chunk \ N : \A b \in Side : nd[c].child[b] = Null

(* What is assumed of c.                                                   *)
Walkable(c) ==
    /\ Trie(c.N, c.t.node, c.t.treebin, c.at)
    /\ Bare(c.N, c.t.node)
    /\ c.D \in Nat /\ \A u \in c.N : c.at[u] <= c.D

Left(c, u) == IF u = Null THEN 0 ELSE IF u \in c.N THEN c.D + 2 - c.at[u] ELSE 1

LEMMA Walks ==
    ASSUME NEW t, NEW N, NEW at, Trie(N, t.node, t.treebin, at), Bare(N, t.node)
    PROVE  \E D \in Nat : \A s : Walkable([t |-> t, N |-> N, at |-> at, D |-> D, s |-> s])
<1>1. PICK D \in Nat : \A u \in N : at[u] <= D
  BY DEF Trie, Bounded
<1> QED
  BY <1>1 DEF Walkable

LEMMA WalkFacts ==
    ASSUME NEW c, Walkable(c), NEW u \in Chunk \cup {Null}
    PROVE  /\ Left(c, u) \in Nat
           /\ u # Null => \A b \in Side : c.t.node[u].child[b] \in Chunk \cup {Null}
                                          /\ Left(c, c.t.node[u].child[b]) < Left(c, u)
<1>1. ASSUME NEW v \in c.N PROVE c.at[v] \in Nat /\ c.at[v] <= c.D /\ v \in Chunk /\ v # Null
  BY TrieFacts DEF Walkable
<1>2. Left(c, u) \in Nat
  BY <1>1 DEF Left, Walkable
<1>3. ASSUME u # Null, NEW b \in Side
      PROVE  c.t.node[u].child[b] \in Chunk \cup {Null} /\ Left(c, c.t.node[u].child[b]) < Left(c, u)
  <2>1. CASE c.t.node[u].child[b] = Null
    BY <1>1, <1>3, <2>1 DEF Left, Walkable
  <2>2. CASE c.t.node[u].child[b] # Null
    <3>1. u \in c.N
      BY <1>3, <2>2 DEF Walkable, Bare
    <3>2. PICK x \in c.N : x = c.t.node[u].child[b] /\ c.at[x] = c.at[u] + 1
      BY <2>2, <3>1, ChildFacts DEF Walkable
    <3> QED
      BY <1>1, <3>1, <3>2 DEF Left, Walkable
  <2> QED
    BY <2>1, <2>2
<1> QED
  BY <1>2, <1>3

DownOf(c, f, p) ==
    LET next == c.t.node[p[1]].child[TopBit(p[2])]
    IN  IF c.t.node[p[1]].size = c.s \/ next = Null THEN <<p[1]>>
        ELSE <<p[1]>> \o f[<<next, ShiftLeft(p[2], 1)>>]

Downs == INSTANCE StructureLemmas WITH
    Dom <- LAMBDA c : Chunk \X Word, Def <- LAMBDA c, f, p : DownOf(c, f, p),
    Rank <- LAMBDA c, p : Left(c, p[1]), ListHead <- Null

LEMMA WordSteps ==
    ASSUME NEW K \in Word
    PROVE  /\ TopBit(K) \in Side
           /\ ShiftLeft(K, 1) \in Word /\ ShiftLeft(K, 0) = K
           /\ \A k \in Nat : ShiftLeft(ShiftLeft(K, 1), k) = ShiftLeft(K, k + 1)
                             /\ TopBit(ShiftLeft(K, k)) \in Side
<1>1. K \in Nat /\ Two[Width] \in Nat \ {0} /\ K \in 0 .. Two[Width] - 1
  BY WordFacts DEF Word
<1>2. ShiftLeft(K, 0) = K
  <2>1. ShiftLeft(K, 0) = K % Two[Width]
    BY <1>1, TwoFacts DEF ShiftLeft
  <2>2. K = (0 * Two[Width]) + K
    BY <1>1
  <2>3. ((0 * Two[Width]) + K) % Two[Width] = K
    BY <1>1, DivModIs
  <2> QED
    BY <2>1, <2>2, <2>3
<1>3. \A k \in Nat : ShiftLeft(K, k) \in Word /\ ShiftLeft(ShiftLeft(K, 1), k) = ShiftLeft(K, 1 + k)
  <2> TAKE k \in Nat
  <2>1. K \in Nat /\ 1 \in Nat
    BY <1>1
  <2>2. ShiftLeft(K, k) \in Word
    BY ONLY <2>1, k \in Nat, ShiftTwice
  <2>3. ShiftLeft(ShiftLeft(K, 1), k) = ShiftLeft(K, 1 + k)
    BY ONLY <2>1, k \in Nat, ShiftTwice
  <2> QED
    BY ONLY <2>2, <2>3
<1>4. \A k \in Nat : 1 + k = k + 1
  OBVIOUS
<1> QED
  BY <1>2, <1>3, <1>4, TopBitIs

LEMMA PathStep ==
    ASSUME NEW t, NEW N, NEW at, Trie(N, t.node, t.treebin, at), Bare(N, t.node),
           NEW u \in Chunk, NEW K \in Word, NEW s
    PROVE  Path(t, u, K, s) =
               LET next == t.node[u].child[TopBit(K)]
               IN  IF t.node[u].size = s \/ next = Null THEN <<u>>
                   ELSE <<u>> \o Path(t, next, ShiftLeft(K, 1), s)
<1>1. PICK D \in Nat : Walkable([t |-> t, N |-> N, at |-> at, D |-> D, s |-> s])
  BY Walks
<1> DEFINE c == [t |-> t, N |-> N, at |-> at, D |-> D, s |-> s]
           F == CHOOSE f : f = [p \in Chunk \X Word |-> DownOf(c, f, p)]
<1>2. c.t = t /\ c.s = s
  OBVIOUS
<1> HIDE DEF c
<1>3. ASSUME NEW p \in Chunk \X Word, c.t.node[p[1]].child[TopBit(p[2])] # Null
      PROVE  LET q == <<c.t.node[p[1]].child[TopBit(p[2])], ShiftLeft(p[2], 1)>>
             IN  q \in Chunk \X Word /\ Left(c, q[1]) < Left(c, p[1])
  <2>1. p[1] \in Chunk /\ p[1] # Null /\ p[2] \in Word
    BY NotChunks
  <2>2. TopBit(p[2]) \in Side /\ ShiftLeft(p[2], 1) \in Word
    BY <2>1, WordSteps
  <2> QED
    BY <1>1, <1>3, <2>1, <2>2, WalkFacts DEF c
<1>4. Downs!Ranked(c)
  BY <1>1, WalkFacts DEF Downs!Ranked, c
<1>5. Downs!Local(c)
  BY <1>3 DEF Downs!Local, DownOf
<1>6. F = [p \in Chunk \X Word |-> DownOf(c, F, p)]
  BY <1>4, <1>5, Downs!RecursiveFunction
<1>7. ASSUME NEW v, NEW L PROVE Path(t, v, L, s) = F[<<v, L>>]
  BY <1>2 DEF Path, DownOf
<1> HIDE DEF F
<1>8. F[<<u, K>>] = DownOf(c, F, <<u, K>>)
  BY <1>6
<1> QED
  BY <1>2, <1>7, <1>8 DEF DownOf

(* P goes down from u as the bits of K say, up to a chunk of size s.       *)
IsPath(t, N, P, u, K, s) ==
    LET n == Len(P) IN
    /\ P \in Seq(N) /\ n \in Nat \ {0} /\ P[1] = u
    /\ \A k \in 1 .. n - 1 :
          /\ t.node[P[k]].size # s
          /\ P[k + 1] = t.node[P[k]].child[TopBit(ShiftLeft(K, k - 1))]
    /\ t.node[P[n]].size = s \/ t.node[P[n]].child[TopBit(ShiftLeft(K, n - 1))] = Null

(* A set of chunks has one that is lowest.                                 *)
LEMMA Lowest ==
    ASSUME NEW N, NEW nd, NEW tb, NEW at, Trie(N, nd, tb, at), NEW B \in SUBSET N, B # {}
    PROVE  \E y \in B : \A z \in B : at[z] <= at[y]
<1>1. PICK D \in Nat : \A u \in N : at[u] <= D
  BY DEF Trie, Bounded
<1> DEFINE E == {D - at[y] : y \in B}
<1>2. E \in SUBSET Nat /\ E # {}
  BY <1>1, TrieFacts
<1>3. PICK n \in E : \A k \in E : n <= k
  <2> HIDE DEF E
  <2> QED
    BY <1>2, LeastOf
<1>4. PICK y \in B : n = D - at[y]
  OBVIOUS
<1>5. ASSUME NEW z \in B PROVE at[z] <= at[y]
  <2>1. D - at[y] <= D - at[z]
    BY <1>3, <1>4
  <2>2. at[y] \in Nat /\ at[z] \in Nat
    BY TrieFacts
  <2> QED
    BY <1>1, <2>1, <2>2
<1> QED
  BY <1>5

LEMMA PathIs ==
    ASSUME NEW t, NEW N, NEW at, Trie(N, t.node, t.treebin, at), Bare(N, t.node),
           NEW u \in N, NEW K \in Word, NEW s
    PROVE  IsPath(t, N, Path(t, u, K, s), u, K, s)
<1> DEFINE B == {v \in N : \E L \in Word : ~IsPath(t, N, Path(t, v, L, s), v, L, s)}
<1> SUFFICES ASSUME B # {} PROVE FALSE
  OBVIOUS
<1>1. PICK y \in B : \A z \in B : at[z] <= at[y]
  <2>1. B \in SUBSET N
    OBVIOUS
  <2> HIDE DEF B
  <2> QED
    BY <2>1, Lowest
<1>2. PICK L \in Word : ~IsPath(t, N, Path(t, y, L, s), y, L, s)
  OBVIOUS
<1> DEFINE x == t.node[y].child[TopBit(L)]
<1>3. y \in Chunk /\ at[y] \in Nat
  BY TrieFacts
<1>4. L \in Word /\ TopBit(L) \in Side /\ ShiftLeft(L, 1) \in Word /\ ShiftLeft(L, 0) = L
      /\ \A k \in Nat : ShiftLeft(ShiftLeft(L, 1), k) = ShiftLeft(L, k + 1)
  BY WordSteps
<1> DEFINE rest == Path(t, x, ShiftLeft(L, 1), s)
<1>0. Path(t, y, L, s) = IF t.node[y].size = s \/ x = Null THEN <<y>> ELSE <<y>> \o rest
  <2>1. Path(t, y, L, s) =
            LET next == t.node[y].child[TopBit(L)]
            IN  IF t.node[y].size = s \/ next = Null THEN <<y>>
                ELSE <<y>> \o Path(t, next, ShiftLeft(L, 1), s)
    <3> HIDE DEF B
    <3>1. y \in Chunk
      BY <1>3
    <3>2. Trie(N, t.node, t.treebin, at) /\ Bare(N, t.node)
      OBVIOUS
    <3> QED
      BY ONLY <3>1, <3>2, L \in Word, PathStep
  <2> QED
    BY <2>1
<1>5. CASE t.node[y].size = s \/ x = Null
  <2>1. Path(t, y, L, s) = <<y>>
    <3> HIDE DEF rest
    <3> QED
      BY <1>0, <1>5
  <2>2. IsPath(t, N, <<y>>, y, L, s)
    BY <1>4, <1>5 DEF IsPath
  <2> QED
    BY <1>2, <2>1, <2>2
<1>6. CASE ~(t.node[y].size = s \/ x = Null)
  <2> DEFINE Q == Path(t, x, ShiftLeft(L, 1), s)
             P == <<y>> \o Q
             n == Len(Q)
  <2>1. Path(t, y, L, s) = P
    BY <1>0, <1>6
  <2>2. x \in N /\ at[x] = at[y] + 1
    BY <1>4, <1>6, ChildFacts
  <2>3. x \notin B
    BY <1>1, <1>3, <2>2
  <2>4. IsPath(t, N, Q, x, ShiftLeft(L, 1), s)
    BY <1>4, <2>2, <2>3
  <2>5. Q \in Seq(N) /\ n \in Nat \ {0} /\ <<y>> \in Seq(N)
    <3>1. Q \in Seq(N) /\ n \in Nat \ {0}
      BY <2>4 DEF IsPath
    <3>2. y \in N
      OBVIOUS
    <3> QED
      BY <3>1, <3>2
  <2> HIDE DEF Q, n
  <2>6. P \in Seq(N) /\ Len(P) = n + 1 /\ P[1] = y /\ \A k \in 1 .. n : P[k + 1] = Q[k]
    <3>1. P \in Seq(N) /\ Len(P) = Len(<<y>>) + Len(Q)
          /\ \A i \in 1 .. Len(<<y>>) + Len(Q) : P[i] = IF i <= Len(<<y>>) THEN <<y>>[i] ELSE Q[i - Len(<<y>>)]
      BY <2>5, ConcatProperties
    <3>2. Len(<<y>>) = 1 /\ <<y>>[1] = y
      OBVIOUS
    <3>3. P \in Seq(N) /\ Len(P) = 1 + n /\ \A i \in 1 .. 1 + n : P[i] = IF i <= 1 THEN y ELSE Q[i - 1]
      BY <3>1, <3>2 DEF n
    <3>4. \A k \in 1 .. n : k + 1 \in 1 .. 1 + n /\ ~(k + 1 <= 1) /\ (k + 1) - 1 = k
      BY <2>5
    <3> HIDE DEF P
    <3> QED
      BY <2>5, <3>3, <3>4
  <2> HIDE DEF P
  <2>7. ASSUME NEW k \in 1 .. n
        PROVE  TopBit(ShiftLeft(L, (k + 1) - 1)) = TopBit(ShiftLeft(ShiftLeft(L, 1), k - 1))
    <3>1. k - 1 \in Nat /\ (k + 1) - 1 = (k - 1) + 1
      BY <2>5
    <3> QED
      BY <1>4, <3>1
  <2>8. ASSUME NEW k \in 1 .. n
        PROVE  /\ t.node[P[k]].size # s
               /\ P[k + 1] = t.node[P[k]].child[TopBit(ShiftLeft(L, k - 1))]
    <3>1. CASE k = 1
      <4>1. P[1 + 1] = Q[1] /\ Q[1] = x
        BY <2>4, <2>5, <2>6 DEF IsPath
      <4> QED
        BY <1>4, <1>6, <2>6, <3>1, <4>1
    <3>2. CASE k # 1
      <4> DEFINE j == k - 1
      <4>1. j \in 1 .. n - 1 /\ j + 1 = k /\ k \in 1 .. n /\ j \in 1 .. n
        BY <2>5, <3>2
      <4>2. P[k] = Q[j] /\ P[k + 1] = Q[j + 1]
        BY <2>6, <4>1
      <4>3. /\ t.node[Q[j]].size # s
            /\ Q[j + 1] = t.node[Q[j]].child[TopBit(ShiftLeft(ShiftLeft(L, 1), j - 1))]
        BY <2>4, <4>1 DEF IsPath, n
      <4>4. TopBit(ShiftLeft(L, (j + 1) - 1)) = TopBit(ShiftLeft(ShiftLeft(L, 1), j - 1))
        BY <2>7, <4>1
      <4> HIDE DEF j
      <4> QED
        BY <4>1, <4>2, <4>3, <4>4
    <3> QED
      BY <3>1, <3>2
  <2>9. t.node[P[n + 1]].size = s \/ t.node[P[n + 1]].child[TopBit(ShiftLeft(L, (n + 1) - 1))] = Null
    <3>1. n \in 1 .. n
      BY <2>5
    <3>2. P[n + 1] = Q[n] /\ TopBit(ShiftLeft(L, (n + 1) - 1)) = TopBit(ShiftLeft(ShiftLeft(L, 1), n - 1))
      BY <2>6, <2>7, <3>1
    <3>3. t.node[Q[n]].size = s \/ t.node[Q[n]].child[TopBit(ShiftLeft(ShiftLeft(L, 1), n - 1))] = Null
      BY <2>4 DEF IsPath, n
    <3> QED
      BY <3>2, <3>3
  <2>10. IsPath(t, N, P, y, L, s)
    <3>1. (n + 1) - 1 = n /\ n + 1 \in Nat \ {0}
      BY <2>5
    <3> QED
      BY <2>6, <2>8, <2>9, <3>1 DEF IsPath
  <2> QED
    BY <1>2, <2>1, <2>10
<1> QED
  BY <1>5, <1>6

(* P is the way down the tree of s along the bits of s.                    *)
Searches(t, N, at, P, s) ==
    LET n == Len(P) IN
    /\ P \in Seq(N) /\ n \in Nat \ {0} /\ P[1] = t.treebin[compute_tree_index(s)]
    /\ \A k \in 1 .. n : P[k] \in N /\ at[P[k]] = k - 1 /\ Agree(t.node[P[k]].size, s, k - 1)
    /\ \A k \in 1 .. n - 1 :
          t.node[P[k]].size # s /\ P[k + 1] = t.node[P[k]].child[Bit(s, k - 1)]
    /\ t.node[P[n]].size = s \/ t.node[P[n]].child[Bit(s, n - 1)] = Null

SearchPath(t, s) ==
    LET i == compute_tree_index(s)
    IN  Path(t, t.treebin[i], ShiftLeft(s, leftshift_for_tree_index(i)), s)

LEMMA SearchIs ==
    ASSUME NEW t, NEW N, NEW at, Trie(N, t.node, t.treebin, at), Bare(N, t.node),
           NEW s \in Sizes, t.treebin[compute_tree_index(s)] # Null
    PROVE  Searches(t, N, at, SearchPath(t, s), s)
<1> DEFINE i == compute_tree_index(s)
           P == SearchPath(t, s)
           n == Len(P)
           K == Key(s, 0)
<1>1. t.treebin[i] \in N /\ at[t.treebin[i]] = 0 /\ compute_tree_index(t.node[t.treebin[i]].size) = i
  BY IndexFacts DEF Trie, RootsHold
<1>2. K \in Word /\ K = ShiftLeft(s, leftshift_for_tree_index(i)) /\ \A d \in Nat : TopBit(ShiftLeft(K, d)) = Bit(s, d)
  BY KeyFacts DEF Bit, Key
<1>3. IsPath(t, N, P, t.treebin[i], K, s)
  <2> HIDE DEF K
  <2> QED
    BY <1>1, <1>2, PathIs DEF SearchPath
<1>4. P \in Seq(N) /\ n \in Nat \ {0} /\ P[1] = t.treebin[i] /\ \A k \in 1 .. n : P[k] \in N
  <2>1. P \in Seq(N) /\ n \in Nat \ {0} /\ P[1] = t.treebin[i]
    BY <1>3 DEF IsPath
  <2> HIDE DEF P
  <2> QED
    BY <2>1, ElementOfSeq
<1>5. \A k \in 1 .. n - 1 : t.node[P[k]].size # s /\ P[k + 1] = t.node[P[k]].child[Bit(s, k - 1)]
  <2> HIDE DEF P
  <2> TAKE k \in 1 .. n - 1
  <2>1. k - 1 \in Nat
    OBVIOUS
  <2>2. t.node[P[k]].size # s /\ P[k + 1] = t.node[P[k]].child[TopBit(ShiftLeft(K, k - 1))]
    BY <1>3 DEF IsPath
  <2> QED
    BY <1>2, <2>1, <2>2
<1>6. t.node[P[n]].size = s \/ t.node[P[n]].child[Bit(s, n - 1)] = Null
  <2> HIDE DEF P
  <2>1. n - 1 \in Nat
    BY <1>4
  <2>2. t.node[P[n]].size = s \/ t.node[P[n]].child[TopBit(ShiftLeft(K, n - 1))] = Null
    BY <1>3 DEF IsPath
  <2> QED
    BY <1>2, <2>1, <2>2
<1>7. \A k \in 1 .. n : at[P[k]] = k - 1 /\ Agree(t.node[P[k]].size, s, k - 1)
  <2> DEFINE D == {k \in 1 .. n : ~(at[P[k]] = k - 1 /\ Agree(t.node[P[k]].size, s, k - 1))}
  <2> HIDE DEF P, K, i
  <2> SUFFICES ASSUME D # {} PROVE FALSE
    OBVIOUS
  <2>1. PICK k \in D : \A j \in D : k <= j
    <3>1. D \in SUBSET Nat
      BY <1>4
    <3> HIDE DEF D
    <3> QED
      BY <3>1, LeastOf
  <2>2. k \in 1 .. n
    OBVIOUS
  <2>3. k # 1
    <3>1. Agree(t.node[t.treebin[i]].size, s, 0)
      BY <1>1 DEF Agree, i
    <3> QED
      BY <1>1, <1>4, <3>1
  <2> DEFINE j == k - 1
  <2>4. j \in 1 .. n - 1 /\ j \in 1 .. n /\ j < k /\ j + 1 = k /\ j - 1 \in Nat /\ (j - 1) + 1 = k - 1
    BY <1>4, <2>2, <2>3
  <2>5. j \notin D
    BY <2>1, <2>4
  <2>6. at[P[j]] = j - 1 /\ Agree(t.node[P[j]].size, s, j - 1)
    BY <2>4, <2>5
  <2> HIDE DEF j, D
  <2>7. P[j] \in N /\ P[k] \in N /\ P[k] # Null /\ P[k] = t.node[P[j]].child[Bit(s, j - 1)] /\ Bit(s, j - 1) \in Side
    <3>1. P[j] \in N /\ P[k] \in N
      BY <1>4, <2>2, <2>4
    <3>2. P[j + 1] = t.node[P[j]].child[Bit(s, j - 1)]
      BY <1>5, <2>4
    <3>3. Bit(s, j - 1) \in Side
      <4> HIDE DEF D
      <4> QED
        BY <2>4, KeyFacts
    <3>4. P[k] # Null
      <4> HIDE DEF D
      <4> QED
        BY <3>1, TrieFacts
    <3> QED
      BY <2>4, <3>1, <3>2, <3>3, <3>4
  <2>8. at[P[k]] = at[P[j]] + 1 /\ Agree(t.node[P[k]].size, t.node[P[j]].size, j - 1)
        /\ Bit(t.node[P[k]].size, j - 1) = Bit(s, j - 1)
    BY <2>6, <2>7, ChildFacts
  <2>9. Agree(t.node[P[k]].size, s, j - 1)
    BY <2>6, <2>8, AgreeFacts
  <2>10. Agree(t.node[P[k]].size, s, k - 1)
    BY <2>4, <2>8, <2>9, AgreeFacts
  <2>11. at[P[k]] = k - 1
    BY <2>4, <2>6, <2>8
  <2> QED
    BY <2>10, <2>11 DEF D
<1> HIDE DEF P, K
<1>8. Searches(t, N, at, P, s)
  BY <1>4, <1>5, <1>6, <1>7 DEF Searches, i
<1> QED
  BY <1>8 DEF P

(* Where the way to a chunk w of the same tree leaves the search for s:    *)
(* not at all, or at P[k], below which w is.                               *)
LEMMA SearchLeft ==
    ASSUME NEW t, NEW N, NEW at, Trie(N, t.node, t.treebin, at),
           NEW s \in Sizes, NEW P, Searches(t, N, at, P, s),
           NEW w \in N, compute_tree_index(t.node[w].size) = compute_tree_index(s)
    PROVE  \/ \E k \in 1 .. Len(P) : w = P[k]
           \/ \E k \in 1 .. Len(P) :
                 /\ Under(t.node, at, w, P[k]) /\ w # P[k]
                 /\ \/ Bit(t.node[w].size, k - 1) # Bit(s, k - 1)
                    \/ k = Len(P) /\ t.node[P[k]].size = s
<1> DEFINE n == Len(P)
           D == {m \in Nat : n - m \in 1 .. n /\ Under(t.node, at, w, P[n - m])}
<1>1. n \in Nat \ {0} /\ P[1] = t.treebin[compute_tree_index(s)]
  BY DEF Searches
<1>2. ASSUME NEW k \in 1 .. n
      PROVE  P[k] \in N /\ at[P[k]] = k - 1 /\ k - 1 \in Nat
  BY DEF Searches
<1> HIDE DEF n
<1>3. PICK m \in D : \A j \in D : m <= j
  <2>1. Under(t.node, at, w, P[1])
    BY <1>1, RootOf
  <2>2. n - 1 \in D
    BY <1>1, <2>1
  <2>3. D \in SUBSET Nat /\ D # {}
    BY <2>2
  <2> HIDE DEF D
  <2> QED
    BY <2>3, LeastOf
<1>4. PICK k \in 1 .. n : k = n - m /\ Under(t.node, at, w, P[k])
  OBVIOUS
<1>5. SUFFICES ASSUME w # P[k], Bit(t.node[w].size, k - 1) = Bit(s, k - 1)
               PROVE  k = n /\ t.node[P[k]].size = s
  BY <1>4 DEF n
<1>6. Leads(N, t.node, at, P[k], w)
  BY <1>2, <1>4, <1>5, Descend
<1> DEFINE x == t.node[P[k]].child[Bit(s, k - 1)]
<1>7. x # Null /\ Under(t.node, at, w, x)
  BY <1>2, <1>5, <1>6 DEF Leads, Turn
<1>8. k = n
  <2> SUFFICES ASSUME k # n PROVE FALSE
    OBVIOUS
  <2>1. k \in 1 .. n - 1 /\ k + 1 \in 1 .. n /\ m - 1 \in Nat /\ n - (m - 1) = k + 1 /\ m \in Nat /\ m - 1 < m
    BY <1>1, <1>4
  <2>2. P[k + 1] = x
    BY <2>1 DEF Searches, n
  <2>3. m - 1 \in D
    BY <1>7, <2>1, <2>2
  <2> QED
    BY <1>3, <2>1, <2>3
<1>9. t.node[P[k]].size = s
  BY <1>7, <1>8 DEF Searches, n
<1> QED
  BY <1>8, <1>9

(* The search for a size that a chunk of the tree has ends at such a one.  *)
LEMMA SearchFinds ==
    ASSUME NEW t, NEW N, NEW at, Trie(N, t.node, t.treebin, at),
           NEW s \in Sizes, NEW P, Searches(t, N, at, P, s),
           NEW w \in N, t.node[w].size = s
    PROVE  t.node[P[Len(P)]].size = s
<1>1. CASE \E k \in 1 .. Len(P) : w = P[k]
  <2>1. PICK k \in 1 .. Len(P) : w = P[k]
    BY <1>1
  <2>2. Len(P) \in Nat /\ k \notin 1 .. Len(P) - 1
    BY <2>1 DEF Searches
  <2>3. k = Len(P)
    BY <2>2
  <2> QED
    BY <2>1, <2>3
<1>2. CASE ~\E k \in 1 .. Len(P) : w = P[k]
  BY <1>2, SearchLeft
<1> QED
  BY <1>1, <1>2

-----------------------------------------------------------------------------
(* The rings.  q[s] is the ring of the chunks of size s, from the one in   *)
(* the tree along bk.                                                      *)

After(n, i)  == IF i = n THEN 1 ELSE i + 1
Before(n, i) == IF i = 1 THEN n ELSE i - 1

Linked(nd, r, s) ==
    \A i \in 1 .. Len(r) :
        /\ nd[r[i]].size = s
        /\ nd[r[i]].bk = r[After(Len(r), i)] /\ nd[r[i]].fd = r[Before(Len(r), i)]
        /\ nd[r[i]].parent = Null <=> i # 1
        /\ \A j \in 1 .. Len(r) : r[j] = r[i] => j = i

Ringed(nd, q) ==
    /\ q \in [Sizes -> Seq(Chunk)]
    /\ \A s \in Sizes : Linked(nd, q[s], s)
    /\ \A c \in Chunk : nd[c].size # 0 =>
          nd[c].size \in Sizes /\ \E i \in 1 .. Len(q[nd[c].size]) : q[nd[c].size][i] = c

LEMMA RingFacts ==
    ASSUME NEW nd, NEW q, Ringed(nd, q), NEW s \in Sizes
    PROVE  /\ q[s] \in Seq(Chunk) /\ Len(q[s]) \in Nat
           /\ \A i \in 1 .. Len(q[s]) : q[s][i] \in Chunk
           /\ s \in Nat /\ s # 0
<1>1. q[s] \in Seq(Chunk) /\ s \in Nat /\ s # 0
  BY WordFacts DEF Ringed, Sizes
<1> QED
  BY <1>1, ElementOfSeq, LenProperties

LEMMA RingsWith ==
    ASSUME NEW nd, NEW q, Ringed(nd, q), NEW X \in Chunk, nd[X].size = 0, NEW S \in Sizes, NEW nd2,
           nd2[X].size = S,
           Len(q[S]) = 0 => nd2[X].bk = X /\ nd2[X].fd = X /\ nd2[X].parent # Null,
           Len(q[S]) # 0 => nd2[X].bk = q[S][1] /\ nd2[X].fd = q[S][Len(q[S])] /\ nd2[X].parent = Null,
           \A c \in Chunk \ {X} :
              /\ nd2[c].size = nd[c].size
              /\ nd2[c].parent = Null <=> nd[c].parent = Null
              /\ nd2[c].bk = IF Len(q[S]) # 0 /\ c = q[S][Len(q[S])] THEN X ELSE nd[c].bk
              /\ nd2[c].fd = IF Len(q[S]) # 0 /\ c = q[S][1] THEN X ELSE nd[c].fd
    PROVE  Ringed(nd2, Bins!With(q, X, S))
<1> DEFINE q2 == Bins!With(q, X, S)
           n == Len(q[S])
<1>1. /\ q2 \in [Sizes -> Seq(Chunk)] /\ q2[S] = Append(q[S], X)
      /\ \A s \in Sizes \ {S} : q2[s] = q[s]
  <2>1. Append(q[S], X) \in Seq(Chunk)
    BY RingFacts
  <2> QED
    BY <2>1 DEF Ringed, Bins!With
<1>2. /\ q[S] \in Seq(Chunk) /\ n \in Nat
      /\ \A s \in Sizes, i \in Nat : i \in 1 .. Len(q[s]) => q[s][i] \in Chunk \ {X}
  <2>1. ASSUME NEW s \in Sizes, NEW i \in 1 .. Len(q[s]) PROVE q[s][i] \in Chunk \ {X}
    <3>1. Linked(nd, q[s], s)
      BY DEF Ringed
    <3>2. nd[q[s][i]].size = s
      BY <3>1 DEF Linked
    <3> QED
      BY <3>2, RingFacts
  <2> QED
    BY <2>1, RingFacts
<1>3. Len(q2[S]) = n + 1 /\ q2[S][n + 1] = X /\ \A i \in 1 .. n : q2[S][i] = q[S][i]
  BY <1>1, <1>2, AppendProperties
<1> HIDE DEF q2, n
<1>4. ASSUME NEW s \in Sizes \ {S} PROVE Linked(nd2, q2[s], s)
  <2> DEFINE r == q[s]
             k == Len(r)
  <2>1. r = q2[s] /\ Linked(nd, r, s)
    BY <1>1 DEF Ringed
  <2>2. k \in Nat /\ \A i \in 1 .. k : r[i] \in Chunk \ {X}
    BY <1>2, RingFacts
  <2>3. ASSUME NEW i \in 1 .. k, NEW j \in 1 .. n PROVE r[i] # q[S][j]
    BY <2>3 DEF Ringed, Linked, n
  <2>4. ASSUME NEW i \in 1 .. k
        PROVE  /\ nd2[r[i]].size = nd[r[i]].size /\ nd2[r[i]].bk = nd[r[i]].bk /\ nd2[r[i]].fd = nd[r[i]].fd
               /\ nd2[r[i]].parent = Null <=> nd[r[i]].parent = Null
    <3>1. r[i] \in Chunk \ {X} /\ (n # 0 => r[i] # q[S][n] /\ r[i] # q[S][1])
      BY <1>2, <2>2, <2>3
    <3> HIDE DEF r
    <3> QED
      BY <3>1 DEF n
  <2> HIDE DEF r
  <2> QED
    BY <2>1, <2>2, <2>4 DEF Linked
<1>5. Linked(nd2, q2[S], S)
  <2> DEFINE r == q[S]
             r2 == q2[S]
  <2>1. Linked(nd, r, S) /\ n = Len(r) /\ Len(r2) = n + 1
    BY <1>3 DEF Ringed, n
  <2>2. \A i \in 1 .. n : r2[i] = r[i] /\ r[i] \in Chunk \ {X}
    BY <1>2, <1>3 DEF n
  <2>3. r2[n + 1] = X
    BY <1>3
  <2> HIDE DEF r, r2
  <2> SUFFICES ASSUME NEW i \in 1 .. n + 1
               PROVE  /\ nd2[r2[i]].size = S
                      /\ nd2[r2[i]].bk = r2[After(n + 1, i)] /\ nd2[r2[i]].fd = r2[Before(n + 1, i)]
                      /\ nd2[r2[i]].parent = Null <=> i # 1
                      /\ \A j \in 1 .. n + 1 : r2[j] = r2[i] => j = i
    BY <2>1 DEF Linked, r2
  <2>4. CASE i = n + 1 /\ n = 0
    BY <1>2, <2>3, <2>4 DEF After, Before, n
  <2>5. CASE i = n + 1 /\ n # 0
    <3>1. n \in 1 .. n /\ 1 \in 1 .. n /\ After(n + 1, i) = 1 /\ Before(n + 1, i) = n
      BY <1>2, <2>5 DEF After, Before
    <3>2. r2[1] = r[1] /\ r2[n] = r[n]
      BY <2>2, <3>1
    <3>3. nd2[X].bk = r[1] /\ nd2[X].fd = r[n] /\ nd2[X].parent = Null
      BY <2>5 DEF n, r
    <3>4. \A j \in 1 .. n + 1 : r2[j] = r2[i] => j = i
      BY <1>2, <2>2, <2>3, <2>5
    <3> QED
      BY <1>2, <2>3, <2>5, <3>1, <3>2, <3>3, <3>4
  <2>6. CASE i # n + 1
    <3>1. i \in 1 .. n /\ n # 0 /\ n \in 1 .. n /\ 1 \in 1 .. n /\ n + 1 # i
      BY <1>2, <2>6
    <3>2. r2[i] = r[i] /\ r[i] \in Chunk \ {X}
      BY <2>2, <3>1
    <3>3. /\ nd[r[i]].size = S
          /\ nd[r[i]].bk = r[After(n, i)] /\ nd[r[i]].fd = r[Before(n, i)]
          /\ nd[r[i]].parent = Null <=> i # 1
          /\ \A j \in 1 .. n : r[j] = r[i] => j = i
      BY <2>1, <3>1 DEF Linked
    <3>4. (r[n] = r[i] <=> i = n) /\ (r[1] = r[i] <=> i = 1)
      BY <3>1, <3>3
    <3>5. /\ nd2[r[i]].size = nd[r[i]].size /\ (nd2[r[i]].parent = Null <=> nd[r[i]].parent = Null)
          /\ nd2[r[i]].bk = IF n # 0 /\ r[i] = r[n] THEN X ELSE nd[r[i]].bk
          /\ nd2[r[i]].fd = IF n # 0 /\ r[i] = r[1] THEN X ELSE nd[r[i]].fd
      BY <3>2 DEF n, r
    <3>6. nd2[r[i]].bk = r2[After(n + 1, i)]
      <4>1. CASE i = n
        BY <1>2, <2>3, <3>1, <3>4, <3>5, <4>1 DEF After
      <4>2. CASE i # n
        <5>1. After(n, i) = i + 1 /\ After(n + 1, i) = i + 1 /\ i + 1 \in 1 .. n
          BY <1>2, <3>1, <4>2 DEF After
        <5> QED
          BY <2>2, <3>3, <3>4, <3>5, <4>2, <5>1
      <4> QED
        BY <4>1, <4>2
    <3>7. nd2[r[i]].fd = r2[Before(n + 1, i)]
      <4>1. CASE i = 1
        BY <1>2, <2>3, <3>1, <3>4, <3>5, <4>1 DEF Before
      <4>2. CASE i # 1
        <5>1. Before(n, i) = i - 1 /\ Before(n + 1, i) = i - 1 /\ i - 1 \in 1 .. n
          BY <1>2, <3>1, <4>2 DEF Before
        <5> QED
          BY <2>2, <3>3, <3>4, <3>5, <4>2, <5>1
      <4> QED
        BY <4>1, <4>2
    <3>8. \A j \in 1 .. n + 1 : r2[j] = r2[i] => j = i
      <4> TAKE j \in 1 .. n + 1
      <4>1. CASE j = n + 1
        BY <2>3, <3>2, <4>1
      <4>2. CASE j # n + 1
        <5>1. j \in 1 .. n
          BY <1>2, <4>2
        <5> QED
          BY <2>2, <3>2, <3>3, <5>1
      <4> QED
        BY <4>1, <4>2
    <3> QED
      BY <3>2, <3>3, <3>5, <3>6, <3>7, <3>8
  <2> QED
    BY <2>4, <2>5, <2>6
<1>6. ASSUME NEW c \in Chunk, nd2[c].size # 0
      PROVE  nd2[c].size \in Sizes /\ \E i \in 1 .. Len(q2[nd2[c].size]) : q2[nd2[c].size][i] = c
  <2>1. CASE c = X
    <3>1. n + 1 \in 1 .. Len(q2[S])
      BY <1>2, <1>3
    <3> QED
      BY <1>3, <2>1, <3>1
  <2>2. CASE c # X
    <3> DEFINE s == nd[c].size
    <3>1. nd2[c].size = s /\ s \in Sizes
      BY <1>6, <2>2 DEF Ringed
    <3>2. PICK i \in 1 .. Len(q[s]) : q[s][i] = c
      BY <1>6, <2>2 DEF Ringed
    <3>3. CASE s = S
      <4>1. i \in 1 .. Len(q2[S]) /\ i \in 1 .. n
        BY <1>2, <1>3, <3>2, <3>3 DEF n
      <4> QED
        BY <1>3, <3>1, <3>2, <3>3, <4>1
    <3>4. CASE s # S
      BY <1>1, <3>1, <3>2, <3>4
    <3> QED
      BY <3>3, <3>4
  <2> QED
    BY <2>1, <2>2
<1>7. Ringed(nd2, q2)
  BY <1>1, <1>4, <1>5, <1>6 DEF Ringed
<1> QED
  BY <1>7 DEF q2

(* Where the chunk at position j of a ring was before position i was taken *)
(* out.                                                                    *)
Was(i, j) == IF j < i THEN j ELSE j + 1

IsLess(q, s, i, q2) ==
    /\ q2 \in [Sizes -> Seq(Chunk)]
    /\ \A z \in Sizes \ {s} : q2[z] = q[z]
    /\ Len(q2[s]) = Len(q[s]) - 1
    /\ \A j \in 1 .. Len(q[s]) - 1 : q2[s][j] = q[s][Was(i, j)]

LEMMA RingLess ==
    ASSUME NEW q, q \in [Sizes -> Seq(Chunk)], NEW s \in Sizes, NEW i \in 1 .. Len(q[s]),
           \A j \in 1 .. Len(q[s]) : q[s][j] = q[s][i] => j = i,
           \A z \in Sizes \ {s} : \A j \in 1 .. Len(q[z]) : q[z][j] # q[s][i]
    PROVE  IsLess(q, s, i, Bins!Less(q, q[s][i]))
<1> DEFINE r == q[s]
           n == Len(r)
           q2 == Bins!Less(q, r[i])
           a == SubSeq(r, 1, i - 1)
           b == SubSeq(r, i + 1, n)
<1>1. r \in Seq(Chunk) /\ n \in Nat /\ \A j \in 1 .. n : r[j] \in Chunk
  BY ElementOfSeq, LenProperties
<1>2. q2[s] = a \o b
  <2>1. i = CHOOSE j \in DOMAIN r : r[j] = r[i]
    BY <1>1, LenProperties
  <2>2. DOMAIN r = 1 .. n
    BY <1>1, LenProperties
  <2> QED
    BY <2>1, <2>2 DEF Bins!Less, Bins!RemoveAt
<1>3. ASSUME NEW z \in Sizes \ {s} PROVE q2[z] = q[z]
  <2>1. DOMAIN q[z] = 1 .. Len(q[z])
    BY LenProperties
  <2> QED
    BY <2>1 DEF Bins!Less
<1>4. i \in 1 .. n
  OBVIOUS
<1> HIDE DEF r
<1>5. a \in Seq(Chunk) /\ Len(a) = i - 1 /\ \A j \in 1 .. i - 1 : a[j] = r[j]
  <2>1. i - 1 \in Int /\ 1 \in Int /\ \A j \in 1 .. i - 1 : r[j] \in Chunk
    BY <1>1, <1>4
  <2>2. /\ a \in Seq(Chunk) /\ Len(a) = IF 1 <= i - 1 THEN (i - 1) - 1 + 1 ELSE 0
        /\ \A j \in 1 .. (i - 1) - 1 + 1 : a[j] = r[1 + j - 1]
    BY <2>1, SubSeqProperties
  <2>3. (i - 1) - 1 + 1 = i - 1 /\ \A j \in 1 .. i - 1 : 1 + j - 1 = j
    BY <1>4
  <2> HIDE DEF a
  <2> QED
    BY <1>1, <1>4, <2>2, <2>3
<1>6. b \in Seq(Chunk) /\ Len(b) = n - i /\ \A j \in 1 .. n - i : b[j] = r[i + j]
  <2>1. i + 1 \in Int /\ n \in Int /\ \A j \in i + 1 .. n : r[j] \in Chunk
    BY <1>1, <1>4
  <2>2. /\ b \in Seq(Chunk) /\ Len(b) = IF i + 1 <= n THEN n - (i + 1) + 1 ELSE 0
        /\ \A j \in 1 .. n - (i + 1) + 1 : b[j] = r[i + 1 + j - 1]
    BY <2>1, SubSeqProperties
  <2> HIDE DEF b, n
  <2>3. n - (i + 1) + 1 = n - i /\ i \in Nat /\ \A j \in Nat : i + 1 + j - 1 = i + j
    BY <1>1, <1>4
  <2>4. Len(b) = n - i
    BY <1>1, <1>4, <2>2
  <2>5. ASSUME NEW j \in 1 .. n - i PROVE b[j] = r[i + j]
    <3>1. b[j] = r[i + 1 + j - 1]
      BY <2>2, <2>3
    <3>2. i \in Nat /\ n \in Nat
      BY <1>1, <2>3
    <3>3. j \in Nat
      BY <3>2
    <3>4. i + 1 + j - 1 = i + j
      BY <3>2, <3>3
    <3> QED
      BY <3>1, <3>4
  <2> QED
    BY <2>2, <2>4, <2>5
<1> HIDE DEF a, b, q2, n
<1>7. a \o b \in Seq(Chunk) /\ Len(a \o b) = n - 1 /\ \A j \in 1 .. n - 1 : (a \o b)[j] = r[Was(i, j)]
  <2>1. /\ a \o b \in Seq(Chunk) /\ Len(a \o b) = Len(a) + Len(b)
        /\ \A j \in 1 .. Len(a) + Len(b) : (a \o b)[j] = IF j <= Len(a) THEN a[j] ELSE b[j - Len(a)]
    BY <1>5, <1>6, ConcatProperties
  <2>2. Len(a) + Len(b) = n - 1
    BY <1>1, <1>4, <1>5, <1>6 DEF n
  <2>3. ASSUME NEW j \in 1 .. n - 1 PROVE (a \o b)[j] = r[Was(i, j)]
    <3>1. CASE j < i
      <4>1. j \in 1 .. i - 1 /\ j <= Len(a)
        BY <1>4, <1>5, <3>1
      <4> QED
        BY <1>5, <2>1, <2>2, <3>1, <4>1 DEF Was
    <3>2. CASE ~(j < i)
      <4>1. ~(j <= Len(a)) /\ j - Len(a) \in 1 .. n - i /\ i + (j - Len(a)) = j + 1
        BY <1>1, <1>4, <1>5, <3>2
      <4>2. (a \o b)[j] = b[j - Len(a)]
        BY <2>1, <2>2, <4>1
      <4> QED
        BY <1>6, <3>2, <4>1, <4>2 DEF Was
    <3> QED
      BY <3>1, <3>2
  <2> QED
    BY <2>1, <2>2, <2>3
<1>8. q2 \in [Sizes -> Seq(Chunk)]
  <2>1. \A z \in Sizes : q2[z] \in Seq(Chunk)
    BY <1>2, <1>3, <1>7
  <2>2. q2 = [z \in Sizes |-> q2[z]]
    BY DEF q2, Bins!Less
  <2> QED
    BY <2>1, <2>2
<1>9. Len(q2[s]) = n - 1 /\ \A j \in 1 .. n - 1 : q2[s][j] = r[Was(i, j)]
  BY <1>2, <1>7
<1>10. IsLess(q, s, i, q2)
  BY <1>3, <1>8, <1>9 DEF n, r, IsLess
<1> QED
  BY <1>10 DEF q2, r

(* X is taken out of the ring, in which it was the i-th.                   *)
LeavesRing(nd, nd2, X, i) ==
    /\ nd2[X].size = 0
    /\ \A c \in Chunk \ {X} :
          /\ nd2[c].size = nd[c].size
          /\ nd2[c].bk = IF c = nd[X].fd THEN nd[X].bk ELSE nd[c].bk
          /\ nd2[c].fd = IF c = nd[X].bk THEN nd[X].fd ELSE nd[c].fd
          /\ nd2[c].parent = Null <=> nd[c].parent = Null /\ ~(i = 1 /\ c = nd[X].bk)

LEMMA RingsLess ==
    ASSUME NEW nd, NEW q, Ringed(nd, q), NEW s \in Sizes, NEW i \in 1 .. Len(q[s]), NEW X, X = q[s][i], NEW nd2,
           LeavesRing(nd, nd2, X, i)
    PROVE  Ringed(nd2, Bins!Less(q, X))
<1> SUFFICES ASSUME nd2[X].size = 0,
                    \A c \in Chunk \ {X} :
                       /\ nd2[c].size = nd[c].size
                       /\ nd2[c].bk = IF c = nd[X].fd THEN nd[X].bk ELSE nd[c].bk
                       /\ nd2[c].fd = IF c = nd[X].bk THEN nd[X].fd ELSE nd[c].fd
                       /\ nd2[c].parent = Null <=> nd[c].parent = Null /\ ~(i = 1 /\ c = nd[X].bk)
             PROVE  Ringed(nd2, Bins!Less(q, X))
  BY DEF LeavesRing
<1> DEFINE r == q[s]
           n == Len(r)
           q2 == Bins!Less(q, X)
           r2 == q2[s]
<1>1. /\ r \in Seq(Chunk) /\ n \in Nat /\ i \in 1 .. n /\ X \in Chunk /\ r[i] = X
      /\ \A j \in 1 .. n : r[j] \in Chunk
  BY RingFacts
<1>2. Linked(nd, r, s)
  BY DEF Ringed
<1>3. ASSUME NEW z \in Sizes, NEW j \in 1 .. Len(q[z])
      PROVE  q[z][j] \in Chunk /\ nd[q[z][j]].size = z /\ nd[X].size = s /\ (z # s => q[z][j] # X)
  <2>1. nd[q[z][j]].size = z
    BY <1>3 DEF Ringed, Linked
  <2>2. nd[X].size = s
    BY <1>1, <1>2 DEF Linked
  <2> QED
    BY <1>3, <2>1, <2>2, RingFacts
<1>4. /\ q2 \in [Sizes -> Seq(Chunk)]
      /\ \A z \in Sizes \ {s} : q2[z] = q[z]
      /\ Len(r2) = n - 1
      /\ \A j \in 1 .. n - 1 : r2[j] = r[Was(i, j)]
  <2>1. q \in [Sizes -> Seq(Chunk)]
    BY DEF Ringed
  <2>2. \A j \in 1 .. Len(q[s]) : q[s][j] = q[s][i] => j = i
    BY <1>2 DEF Linked
  <2>3. \A z \in Sizes \ {s} : \A j \in 1 .. Len(q[z]) : q[z][j] # q[s][i]
    BY <1>3
  <2>4. IsLess(q, s, i, Bins!Less(q, q[s][i]))
    BY <2>1, <2>2, <2>3, RingLess
  <2>5. IsLess(q, s, i, q2)
    BY <2>4
  <2> HIDE DEF q2
  <2> QED
    BY <2>5 DEF IsLess
<1> HIDE DEF q2
<1>5. nd[X].bk = r[After(n, i)] /\ nd[X].fd = r[Before(n, i)]
  BY <1>1, <1>2 DEF Linked
<1>6. ASSUME NEW z \in Sizes \ {s} PROVE Linked(nd2, q2[z], z)
  <2> DEFINE rz == q[z]
  <2>1. rz = q2[z] /\ Linked(nd, rz, z) /\ Len(rz) \in Nat
    BY <1>4, RingFacts DEF Ringed
  <2>2. ASSUME NEW j \in 1 .. Len(rz)
        PROVE  /\ nd2[rz[j]].size = nd[rz[j]].size
               /\ nd2[rz[j]].bk = nd[rz[j]].bk /\ nd2[rz[j]].fd = nd[rz[j]].fd
               /\ nd2[rz[j]].parent = Null <=> nd[rz[j]].parent = Null
    <3>1. rz[j] \in Chunk \ {X}
      BY <1>3
    <3>2. After(n, i) \in 1 .. n /\ Before(n, i) \in 1 .. n
      BY <1>1 DEF After, Before
    <3>3. nd[r[After(n, i)]].size = s /\ nd[r[Before(n, i)]].size = s /\ nd[rz[j]].size = z
      BY <1>3, <3>2
    <3>4. rz[j] # nd[X].bk /\ rz[j] # nd[X].fd
      BY <1>5, <3>3
    <3> HIDE DEF rz
    <3> QED
      BY <3>1, <3>4
  <2> HIDE DEF rz
  <2> QED
    BY <2>1, <2>2 DEF Linked
<1>7. Linked(nd2, r2, s)
  <2> HIDE DEF r, n, r2
  <2> SUFFICES ASSUME NEW j \in 1 .. n - 1
               PROVE  /\ nd2[r2[j]].size = s
                      /\ nd2[r2[j]].bk = r2[After(n - 1, j)] /\ nd2[r2[j]].fd = r2[Before(n - 1, j)]
                      /\ nd2[r2[j]].parent = Null <=> j # 1
                      /\ \A k \in 1 .. n - 1 : r2[k] = r2[j] => k = j
    BY <1>4 DEF Linked
  <2>0. n \in Nat /\ i \in 1 .. n /\ j \in 1 .. n - 1
    BY <1>1
  <2>1. PICK w \in 1 .. n : w = Was(i, j) /\ w # i
    BY <2>0 DEF Was, After, Before
  <2>2. r2[j] = r[w]
    BY <1>4, <2>1
  <2>3. /\ nd[r[w]].size = s
        /\ nd[r[w]].bk = r[After(n, w)] /\ nd[r[w]].fd = r[Before(n, w)]
        /\ nd[r[w]].parent = Null <=> w # 1
        /\ \A k \in 1 .. n : r[k] = r[w] => k = w
    BY <1>2, <2>1 DEF Linked, n
  <2>4. r[w] \in Chunk \ {X}
    BY <1>1, <2>1, <2>3
  <2>5. After(n, i) \in 1 .. n /\ Before(n, i) \in 1 .. n /\ After(n - 1, j) \in 1 .. n - 1 /\ Before(n - 1, j) \in 1 .. n - 1
    BY <2>0 DEF Was, After, Before
  <2>6. (r[w] = nd[X].bk <=> w = After(n, i)) /\ (r[w] = nd[X].fd <=> w = Before(n, i))
    BY <1>5, <2>3, <2>5
  <2>7. nd2[r[w]].bk = r2[After(n - 1, j)]
    <3>1. Was(i, After(n - 1, j)) = IF w = Before(n, i) THEN After(n, i) ELSE After(n, w)
      BY <2>0, <2>1 DEF Was, After, Before
    <3>2. r2[After(n - 1, j)] = r[IF w = Before(n, i) THEN After(n, i) ELSE After(n, w)]
      BY <1>4, <2>5, <3>1
    <3> QED
      BY <1>5, <2>3, <2>4, <2>6, <3>2
  <2>8. nd2[r[w]].fd = r2[Before(n - 1, j)]
    <3>1. Was(i, Before(n - 1, j)) = IF w = After(n, i) THEN Before(n, i) ELSE Before(n, w)
      BY <2>0, <2>1 DEF Was, After, Before
    <3>2. r2[Before(n - 1, j)] = r[IF w = After(n, i) THEN Before(n, i) ELSE Before(n, w)]
      BY <1>4, <2>5, <3>1
    <3> QED
      BY <1>5, <2>3, <2>4, <2>6, <3>2
  <2>9. nd2[r[w]].parent = Null <=> j # 1
    <3>1. (w = 1 \/ (i = 1 /\ w = 2)) <=> j = 1
      BY <2>0, <2>1 DEF Was, After, Before
    <3>2. i = 1 => (w = After(n, i) <=> w = 2)
      BY <1>1, <2>1 DEF After
    <3> QED
      BY <2>3, <2>4, <2>6, <3>1, <3>2
  <2>10. ASSUME NEW k \in 1 .. n - 1, r2[k] = r2[j] PROVE k = j
    <3>1. Was(i, k) \in 1 .. n /\ r2[k] = r[Was(i, k)]
      BY <2>0, <1>4 DEF Was, After, Before
    <3>2. Was(i, k) = w
      BY <2>2, <2>3, <2>10, <3>1
    <3> QED
      BY <2>0, <2>1, <3>2 DEF Was, After, Before
  <2> QED
    BY <2>2, <2>3, <2>4, <2>7, <2>8, <2>9, <2>10
<1>8. ASSUME NEW c \in Chunk, nd2[c].size # 0
      PROVE  nd2[c].size \in Sizes /\ \E j \in 1 .. Len(q2[nd2[c].size]) : q2[nd2[c].size][j] = c
  <2>1. c # X
    BY <1>8
  <2>2. nd2[c].size = nd[c].size
    BY <2>1
  <2>3. PICK z \in Sizes : z = nd[c].size
    BY <1>8, <2>2 DEF Ringed
  <2>4. PICK k \in 1 .. Len(q[z]) : q[z][k] = c
    BY <1>8, <2>2, <2>3 DEF Ringed
  <2>5. CASE z # s
    BY <1>4, <2>2, <2>3, <2>4, <2>5
  <2>6. CASE z = s
    <3>1. k \in 1 .. n /\ k # i /\ r[k] = c
      BY <1>1, <2>1, <2>4, <2>6
    <3> HIDE DEF r, n
    <3> DEFINE j == IF k < i THEN k ELSE k - 1
    <3>2. j \in 1 .. n - 1 /\ Was(i, j) = k
      BY <1>1, <3>1 DEF Was
    <3>3. r2[j] = c
      BY <1>4, <3>1, <3>2
    <3> QED
      BY <1>4, <2>2, <2>3, <2>6, <3>2, <3>3
  <2> QED
    BY <2>5, <2>6
<1>9. Ringed(nd2, q2)
  BY <1>4, <1>6, <1>7, <1>8 DEF Ringed
<1> QED
  BY <1>9 DEF q2

-----------------------------------------------------------------------------
(* The states of the bins.                                                 *)

Fields == [size : Sizes, index : Index, parent : Chunk \cup {Null, Root}, fd : Chunk, bk : Chunk,
           child : [Side -> Chunk \cup {Null}]]

IsState(t) ==
    t \in [node : [Chunk -> Fields \cup {NoNode}], treebin : [Index -> Chunk \cup {Null}], treemap : SUBSET Index]

TreeOf(t) == {c \in Chunk : t.node[c].parent # Null}

(* The bins are queues q, the trees have chunks at places at.              *)
Good(t, q, at) ==
    /\ IsState(t)
    /\ Ringed(t.node, q)
    /\ Trie(TreeOf(t), t.node, t.treebin, at)
    /\ Bare(TreeOf(t), t.node)
    /\ \A c \in Chunk : t.node[c].size # 0 => t.node[c].index = compute_tree_index(t.node[c].size)
    /\ t.treemap = {i \in Index : t.treebin[i] # Null}

LEMMA NodeFacts ==
    ASSUME NEW t, IsState(t), NEW c \in Chunk
    PROVE  /\ t.node[c] # NoNode <=> t.node[c].size # 0
           /\ t.node[c] # NoNode => t.node[c] \in Fields
           /\ t.node[c].size = 0 => t.node[c] = NoNode /\ t.node[c].parent = Null
           /\ t.node[c].child \in [Side -> Chunk \cup {Null}]
<1>1. t.node[c] \in Fields \/ t.node[c] = NoNode
  BY DEF IsState
<1>2. t.node[c] \in Fields => t.node[c].size # 0 /\ t.node[c].child \in [Side -> Chunk \cup {Null}]
  BY WordFacts DEF Fields, Sizes
<1>3. NoNode.size = 0 /\ NoNode.parent = Null /\ NoNode.child \in [Side -> Chunk \cup {Null}]
  BY DEF NoNode
<1> QED
  BY <1>1, <1>2, <1>3

LEMMA TreeRing ==
    ASSUME NEW t, NEW q, NEW at, Good(t, q, at), NEW s \in Sizes
    PROVE  /\ \A c \in TreeOf(t) : t.node[c].size = s => Len(q[s]) # 0 /\ c = q[s][1]
           /\ Len(q[s]) # 0 => q[s][1] \in TreeOf(t) /\ t.node[q[s][1]].size = s
           /\ \A c \in Chunk : t.node[c].size = s => Len(q[s]) # 0
<1>1. Ringed(t.node, q) /\ Linked(t.node, q[s], s)
  BY DEF Good, Ringed
<1>2. Len(q[s]) \in Nat /\ \A i \in 1 .. Len(q[s]) : q[s][i] \in Chunk
  BY <1>1, RingFacts
<1>3. ASSUME NEW c \in Chunk, t.node[c].size = s
      PROVE  Len(q[s]) # 0 /\ (t.node[c].parent # Null => c = q[s][1])
  <2>1. s # 0
    BY WordFacts DEF Sizes
  <2>2. PICK i \in 1 .. Len(q[s]) : q[s][i] = c
    BY <1>1, <1>3, <2>1 DEF Ringed
  <2>3. t.node[c].parent = Null <=> i # 1
    BY <1>1, <2>2 DEF Linked
  <2> QED
    BY <1>2, <2>2, <2>3
<1>4. ASSUME Len(q[s]) # 0 PROVE q[s][1] \in TreeOf(t) /\ t.node[q[s][1]].size = s
  <2>1. 1 \in 1 .. Len(q[s])
    BY <1>2, <1>4
  <2> QED
    BY <1>1, <1>2, <2>1 DEF Linked, TreeOf
<1> QED
  BY <1>3, <1>4 DEF TreeOf

LEMMA SameTrie ==
    ASSUME NEW N, NEW nd, NEW tb, NEW at, Trie(N, nd, tb, at), NEW nd2,
           \A c \in N : nd2[c].size = nd[c].size /\ nd2[c].parent = nd[c].parent /\ nd2[c].child = nd[c].child
    PROVE  Trie(N, nd2, tb, at)
<1>1. Bounded(N, nd2, at)
  BY DEF Trie, Bounded
<1>2. RootsHold(N, nd2, tb, at)
  BY DEF Trie, RootsHold
<1>3. ParentsHold(N, nd2, tb, at)
  BY DEF Trie, ParentsHold, Placed
<1>4. ChildrenHold(N, nd2, at)
  BY DEF Trie, ChildrenHold
<1> QED
  BY <1>1, <1>2, <1>3, <1>4 DEF Trie

SetsFd(r, r2, x) ==
    /\ r2.size = r.size /\ r2.index = r.index /\ r2.parent = r.parent
    /\ r2.child = r.child /\ r2.bk = r.bk /\ r2.fd = x

SetsBk(r, r2, x) ==
    /\ r2.size = r.size /\ r2.index = r.index /\ r2.parent = r.parent
    /\ r2.child = r.child /\ r2.fd = r.fd /\ r2.bk = x

LEMMA SetField ==
    ASSUME NEW r \in Fields, NEW x
    PROVE  /\ SetsFd(r, [r EXCEPT !.fd = x], x)
           /\ x \in Chunk => [r EXCEPT !.fd = x] \in Fields
           /\ SetsBk(r, [r EXCEPT !.bk = x], x)
           /\ x \in Chunk => [r EXCEPT !.bk = x] \in Fields
BY DEF Fields, SetsFd, SetsBk

IsPut(m, m2, k, r) ==
    /\ m2 \in [Chunk -> Fields \cup {NoNode}]
    /\ m2[k] = r
    /\ \A c \in Chunk \ {k} : m2[c] = m[c]

LEMMA PutIs ==
    ASSUME NEW m \in [Chunk -> Fields \cup {NoNode}], NEW k \in Chunk, NEW r \in Fields
    PROVE  IsPut(m, [m EXCEPT ![k] = r], k, r)
BY DEF IsPut

(* What the fields of nodes become.                                        *)
LEMMA JoinIs ==
    ASSUME NEW t, IsState(t), NEW X \in Chunk, NEW T \in Chunk \ {X}, t.node[T] # NoNode,
           NEW n \in Fields, NEW F \in Chunk \ {X}, F = t.node[T].fd, t.node[F] # NoNode, NEW t2, t2 = Join(t, X, T, n)
    PROVE  /\ IsState(t2)
           /\ t2.treebin = t.treebin /\ t2.treemap = t.treemap
           /\ t2.node[X].size = n.size /\ t2.node[X].index = n.index
           /\ t2.node[X].parent = n.parent /\ t2.node[X].child = n.child
           /\ t2.node[X].fd = F /\ t2.node[X].bk = T
           /\ \A c \in Chunk \ {X} :
                 /\ t2.node[c].size = t.node[c].size /\ t2.node[c].index = t.node[c].index
                 /\ t2.node[c].parent = t.node[c].parent /\ t2.node[c].child = t.node[c].child
                 /\ t2.node[c].bk = IF c = F THEN X ELSE t.node[c].bk
                 /\ t2.node[c].fd = IF c = T THEN X ELSE t.node[c].fd
<1> DEFINE r1 == [t.node[T] EXCEPT !.fd = X]
           m1 == [t.node EXCEPT ![T] = r1]
           r2 == [m1[F] EXCEPT !.bk = X]
           m2 == [m1 EXCEPT ![F] = r2]
           r3 == [[n EXCEPT !.fd = F] EXCEPT !.bk = T]
           m3 == [m2 EXCEPT ![X] = r3]
<1>1. t.node \in [Chunk -> Fields \cup {NoNode}] /\ t.node[T] \in Fields /\ t.node[F] \in Fields
  BY DEF IsState
<1>2. t2 = [t EXCEPT !.node = m3]
  BY DEF Join
<1>3. SetsFd(t.node[T], r1, X)
  BY <1>1, SetField
<1>4. r1 \in Fields
  BY <1>1, SetField
<1> HIDE DEF r1
<1>5. IsPut(t.node, m1, T, r1)
  BY <1>1, <1>4, PutIs
<1> HIDE DEF m1
<1>6. m1[F] \in Fields /\ m1 \in [Chunk -> Fields \cup {NoNode}]
  BY <1>1, <1>4, <1>5 DEF IsPut
<1>7. SetsBk(m1[F], r2, X)
  BY <1>6, SetField
<1>8. r2 \in Fields
  BY <1>6, SetField
<1> HIDE DEF r2
<1>9. IsPut(m1, m2, F, r2)
  BY <1>6, <1>8, PutIs
<1> HIDE DEF m2
<1>10. PICK f \in Fields : SetsFd(n, f, F) /\ r3 = [f EXCEPT !.bk = T]
  <2> DEFINE f == [n EXCEPT !.fd = F]
  <2>1. SetsFd(n, f, F) /\ f \in Fields
    BY SetField
  <2>2. r3 = [f EXCEPT !.bk = T]
    OBVIOUS
  <2> HIDE DEF f, r3
  <2> QED
    BY <2>1, <2>2
<1>11. SetsBk(f, r3, T)
  <2> HIDE DEF r3
  <2> QED
    BY <1>10, SetField DEF SetsBk
<1>12. r3 \in Fields
  <2> HIDE DEF r3
  <2> QED
    BY <1>10, SetField
<1> HIDE DEF r3
<1>13. IsPut(m2, m3, X, r3)
  <2>1. m2 \in [Chunk -> Fields \cup {NoNode}]
    BY <1>9 DEF IsPut
  <2> QED
    BY <1>12, <2>1, PutIs
<1> HIDE DEF m3
<1>14. IsState(t2) /\ t2.treebin = t.treebin /\ t2.treemap = t.treemap /\ t2.node = m3
  BY <1>2, <1>13 DEF IsState, IsPut
<1>15. m3[X] = r3
  BY <1>13 DEF IsPut
<1>16. r3.size = n.size /\ r3.index = n.index /\ r3.parent = n.parent /\ r3.child = n.child
       /\ r3.fd = F /\ r3.bk = T
  BY <1>10, <1>11 DEF SetsFd, SetsBk
<1>17. ASSUME NEW c \in Chunk \ {X}
       PROVE  /\ m3[c].size = t.node[c].size /\ m3[c].index = t.node[c].index
              /\ m3[c].parent = t.node[c].parent /\ m3[c].child = t.node[c].child
              /\ m3[c].bk = IF c = F THEN X ELSE t.node[c].bk
              /\ m3[c].fd = IF c = T THEN X ELSE t.node[c].fd
  <2>1. m3[c] = m2[c]
    BY <1>13 DEF IsPut
  <2>2. /\ m1[c].size = t.node[c].size /\ m1[c].index = t.node[c].index
        /\ m1[c].parent = t.node[c].parent /\ m1[c].child = t.node[c].child
        /\ m1[c].bk = t.node[c].bk
        /\ m1[c].fd = IF c = T THEN X ELSE t.node[c].fd
    BY <1>3, <1>5 DEF IsPut, SetsFd
  <2>3. /\ m2[c].size = m1[c].size /\ m2[c].index = m1[c].index
        /\ m2[c].parent = m1[c].parent /\ m2[c].child = m1[c].child
        /\ m2[c].fd = m1[c].fd
        /\ m2[c].bk = IF c = F THEN X ELSE m1[c].bk
    BY <1>7, <1>9 DEF IsPut, SetsBk
  <2> QED
    BY <2>1, <2>2, <2>3
<1> QED
  BY <1>14, <1>15, <1>16, <1>17

PutLeaf(t, X, T, b, n) == [t EXCEPT !.node = [@ EXCEPT ![T].child[b] = X, ![X] = n]]

LEMMA PutLeafIs ==
    ASSUME NEW t, IsState(t), NEW X \in Chunk, NEW T \in Chunk \ {X}, t.node[T] # NoNode,
           NEW b \in Side, NEW n \in Fields, NEW t2, t2 = PutLeaf(t, X, T, b, n)
    PROVE  /\ IsState(t2)
           /\ t2.treebin = t.treebin /\ t2.treemap = t.treemap
           /\ t2.node[X] = n
           /\ \A c \in Chunk \ {X} :
                 /\ t2.node[c].size = t.node[c].size /\ t2.node[c].index = t.node[c].index
                 /\ t2.node[c].parent = t.node[c].parent
                 /\ t2.node[c].bk = t.node[c].bk /\ t2.node[c].fd = t.node[c].fd
                 /\ t2.node[c].child \in [Side -> Chunk \cup {Null}]
                 /\ \A e \in Side : t2.node[c].child[e] = IF c = T /\ e = b THEN X ELSE t.node[c].child[e]
<1>1. t.node \in [Chunk -> Fields \cup {NoNode}]
  BY DEF IsState
<1>2. PICK r \in Fields : r = t.node[T]
  BY <1>1
<1> DEFINE r2 == [r EXCEPT !.child[b] = X]
           m == [[t.node EXCEPT ![T] = r2] EXCEPT ![X] = n]
<1>3. t2 = [t EXCEPT !.node = m]
  BY <1>1, <1>2 DEF IsState, PutLeaf
<1>4. /\ r2 \in Fields /\ r2.size = r.size /\ r2.index = r.index /\ r2.parent = r.parent
      /\ r2.bk = r.bk /\ r2.fd = r.fd
      /\ r2.child \in [Side -> Chunk \cup {Null}]
      /\ \A e \in Side : r2.child[e] = IF e = b THEN X ELSE r.child[e]
  BY DEF Fields
<1> HIDE DEF r2
<1>5. /\ m \in [Chunk -> Fields \cup {NoNode}] /\ m[X] = n /\ m[T] = r2
      /\ \A c \in Chunk \ {X, T} : m[c] = t.node[c]
  BY <1>1, <1>4
<1> HIDE DEF m
<1>6. IsState(t2) /\ t2.treebin = t.treebin /\ t2.treemap = t.treemap /\ t2.node = m
  BY <1>3, <1>5 DEF IsState
<1>7. ASSUME NEW c \in Chunk \ {X}, c # T
      PROVE  t2.node[c] = t.node[c] /\ t.node[c].child \in [Side -> Chunk \cup {Null}]
  BY <1>5, <1>6, <1>7, NodeFacts
<1> QED
  BY <1>2, <1>4, <1>5, <1>6, <1>7

PutRoot(t, X, I, n) == [t EXCEPT !.treemap = @ \cup {I}, !.treebin[I] = X, !.node[X] = n]

LEMMA PutRootIs ==
    ASSUME NEW t, IsState(t), NEW X \in Chunk, NEW I \in Index, NEW n \in Fields, NEW t2,
           t2 = PutRoot(t, X, I, n)
    PROVE  /\ IsState(t2)
           /\ t2.treemap = t.treemap \cup {I} /\ t2.node[X] = n
           /\ \A i \in Index : t2.treebin[i] = IF i = I THEN X ELSE t.treebin[i]
           /\ \A c \in Chunk \ {X} : t2.node[c] = t.node[c]
BY DEF IsState, PutRoot

FreshNode(X, S, I)  == [NoNode EXCEPT !.size = S, !.index = I, !.fd = X, !.bk = X]
FreshAt(X, S, I, p) == [FreshNode(X, S, I) EXCEPT !.parent = p]

LEMMA Fresh ==
    ASSUME NEW X \in Chunk, NEW S \in Sizes, NEW I \in Index, NEW p \in Chunk \cup {Null, Root}
    PROVE  /\ LET n == FreshNode(X, S, I) IN
              /\ n \in Fields /\ n.size = S /\ n.index = I /\ n.parent = Null /\ n.fd = X /\ n.bk = X
              /\ \A b \in Side : n.child[b] = Null
           /\ LET n == FreshAt(X, S, I, p) IN
              /\ n \in Fields /\ n.size = S /\ n.index = I /\ n.parent = p /\ n.fd = X /\ n.bk = X
              /\ \A b \in Side : n.child[b] = Null
<1> DEFINE n == FreshNode(X, S, I)
<1>1. /\ n \in Fields /\ n.size = S /\ n.index = I /\ n.parent = Null /\ n.fd = X /\ n.bk = X
      /\ \A b \in Side : n.child[b] = Null
  BY DEF FreshNode, NoNode, Fields
<1> HIDE DEF n
<1>2. LET r == [n EXCEPT !.parent = p] IN
      /\ r \in Fields /\ r.size = S /\ r.index = I /\ r.parent = p /\ r.fd = X /\ r.bk = X
      /\ \A b \in Side : r.child[b] = Null
  BY <1>1 DEF Fields
<1> QED
  BY <1>1, <1>2 DEF n, FreshAt

-----------------------------------------------------------------------------
(* insert_large_chunk puts a chunk at the end of the ring of its size.     *)

LEMMA InsertRoot ==
    ASSUME NEW t, NEW q, NEW at, Good(t, q, at), NEW X \in Chunk, t.node[X].size = 0, NEW S \in Sizes,
           t.treebin[compute_tree_index(S)] = Null, NEW t2, t2 = insert_large_chunk(t, X, S)
    PROVE  \E at2 : Good(t2, Bins!With(q, X, S), at2)
<1> DEFINE I == compute_tree_index(S)
           N == TreeOf(t)
           at2 == [c \in Chunk |-> IF c = X THEN 0 ELSE at[c]]
<1>1. I \in Index /\ IsState(t) /\ Trie(N, t.node, t.treebin, at) /\ Bare(N, t.node) /\ Ringed(t.node, q)
      /\ I \notin t.treemap /\ t.treemap = {i \in Index : t.treebin[i] # Null}
      /\ S # 0
  BY IndexFacts, WordFacts DEF Good, Sizes
<1>2. X \notin N /\ N \subseteq Chunk
  BY <1>1, NodeFacts DEF TreeOf
<1>3. PICK n \in Fields : /\ n.size = S /\ n.index = I /\ n.parent = Root /\ n.fd = X /\ n.bk = X
                          /\ \A b \in Side : n.child[b] = Null
                          /\ t2 = PutRoot(t, X, I, n)
  <2>1. t2 = PutRoot(t, X, I, FreshAt(X, S, I, Root))
    BY <1>1 DEF insert_large_chunk, PutRoot, FreshAt, FreshNode
  <2>2. Root \in Chunk \cup {Null, Root}
    OBVIOUS
  <2> HIDE DEF I
  <2> QED
    BY <1>1, <2>1, <2>2, Fresh
<1> HIDE DEF I
<1>4. /\ IsState(t2)
      /\ t2.treemap = t.treemap \cup {I} /\ t2.node[X] = n
      /\ \A i \in Index : t2.treebin[i] = IF i = I THEN X ELSE t.treebin[i]
      /\ \A c \in Chunk \ {X} : t2.node[c] = t.node[c]
  BY <1>1, <1>3, PutRootIs
<1>5. TreeOf(t2) = N \cup {X}
  BY <1>3, <1>4, NotChunks DEF TreeOf
<1>6. Trie(N \cup {X}, t2.node, t2.treebin, at2)
  <2>1. \A c \in N : /\ t2.node[c].size = t.node[c].size /\ t2.node[c].parent = t.node[c].parent
                     /\ t2.node[c].child = t.node[c].child /\ at2[c] = at[c]
    BY <1>2, <1>4
  <2>2. at2[X] = 0
    OBVIOUS
  <2>3. /\ t2.node[X].size \in Sizes /\ t2.node[X].parent = Root /\ \A b \in Side : t2.node[X].child[b] = Null
        /\ t.treebin[compute_tree_index(t2.node[X].size)] = Null
        /\ \A i \in Index : t2.treebin[i] = IF i = compute_tree_index(t2.node[X].size) THEN X ELSE t.treebin[i]
    BY <1>3, <1>4 DEF I
  <2>4. Trie(N, t.node, t.treebin, at) /\ X \notin N
    BY <1>1, <1>2
  <2> HIDE DEF N, at2
  <2>5. AddsRoot(N, t.node, t.treebin, at, X, t2.node, t2.treebin, at2)
    BY <2>1, <2>2, <2>3 DEF AddsRoot
  <2> QED
    BY <2>4, <2>5, AddRoot
<1>7. Bare(N \cup {X}, t2.node)
  BY <1>1, <1>4 DEF Bare
<1>8. Len(q[S]) = 0
  <2> SUFFICES ASSUME Len(q[S]) # 0 PROVE FALSE
    OBVIOUS
  <2>1. q[S][1] \in N /\ t.node[q[S][1]].size = S
    BY TreeRing
  <2> HIDE DEF N
  <2> QED
    BY <1>1, <2>1, RootOf
<1>9. Ringed(t2.node, Bins!With(q, X, S))
  <2>1. t2.node[X].size = S /\ t2.node[X].bk = X /\ t2.node[X].fd = X /\ t2.node[X].parent # Null
    BY <1>3, <1>4, NotChunks
  <2> QED
    BY <1>1, <1>4, <1>8, <2>1, RingsWith
<1>10. t2.treemap = {i \in Index : t2.treebin[i] # Null}
  BY <1>1, <1>4, NotChunks
<1>11. \A c \in Chunk : t2.node[c].size # 0 => t2.node[c].index = compute_tree_index(t2.node[c].size)
  BY <1>3, <1>4 DEF Good, I
<1> HIDE DEF at2
<1> QED
  BY <1>4, <1>5, <1>6, <1>7, <1>9, <1>10, <1>11 DEF Good

LEMMA InsertBelow ==
    ASSUME NEW t, NEW q, NEW at, Good(t, q, at), NEW X \in Chunk, t.node[X].size = 0, NEW S \in Sizes,
           t.treebin[compute_tree_index(S)] # Null, NEW t2, t2 = insert_large_chunk(t, X, S)
    PROVE  \E at2 : Good(t2, Bins!With(q, X, S), at2)
<1> DEFINE I == compute_tree_index(S)
           N == TreeOf(t)
           P == SearchPath(t, S)
           k == Len(P)
           T == P[k]
           b == Bit(S, k - 1)
           fresh == FreshNode(X, S, I)
<1>1. I \in Index /\ IsState(t) /\ Trie(N, t.node, t.treebin, at) /\ Bare(N, t.node) /\ Ringed(t.node, q)
      /\ I \in t.treemap /\ t.treemap = {i \in Index : t.treebin[i] # Null}
      /\ S # 0
  BY IndexFacts, WordFacts DEF Good, Sizes
<1>2. X \notin N /\ N \subseteq Chunk
  BY <1>1, NodeFacts DEF TreeOf
<1>3. Searches(t, N, at, P, S)
  BY <1>1, SearchIs
<1>4. t2 = IF t.node[T].size = S THEN Join(t, X, T, fresh)
           ELSE PutLeaf(t, X, T, b, FreshAt(X, S, I, T))
  BY <1>1 DEF insert_large_chunk, SearchPath, Bit, Key, PutLeaf, FreshNode, FreshAt
<1> HIDE DEF P, I, N, b
<1>6. k \in Nat \ {0} /\ T \in N /\ at[T] = k - 1 /\ Agree(t.node[T].size, S, k - 1) /\ b \in Side /\ k - 1 \in Nat
  <2>1. k \in Nat \ {0} /\ k \in 1 .. k
    BY <1>3 DEF Searches
  <2>2. T \in N /\ at[T] = k - 1 /\ Agree(t.node[T].size, S, k - 1)
    BY <1>3, <2>1 DEF Searches
  <2> QED
    BY <2>1, <2>2, KeyFacts DEF b
<1>7. T \in Chunk \ {X} /\ t.node[T].size # 0 /\ t.node[T] # NoNode
  <2>1. t.node[T].size \in Sizes
    BY <1>1, <1>6, TrieFacts
  <2>2. t.node[T].size # 0
    BY <2>1, WordFacts DEF Sizes
  <2> QED
    BY <1>1, <1>2, <1>6, <2>2, NodeFacts
<1>8. CASE t.node[T].size = S
  <2> DEFINE F == t.node[T].fd
  <2>1. Len(q[S]) # 0 /\ T = q[S][1] /\ F = q[S][Len(q[S])] /\ F \in Chunk /\ t.node[F].size = S
    <3>1. Len(q[S]) # 0 /\ T = q[S][1]
      BY <1>6, <1>8, TreeRing DEF N
    <3>2. Len(q[S]) \in Nat /\ 1 \in 1 .. Len(q[S]) /\ Len(q[S]) \in 1 .. Len(q[S])
      BY <1>1, <3>1, RingFacts
    <3>3. Linked(t.node, q[S], S)
      BY <1>1 DEF Ringed
    <3>4. F = q[S][Len(q[S])]
      BY <3>1, <3>2, <3>3 DEF Linked, Before
    <3>5. q[S][Len(q[S])] \in Chunk /\ t.node[q[S][Len(q[S])]].size = S
      BY <1>1, <3>2, <3>3, RingFacts DEF Linked
    <3> QED
      BY <3>1, <3>4, <3>5
  <2>2. F \in Chunk \ {X} /\ t.node[F] # NoNode
    BY <1>1, <2>1, NodeFacts
  <2>3. /\ fresh \in Fields /\ fresh.size = S /\ fresh.index = I /\ fresh.parent = Null
        /\ \A e \in Side : fresh.child[e] = Null
    <3>1. Null \in Chunk \cup {Null, Root}
      OBVIOUS
    <3> QED
      BY <1>1, <3>1, Fresh
  <2>4. t2 = Join(t, X, T, fresh)
    BY <1>4, <1>8
  <2> HIDE DEF F, T, fresh
  <2>5. /\ IsState(t2)
        /\ t2.treebin = t.treebin /\ t2.treemap = t.treemap
        /\ t2.node[X].size = S /\ t2.node[X].index = I
        /\ t2.node[X].parent = Null /\ t2.node[X].child = fresh.child
        /\ t2.node[X].fd = F /\ t2.node[X].bk = T
        /\ \A c \in Chunk \ {X} :
              /\ t2.node[c].size = t.node[c].size /\ t2.node[c].index = t.node[c].index
              /\ t2.node[c].parent = t.node[c].parent /\ t2.node[c].child = t.node[c].child
              /\ t2.node[c].bk = IF c = F THEN X ELSE t.node[c].bk
              /\ t2.node[c].fd = IF c = T THEN X ELSE t.node[c].fd
    <3>1. F = t.node[T].fd
      BY DEF F
    <3> QED
      BY <1>1, <1>7, <2>2, <2>3, <2>4, <3>1, JoinIs
  <2>6. TreeOf(t2) = N
    BY <1>2, <2>5 DEF TreeOf, N
  <2>7. Trie(N, t2.node, t2.treebin, at)
    <3>1. \A c \in N : t2.node[c].size = t.node[c].size /\ t2.node[c].parent = t.node[c].parent
                       /\ t2.node[c].child = t.node[c].child
      BY <1>2, <2>5
    <3> QED
      BY <1>1, <2>5, <3>1, SameTrie
  <2>8. Bare(N, t2.node)
    BY <1>1, <2>3, <2>5 DEF Bare
  <2>9. Ringed(t2.node, Bins!With(q, X, S))
    <3>1. t2.node[X].bk = q[S][1] /\ t2.node[X].fd = q[S][Len(q[S])] /\ t2.node[X].parent = Null
      BY <2>1, <2>5
    <3>2. \A c \in Chunk \ {X} :
            /\ t2.node[c].size = t.node[c].size
            /\ t2.node[c].parent = Null <=> t.node[c].parent = Null
            /\ t2.node[c].bk = IF Len(q[S]) # 0 /\ c = q[S][Len(q[S])] THEN X ELSE t.node[c].bk
            /\ t2.node[c].fd = IF Len(q[S]) # 0 /\ c = q[S][1] THEN X ELSE t.node[c].fd
      BY <2>1, <2>5
    <3>3. t2.node[X].size = S
      BY <2>5
    <3> QED
      BY <1>1, <2>1, <3>1, <3>2, <3>3, RingsWith
  <2>10. \A c \in Chunk : t2.node[c].size # 0 => t2.node[c].index = compute_tree_index(t2.node[c].size)
    BY <2>5 DEF Good, I
  <2> QED
    BY <1>1, <2>5, <2>6, <2>7, <2>8, <2>9, <2>10 DEF Good
<1>9. CASE t.node[T].size # S
  <2> DEFINE at2 == [c \in Chunk |-> IF c = X THEN k ELSE at[c]]
  <2>1. PICK n \in Fields : /\ n.size = S /\ n.index = I /\ n.parent = T /\ n.fd = X /\ n.bk = X
                            /\ \A e \in Side : n.child[e] = Null
                            /\ t2 = PutLeaf(t, X, T, b, n)
    <3>1. t2 = PutLeaf(t, X, T, b, FreshAt(X, S, I, T))
      BY <1>4, <1>9
    <3>2. T \in Chunk \cup {Null, Root}
      BY <1>7
    <3> HIDE DEF T
    <3> QED
      BY <1>1, <3>1, <3>2, Fresh
  <2> HIDE DEF T
  <2>2. /\ IsState(t2)
        /\ t2.treebin = t.treebin /\ t2.treemap = t.treemap
        /\ t2.node[X] = n
        /\ \A c \in Chunk \ {X} :
              /\ t2.node[c].size = t.node[c].size /\ t2.node[c].index = t.node[c].index
              /\ t2.node[c].parent = t.node[c].parent
              /\ t2.node[c].bk = t.node[c].bk /\ t2.node[c].fd = t.node[c].fd
              /\ t2.node[c].child \in [Side -> Chunk \cup {Null}]
              /\ \A e \in Side : t2.node[c].child[e] = IF c = T /\ e = b THEN X ELSE t.node[c].child[e]
    BY <1>1, <1>6, <1>7, <2>1, PutLeafIs
  <2>3. TreeOf(t2) = N \cup {X}
    <3>1. T # Null
      BY <1>7, NotChunks
    <3> QED
      BY <1>2, <2>1, <2>2, <3>1 DEF TreeOf, N
  <2>4. t.node[T].child[b] = Null
    BY <1>3, <1>9 DEF Searches, b, T
  <2>5. Agree(S, t.node[T].size, at[T])
    BY <1>6, AgreeFacts
  <2>6. Trie(N \cup {X}, t2.node, t2.treebin, at2)
    <3>1. \A c \in N : c \in Chunk \ {X} /\ at2[c] = at[c]
      BY <1>2
    <3>2. at2[X] = at[T] + 1
      BY <1>6
    <3>3. b = Bit(S, at[T])
      BY <1>6 DEF b
    <3> HIDE DEF at2, k
    <3>4. /\ t2.node[X].size \in Sizes /\ t2.node[X].parent = T /\ \A e \in Side : t2.node[X].child[e] = Null
          /\ b = Bit(t2.node[X].size, at[T]) /\ Agree(t2.node[X].size, t.node[T].size, at[T])
      BY <2>1, <2>2, <2>5, <3>3
    <3>5. \A c \in N : t2.node[c].size = t.node[c].size /\ t2.node[c].parent = t.node[c].parent /\ at2[c] = at[c]
      BY <2>2, <3>1
    <3>6. \A c \in N, e \in Side : t2.node[c].child[e] = IF c = T /\ e = b THEN X ELSE t.node[c].child[e]
      BY <2>2, <3>1
    <3> QED
      <4>1. LeafAdded(N, X, T, b, t.node, at, t2.node, at2)
        BY <2>4, <3>2, <3>4, <3>5, <3>6 DEF LeafAdded
      <4>2. Trie(N, t.node, t.treebin, at)
        BY <1>1
      <4>3. Trie(N \cup {X}, t2.node, t.treebin, at2)
        BY ONLY <1>2, <1>6, <4>1, <4>2, X \in Chunk, AddLeaf
      <4> QED
        BY <2>2, <4>3
  <2>7. Bare(N \cup {X}, t2.node)
    BY <1>1, <1>6, <2>2 DEF Bare
  <2>8. Len(q[S]) = 0
    <3> SUFFICES ASSUME Len(q[S]) # 0 PROVE FALSE
      OBVIOUS
    <3>1. q[S][1] \in N /\ t.node[q[S][1]].size = S
      BY TreeRing DEF N
    <3>2. t.node[P[Len(P)]].size = S
      BY <1>1, <1>3, <3>1, SearchFinds
    <3> QED
      BY <1>9, <3>2 DEF T
  <2>9. Ringed(t2.node, Bins!With(q, X, S))
    <3>1. t2.node[X].size = S /\ t2.node[X].bk = X /\ t2.node[X].fd = X /\ t2.node[X].parent # Null
      BY <1>7, <2>1, <2>2, NotChunks
    <3> QED
      BY <1>1, <2>2, <2>8, <3>1, RingsWith
  <2>10. \A c \in Chunk : t2.node[c].size # 0 => t2.node[c].index = compute_tree_index(t2.node[c].size)
    BY <2>1, <2>2 DEF Good, I
  <2> HIDE DEF at2
  <2> QED
    BY <1>1, <2>2, <2>3, <2>6, <2>7, <2>9, <2>10 DEF Good
<1> QED
  BY <1>8, <1>9

LEMMA InsertGood ==
    ASSUME NEW t, NEW q, NEW at, Good(t, q, at), NEW X \in Chunk, t.node[X].size = 0, NEW S \in Sizes
    PROVE  \E at2 : Good(insert_large_chunk(t, X, S), Bins!With(q, X, S), at2)
BY InsertRoot, InsertBelow

-----------------------------------------------------------------------------
(* unlink_large_chunk takes a chunk out of the ring of its size.           *)

LeafOf(c, f, u) ==
    LET n == c.t.node[u] IN
    IF n.child[1] # Null THEN f[n.child[1]]
    ELSE IF n.child[0] # Null THEN f[n.child[0]]
    ELSE u

Leaves == INSTANCE StructureLemmas WITH
    Dom <- LAMBDA c : Chunk, Def <- LAMBDA c, f, u : LeafOf(c, f, u),
    Rank <- LAMBDA c, u : Left(c, u), ListHead <- Null

LEMMA LeafStep ==
    ASSUME NEW t, NEW N, NEW at, Trie(N, t.node, t.treebin, at), Bare(N, t.node), NEW u \in Chunk
    PROVE  RightmostLeaf(t, u) =
               IF t.node[u].child[1] # Null THEN RightmostLeaf(t, t.node[u].child[1])
               ELSE IF t.node[u].child[0] # Null THEN RightmostLeaf(t, t.node[u].child[0])
               ELSE u
<1>1. PICK D \in Nat : Walkable([t |-> t, N |-> N, at |-> at, D |-> D, s |-> 0])
  BY Walks
<1> DEFINE c == [t |-> t, N |-> N, at |-> at, D |-> D, s |-> 0]
           F == CHOOSE f : f = [v \in Chunk |-> LeafOf(c, f, v)]
<1>2. c.t = t
  OBVIOUS
<1> HIDE DEF c
<1>3. ASSUME NEW v \in Chunk, NEW b \in Side, c.t.node[v].child[b] # Null
      PROVE  c.t.node[v].child[b] \in Chunk /\ Left(c, c.t.node[v].child[b]) < Left(c, v)
  <2>1. v # Null
    BY NotChunks
  <2> QED
    BY <1>1, <1>3, <2>1, WalkFacts DEF c
<1>4. Leaves!Ranked(c)
  BY <1>1, WalkFacts DEF Leaves!Ranked, c
<1>5. Leaves!Local(c)
  <2>1. 0 \in Side /\ 1 \in Side
    BY DEF Side
  <2> QED
    BY <1>3, <2>1 DEF Leaves!Local, LeafOf
<1>6. F = [v \in Chunk |-> LeafOf(c, F, v)]
  BY <1>4, <1>5, Leaves!RecursiveFunction
<1>7. ASSUME NEW v PROVE RightmostLeaf(t, v) = F[v]
  BY <1>2 DEF RightmostLeaf, LeafOf
<1> HIDE DEF F
<1>8. F[u] = LeafOf(c, F, u)
  BY <1>6
<1> QED
  BY <1>2, <1>7, <1>8 DEF LeafOf

IsLeafOf(t, N, at, u, r) ==
    /\ r \in N /\ Under(t.node, at, r, u) /\ \A b \in Side : t.node[r].child[b] = Null
    /\ ~(\A b \in Side : t.node[u].child[b] = Null) => r # u

LEMMA LeafIs ==
    ASSUME NEW t, NEW N, NEW at, Trie(N, t.node, t.treebin, at), Bare(N, t.node), NEW u \in N
    PROVE  IsLeafOf(t, N, at, u, RightmostLeaf(t, u))
<1> DEFINE Ok(v) == LET r == RightmostLeaf(t, v) IN
                    r \in N /\ Under(t.node, at, r, v) /\ \A b \in Side : t.node[r].child[b] = Null
           B == {v \in N : ~Ok(v)}
<1>1. B = {}
  <2> SUFFICES ASSUME B # {} PROVE FALSE
    OBVIOUS
  <2>1. PICK y \in B : \A z \in B : at[z] <= at[y]
    <3>1. B \in SUBSET N
      OBVIOUS
    <3> HIDE DEF B
    <3> QED
      BY <3>1, Lowest
  <2>2. y \in N /\ y \in Chunk /\ at[y] \in Nat /\ ~Ok(y)
    BY TrieFacts
  <2>3. ASSUME NEW b \in Side, t.node[y].child[b] # Null, RightmostLeaf(t, y) = RightmostLeaf(t, t.node[y].child[b])
        PROVE  FALSE
    <3> HIDE DEF Ok, B
    <3>1. PICK x \in N : /\ x = t.node[y].child[b] /\ at[x] = at[y] + 1
                         /\ \A w \in N : Under(t.node, at, w, x) => Under(t.node, at, w, y)
      BY <2>2, <2>3, ChildFacts
    <3>2. x \notin B
      BY <2>1, <2>2, <3>1
    <3>3. Ok(x)
      BY <3>2 DEF B
    <3> QED
      BY <2>2, <2>3, <3>1, <3>3 DEF Ok
  <2>4. RightmostLeaf(t, y) = y /\ t.node[y].child[0] = Null /\ t.node[y].child[1] = Null
    <3>1. 0 \in Side /\ 1 \in Side
      BY DEF Side
    <3>2. t.node[y].child[1] = Null
      BY <2>2, <2>3, <3>1, LeafStep
    <3>3. t.node[y].child[0] = Null
      BY <2>2, <2>3, <3>1, <3>2, LeafStep
    <3> QED
      BY <2>2, <3>2, <3>3, LeafStep
  <2>5. Under(t.node, at, y, y)
    BY <2>2, AgreeFacts DEF Under
  <2> QED
    BY <2>2, <2>4, <2>5 DEF Side
<1>2. Ok(u)
  BY <1>1
<1> QED
  BY <1>2 DEF IsLeafOf

-----------------------------------------------------------------------------
(* The steps of unlink_large_chunk.                                        *)

Leafless(nd, c) == \A b \in Side : nd[c].child[b] = Null

LEMMA ReplacementIs ==
    ASSUME NEW t, NEW q, NEW at, Good(t, q, at), NEW X \in Chunk, t.node[X].size # 0
    PROVE  Replacement(t, X) =
               IF t.node[X].bk # X THEN t.node[X].bk
               ELSE IF Leafless(t.node, X) THEN Null ELSE RightmostLeaf(t, X)
<1>1. t.node[X].child \in [Side -> Chunk \cup {Null}]
  BY NodeFacts DEF Good
<1>2. t.node[X].child = [b \in Side |-> Null] <=> Leafless(t.node, X)
  BY <1>1 DEF Leafless
<1> QED
  BY <1>2 DEF Replacement

(* From the ring of X.                                                     *)
LEMMA DetachRing ==
    ASSUME NEW t, IsState(t), NEW X \in Chunk, NEW R \in Chunk, R = t.node[X].bk,
           NEW F \in Chunk, F = t.node[X].fd, t.node[F] # NoNode, t.node[R] # NoNode,
           NEW t1, t1 = Detached(t, X, R)
    PROVE  /\ IsState(t1) /\ t1.treebin = t.treebin /\ t1.treemap = t.treemap
           /\ \A c \in Chunk :
                 /\ t1.node[c].size = t.node[c].size /\ t1.node[c].index = t.node[c].index
                 /\ t1.node[c].parent = t.node[c].parent /\ t1.node[c].child = t.node[c].child
                 /\ t1.node[c].bk = IF c = F THEN R ELSE t.node[c].bk
                 /\ t1.node[c].fd = IF c = R THEN F ELSE t.node[c].fd
<1>1. t.node \in [Chunk -> Fields \cup {NoNode}] /\ R # Null
  BY NotChunks DEF IsState
<1>2. PICK f \in Fields : f = t.node[F]
  BY <1>1
<1> DEFINE f2 == [f EXCEPT !.bk = R]
           m == [t.node EXCEPT ![F] = f2]
<1>3. t1 = [t EXCEPT !.node = [m EXCEPT ![R].fd = F]]
  BY <1>1, <1>2 DEF Detached
<1>4. /\ f2 \in Fields /\ f2.size = f.size /\ f2.index = f.index /\ f2.parent = f.parent
      /\ f2.child = f.child /\ f2.fd = f.fd /\ f2.bk = R
  BY DEF Fields
<1> HIDE DEF f2
<1>5. m \in [Chunk -> Fields \cup {NoNode}] /\ m[F] = f2 /\ \A c \in Chunk \ {F} : m[c] = t.node[c]
  BY <1>1, <1>4
<1> HIDE DEF m
<1>6. PICK r \in Fields : r = m[R]
  BY <1>1, <1>4, <1>5
<1> DEFINE r2 == [r EXCEPT !.fd = F]
           m2 == [m EXCEPT ![R] = r2]
<1>7. t1 = [t EXCEPT !.node = m2]
  BY <1>3, <1>5, <1>6
<1>8. /\ r2 \in Fields /\ r2.size = r.size /\ r2.index = r.index /\ r2.parent = r.parent
      /\ r2.child = r.child /\ r2.fd = F /\ r2.bk = r.bk
  BY DEF Fields
<1> HIDE DEF r2
<1>9. m2 \in [Chunk -> Fields \cup {NoNode}] /\ m2[R] = r2 /\ \A c \in Chunk \ {R} : m2[c] = m[c]
  BY <1>5, <1>8
<1> HIDE DEF m2
<1>10. IsState(t1) /\ t1.treebin = t.treebin /\ t1.treemap = t.treemap /\ t1.node = m2
  BY <1>7, <1>9 DEF IsState
<1>11. ASSUME NEW c \in Chunk
       PROVE  /\ m[c].size = t.node[c].size /\ m[c].index = t.node[c].index
              /\ m[c].parent = t.node[c].parent /\ m[c].child = t.node[c].child
              /\ m[c].bk = (IF c = F THEN R ELSE t.node[c].bk) /\ m[c].fd = t.node[c].fd
  BY <1>2, <1>4, <1>5
<1>12. ASSUME NEW c \in Chunk
       PROVE  /\ m2[c].size = m[c].size /\ m2[c].index = m[c].index
              /\ m2[c].parent = m[c].parent /\ m2[c].child = m[c].child
              /\ m2[c].fd = (IF c = R THEN F ELSE m[c].fd) /\ m2[c].bk = m[c].bk
  BY <1>6, <1>8, <1>9
<1> QED
  BY <1>10, <1>11, <1>12

(* From its parent P.                                                      *)
LEMMA DetachLeaf ==
    ASSUME NEW t, IsState(t), NEW X \in Chunk, NEW R \in Chunk, R # t.node[X].bk,
           NEW P \in Chunk, P = t.node[R].parent, t.node[P] # NoNode,
           NEW t1, t1 = Detached(t, X, R)
    PROVE  /\ IsState(t1) /\ t1.treebin = t.treebin /\ t1.treemap = t.treemap
           /\ \A c \in Chunk :
                 /\ t1.node[c].size = t.node[c].size /\ t1.node[c].index = t.node[c].index
                 /\ t1.node[c].parent = t.node[c].parent
                 /\ t1.node[c].bk = t.node[c].bk /\ t1.node[c].fd = t.node[c].fd
                 /\ \A e \in Side : t1.node[c].child[e] =
                       IF c = P /\ t.node[c].child[e] = R THEN Null ELSE t.node[c].child[e]
<1>1. t.node \in [Chunk -> Fields \cup {NoNode}] /\ R # Null
  BY NotChunks DEF IsState
<1>2. PICK p \in Fields : p = t.node[P]
  BY <1>1
<1> DEFINE k == [b \in Side |-> IF p.child[b] = R THEN Null ELSE p.child[b]]
           p2 == [p EXCEPT !.child = k]
           m == [t.node EXCEPT ![P] = p2]
<1>3. t1 = [t EXCEPT !.node = m]
  BY <1>1, <1>2 DEF Detached
<1>4. k \in [Side -> Chunk \cup {Null}]
  BY DEF Fields
<1>5. /\ p2 \in Fields /\ p2.size = p.size /\ p2.index = p.index /\ p2.parent = p.parent
      /\ p2.fd = p.fd /\ p2.bk = p.bk /\ p2.child = k
  <2> HIDE DEF k
  <2> QED
    BY <1>4 DEF Fields
<1>6. \A e \in Side : k[e] = IF p.child[e] = R THEN Null ELSE p.child[e]
  OBVIOUS
<1> HIDE DEF k, p2
<1>7. m \in [Chunk -> Fields \cup {NoNode}] /\ m[P] = p2 /\ \A c \in Chunk \ {P} : m[c] = t.node[c]
  BY <1>1, <1>5
<1> HIDE DEF m
<1>8. IsState(t1) /\ t1.treebin = t.treebin /\ t1.treemap = t.treemap /\ t1.node = m
  BY <1>3, <1>7 DEF IsState
<1>9. ASSUME NEW c \in Chunk
      PROVE  /\ t1.node[c].size = t.node[c].size /\ t1.node[c].index = t.node[c].index
             /\ t1.node[c].parent = t.node[c].parent
             /\ t1.node[c].bk = t.node[c].bk /\ t1.node[c].fd = t.node[c].fd
             /\ \A e \in Side : t1.node[c].child[e] =
                   IF c = P /\ t.node[c].child[e] = R THEN Null ELSE t.node[c].child[e]
  <2>1. CASE c = P
    <3>1. t1.node[c] = p2 /\ t.node[c] = p
      BY ONLY <1>2, <1>7, <1>8, <2>1
    <3> QED
      BY ONLY <1>5, <1>6, <2>1, <3>1
  <2>2. CASE c # P
    <3>1. t1.node[c] = t.node[c]
      BY <1>7, <1>8, <2>2
    <3> QED
      BY ONLY <2>2, <3>1
  <2> QED
    BY ONLY <2>1, <2>2
<1> QED
  BY ONLY <1>8, <1>9

(* All fields but the links to parents and children.                       *)
SameData(t, t1) ==
    \A c \in Chunk : /\ t1.node[c].size = t.node[c].size /\ t1.node[c].index = t.node[c].index
                     /\ t1.node[c].bk = t.node[c].bk /\ t1.node[c].fd = t.node[c].fd

(* The root of the tree, or the link from the parent XP of X, becomes R.   *)
ParentLinked(t, t1, X, XP, R) ==
    /\ IsState(t1) /\ t1.treemap = {j \in Index : t1.treebin[j] # Null}
    /\ \A j \in Index : t1.treebin[j] = IF t.treebin[j] = X THEN R ELSE t.treebin[j]
    /\ SameData(t, t1)
    /\ \A c \in Chunk :
          /\ t1.node[c].parent = t.node[c].parent
          /\ \A e \in Side : t1.node[c].child[e] =
                IF c = XP /\ t.node[c].child[e] = X THEN R ELSE t.node[c].child[e]

LEMMA LinkParentIs ==
    ASSUME NEW t, IsState(t), NEW X \in Chunk, NEW R \in Chunk \cup {Null},
           NEW i \in Index, i = t.node[X].index, \A j \in Index : t.treebin[j] = X => j = i,
           NEW XP, t.treebin[i] = X => XP = Root,
           t.treebin[i] # X => /\ XP \in Chunk /\ t.node[XP] # NoNode
                               /\ \E e \in Side : t.node[XP].child[e] = X
                               /\ \A e, d \in Side : t.node[XP].child[e] = X /\ t.node[XP].child[d] = X => e = d,
           t.treemap = {j \in Index : t.treebin[j] # Null},
           NEW t1, t1 = LinkParent(t, X, XP, R)
    PROVE  ParentLinked(t, t1, X, XP, R)
<1>1. t.node \in [Chunk -> Fields \cup {NoNode}] /\ X # Null /\ Root \notin Chunk
      /\ t.treebin \in [Index -> Chunk \cup {Null}]
  BY NotChunks DEF IsState
<1>2. CASE t.treebin[i] = X
  <2> DEFINE tb == [t.treebin EXCEPT ![i] = R]
             tm == IF R = Null THEN t.treemap \ {i} ELSE t.treemap
  <2>1. t1 = [t EXCEPT !.treebin = tb, !.treemap = tm]
    BY <1>2 DEF LinkParent, IsState
  <2>2. tb \in [Index -> Chunk \cup {Null}] /\ tb[i] = R /\ \A j \in Index \ {i} : tb[j] = t.treebin[j]
    BY <1>1
  <2> HIDE DEF tb
  <2>3. tm = {j \in Index : tb[j] # Null}
    BY <1>1, <1>2, <2>2
  <2> HIDE DEF tm
  <2>4. t1.treebin = tb /\ t1.treemap = tm /\ t1.node = t.node /\ IsState(t1)
    <3>1. tm \in SUBSET Index
      BY <2>3
    <3> DEFINE u == [t EXCEPT !.treebin = tb]
    <3>2. t1 = [u EXCEPT !.treemap = tm]
      BY <2>1
    <3>3. u.treebin = tb /\ u.treemap = t.treemap /\ u.node = t.node /\ IsState(u)
      BY <2>2 DEF IsState
    <3> HIDE DEF u
    <3> QED
      BY <3>1, <3>2, <3>3 DEF IsState
  <2>5. SameData(t, t1)
    BY <2>4 DEF SameData
  <2>6. \A j \in Index : t1.treebin[j] = IF t.treebin[j] = X THEN R ELSE t.treebin[j]
    BY <1>2, <2>2, <2>4
  <2>7. \A c \in Chunk : c # XP
    BY <1>1, <1>2
  <2> QED
    BY <2>3, <2>4, <2>5, <2>6, <2>7 DEF ParentLinked
<1>3. CASE t.treebin[i] # X
  <2>1. PICK p \in Fields : p = t.node[XP]
    BY <1>1, <1>3
  <2> DEFINE b == IF p.child[0] = X THEN 0 ELSE 1
             k == [p.child EXCEPT ![b] = R]
             p2 == [p EXCEPT !.child = k]
             m == [t.node EXCEPT ![XP] = p2]
  <2>2. t1 = [t EXCEPT !.node = m]
    BY <1>1, <1>3, <2>1 DEF LinkParent
  <2>3. k \in [Side -> Chunk \cup {Null}] /\ \A e \in Side : k[e] = IF p.child[e] = X THEN R ELSE p.child[e]
    <3>1. b \in Side /\ p.child[b] = X /\ p.child \in [Side -> Chunk \cup {Null}]
      BY <1>3, <2>1 DEF Side, Fields
    <3>2. \A e \in Side : p.child[e] = X => e = b
      BY <1>3, <2>1, <3>1
    <3> HIDE DEF b
    <3> QED
      BY <3>1, <3>2
  <2> HIDE DEF k
  <2>4. /\ p2 \in Fields /\ p2.size = p.size /\ p2.index = p.index /\ p2.parent = p.parent
        /\ p2.fd = p.fd /\ p2.bk = p.bk /\ p2.child = k
    BY <2>3 DEF Fields
  <2> HIDE DEF p2
  <2>5. m \in [Chunk -> Fields \cup {NoNode}] /\ m[XP] = p2 /\ \A c \in Chunk \ {XP} : m[c] = t.node[c]
    BY <1>1, <1>3, <2>4
  <2> HIDE DEF m
  <2>6. IsState(t1) /\ t1.treebin = t.treebin /\ t1.treemap = t.treemap /\ t1.node = m
    BY <2>2, <2>5 DEF IsState
  <2>7. \A j \in Index : t1.treebin[j] = IF t.treebin[j] = X THEN R ELSE t.treebin[j]
    BY <1>3, <2>6
  <2>8. SameData(t, t1)
    BY <2>1, <2>4, <2>5, <2>6 DEF SameData
  <2>9. t1.treemap = {j \in Index : t1.treebin[j] # Null}
    BY <2>6
  <2>10. ASSUME NEW c \in Chunk
         PROVE  /\ t1.node[c].parent = t.node[c].parent
                /\ \A e \in Side : t1.node[c].child[e] =
                      IF c = XP /\ t.node[c].child[e] = X THEN R ELSE t.node[c].child[e]
    <3>1. CASE c = XP
      BY <2>1, <2>3, <2>4, <2>5, <2>6, <3>1
    <3>2. CASE c # XP
      BY <2>5, <2>6, <3>2
    <3> QED
      BY <3>1, <3>2
  <2> QED
    BY <2>6, <2>7, <2>8, <2>9, <2>10 DEF ParentLinked
<1> QED
  BY <1>2, <1>3

(* R takes over the children of X, and has the parent XP.                  *)
ChildrenLinked(t, t1, X, XP, R) ==
    /\ IsState(t1) /\ t1.treebin = t.treebin /\ t1.treemap = t.treemap
    /\ SameData(t, t1)
    /\ t1.node[R].parent = XP
    /\ \A e \in Side : t1.node[R].child[e] =
          IF t.node[X].child[e] # Null THEN t.node[X].child[e] ELSE t.node[R].child[e]
    /\ \A c \in Chunk \ {R} :
          /\ t1.node[c].child = t.node[c].child
          /\ t1.node[c].parent = IF \E b \in Side : t.node[X].child[b] = c THEN R ELSE t.node[c].parent

LEMMA LinkChildrenIs ==
    ASSUME NEW t, IsState(t), NEW X \in Chunk, NEW R \in Chunk, t.node[R] # NoNode,
           NEW XP \in Chunk \cup {Root},
           \A b \in Side : t.node[X].child[b] # Null => t.node[t.node[X].child[b]] # NoNode,
           NEW t1, t1 = LinkChildren(t, X, XP, R)
    PROVE  ChildrenLinked(t, t1, X, XP, R)
<1> DEFINE C == t.node[X].child
           K == [b \in Side |-> IF C[b] # Null THEN C[b] ELSE t.node[R].child[b]]
           g(c) == IF c = R
                   THEN [t.node[c] EXCEPT !.parent = XP,
                             !.child = [b \in Side |-> IF C[b] # Null THEN C[b] ELSE t.node[c].child[b]]]
                   ELSE IF \E b \in Side : C[b] = c THEN [t.node[c] EXCEPT !.parent = R]
                   ELSE t.node[c]
<1>1. t.node \in [Chunk -> Fields \cup {NoNode}] /\ R # Null
  BY NotChunks DEF IsState
<1>2. t1 = [t EXCEPT !.node = [c \in Chunk |-> g(c)]]
  BY Zenon DEF LinkChildren
<1>3. PICK r \in Fields : r = t.node[R]
  BY <1>1
<1>4. K \in [Side -> Chunk \cup {Null}] /\ \A e \in Side : K[e] = IF C[e] # Null THEN C[e] ELSE r.child[e]
  <2>1. C \in [Side -> Chunk \cup {Null}]
    BY NodeFacts
  <2> HIDE DEF C
  <2> QED
    BY <1>3, <2>1 DEF Fields
<1>5. g(R) = [r EXCEPT !.parent = XP, !.child = K]
  BY <1>3
<1> HIDE DEF K
<1>6. /\ g(R) \in Fields /\ g(R).size = r.size /\ g(R).index = r.index /\ g(R).parent = XP
      /\ g(R).fd = r.fd /\ g(R).bk = r.bk /\ g(R).child = K
  <2> HIDE DEF g
  <2> QED
    BY <1>4, <1>5 DEF Fields
<1>7. ASSUME NEW c \in Chunk \ {R}
      PROVE  /\ g(c) \in Fields \cup {NoNode} /\ g(c).size = t.node[c].size /\ g(c).index = t.node[c].index
             /\ g(c).fd = t.node[c].fd /\ g(c).bk = t.node[c].bk /\ g(c).child = t.node[c].child
             /\ g(c).parent = IF \E b \in Side : C[b] = c THEN R ELSE t.node[c].parent
  <2>1. CASE \E b \in Side : C[b] = c
    <3>1. t.node[c] # NoNode
      BY <2>1, NotChunks
    <3>2. PICK f \in Fields : f = t.node[c]
      BY <1>1, <3>1
    <3>3. g(c) = [f EXCEPT !.parent = R]
      BY <2>1, <3>2
    <3> HIDE DEF g, C
    <3>4. /\ g(c) \in Fields /\ g(c).size = f.size /\ g(c).index = f.index /\ g(c).parent = R
          /\ g(c).fd = f.fd /\ g(c).bk = f.bk /\ g(c).child = f.child
      BY <3>3 DEF Fields
    <3> QED
      BY <2>1, <3>2, <3>4
  <2>2. CASE ~\E b \in Side : C[b] = c
    <3>1. g(c) = t.node[c]
      BY <2>2
    <3> HIDE DEF g, C
    <3> QED
      BY <1>1, <2>2, <3>1
  <2> QED
    BY <2>1, <2>2
<1> HIDE DEF g
<1> DEFINE m == [c \in Chunk |-> g(c)]
<1>8. m \in [Chunk -> Fields \cup {NoNode}] /\ \A c \in Chunk : m[c] = g(c)
  BY <1>6, <1>7
<1>9. t1 = [t EXCEPT !.node = m]
  BY <1>2
<1> HIDE DEF m
<1>10. IsState(t1) /\ t1.treebin = t.treebin /\ t1.treemap = t.treemap /\ t1.node = m
  BY <1>8, <1>9 DEF IsState
<1>11. SameData(t, t1)
  <2> SUFFICES ASSUME NEW c \in Chunk
               PROVE  /\ t1.node[c].size = t.node[c].size /\ t1.node[c].index = t.node[c].index
                      /\ t1.node[c].bk = t.node[c].bk /\ t1.node[c].fd = t.node[c].fd
    BY DEF SameData
  <2>1. t1.node[c] = g(c)
    BY <1>8, <1>10
  <2>2. CASE c = R
    BY <1>3, <1>6, <2>1, <2>2
  <2>3. CASE c # R
    BY <1>7, <2>1, <2>3
  <2> QED
    BY <2>2, <2>3
<1>12. t1.node[R].parent = XP /\ \A e \in Side : t1.node[R].child[e] =
          IF C[e] # Null THEN C[e] ELSE t.node[R].child[e]
  BY <1>3, <1>4, <1>6, <1>8, <1>10
<1>13. \A c \in Chunk \ {R} :
          /\ t1.node[c].child = t.node[c].child
          /\ t1.node[c].parent = IF \E b \in Side : C[b] = c THEN R ELSE t.node[c].parent
  BY <1>7, <1>8, <1>10
<1> QED
  BY <1>10, <1>11, <1>12, <1>13 DEF ChildrenLinked

(* X is forgotten, and no more.                                            *)
Forgotten(t, X, t2) ==
    /\ IsState(t2) /\ t2.treebin = t.treebin /\ t2.treemap = t.treemap
    /\ t2.node[X] = NoNode /\ \A c \in Chunk \ {X} : t2.node[c] = t.node[c]

LEMMA EraseIs ==
    ASSUME NEW t, IsState(t), NEW X \in Chunk, NEW t2, t2 = [t EXCEPT !.node[X] = NoNode]
    PROVE  Forgotten(t, X, t2)
<1>1. /\ IsState(t2) /\ t2.treebin = t.treebin /\ t2.treemap = t.treemap
      /\ t2.node[X] = NoNode /\ \A c \in Chunk \ {X} : t2.node[c] = t.node[c]
  BY DEF IsState
<1> QED
  BY <1>1 DEF Forgotten

(* What a chunk X of the trees N is linked to.                             *)
IsLinked(t, N, X, XP, i) ==
    /\ i \in Index /\ \A j \in Index : t.treebin[j] = X => j = i
    /\ t.treebin[i] = X => XP = Root
    /\ t.treebin[i] # X => XP \in N
    /\ t.treebin[i] # X => \E e \in Side : t.node[XP].child[e] = X
    /\ t.treebin[i] # X => \A e, d \in Side : t.node[XP].child[e] = X /\ t.node[XP].child[d] = X => e = d
    /\ \A c \in N : \A e \in Side : t.node[c].child[e] = X => c = XP
    /\ XP \in N \cup {Root}

LEMMA ParentLink ==
    ASSUME NEW t, NEW N, NEW at, Trie(N, t.node, t.treebin, at), NEW X \in N,
           NEW XP, XP = t.node[X].parent, NEW i, i = compute_tree_index(t.node[X].size)
    PROVE  IsLinked(t, N, X, XP, i)
<1>1. X # Null /\ X \in Chunk /\ i \in Index /\ X # Root /\ XP \in N \cup {Root}
  BY TrieFacts
<1>2. \A j \in Index : t.treebin[j] = X => j = i /\ XP = Root
  BY <1>1 DEF Trie, RootsHold
<1>3. ASSUME t.treebin[i] # X
      PROVE  /\ XP \in N /\ (\E e \in Side : t.node[XP].child[e] = X)
             /\ \A e, d \in Side : t.node[XP].child[e] = X /\ t.node[XP].child[d] = X => e = d
  <2>1. XP \in N /\ Placed(t.node, at, X, XP)
    BY <1>3, TrieFacts
  <2>2. at[XP] \in Nat /\ t.node[X].size \in Sizes
    BY <2>1, TrieFacts
  <2>3. Bit(t.node[X].size, at[XP]) \in Side
    BY <2>2, KeyFacts
  <2>4. \A e \in Side : t.node[XP].child[e] = X => Bit(t.node[X].size, at[XP]) = e
    BY <1>1, <2>1 DEF Trie, ChildrenHold
  <2> QED
    BY <2>1, <2>3, <2>4 DEF Placed
<1>4. \A c \in N : \A e \in Side : t.node[c].child[e] = X => c = XP
  BY <1>1 DEF Trie, ChildrenHold
<1> QED
  BY <1>1, <1>2, <1>3, <1>4 DEF IsLinked

(* R, which is in no tree, takes the place of X.                           *)
Relinked(t, X, R) ==
    LET XP == t.node[X].parent
    IN  [LinkChildren(LinkParent(t, X, XP, R), X, XP, R) EXCEPT !.node[X] = NoNode]

Replaced(t, M, X, R, t2) ==
    /\ IsState(t2) /\ t2.treemap = {j \in Index : t2.treebin[j] # Null}
    /\ \E at2 : Trie((M \ {X}) \cup {R}, t2.node, t2.treebin, at2)
    /\ Bare((M \ {X}) \cup {R}, t2.node)
    /\ t2.node[X] = NoNode
    /\ \A c \in Chunk \ {X} :
          /\ t2.node[c].size = t.node[c].size /\ t2.node[c].index = t.node[c].index
          /\ t2.node[c].bk = t.node[c].bk /\ t2.node[c].fd = t.node[c].fd
          /\ t2.node[c].parent = Null <=> c # R /\ t.node[c].parent = Null

LEMMA ReplacesBy ==
    ASSUME NEW t, NEW M \in SUBSET Chunk, NEW at, Trie(M, t.node, t.treebin, at), Bare(M, t.node),
           NEW X \in M, NEW R \in Chunk \ M, t.node[R].size \in Sizes,
           Agree(t.node[R].size, t.node[X].size, at[X]),
           NEW i, IsLinked(t, M, X, t.node[X].parent, i),
           NEW ta, ParentLinked(t, ta, X, t.node[X].parent, R),
           NEW tb, ChildrenLinked(ta, tb, X, t.node[X].parent, R),
           NEW t2, Forgotten(tb, X, t2)
    PROVE  Replaced(t, M, X, R, t2)
<1> PICK XP : XP = t.node[X].parent
  OBVIOUS
<1>1. X \in Chunk /\ X # R /\ R # Null /\ R # Root /\ R # X /\ Null \notin M /\ Root # Null
  BY NotChunks
<1>2. /\ XP \in M \cup {Root}
      /\ \A c \in M : \A e \in Side : t.node[c].child[e] = X => c = XP
  BY DEF IsLinked
<1>3. \A j \in Index : ta.treebin[j] = IF t.treebin[j] = X THEN R ELSE t.treebin[j]
  BY DEF ParentLinked
<1>4. \A c \in Chunk :
         /\ ta.node[c].parent = t.node[c].parent
         /\ \A e \in Side : ta.node[c].child[e] =
               IF c = XP /\ t.node[c].child[e] = X THEN R ELSE t.node[c].child[e]
  BY DEF ParentLinked
<1>5. ASSUME NEW e \in Side
      PROVE  /\ t.node[R].child[e] = Null
             /\ ta.node[X].child[e] = t.node[X].child[e]
             /\ ta.node[R].child[e] = Null
             /\ t.node[X].child[e] # Null => t.node[X].child[e] \in M /\ t.node[t.node[X].child[e]].parent = X
             /\ t.node[X].child[e] # X
  <2>1. t.node[R].child[e] = Null
    BY DEF Bare
  <2>2. t.node[X].child[e] # Null => /\ t.node[X].child[e] \in M /\ t.node[t.node[X].child[e]].parent = X
                                     /\ at[t.node[X].child[e]] = at[X] + 1
    BY ChildFacts
  <2>3. t.node[X].child[e] # X
    <3>1. at[X] \in Nat
      BY TrieFacts
    <3> QED
      BY <1>1, <2>2, <3>1
  <2>4. ta.node[X].child[e] = t.node[X].child[e]
    BY <1>1, <1>4, <2>3
  <2>5. ta.node[R].child[e] = Null
    BY <1>1, <1>4, <2>1
  <2> QED
    BY <2>1, <2>2, <2>3, <2>4, <2>5
<1>6. tb.treebin = ta.treebin /\ tb.node[R].parent = XP
      /\ \A e \in Side : tb.node[R].child[e] =
            IF ta.node[X].child[e] # Null THEN ta.node[X].child[e] ELSE ta.node[R].child[e]
  BY DEF ChildrenLinked
<1>7. \A c \in Chunk \ {R} :
         /\ tb.node[c].child = ta.node[c].child
         /\ tb.node[c].parent = IF \E b \in Side : ta.node[X].child[b] = c THEN R ELSE ta.node[c].parent
  BY DEF ChildrenLinked
<1>8. t2.node[X] = NoNode /\ \A c \in Chunk \ {X} : t2.node[c] = tb.node[c]
  BY DEF Forgotten
<1>9. \A c \in Chunk \ {X} :
         /\ t2.node[c].size = t.node[c].size /\ t2.node[c].index = t.node[c].index
         /\ t2.node[c].bk = t.node[c].bk /\ t2.node[c].fd = t.node[c].fd
  <2>1. SameData(t, ta)
    BY DEF ParentLinked
  <2>2. SameData(ta, tb)
    BY DEF ChildrenLinked
  <2> QED
    BY <1>8, <2>1, <2>2 DEF SameData
<1>10. \A e \in Side : t2.node[R].child[e] = t.node[X].child[e]
  BY <1>1, <1>5, <1>6, <1>8
<1>11. t2.node[R].parent = XP
  BY <1>1, <1>6, <1>8
<1>12. ASSUME NEW c \in Chunk \ {X}, c # R
       PROVE  /\ t2.node[c].parent = IF \E b \in Side : t.node[X].child[b] = c THEN R ELSE t.node[c].parent
              /\ \A e \in Side : t2.node[c].child[e] =
                     IF c = XP /\ t.node[c].child[e] = X THEN R ELSE t.node[c].child[e]
  <2>1. t2.node[c] = tb.node[c]
    BY <1>8
  <2>2. tb.node[c].child = ta.node[c].child
        /\ tb.node[c].parent = IF \E b \in Side : ta.node[X].child[b] = c THEN R ELSE ta.node[c].parent
    BY <1>7, <1>12
  <2>3. (\E b \in Side : ta.node[X].child[b] = c) <=> (\E b \in Side : t.node[X].child[b] = c)
    BY <1>5
  <2>4. ta.node[c].parent = t.node[c].parent
        /\ \A e \in Side : ta.node[c].child[e] =
              IF c = XP /\ t.node[c].child[e] = X THEN R ELSE t.node[c].child[e]
    BY <1>4
  <2> QED
    BY <2>1, <2>2, <2>3, <2>4
<1>13. ASSUME NEW c \in M \ {X}
       PROVE  t2.node[c].parent = IF t.node[c].parent = X THEN R ELSE t.node[c].parent
  <2>1. (\E b \in Side : t.node[X].child[b] = c) => t.node[c].parent = X
    BY <1>1, <1>5
  <2>2. t.node[c].parent = X => \E b \in Side : t.node[X].child[b] = c
    <3> SUFFICES ASSUME t.node[c].parent = X PROVE \E b \in Side : t.node[X].child[b] = c
      OBVIOUS
    <3>1. X # Root
      BY TrieFacts
    <3>2. Placed(t.node, at, c, X)
      BY <3>1, TrieFacts
    <3>3. Bit(t.node[c].size, at[X]) \in Side
      BY TrieFacts, KeyFacts
    <3> QED
      BY <3>2, <3>3 DEF Placed
  <2> QED
    BY <1>1, <1>12, <2>1, <2>2
<1>14. \A c \in M \ {X}, e \in Side :
          t2.node[c].child[e] = IF t.node[c].child[e] = X THEN R ELSE t.node[c].child[e]
  BY <1>1, <1>2, <1>12
<1>15. \A j \in Index : t2.treebin[j] = IF t.treebin[j] = X THEN R ELSE t.treebin[j]
  BY <1>3, <1>6 DEF Forgotten
<1>16. IsState(t2) /\ t2.treemap = {j \in Index : t2.treebin[j] # Null}
  BY <1>6 DEF ParentLinked, ChildrenLinked, Forgotten
<1>17. \E at2 : Trie((M \ {X}) \cup {R}, t2.node, t2.treebin, at2)
  <2> DEFINE at2 == [c \in Chunk |-> IF c = R THEN at[X] ELSE at[c]]
  <2>1. at2[R] = at[X] /\ \A c \in M \ {X} : at2[c] = at[c]
    BY <1>1
  <2> HIDE DEF at2
  <2>2. t2.node[R].size = t.node[R].size
    BY <1>1, <1>9
  <2>3. \A c \in M \ {X} :
           /\ t2.node[c].size = t.node[c].size /\ at2[c] = at[c]
           /\ t2.node[c].parent = IF t.node[c].parent = X THEN R ELSE t.node[c].parent
    BY <1>9, <1>13, <2>1
  <2>4. t2.node[R].parent = t.node[X].parent
    BY <1>11
  <2>5. InPlace(M, X, R, t.node, t.treebin, at, t2.node, t2.treebin, at2)
    BY <1>10, <1>14, <1>15, <2>1, <2>2, <2>3, <2>4 DEF InPlace
  <2> QED
    BY <2>5, PutInPlace
<1>18. Bare((M \ {X}) \cup {R}, t2.node)
  <2> SUFFICES ASSUME NEW c \in Chunk \ ((M \ {X}) \cup {R}), NEW b \in Side PROVE t2.node[c].child[b] = Null
    BY DEF Bare
  <2>1. CASE c = X
    BY <1>8, <2>1 DEF NoNode
  <2>2. CASE c # X
    <3>1. c \in Chunk \ M /\ c # R
      BY <2>2
    <3>2. t.node[c].child[b] = Null
      BY <3>1 DEF Bare
    <3> QED
      BY <1>1, <1>12, <2>2, <3>1, <3>2
  <2> QED
    BY <2>1, <2>2
<1>19. ASSUME NEW c \in Chunk \ {X} PROVE t2.node[c].parent = Null <=> c # R /\ t.node[c].parent = Null
  <2>1. CASE c = R
    BY <1>1, <1>2, <1>11, <2>1
  <2>2. CASE c # R
    <3>1. (\E b \in Side : t.node[X].child[b] = c) => c \in M /\ t.node[c].parent = X
      <4>1. c # Null
        BY NotChunks
      <4> QED
        BY <1>5, <4>1
    <3>2. X # Null
      BY <1>1
    <3> QED
      BY <1>1, <1>12, <2>2, <3>1, <3>2
  <2> QED
    BY <2>1, <2>2
<1> QED
  BY <1>8, <1>9, <1>16, <1>17, <1>18, <1>19 DEF Replaced

LEMMA Replaces ==
    ASSUME NEW t, IsState(t), NEW M \in SUBSET Chunk, NEW at, Trie(M, t.node, t.treebin, at), Bare(M, t.node),
           t.treemap = {j \in Index : t.treebin[j] # Null},
           NEW X \in M, NEW R \in Chunk \ M, t.node[R] # NoNode,
           Agree(t.node[R].size, t.node[X].size, at[X]),
           t.node[X].index = compute_tree_index(t.node[X].size)
    PROVE  Replaced(t, M, X, R, Relinked(t, X, R))
<1> DEFINE XP == t.node[X].parent
           ta == LinkParent(t, X, XP, R)
           tb == LinkChildren(ta, X, XP, R)
           t2 == Relinked(t, X, R)
           i == t.node[X].index
<1>1. X \in Chunk /\ R \in Chunk
  OBVIOUS
<1>2. IsLinked(t, M, X, XP, i)
  <2> HIDE DEF XP, i
  <2>1. XP = t.node[X].parent /\ i = compute_tree_index(t.node[X].size)
    BY DEF XP, i
  <2> QED
    BY <2>1, ParentLink
<1>3. \A c \in M : t.node[c] # NoNode
  <2> TAKE c \in M
  <2>1. t.node[c].size \in Sizes /\ c \in Chunk
    BY TrieFacts
  <2>2. t.node[c].size # 0
    BY <2>1, WordFacts DEF Sizes
  <2> QED
    BY <2>1, <2>2, NodeFacts
<1>4. ParentLinked(t, ta, X, XP, R)
  <2> HIDE DEF XP, i, ta
  <2>1. ta = LinkParent(t, X, XP, R) /\ i = t.node[X].index /\ R \in Chunk \cup {Null}
    BY DEF ta, i
  <2>2. i \in Index /\ \A j \in Index : t.treebin[j] = X => j = i
    BY <1>2 DEF IsLinked
  <2>3. t.treebin[i] = X => XP = Root
    BY <1>2 DEF IsLinked
  <2>4. t.treebin[i] # X => /\ XP \in Chunk /\ t.node[XP] # NoNode
                            /\ \E e \in Side : t.node[XP].child[e] = X
                            /\ \A e, d \in Side : t.node[XP].child[e] = X /\ t.node[XP].child[d] = X => e = d
    BY <1>2, <1>3 DEF IsLinked
  <2> QED
    BY <1>1, <2>1, <2>2, <2>3, <2>4, LinkParentIs
<1>5. ChildrenLinked(ta, tb, X, XP, R)
  <2> HIDE DEF ta, tb, XP
  <2>1. ASSUME NEW c \in Chunk, t.node[c] # NoNode PROVE ta.node[c] # NoNode
    <3>1. ta.node[c].size = t.node[c].size /\ IsState(ta)
      BY <1>4 DEF ParentLinked, SameData
    <3> QED
      BY <2>1, <3>1, NodeFacts
  <2>2. ASSUME NEW b \in Side, ta.node[X].child[b] # Null PROVE ta.node[ta.node[X].child[b]] # NoNode
    <3>1. CASE ta.node[X].child[b] = R
      BY <2>1, <3>1
    <3>2. CASE ta.node[X].child[b] # R
      <4>1. ta.node[X].child[b] = t.node[X].child[b]
        BY <1>1, <1>4, <3>2 DEF ParentLinked
      <4>2. t.node[X].child[b] \in M
        BY <2>2, <4>1, ChildFacts
      <4> QED
        BY <1>3, <2>1, <4>1, <4>2
    <3> QED
      BY <3>1, <3>2
  <2>3. ta.node[R] # NoNode /\ IsState(ta)
    BY <1>4, <2>1 DEF ParentLinked
  <2>4. XP \in Chunk \cup {Root}
    BY <1>2 DEF IsLinked
  <2>5. tb = LinkChildren(ta, X, XP, R)
    BY DEF tb
  <2> QED
    BY <1>1, <2>2, <2>3, <2>4, <2>5, LinkChildrenIs
<1>6. Forgotten(tb, X, t2)
  <2>1. t2 = [tb EXCEPT !.node[X] = NoNode]
    BY DEF Relinked
  <2> HIDE DEF ta, tb, XP, t2
  <2>2. IsState(tb)
    BY <1>5 DEF ChildrenLinked
  <2> QED
    BY <1>1, <2>1, <2>2, EraseIs
<1>7. t.node[R].size \in Sizes
  BY NodeFacts DEF Fields
<1> HIDE DEF ta, tb, t2, i
<1>8. Replaced(t, M, X, R, t2)
  BY <1>2, <1>4, <1>5, <1>6, <1>7, ReplacesBy
<1> QED
  BY <1>8 DEF t2

(* Where a chunk is in the ring of its size.                               *)
InRing(t, q, X, s, i) ==
    /\ s \in Sizes /\ i \in 1 .. Len(q[s]) /\ X = q[s][i] /\ t.node[X].size = s /\ Len(q[s]) \in Nat
    /\ t.node[X].parent = Null <=> i # 1
    /\ t.node[X].bk = q[s][After(Len(q[s]), i)] /\ t.node[X].fd = q[s][Before(Len(q[s]), i)]
    /\ t.node[X].bk \in Chunk /\ t.node[t.node[X].bk].size = s
    /\ t.node[X].fd \in Chunk /\ t.node[t.node[X].fd].size = s
    /\ t.node[X].bk = X <=> Len(q[s]) = 1
    /\ t.node[X].fd = X <=> Len(q[s]) = 1
    /\ i = 1 /\ Len(q[s]) # 1 => t.node[t.node[X].bk].parent = Null

LEMMA RingPlace ==
    ASSUME NEW t, NEW q, NEW at, Good(t, q, at), NEW X \in Chunk, t.node[X].size # 0
    PROVE  \E s \in Sizes : \E i \in 1 .. Len(q[s]) : InRing(t, q, X, s, i)
<1> DEFINE s == t.node[X].size
           r == q[s]
           n == Len(r)
<1>1. Ringed(t.node, q)
  BY DEF Good
<1>2. s \in Sizes
  BY <1>1 DEF Ringed
<1>3. PICK i \in 1 .. n : r[i] = X
  BY <1>1 DEF Ringed
<1>4. n \in Nat /\ \A j \in 1 .. n : r[j] \in Chunk
  BY <1>1, <1>2, RingFacts
<1>5. Linked(t.node, r, s)
  BY <1>1, <1>2 DEF Ringed
<1> HIDE DEF n, r, s
<1>6. After(n, i) \in 1 .. n /\ Before(n, i) \in 1 .. n /\ (After(n, i) = i <=> n = 1) /\ (Before(n, i) = i <=> n = 1)
      /\ (i = 1 /\ n # 1 => After(n, i) # 1)
  BY <1>4 DEF After, Before
<1>7. \A j \in 1 .. n : /\ t.node[r[j]].size = s /\ (t.node[r[j]].parent = Null <=> j # 1)
                        /\ t.node[r[j]].bk = r[After(n, j)] /\ t.node[r[j]].fd = r[Before(n, j)]
                        /\ \A k \in 1 .. n : r[k] = r[j] => k = j
  BY <1>5 DEF Linked, n
<1>8. /\ t.node[X].size = s /\ (t.node[X].parent = Null <=> i # 1)
      /\ t.node[X].bk = r[After(n, i)] /\ t.node[X].fd = r[Before(n, i)]
  BY <1>3, <1>7
<1>9. /\ r[After(n, i)] \in Chunk /\ t.node[r[After(n, i)]].size = s
      /\ r[Before(n, i)] \in Chunk /\ t.node[r[Before(n, i)]].size = s
      /\ i = 1 /\ n # 1 => t.node[r[After(n, i)]].parent = Null
  BY <1>4, <1>6, <1>7
<1>10. (r[After(n, i)] = X <=> n = 1) /\ (r[Before(n, i)] = X <=> n = 1)
  BY <1>3, <1>6, <1>7
<1>11. InRing(t, q, X, s, i)
  BY <1>2, <1>3, <1>4, <1>8, <1>9, <1>10 DEF InRing, n, r
<1> QED
  BY <1>2, <1>3, <1>11 DEF n, r

(* All that X had is gone.                                                 *)
Erased(t, X, t2) ==
    t2.node[X].size = 0 /\ \A c \in Chunk \ {X} : t2.node[c].size = t.node[c].size

(* A chunk that is not in a tree.                                          *)
LEMMA UnlinkChained ==
    ASSUME NEW t, NEW q, NEW at, Good(t, q, at), NEW X \in Chunk, t.node[X].size # 0,
           t.node[X].parent = Null, NEW t2, t2 = unlink_large_chunk(t, X)
    PROVE  Erased(t, X, t2) /\ \E at2 : Good(t2, Bins!Less(q, X), at2)
<1> DEFINE N == TreeOf(t)
           t1 == Detached(t, X, t.node[X].bk)
<1>1. IsState(t) /\ Trie(N, t.node, t.treebin, at) /\ Bare(N, t.node) /\ Ringed(t.node, q)
      /\ t.treemap = {i \in Index : t.treebin[i] # Null}
      /\ \A c \in Chunk : t.node[c].size # 0 => t.node[c].index = compute_tree_index(t.node[c].size)
  BY DEF Good
<1>2. PICK s \in Sizes : \E i \in 1 .. Len(q[s]) : InRing(t, q, X, s, i)
  BY RingPlace
<1>3. PICK i \in 1 .. Len(q[s]) : InRing(t, q, X, s, i)
  BY <1>2
<1> DEFINE R == t.node[X].bk
           F == t.node[X].fd
<1>4. /\ i # 1 /\ R # X /\ R \in Chunk /\ F \in Chunk /\ t.node[R].size # 0 /\ t.node[F].size # 0
      /\ t.node[R] # NoNode /\ t.node[F] # NoNode
  <2>1. i # 1 /\ Len(q[s]) # 1 /\ s # 0
    BY <1>3, WordFacts DEF InRing, Sizes
  <2>2. /\ R # X /\ R \in Chunk /\ F \in Chunk /\ t.node[R].size # 0 /\ t.node[F].size # 0
    BY <1>3, <2>1 DEF InRing
  <2> QED
    BY <1>1, <2>1, <2>2, NodeFacts
<1>5. t2 = [t1 EXCEPT !.node[X] = NoNode]
  <2>1. Replacement(t, X) = R
    BY <1>4 DEF Replacement
  <2> QED
    BY <2>1 DEF unlink_large_chunk
<1>6. /\ IsState(t1) /\ t1.treebin = t.treebin /\ t1.treemap = t.treemap
      /\ \A c \in Chunk :
            /\ t1.node[c].size = t.node[c].size /\ t1.node[c].index = t.node[c].index
            /\ t1.node[c].parent = t.node[c].parent /\ t1.node[c].child = t.node[c].child
            /\ t1.node[c].bk = IF c = F THEN R ELSE t.node[c].bk
            /\ t1.node[c].fd = IF c = R THEN F ELSE t.node[c].fd
  BY <1>1, <1>4, DetachRing
<1> HIDE DEF t1
<1>7. /\ IsState(t2) /\ t2.treebin = t1.treebin /\ t2.treemap = t1.treemap
      /\ t2.node[X] = NoNode /\ \A c \in Chunk \ {X} : t2.node[c] = t1.node[c]
  <2>1. Forgotten(t1, X, t2)
    BY <1>5, <1>6, EraseIs
  <2> QED
    BY <2>1 DEF Forgotten
<1>8. t2.node[X].size = 0 /\ t2.node[X].parent = Null /\ \A b \in Side : t2.node[X].child[b] = Null
  BY <1>7 DEF NoNode
<1>9. TreeOf(t2) = N
  BY <1>6, <1>7, <1>8 DEF TreeOf
<1>10. X \notin N /\ N \subseteq Chunk
  BY DEF TreeOf
<1> HIDE DEF N, R, F
<1>11. Trie(N, t2.node, t2.treebin, at)
  <2>1. \A c \in N : t2.node[c].size = t.node[c].size /\ t2.node[c].parent = t.node[c].parent
                     /\ t2.node[c].child = t.node[c].child
    BY <1>6, <1>7, <1>10
  <2>2. Trie(N, t2.node, t.treebin, at)
    BY <1>1, <2>1, SameTrie
  <2> QED
    BY <1>6, <1>7, <2>2
<1>12. Bare(N, t2.node)
  BY <1>1, <1>6, <1>7, <1>8 DEF Bare
<1>13. Ringed(t2.node, Bins!Less(q, X))
  <2>1. X = q[s][i]
    BY <1>3 DEF InRing
  <2>2. \A c \in Chunk \ {X} :
          /\ t2.node[c].size = t.node[c].size
          /\ t2.node[c].bk = IF c = t.node[X].fd THEN t.node[X].bk ELSE t.node[c].bk
          /\ t2.node[c].fd = IF c = t.node[X].bk THEN t.node[X].fd ELSE t.node[c].fd
          /\ t2.node[c].parent = Null <=> t.node[c].parent = Null /\ ~(i = 1 /\ c = t.node[X].bk)
    BY <1>4, <1>6, <1>7 DEF R, F
  <2>3. LeavesRing(t.node, t2.node, X, i)
    BY <1>8, <2>2 DEF LeavesRing
  <2> QED
    BY <1>1, <2>1, <2>3, RingsLess
<1>14. \A c \in Chunk : t2.node[c].size # 0 => t2.node[c].index = compute_tree_index(t2.node[c].size)
  BY <1>1, <1>6, <1>7, <1>8
<1>15. t2.treemap = {j \in Index : t2.treebin[j] # Null}
  BY <1>1, <1>6, <1>7
<1>16. Erased(t, X, t2)
  BY <1>6, <1>7, <1>8 DEF Erased
<1> QED
  BY <1>7, <1>9, <1>11, <1>12, <1>13, <1>14, <1>15, <1>16 DEF Good

(* A chunk in a tree, of whose size there is another.                      *)
LEMMA UnlinkRelinked ==
    ASSUME NEW t, NEW q, NEW at, Good(t, q, at), NEW X \in Chunk, t.node[X].size # 0,
           t.node[X].parent # Null, t.node[X].bk # X, NEW t2, t2 = unlink_large_chunk(t, X)
    PROVE  Erased(t, X, t2) /\ \E at2 : Good(t2, Bins!Less(q, X), at2)
<1> DEFINE N == TreeOf(t)
           R == t.node[X].bk
           F == t.node[X].fd
           t1 == Detached(t, X, R)
<1>1. IsState(t) /\ Trie(N, t.node, t.treebin, at) /\ Bare(N, t.node) /\ Ringed(t.node, q)
      /\ t.treemap = {i \in Index : t.treebin[i] # Null}
      /\ \A c \in Chunk : t.node[c].size # 0 => t.node[c].index = compute_tree_index(t.node[c].size)
  BY DEF Good
<1>2. PICK s \in Sizes : \E i \in 1 .. Len(q[s]) : InRing(t, q, X, s, i)
  BY RingPlace
<1>3. PICK i \in 1 .. Len(q[s]) : InRing(t, q, X, s, i)
  BY <1>2
<1>4. /\ i = 1 /\ R \in Chunk /\ F \in Chunk /\ t.node[R].size = t.node[X].size /\ t.node[R].parent = Null
      /\ t.node[R] # NoNode /\ t.node[F] # NoNode
  <2>1. i = 1 /\ Len(q[s]) # 1 /\ s # 0
    BY <1>3, WordFacts DEF InRing, Sizes
  <2>2. /\ R \in Chunk /\ F \in Chunk /\ t.node[R].size # 0 /\ t.node[F].size # 0
        /\ t.node[R].size = t.node[X].size /\ t.node[R].parent = Null
    BY <1>3, <2>1 DEF InRing
  <2> QED
    BY <1>1, <2>1, <2>2, NodeFacts
<1>5. /\ IsState(t1) /\ t1.treebin = t.treebin /\ t1.treemap = t.treemap
      /\ \A c \in Chunk :
            /\ t1.node[c].size = t.node[c].size /\ t1.node[c].index = t.node[c].index
            /\ t1.node[c].parent = t.node[c].parent /\ t1.node[c].child = t.node[c].child
            /\ t1.node[c].bk = IF c = F THEN R ELSE t.node[c].bk
            /\ t1.node[c].fd = IF c = R THEN F ELSE t.node[c].fd
  BY <1>1, <1>4, DetachRing
<1>6. t2 = Relinked(t1, X, R)
  <2>1. Replacement(t, X) = R
    BY DEF Replacement
  <2>2. R # Null /\ t1.node[X].parent = t.node[X].parent
    BY <1>4, <1>5, NotChunks
  <2> QED
    BY <2>1, <2>2 DEF unlink_large_chunk, Relinked
<1> HIDE DEF t1
<1>7. X \in N /\ R \in Chunk \ N /\ N \in SUBSET Chunk /\ \A c \in Chunk : c \in N <=> t.node[c].parent # Null
  BY <1>4 DEF TreeOf
<1> HIDE DEF N, R, F
<1>8. /\ IsState(t2) /\ t2.treemap = {j \in Index : t2.treebin[j] # Null}
      /\ \E at2 : Trie((N \ {X}) \cup {R}, t2.node, t2.treebin, at2)
      /\ Bare((N \ {X}) \cup {R}, t2.node)
      /\ t2.node[X] = NoNode
      /\ \A c \in Chunk \ {X} :
            /\ t2.node[c].size = t1.node[c].size /\ t2.node[c].index = t1.node[c].index
            /\ t2.node[c].bk = t1.node[c].bk /\ t2.node[c].fd = t1.node[c].fd
            /\ t2.node[c].parent = Null <=> c # R /\ t1.node[c].parent = Null
  <2>1. Trie(N, t1.node, t1.treebin, at)
    <3>1. Trie(N, t1.node, t.treebin, at)
      <4>1. \A c \in N : t1.node[c].size = t.node[c].size /\ t1.node[c].parent = t.node[c].parent
                         /\ t1.node[c].child = t.node[c].child
        BY <1>5, <1>7
      <4> QED
        BY <1>1, <4>1, SameTrie
    <3> QED
      BY <1>5, <3>1
  <2>2. Bare(N, t1.node)
    BY <1>1, <1>5 DEF Bare
  <2>3. t1.treemap = {j \in Index : t1.treebin[j] # Null}
    BY <1>1, <1>5
  <2>4. Agree(t1.node[R].size, t1.node[X].size, at[X])
    BY <1>4, <1>5, <1>7, AgreeFacts
  <2>5. t1.node[R] # NoNode
    BY <1>1, <1>4, <1>5, <1>7, NodeFacts
  <2>6. t1.node[X].index = compute_tree_index(t1.node[X].size)
    BY <1>1, <1>5
  <2>7. IsState(t1)
    BY <1>5
  <2>8. Replaced(t1, N, X, R, Relinked(t1, X, R))
    BY <1>7, <2>1, <2>2, <2>3, <2>4, <2>5, <2>6, <2>7, Replaces
  <2>9. Replaced(t1, N, X, R, t2)
    BY <1>6, <2>8
  <2> QED
    BY <2>9 DEF Replaced
<1>9. t2.node[X].size = 0 /\ t2.node[X].parent = Null
  BY <1>8 DEF NoNode
<1>10. TreeOf(t2) = (N \ {X}) \cup {R}
  <2>1. \A c \in Chunk : t2.node[c].parent # Null <=> c \in (N \ {X}) \cup {R}
    BY <1>5, <1>7, <1>8, <1>9
  <2> QED
    BY <1>7, <2>1 DEF TreeOf
<1>11. Ringed(t2.node, Bins!Less(q, X))
  <2>1. X = q[s][i]
    BY <1>3 DEF InRing
  <2>2. \A c \in Chunk \ {X} :
          /\ t2.node[c].size = t.node[c].size
          /\ t2.node[c].bk = IF c = t.node[X].fd THEN t.node[X].bk ELSE t.node[c].bk
          /\ t2.node[c].fd = IF c = t.node[X].bk THEN t.node[X].fd ELSE t.node[c].fd
          /\ t2.node[c].parent = Null <=> t.node[c].parent = Null /\ ~(i = 1 /\ c = t.node[X].bk)
    BY <1>4, <1>5, <1>8 DEF R, F
  <2>3. LeavesRing(t.node, t2.node, X, i)
    BY <1>9, <2>2 DEF LeavesRing
  <2> QED
    BY <1>1, <2>1, <2>3, RingsLess
<1>12. \A c \in Chunk : t2.node[c].size # 0 => t2.node[c].index = compute_tree_index(t2.node[c].size)
  BY <1>1, <1>5, <1>8, <1>9
<1>13. Erased(t, X, t2)
  BY <1>5, <1>8, <1>9 DEF Erased
<1> QED
  BY <1>8, <1>10, <1>11, <1>12, <1>13 DEF Good

(* The only chunk of its size, with chunks below it.                       *)
LEMMA UnlinkAbove ==
    ASSUME NEW t, NEW q, NEW at, Good(t, q, at), NEW X \in Chunk, t.node[X].size # 0,
           t.node[X].parent # Null, t.node[X].bk = X, ~Leafless(t.node, X),
           NEW t2, t2 = unlink_large_chunk(t, X)
    PROVE  Erased(t, X, t2) /\ \E at2 : Good(t2, Bins!Less(q, X), at2)
<1> DEFINE N == TreeOf(t)
           R == RightmostLeaf(t, X)
           P == t.node[R].parent
           M == N \ {R}
           t1 == Detached(t, X, R)
<1>1. IsState(t) /\ Trie(N, t.node, t.treebin, at) /\ Bare(N, t.node) /\ Ringed(t.node, q)
      /\ t.treemap = {i \in Index : t.treebin[i] # Null}
      /\ \A c \in Chunk : t.node[c].size # 0 => t.node[c].index = compute_tree_index(t.node[c].size)
  BY DEF Good
<1>2. PICK s \in Sizes : \E i \in 1 .. Len(q[s]) : InRing(t, q, X, s, i)
  BY RingPlace
<1>3. PICK i \in 1 .. Len(q[s]) : InRing(t, q, X, s, i)
  BY <1>2
<1>4. X \in N /\ N \in SUBSET Chunk /\ \A c \in Chunk : c \in N <=> t.node[c].parent # Null
  BY DEF TreeOf
<1>5. Replacement(t, X) = R
  BY ReplacementIs
<1> HIDE DEF N
<1>6. R \in N /\ Under(t.node, at, R, X) /\ (\A b \in Side : t.node[R].child[b] = Null) /\ R # X
  <2>1. IsLeafOf(t, N, at, X, R)
    BY <1>1, <1>4, LeafIs
  <2> QED
    BY <2>1 DEF IsLeafOf, Leafless
<1> HIDE DEF R
<1>7. P \in N /\ at[R] # 0 /\ R \in Chunk /\ R # Null
  <2>1. at[R] # at[X] /\ at[X] <= at[R] /\ at[R] \in Nat /\ at[X] \in Nat
    BY <1>1, <1>4, <1>6, OneAtDepth, TrieFacts DEF Under
  <2> QED
    BY <1>1, <1>6, <2>1, TrieFacts
<1>8. \A c \in N : t.node[c] # NoNode
  <2> TAKE c \in N
  <2>1. t.node[c].size \in Sizes /\ c \in Chunk
    BY <1>1, TrieFacts
  <2> QED
    BY <1>1, <2>1, NodeFacts, WordFacts DEF Sizes
<1> HIDE DEF P
<1>9. /\ IsState(t1) /\ t1.treebin = t.treebin /\ t1.treemap = t.treemap
      /\ \A c \in Chunk :
            /\ t1.node[c].size = t.node[c].size /\ t1.node[c].index = t.node[c].index
            /\ t1.node[c].parent = t.node[c].parent
            /\ t1.node[c].bk = t.node[c].bk /\ t1.node[c].fd = t.node[c].fd
            /\ \A e \in Side : t1.node[c].child[e] =
                  IF c = P /\ t.node[c].child[e] = R THEN Null ELSE t.node[c].child[e]
  <2>1. P \in Chunk /\ t.node[P] # NoNode /\ R # t.node[X].bk
    BY <1>4, <1>6, <1>7, <1>8
  <2>2. P = t.node[R].parent
    BY DEF P
  <2> HIDE DEF t1
  <2>3. t1 = Detached(t, X, R)
    BY DEF t1
  <2> QED
    BY <1>1, <1>7, <2>1, <2>2, <2>3, DetachLeaf
<1>10. t2 = Relinked(t1, X, R)
  <2>1. t1.node[X].parent = t.node[X].parent
    BY <1>9
  <2> QED
    BY <1>5, <1>7, <2>1 DEF unlink_large_chunk, Relinked
<1> HIDE DEF t1
<1>11. Trie(M, t1.node, t1.treebin, at)
  <2>1. \A c \in N \ {R} : t1.node[c].size = t.node[c].size /\ t1.node[c].parent = t.node[c].parent
    BY <1>4, <1>9
  <2>2. \A c \in N : \A e \in Side : t.node[c].child[e] = R => c = P
    BY <1>1, <1>7 DEF Trie, ChildrenHold, P
  <2>3. \A c \in N \ {R}, e \in Side :
            t1.node[c].child[e] = IF t.node[c].child[e] = R THEN Null ELSE t.node[c].child[e]
    BY <1>4, <1>9, <2>2
  <2>4. \A j \in Index : t1.treebin[j] = IF t.treebin[j] = R THEN Null ELSE t.treebin[j]
    <3>1. \A j \in Index : t.treebin[j] # R
      BY <1>1, <1>7 DEF Trie, RootsHold
    <3> QED
      BY <1>9, <3>1
  <2> QED
    BY <1>1, <1>6, <2>1, <2>3, <2>4, DropLeaf
<1>12. Bare(M, t1.node)
  <2> SUFFICES ASSUME NEW c \in Chunk \ M, NEW b \in Side PROVE t1.node[c].child[b] = Null
    BY DEF Bare
  <2>1. t.node[c].child[b] = Null
    BY <1>1, <1>6 DEF Bare
  <2> QED
    BY <1>9, <2>1
<1>13. X \in M /\ M \in SUBSET Chunk /\ R \in Chunk \ M /\ (M \ {X}) \cup {R} = N \ {X}
  BY <1>4, <1>6
<1> HIDE DEF M
<1>14. /\ IsState(t2) /\ t2.treemap = {j \in Index : t2.treebin[j] # Null}
       /\ \E at2 : Trie((M \ {X}) \cup {R}, t2.node, t2.treebin, at2)
       /\ Bare((M \ {X}) \cup {R}, t2.node)
       /\ t2.node[X] = NoNode
       /\ \A c \in Chunk \ {X} :
             /\ t2.node[c].size = t1.node[c].size /\ t2.node[c].index = t1.node[c].index
             /\ t2.node[c].bk = t1.node[c].bk /\ t2.node[c].fd = t1.node[c].fd
             /\ t2.node[c].parent = Null <=> c # R /\ t1.node[c].parent = Null
  <2>1. t1.treemap = {j \in Index : t1.treebin[j] # Null}
    BY <1>1, <1>9
  <2>2. Agree(t1.node[R].size, t1.node[X].size, at[X])
    BY <1>6, <1>7, <1>9 DEF Under
  <2>3. t1.node[R] # NoNode
    <3>1. t.node[R].size # 0
      BY <1>1, <1>6, <1>7, <1>8, NodeFacts
    <3>2. t1.node[R].size # 0
      BY <1>7, <1>9, <3>1
    <3> QED
      BY <1>7, <1>9, <3>2, NodeFacts
  <2>4. t1.node[X].index = compute_tree_index(t1.node[X].size)
    BY <1>1, <1>9
  <2>5. IsState(t1)
    BY <1>9
  <2>6. Replaced(t1, M, X, R, Relinked(t1, X, R))
    BY <1>11, <1>12, <1>13, <2>1, <2>2, <2>3, <2>4, <2>5, Replaces
  <2>7. Replaced(t1, M, X, R, t2)
    BY <1>10, <2>6
  <2> QED
    BY <2>7 DEF Replaced
<1>15. t2.node[X].size = 0 /\ t2.node[X].parent = Null
  BY <1>14 DEF NoNode
<1>16. \A c \in Chunk \ {X} : t2.node[c].parent = Null <=> t.node[c].parent = Null
  BY <1>4, <1>6, <1>9, <1>14
<1>17. TreeOf(t2) = N \ {X}
  <2>1. \A c \in Chunk : t2.node[c].parent # Null <=> c \in N \ {X}
    BY <1>4, <1>15, <1>16
  <2> QED
    BY <1>4, <2>1 DEF TreeOf
<1>18. Ringed(t2.node, Bins!Less(q, X))
  <2>1. X = q[s][i] /\ t.node[X].fd = X
    BY <1>3 DEF InRing
  <2>2. \A c \in Chunk \ {X} :
          /\ t2.node[c].size = t.node[c].size
          /\ t2.node[c].bk = IF c = t.node[X].fd THEN t.node[X].bk ELSE t.node[c].bk
          /\ t2.node[c].fd = IF c = t.node[X].bk THEN t.node[X].fd ELSE t.node[c].fd
          /\ t2.node[c].parent = Null <=> t.node[c].parent = Null /\ ~(i = 1 /\ c = t.node[X].bk)
    <3> TAKE c \in Chunk \ {X}
    <3>1. /\ t2.node[c].size = t1.node[c].size
          /\ t2.node[c].bk = t1.node[c].bk /\ t2.node[c].fd = t1.node[c].fd
      BY ONLY <1>14
    <3>2. /\ t1.node[c].size = t.node[c].size
          /\ t1.node[c].bk = t.node[c].bk /\ t1.node[c].fd = t.node[c].fd
      BY ONLY <1>9
    <3>3. t2.node[c].parent = Null <=> t.node[c].parent = Null
      BY ONLY <1>16
    <3>4. t.node[X].fd = X /\ t.node[X].bk = X /\ c # X
      BY <2>1
    <3> QED
      BY ONLY <3>1, <3>2, <3>3, <3>4
  <2>3. LeavesRing(t.node, t2.node, X, i)
    BY <1>15, <2>2 DEF LeavesRing
  <2> QED
    BY <1>1, <2>1, <2>3, RingsLess
<1>19. \A c \in Chunk : t2.node[c].size # 0 => t2.node[c].index = compute_tree_index(t2.node[c].size)
  BY <1>1, <1>9, <1>14, <1>15
<1>20. Erased(t, X, t2)
  BY <1>9, <1>14, <1>15 DEF Erased
<1>21. PICK at2 : Trie((M \ {X}) \cup {R}, t2.node, t2.treebin, at2)
  BY <1>14
<1>22. Trie(TreeOf(t2), t2.node, t2.treebin, at2) /\ Bare(TreeOf(t2), t2.node)
  BY ONLY <1>13, <1>14, <1>17, <1>21
<1>23. Good(t2, Bins!Less(q, X), at2)
  BY ONLY <1>14, <1>18, <1>19, <1>22 DEF Good
<1> QED
  BY ONLY <1>20, <1>23

(* The only chunk of its size, with nothing below it.                      *)
Cut(t, X) == [LinkParent(t, X, t.node[X].parent, Null) EXCEPT !.node[X] = NoNode]

LEMMA UnlinkLeaf ==
    ASSUME NEW t, NEW q, NEW at, Good(t, q, at), NEW X \in Chunk, t.node[X].size # 0,
           t.node[X].parent # Null, t.node[X].bk = X, Leafless(t.node, X),
           NEW t2, t2 = unlink_large_chunk(t, X)
    PROVE  Erased(t, X, t2) /\ \E at2 : Good(t2, Bins!Less(q, X), at2)
<1> DEFINE N == TreeOf(t)
           XP == t.node[X].parent
           ta == LinkParent(t, X, XP, Null)
           k == t.node[X].index
<1>1. IsState(t) /\ Trie(N, t.node, t.treebin, at) /\ Bare(N, t.node) /\ Ringed(t.node, q)
      /\ t.treemap = {i \in Index : t.treebin[i] # Null}
      /\ \A c \in Chunk : t.node[c].size # 0 => t.node[c].index = compute_tree_index(t.node[c].size)
  BY DEF Good
<1>2. PICK s \in Sizes : \E i \in 1 .. Len(q[s]) : InRing(t, q, X, s, i)
  BY RingPlace
<1>3. PICK i \in 1 .. Len(q[s]) : InRing(t, q, X, s, i)
  BY <1>2
<1>4. X \in N /\ N \in SUBSET Chunk /\ \A c \in Chunk : c \in N <=> t.node[c].parent # Null
  BY DEF TreeOf
<1>5. t2 = Cut(t, X)
  <2>1. Replacement(t, X) = Null
    BY ReplacementIs
  <2>2. Detached(t, X, Null) = t
    BY DEF Detached
  <2> QED
    BY <2>1, <2>2 DEF unlink_large_chunk, Cut
<1>6. t2 = [ta EXCEPT !.node[X] = NoNode]
  BY <1>5 DEF Cut
<1> HIDE DEF N
<1>7. /\ k \in Index /\ \A j \in Index : t.treebin[j] = X => j = k
      /\ t.treebin[k] = X => XP = Root
      /\ t.treebin[k] # X => XP \in N
      /\ t.treebin[k] # X => \E e \in Side : t.node[XP].child[e] = X
      /\ t.treebin[k] # X => \A e, d \in Side : t.node[XP].child[e] = X /\ t.node[XP].child[d] = X => e = d
      /\ \A c \in N : \A e \in Side : t.node[c].child[e] = X => c = XP
      /\ XP \in N \cup {Root}
  <2>1. k = compute_tree_index(t.node[X].size)
    BY <1>1
  <2> HIDE DEF k
  <2>2. IsLinked(t, N, X, XP, k)
    BY <1>1, <1>4, <2>1, ParentLink
  <2> QED
    BY <2>2 DEF IsLinked
<1>8. \A c \in N : t.node[c] # NoNode
  <2> TAKE c \in N
  <2>1. t.node[c].size \in Sizes /\ c \in Chunk
    BY <1>1, TrieFacts
  <2> QED
    BY <1>1, <2>1, NodeFacts, WordFacts DEF Sizes
<1>9. /\ IsState(ta) /\ ta.treemap = {j \in Index : ta.treebin[j] # Null}
      /\ \A j \in Index : ta.treebin[j] = IF t.treebin[j] = X THEN Null ELSE t.treebin[j]
      /\ \A c \in Chunk :
            /\ ta.node[c].size = t.node[c].size /\ ta.node[c].index = t.node[c].index
            /\ ta.node[c].parent = t.node[c].parent
            /\ ta.node[c].bk = t.node[c].bk /\ ta.node[c].fd = t.node[c].fd
            /\ \A e \in Side : ta.node[c].child[e] =
                  IF c = XP /\ t.node[c].child[e] = X THEN Null ELSE t.node[c].child[e]
  <2>1. t.treebin[k] # X => XP \in Chunk /\ t.node[XP] # NoNode
    BY <1>4, <1>7, <1>8
  <2> HIDE DEF ta, k
  <2>2. k = t.node[X].index /\ ta = LinkParent(t, X, XP, Null) /\ Null \in Chunk \cup {Null}
    BY DEF ta, k
  <2>3. IsState(t) /\ t.treemap = {j \in Index : t.treebin[j] # Null}
    BY <1>1
  <2>4. k \in Index /\ \A j \in Index : t.treebin[j] = X => j = k
    BY <1>7
  <2>5. t.treebin[k] = X => XP = Root
    BY <1>7
  <2>6. t.treebin[k] # X => /\ XP \in Chunk /\ t.node[XP] # NoNode
                            /\ \E e \in Side : t.node[XP].child[e] = X
                            /\ \A e, d \in Side : t.node[XP].child[e] = X /\ t.node[XP].child[d] = X => e = d
    BY <1>7, <2>1
  <2> HIDE DEF XP
  <2>7. ParentLinked(t, ta, X, XP, Null)
    BY <2>2, <2>3, <2>4, <2>5, <2>6, LinkParentIs
  <2> QED
    BY <2>7 DEF ParentLinked, SameData
<1> HIDE DEF ta
<1>10. /\ IsState(t2) /\ t2.treebin = ta.treebin /\ t2.treemap = ta.treemap
       /\ t2.node[X] = NoNode /\ \A c \in Chunk \ {X} : t2.node[c] = ta.node[c]
  <2>1. Forgotten(ta, X, t2)
    BY <1>6, <1>9, EraseIs
  <2> QED
    BY <2>1 DEF Forgotten
<1>11. t2.node[X].size = 0 /\ t2.node[X].parent = Null /\ \A b \in Side : t2.node[X].child[b] = Null
  BY <1>10 DEF NoNode
<1>12. TreeOf(t2) = N \ {X}
  <2>1. \A c \in Chunk : t2.node[c].parent # Null <=> c \in N \ {X}
    BY <1>4, <1>9, <1>10, <1>11
  <2> QED
    BY <1>4, <2>1 DEF TreeOf
<1> HIDE DEF XP
<1>13. Trie(N \ {X}, t2.node, t2.treebin, at)
  <2>1. \A c \in N \ {X} : t2.node[c].size = t.node[c].size /\ t2.node[c].parent = t.node[c].parent
    BY <1>4, <1>9, <1>10
  <2>2. \A c \in N \ {X}, e \in Side :
            t2.node[c].child[e] = IF t.node[c].child[e] = X THEN Null ELSE t.node[c].child[e]
    BY <1>4, <1>7, <1>9, <1>10
  <2>3. \A j \in Index : t2.treebin[j] = IF t.treebin[j] = X THEN Null ELSE t.treebin[j]
    BY <1>9, <1>10
  <2>4. \A b \in Side : t.node[X].child[b] = Null
    BY DEF Leafless
  <2> QED
    BY <1>1, <1>4, <2>1, <2>2, <2>3, <2>4, DropLeaf
<1>14. Bare(N \ {X}, t2.node)
  <2> SUFFICES ASSUME NEW c \in Chunk \ (N \ {X}), NEW b \in Side PROVE t2.node[c].child[b] = Null
    BY DEF Bare
  <2>1. CASE c = X
    BY <1>11, <2>1
  <2>2. CASE c # X
    BY <1>1, <1>9, <1>10, <2>2 DEF Bare
  <2> QED
    BY <2>1, <2>2
<1>15. Ringed(t2.node, Bins!Less(q, X))
  <2>1. X = q[s][i] /\ t.node[X].fd = X
    BY <1>3 DEF InRing
  <2>2. \A c \in Chunk \ {X} :
          /\ t2.node[c].size = t.node[c].size
          /\ t2.node[c].bk = IF c = t.node[X].fd THEN t.node[X].bk ELSE t.node[c].bk
          /\ t2.node[c].fd = IF c = t.node[X].bk THEN t.node[X].fd ELSE t.node[c].fd
          /\ t2.node[c].parent = Null <=> t.node[c].parent = Null /\ ~(i = 1 /\ c = t.node[X].bk)
    BY <1>9, <1>10, <2>1
  <2>3. LeavesRing(t.node, t2.node, X, i)
    BY <1>11, <2>2 DEF LeavesRing
  <2> QED
    BY <1>1, <2>1, <2>3, RingsLess
<1>16. \A c \in Chunk : t2.node[c].size # 0 => t2.node[c].index = compute_tree_index(t2.node[c].size)
  BY <1>1, <1>9, <1>10, <1>11
<1>17. t2.treemap = {j \in Index : t2.treebin[j] # Null}
  BY <1>9, <1>10
<1>18. Erased(t, X, t2)
  BY <1>9, <1>10, <1>11 DEF Erased
<1> QED
  BY <1>10, <1>12, <1>13, <1>14, <1>15, <1>16, <1>17, <1>18 DEF Good

LEMMA UnlinkGood ==
    ASSUME NEW t, NEW q, NEW at, Good(t, q, at), NEW X \in Chunk, t.node[X].size # 0
    PROVE  /\ Erased(t, X, unlink_large_chunk(t, X))
           /\ \E at2 : Good(unlink_large_chunk(t, X), Bins!Less(q, X), at2)
BY UnlinkChained, UnlinkRelinked, UnlinkAbove, UnlinkLeaf

-----------------------------------------------------------------------------
(* The searches.                                                           *)

(* Differences of words wrap around.                                       *)
LEMMA WordDiff ==
    ASSUME NEW x \in Word, NEW nb \in Word
    PROVE  /\ (x - nb) % Two[Width] = IF x >= nb THEN x - nb ELSE Two[Width] + x - nb
           /\ nb # 0 => (-nb) % Two[Width] = Two[Width] - nb
<1> DEFINE m == Two[Width]
<1>1. m \in Nat \ {0} /\ x \in 0 .. m - 1 /\ nb \in 0 .. m - 1
  BY WordFacts DEF Word
<1> HIDE DEF m
<1>2. \A r \in 0 .. m - 1 : r % m = r /\ (r - m) % m = r
  <2> TAKE r \in 0 .. m - 1
  <2>1. ((0 * m) + r) % m = r /\ (((-1) * m) + r) % m = r
    BY <1>1, DivModIs
  <2>2. (0 * m) + r = r /\ ((-1) * m) + r = r - m
    BY <1>1
  <2> QED
    BY <2>1, <2>2
<1>3. (x - nb) % m = IF x >= nb THEN x - nb ELSE m + x - nb
  <2>1. CASE x >= nb
    <3>1. x - nb \in 0 .. m - 1
      BY <1>1, <2>1
    <3> QED
      BY <1>2, <2>1, <3>1
  <2>2. CASE ~(x >= nb)
    <3>1. m + x - nb \in 0 .. m - 1 /\ (m + x - nb) - m = x - nb
      BY <1>1, <2>2
    <3> QED
      BY <1>2, <2>2, <3>1
  <2> QED
    BY <2>1, <2>2
<1>4. ASSUME nb # 0 PROVE (-nb) % m = m - nb
  <2>1. m - nb \in 0 .. m - 1 /\ (m - nb) - m = -nb
    BY <1>1, <1>4
  <2> QED
    BY <1>2, <2>1
<1> QED
  BY <1>3, <1>4 DEF m

LEMMA BestIs ==
    ASSUME NEW t, NEW S \in SUBSET Chunk, \A c \in S : t.node[c].size \in Sizes, NEW nb \in Word, nb # 0
    PROVE  /\ (\A c \in S : ~(t.node[c].size >= nb)) => Best(t, S, nb) = Null
           /\ (\E c \in S : t.node[c].size >= nb) =>
                 /\ Best(t, S, nb) \in S /\ t.node[Best(t, S, nb)].size >= nb
                 /\ \A d \in S : t.node[d].size >= nb => t.node[Best(t, S, nb)].size <= t.node[d].size
<1> DEFINE m == Two[Width]
           fit == {c \in S : Rem(t, c, nb) < (-nb) % Two[Width]}
<1>1. m \in Nat \ {0} /\ nb \in 0 .. m - 1 /\ nb \in Nat
      /\ \A c \in S : t.node[c].size \in 0 .. m - 1 /\ t.node[c].size \in Nat
  BY WordFacts DEF Word, Sizes
<1>2. ASSUME NEW c \in S
      PROVE  Rem(t, c, nb) = IF t.node[c].size >= nb THEN t.node[c].size - nb ELSE m + t.node[c].size - nb
  <2>1. t.node[c].size \in Word
    BY WordFacts
  <2> QED
    BY <2>1, WordDiff DEF Rem
<1>3. (-nb) % Two[Width] = m - nb
  BY WordDiff
<1>4. \A c \in S : c \in fit <=> t.node[c].size >= nb
  <2> TAKE c \in S
  <2>1. c \in fit <=> Rem(t, c, nb) < m - nb
    BY <1>3
  <2> HIDE DEF m, fit
  <2> QED
    BY <1>1, <1>2, <2>1
<1>5. fit \subseteq S
  OBVIOUS
<1>6. Best(t, S, nb) = IF fit = {} THEN Null
                       ELSE CHOOSE c \in fit : \A d \in fit : Rem(t, c, nb) <= Rem(t, d, nb)
  BY DEF Best
<1> HIDE DEF m, fit
<1>7. ASSUME fit # {}
      PROVE  \E c \in fit : \A d \in fit : Rem(t, c, nb) <= Rem(t, d, nb)
  <2> DEFINE D == {Rem(t, c, nb) : c \in fit}
  <2>1. D \in SUBSET Nat /\ D # {}
    <3>1. \A c \in fit : Rem(t, c, nb) \in Nat
      BY <1>1, <1>2, <1>4, <1>5
    <3> QED
      BY <1>7, <3>1
  <2>2. PICK n \in D : \A k \in D : n <= k
    <3> HIDE DEF D
    <3> QED
      BY <2>1, LeastOf
  <2> QED
    BY <2>2
<1>8. ASSUME fit # {}
      PROVE  Best(t, S, nb) \in fit /\ \A d \in fit : Rem(t, Best(t, S, nb), nb) <= Rem(t, d, nb)
  BY <1>6, <1>7, <1>8
<1>9. ASSUME fit # {}, NEW d \in fit
      PROVE  t.node[Best(t, S, nb)].size <= t.node[d].size
  BY <1>1, <1>2, <1>4, <1>5, <1>8, <1>9
<1> QED
  BY <1>4, <1>5, <1>6, <1>8, <1>9

LeftOf(c, f, u) ==
    IF u = Null THEN {}
    ELSE LET C == c.t.node[u].child
         IN  {u} \cup f[IF C[0] # Null THEN C[0] ELSE C[1]]

Lefts == INSTANCE StructureLemmas WITH
    Dom <- LAMBDA c : Chunk \cup {Null}, Def <- LAMBDA c, f, u : LeftOf(c, f, u),
    Rank <- LAMBDA c, u : Left(c, u), ListHead <- Null

LEMMA LeftmostStep ==
    ASSUME NEW t, NEW N, NEW at, Trie(N, t.node, t.treebin, at), Bare(N, t.node)
    PROVE  /\ Leftmost(t, Null) = {}
           /\ \A u \in Chunk : Leftmost(t, u) = {u} \cup
                 Leftmost(t, IF t.node[u].child[0] # Null THEN t.node[u].child[0] ELSE t.node[u].child[1])
<1>1. PICK D \in Nat : Walkable([t |-> t, N |-> N, at |-> at, D |-> D, s |-> 0])
  BY Walks
<1> DEFINE c == [t |-> t, N |-> N, at |-> at, D |-> D, s |-> 0]
           F == CHOOSE f : f = [v \in Chunk \cup {Null} |-> LeftOf(c, f, v)]
<1>2. c.t = t
  OBVIOUS
<1> HIDE DEF c
<1>3. ASSUME NEW v \in Chunk \cup {Null}, v # Null, NEW b \in Side
      PROVE  c.t.node[v].child[b] \in Chunk \cup {Null} /\ Left(c, c.t.node[v].child[b]) < Left(c, v)
  BY <1>1, <1>3, WalkFacts DEF c
<1>4. Lefts!Ranked(c)
  BY <1>1, WalkFacts DEF Lefts!Ranked, c
<1>5. Lefts!Local(c)
  <2>1. 0 \in Side /\ 1 \in Side
    BY DEF Side
  <2> QED
    BY <1>3, <2>1 DEF Lefts!Local, LeftOf
<1>6. F = [v \in Chunk \cup {Null} |-> LeftOf(c, F, v)]
  BY <1>4, <1>5, Lefts!RecursiveFunction
<1>7. ASSUME NEW v PROVE Leftmost(t, v) = F[v]
  BY <1>2 DEF Leftmost, LeftOf
<1> HIDE DEF F
<1>8. (\A u \in Chunk : F[u] = LeftOf(c, F, u)) /\ F[Null] = LeftOf(c, F, Null)
  BY <1>6
<1>9. Null \notin Chunk
  BY NotChunks
<1> QED
  BY <1>2, <1>7, <1>8, <1>9 DEF LeftOf

(* The way to the left below u passes a smallest chunk of what is there.   *)
HasLeast(t, N, at, u) ==
    /\ u \in Leftmost(t, u)
    /\ \A x \in Leftmost(t, u) : x \in N /\ Under(t.node, at, x, u)
    /\ \A w \in N : Under(t.node, at, w, u) => \E x \in Leftmost(t, u) : t.node[x].size <= t.node[w].size

LEMMA LeftmostFacts ==
    ASSUME NEW t, NEW N, NEW at, Trie(N, t.node, t.treebin, at), Bare(N, t.node), NEW u \in N
    PROVE  HasLeast(t, N, at, u)
<1> DEFINE B == {v \in N : ~HasLeast(t, N, at, v)}
<1> SUFFICES ASSUME B # {} PROVE FALSE
  OBVIOUS
<1>1. PICK y \in B : \A z \in B : at[z] <= at[y]
  <2>1. B \in SUBSET N
    OBVIOUS
  <2> HIDE DEF B
  <2> QED
    BY <2>1, Lowest
<1>2. y \in N /\ ~HasLeast(t, N, at, y)
  OBVIOUS
<1>3. y \in Chunk /\ at[y] \in Nat /\ y # Null /\ t.node[y].size \in Nat
  BY <1>2, TrieFacts
<1> DEFINE C == t.node[y].child
           next == IF C[0] # Null THEN C[0] ELSE C[1]
<1>4. 0 \in Side /\ 1 \in Side /\ \A b \in Side : b = 0 \/ b = 1
  BY DEF Side
<1>5. Leftmost(t, Null) = {} /\ Leftmost(t, y) = {y} \cup Leftmost(t, next)
  BY <1>3, LeftmostStep
<1>6. Under(t.node, at, y, y) /\ t.node[y].size <= t.node[y].size
  BY <1>3, AgreeFacts DEF Under
<1>7. ASSUME NEW w \in N, Under(t.node, at, w, y), w # y
      PROVE  \E b \in Side : /\ b = Bit(t.node[w].size, at[y]) /\ C[b] # Null
                             /\ Under(t.node, at, w, C[b]) /\ Agree(t.node[w].size, t.node[y].size, at[y])
  <2>1. Leads(N, t.node, at, y, w)
    BY <1>2, <1>7, Descend
  <2>2. Bit(t.node[w].size, at[y]) \in Side
    BY <1>3, TrieFacts, KeyFacts
  <2> QED
    BY <1>7, <2>1, <2>2 DEF Leads, Turn, Under
<1> HIDE DEF B
<1>8. CASE next = Null
  <2>1. Leftmost(t, y) = {y} /\ C[0] = Null /\ C[1] = Null
    BY <1>5, <1>8
  <2>2. \A w \in N : Under(t.node, at, w, y) => w = y
    BY <1>4, <1>7, <2>1
  <2> QED
    BY <1>2, <1>6, <2>1, <2>2 DEF HasLeast
<1>9. CASE next # Null
  <2> DEFINE b == IF C[0] # Null THEN 0 ELSE 1
  <2>1. b \in Side /\ next = C[b] /\ C[b] # Null /\ next = t.node[y].child[b]
        /\ (b = 1 => C[0] = Null)
    BY <1>4, <1>9
  <2> HIDE DEF b, next, C
  <2>2. PICK x \in N : /\ x = next /\ at[x] = at[y] + 1
                       /\ Agree(t.node[x].size, t.node[y].size, at[y]) /\ Bit(t.node[x].size, at[y]) = b
                       /\ \A w \in N : Under(t.node, at, w, x) => Under(t.node, at, w, y)
    <3>1. IsChild(N, t.node, at, y, b, t.node[y].child[b])
      BY <1>2, <1>9, <2>1, ChildIs
    <3>3. IsChild(N, t.node, at, y, b, next)
      BY <2>1, <3>1
    <3> QED
      BY <3>3 DEF IsChild
  <2>3. x \notin B
    BY <1>1, <1>3, <2>2
  <2>4. HasLeast(t, N, at, x)
    BY <2>3 DEF B
  <2>5. Leftmost(t, y) = {y} \cup Leftmost(t, x)
    BY <1>5, <2>2
  <2>6. \A z \in Leftmost(t, y) : z \in N /\ Under(t.node, at, z, y)
    BY <1>2, <1>6, <2>2, <2>4, <2>5 DEF HasLeast
  <2>7. ASSUME NEW w \in N, Under(t.node, at, w, y)
        PROVE  \E z \in Leftmost(t, y) : t.node[z].size <= t.node[w].size
    <3>1. CASE w = y
      BY <1>6, <2>5, <3>1
    <3>2. CASE w # y
      <4>1. PICK d \in Side : /\ d = Bit(t.node[w].size, at[y]) /\ C[d] # Null
                              /\ Under(t.node, at, w, C[d]) /\ Agree(t.node[w].size, t.node[y].size, at[y])
        BY <1>7, <2>7, <3>2
      <4>2. CASE d = b
        <5>1. Under(t.node, at, w, x)
          BY <2>1, <2>2, <4>1, <4>2
        <5> QED
          BY <2>4, <2>5, <5>1 DEF HasLeast
      <4>3. CASE d # b
        <5>1. b = 0 /\ d # 0
          BY <1>4, <2>1, <4>1, <4>3
        <5>2. Agree(t.node[x].size, t.node[w].size, at[y])
          <6>1. Agree(t.node[x].size, t.node[y].size, at[y])
            BY <2>2
          <6>2. Agree(t.node[w].size, t.node[y].size, at[y])
            BY <4>1
          <6> QED
            BY ONLY <6>1, <6>2, AgreeFacts
        <5>3. t.node[x].size \in Sizes /\ t.node[w].size \in Sizes /\ t.node[x].size \in Nat /\ t.node[w].size \in Nat
          BY TrieFacts
        <5>4. t.node[x].size < t.node[w].size
          <6> HIDE DEF b
          <6> QED
            BY <1>3, <2>2, <4>1, <5>1, <5>2, <5>3, BitOrder
        <5>5. t.node[x].size <= t.node[w].size
          BY <5>3, <5>4
        <5> QED
          BY <2>4, <2>5, <5>5 DEF HasLeast
      <4> QED
        BY <4>2, <4>3
    <3> QED
      BY <3>1, <3>2
  <2>8. y \in Leftmost(t, y)
    BY <2>5
  <2> QED
    BY <1>2, <2>6, <2>7, <2>8 DEF HasLeast
<1> QED
  BY <1>8, <1>9

(* Where the search for s goes to the left and could go to the right.      *)
Aside(t, P) ==
    {k \in DOMAIN P : t.node[P[k]].child[1] # Null /\ (k < Len(P) => P[k + 1] # t.node[P[k]].child[1])}

LeavesAside(t, P, s) ==
    /\ Aside(t, P) \subseteq 1 .. Len(P)
    /\ \A k \in 1 .. Len(P) : k \in Aside(t, P) <=> t.node[P[k]].child[1] # Null /\ Bit(s, k - 1) = 0
    /\ Aside(t, P) = {} => DeepestUntaken(t, P) = Null
    /\ Aside(t, P) # {} => \E m \in Aside(t, P) : /\ DeepestUntaken(t, P) = t.node[P[m]].child[1]
                                                  /\ \A k \in Aside(t, P) : k <= m

LEMMA AsideIs ==
    ASSUME NEW t, NEW N, NEW at, Trie(N, t.node, t.treebin, at), NEW s \in Sizes, NEW P,
           Searches(t, N, at, P, s), t.node[P[Len(P)]].size # s
    PROVE  LeavesAside(t, P, s)
<1> DEFINE n == Len(P)
           A == Aside(t, P)
<1>1. n \in Nat \ {0} /\ DOMAIN P = 1 .. n
  BY DEF Searches
<1>2. A \subseteq 1 .. n
  BY <1>1 DEF Aside
<1>3. ASSUME NEW k \in 1 .. n
      PROVE  k \in A <=> t.node[P[k]].child[1] # Null /\ Bit(s, k - 1) = 0
  <2>1. P[k] \in N /\ at[P[k]] = k - 1 /\ k - 1 \in Nat
    BY <1>1 DEF Searches
  <2>2. k \in A <=> t.node[P[k]].child[1] # Null /\ (k < n => P[k + 1] # t.node[P[k]].child[1])
    BY <1>1 DEF Aside
  <2>3. Bit(s, k - 1) \in Side /\ Side = {0, 1}
    BY <2>1, KeyFacts DEF Side
  <2>4. k < n => P[k + 1] = t.node[P[k]].child[Bit(s, k - 1)]
    BY <1>1 DEF Searches
  <2>5. ~(k < n) => t.node[P[k]].child[Bit(s, k - 1)] = Null
    <3> SUFFICES ASSUME ~(k < n) PROVE t.node[P[k]].child[Bit(s, k - 1)] = Null
      OBVIOUS
    <3>1. k = n
      <4> HIDE DEF n, A
      <4> QED
        BY <1>1
    <3> QED
      BY <3>1 DEF Searches
  <2>6. t.node[P[k]].child[1] # Null => t.node[P[k]].child[0] # t.node[P[k]].child[1]
    <3> SUFFICES ASSUME t.node[P[k]].child[1] # Null PROVE t.node[P[k]].child[0] # t.node[P[k]].child[1]
      OBVIOUS
    <3> HIDE DEF A, n
    <3>1. \A b \in Side : t.node[P[k]].child[b] # Null =>
              IsChild(N, t.node, at, P[k], b, t.node[P[k]].child[b])
      BY <2>1, ChildIs
    <3>2. \A b \in Side : t.node[P[k]].child[b] # Null => Bit(t.node[t.node[P[k]].child[b]].size, k - 1) = b
      BY <2>1, <3>1 DEF IsChild
    <3>3. t.node[P[k]].child[0] # Null => Bit(t.node[t.node[P[k]].child[0]].size, k - 1) = 0
      BY <2>3, <3>2
    <3>4. Bit(t.node[t.node[P[k]].child[1]].size, k - 1) = 1
      BY <2>3, <3>2
    <3> QED
      BY <3>3, <3>4
  <2> QED
    BY <2>2, <2>3, <2>4, <2>5, <2>6
<1>4. DeepestUntaken(t, P) = IF A = {} THEN Null ELSE t.node[P[Max(A)]].child[1]
  BY DEF DeepestUntaken, Aside
<1> HIDE DEF A, n
<1>5. ASSUME A # {} PROVE \E m \in A : \A k \in A : m >= k
  <2> DEFINE D == {n - k : k \in A}
  <2>1. D \in SUBSET Nat /\ D # {}
    <3>1. \A k \in A : n - k \in Nat
      BY <1>1, <1>2
    <3> QED
      BY <1>5, <3>1
  <2>2. PICK e \in D : \A d \in D : e <= d
    <3> HIDE DEF D
    <3> QED
      BY <2>1, LeastOf
  <2>3. PICK m \in A : e = n - m
    OBVIOUS
  <2>4. ASSUME NEW k \in A PROVE m >= k
    <3>1. n - m <= n - k
      BY <2>2, <2>3
    <3> QED
      BY <1>1, <1>2, <3>1
  <2> QED
    BY <2>4
<1>6. ASSUME A # {} PROVE Max(A) \in A /\ \A k \in A : Max(A) >= k
  BY <1>5, <1>6 DEF Max
<1>7. ASSUME A # {} PROVE \E m \in A : /\ DeepestUntaken(t, P) = t.node[P[m]].child[1]
                                       /\ \A k \in A : k <= m
  <2>1. \A k \in A : k <= Max(A)
    BY <1>1, <1>2, <1>6, <1>7
  <2> QED
    BY <1>4, <1>6, <1>7, <2>1
<1> QED
  BY <1>2, <1>3, <1>4, <1>7 DEF A, n, LeavesAside

(* There, all to the right is larger than s.                               *)
AllAbove(t, N, at, c, s, d) ==
    /\ c \in N /\ Under(t.node, at, c, c)
    /\ \A x \in N : Under(t.node, at, x, c) => s < t.node[x].size /\ Agree(t.node[x].size, s, d)

LEMMA RightOf ==
    ASSUME NEW t, NEW N, NEW at, Trie(N, t.node, t.treebin, at), NEW s \in Sizes, NEW P,
           Searches(t, N, at, P, s), NEW k \in 1 .. Len(P), Bit(s, k - 1) = 0,
           t.node[P[k]].child[1] # Null, NEW c, c = t.node[P[k]].child[1]
    PROVE  AllAbove(t, N, at, c, s, k - 1)
<1>1. P[k] \in N /\ at[P[k]] = k - 1 /\ k - 1 \in Nat /\ Agree(t.node[P[k]].size, s, k - 1) /\ 1 \in Side
  BY DEF Searches, Side
<1>2. /\ c \in N
      /\ \A x \in N : Under(t.node, at, x, c) => Under(t.node, at, x, P[k]) /\ Bit(t.node[x].size, k - 1) = 1
  BY <1>1, ChildFacts
<1>3. Under(t.node, at, c, c)
  <2>1. at[c] \in Nat
    BY <1>2, TrieFacts
  <2> QED
    BY <2>1, AgreeFacts DEF Under
<1>4. ASSUME NEW x \in N, Under(t.node, at, x, c)
      PROVE  s < t.node[x].size /\ Agree(t.node[x].size, s, k - 1)
  <2>1. Agree(t.node[x].size, t.node[P[k]].size, k - 1) /\ Bit(t.node[x].size, k - 1) = 1
    BY <1>1, <1>2, <1>4 DEF Under
  <2>2. Agree(t.node[x].size, s, k - 1) /\ Agree(s, t.node[x].size, k - 1)
    BY <1>1, <2>1, AgreeFacts
  <2>3. t.node[x].size \in Sizes
    BY TrieFacts
  <2>4. s < t.node[x].size
    <3>1. 1 # 0
      OBVIOUS
    <3> QED
      BY <1>1, <2>1, <2>2, <2>3, <3>1, BitOrder
  <2> QED
    BY <2>2, <2>4
<1> QED
  BY <1>2, <1>3, <1>4 DEF AllAbove

(* S has, with w, a chunk that fits s as well as w does.                   *)
AsGood(t, S, s, w) == \E x \in S : t.node[x].size >= s /\ t.node[x].size <= t.node[w].size

(* For a chunk of the tree that is searched, the way down and what is to   *)
(* the right of it are enough.                                             *)
LEMMA FitHere ==
    ASSUME NEW t, NEW N, NEW at, Trie(N, t.node, t.treebin, at), Bare(N, t.node), NEW s \in Sizes, NEW P,
           Searches(t, N, at, P, s), t.node[P[Len(P)]].size # s,
           NEW w \in N, t.node[w].size >= s, compute_tree_index(t.node[w].size) = compute_tree_index(s)
    PROVE  \/ \E k \in 1 .. Len(P) : w = P[k]
           \/ DeepestUntaken(t, P) # Null /\ AsGood(t, Leftmost(t, DeepestUntaken(t, P)), s, w)
<1> SUFFICES ASSUME ~\E k \in 1 .. Len(P) : w = P[k]
             PROVE  DeepestUntaken(t, P) # Null /\ AsGood(t, Leftmost(t, DeepestUntaken(t, P)), s, w)
  OBVIOUS
<1>1. PICK k \in 1 .. Len(P) : /\ Under(t.node, at, w, P[k]) /\ w # P[k]
                               /\ Bit(t.node[w].size, k - 1) # Bit(s, k - 1)
  BY SearchLeft
<1>2. /\ P[k] \in N /\ at[P[k]] = k - 1 /\ k - 1 \in Nat /\ Agree(t.node[P[k]].size, s, k - 1)
      /\ k \in Nat /\ Side = {0, 1}
  BY DEF Searches, Side
<1>3. t.node[w].size \in Sizes /\ t.node[w].size \in Nat /\ s \in Nat
  BY TrieFacts, WordFacts
<1>4. Agree(t.node[w].size, s, k - 1)
  BY <1>1, <1>2, AgreeFacts DEF Under
<1>5. Bit(t.node[w].size, k - 1) = 1 /\ Bit(s, k - 1) = 0
  <2>1. Bit(t.node[w].size, k - 1) \in Side /\ Bit(s, k - 1) \in Side
    BY <1>2, <1>3, KeyFacts
  <2>2. ~(Bit(t.node[w].size, k - 1) = 0 /\ Bit(s, k - 1) # 0)
    <3> SUFFICES ASSUME Bit(t.node[w].size, k - 1) = 0, Bit(s, k - 1) # 0 PROVE FALSE
      OBVIOUS
    <3>1. t.node[w].size < s
      BY <1>2, <1>3, <1>4, BitOrder
    <3> QED
      BY <1>3, <3>1
  <2> QED
    BY <1>1, <1>2, <2>1, <2>2
<1>6. t.node[P[k]].child[1] # Null /\ Under(t.node, at, w, t.node[P[k]].child[1])
  <2>1. Leads(N, t.node, at, P[k], w)
    BY <1>1, <1>2, Descend
  <2> QED
    BY <1>2, <1>5, <2>1 DEF Leads, Turn
<1>0. LeavesAside(t, P, s)
  BY AsideIs
<1>7. k \in Aside(t, P)
  BY <1>0, <1>5, <1>6 DEF LeavesAside
<1>8. PICK m \in Aside(t, P) : DeepestUntaken(t, P) = t.node[P[m]].child[1] /\ k <= m
  BY <1>0, <1>7 DEF LeavesAside
<1>9. m \in 1 .. Len(P) /\ t.node[P[m]].child[1] # Null /\ Bit(s, m - 1) = 0
  BY <1>0 DEF LeavesAside
<1> DEFINE c == t.node[P[m]].child[1]
<1>10. /\ c \in N /\ Under(t.node, at, c, c)
       /\ \A x \in N : Under(t.node, at, x, c) => s < t.node[x].size /\ Agree(t.node[x].size, s, m - 1)
  <2>1. c = t.node[P[m]].child[1]
    OBVIOUS
  <2> HIDE DEF c
  <2>2. AllAbove(t, N, at, c, s, m - 1)
    BY <1>9, <2>1, RightOf
  <2> QED
    BY <2>2 DEF AllAbove
<1> HIDE DEF c
<1>11. HasLeast(t, N, at, c)
  BY <1>10, LeftmostFacts
<1>12. \A x \in N : t.node[x].size \in Nat /\ t.node[x].size \in Sizes
  BY TrieFacts
<1>13. CASE m = k
  <2>1. PICK x \in Leftmost(t, c) : t.node[x].size <= t.node[w].size
    BY <1>6, <1>11, <1>13 DEF HasLeast, c
  <2>2. x \in N /\ Under(t.node, at, x, c)
    BY <1>11 DEF HasLeast
  <2>3. t.node[x].size >= s
    BY <1>3, <1>10, <1>12, <2>2
  <2> QED
    BY <1>8, <1>9, <2>1, <2>3 DEF AsGood, c
<1>14. CASE m # k
  <2>1. k - 1 < m - 1 /\ m - 1 \in Nat /\ k - 1 <= m - 1
    BY <1>2, <1>8, <1>9, <1>14
  <2>2. s < t.node[c].size /\ Agree(t.node[c].size, s, m - 1)
    BY <1>10
  <2>3. Bit(t.node[c].size, k - 1) = 0
    BY <1>2, <1>5, <2>1, <2>2 DEF Agree
  <2>4. Agree(t.node[c].size, t.node[w].size, k - 1)
    <3>1. Agree(t.node[c].size, s, k - 1) /\ Agree(s, t.node[w].size, k - 1)
      BY <1>2, <1>4, <2>1, <2>2, AgreeFacts
    <3> QED
      BY <3>1, AgreeFacts
  <2>5. t.node[c].size < t.node[w].size
    <3>1. 1 # 0
      OBVIOUS
    <3> QED
      BY <1>2, <1>3, <1>5, <1>10, <1>12, <2>3, <2>4, <3>1, BitOrder
  <2>6. c \in Leftmost(t, c)
    BY <1>11 DEF HasLeast
  <2>7. t.node[c].size >= s /\ t.node[c].size <= t.node[w].size
    BY <1>3, <1>10, <1>12, <2>2, <2>5
  <2> QED
    BY <1>8, <1>9, <2>6, <2>7 DEF AsGood, c
<1> QED
  BY <1>13, <1>14

(* v is a chunk of the trees that fits nb best.                            *)
Fits(t, nb, v) ==
    /\ v \in TreeOf(t) /\ t.node[v].size >= nb
    /\ \A d \in Chunk : t.node[d].size >= nb => t.node[v].size <= t.node[d].size

(* It is found among chunks that are good enough.                          *)
LEMMA BestAmong ==
    ASSUME NEW t, NEW q, NEW at, Good(t, q, at), NEW nb \in Word, nb # 0, NEW S \in SUBSET TreeOf(t),
           \A w \in TreeOf(t) : t.node[w].size >= nb => AsGood(t, S, nb, w)
    PROVE  /\ (\A d \in Chunk : ~(t.node[d].size >= nb)) => Best(t, S, nb) = Null
           /\ (\E d \in Chunk : t.node[d].size >= nb) => Fits(t, nb, Best(t, S, nb))
<1> DEFINE N == TreeOf(t)
           v == Best(t, S, nb)
<1>1. Trie(N, t.node, t.treebin, at) /\ Ringed(t.node, q) /\ N \subseteq Chunk
  BY DEF Good, TreeOf
<1>2. \A w \in N : t.node[w].size \in Sizes /\ t.node[w].size \in Nat /\ w \in Chunk
  BY <1>1, TrieFacts
<1>3. nb \in Nat
  BY WordFacts
<1>4. /\ (\A c \in S : ~(t.node[c].size >= nb)) => v = Null
      /\ (\E c \in S : t.node[c].size >= nb) =>
            /\ v \in S /\ t.node[v].size >= nb
            /\ \A d \in S : t.node[d].size >= nb => t.node[v].size <= t.node[d].size
  <2>1. S \in SUBSET Chunk /\ \A c \in S : t.node[c].size \in Sizes
    BY <1>1, <1>2
  <2> QED
    BY <2>1, BestIs
<1> HIDE DEF v
<1>5. ASSUME NEW d \in Chunk, t.node[d].size >= nb
      PROVE  /\ \E c \in S : t.node[c].size >= nb
             /\ t.node[v].size <= t.node[d].size
  <2>1. t.node[d].size \in Nat /\ t.node[d].size # 0
    <3>1. t.node[d].size = 0 \/ t.node[d].size \in Sizes
      BY <1>1 DEF Ringed
    <3>2. t.node[d].size \in Nat
      <4>1. Sizes \subseteq Nat
        BY WordFacts
      <4>2. 0 \in Nat
        OBVIOUS
      <4> QED
        BY ONLY <3>1, <4>1, <4>2, Zenon
    <3>3. nb > 0
      BY <1>3
    <3> QED
      BY <1>3, <1>5, <3>2, <3>3
  <2>2. t.node[d].size \in Sizes
    BY <1>1, <2>1 DEF Ringed
  <2>3. PICK w \in N : t.node[w].size = t.node[d].size
    BY <2>2, TreeRing
  <2>4. PICK x \in S : t.node[x].size >= nb /\ t.node[x].size <= t.node[w].size
    BY <1>5, <2>3 DEF AsGood
  <2>5. t.node[v].size <= t.node[x].size /\ v \in N /\ x \in N
    BY <1>4, <2>4
  <2> QED
    BY <1>2, <2>1, <2>3, <2>4, <2>5
<1>6. ASSUME \E d \in Chunk : t.node[d].size >= nb PROVE Fits(t, nb, v)
  <2>1. v \in S /\ t.node[v].size >= nb
    BY <1>4, <1>5, <1>6
  <2> QED
    BY <1>5, <2>1 DEF Fits
<1>7. ASSUME \A d \in Chunk : ~(t.node[d].size >= nb) PROVE v = Null
  BY <1>2, <1>4, <1>7
<1> QED
  BY <1>6, <1>7 DEF v

(* The first tree to the left of idx has a chunk that fits as well as any  *)
(* of a larger index does.                                                 *)
LEMMA NextTreeIs ==
    ASSUME NEW t, NEW N, NEW at, Trie(N, t.node, t.treebin, at), Bare(N, t.node),
           t.treemap = {i \in Index : t.treebin[i] # Null}, NEW s \in Sizes
    PROVE  LET r == NextTree(t, compute_tree_index(s)) IN
           /\ r = Null \/ r \in N
           /\ \A w \in N : compute_tree_index(s) < compute_tree_index(t.node[w].size) =>
                 r # Null /\ AsGood(t, Leftmost(t, r), s, w)
<1> DEFINE idx == compute_tree_index(s)
           left == left_bits(idx) \cap t.treemap
           r == NextTree(t, idx)
<1>1. left \in SUBSET Nat /\ left = {i \in Index : i > idx /\ t.treebin[i] # Null}
  BY DEF left_bits, Index
<1>2. r = IF left = {} THEN Null ELSE t.treebin[Min(left)]
  BY DEF NextTree, least_bit
<1> HIDE DEF left
<1>3. ASSUME left # {}
      PROVE  Min(left) \in left /\ \A i \in left : Min(left) <= i
  <2>1. \E x \in left : \A y \in left : x <= y
    BY <1>1, <1>3, LeastOf
  <2> QED
    BY <2>1 DEF Min
<1> HIDE DEF r
<1>4. r = Null \/ r \in N
  <2>1. CASE left # {}
    BY <1>1, <1>2, <1>3, <2>1 DEF Trie, RootsHold
  <2>2. CASE left = {}
    BY <1>2, <2>2
  <2> QED
    BY <2>1, <2>2
<1>5. ASSUME NEW w \in N, idx < compute_tree_index(t.node[w].size)
      PROVE  r # Null /\ AsGood(t, Leftmost(t, r), s, w)
  <2> DEFINE iw == compute_tree_index(t.node[w].size)
  <2>1. iw \in Index /\ t.treebin[iw] \in N /\ t.treebin[iw] # Null /\ Under(t.node, at, w, t.treebin[iw])
    BY TrieFacts, RootOf
  <2>2. iw \in left /\ iw \in Nat /\ idx \in Nat
    <3>1. iw > idx /\ iw \in Nat /\ idx \in Nat
      BY <1>5, <2>1, IndexFacts DEF Index
    <3> QED
      BY <1>1, <2>1, <3>1
  <2> DEFINE j == Min(left)
  <2>3. j \in left /\ j <= iw
    BY <1>3, <2>2
  <2> HIDE DEF j
  <2>4. /\ j \in Index /\ j > idx /\ t.treebin[j] # Null /\ r = t.treebin[j]
        /\ r \in N /\ compute_tree_index(t.node[r].size) = j /\ r # Null
    <3>1. j \in Index /\ j > idx /\ t.treebin[j] # Null /\ r = t.treebin[j]
      BY <1>1, <1>2, <2>3 DEF j
    <3> QED
      BY <3>1 DEF Trie, RootsHold
  <2>5. HasLeast(t, N, at, r)
    BY <2>4, LeftmostFacts
  <2>6. s \in Nat /\ \A x \in N : t.node[x].size \in Nat /\ t.node[x].size \in Sizes
    BY TrieFacts, WordFacts
  <2>7. idx < j /\ j \in Nat
    BY <1>1, <2>2, <2>3, <2>4
  <2> HIDE DEF idx, iw
  <2>8. ASSUME NEW x \in N, compute_tree_index(t.node[x].size) = j PROVE t.node[x].size >= s
    <3>1. compute_tree_index(s) < compute_tree_index(t.node[x].size)
      BY <2>7, <2>8 DEF idx
    <3>2. s < t.node[x].size
      BY <2>6, <3>1, IndexOrder
    <3> QED
      BY <2>6, <3>2
  <2>9. CASE j = iw
    <3>1. PICK x \in Leftmost(t, r) : t.node[x].size <= t.node[w].size
      BY <2>1, <2>4, <2>5, <2>9 DEF HasLeast
    <3>2. x \in N /\ Under(t.node, at, x, r)
      BY <2>5 DEF HasLeast
    <3>3. compute_tree_index(t.node[x].size) = j
      BY <2>4, <3>2 DEF Under, Agree
    <3> QED
      BY <2>4, <2>8, <3>1, <3>2, <3>3 DEF AsGood
  <2>10. CASE j # iw
    <3>1. compute_tree_index(t.node[r].size) < compute_tree_index(t.node[w].size)
      BY <2>2, <2>3, <2>4, <2>7, <2>10 DEF iw
    <3>2. t.node[r].size < t.node[w].size
      BY <2>4, <2>6, <3>1, IndexOrder
    <3>3. t.node[r].size <= t.node[w].size /\ t.node[r].size >= s
      BY <2>4, <2>6, <2>8, <3>2
    <3>4. r \in Leftmost(t, r)
      BY <2>5 DEF HasLeast
    <3> QED
      BY <2>4, <3>3, <3>4 DEF AsGood
  <2> QED
    BY <2>9, <2>10
<1> QED
  BY <1>4, <1>5 DEF r

(* The chunks that the search for s compares in the end.                   *)
Compared(t, s, P) ==
    LET rst  == DeepestUntaken(t, P)
        from == IF rst = Null /\ Best(t, Range(P), s) = Null THEN NextTree(t, compute_tree_index(s)) ELSE rst
    IN  Range(P) \cup Leftmost(t, from)

LEMMA ComparedEnough ==
    ASSUME NEW t, NEW N, NEW at, Trie(N, t.node, t.treebin, at), Bare(N, t.node), N \subseteq Chunk,
           t.treemap = {i \in Index : t.treebin[i] # Null}, NEW s \in Sizes, NEW P,
           Range(P) \subseteq N, \A k \in 1 .. Len(P) : P[k] \in Range(P),
           \/ t.treebin[compute_tree_index(s)] = Null /\ Range(P) = {} /\ DeepestUntaken(t, P) = Null
           \/ Searches(t, N, at, P, s) /\ t.node[P[Len(P)]].size # s
                /\ \A x \in Range(P) : compute_tree_index(t.node[x].size) = compute_tree_index(s)
    PROVE  /\ Compared(t, s, P) \subseteq N
           /\ \A w \in N : t.node[w].size >= s => AsGood(t, Compared(t, s, P), s, w)
<1> DEFINE idx == compute_tree_index(s)
           rst == DeepestUntaken(t, P)
           v == Best(t, Range(P), s)
           next == NextTree(t, idx)
           from == IF rst = Null /\ v = Null THEN next ELSE rst
           S == Compared(t, s, P)
<1>1. S = Range(P) \cup Leftmost(t, from)
  BY DEF Compared
<1>2. s \in Nat /\ s # 0 /\ s \in Word /\ \A x \in N : t.node[x].size \in Nat /\ t.node[x].size \in Sizes
  BY TrieFacts, WordFacts DEF Sizes
<1>3. /\ next = Null \/ next \in N
      /\ \A w \in N : idx < compute_tree_index(t.node[w].size) => next # Null /\ AsGood(t, Leftmost(t, next), s, w)
  BY NextTreeIs
<1>4. rst # Null => /\ rst \in N /\ Under(t.node, at, rst, rst) /\ s < t.node[rst].size
                    /\ compute_tree_index(t.node[rst].size) = idx
  <2> SUFFICES ASSUME rst # Null
               PROVE  /\ rst \in N /\ Under(t.node, at, rst, rst) /\ s < t.node[rst].size
                      /\ compute_tree_index(t.node[rst].size) = idx
    OBVIOUS
  <2>1. Searches(t, N, at, P, s) /\ t.node[P[Len(P)]].size # s
    OBVIOUS
  <2>0. LeavesAside(t, P, s)
    BY <2>1, AsideIs
  <2>2. Aside(t, P) # {}
    BY <2>0 DEF LeavesAside
  <2>3. PICK m \in Aside(t, P) : rst = t.node[P[m]].child[1]
    BY <2>0, <2>2 DEF LeavesAside
  <2>4. m \in 1 .. Len(P) /\ t.node[P[m]].child[1] # Null /\ Bit(s, m - 1) = 0
    BY <2>0 DEF LeavesAside
  <2> HIDE DEF rst
  <2>5. rst \in N /\ Under(t.node, at, rst, rst) /\ s < t.node[rst].size /\ Agree(t.node[rst].size, s, m - 1)
    <3>1. AllAbove(t, N, at, rst, s, m - 1)
      BY <2>1, <2>3, <2>4, RightOf
    <3> QED
      BY <3>1 DEF AllAbove
  <2> QED
    BY <2>5 DEF Agree
<1>5. /\ (\A c \in Range(P) : ~(t.node[c].size >= s)) => v = Null
      /\ (\E c \in Range(P) : t.node[c].size >= s) =>
            v \in Range(P) /\ t.node[v].size >= s
  <2>1. Range(P) \in SUBSET Chunk /\ \A c \in Range(P) : t.node[c].size \in Sizes
    BY <1>2
  <2> QED
    BY <1>2, <2>1, BestIs
<1> HIDE DEF S, rst, v, next
<1>6. from = Null \/ from \in N
  BY <1>3, <1>4
<1>7. Leftmost(t, Null) = {}
  BY LeftmostStep
<1>8. S \subseteq N
  <2>1. Leftmost(t, from) \subseteq N
    <3>1. CASE from \in N
      BY <3>1, LeftmostFacts DEF HasLeast
    <3>2. CASE from = Null
      BY <1>7, <3>2
    <3> QED
      BY <1>6, <3>1, <3>2
  <2> QED
    BY <1>1, <2>1
<1>9. ASSUME NEW w \in N, t.node[w].size >= s PROVE AsGood(t, S, s, w)
  <2> DEFINE iw == compute_tree_index(t.node[w].size)
  <2>1. iw \in Index /\ idx \in Index /\ iw \in Nat /\ idx \in Nat
    BY <1>2, IndexFacts DEF Index
  <2>2. ~(iw < idx)
    <3> SUFFICES ASSUME iw < idx PROVE FALSE
      OBVIOUS
    <3>1. t.node[w].size < s
      BY <1>2, IndexOrder
    <3> QED
      BY <1>2, <1>9, <3>1
  <2>3. ASSUME NEW x \in S, t.node[x].size >= s, t.node[x].size <= t.node[w].size
        PROVE  AsGood(t, S, s, w)
    BY <2>3 DEF AsGood
  <2>4. CASE iw = idx
    <3>1. t.treebin[idx] # Null
      BY <2>4, RootOf
    <3>2. Searches(t, N, at, P, s) /\ t.node[P[Len(P)]].size # s
      BY <3>1
    <3>3. \/ \E k \in 1 .. Len(P) : w = P[k]
          \/ rst # Null /\ AsGood(t, Leftmost(t, rst), s, w)
      BY <1>9, <2>4, <3>2, FitHere DEF rst
    <3>4. CASE \E k \in 1 .. Len(P) : w = P[k]
      <4>1. w \in S
        BY <1>1, <3>4
      <4> QED
        BY <1>2, <1>9, <2>3, <4>1
    <3>5. CASE rst # Null /\ AsGood(t, Leftmost(t, rst), s, w)
      BY <1>1, <2>3, <3>5 DEF AsGood
    <3> QED
      BY <3>3, <3>4, <3>5
  <2>5. CASE idx < iw
    <3>1. ASSUME NEW x \in S, x \in N, compute_tree_index(t.node[x].size) = idx, t.node[x].size >= s
          PROVE  AsGood(t, S, s, w)
      <4>1. t.node[x].size < t.node[w].size
        BY <1>2, <2>5, <3>1, IndexOrder
      <4> QED
        BY <1>2, <2>3, <3>1, <4>1
    <3>2. CASE rst # Null
      <4>1. rst \in Leftmost(t, rst)
        BY <1>4, <3>2, LeftmostFacts DEF HasLeast
      <4>2. rst \in S /\ t.node[rst].size >= s
        BY <1>1, <1>2, <1>4, <3>2, <4>1
      <4> QED
        BY <1>4, <3>1, <3>2, <4>2
    <3>3. CASE rst = Null /\ v # Null
      <4>1. v \in Range(P) /\ t.node[v].size >= s
        BY <1>5, <3>3
      <4>2. compute_tree_index(t.node[v].size) = idx
        BY <4>1
      <4> QED
        BY <1>1, <3>1, <4>1, <4>2
    <3>4. CASE rst = Null /\ v = Null
      BY <1>1, <1>3, <2>3, <2>5, <3>4 DEF AsGood
    <3> QED
      BY <3>2, <3>3, <3>4
  <2> QED
    BY <2>1, <2>2, <2>4, <2>5
<1> QED
  BY <1>8, <1>9 DEF S

LEMMA BestFitIs ==
    ASSUME NEW t, NEW q, NEW at, Good(t, q, at), NEW s \in Sizes
    PROVE  /\ (\A d \in Chunk : ~(t.node[d].size >= s)) => BestFit(t, s) = Null
           /\ (\E d \in Chunk : t.node[d].size >= s) => Fits(t, s, BestFit(t, s))
<1> DEFINE N == TreeOf(t)
           idx == compute_tree_index(s)
           root == t.treebin[idx]
           P == IF root = Null THEN <<>> ELSE SearchPath(t, s)
           v == Best(t, Range(P), s)
<1>1. Trie(N, t.node, t.treebin, at) /\ Bare(N, t.node) /\ Ringed(t.node, q) /\ N \subseteq Chunk
      /\ t.treemap = {i \in Index : t.treebin[i] # Null}
  BY DEF Good, TreeOf
<1>2. BestFit(t, s) = IF v # Null /\ t.node[v].size = s THEN v ELSE Best(t, Compared(t, s, P), s)
  BY DEF BestFit, Compared, SearchPath
<1>3. s \in Nat /\ s # 0 /\ s \in Word /\ \A x \in N : t.node[x].size \in Nat /\ t.node[x].size \in Sizes
  BY <1>1, TrieFacts, WordFacts DEF Sizes
<1>4. ASSUME root # Null
      PROVE  /\ Searches(t, N, at, P, s) /\ Len(P) \in Nat \ {0}
             /\ Range(P) = {P[k] : k \in 1 .. Len(P)} /\ Range(P) \subseteq N
             /\ \A k \in 1 .. Len(P) : compute_tree_index(t.node[P[k]].size) = idx
  <2>1. Searches(t, N, at, P, s)
    BY <1>1, <1>4, SearchIs
  <2> HIDE DEF P, N
  <2>2. P \in Seq(N) /\ Len(P) \in Nat \ {0} /\ \A k \in 1 .. Len(P) : P[k] \in N
    BY <2>1 DEF Searches
  <2>3. DOMAIN P = 1 .. Len(P)
    BY <2>2
  <2>4. \A k \in 1 .. Len(P) : compute_tree_index(t.node[P[k]].size) = idx
    BY <2>1 DEF Searches, Agree
  <2>5. Range(P) = {P[k] : k \in 1 .. Len(P)}
    BY <2>3 DEF Range
  <2> QED
    BY <2>1, <2>2, <2>4, <2>5
<1>5. ASSUME root = Null
      PROVE  Range(P) = {} /\ DeepestUntaken(t, P) = Null /\ Len(P) = 0
  <2>1. P = <<>> /\ DOMAIN P = {} /\ Len(P) = 0
    BY <1>5
  <2> HIDE DEF P
  <2>2. Range(P) = {}
    BY <2>1 DEF Range
  <2>3. DeepestUntaken(t, P) = Null
    BY <2>1 DEF DeepestUntaken
  <2> QED
    BY <2>1, <2>2, <2>3
<1> HIDE DEF P, N
<1>6. Range(P) \subseteq N /\ \A k \in 1 .. Len(P) : P[k] \in Range(P)
  BY <1>4, <1>5
<1>7. /\ (\A c \in Range(P) : ~(t.node[c].size >= s)) => v = Null
      /\ (\E c \in Range(P) : t.node[c].size >= s) =>
            /\ v \in Range(P) /\ t.node[v].size >= s
            /\ \A d \in Range(P) : t.node[d].size >= s => t.node[v].size <= t.node[d].size
  <2>1. Range(P) \in SUBSET Chunk /\ \A c \in Range(P) : t.node[c].size \in Sizes
    BY <1>1, <1>3, <1>6
  <2> QED
    BY <1>3, <2>1, BestIs
<1> HIDE DEF v
<1>8. CASE v # Null /\ t.node[v].size = s
  <2>1. v \in Range(P) /\ BestFit(t, s) = v
    BY <1>2, <1>7, <1>8
  <2>2. v \in N /\ v \in Chunk /\ t.node[v].size >= s
    BY <1>1, <1>3, <1>6, <1>8, <2>1
  <2>3. Fits(t, s, v)
    BY <1>8, <2>2 DEF Fits, N
  <2> QED
    BY <2>1, <2>2, <2>3
<1>9. CASE ~(v # Null /\ t.node[v].size = s)
  <2>1. BestFit(t, s) = Best(t, Compared(t, s, P), s)
    BY <1>2, <1>9
  <2>2. root # Null => t.node[P[Len(P)]].size # s
    <3> SUFFICES ASSUME root # Null, t.node[P[Len(P)]].size = s PROVE FALSE
      OBVIOUS
    <3>1. Len(P) \in 1 .. Len(P)
      BY <1>4
    <3>2. P[Len(P)] \in Range(P) /\ t.node[P[Len(P)]].size >= s
      BY <1>3, <1>6, <3>1
    <3>3. v \in Range(P) /\ t.node[v].size >= s /\ t.node[v].size <= s
      BY <1>7, <3>2
    <3>4. v \in N /\ v \in Chunk /\ v # Null
      BY <1>1, <1>6, <3>3, NotChunks
    <3> QED
      BY <1>3, <1>9, <3>3, <3>4
  <2>3. Compared(t, s, P) \subseteq N /\ \A w \in N : t.node[w].size >= s => AsGood(t, Compared(t, s, P), s, w)
    <3>1. \/ t.treebin[compute_tree_index(s)] = Null /\ Range(P) = {} /\ DeepestUntaken(t, P) = Null
          \/ Searches(t, N, at, P, s) /\ t.node[P[Len(P)]].size # s
                /\ \A x \in Range(P) : compute_tree_index(t.node[x].size) = compute_tree_index(s)
      BY <1>4, <1>5, <2>2
    <3> QED
      BY <1>1, <1>6, <3>1, ComparedEnough
  <2> QED
    BY <1>3, <2>1, <2>3, BestAmong DEF N
<1> QED
  BY <1>8, <1>9

(* The smallest chunk serves any request that is smaller.                  *)
LEMMA SmallestLargeIs ==
    ASSUME NEW t, NEW q, NEW at, Good(t, q, at), NEW nb \in Nat, nb # 0, nb < MinLarge, t.treemap # {}
    PROVE  Fits(t, nb, SmallestLarge(t, nb))
<1> DEFINE N == TreeOf(t)
           j == least_bit(t.treemap)
           r == t.treebin[j]
           S == Leftmost(t, r)
<1>1. Trie(N, t.node, t.treebin, at) /\ Bare(N, t.node) /\ N \subseteq Chunk
      /\ t.treemap = {i \in Index : t.treebin[i] # Null}
  BY DEF Good, TreeOf
<1>2. j \in t.treemap /\ \A i \in t.treemap : j <= i
  <2>1. t.treemap \in SUBSET Nat
    BY <1>1 DEF Index
  <2>2. \E x \in t.treemap : \A y \in t.treemap : x <= y
    BY <2>1, LeastOf
  <2> QED
    BY <2>2 DEF least_bit, Min
<1> HIDE DEF j
<1>3. r \in N /\ compute_tree_index(t.node[r].size) = j /\ j \in Index
  BY <1>1, <1>2 DEF Trie, RootsHold
<1>4. HasLeast(t, N, at, r)
  BY <1>1, <1>3, LeftmostFacts
<1>5. \A x \in N : t.node[x].size \in Nat /\ t.node[x].size \in Sizes /\ t.node[x].size >= nb
  BY <1>1, TrieFacts, WordFacts DEF Sizes
<1>6. nb \in Word
  BY <1>3, <1>5, WordFacts DEF Word, Sizes
<1>7. S \subseteq N /\ r \in S
  BY <1>4 DEF HasLeast
<1>8. ASSUME NEW w \in N PROVE AsGood(t, S, nb, w)
  <2> DEFINE iw == compute_tree_index(t.node[w].size)
  <2>1. iw \in Index /\ t.treebin[iw] # Null /\ Under(t.node, at, w, t.treebin[iw])
    BY <1>1, TrieFacts, RootOf
  <2>2. j <= iw /\ j \in Nat /\ iw \in Nat
    BY <1>1, <1>2, <1>3, <2>1 DEF Index
  <2> HIDE DEF iw
  <2>3. CASE j = iw
    <3>1. PICK x \in S : t.node[x].size <= t.node[w].size
      BY <1>4, <2>1, <2>3 DEF HasLeast
    <3> QED
      BY <1>5, <1>7, <3>1 DEF AsGood
  <2>4. CASE j # iw
    <3>1. t.node[r].size < t.node[w].size
      BY <1>3, <1>5, <2>2, <2>4, IndexOrder DEF iw
    <3>2. t.node[r].size <= t.node[w].size
      BY <1>3, <1>5, <3>1
    <3> QED
      BY <1>3, <1>5, <1>7, <3>2 DEF AsGood
  <2> QED
    BY <2>3, <2>4
<1>9. \E d \in Chunk : t.node[d].size >= nb
  BY <1>1, <1>3, <1>5
<1>10. SmallestLarge(t, nb) = Best(t, S, nb)
  BY DEF SmallestLarge, j
<1> HIDE DEF S
<1> QED
  BY <1>6, <1>7, <1>8, <1>9, <1>10, BestAmong

-----------------------------------------------------------------------------
(* The queues of LargeBins are read off the rings.                         *)

RingAt(c, f, i) ==
    IF i = 1 THEN CHOOSE x \in {y \in Chunk : c.nd[y].size = c.s} : c.nd[x].parent # Null
    ELSE c.nd[f[i - 1]].bk

Rings == INSTANCE StructureLemmas WITH
    Dom <- LAMBDA c : 1 .. c.n, Def <- LAMBDA c, f, i : RingAt(c, f, i),
    Rank <- LAMBDA c, i : i, ListHead <- Null

(* Ring(s), for the nodes nd.                                              *)
RingOf(nd, s) ==
    LET same == {c \in Chunk : nd[c].size = s}
        From[i \in 1 .. Cardinality(same)] ==
            IF i = 1 THEN CHOOSE c \in same : nd[c].parent # Null
                     ELSE nd[From[i - 1]].bk
    IN  From

(* The same, for n chunks of that size.                                    *)
RingOver(nd, s, n) ==
    LET From[i \in 1 .. n] ==
            IF i = 1 THEN CHOOSE c \in {x \in Chunk : nd[x].size = s} : nd[c].parent # Null
                     ELSE nd[From[i - 1]].bk
    IN  From

LEMMA RingSize ==
    ASSUME NEW nd, NEW q, Ringed(nd, q), NEW s \in Sizes
    PROVE  Cardinality({c \in Chunk : nd[c].size = s}) = Len(q[s])
<1> DEFINE same == {c \in Chunk : nd[c].size = s}
           n == Len(q[s])
           h == [i \in 1 .. n |-> q[s][i]]
<1>1. n \in Nat /\ (\A i \in 1 .. n : q[s][i] \in Chunk) /\ s # 0
  BY RingFacts
<1>2. Linked(nd, q[s], s)
  BY DEF Ringed
<1>3. \A c \in same : \E i \in 1 .. n : q[s][i] = c
  BY <1>1 DEF Ringed
<1> HIDE DEF n
<1>4. h \in [1 .. n -> same]
  BY <1>1, <1>2 DEF Linked, n
<1>5. \A i, j \in 1 .. n : h[i] = h[j] => i = j
  BY <1>2 DEF Linked, n
<1>6. \A c \in same : \E i \in 1 .. n : h[i] = c
  BY <1>3
<1> HIDE DEF h, same
<1>7. h \in Bijection(1 .. n, same)
  BY <1>4, <1>5, <1>6 DEF Bijection, Injection, Surjection, IsInjective
<1>8. ExistsBijection(1 .. n, same)
  BY <1>7 DEF ExistsBijection
<1>9. IsFiniteSet(1 .. n) /\ Cardinality(1 .. n) = n
  BY <1>1, FS_Interval
<1>10. Cardinality(same) = n
  BY <1>8, <1>9, FS_Bijection
<1> QED
  BY <1>10 DEF same, n

LEMMA RingIs ==
    ASSUME NEW t, NEW q, NEW at, Good(t, q, at), NEW s \in Sizes
    PROVE  RingOf(t.node, s) = q[s]
<1> DEFINE nd == t.node
           same == {c \in Chunk : nd[c].size = s}
           n == Len(q[s])
           c == [nd |-> nd, s |-> s, n |-> n]
           F == RingOver(c.nd, c.s, c.n)
<1>1. Ringed(nd, q) /\ Linked(nd, q[s], s) /\ q[s] \in Seq(Chunk)
  BY DEF Good, Ringed
<1>2. n \in Nat /\ \A i \in 1 .. n : q[s][i] \in Chunk
  BY <1>1, RingFacts
<1>3. Cardinality(same) = n
  BY <1>1, RingSize
<1>4. c.nd = nd /\ c.s = s /\ c.n = n
  OBVIOUS
<1> HIDE DEF c, n, nd
<1>5. Rings!Ranked(c)
  BY <1>2, <1>4 DEF Rings!Ranked
<1>6. Rings!Local(c)
  <2> SUFFICES ASSUME NEW g, NEW h, NEW i \in 1 .. n,
                      \A j \in 1 .. n : j < i => g[j] = h[j]
               PROVE  RingAt(c, g, i) = RingAt(c, h, i)
    BY <1>4 DEF Rings!Local
  <2>1. i # 1 => i - 1 \in 1 .. n /\ i - 1 < i
    BY <1>2
  <2> QED
    BY <2>1 DEF RingAt
<1>7. F = [i \in 1 .. n |-> RingAt(c, F, i)]
  <2>1. F = CHOOSE f : f = [i \in 1 .. c.n |-> RingAt(c, f, i)]
    BY Zenon DEF RingOver, RingAt
  <2> HIDE DEF F
  <2>2. F = [i \in 1 .. c.n |-> RingAt(c, F, i)]
    BY <1>5, <1>6, <2>1, Rings!RecursiveFunction
  <2> QED
    BY <1>4, <2>2
<1>8. RingOf(nd, s) = F
  <2>1. RingOf(nd, s) = RingOver(nd, s, Cardinality(same))
    BY Zenon DEF RingOf, RingOver
  <2> QED
    BY <1>3, <1>4, <2>1
<1> HIDE DEF F
<1>9. \A i \in 1 .. n : F[i] = RingAt(c, F, i)
  BY <1>7
<1>10. \A i \in 1 .. n : F[i] = q[s][i]
  <2> DEFINE B == {i \in 1 .. n : F[i] # q[s][i]}
  <2> SUFFICES ASSUME B # {} PROVE FALSE
    OBVIOUS
  <2>1. PICK i \in B : \A j \in B : i <= j
    <3>1. B \in SUBSET Nat
      BY <1>2
    <3> HIDE DEF B
    <3> QED
      BY <3>1, LeastOf
  <2>2. i \in 1 .. n /\ F[i] # q[s][i] /\ F[i] = RingAt(c, F, i)
    BY <1>9
  <2>3. CASE i = 1
    <3>1. F[i] = CHOOSE x \in same : nd[x].parent # Null
      BY <1>4, <2>2, <2>3 DEF RingAt
    <3>2. q[s][1] \in same /\ nd[q[s][1]].parent # Null
      BY <1>1, <1>2, <2>2, <2>3 DEF Linked, n
    <3>3. F[i] \in same /\ nd[F[i]].parent # Null
      BY <3>1, <3>2
    <3>4. F[i] \in TreeOf(t) /\ t.node[F[i]].size = s
      BY <3>3 DEF TreeOf, nd
    <3>5. F[i] = q[s][1]
      BY <3>4, TreeRing
    <3> QED
      BY <2>2, <2>3, <3>5
  <2>4. CASE i # 1
    <3>1. i - 1 \in 1 .. n /\ i - 1 < i /\ After(n, i - 1) = i
      BY <1>2, <2>2, <2>4 DEF After
    <3>2. i - 1 \notin B
      BY <1>2, <2>1, <2>2, <3>1
    <3>3. F[i - 1] = q[s][i - 1]
      BY <3>1, <3>2
    <3>4. F[i] = nd[F[i - 1]].bk
      BY <1>4, <2>2, <2>4 DEF RingAt
    <3>5. nd[q[s][i - 1]].bk = q[s][i]
      BY <1>1, <3>1 DEF Linked, n
    <3> QED
      BY <2>2, <3>3, <3>4, <3>5
  <2> QED
    BY <2>3, <2>4
<1>11. F = q[s]
  <2>1. DOMAIN q[s] = 1 .. n /\ q[s] = [i \in 1 .. n |-> q[s][i]]
    BY <1>1 DEF n
  <2>2. F = [i \in 1 .. n |-> F[i]]
    BY <1>7
  <2> QED
    BY <1>10, <2>1, <2>2
<1> QED
  BY <1>8, <1>11 DEF nd

LEMMA QueuesAre ==
    ASSUME NEW t, NEW q, NEW at, Good(t, q, at)
    PROVE  [s \in Sizes |-> RingOf(t.node, s)] = q
<1>1. q = [s \in Sizes |-> q[s]]
  BY DEF Good, Ringed
<1>2. \A s \in Sizes : RingOf(t.node, s) = q[s]
  BY RingIs
<1> QED
  BY <1>1, <1>2

-----------------------------------------------------------------------------
(* The steps of the specification, and what they are to the queues.        *)

(* What LargeBins says of a queue q and the next, q2.                      *)
Queued(q) == UNION {{q[s][i] : i \in DOMAIN q[s]} : s \in Sizes}

Inserts(q, q2) == \E c \in Chunk \ Queued(q), s \in Sizes : q2 = Bins!With(q, c, s)

Unlinks(q, q2) == \E c \in Queued(q) : q2 = Bins!Less(q, c)

Fitting(q, nb) == {s \in Sizes : s >= nb /\ q[s] # <<>>}

Takes(q, q2) ==
    \E nb \in Requests :
        LET best == Min(Fitting(q, nb))
            v    == Head(q[best])
        IN  /\ Fitting(q, nb) # {}
            /\ IF nb < MinLarge \/ best - nb < MinLarge
               THEN q2 = Bins!Less(q, v)
               ELSE \E r \in Chunk \ (Queued(q) \ {v}) : q2 = Bins!With(Bins!Less(q, v), r, best - nb)

Steps(q, q2) == Inserts(q, q2) \/ Unlinks(q, q2) \/ Takes(q, q2)

LEMMA QueuedIs ==
    ASSUME NEW t, NEW q, NEW at, Good(t, q, at)
    PROVE  Queued(q) = {c \in Chunk : t.node[c].size # 0}
<1>1. Ringed(t.node, q)
  BY DEF Good
<1>2. \A s \in Sizes : DOMAIN q[s] = 1 .. Len(q[s])
  BY <1>1, RingFacts
<1>3. ASSUME NEW c \in Chunk, t.node[c].size # 0
      PROVE  c \in Queued(q)
  <2>1. t.node[c].size \in Sizes /\ \E i \in 1 .. Len(q[t.node[c].size]) : q[t.node[c].size][i] = c
    BY <1>1, <1>3 DEF Ringed
  <2> QED
    BY <1>2, <2>1 DEF Queued
<1>4. ASSUME NEW c \in Queued(q)
      PROVE  c \in Chunk /\ t.node[c].size # 0
  <2>1. PICK s \in Sizes : \E i \in DOMAIN q[s] : c = q[s][i]
    BY DEF Queued
  <2>2. PICK i \in 1 .. Len(q[s]) : c = q[s][i]
    BY <1>2, <2>1
  <2>3. s # 0 /\ c \in Chunk
    BY <1>1, <2>2, RingFacts
  <2>4. t.node[c].size = s
    BY <1>1, <2>2 DEF Ringed, Linked
  <2> QED
    BY <2>3, <2>4
<1> QED
  BY <1>3, <1>4

(* The chunk that fits best is the head of the queue that LargeBins takes. *)
LEMMA HeadIs ==
    ASSUME NEW t, NEW q, NEW at, Good(t, q, at), NEW nb \in Nat, nb # 0, NEW v, Fits(t, nb, v)
    PROVE  /\ v \in Chunk /\ t.node[v].size \in Sizes /\ t.node[v].size \in Nat /\ t.node[v].size # 0
           /\ t.node[v].size >= nb
           /\ Fitting(q, nb) # {} /\ Min(Fitting(q, nb)) = t.node[v].size
           /\ Head(q[t.node[v].size]) = v
<1> DEFINE s == t.node[v].size
           fit == Fitting(q, nb)
<1>1. Trie(TreeOf(t), t.node, t.treebin, at) /\ Ringed(t.node, q)
  BY DEF Good
<1>2. v \in TreeOf(t) /\ s >= nb
  BY DEF Fits
<1>3. v \in Chunk /\ s \in Sizes /\ s \in Nat /\ s # 0
  BY <1>1, <1>2, TrieFacts, WordFacts DEF Sizes
<1>4. Len(q[s]) # 0 /\ v = q[s][1]
  BY <1>2, <1>3, TreeRing
<1> HIDE DEF s
<1>5. q[s] \in Seq(Chunk)
  BY <1>1, <1>3, RingFacts
<1>6. q[s] # <<>> /\ Head(q[s]) = v
  BY <1>4, <1>5
<1>7. s \in fit
  BY <1>2, <1>3, <1>6 DEF Fitting
<1>8. ASSUME NEW z \in fit PROVE s <= z
  <2>1. z \in Sizes /\ z >= nb /\ q[z] # <<>> /\ z \in Nat
    BY WordFacts DEF Fitting
  <2>2. q[z] \in Seq(Chunk) /\ Len(q[z]) # 0
    BY <1>1, <2>1, RingFacts, EmptySeq
  <2>3. q[z][1] \in Chunk /\ t.node[q[z][1]].size = z
    BY <2>1, <2>2, TreeRing DEF TreeOf
  <2> QED
    BY <2>1, <2>3 DEF Fits, s
<1>9. fit \subseteq Nat
  BY WordFacts DEF Fitting
<1> HIDE DEF fit
<1>10. Min(fit) = s
  <2>1. Min(fit) \in fit /\ \A y \in fit : Min(fit) <= y
    <3>1. \E x \in fit : \A y \in fit : x <= y
      BY <1>7, <1>8
    <3> QED
      BY <3>1 DEF Min
  <2>2. Min(fit) <= s /\ s <= Min(fit) /\ Min(fit) \in Nat
    BY <1>7, <1>8, <1>9, <2>1
  <2> QED
    BY <1>3, <2>2
<1> QED
  BY <1>2, <1>3, <1>6, <1>7, <1>10 DEF fit, s

LEMMA TreeIs ==
    ASSUME NEW t, NEW q, NEW at, Good(t, q, at), Becomes(t)
    PROVE  Tree' = t
<1>1. t = [node |-> t.node, treebin |-> t.treebin, treemap |-> t.treemap]
  BY DEF Good, IsState
<1> QED
  BY <1>1 DEF Becomes, Tree

LEMMA KeptIs ==
    ASSUME NEW q, NEW at, Good(Tree, q, at)
    PROVE  Kept = Queued(q) /\ Kept = {c \in Chunk : node[c].size # 0}
<1>1. Tree.node = node
  BY DEF Tree
<1>2. \A c \in Chunk : node[c] # NoNode <=> node[c].size # 0
  BY <1>1, NodeFacts DEF Good
<1> QED
  BY <1>1, <1>2, QueuedIs DEF Kept

LEMMA InsertStep ==
    ASSUME NEW q, NEW at, Good(Tree, q, at), NEW X \in Chunk, NEW S \in FreeSizes, Insert(X, S)
    PROVE  \E q2, at2 : Good(Tree', q2, at2) /\ Steps(q, q2)
<1>1. S \in Sizes
  BY TreeAssumption DEF TreeAssumption
<1>2. X \in Chunk \ Queued(q) /\ Tree.node[X].size = 0
  BY KeptIs DEF Insert, Tree
<1>3. PICK at2 : Good(insert_large_chunk(Tree, X, S), Bins!With(q, X, S), at2)
  BY <1>1, <1>2, InsertGood
<1>4. Tree' = insert_large_chunk(Tree, X, S)
  BY <1>3, TreeIs DEF Insert
<1>5. Steps(q, Bins!With(q, X, S))
  BY <1>1, <1>2 DEF Steps, Inserts
<1> QED
  BY <1>3, <1>4, <1>5

LEMMA UnlinkStep ==
    ASSUME NEW q, NEW at, Good(Tree, q, at), NEW X \in Chunk, Unlink(X)
    PROVE  \E q2, at2 : Good(Tree', q2, at2) /\ Steps(q, q2)
<1>1. X \in Queued(q) /\ Tree.node[X].size # 0
  BY KeptIs DEF Unlink, Tree
<1>2. PICK at2 : Good(unlink_large_chunk(Tree, X), Bins!Less(q, X), at2)
  BY <1>1, UnlinkGood
<1>3. Tree' = unlink_large_chunk(Tree, X)
  BY <1>2, TreeIs DEF Unlink
<1>4. Steps(q, Bins!Less(q, X))
  BY <1>1 DEF Steps, Unlinks
<1> QED
  BY <1>2, <1>3, <1>4

LEMMA RequestFacts ==
    ASSUME NEW nb \in Requests
    PROVE  nb \in Word /\ nb \in Nat /\ nb # 0 /\ (nb >= MinLarge => nb \in Sizes)
<1>1. nb \in MinChunk .. Two[Width] - 1
  BY TreeAssumption DEF TreeAssumption
<1> QED
  BY <1>1, WordFacts DEF MinChunk, Word, Sizes

LEMMA LargeStep ==
    ASSUME NEW q, NEW at, Good(Tree, q, at), NEW nb \in Requests, nb >= MinLarge,
           NEW dvsize \in VictimSizes, NEW r \in Chunk, tmalloc_large(nb, dvsize, r)
    PROVE  \E q2, at2 : Good(Tree', q2, at2) /\ Steps(q, q2)
<1> DEFINE t == Tree
           v == BestFit(t, nb)
           s == t.node[v].size
           rsize == Rem(t, v, nb)
           rest == unlink_large_chunk(t, v)
<1>1. nb \in Word /\ nb \in Nat /\ nb # 0 /\ nb \in Sizes
  BY RequestFacts
<1>2. v # Null /\ (r \notin Kept \/ r = v)
      /\ Becomes(IF rsize < MinLarge THEN rest ELSE insert_large_chunk(rest, r, rsize))
  BY DEF tmalloc_large, FitsBetter
<1>3. Fits(t, nb, v)
  BY <1>1, <1>2, BestFitIs
<1> HIDE DEF v
<1>4. /\ v \in Chunk /\ s \in Sizes /\ s \in Nat /\ s # 0 /\ s >= nb
      /\ Fitting(q, nb) # {} /\ Min(Fitting(q, nb)) = s /\ Head(q[s]) = v
  BY <1>1, <1>3, HeadIs
<1>5. rsize = s - nb /\ rsize \in Nat /\ (rsize >= MinLarge => rsize \in Sizes)
  <2>1. s \in Word
    BY <1>4, WordFacts
  <2>2. rsize = s - nb
    BY <1>1, <1>4, <2>1, WordDiff DEF Rem
  <2> HIDE DEF rsize
  <2> QED
    BY <1>1, <1>4, <2>1, <2>2, WordFacts DEF Sizes, Word
<1>6. Erased(t, v, rest) /\ \E at1 : Good(rest, Bins!Less(q, v), at1)
  BY <1>4, UnlinkGood
<1>7. PICK at1 : Good(rest, Bins!Less(q, v), at1)
  BY <1>6
<1> HIDE DEF rest, rsize, s
<1>8. CASE rsize < MinLarge
  <2>1. Tree' = rest
    BY <1>2, <1>7, <1>8, TreeIs
  <2>2. Takes(q, Bins!Less(q, v))
    BY <1>4, <1>5, <1>8 DEF Takes
  <2> QED
    BY <1>7, <2>1, <2>2 DEF Steps
<1>9. CASE ~(rsize < MinLarge)
  <2>1. rsize \in Sizes
    BY <1>5, <1>9, WordFacts
  <2>2. r \in Chunk \ (Queued(q) \ {v}) /\ rest.node[r].size = 0
    <3>1. r \notin Queued(q) \/ r = v
      BY <1>2, KeptIs
    <3>2. r # v => t.node[r].size = 0
      BY <3>1, QueuedIs
    <3> QED
      BY <1>6, <3>1, <3>2 DEF Erased
  <2>3. PICK at2 : Good(insert_large_chunk(rest, r, rsize), Bins!With(Bins!Less(q, v), r, rsize), at2)
    BY <1>7, <2>1, <2>2, InsertGood
  <2>4. Tree' = insert_large_chunk(rest, r, rsize)
    BY <1>2, <1>9, <2>3, TreeIs
  <2>5. Takes(q, Bins!With(Bins!Less(q, v), r, rsize))
    <3>1. ~(nb < MinLarge \/ s - nb < MinLarge)
      BY <1>1, <1>5, <1>9, WordFacts
    <3> QED
      BY <1>4, <1>5, <2>2, <3>1 DEF Takes
  <2> QED
    BY <2>3, <2>4, <2>5 DEF Steps
<1> QED
  BY <1>8, <1>9

LEMMA SmallStep ==
    ASSUME NEW q, NEW at, Good(Tree, q, at), NEW nb \in Requests, nb < MinLarge, tmalloc_small(nb)
    PROVE  \E q2, at2 : Good(Tree', q2, at2) /\ Steps(q, q2)
<1> DEFINE v == SmallestLarge(Tree, nb)
           s == Tree.node[v].size
<1>1. nb \in Nat /\ nb # 0 /\ Tree.treemap # {} /\ Becomes(unlink_large_chunk(Tree, v))
  BY RequestFacts DEF tmalloc_small, Tree
<1>2. Fits(Tree, nb, v)
  BY <1>1, SmallestLargeIs
<1> HIDE DEF v
<1>3. /\ v \in Chunk /\ s # 0
      /\ Fitting(q, nb) # {} /\ Min(Fitting(q, nb)) = s /\ Head(q[s]) = v
  BY <1>1, <1>2, HeadIs
<1>4. PICK at2 : Good(unlink_large_chunk(Tree, v), Bins!Less(q, v), at2)
  BY <1>3, UnlinkGood
<1>5. Tree' = unlink_large_chunk(Tree, v)
  BY <1>1, <1>4, TreeIs
<1>6. Steps(q, Bins!Less(q, v))
  BY <1>3 DEF Steps, Takes
<1> QED
  BY <1>4, <1>5, <1>6

LEMMA NextStep ==
    ASSUME NEW q, NEW at, Good(Tree, q, at), Next
    PROVE  \E q2, at2 : Good(Tree', q2, at2) /\ Steps(q, q2)
BY InsertStep, UnlinkStep, LargeStep, SmallStep DEF Next

(* The inductive invariant: the rings are some queues, and the chunks that *)
(* lead them have places in tries.                                         *)
IInv == \E q, at : Good(Tree, q, at)

LEMMA InitGood == Init => Good(Tree, [s \in Sizes |-> <<>>], [c \in Chunk |-> 0])
<1> SUFFICES ASSUME Init PROVE Good(Tree, [s \in Sizes |-> <<>>], [c \in Chunk |-> 0])
  OBVIOUS
<1> DEFINE t == Tree
           q == [s \in Sizes |-> <<>>]
           at == [c \in Chunk |-> 0]
<1>1. /\ \A c \in Chunk : t.node[c] = NoNode
      /\ \A i \in Index : t.treebin[i] = Null
      /\ t.treemap = {} /\ IsState(t)
  BY DEF Init, Tree, IsState
<1> HIDE DEF t
<1>2. \A c \in Chunk : t.node[c].size = 0 /\ t.node[c].parent = Null /\ \A b \in Side : t.node[c].child[b] = Null
  BY <1>1 DEF NoNode
<1>3. TreeOf(t) = {}
  BY <1>2 DEF TreeOf
<1>4. Trie({}, t.node, t.treebin, at)
  BY <1>1 DEF Trie, Bounded, RootsHold, ParentsHold, ChildrenHold
<1>5. Bare({}, t.node)
  BY <1>2 DEF Bare
<1>6. Ringed(t.node, q)
  <2>1. q \in [Sizes -> Seq(Chunk)] /\ \A s \in Sizes : q[s] = <<>>
    OBVIOUS
  <2> HIDE DEF q
  <2>2. \A s \in Sizes : Linked(t.node, q[s], s)
    BY <2>1 DEF Linked
  <2> QED
    BY <1>2, <2>1, <2>2 DEF Ringed
<1> HIDE DEF q, at
<1>7. Good(t, q, at)
  BY <1>1, <1>2, <1>3, <1>4, <1>5, <1>6 DEF Good
<1> QED
  BY <1>7 DEF t, q, at

LEMMA SameTree == UNCHANGED vars => Tree' = Tree
BY DEF vars, Tree

THEOREM Invariant == Spec => []IInv
<1>1. Init => IInv
  BY InitGood DEF IInv
<1>2. IInv /\ [Next]_vars => IInv'
  <2> SUFFICES ASSUME IInv, [Next]_vars PROVE IInv'
    OBVIOUS
  <2>1. PICK q, at : Good(Tree, q, at)
    BY DEF IInv
  <2>2. \E q2, at2 : Good(Tree', q2, at2)
    <3>1. CASE Next
      BY <2>1, <3>1, NextStep
    <3>2. CASE UNCHANGED vars
      BY <2>1, <3>2, SameTree
    <3> QED
      BY <3>1, <3>2
  <2> QED
    BY <2>2 DEF IInv
<1> QED
  BY <1>1, <1>2, PTL DEF Spec

-----------------------------------------------------------------------------
(* The refinement.                                                         *)

(* The queues that the rings of the state are.                             *)
Queues == [s \in Sizes |-> Ring(s)]

LEMMA QueuesNow ==
    ASSUME NEW q, NEW at, Good(Tree, q, at)
    PROVE  Queues = q
<1>1. Tree.node = node
  BY DEF Tree
<1>2. \A s \in Sizes : Ring(s) = RingOf(Tree.node, s)
  BY <1>1 DEF Ring, RingOf
<1>3. Queues = [s \in Sizes |-> RingOf(Tree.node, s)]
  BY <1>2 DEF Queues
<1> QED
  BY <1>3, QueuesAre

LEMMA QueuesNext ==
    ASSUME NEW q, NEW at, Good(Tree', q, at)
    PROVE  Queues' = q
<1>1. Tree'.node = node'
  BY DEF Tree
<1>2. \A s \in Sizes : Ring(s)' = RingOf(Tree'.node, s)
  BY <1>1 DEF Ring, RingOf
<1>3. Queues' = [s \in Sizes |-> RingOf(Tree'.node, s)]
  BY <1>2 DEF Queues
<1> QED
  BY <1>3, QueuesAre

(* A step between queues is a step of LargeBins.                           *)
LEMMA StepsAre == Steps(Queues, Queues') => Bins!Next
<1>1. Bins!Kept = Queued(Queues)
  BY DEF Bins!Kept, Queued, Queues
<1>2. Inserts(Queues, Queues') => Bins!Insert
  BY <1>1 DEF Inserts, Bins!Insert, Queues
<1>3. Unlinks(Queues, Queues') => Bins!Unlink
  BY <1>1 DEF Unlinks, Bins!Unlink, Queues
<1>4. Takes(Queues, Queues') => Bins!Take
  <2>1. \A S : Bins!Min(S) = Min(S)
    BY DEF Bins!Min, Min
  <2>2. ASSUME NEW nb \in Requests
        PROVE  {s \in Sizes : s >= nb /\ Queues[s] # <<>>} = Fitting(Queues, nb)
    BY DEF Fitting
  <2>3. Bins!Take <=>
          \E nb \in Requests :
              LET fit  == {s \in Sizes : s >= nb /\ Queues[s] # <<>>}
                  best == Bins!Min(fit)
                  v    == Head(Queues[best])
              IN  /\ fit # {}
                  /\ IF nb < MinLarge \/ best - nb < MinLarge
                     THEN Queues' = Bins!Less(Queues, v)
                     ELSE \E r \in Chunk \ (Bins!Kept \ {v}) :
                             Queues' = Bins!With(Bins!Less(Queues, v), r, best - nb)
    BY DEF Bins!Take, Queues
  <2> QED
    BY <1>1, <2>1, <2>2, <2>3 DEF Takes
<1> QED
  BY <1>2, <1>3, <1>4 DEF Steps, Bins!Next

(* The tries implement bins with one queue for each size (dlmalloc.c:930,  *)
(* 941 and 3104): a chunk that is freed joins the queue of its size, and a *)
(* request takes the oldest chunk of the smallest size that is enough.     *)
THEOREM Refinement == Spec => BinsKept
<1>1. Init => Bins!Init
  <2> SUFFICES ASSUME Init PROVE Bins!Init
    OBVIOUS
  <2>1. Queues = [s \in Sizes |-> <<>>]
    BY InitGood, QueuesNow
  <2> QED
    BY <2>1 DEF Bins!Init, Queues
<1>2. IInv /\ [Next]_vars => [Bins!Next]_Queues
  <2> SUFFICES ASSUME IInv, [Next]_vars PROVE [Bins!Next]_Queues
    OBVIOUS
  <2>1. PICK q, at : Good(Tree, q, at)
    BY DEF IInv
  <2>2. Queues = q
    BY <2>1, QueuesNow
  <2>3. CASE Next
    <3>1. PICK q2, at2 : Good(Tree', q2, at2) /\ Steps(q, q2)
      BY <2>1, <2>3, NextStep
    <3>2. Queues' = q2
      BY <3>1, QueuesNext
    <3> QED
      BY <2>2, <3>1, <3>2, StepsAre
  <2>4. CASE UNCHANGED vars
    <3>1. Queues' = q
      BY <2>1, <2>4, SameTree, QueuesNext
    <3> QED
      BY <2>2, <3>1
  <2> QED
    BY <2>3, <2>4
<1>3. IInv /\ [Next]_vars => [Bins!Next]_[s \in Sizes |-> Ring(s)]
  BY <1>2 DEF Queues
<1> QED
  BY <1>1, <1>3, Invariant, PTL DEF Spec, BinsKept, Bins!Spec

-----------------------------------------------------------------------------
(* The types.                                                              *)

(* Every field has its type, and only what is in a bin has fields          *)
(* (dlmalloc.c:944, the fields of a tree chunk).                           *)
THEOREM TypesHold == Spec => []TypeOK
<1>1. IInv => TypeOK
  <2> SUFFICES ASSUME NEW q, NEW at, Good(Tree, q, at) PROVE TypeOK
    BY DEF IInv
  <2>1. Tree.node = node /\ Tree.treebin = treebin /\ Tree.treemap = treemap
    BY DEF Tree
  <2>2. IsState(Tree)
    BY DEF Good
  <2> QED
    BY <2>1, <2>2 DEF TypeOK, IsState, Fields
<1> QED
  BY <1>1, Invariant, PTL

(* What is unsigned in the comparison: the difference to the chunk that    *)
(* was found is below that to the victim just if the victim is too small   *)
(* or larger.                                                              *)
LEMMA Weighed ==
    ASSUME NEW q, NEW at, Good(Tree, q, at), NEW nb \in Requests, nb >= MinLarge,
           NEW dvsize \in VictimSizes
    PROVE  LET fit == {node[c].size : c \in {d \in Kept : node[d].size >= nb}}
           IN  FitsBetter(Tree, BestFit(Tree, nb), nb, dvsize) <=>
                   fit # {} /\ (dvsize < nb \/ Min(fit) < dvsize)
<1> DEFINE fit == {node[c].size : c \in {d \in Kept : node[d].size >= nb}}
           v == BestFit(Tree, nb)
           s == Tree.node[v].size
<1>1. nb \in Word /\ nb \in Nat /\ nb # 0 /\ nb \in Sizes /\ dvsize \in Word /\ dvsize \in Nat
  BY RequestFacts, TreeAssumption, WordFacts DEF TreeAssumption
<1>2. Tree.node = node /\ Kept = {c \in Chunk : node[c].size # 0}
  BY KeptIs DEF Tree
<1>3. fit = Fitting(q, nb)
  <2>1. Ringed(node, q)
    BY <1>2 DEF Good
  <2>2. ASSUME NEW c \in Kept, node[c].size >= nb
        PROVE  node[c].size \in Fitting(q, nb)
    <3>1. node[c].size \in Sizes /\ \E i \in 1 .. Len(q[node[c].size]) : q[node[c].size][i] = c
      BY <1>2, <2>1 DEF Ringed
    <3>2. q[node[c].size] # <<>>
      <4>1. Len(q[node[c].size]) # 0
        BY <3>1
      <4> QED
        BY <4>1
    <3> QED
      BY <2>2, <3>1, <3>2 DEF Fitting
  <2>3. ASSUME NEW z \in Fitting(q, nb)
        PROVE  \E c \in Kept : node[c].size >= nb /\ z = node[c].size
    <3>1. z \in Sizes /\ z >= nb /\ q[z] # <<>>
      BY DEF Fitting
    <3>2. q[z] \in Seq(Chunk) /\ Len(q[z]) # 0 /\ z # 0
      BY <2>1, <3>1, RingFacts, EmptySeq
    <3>3. q[z][1] \in Chunk /\ node[q[z][1]].size = z
      BY <1>2, <3>1, <3>2, TreeRing DEF TreeOf
    <3> QED
      BY <1>2, <3>1, <3>2, <3>3
  <2> QED
    BY <2>2, <2>3
<1>4. CASE \A d \in Chunk : ~(node[d].size >= nb)
  <2>1. v = Null
    BY <1>1, <1>2, <1>4, BestFitIs
  <2>2. fit = {}
    BY <1>2, <1>4
  <2> QED
    BY <2>1, <2>2 DEF FitsBetter
<1>5. CASE \E d \in Chunk : node[d].size >= nb
  <2>1. Fits(Tree, nb, v)
    BY <1>1, <1>2, <1>5, BestFitIs
  <2> HIDE DEF v, fit
  <2>2. v \in Chunk /\ s \in Sizes /\ s \in Nat /\ s >= nb /\ fit # {} /\ Min(fit) = s
    BY <1>1, <1>3, <2>1, HeadIs
  <2>3. v # Null /\ s \in Word
    BY <2>2, NotChunks, WordFacts
  <2>4. Rem(Tree, v, nb) = s - nb
    BY <1>1, <2>2, <2>3, WordDiff DEF Rem
  <2>5. (dvsize - nb) % Two[Width] = IF dvsize >= nb THEN dvsize - nb ELSE Two[Width] + dvsize - nb
    BY <1>1, WordDiff
  <2> HIDE DEF s
  <2>6. s < Two[Width] /\ Two[Width] \in Nat
    BY <2>3, WordFacts DEF Word
  <2>7. s - nb < (dvsize - nb) % Two[Width] <=> dvsize < nb \/ s < dvsize
    BY <1>1, <2>2, <2>5, <2>6
  <2> QED
    BY <2>2, <2>3, <2>4, <2>7 DEF FitsBetter, v, fit
<1> QED
  BY <1>4, <1>5

(* dlmalloc.c:3104: a chunk of the trees is taken for a large request just *)
(* if one fits, and dv does not or fits less closely.                      *)
THEOREM VictimsWeighed == Spec => []VictimWeighed
<1>1. IInv => VictimWeighed
  BY Weighed DEF IInv, VictimWeighed
<1> QED
  BY <1>1, Invariant, PTL

-----------------------------------------------------------------------------
(* Every chunk is found.                                                   *)

(* From the first of a ring fd leads to the last, and so on to all others. *)
LEMMA RingClosed ==
    ASSUME NEW t, NEW q, NEW at, Good(t, q, at), NEW s \in Sizes, NEW S, q[s][1] \in S,
           \A u \in S : t.node[u].fd \in S, NEW i \in 1 .. Len(q[s])
    PROVE  q[s][i] \in S
<1> DEFINE r == q[s]
           n == Len(r)
           E == {m \in Nat : n - m \in 1 .. n /\ r[n - m] \notin S}
<1>1. n \in Nat /\ Linked(t.node, r, s)
  BY RingFacts DEF Good, Ringed
<1> HIDE DEF r, n
<1>2. \A j \in 1 .. n : t.node[r[j]].fd = r[Before(n, j)]
  BY <1>1 DEF Linked, n
<1>3. SUFFICES ASSUME r[i] \notin S PROVE FALSE
  BY DEF r
<1>4. i \in 1 .. n
  BY DEF n, r
<1>5. n - i \in E
  <2>1. n - i \in Nat /\ n - (n - i) = i
    BY <1>1, <1>4
  <2> QED
    BY <1>3, <1>4, <2>1
<1>6. PICK m \in E : \A k \in E : m <= k
  <2>1. E \in SUBSET Nat /\ E # {}
    BY <1>5
  <2> HIDE DEF E
  <2> QED
    BY <2>1, LeastOf
<1>7. PICK j \in 1 .. n : j = n - m /\ r[j] \notin S /\ m \in Nat
  OBVIOUS
<1>8. j # 1
  BY <1>7 DEF r
<1>9. CASE j = n
  <2>1. 1 \in 1 .. n /\ Before(n, 1) = j
    BY <1>1, <1>7, <1>9 DEF Before
  <2>2. r[1] \in S
    BY DEF r
  <2> QED
    BY <1>2, <1>7, <2>1, <2>2
<1>10. CASE j # n
  <2>1. j + 1 \in 1 .. n /\ Before(n, j + 1) = j /\ m - 1 \in Nat /\ n - (m - 1) = j + 1 /\ m - 1 < m
    BY <1>1, <1>7, <1>10 DEF Before
  <2>2. m - 1 \notin E
    BY <1>6, <1>7, <2>1
  <2>3. r[j + 1] \in S
    BY <2>1, <2>2
  <2> QED
    BY <1>2, <1>7, <2>1, <2>3
<1> QED
  BY <1>9, <1>10

LEMMA Found ==
    ASSUME NEW q, NEW at, Good(Tree, q, at), NEW x \in Kept
    PROVE  bin_find(x)
<1> DEFINE s == node[x].size
           i == node[x].index
           P == SearchPath(Tree, s)
           h == q[s][1]
           N == TreeOf(Tree)
           t == P[Len(P)]
<1>1. Tree.node = node /\ Tree.treebin = treebin /\ Tree.treemap = treemap
  BY DEF Tree
<1>2. x \in Chunk /\ Tree.node[x].size # 0 /\ s # 0
  BY <1>1, KeptIs
<1>3. i = compute_tree_index(s)
  BY <1>1, <1>2 DEF Good
<1>4. PICK z \in Sizes : \E j \in 1 .. Len(q[z]) : InRing(Tree, q, x, z, j)
  BY <1>2, RingPlace
<1>5. s \in Sizes /\ \E j \in 1 .. Len(q[s]) : x = q[s][j]
  BY <1>1, <1>4 DEF InRing
<1>6. Len(q[s]) # 0
  BY <1>1, <1>2, <1>5, TreeRing
<1>7. h \in N /\ Tree.node[h].size = s
  BY <1>5, <1>6, TreeRing
<1>8. Trie(N, Tree.node, Tree.treebin, at) /\ Bare(N, Tree.node)
      /\ Tree.treemap = {j \in Index : Tree.treebin[j] # Null}
  BY DEF Good
<1> HIDE DEF N, h, s, i, P
<1>9. Tree.treebin[i] # Null /\ i \in Index
  BY <1>3, <1>7, <1>8, RootOf, TrieFacts
<1>10. i \in treemap
  BY <1>1, <1>8, <1>9
<1>11. Searches(Tree, N, at, P, s)
  BY <1>3, <1>5, <1>8, <1>9, SearchIs DEF P
<1>12. Tree.node[t].size = s
  BY <1>5, <1>7, <1>8, <1>11, SearchFinds
<1>13. t \in N
  <2>1. Len(P) \in 1 .. Len(P)
    BY <1>11 DEF Searches
  <2> QED
    BY <1>11, <2>1 DEF Searches
<1> HIDE DEF t
<1>14. t = h
  BY <1>5, <1>12, <1>13, TreeRing DEF N, h
<1>15. ASSUME NEW S \in SUBSET Kept, t \in S, \A u \in S : node[u].fd \in S
       PROVE  x \in S
  <2>1. PICK j \in 1 .. Len(q[s]) : x = q[s][j]
    BY <1>5
  <2>2. q[s][1] \in S /\ \A u \in S : Tree.node[u].fd \in S
    BY <1>1, <1>14, <1>15 DEF h
  <2> QED
    BY <1>5, <2>1, <2>2, RingClosed
<1>16. P = Path(Tree, treebin[i], ShiftLeft(s, leftshift_for_tree_index(i)), s)
  BY <1>1, <1>3 DEF P, SearchPath
<1> QED
  BY <1>1, <1>10, <1>12, <1>15, <1>16 DEF bin_find, s, i, t

(* dlmalloc.c:2018: the bits of the size of a chunk in the bins lead to a  *)
(* chunk of that size, and its ring to the chunk.                          *)
THEOREM AllFound == Spec => []Findable
<1>1. IInv => Findable
  BY Found DEF IInv, Findable
<1> QED
  BY <1>1, Invariant, PTL

-----------------------------------------------------------------------------
(* The checks of the code.                                                 *)

ChildrenOf(nd, f, u) == UNION {f[nd[u].child[b]] : b \in Side}

BelowOf(c, f, u) == IF u = Null THEN {} ELSE {u} \cup ChildrenOf(c.t.node, f, u)

Subtrees == INSTANCE StructureLemmas WITH
    Dom <- LAMBDA c : Chunk \cup {Null}, Def <- LAMBDA c, f, u : BelowOf(c, f, u),
    Rank <- LAMBDA c, u : Left(c, u), ListHead <- Null

LEMMA BelowStep ==
    ASSUME NEW N, NEW at, Trie(N, node, treebin, at), Bare(N, node)
    PROVE  /\ Below(Null) = {}
           /\ \A u \in Chunk : Below(u) = {u} \cup UNION {Below(node[u].child[b]) : b \in Side}
<1>1. Tree.node = node /\ Tree.treebin = treebin
  BY DEF Tree
<1>2. PICK D \in Nat : Walkable([t |-> Tree, N |-> N, at |-> at, D |-> D, s |-> 0])
  BY <1>1, Walks
<1> DEFINE c == [t |-> Tree, N |-> N, at |-> at, D |-> D, s |-> 0]
           F == CHOOSE f : f = [v \in Chunk \cup {Null} |-> BelowOf(c, f, v)]
<1>3. c.t.node = node
  BY <1>1
<1> HIDE DEF c
<1>4. ASSUME NEW v \in Chunk \cup {Null}, v # Null, NEW b \in Side
      PROVE  c.t.node[v].child[b] \in Chunk \cup {Null} /\ Left(c, c.t.node[v].child[b]) < Left(c, v)
  BY <1>2, <1>4, WalkFacts DEF c
<1>5. Subtrees!Ranked(c)
  BY <1>2, WalkFacts DEF Subtrees!Ranked, c
<1>6. Subtrees!Local(c)
  <2> SUFFICES ASSUME NEW f, NEW g, NEW u \in Chunk \cup {Null},
                      \A v \in Chunk \cup {Null} : Left(c, v) < Left(c, u) => f[v] = g[v]
               PROVE  BelowOf(c, f, u) = BelowOf(c, g, u)
    BY DEF Subtrees!Local
  <2>1. u # Null => \A b \in Side : f[c.t.node[u].child[b]] = g[c.t.node[u].child[b]]
    BY <1>4
  <2> QED
    BY <2>1 DEF BelowOf, ChildrenOf
<1>7. F = [v \in Chunk \cup {Null} |-> BelowOf(c, F, v)]
  BY <1>5, <1>6, Subtrees!RecursiveFunction
<1>8. ASSUME NEW v PROVE Below(v) = F[v]
  BY <1>3 DEF Below, BelowOf, ChildrenOf
<1> HIDE DEF F
<1>9. (\A u \in Chunk : F[u] = BelowOf(c, F, u)) /\ F[Null] = BelowOf(c, F, Null)
  BY <1>7
<1>10. Null \notin Chunk
  BY NotChunks
<1>11. F[Null] = {} /\ \A u \in Chunk : F[u] = {u} \cup ChildrenOf(node, F, u)
  BY <1>3, <1>9, <1>10 DEF BelowOf
<1>12. F[Null] = {} /\ \A u \in Chunk : F[u] = {u} \cup UNION {F[node[u].child[b]] : b \in Side}
  BY <1>11 DEF ChildrenOf
<1> QED
  BY <1>8, <1>12

LEMMA BelowIsUnder ==
    ASSUME NEW N, NEW at, Trie(N, node, treebin, at), Bare(N, node), NEW u \in N
    PROVE  \A w \in Below(u) : w \in N /\ Under(node, at, w, u)
<1> DEFINE Inside(v) == \A w \in Below(v) : w \in N /\ Under(node, at, w, v)
           B == {v \in N : ~Inside(v)}
<1> SUFFICES ASSUME B # {} PROVE FALSE
  OBVIOUS
<1>1. PICK y \in B : \A z \in B : at[z] <= at[y]
  <2>1. B \in SUBSET N
    OBVIOUS
  <2> HIDE DEF B
  <2> QED
    BY <2>1, Lowest
<1>2. y \in N /\ ~Inside(y)
  OBVIOUS
<1>3. PICK w \in Below(y) : ~(w \in N /\ Under(node, at, w, y))
  BY <1>2
<1>4. y \in Chunk /\ at[y] \in Nat
  BY <1>2, TrieFacts
<1>5. w # y
  BY <1>2, <1>3, <1>4, AgreeFacts DEF Under
<1>6. PICK b \in Side : w \in Below(node[y].child[b])
  BY <1>3, <1>4, <1>5, BelowStep
<1> DEFINE x == node[y].child[b]
<1>7. x # Null
  BY <1>6, BelowStep
<1>8. x \in N /\ at[x] = at[y] + 1 /\ \A z \in N : Under(node, at, z, x) => Under(node, at, z, y)
  BY <1>2, <1>7, ChildFacts
<1> HIDE DEF x, Inside
<1>9. x \notin B
  BY <1>1, <1>4, <1>8
<1>10. Inside(x)
  BY <1>8, <1>9
<1> QED
  BY <1>3, <1>6, <1>8, <1>10 DEF Inside, x

(* What is below the left child is smaller than what is below the right.   *)
LEMMA LeftIsLess ==
    ASSUME NEW N, NEW at, Trie(N, node, treebin, at), Bare(N, node), NEW u \in N,
           NEW c \in Below(node[u].child[0]), NEW d \in Below(node[u].child[1])
    PROVE  node[c].size < node[d].size
<1> DEFINE x == node[u].child[0]
           y == node[u].child[1]
<1>1. x # Null /\ y # Null
  BY BelowStep
<1>2. 0 \in Side /\ 1 \in Side /\ at[u] \in Nat
  BY NotChunks, TrieFacts
<1>3. /\ x \in N /\ \A w \in N : Under(node, at, w, x) => Under(node, at, w, u) /\ Bit(node[w].size, at[u]) = 0
      /\ y \in N /\ \A w \in N : Under(node, at, w, y) => Under(node, at, w, u) /\ Bit(node[w].size, at[u]) = 1
  BY <1>1, <1>2, ChildFacts
<1> HIDE DEF x, y
<1>4. c \in Below(x) /\ d \in Below(y)
  BY DEF x, y
<1>5. c \in N /\ Under(node, at, c, x) /\ d \in N /\ Under(node, at, d, y)
  BY <1>3, <1>4, BelowIsUnder
<1>6. /\ Agree(node[c].size, node[u].size, at[u]) /\ Bit(node[c].size, at[u]) = 0
      /\ Agree(node[d].size, node[u].size, at[u]) /\ Bit(node[d].size, at[u]) = 1
  BY <1>3, <1>5 DEF Under
<1>7. Agree(node[c].size, node[d].size, at[u])
  BY <1>6, AgreeFacts
<1>8. node[c].size \in Sizes /\ node[d].size \in Sizes
  BY <1>5, TrieFacts
<1> QED
  BY <1>2, <1>6, <1>7, <1>8, BitOrder

LEMMA ChecksPass ==
    ASSUME NEW q, NEW at, Good(Tree, q, at), NEW u \in Kept
    PROVE  do_check_tree(u)
<1> DEFINE n == node[u]
           N == TreeOf(Tree)
           s == n.size
<1>1. Tree.node = node /\ Tree.treebin = treebin /\ Tree.treemap = treemap
  BY DEF Tree
<1>2. u \in Chunk /\ s # 0 /\ \A c \in Chunk : c \in Kept <=> node[c].size # 0
  BY KeptIs
<1>3. PICK z \in Sizes : \E j \in 1 .. Len(q[z]) : InRing(Tree, q, u, z, j)
  BY <1>1, <1>2, RingPlace
<1>4. PICK j \in 1 .. Len(q[z]) : InRing(Tree, q, u, z, j)
  BY <1>3
<1>5. z = s /\ s \in Sizes
  BY <1>1, <1>4 DEF InRing
<1>6. n.index = compute_tree_index(s)
  BY <1>1, <1>2 DEF Good
<1>7. Ringed(node, q) /\ Trie(N, node, treebin, at) /\ Bare(N, node) /\ IsState(Tree)
  BY <1>1 DEF Good
<1>8. N = {c \in Chunk : node[c].parent # Null}
  BY <1>1 DEF TreeOf
<1>9. n.index \in Index /\ minsize_for_tree_index(n.index) <= s
      /\ (n.index = NTreeBins - 1 \/ s < minsize_for_tree_index(n.index + 1))
  BY <1>5, <1>6, IndexFacts
<1>10. n.size >= minsize_for_tree_index(n.index)
  BY <1>9
<1>11. /\ n.fd \in Kept /\ node[n.fd].bk = u /\ node[n.fd].size = n.size
       /\ n.bk \in Kept /\ node[n.bk].fd = u
  <2> DEFINE r == q[s]
             m == Len(r)
  <2>1. Linked(node, r, s) /\ j \in 1 .. m /\ u = r[j] /\ m \in Nat
    BY <1>4, <1>5, <1>7 DEF Ringed, InRing
  <2>2. \A k \in 1 .. m : r[k] \in Chunk
    BY <1>5, <1>7, RingFacts
  <2> HIDE DEF r, m, n, s
  <2> DEFINE a == After(m, j)
             b == Before(m, j)
  <2>3. a \in 1 .. m /\ b \in 1 .. m /\ Before(m, a) = j /\ After(m, b) = j
    BY <2>1 DEF After, Before
  <2>4. \A k \in 1 .. m : node[r[k]].size = s /\ node[r[k]].bk = r[After(m, k)] /\ node[r[k]].fd = r[Before(m, k)]
    BY <2>1 DEF Linked, m
  <2>5. n.bk = r[a] /\ n.fd = r[b]
    BY <2>1, <2>4 DEF n
  <2> HIDE DEF a, b
  <2>6. node[r[b]].bk = u /\ node[r[a]].fd = u /\ node[r[b]].size = s /\ node[r[a]].size = s
    BY <2>1, <2>3, <2>4 DEF a, b
  <2>7. r[a] \in Kept /\ r[b] \in Kept
    BY <1>2, <2>2, <2>3, <2>6
  <2> QED
    BY <2>5, <2>6, <2>7 DEF s
<1>12. n.parent = Null => n.child = NoNode.child
  <2> SUFFICES ASSUME n.parent = Null PROVE n.child = [b \in Side |-> Null]
    BY DEF NoNode
  <2>1. u \notin N
    BY <1>8
  <2>2. \A b \in Side : n.child[b] = Null
    BY <1>2, <1>7, <2>1 DEF Bare
  <2>3. n.child \in [Side -> Chunk \cup {Null}]
    BY <1>1, <1>2, <1>7, NodeFacts
  <2> QED
    BY <2>2, <2>3
<1>13. /\ n.parent = Root => treebin[n.index] = u
       /\ n.parent \in Chunk => \E b \in Side : node[n.parent].child[b] = u
  <2> SUFFICES ASSUME n.parent # Null
               PROVE  /\ n.parent = Root => treebin[n.index] = u
                      /\ n.parent \in Chunk => \E b \in Side : node[n.parent].child[b] = u
    BY NotChunks
  <2>1. u \in N
    BY <1>2, <1>8
  <2>2. /\ treebin[n.index] = u => n.parent = Root
        /\ treebin[n.index] # u => n.parent \in N
        /\ treebin[n.index] # u => \E e \in Side : node[n.parent].child[e] = u
    <3>1. Trie(N, Tree.node, Tree.treebin, at) /\ n.parent = Tree.node[u].parent
          /\ n.index = compute_tree_index(Tree.node[u].size)
      BY <1>1, <1>6, <1>7
    <3> HIDE DEF N, n
    <3>2. IsLinked(Tree, N, u, n.parent, n.index)
      BY <2>1, <3>1, ParentLink
    <3>3. /\ Tree.treebin[n.index] = u => n.parent = Root
          /\ Tree.treebin[n.index] # u => n.parent \in N
          /\ Tree.treebin[n.index] # u => \E e \in Side : Tree.node[n.parent].child[e] = u
      BY <3>2 DEF IsLinked
    <3> QED
      BY <1>1, <3>3
  <2> QED
    BY <1>8, <2>2, NotChunks
<1>14. ASSUME NEW b \in Side, n.child[b] # Null
       PROVE  n.child[b] \in Kept \ {u} /\ node[n.child[b]].parent = u
  <2>1. u \in N
    BY <1>2, <1>7, <1>14 DEF Bare
  <2>2. n.child[b] \in N /\ node[n.child[b]].parent = u /\ at[n.child[b]] = at[u] + 1
    BY <1>7, <1>14, <2>1, ChildFacts
  <2> DEFINE x == n.child[b]
  <2>3. at[u] \in Nat /\ node[x].size \in Nat /\ node[x].size \in Sizes /\ x \in Chunk
    BY <1>7, <2>1, <2>2, TrieFacts
  <2>4. node[x].size # 0 /\ x # u
    <3>1. x # u
      BY <2>2, <2>3
    <3> HIDE DEF x, n, N
    <3>2. 0 \notin Sizes
      BY WordFacts DEF Sizes
    <3> QED
      BY <2>3, <3>1, <3>2
  <2>5. x \in Kept
    BY <1>2, <2>3, <2>4
  <2> QED
    BY <2>2, <2>4, <2>5
<1> HIDE DEF N
<1> QED
  BY <1>6, <1>9, <1>10, <1>11, <1>12, <1>13, <1>14 DEF do_check_tree

(* dlmalloc.c:1880-1938 and 941: parents and children agree, each chunk    *)
(* lies in the bin of its size, a ring holds one size and has one chunk in *)
(* the tree, left subtrees hold what is smaller, and the map marks the     *)
(* trees that are not empty.                                               *)
THEOREM TreesAreTries == Spec => []TreeIsTrie
<1>1. ASSUME NEW q, NEW at, Good(Tree, q, at) PROVE TreeIsTrie
  <2>1. Tree.node = node /\ Tree.treebin = treebin /\ Tree.treemap = treemap
    BY DEF Tree
  <2>2. \A i \in Index : do_check_treebin(i)
    BY <1>1, <2>1 DEF Good, do_check_treebin
  <2>3. \A u \in Kept : do_check_tree(u)
    BY <1>1, ChecksPass
  <2>4. InTree \subseteq TreeOf(Tree)
    BY <2>1 DEF InTree, Kept, TreeOf
  <2>5. Trie(TreeOf(Tree), node, treebin, at) /\ Bare(TreeOf(Tree), node)
    BY <1>1, <2>1 DEF Good
  <2>6. ASSUME NEW u \in InTree, NEW v \in InTree, node[u].size = node[v].size PROVE u = v
    <3>1. node[u].size \in Sizes
      BY <2>4, <2>5, TrieFacts
    <3>2. u = q[node[u].size][1] /\ v = q[node[u].size][1]
      BY <1>1, <2>1, <2>4, <2>6, <3>1, TreeRing
    <3> QED
      BY <3>2
  <2>7. \A u \in InTree :
           \A c \in Below(node[u].child[0]), d \in Below(node[u].child[1]) : node[c].size < node[d].size
    BY <2>4, <2>5, LeftIsLess
  <2> QED
    BY <2>2, <2>3, <2>6, <2>7 DEF TreeIsTrie
<1>2. IInv => TreeIsTrie
  BY <1>1 DEF IInv
<1> QED
  BY <1>2, Invariant, PTL

=============================================================================
