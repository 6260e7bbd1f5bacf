--------------------------- MODULE DatapathProofs ---------------------------
(***************************************************************************)
(* Facts about words and about the combinational parts of the CPUs, for     *)
(* every width of a word: division and bits, the range of every operation,  *)
(* byte lanes, and the datapath of the pipelines against the semantics of   *)
(* the co-tester's emulator.  The proofs about the CPUs cite them by name.  *)
(***************************************************************************)
EXTENDS Execute, Memory, TLAPS, WellFoundedInduction

\* The emulator, with a data memory that covers the address space.
Em == INSTANCE Emulator WITH MEM_SIZE <- WORDS \div 4

-----------------------------------------------------------------------------
(* Division and least elements. *)

\* Division with remainder.
LEMMA DivMod ==
  ASSUME NEW a \in Int, NEW n \in Nat \ {0}
  PROVE  a \div n \in Int /\ a % n \in 0 .. n - 1 /\ a = n * (a \div n) + (a % n)
OBVIOUS

\* Quotient and remainder are the only numbers with that property.
LEMMA DivUnique ==
  ASSUME NEW a \in Int, NEW n \in Nat \ {0}, NEW q \in Int, NEW r \in 0 .. n - 1, a = n * q + r
  PROVE  a \div n = q /\ a % n = r
<1>1. a \div n \in Int /\ a % n \in 0 .. n - 1 /\ a = n * (a \div n) + (a % n)
  BY DivMod
<1> DEFINE e == a \div n - q
<1>2. e \in Int /\ n * e = r - (a % n)
  <2>1. n * e = n * (a \div n) - n * q
    BY <1>1
  <2> QED BY <1>1, <2>1
<1> HIDE DEF e
<1>3. ~(e >= 1)
  <2> SUFFICES ASSUME e >= 1 PROVE FALSE
    OBVIOUS
  <2>1. n * e >= n
    BY <1>2
  <2> QED BY <2>1, <1>2, <1>1
<1>4. ~(e <= -1)
  <2> SUFFICES ASSUME e <= -1 PROVE FALSE
    OBVIOUS
  <2>1. n * e <= -n
    BY <1>2
  <2> QED BY <2>1, <1>2, <1>1
<1>5. e = 0
  BY <1>2, <1>3, <1>4
<1>6. a \div n = q
  BY <1>5, <1>1 DEF e
<1> QED BY <1>6, <1>1, <1>2, <1>5

\* Induction up to n, with a set in the place of a predicate.
LEMMA Induction ==
  ASSUME NEW n \in Nat, NEW G, 0 \in G, \A k \in 0 .. n - 1 : k \in G => k + 1 \in G
  PROVE  \A k \in 0 .. n : k \in G
<1> DEFINE R == {ss \in Nat \X Nat : ss[1] < ss[2]}
           T == {k \in 0 .. n : k \notin G}
<1>1. OpToRel(<, Nat) = R
  BY Zenon DEF OpToRel
<1>2. IsWellFoundedOn(R, Nat)
  BY ONLY <1>1, NatLessThanWellFounded, Zenon
<1> SUFFICES ASSUME T # {} PROVE FALSE
  OBVIOUS
<1>3. T \subseteq Nat
  OBVIOUS
<1>4. \E x \in T : \A y \in T : ~(<<y, x>> \in R)
  <2> HIDE DEF R, T
  <2> QED BY ONLY WFMin, <1>2, <1>3, T # {}
<1>5. PICK x \in T : \A y \in T : ~(<<y, x>> \in R)
  BY <1>4
<1>6. x \in 0 .. n /\ x \notin G
  BY <1>5
<1>7. x # 0
  BY <1>6
<1>8. x - 1 \in 0 .. n - 1 /\ (x - 1) + 1 = x
  BY <1>6, <1>7
<1>9. x - 1 \in T
  BY <1>6, <1>8
<1>10. <<x - 1, x>> \in R
  BY <1>6, <1>8
<1> QED BY <1>5, <1>9, <1>10

-----------------------------------------------------------------------------
(* Powers of two and the sizes of words. *)

\* A power of two is positive.
LEMMA PowerPositive == \A k \in 0 .. BITS : 2^k \in Nat \ {0}
<1> DEFINE G == {k \in Nat : 2^k \in Nat \ {0}}
<1>1. 0 \in G
  BY PowerAssumption
<1>2. ASSUME NEW k \in 0 .. BITS - 1, k \in G PROVE k + 1 \in G
  <2>1. 2^(k + 1) = 2 * 2^k /\ 2^k \in Nat \ {0}
    BY <1>2, PowerAssumption
  <2> QED BY <2>1
<1>3. \A k \in 0 .. BITS : k \in G
  <2> HIDE DEF G
  <2> QED BY <1>1, <1>2, Induction, WordsAssumption
<1> QED BY <1>3

\* Exponents add up.
LEMMA PowerAdd ==
  ASSUME NEW a \in Nat, NEW b \in Nat, a + b <= BITS
  PROVE  2^(a + b) = 2^a * 2^b
<1> DEFINE G == {k \in Nat : 2^(a + k) = 2^a * 2^k}
<1>0. BITS \in Nat /\ 2^a \in Nat
  BY PowerPositive, WordsAssumption
<1>1. 0 \in G
  BY <1>0, PowerAssumption
<1>2. ASSUME NEW k \in 0 .. b - 1, k \in G PROVE k + 1 \in G
  <2>1. k \in 0 .. BITS - 1 /\ a + k \in 0 .. BITS - 1 /\ (a + k) + 1 = a + (k + 1)
    BY <1>0
  <2>2. 2^(k + 1) = 2 * 2^k /\ 2^((a + k) + 1) = 2 * 2^(a + k)
    BY <2>1, PowerAssumption
  <2>3. 2^(a + k) = 2^a * 2^k /\ 2^k \in Nat
    BY <1>2, <2>1, <1>0, PowerPositive
  <2> HIDE DEF G
  <2>4. 2^(a + (k + 1)) = 2^a * 2^(k + 1)
    BY <2>1, <2>2, <2>3, <1>0
  <2> QED BY <2>4 DEF G
<1>3. \A k \in 0 .. b : k \in G
  <2> HIDE DEF G
  <2> QED BY <1>1, <1>2, Induction
<1> QED BY <1>3

\* A half word is two bytes and a word two half words.
LEMMA Sizes ==
  /\ BYTE \in Nat /\ BYTE >= 2 /\ HALF \in Nat /\ WORDS \in Nat
  /\ HALF = BYTE * BYTE /\ WORDS = HALF * HALF
<1> DEFINE q == BITS \div 4
<1>1. q \in Nat /\ q >= 1 /\ BITS = 4 * q /\ BITS \div 2 = 2 * q /\ BITS \in Nat
  BY WordsAssumption
<1>2. BYTE = 2^q /\ HALF = 2^(2 * q) /\ WORDS = 2^(4 * q)
  <2>1. BYTE = 2^q
    BY DEF BYTE
  <2>2. HALF = 2^(2 * q)
    BY <1>1 DEF HALF
  <2>3. WORDS = 2^(4 * q)
    BY <1>1 DEF WORDS
  <2> QED BY <2>1, <2>2, <2>3
<1> HIDE DEF q
<1>3. q + q = 2 * q /\ 2 * q + 2 * q = 4 * q /\ 2 * q \in Nat
  BY <1>1
<1>4. 2^(q + q) = 2^q * 2^q
  BY <1>1, PowerAdd
<1>5. 2^(2 * q + 2 * q) = 2^(2 * q) * 2^(2 * q)
  BY <1>1, <1>3, PowerAdd
<1>6. 2^q \in Nat /\ 2^(2 * q) \in Nat /\ 2^(4 * q) \in Nat
  BY <1>1, PowerPositive
<1>7. 2^q >= 2
  <2> DEFINE p == q - 1
  <2>1. p \in 0 .. BITS - 1 /\ p + 1 = q
    BY <1>1
  <2> HIDE DEF p
  <2>2. 2^(p + 1) = 2 * 2^p /\ 2^p \in Nat \ {0}
    BY <2>1, PowerAssumption, PowerPositive, WordsAssumption
  <2>3. 2^q = 2 * 2^p
    BY <2>1, <2>2
  <2> QED BY <2>2, <2>3
<1> QED BY <1>2, <1>3, <1>4, <1>5, <1>6, <1>7

\* Addresses of words: a whole number of them fills the address space.
LEMMA WordsDivisible == WORDS % 4 = 0 /\ WORDS = 4 * (WORDS \div 4) /\ WORDS \div 4 \in Nat \ {0} /\ WORDS >= 16
<1>1. BITS \in Nat /\ BITS >= 4
  BY WordsAssumption
<1>2. 2^0 = 1 /\ 2^(0 + 1) = 2 * 2^0 /\ 2^(1 + 1) = 2 * 2^1 /\ 0 + 1 = 1 /\ 1 + 1 = 2
  BY <1>1, PowerAssumption
<1> DEFINE two == 1 + 1
           k == BITS - 2
<1>3. two \in Nat /\ two = 2 /\ 2^two = 4
  BY <1>2
<1>4. k \in Nat /\ two + k = BITS /\ k \in 0 .. BITS
  BY <1>1
<1> HIDE DEF k, two
<1>5. 2^(two + k) = 2^two * 2^k
  <2>1. two \in Nat /\ k \in Nat /\ two + k <= BITS
    BY <1>1, <1>3, <1>4
  <2> QED BY ONLY <2>1, PowerAdd
<1>6. WORDS = 4 * 2^k /\ 2^k \in Nat \ {0}
  <2>1. 2^BITS = 4 * 2^k
    BY <1>3, <1>4, <1>5
  <2> QED BY <2>1, <1>4, PowerPositive DEF WORDS
<1>7. WORDS >= 16
  <2>1. HALF >= 4
    BY Sizes
  <2> QED BY <2>1, Sizes
<1> QED BY <1>6, <1>7

-----------------------------------------------------------------------------
(* Bits and the logical operations. *)

\* The low k + 1 bits of a number are its low k bits and bit k.
LEMMA LowBits ==
  ASSUME NEW a \in Int, NEW k \in 0 .. BITS - 1
  PROVE  Bit(a, k) \in {0, 1} /\ a % 2^(k + 1) = (a % 2^k) + 2^k * Bit(a, k)
<1> DEFINE p == 2^k
           q == a \div p
<1>1. p \in Nat \ {0} /\ 2^(k + 1) = 2 * p
  BY PowerPositive, PowerAssumption, WordsAssumption
<1> HIDE DEF p
<1>2. q \in Int /\ a % p \in 0 .. p - 1 /\ a = p * q + (a % p)
  BY <1>1, DivMod
<1> HIDE DEF q
<1>3. q \div 2 \in Int /\ q % 2 \in 0 .. 1 /\ q = 2 * (q \div 2) + (q % 2)
  BY <1>2
<1> DEFINE r == p * (q % 2) + (a % p)
<1>4. r \in 0 .. 2 * p - 1
  <2>1. CASE q % 2 = 0
    BY <2>1, <1>1, <1>2
  <2>2. CASE q % 2 = 1
    BY <2>2, <1>1, <1>2
  <2> QED BY <2>1, <2>2, <1>3
<1>5. a = (2 * p) * (q \div 2) + r
  <2>1. p * q = p * (2 * (q \div 2)) + p * (q % 2)
    BY <1>1, <1>3
  <2> QED BY <2>1, <1>1, <1>2, <1>3
<1>6. a % (2 * p) = r
  <2> HIDE DEF r
  <2> QED BY <1>1, <1>3, <1>4, <1>5, DivUnique
<1>7. Bit(a, k) = q % 2
  BY DEF Bit, q, p
<1>8. a % 2^(k + 1) = p * Bit(a, k) + (a % p)
  BY <1>1, <1>6, <1>7
<1>9. Bit(a, k) \in {0, 1}
  BY <1>3, <1>7
<1>10. 2^k = p
  BY DEF p
<1>11. p * Bit(a, k) \in Int /\ a % p \in Int
  BY <1>1, <1>2, <1>9
<1> QED BY <1>8, <1>9, <1>10, <1>11

\* The partial conjunctions that And sums up.
LEMMA AndSum ==
  ASSUME NEW a \in Int, NEW b \in Int
  PROVE  \E low : /\ And(a, b) = low[BITS] /\ low[0] = 0
                  /\ \A k \in 0 .. BITS - 1 : low[k + 1] = low[k] + 2^k * Bit(a, k) * Bit(b, k)
<1> DEFINE T(k) == 2^(k - 1) * Bit(a, k - 1) * Bit(b, k - 1)
           Step(f, n) == f = [k \in 0 .. n |-> IF k = 0 THEN 0 ELSE f[k - 1] + T(k)]
           G == {n \in Nat : \E f : Step(f, n)}
           low == CHOOSE f : Step(f, BITS)
<1>1. And(a, b) = low[BITS]
  BY DEF And
<1> HIDE DEF T
<1>2. 0 \in G
  <2> DEFINE f == [k \in 0 .. 0 |-> 0]
  <2>1. Step(f, 0)
    OBVIOUS
  <2> QED BY <2>1
<1>3. ASSUME NEW n \in 0 .. BITS - 1, n \in G PROVE n + 1 \in G
  <2>1. PICK f : Step(f, n)
    BY <1>3
  <2> DEFINE g == [k \in 0 .. n + 1 |-> IF k = 0 THEN 0 ELSE f[k - 1] + T(k)]
  <2>2. \A k \in 0 .. n : g[k] = f[k]
    BY <2>1
  <2>3. ASSUME NEW k \in 0 .. n + 1, k # 0 PROVE g[k - 1] = f[k - 1]
    <3>1. k - 1 \in 0 .. n
      BY <2>3
    <3> HIDE DEF g
    <3> QED BY <2>2, <3>1
  <2>4. g = [k \in 0 .. n + 1 |-> IF k = 0 THEN 0 ELSE g[k - 1] + T(k)]
    BY <2>3
  <2> HIDE DEF g
  <2> QED BY <2>4
<1>4. \E f : Step(f, BITS)
  <2>1. BITS \in Nat /\ \A k \in 0 .. BITS : k \in G
    <3> HIDE DEF G
    <3> QED BY <1>2, <1>3, Induction, WordsAssumption
  <2> QED BY <2>1
<1>5. Step(low, BITS)
  BY <1>4
<1> HIDE DEF low
<1>6. low[0] = 0
  BY <1>5, WordsAssumption
<1>7. ASSUME NEW k \in 0 .. BITS - 1 PROVE low[k + 1] = low[k] + 2^k * Bit(a, k) * Bit(b, k)
  <2>1. k + 1 \in 0 .. BITS /\ k + 1 # 0 /\ (k + 1) - 1 = k
    BY WordsAssumption
  <2>2. low[k + 1] = low[k] + T(k + 1)
    BY <1>5, <2>1
  <2> QED BY <2>1, <2>2 DEF T
<1> QED BY <1>1, <1>6, <1>7

\* A word is its own remainder.
LEMMA SmallMod ==
  ASSUME NEW n \in Nat \ {0}, NEW a \in 0 .. n - 1
  PROVE  a % n = a /\ a \div n = 0
BY DivUnique, a = n * 0 + a

\* The conjunction of two words has no bit that one of them lacks, and the disjunction fits.
LEMMA AndRange ==
  ASSUME NEW a \in Word, NEW b \in Word
  PROVE  /\ And(a, b) \in Nat /\ And(a, b) <= a /\ And(a, b) <= b
         /\ a + b - And(a, b) <= WORDS - 1
<1>1. PICK low : /\ And(a, b) = low[BITS] /\ low[0] = 0
                 /\ \A k \in 0 .. BITS - 1 : low[k + 1] = low[k] + 2^k * Bit(a, k) * Bit(b, k)
  BY AndSum, WordsAssumption DEF Word
<1>0. a \in Int /\ b \in Int /\ BITS \in Nat
  BY WordsAssumption DEF Word
<1> DEFINE Within(l, x, y, n) == l \in Nat /\ l <= x /\ l <= y /\ x + y - l <= n - 1
           G == {k \in Nat : Within(low[k], a % 2^k, b % 2^k, 2^k)}
<1>2. 0 \in G
  BY <1>0, <1>1, PowerAssumption
<1>3. ASSUME NEW k \in 0 .. BITS - 1, k \in G PROVE k + 1 \in G
  <2> DEFINE p == 2^k
             x == a % p
             y == b % p
             l == low[k]
             c == Bit(a, k)
             d == Bit(b, k)
  <2>1. p \in Nat \ {0} /\ 2^(k + 1) = 2 * p
    BY <1>0, PowerPositive, PowerAssumption
  <2>2. x \in Nat /\ y \in Nat /\ Within(l, x, y, p)
    BY <2>1, <1>0, <1>3
  <2>3. c \in {0, 1} /\ d \in {0, 1} /\ a % 2^(k + 1) = x + p * c /\ b % 2^(k + 1) = y + p * d
    BY <1>0, LowBits
  <2>4. low[k + 1] = l + p * c * d
    BY <1>1
  <2> HIDE DEF p, x, y, l, c, d
  <2>5. Within(l + p * c * d, x + p * c, y + p * d, 2 * p)
    <3>1. CASE c = 0 /\ d = 0
      BY <3>1, <2>1, <2>2
    <3>2. CASE c = 0 /\ d = 1
      BY <3>2, <2>1, <2>2
    <3>3. CASE c = 1 /\ d = 0
      BY <3>3, <2>1, <2>2
    <3>4. CASE c = 1 /\ d = 1
      BY <3>4, <2>1, <2>2
    <3> QED BY <2>3, <3>1, <3>2, <3>3, <3>4
  <2>6. Within(low[k + 1], a % 2^(k + 1), b % 2^(k + 1), 2^(k + 1))
    BY <2>1, <2>3, <2>4, <2>5, Zenon
  <2> QED BY <2>6
<1>4. BITS \in G
  <2> HIDE DEF G
  <2>1. \A k \in 0 .. BITS : k \in G
    BY <1>0, <1>2, <1>3, Induction
  <2> QED BY <1>0, <2>1
<1>5. a % WORDS = a /\ b % WORDS = b
  BY SmallMod, WordsAssumption DEF Word
<1>6. Within(And(a, b), a, b, WORDS)
  BY <1>1, <1>4, <1>5 DEF WORDS
<1> QED BY <1>6

\* The logical operations yield words.
LEMMA LogicTyped ==
  ASSUME NEW a \in Word, NEW b \in Word
  PROVE  And(a, b) \in Word /\ Or(a, b) \in Word /\ Xor(a, b) \in Word /\ Nor(a, b) \in Word
<1>1. a \in Nat /\ b \in Nat /\ a <= WORDS - 1 /\ b <= WORDS - 1 /\ WORDS \in Nat
  BY WordsAssumption DEF Word
<1>2. /\ And(a, b) \in Nat /\ And(a, b) <= a /\ And(a, b) <= b
      /\ a + b - And(a, b) <= WORDS - 1
  BY AndRange
<1> QED BY <1>1, <1>2 DEF Or, Xor, Nor, Word

\* What nothing is added to stays as it is.
LEMMA OrZero ==
  ASSUME NEW b \in Word
  PROVE  Or(0, b) = b
<1>1. 0 \in Word /\ b \in Nat
  BY WordsAssumption DEF Word
<1>2. And(0, b) = 0
  BY <1>1, AndRange
<1> QED BY <1>1, <1>2 DEF Or

-----------------------------------------------------------------------------
(* Wrapping, sign extension, shifts and division. *)

\* What wraps is a word, and a word does not wrap.
LEMMA Wraps ==
  /\ \A n \in Int : U(n) \in Word
  /\ \A w \in Word : U(w) = w
<1>1. ASSUME NEW n \in Int PROVE U(n) \in Word
  BY WordsAssumption, DivMod DEF U, Word
<1>2. ASSUME NEW w \in Word PROVE U(w) = w
  BY WordsAssumption, SmallMod DEF U, Word
<1> QED BY <1>1, <1>2

\* Wrapping can wait until the end of a sum.
LEMMA WrapAdd ==
  ASSUME NEW a \in Int, NEW b \in Int
  PROVE  U(U(a) + b) = U(a + b)
<1> DEFINE n == WORDS
           q == a \div n
           r == a % n
           t == r + b
<1>1. n \in Nat \ {0}
  BY WordsAssumption
<1> HIDE DEF n
<1>2. q \in Int /\ r \in Int /\ a = n * q + r
  BY <1>1, DivMod
<1>3. t \in Int
  BY <1>2
<1> HIDE DEF q, r
<1>4. t \div n \in Int /\ t % n \in 0 .. n - 1 /\ t = n * (t \div n) + (t % n)
  BY <1>1, <1>3, DivMod
<1>5. a + b = n * (q + t \div n) + (t % n)
  BY <1>1, <1>2, <1>4
<1>6. q + t \div n \in Int /\ a + b \in Int
  BY <1>2, <1>4
<1>7. (a + b) % n = t % n
  <2> HIDE DEF t
  <2> QED BY <1>1, <1>4, <1>5, <1>6, DivUnique, ZenonT(60)
<1> QED BY <1>7 DEF U, t, r, n

\* The address behind the slot.
LEMMA WrapTwice == \A p \in Int : U(U(p + 4) + 4) = U(p + 8)
<1> SUFFICES ASSUME NEW p \in Int PROVE U(U(p + 4) + 4) = U(p + 8)
  OBVIOUS
<1> DEFINE a == p + 4
           b == 4
<1>1. a \in Int /\ b \in Int /\ a + b = p + 8
  OBVIOUS
<1> HIDE DEF a, b
<1>2. U(U(a) + b) = U(a + b)
  BY <1>1, WrapAdd
<1>3. U(U(a) + b) = U(p + 8)
  BY <1>1, <1>2
<1> QED BY <1>3 DEF a, b

\* The value of a word in two's complement.
LEMMA SignedTyped == \A w \in Word : S(w) \in Int
BY WordsAssumption DEF S, Word

\* Extended bytes and half words are words.
LEMMA ExtTyped == \A n \in Int : ExtHalf(n) \in Word /\ ExtByte(n) \in Word
<1> SUFFICES ASSUME NEW n \in Int PROVE ExtHalf(n) \in Word /\ ExtByte(n) \in Word
  OBVIOUS
<1>1. ASSUME NEW size \in Nat, size >= 2, size <= WORDS
      PROVE  (IF n % size < size \div 2 THEN n % size ELSE U((n % size) - size)) \in Word
  <2>1. n % size \in 0 .. size - 1
    BY <1>1
  <2>2. n % size \in Word /\ (n % size) - size \in Int
    BY <1>1, <2>1, WordsAssumption DEF Word
  <2> QED BY <2>2, Wraps
<1>2. BYTE <= HALF /\ HALF <= WORDS /\ BYTE <= WORDS /\ HALF >= 2
  <2>1. BYTE * BYTE >= BYTE /\ HALF = BYTE * BYTE
    BY Sizes
  <2>2. HALF * HALF >= HALF /\ HALF >= 2
    BY Sizes, <2>1
  <2> QED BY Sizes, <2>1, <2>2
<1> QED BY <1>1, <1>2, Sizes DEF ExtHalf, ExtByte

\* Shifted words are words.
LEMMA ShiftTyped ==
  ASSUME NEW w \in Word, NEW n \in Nat
  PROVE  Sll(w, n) \in Word /\ Srl(w, n) \in Word /\ Sra(w, n) \in Word
<1> DEFINE p == 2^(n % BITS)
<1>1. p \in Nat \ {0}
  <2>1. n % BITS \in 0 .. BITS
    BY WordsAssumption
  <2> QED BY <2>1, PowerPositive
<1> HIDE DEF p
<1>2. w \in Nat /\ w <= WORDS - 1 /\ WORDS \in Nat
  BY WordsAssumption DEF Word
<1>3. w * p \in Int /\ S(w) \div p \in Int
  BY <1>1, <1>2, SignedTyped
<1>4. w \div p \in Nat /\ w \div p <= w
  <2>1. w \div p \in Int /\ w % p \in 0 .. p - 1 /\ w = p * (w \div p) + (w % p)
    BY <1>1, <1>2
  <2> DEFINE d == w \div p
             r == w % p
  <2> HIDE DEF d, r
  <2>2. d \in Int /\ r \in 0 .. p - 1 /\ w = p * d + r
    BY <2>1 DEF d, r
  <2>3. ~(d <= -1)
    <3> SUFFICES ASSUME d <= -1 PROVE FALSE
      OBVIOUS
    <3>1. p * d <= -p
      BY <1>1, <2>2
    <3> QED BY <3>1, <2>2, <1>1, <1>2
  <2>4. p * d >= d
    BY <1>1, <2>2, <2>3
  <2> QED BY <2>2, <2>3, <2>4, <1>1 DEF d
<1>5. w \div p \in Word
  BY <1>2, <1>4 DEF Word
<1> QED BY <1>3, <1>5, Wraps DEF Sll, Srl, Sra, p

\* Truncating division of integers, and division of words.
LEMMA QuotTyped ==
  /\ \A a \in Int, b \in Int \ {0} : Quot(a, b) \in Int /\ Rem(a, b) \in Int
  /\ \A a \in Word, b \in Word \ {0} : a \div b \in Word /\ a % b \in Word
<1>1. ASSUME NEW a \in Int, NEW b \in Int \ {0} PROVE Quot(a, b) \in Int /\ Rem(a, b) \in Int
  <2>1. AbsVal(a) \in Int /\ AbsVal(b) \in Nat \ {0}
    BY DEF AbsVal
  <2>2. AbsVal(a) \div AbsVal(b) \in Int
    BY <2>1, DivMod
  <2>3. Quot(a, b) \in Int
    BY <2>2 DEF Quot
  <2> QED BY <2>3 DEF Rem
<1>2. ASSUME NEW a \in Word, NEW b \in Word \ {0} PROVE a \div b \in Word /\ a % b \in Word
  <2> DEFINE d == a \div b
             r == a % b
  <2>1. a \in Nat /\ a <= WORDS - 1 /\ b \in Nat \ {0} /\ b <= WORDS - 1 /\ WORDS \in Nat
    BY WordsAssumption DEF Word
  <2>2. d \in Int /\ r \in 0 .. b - 1 /\ a = b * d + r
    <3>1. a \in Int
      BY <2>1
    <3> QED BY <2>1, <3>1, DivMod
  <2> HIDE DEF d, r
  <2>3. ~(d <= -1)
    <3> SUFFICES ASSUME d <= -1 PROVE FALSE
      OBVIOUS
    <3>1. b * d <= -b
      BY <2>1, <2>2
    <3> QED BY <3>1, <2>1, <2>2
  <2>4. b * d >= d
    BY <2>1, <2>2, <2>3
  <2>5. d \in Word /\ r \in Word
    BY <2>1, <2>2, <2>3, <2>4 DEF Word
  <2> QED BY <2>5 DEF d, r
<1> QED BY <1>1, <1>2

-----------------------------------------------------------------------------
(* Byte lanes. *)

\* A word is the value of its four bytes.
LEMMA ByteLanes ==
  ASSUME NEW w \in Word
  PROVE  /\ \A k \in 0 .. 3 : Lane(w, BYTE, k) \in 0 .. BYTE - 1
         /\ w = Lane(w, BYTE, 0) + BYTE * (Lane(w, BYTE, 1) + BYTE * (Lane(w, BYTE, 2) + BYTE * Lane(w, BYTE, 3)))
<1> DEFINE n == BYTE
           q1 == w \div n
           q2 == q1 \div n
           q3 == q2 \div n
           b0 == w % n
           b1 == q1 % n
           b2 == q2 % n
<1>1. n \in Nat \ {0} /\ n >= 2 /\ w \in Int
  BY Sizes, WordsAssumption DEF Word
<1>2. n^0 = 1 /\ n^1 = n /\ n^2 = n * n /\ n^3 = n * n * n
  BY PowerAssumption
<1>3. w \in 0 .. n * n * n * n - 1
  <2>1. WORDS = n * n * (n * n)
    BY Sizes
  <2>2. n * n * (n * n) = n * n * n * n
    BY <1>1
  <2> QED BY <2>1, <2>2 DEF Word
<1> HIDE DEF n
<1>4. q1 \in Int /\ b0 \in 0 .. n - 1 /\ w = n * q1 + b0
  BY <1>1, DivMod
<1>5. q2 \in Int /\ b1 \in 0 .. n - 1 /\ q1 = n * q2 + b1
  <2> HIDE DEF q1
  <2> QED BY <1>1, <1>4, DivMod
<1>6. q3 \in Int /\ b2 \in 0 .. n - 1 /\ q2 = n * q3 + b2
  <2> HIDE DEF q2
  <2> QED BY <1>1, <1>5, DivMod
<1> HIDE DEF q1, q2, q3, b0, b1, b2
<1>7. w = (n * n) * q2 + (n * b1 + b0) /\ n * b1 + b0 \in 0 .. n * n - 1 /\ n * n \in Nat \ {0}
  <2>1. n * b1 <= n * (n - 1)
    BY <1>1, <1>5
  <2>2. n * b1 + b0 >= 0 /\ n * b1 + b0 <= n * n - 1
    BY <2>1, <1>1, <1>4, <1>5
  <2>3. n * q1 = n * (n * q2) + n * b1
    BY <1>1, <1>5
  <2> QED BY <2>2, <2>3, <1>1, <1>4, <1>5
<1>8. /\ w = (n * n * n) * q3 + ((n * n) * b2 + (n * b1 + b0))
      /\ (n * n) * b2 + (n * b1 + b0) \in 0 .. n * n * n - 1 /\ n * n * n \in Nat \ {0}
  <2>1. (n * n) * b2 <= (n * n) * (n - 1)
    BY <1>7, <1>1, <1>6
  <2>2. (n * n) * (n - 1) = n * n * n - n * n
    BY <1>1
  <2>3. (n * n) * b2 \in Nat /\ n * n * n \in Nat
    BY <1>1, <1>6
  <2>4. (n * n) * q2 = (n * n * n) * q3 + (n * n) * b2
    BY <1>1, <1>6
  <2> QED BY <2>1, <2>2, <2>3, <2>4, <1>7, <1>1, <1>4, <1>5, <1>6
<1>9. w \div (n * n) = q2 /\ w \div (n * n * n) = q3
  BY <1>1, <1>5, <1>6, <1>7, <1>8, DivUnique
<1>10. q3 \in 0 .. n - 1
  <2> DEFINE c == n * n * n
             r == (n * n) * b2 + (n * b1 + b0)
  <2>1. c \in Nat \ {0} /\ r \in 0 .. c - 1 /\ w = c * q3 + r /\ w \in 0 .. c * n - 1
    BY <1>3, <1>8
  <2> HIDE DEF c, r
  <2>2. ~(q3 <= -1)
    <3> SUFFICES ASSUME q3 <= -1 PROVE FALSE
      OBVIOUS
    <3>1. c * q3 <= -c
      BY <2>1, <1>6
    <3> QED BY <3>1, <2>1, <1>6
  <2>3. ~(q3 >= n)
    <3> SUFFICES ASSUME q3 >= n PROVE FALSE
      OBVIOUS
    <3>1. c * q3 >= c * n
      BY <2>1, <1>1, <1>6
    <3> QED BY <3>1, <2>1, <1>1, <1>6
  <2> QED BY <2>2, <2>3, <1>1, <1>6
<1>11. w \div 1 = w
  BY <1>1
<1>12. q3 % n = q3
  BY <1>1, <1>10, SmallMod
<1>13. /\ Lane(w, n, 0) = b0 /\ Lane(w, n, 1) = b1
       /\ Lane(w, n, 2) = b2 /\ Lane(w, n, 3) = q3
  BY <1>2, <1>9, <1>11, <1>12 DEF Lane, b0, b1, b2, q1
<1>14. \A k \in 0 .. 3 : Lane(w, n, k) \in 0 .. n - 1
  BY <1>13, <1>4, <1>5, <1>6, <1>10
<1>15. w = b0 + n * (b1 + n * (b2 + n * q3))
  <2>1. w = b0 + n * q1 /\ q1 = b1 + n * q2 /\ q2 = b2 + n * q3
    BY <1>1, <1>4, <1>5, <1>6
  <2> QED BY ONLY <2>1, Zenon
<1> QED BY <1>13, <1>14, <1>15 DEF n

\* The halves of a word are made of its bytes.
LEMMA HalfLanes ==
  ASSUME NEW w \in Word
  PROVE  /\ Lane(w, HALF, 0) = Lane(w, BYTE, 0) + BYTE * Lane(w, BYTE, 1)
         /\ Lane(w, HALF, 1) = Lane(w, BYTE, 2) + BYTE * Lane(w, BYTE, 3)
         /\ Lane(w, HALF, 0) \in 0 .. HALF - 1 /\ Lane(w, HALF, 1) \in 0 .. HALF - 1
         /\ w = Lane(w, HALF, 0) + HALF * Lane(w, HALF, 1)
<1> DEFINE n == BYTE
           b0 == Lane(w, BYTE, 0)
           b1 == Lane(w, BYTE, 1)
           b2 == Lane(w, BYTE, 2)
           b3 == Lane(w, BYTE, 3)
           h0 == b0 + n * b1
           h1 == b2 + n * b3
<1>1. /\ b0 \in 0 .. n - 1 /\ b1 \in 0 .. n - 1 /\ b2 \in 0 .. n - 1 /\ b3 \in 0 .. n - 1
      /\ w = b0 + n * (b1 + n * (b2 + n * b3)) /\ n \in Nat /\ HALF = n * n /\ HALF \in Nat /\ n >= 2
  BY ByteLanes, Sizes
<1> HIDE DEF n, b0, b1, b2, b3
<1>2. ASSUME NEW x \in 0 .. n - 1, NEW y \in 0 .. n - 1 PROVE x + n * y \in 0 .. HALF - 1
  <2>1. n * y <= n * (n - 1)
    BY <1>1
  <2>2. n * (n - 1) = n * n - n /\ n * y >= 0
    BY <1>1
  <2> QED BY <1>1, <2>1, <2>2
<1>3. h0 \in 0 .. HALF - 1 /\ h1 \in 0 .. HALF - 1
  BY <1>1, <1>2
<1>4. w = HALF * h1 + h0
  <2>1. b1 + n * h1 \in Int /\ h1 \in Int
    BY <1>1
  <2>2. n * (b1 + n * h1) = n * b1 + n * n * h1
    BY <1>1, <2>1
  <2> QED BY <1>1, <2>1, <2>2
<1> HIDE DEF h0, h1
<1>5. HALF \in Nat \ {0} /\ HALF^0 = 1 /\ HALF^1 = HALF /\ w \in Int /\ w \div 1 = w
  <2>1. HALF # 0
    BY <1>1, <1>3
  <2>2. w \in Int /\ w \div 1 = w
    BY WordsAssumption DEF Word
  <2> QED BY <1>1, <2>1, <2>2, PowerAssumption
<1>6. w \div HALF = h1 /\ w % HALF = h0
  BY <1>3, <1>4, <1>5, DivUnique
<1>7. h1 % HALF = h1
  BY <1>3, <1>5, SmallMod
<1>8. Lane(w, HALF, 0) = h0 /\ Lane(w, HALF, 1) = h1
  BY <1>5, <1>6, <1>7 DEF Lane
<1>9. HALF * h1 + h0 = h0 + HALF * h1
  BY <1>3, <1>5
<1> QED BY <1>3, <1>4, <1>8, <1>9 DEF h0, h1, b0, b1, b2, b3, n

\* The remainders of an address by four and by two.
LEMMA AddressLanes ==
  ASSUME NEW a \in Int
  PROVE  /\ a % 4 \in 0 .. 3
         /\ a % 2 = 0 => (a % 4 = 0 /\ (a \div 2) % 2 = 0) \/ (a % 4 = 2 /\ (a \div 2) % 2 = 1)
OBVIOUS

-----------------------------------------------------------------------------
(* The memory stage and the emulator. *)

\* The emulator takes a word apart into the lanes of the memory stage.
LEMMA EmulatorBytes ==
  /\ \A w : Em!Bytes(w) = [k \in 0 .. 3 |-> Lane(w, BYTE, k)]
  /\ \A b : Em!FromBytes(b) = b[0] + BYTE * (b[1] + BYTE * (b[2] + BYTE * b[3]))
BY DEF Em!Bytes, Em!FromBytes, Em!Lane, Em!BYTE, Lane, BYTE

\* What a load puts into its register is what the emulator loads.
LEMMA LoadedLane ==
  ASSUME NEW i, NEW m, i.op \in Load, Em!Addr(i, m) \in Int, ~InvalidAddr(i, Em!Addr(i, m)),
         m.mem[Em!Addr(i, m) \div 4] \in Word
  PROVE  WriteBack(ExtType(i), ReadLane(i, Em!Addr(i, m), m.mem[Em!Addr(i, m) \div 4])) = Em!LoadValue(i, m)
<1> DEFINE a == Em!Addr(i, m)
           w == m.mem[a \div 4]
           b == [k \in 0 .. 3 |-> Lane(w, BYTE, k)]
           h == b[a % 4] + BYTE * b[(a % 4) + 1]
<1>1. Em!LoadValue(i, m) = CASE i.op = "lb" -> ExtByte(b[a % 4]) [] i.op = "lbu" -> b[a % 4]
                             [] i.op = "lh" -> ExtHalf(h) [] i.op = "lhu" -> h [] i.op = "lw" -> w
  BY DEF Em!LoadValue, Em!Bytes, Em!Lane, Em!ExtByte, Em!ExtHalf, Em!BYTE, Em!HALF, Em!U, Em!WORDS,
         Lane, ExtByte, ExtHalf, BYTE, HALF, U, WORDS
<1> SUFFICES WriteBack(ExtType(i), ReadLane(i, a, w)) = Em!LoadValue(i, m)
  OBVIOUS
<1>2. a \in Int /\ w \in Word /\ ~InvalidAddr(i, a)
  OBVIOUS
<1> HIDE DEF a, w
<1>3. a % 4 \in 0 .. 3
  BY <1>2, AddressLanes
<1>4. b[a % 4] = Lane(w, BYTE, a % 4) /\ Lane(w, BYTE, a % 4) \in 0 .. BYTE - 1
  BY <1>2, <1>3, ByteLanes
<1>5. Lane(w, BYTE, a % 4) % BYTE = Lane(w, BYTE, a % 4)
  BY <1>4, SmallMod, Sizes
<1>6. MemType(i) = "HALF" => h = Lane(w, HALF, (a \div 2) % 2) /\ h \in 0 .. HALF - 1
  <2> SUFFICES ASSUME MemType(i) = "HALF" PROVE h = Lane(w, HALF, (a \div 2) % 2) /\ h \in 0 .. HALF - 1
    OBVIOUS
  <2>1. a % 2 = 0
    BY <1>2 DEF InvalidAddr
  <2>2. CASE a % 4 = 0 /\ (a \div 2) % 2 = 0
    BY <2>2, <1>2, HalfLanes
  <2>3. CASE a % 4 = 2 /\ (a \div 2) % 2 = 1
    BY <2>3, <1>2, HalfLanes
  <2> QED BY <1>2, <2>1, <2>2, <2>3, AddressLanes
<1>7. MemType(i) = "HALF" => h % HALF = h
  BY <1>6, SmallMod, Sizes
<1> HIDE DEF h, b
<1>8. CASE i.op = "lb"
  BY <1>1, <1>4, <1>8 DEF WriteBack, ReadLane, ExtType, MemType, Load
<1>9. CASE i.op = "lbu"
  BY <1>1, <1>4, <1>5, <1>9 DEF WriteBack, ReadLane, ExtType, MemType, Load
<1>10. CASE i.op = "lh"
  BY <1>1, <1>6, <1>10 DEF WriteBack, ReadLane, ExtType, MemType, Load
<1>11. CASE i.op = "lhu"
  BY <1>1, <1>6, <1>7, <1>11 DEF WriteBack, ReadLane, ExtType, MemType, Load
<1>12. CASE i.op = "lw"
  BY <1>1, <1>12 DEF WriteBack, ReadLane, ExtType, MemType, Load
<1> QED BY <1>8, <1>9, <1>10, <1>11, <1>12 DEF Load, a, w

\* The word a store leaves in memory is the one the emulator stores.
LEMMA StoredLane ==
  ASSUME NEW i, NEW m, i.op \in Store, Em!Addr(i, m) \in Int, ~InvalidAddr(i, Em!Addr(i, m)),
         m.mem[Em!Addr(i, m) \div 4] \in Word, Em!Rt(i, m) \in Word
  PROVE  WriteLane(i, Em!Addr(i, m), m.mem[Em!Addr(i, m) \div 4], Em!Rt(i, m)) = Em!StoreValue(i, m)
<1> DEFINE a == Em!Addr(i, m)
           w == m.mem[a \div 4]
           v == Em!Rt(i, m)
           b == [k \in 0 .. 3 |-> Lane(w, BYTE, k)]
           c == [k \in 0 .. 3 |-> Lane(v, BYTE, k)]
           Whole(d) == d[0] + BYTE * (d[1] + BYTE * (d[2] + BYTE * d[3]))
<1>1. Em!StoreValue(i, m) = CASE i.op = "sb" -> Whole([b EXCEPT ![a % 4] = c[0]])
                              [] i.op = "sh" -> Whole([b EXCEPT ![a % 4] = c[0], ![(a % 4) + 1] = c[1]])
                              [] i.op = "sw" -> v
  BY DEF Em!StoreValue, Em!Bytes, Em!FromBytes, Em!Lane, Em!BYTE, Lane, BYTE
<1> SUFFICES WriteLane(i, a, w, v) = Em!StoreValue(i, m)
  OBVIOUS
<1>2. a \in Int /\ w \in Word /\ v \in Word /\ ~InvalidAddr(i, a)
  OBVIOUS
<1> HIDE DEF a, w, v
<1> DEFINE n == BYTE
           b0 == b[0]
           b1 == b[1]
           b2 == b[2]
           b3 == b[3]
           c0 == c[0]
           c1 == c[1]
<1>3. /\ b0 \in 0 .. n - 1 /\ b1 \in 0 .. n - 1 /\ b2 \in 0 .. n - 1 /\ b3 \in 0 .. n - 1
      /\ w = b0 + n * (b1 + n * (b2 + n * b3)) /\ n \in Nat /\ HALF = n * n
      /\ b0 = Lane(w, n, 0) /\ b1 = Lane(w, n, 1) /\ b2 = Lane(w, n, 2) /\ b3 = Lane(w, n, 3)
      /\ b0 + n * b1 = Lane(w, HALF, 0) /\ b2 + n * b3 = Lane(w, HALF, 1)
  BY <1>2, ByteLanes, HalfLanes, Sizes
<1>4. c0 \in 0 .. n - 1 /\ c1 \in 0 .. n - 1 /\ v % n = c0 /\ v % HALF = c0 + n * c1
  <2>1. v \in Int /\ v \div 1 = v
    BY <1>2, WordsAssumption DEF Word
  <2>2. Lane(v, BYTE, 0) = v % BYTE /\ Lane(v, HALF, 0) = v % HALF
    BY <2>1, PowerAssumption DEF Lane
  <2> QED BY <1>2, <2>2, ByteLanes, HalfLanes
<1>5. n^0 = 1 /\ n^1 = n /\ n^2 = n * n /\ n^3 = n * n * n /\ HALF^0 = 1 /\ HALF^1 = HALF
  BY PowerAssumption
<1>6. DOMAIN b = 0 .. 3 /\ b = [k \in 0 .. 3 |-> b[k]]
  OBVIOUS
<1> HIDE DEF b, c, b0, b1, b2, b3, c0, c1, n
<1>7. CASE i.op = "sb"
  <2>1. WriteLane(i, a, w, v) = SetLane(w, n, a % 4, v)
    BY <1>7 DEF WriteLane, MemType, n
  <2> DEFINE d == [b EXCEPT ![a % 4] = c0]
  <2>2. CASE a % 4 = 0
    <3>1. d[0] = c0 /\ d[1] = b1 /\ d[2] = b2 /\ d[3] = b3
      BY <2>2, <1>6 DEF b1, b2, b3
    <3>2. SetLane(w, n, 0, v) = w + (c0 - b0)
      BY <1>3, <1>4, <1>5 DEF SetLane
    <3>3. Whole(d) = c0 + n * (b1 + n * (b2 + n * b3))
      BY <3>1 DEF n
    <3> QED BY <2>1, <2>2, <3>2, <3>3, <1>1, <1>7, <1>3, <1>4 DEF c0
  <2>3. CASE a % 4 = 1
    <3>1. d[0] = b0 /\ d[1] = c0 /\ d[2] = b2 /\ d[3] = b3
      BY <2>3, <1>6 DEF b0, b2, b3
    <3>2. SetLane(w, n, 1, v) = w + (c0 - b1) * n
      BY <1>3, <1>4, <1>5 DEF SetLane
    <3>3. Whole(d) = b0 + n * (c0 + n * (b2 + n * b3))
      BY <3>1 DEF n
    <3>4. b0 + n * (c0 + n * (b2 + n * b3)) = w + (c0 - b1) * n
      BY <1>3, <1>4
    <3> QED BY <2>1, <2>3, <3>2, <3>3, <3>4, <1>1, <1>7 DEF c0
  <2>4. CASE a % 4 = 2
    <3>1. d[0] = b0 /\ d[1] = b1 /\ d[2] = c0 /\ d[3] = b3
      BY <2>4, <1>6 DEF b0, b1, b3
    <3>2. SetLane(w, n, 2, v) = w + (c0 - b2) * (n * n)
      BY <1>3, <1>4, <1>5 DEF SetLane
    <3>3. Whole(d) = b0 + n * (b1 + n * (c0 + n * b3))
      BY <3>1 DEF n
    <3>4. b0 + n * (b1 + n * (c0 + n * b3)) = w + (c0 - b2) * (n * n)
      BY <1>3, <1>4
    <3> QED BY <2>1, <2>4, <3>2, <3>3, <3>4, <1>1, <1>7 DEF c0
  <2>5. CASE a % 4 = 3
    <3>1. d[0] = b0 /\ d[1] = b1 /\ d[2] = b2 /\ d[3] = c0
      BY <2>5, <1>6 DEF b0, b1, b2
    <3>2. SetLane(w, n, 3, v) = w + (c0 - b3) * (n * n * n)
      BY <1>3, <1>4, <1>5 DEF SetLane
    <3>3. Whole(d) = b0 + n * (b1 + n * (b2 + n * c0))
      BY <3>1 DEF n
    <3>4. b0 + n * (b1 + n * (b2 + n * c0)) = w + (c0 - b3) * (n * n * n)
      BY <1>3, <1>4
    <3> QED BY <2>1, <2>5, <3>2, <3>3, <3>4, <1>1, <1>7 DEF c0
  <2> QED BY <2>2, <2>3, <2>4, <2>5, <1>2, AddressLanes
<1>8. CASE i.op = "sh"
  <2>1. a % 2 = 0 /\ WriteLane(i, a, w, v) = SetLane(w, HALF, (a \div 2) % 2, v)
    BY <1>2, <1>8 DEF WriteLane, MemType, InvalidAddr
  <2> DEFINE d == [b EXCEPT ![a % 4] = c0, ![(a % 4) + 1] = c1]
  <2>2. CASE a % 4 = 0 /\ (a \div 2) % 2 = 0
    <3>1. d[0] = c0 /\ d[1] = c1 /\ d[2] = b2 /\ d[3] = b3
      BY <2>2, <1>6 DEF b2, b3
    <3>2. SetLane(w, HALF, 0, v) = w + (c0 + n * c1 - (b0 + n * b1))
      BY <1>3, <1>4, <1>5 DEF SetLane
    <3>3. Whole(d) = c0 + n * (c1 + n * (b2 + n * b3))
      BY <3>1 DEF n
    <3>4. c0 + n * (c1 + n * (b2 + n * b3)) = w + (c0 + n * c1 - (b0 + n * b1))
      BY <1>3, <1>4
    <3> QED BY <2>1, <2>2, <3>2, <3>3, <3>4, <1>1, <1>8 DEF c0, c1
  <2>3. CASE a % 4 = 2 /\ (a \div 2) % 2 = 1
    <3>1. d[0] = b0 /\ d[1] = b1 /\ d[2] = c0 /\ d[3] = c1
      BY <2>3, <1>6 DEF b0, b1
    <3>2. SetLane(w, HALF, 1, v) = w + (c0 + n * c1 - (b2 + n * b3)) * (n * n)
      BY <1>3, <1>4, <1>5 DEF SetLane
    <3>3. Whole(d) = b0 + n * (b1 + n * (c0 + n * c1))
      BY <3>1 DEF n
    <3>4. b0 + n * (b1 + n * (c0 + n * c1)) = w + (c0 + n * c1 - (b2 + n * b3)) * (n * n)
      BY <1>3, <1>4
    <3> QED BY <2>1, <2>3, <3>2, <3>3, <3>4, <1>1, <1>8 DEF c0, c1
  <2> QED BY <2>1, <2>2, <2>3, <1>2, AddressLanes
<1>9. CASE i.op = "sw"
  BY <1>1, <1>9 DEF WriteLane, MemType
<1> QED BY <1>7, <1>8, <1>9 DEF Store

-----------------------------------------------------------------------------
(* The decoder. *)

\* A bubble has no effect and waits for nothing.
LEMMA BubbleFacts ==
  /\ Bubble.op = "bubble" /\ Bubble.rs = 0 /\ Bubble.rt = 0 /\ Bubble.imm = 0
  /\ WriteAddr(Bubble) = 0 /\ MemMode(Bubble) = "NONE" /\ ExtType(Bubble) = "NONE"
  /\ Bubble.op \notin Branch /\ Bubble.op \notin HiLoOp /\ Bubble.op \notin MulDiv
  /\ ReadStage0(Bubble) = NEVER /\ ReadStage1(Bubble) = NEVER
<1> DEFINE b == "bubble"
<1>1. Bubble = [op |-> b, rs |-> 0, rt |-> 0, rd |-> 0, imm |-> 0]
  BY DEF Bubble, Nop
<1>2. /\ b \notin Arith3 /\ b \notin Shift /\ b \notin ShiftV /\ b \notin ArithImm /\ b \notin Load /\ b \notin Store
      /\ b \notin Branch /\ b \notin BranchRT /\ b \notin BranchZ /\ b \notin JumpReg
      /\ b \notin MulDiv /\ b \notin MoveFrom /\ b \notin MoveTo /\ b \notin HiLoOp
      /\ b \notin {"jalr", "lui", "mfc0", "jal", "mtc0", "lw"} /\ b # "jal"
  BY DEF Arith3, AddSub, Logic, Compare, Shift, ShiftV, ArithImm, AddImm, LogicImm, CmpImm, Load, Store,
         Branch, BranchRT, BranchZ, JumpReg, MulDiv, MoveFrom, MoveTo, HiLoOp
<1> HIDE DEF b
<1>3. WriteAddr(Bubble) = 0
  BY <1>1, <1>2 DEF WriteAddr
<1>4. MemMode(Bubble) = "NONE" /\ ExtType(Bubble) = "NONE"
  BY <1>1, <1>2 DEF MemMode, ExtType
<1>5. ReadStage0(Bubble) = NEVER /\ ReadStage1(Bubble) = NEVER
  BY <1>1, <1>2 DEF ReadStage0, ReadStage1
<1> QED BY <1>1, <1>2, <1>3, <1>4, <1>5 DEF b

\* Which instructions write from which stage.
LEMMA WriterFacts ==
  ASSUME NEW i
  PROVE  /\ WriteStage(i) \in {DECODE, EXECUTE, MEM}
         /\ ExtType(i) # "NONE" => WriteStage(i) = MEM
         /\ i.op \in Load => WriteStage(i) = MEM
         /\ WriteStage(i) = DECODE /\ WriteAddr(i) # 0 => i.op \in {"jal", "jalr"}
         /\ MemMode(i) # "NONE" <=> i.op \in Load \cup Store
         /\ MemMode(i) = "WRITE" <=> i.op \in Store
         /\ i.op \in Store => WriteAddr(i) = 0
<1>1. i.op \in Load => WriteStage(i) = MEM
  BY DEF WriteStage, MEM, Load, Arith3, AddSub, Logic, Compare, Shift, ShiftV, ArithImm, AddImm, LogicImm, CmpImm, MoveFrom
<1>2. ExtType(i) # "NONE" => i.op \in Load
  BY DEF ExtType
<1>3. WriteStage(i) \in {DECODE, EXECUTE, MEM}
  BY DEF WriteStage
<1>4. WriteStage(i) = DECODE /\ WriteAddr(i) # 0 => i.op \in {"jal", "jalr"}
  BY DEF WriteStage, WriteAddr, DECODE, EXECUTE, MEM
<1>5. (MemMode(i) # "NONE" <=> i.op \in Load \cup Store) /\ (MemMode(i) = "WRITE" <=> i.op \in Store)
  BY DEF MemMode, Load, Store
<1>6. i.op \in Store => WriteAddr(i) = 0
  BY DEF WriteAddr, Load, Store, Arith3, AddSub, Logic, Compare, Shift, ShiftV, ArithImm, AddImm, LogicImm, CmpImm, MoveFrom
<1> QED BY <1>1, <1>2, <1>3, <1>4, <1>5, <1>6

\* A stage without an instruction in it does nothing.
LEMMA NothingDone ==
  ASSUME NEW i, i.op = "bubble"
  PROVE  /\ WriteAddr(i) = 0 /\ MemMode(i) = "NONE" /\ i.op \notin HiLoOp
         /\ \A u, x, y : MduStart(u, i, x, y) = u
<1> DEFINE b == "bubble"
<1>1. i.op = b
  OBVIOUS
<1>2. /\ b \notin Arith3 /\ b \notin Shift /\ b \notin ShiftV /\ b \notin ArithImm /\ b \notin Load /\ b \notin Store
      /\ b \notin MulDiv /\ b \notin MoveFrom /\ b \notin MoveTo /\ b \notin HiLoOp
      /\ b \notin {"jalr", "lui", "mfc0", "mult", "multu", "div", "divu", "mtlo", "mthi"} /\ b # "jal"
  BY DEF Arith3, AddSub, Logic, Compare, Shift, ShiftV, ArithImm, AddImm, LogicImm, CmpImm, Load, Store,
         MulDiv, MoveFrom, MoveTo, HiLoOp
<1> HIDE DEF b
<1>3. WriteAddr(i) = 0 /\ MemMode(i) = "NONE" /\ i.op \notin HiLoOp
  BY <1>1, <1>2 DEF WriteAddr, MemMode
<1>4. \A u, x, y : MduStart(u, i, x, y) = u
  BY <1>1, <1>2 DEF MduStart
<1> QED BY <1>3, <1>4

\* The word behind the one at p is the one of the next address.
LEMMA AlignNext ==
  ASSUME NEW p \in Word
  PROVE  Align(U(p + 4)) = U(Align(p) + 4)
<1> DEFINE n == WORDS
           k == WORDS \div 4
           q == p \div 4
           r == p % 4
<1>1. n \in Nat \ {0} /\ k \in Nat \ {0} /\ n = 4 * k /\ p \in 0 .. n - 1
  BY WordsDivisible DEF Word
<1> HIDE DEF n, k
<1>2. q \in Int /\ r \in 0 .. 3 /\ p = 4 * q + r
  BY <1>1
<1> HIDE DEF q, r
<1>3. q \in 0 .. k - 1
  BY <1>1, <1>2
<1>4. Align(p) = 4 * q
  BY <1>2 DEF Align, r
<1>5. CASE q < k - 1
  <2>1. p + 4 \in 0 .. n - 1 /\ 4 * q + 4 \in 0 .. n - 1
    BY <1>1, <1>2, <1>3, <1>5
  <2>2. (p + 4) % n = p + 4 /\ (4 * q + 4) % n = 4 * q + 4
    BY <1>1, <2>1, SmallMod
  <2>3. (p + 4) % 4 = r
    BY <1>2
  <2> QED BY <1>2, <1>4, <2>2, <2>3 DEF Align, U, n
<1>6. CASE q = k - 1
  <2>1. p + 4 = n * 1 + r /\ r \in 0 .. n - 1 /\ 4 * q + 4 = n * 1 + 0
    BY <1>1, <1>2, <1>6
  <2>2. (p + 4) % n = r /\ (4 * q + 4) % n = 0
    BY <1>1, <1>2, <1>3, <2>1, DivUnique
  <2>3. r - (r % 4) = 0
    BY <1>2
  <2> QED BY <1>4, <2>2, <2>3 DEF Align, U, n
<1> QED BY <1>1, <1>3, <1>5, <1>6

\* The address that D computes.
LEMMA NextPcTyped ==
  ASSUME NEW i, i.imm \in Word, NEW f \in Word, NEW x \in Word, NEW y
  PROVE  NextPc(i, f, x, y, 0) \in Word
<1>1. f \in Nat /\ 4 * S(ExtHalf(i.imm)) \in Int /\ 4 * i.imm \in Int /\ 0 \in Word
  BY ExtTyped, SignedTyped, WordsAssumption DEF Word
<1>2. U(f + 4 * S(ExtHalf(i.imm))) \in Word /\ U(4 * i.imm) \in Word /\ U(f + 4) \in Word
  BY <1>1, Wraps
<1>3. f \div 2^(BITS - REGION_BITS) \in Word
  <2> DEFINE k == BITS - REGION_BITS
             p == 2^k
             q == f \div p
  <2>1. k \in 0 .. BITS
    BY WordsAssumption, DecodeAssumption
  <2>2. p \in Nat \ {0}
    BY <2>1, PowerPositive
  <2> HIDE DEF p
  <2>3. q \in Int /\ f % p \in 0 .. p - 1 /\ f = p * q + (f % p)
    <3>1. f \in Int
      BY <1>1
    <3> QED BY ONLY <2>2, <3>1, DivMod
  <2> HIDE DEF q
  <2>4. ~(q <= -1)
    <3> SUFFICES ASSUME q <= -1 PROVE FALSE
      OBVIOUS
    <3>1. p * q <= -p
      BY <2>2, <2>3
    <3> QED BY <3>1, <2>2, <2>3, <1>1
  <2>5. p * q >= q
    BY <2>2, <2>3, <2>4
  <2>6. q \in Nat /\ q <= f
    BY <1>1, <2>2, <2>3, <2>4, <2>5
  <2>7. q \in Word
    BY <2>6, WordsAssumption DEF Word
  <2> QED BY <2>7 DEF q, p
<1>4. Or(f \div 2^(BITS - REGION_BITS), U(4 * i.imm)) \in Word
  BY <1>2, <1>3, LogicTyped
<1> QED BY <1>1, <1>2, <1>4 DEF NextPc

-----------------------------------------------------------------------------
(* The execute stage and the emulator. *)

Computed == Arith3 \cup Shift \cup ShiftV \cup ArithImm \cup {"lui"}    \* instructions with a result of the ALU

\* The operand an immediate instruction gives to the ALU is the emulator's.
LEMMA EmulatorImm == \A i : Em!Simm(i) = ExtHalf(i.imm)
BY DEF Em!Simm, Em!ExtHalf, Em!HALF, Em!U, Em!WORDS, ExtHalf, HALF, U, WORDS

\* The address of a load or store is a result of the ALU.
LEMMA AluAddress ==
  ASSUME NEW i, NEW m, NEW u, i.op \in Load \cup Store
  PROVE  AluResult(i, In0(i, Em!Rs(i, m)), In1(i, Em!Rt(i, m)), u) = Em!Addr(i, m)
<1>1. In0(i, Em!Rs(i, m)) = Em!Rs(i, m) /\ In1(i, Em!Rt(i, m)) = Em!Simm(i)
  BY EmulatorImm DEF In0, In1, ExtImm, Load, Store, Shift
<1>2. \A x, y : AluResult(i, x, y, u) = U(x + y)
  BY DEF AluResult, Load, Store
<1> QED BY <1>1, <1>2 DEF Em!Addr, Em!U, Em!WORDS, U, WORDS

\* The shift of lui.
LEMMA LuiShift == \A w \in Word : Sll(w, BITS \div 2) = U(w * 2^(BITS \div 2))
<1>1. BITS \div 2 \in 0 .. BITS - 1 /\ BITS \in Nat \ {0}
  BY WordsAssumption
<1>2. (BITS \div 2) % BITS = BITS \div 2
  BY <1>1, SmallMod
<1> QED BY <1>2 DEF Sll

\* What the ALU computes is what the emulator computes.
LEMMA AluValue ==
  ASSUME NEW i, NEW m, NEW u, i.op \in Computed, i.imm \in Word
  PROVE  AluResult(i, In0(i, Em!Rs(i, m)), In1(i, Em!Rt(i, m)), u) = Em!Value(i, m)
<1> DEFINE s == Em!Rs(i, m)
           t == Em!Rt(i, m)
           x == In0(i, s)
           y == In1(i, t)
<1>1. CASE i.op \in AddSub \cup AddImm
  <2>1. x = s /\ y = Em!Operand(i, m)
    BY <1>1, EmulatorImm DEF In0, In1, ExtImm, Em!Operand, AddSub, AddImm, Shift, ArithImm, CmpImm, LogicImm, Load, Store,
                         Em!AddImm, Em!CmpImm, Em!LogicImm
  <2>2. AluResult(i, x, y, u) = Em!SumValue(i.op, x, y)
    BY <1>1 DEF AluResult, Em!SumValue, Em!U, Em!WORDS, U, WORDS, AddSub, AddImm
  <2>3. Em!Value(i, m) = Em!SumValue(i.op, s, Em!Operand(i, m))
    BY <1>1 DEF Em!Value, Em!AddSub, Em!AddImm, Em!Compare, Em!CmpImm, Em!Logic, Em!LogicImm, Em!Shift, Em!ShiftV,
                AddSub, AddImm
  <2> QED BY <2>1, <2>2, <2>3
<1>2. CASE i.op \in Compare \cup CmpImm
  <2>1. x = s /\ y = Em!Operand(i, m)
    BY <1>2, EmulatorImm DEF In0, In1, ExtImm, Em!Operand, Compare, AddImm, Shift, ArithImm, CmpImm, LogicImm, Load, Store,
                         Em!AddImm, Em!CmpImm, Em!LogicImm
  <2>2. AluResult(i, x, y, u) = Em!CompareValue(i.op, x, y)
    BY <1>2 DEF AluResult, Em!CompareValue, Em!Flag, Flag, Em!S, S, Em!WORDS, WORDS, Compare, CmpImm
  <2>3. Em!Value(i, m) = Em!CompareValue(i.op, s, Em!Operand(i, m))
    BY <1>2 DEF Em!Value, Em!AddSub, Em!AddImm, Em!Compare, Em!CmpImm, Em!Logic, Em!LogicImm, Em!Shift, Em!ShiftV,
                Compare, CmpImm
  <2> QED BY <2>1, <2>2, <2>3
<1>3. CASE i.op \in Logic \cup LogicImm
  <2>1. x = s /\ y = Em!Operand(i, m)
    BY <1>3 DEF In0, In1, ExtImm, Em!Operand, Logic, AddImm, Shift, ArithImm, CmpImm, LogicImm, Load, Store,
                Em!AddImm, Em!CmpImm, Em!LogicImm
  <2>2. AluResult(i, x, y, u) = Em!LogicValue(i.op, x, y)
    <3>1. \A c, d : Em!And(c, d) = And(c, d)
      BY DEF Em!And, And, Em!Bit, Bit
    <3> QED BY <1>3, <3>1 DEF AluResult, Em!LogicValue, Em!Or, Or, Em!Xor, Xor, Nor, Em!WORDS, WORDS, Logic, LogicImm
  <2>3. Em!Value(i, m) = Em!LogicValue(i.op, s, Em!Operand(i, m))
    BY <1>3 DEF Em!Value, Em!AddSub, Em!AddImm, Em!Compare, Em!CmpImm, Em!Logic, Em!LogicImm, Em!Shift, Em!ShiftV,
                Logic, LogicImm
  <2> QED BY <2>1, <2>2, <2>3
<1>4. CASE i.op \in Shift \cup ShiftV
  <2>1. x = (IF i.op \in Shift THEN i.imm ELSE s) /\ y = t
    BY <1>4 DEF In0, In1, Shift, ShiftV, ArithImm, AddImm, CmpImm, LogicImm, Load, Store
  <2>2. AluResult(i, x, y, u) = Em!ShiftValue(i.op, y, x)
    BY <1>4 DEF AluResult, Em!ShiftValue, Em!Sll, Sll, Em!Srl, Srl, Em!Sra, Sra, Em!U, U, Em!S, S, Em!WORDS, WORDS,
                Shift, ShiftV
  <2>3. Em!Value(i, m) = Em!ShiftValue(i.op, t, IF i.op \in Shift THEN i.imm ELSE s)
    BY <1>4 DEF Em!Value, Em!AddSub, Em!AddImm, Em!Compare, Em!CmpImm, Em!Logic, Em!LogicImm, Em!Shift, Em!ShiftV,
                Shift, ShiftV
  <2> QED BY <2>1, <2>2, <2>3
<1>5. CASE i.op = "lui"
  <2>1. x = BITS \div 2 /\ y = i.imm
    BY <1>5 DEF In0, In1, ExtImm, AddImm, CmpImm, Load, Store
  <2>2. AluResult(i, x, y, u) = Sll(y, x)
    BY <1>5 DEF AluResult
  <2>3. Em!Value(i, m) = U(i.imm * 2^(BITS \div 2))
    BY <1>5 DEF Em!Value, Em!AddSub, Em!AddImm, Em!Compare, Em!CmpImm, Em!Logic, Em!LogicImm, Em!Shift, Em!ShiftV,
                Em!U, U, Em!WORDS, WORDS
  <2> QED BY <2>1, <2>2, <2>3, LuiShift
<1> QED BY <1>1, <1>2, <1>3, <1>4, <1>5 DEF Computed, Arith3, ArithImm

\* An instruction is ignored by P6, or traps in P7, exactly if the emulator raises an
\* exception for it.
LEMMA TrapsAgree ==
  ASSUME NEW i, NEW m, i.op \in Known, Em!Addr(i, m) \in Word
  PROVE  /\ CheckOverflow(i) =>
              (Overflowed(i, In0(i, Em!Rs(i, m)), In1(i, Em!Rt(i, m))) <=> Em!Exception(i, m) # 0)
         /\ i.op \in Load \cup Store => (InvalidAddr(i, Em!Addr(i, m)) <=> Em!Exception(i, m) # 0)
         /\ ~CheckOverflow(i) /\ i.op \notin Load \cup Store => Em!Exception(i, m) = 0
<1> DEFINE s == Em!Rs(i, m)
           t == Em!Rt(i, m)
           a == Em!Addr(i, m)
<1>1. /\ \A n : Em!Fits(n) <=> n \in 0 - (WORDS \div 2) .. (WORDS \div 2) - 1
      /\ \A w : Em!S(w) = S(w)
  BY DEF Em!Fits, Em!S, S, Em!WORDS, WORDS
<1>2. CheckOverflow(i) => In0(i, s) = s /\ In1(i, t) = (IF i.op = "addi" THEN Em!Simm(i) ELSE t)
  BY EmulatorImm DEF CheckOverflow, In0, In1, ExtImm, ArithImm, AddImm, LogicImm, CmpImm, Load, Store, Shift
<1>3. CheckOverflow(i) => (Overflowed(i, In0(i, s), In1(i, t)) <=> Em!Exception(i, m) # 0)
  BY <1>1, <1>2 DEF CheckOverflow, Overflowed, Em!Exception, Em!Load, Em!Store
<1>4. ASSUME i.op \in Load \cup Store PROVE InvalidAddr(i, a) <=> Em!Exception(i, m) # 0
  <2>1. ~(a \div 4 >= WORDS \div 4) /\ a \in Int /\ a % 1 = 0
    BY WordsDivisible DEF Word
  <2>2. Em!BadAddr(i, m) <=> a % Em!Granule(i) # 0
    BY <2>1 DEF Em!BadAddr, WORDS, Em!WORDS
  <2>3. InvalidAddr(i, a) <=> a % Em!Granule(i) # 0
    BY <1>4, <2>1 DEF InvalidAddr, MemType, Em!Granule, Load, Store
  <2>4. Em!Exception(i, m) # 0 <=> Em!BadAddr(i, m)
    BY <1>4 DEF Em!Exception, Em!Load, Em!Store, Load, Store
  <2> QED BY <2>2, <2>3, <2>4
<1>5. ~CheckOverflow(i) /\ i.op \notin Load \cup Store => Em!Exception(i, m) = 0
  BY DEF CheckOverflow, Em!Exception, Em!Load, Em!Store, Load, Store
<1> QED BY <1>3, <1>4, <1>5

\* What an idle multiply/divide unit leaves in HI and LO is what the emulator leaves there.
LEMMA HiLoAgree ==
  ASSUME NEW i, NEW m, NEW u, i.op \in Known, u.lo = m.lo, u.hi = m.hi,
         u = [lo |-> m.lo, hi |-> m.hi, busy |-> 0], m = [pc |-> m.pc, grf |-> m.grf, lo |-> m.lo, hi |-> m.hi, mem |-> m.mem]
  PROVE  /\ MduStart(u, i, In0(i, Em!Rs(i, m)), In1(i, Em!Rt(i, m))).lo = Em!HiLoEffect(i, m).lo
         /\ MduStart(u, i, In0(i, Em!Rs(i, m)), In1(i, Em!Rt(i, m))).hi = Em!HiLoEffect(i, m).hi
<1> DEFINE s == Em!Rs(i, m)
           t == Em!Rt(i, m)
<1>1. /\ i.op \in MulDiv \cup MoveTo => In0(i, s) = s
      /\ i.op \in MulDiv => In1(i, t) = t
  BY DEF MulDiv, MoveTo, In0, In1, Shift, ArithImm, AddImm, LogicImm, CmpImm, Load, Store
<1> DEFINE x == In0(i, s)
           y == In1(i, t)
<1> HIDE DEF x, y, s, t
<1>2. CASE i.op \in MulDiv
  <2>1. Em!HiLoEffect(i, m) = Em!MulDivEffect(i, m)
    BY <1>2 DEF Em!HiLoEffect, Em!MulDiv, MulDiv
  <2>2. CASE i.op = "mult"
    BY <2>1, <2>2, <1>1, ZenonT(60) DEF MduStart, HiLo, MulDiv, Em!MulDivEffect, Em!Product, Em!U, U, Em!S, S, Em!WORDS, WORDS, x, y, s, t
  <2>3. CASE i.op = "multu"
    BY <2>1, <2>3, <1>1, ZenonT(60) DEF MduStart, HiLo, MulDiv, Em!MulDivEffect, Em!Product, Em!U, U, Em!S, S, Em!WORDS, WORDS, x, y, s, t
  <2>4. CASE i.op = "div"
    BY <2>1, <2>4, <1>1 DEF MduStart, MulDiv, Em!MulDivEffect, Em!Quot, Quot, Em!Rem, Rem, Em!AbsVal, AbsVal,
                             Em!U, U, Em!S, S, Em!WORDS, WORDS, x, y, s, t
  <2>5. CASE i.op = "divu"
    BY <2>1, <2>5, <1>1 DEF MduStart, MulDiv, Em!MulDivEffect, x, y, s, t
  <2> QED BY <1>2, <2>2, <2>3, <2>4, <2>5 DEF MulDiv, x, y, s, t
<1>3. CASE i.op \in MoveTo
  BY <1>3, <1>1 DEF MduStart, MoveTo, MulDiv, Em!HiLoEffect, Em!MulDiv, x, y, s, t
<1>4. CASE i.op \notin MulDiv \cup MoveTo
  BY <1>4 DEF MduStart, MulDiv, MoveTo, Em!HiLoEffect, Em!MulDiv
<1> QED BY <1>2, <1>3, <1>4

-----------------------------------------------------------------------------
(* The range of what the stages compute. *)

\* The ALU yields a word.
LEMMA AluTyped ==
  ASSUME NEW i, NEW u, i.imm \in Word, u.lo \in Word, u.hi \in Word, NEW v \in Word, NEW w \in Word
  PROVE  AluResult(i, In0(i, v), In1(i, w), u) \in Word
<1> DEFINE a == In0(i, v)
           b == In1(i, w)
<1>1. b \in Word
  <2>1. i.imm \in Int
    BY WordsAssumption DEF Word
  <2> QED BY <2>1, ExtTyped DEF In1, ExtImm
<1>2. i.op # "lui" => a \in Word
  BY DEF In0
<1>3. a \in Nat
  BY WordsAssumption DEF In0, Word
<1>4. 0 \in Word /\ 1 \in Word
  BY WordsDivisible DEF Word
<1> SUFFICES AluResult(i, a, b, u) \in Word
  OBVIOUS
<1> HIDE DEF a, b
<1>5. i.op # "lui" => a + b \in Int /\ a - b \in Int
  BY <1>1, <1>2 DEF Word
<1>6. CASE i.op \in {"sub", "subu"}
  BY <1>5, <1>6, Wraps DEF AluResult
<1>7. CASE i.op \in {"and", "andi", "or", "ori", "xor", "xori", "nor"}
  BY <1>1, <1>2, <1>7, LogicTyped DEF AluResult
<1>8. CASE i.op \in {"sll", "sllv", "lui", "srl", "srlv", "sra", "srav"}
  BY <1>1, <1>3, <1>8, ShiftTyped DEF AluResult
<1>9. CASE i.op \in {"slt", "slti", "sltu", "sltiu"}
  BY <1>4, <1>9 DEF AluResult, Flag
<1>10. CASE i.op \in {"mflo", "mfhi"}
  BY <1>10 DEF AluResult
<1>11. CASE i.op \notin {"sub", "subu", "and", "andi", "or", "ori", "xor", "xori", "nor", "sll", "sllv", "lui", "srl", "srlv",
                         "sra", "srav", "slt", "slti", "sltu", "sltiu", "mflo", "mfhi"}
  BY <1>5, <1>11, Wraps DEF AluResult
<1> QED BY <1>6, <1>7, <1>8, <1>9, <1>10, <1>11

\* So do the registers of the multiply/divide unit.
LEMMA MduStartTyped ==
  ASSUME NEW i, NEW u \in [lo : Word, hi : Word, busy : Nat], NEW v \in Word, NEW w \in Word
  PROVE  MduStart(u, i, In0(i, v), In1(i, w)) \in [lo : Word, hi : Word, busy : Nat]
<1>1. /\ i.op \in MulDiv \cup MoveTo => In0(i, v) = v
      /\ i.op \in MulDiv => In1(i, w) = w
  BY DEF MulDiv, MoveTo, In0, In1, Shift, ArithImm, AddImm, LogicImm, CmpImm, Load, Store
<1>2. MULT_CYCLES \in Nat /\ DIV_CYCLES \in Nat /\ 0 \in Word
  BY CyclesAssumption, WordsAssumption DEF Word
<1>3. ASSUME NEW n \in Int PROVE HiLo(n, MULT_CYCLES) \in [lo : Word, hi : Word, busy : Nat]
  <2>1. n \div WORDS \in Int
    BY DivMod, WordsAssumption
  <2> QED BY <1>2, <2>1, Wraps DEF HiLo
<1>4. v \in Int /\ w \in Int /\ S(v) \in Int /\ S(w) \in Int /\ (w # 0 => S(w) # 0)
  BY WordsAssumption, SignedTyped DEF Word, S
<1>5. CASE i.op \in {"mult", "multu"}
  BY <1>1, <1>3, <1>4, <1>5 DEF MduStart, MulDiv
<1>6. CASE i.op \in {"div", "divu"} /\ w = 0
  BY <1>1, <1>2, <1>6 DEF MduStart, MulDiv
<1>7. CASE i.op = "div" /\ w # 0
  <2>1. Quot(S(v), S(w)) \in Int /\ Rem(S(v), S(w)) \in Int
    BY <1>4, <1>7, QuotTyped
  <2> QED BY <1>1, <1>2, <1>7, <2>1, Wraps DEF MduStart, MulDiv
<1>8. CASE i.op = "divu" /\ w # 0
  <2>1. v \div w \in Word /\ v % w \in Word
    BY <1>8, QuotTyped
  <2> QED BY <1>1, <1>2, <1>8, <2>1 DEF MduStart, MulDiv
<1>9. CASE i.op \in MoveTo
  BY <1>1, <1>9 DEF MduStart, MoveTo
<1>10. CASE i.op \notin MulDiv \cup MoveTo
  BY <1>10 DEF MduStart, MulDiv, MoveTo
<1> QED BY <1>5, <1>6, <1>7, <1>8, <1>9, <1>10 DEF MulDiv

\* Lanes are smaller than words.
LEMMA LaneTyped ==
  ASSUME NEW w \in Word
  PROVE  /\ \A k \in 0 .. 3 : Lane(w, BYTE, k) \in Word
         /\ \A k \in 0 .. 1 : Lane(w, HALF, k) \in Word
         /\ w % BYTE \in Word /\ w % HALF \in Word
<1>1. /\ BYTE \in Nat \ {0} /\ HALF \in Nat \ {0} /\ WORDS \in Nat
      /\ BYTE <= HALF /\ HALF <= WORDS
  <2>1. BYTE \in Nat /\ BYTE >= 2 /\ HALF \in Nat /\ WORDS \in Nat /\ HALF = BYTE * BYTE /\ WORDS = HALF * HALF
    BY Sizes
  <2>2. BYTE * BYTE >= 2 * BYTE
    BY <2>1
  <2>3. HALF >= 2 /\ BYTE <= HALF
    BY <2>1, <2>2
  <2>4. HALF * HALF >= HALF
    BY <2>1, <2>3
  <2> QED BY <2>1, <2>3, <2>4
<1>2. w \in Int
  BY <1>1 DEF Word
<1>3. w % BYTE \in 0 .. BYTE - 1 /\ w % HALF \in 0 .. HALF - 1
  BY <1>1, <1>2, DivMod
<1>4. 0 .. BYTE - 1 \subseteq Word /\ 0 .. HALF - 1 \subseteq Word
  BY <1>1 DEF Word
<1> QED BY <1>3, <1>4, ByteLanes, HalfLanes

\* The lane that a load hands on.
LEMMA ReadTyped ==
  ASSUME NEW i, NEW a \in Int, NEW w \in Word
  PROVE  ReadLane(i, a, w) \in Word
<1>1. a % 4 \in 0 .. 3 /\ (a \div 2) % 2 \in 0 .. 1
  OBVIOUS
<1> QED BY <1>1, LaneTyped DEF ReadLane

\* What becomes of it in W.
LEMMA WriteBackTyped == \A w \in Word : \A ext : WriteBack(ext, w) \in Word
<1> SUFFICES ASSUME NEW w \in Word, NEW ext PROVE WriteBack(ext, w) \in Word
  OBVIOUS
<1>1. w \in Int
  BY WordsAssumption DEF Word
<1> QED BY <1>1, LaneTyped, ExtTyped DEF WriteBack

\* Four bytes make a word.
LEMMA FourBytes ==
  ASSUME NEW b0 \in 0 .. BYTE - 1, NEW b1 \in 0 .. BYTE - 1, NEW b2 \in 0 .. BYTE - 1, NEW b3 \in 0 .. BYTE - 1
  PROVE  b0 + BYTE * (b1 + BYTE * (b2 + BYTE * b3)) \in Word
<1> DEFINE n == BYTE
<1>1. n \in Nat /\ n >= 2 /\ WORDS = (n * n) * (n * n)
  BY Sizes
<1> HIDE DEF n
<1>2. ASSUME NEW m \in Nat, NEW q \in 0 .. m - 1, NEW b \in 0 .. n - 1 PROVE b + n * q \in 0 .. n * m - 1
  <2>1. n * q <= n * (m - 1) /\ n * q >= 0
    BY <1>1, <1>2
  <2>2. n * (m - 1) = n * m - n /\ n * m \in Nat
    BY <1>1, <1>2
  <2> QED BY <1>1, <1>2, <2>1, <2>2
<1>3. n * n \in Nat /\ n * (n * n) \in Nat /\ n * (n * (n * n)) = WORDS
  BY <1>1
<1>4. b2 + n * b3 \in 0 .. n * n - 1
  BY <1>1, <1>2 DEF n
<1>5. b1 + n * (b2 + n * b3) \in 0 .. n * (n * n) - 1
  BY <1>2, <1>3, <1>4 DEF n
<1>6. b0 + n * (b1 + n * (b2 + n * b3)) \in 0 .. n * (n * (n * n)) - 1
  BY <1>2, <1>3, <1>5 DEF n
<1> QED BY <1>3, <1>6 DEF Word, n

\* A store leaves a word in memory.
LEMMA WriteTyped ==
  ASSUME NEW i, NEW a \in Int, NEW w \in Word, NEW v \in Word
  PROVE  WriteLane(i, a, w, v) \in Word
<1> DEFINE n == BYTE
           b0 == Lane(w, BYTE, 0)
           b1 == Lane(w, BYTE, 1)
           b2 == Lane(w, BYTE, 2)
           b3 == Lane(w, BYTE, 3)
           c0 == Lane(v, BYTE, 0)
           c1 == Lane(v, BYTE, 1)
           Quad(x0, x1, x2, x3) == x0 + n * (x1 + n * (x2 + n * x3))
<1>1. /\ b0 \in 0 .. n - 1 /\ b1 \in 0 .. n - 1 /\ b2 \in 0 .. n - 1 /\ b3 \in 0 .. n - 1
      /\ w = b0 + n * (b1 + n * (b2 + n * b3)) /\ n \in Nat /\ HALF = n * n
      /\ b0 + n * b1 = Lane(w, HALF, 0) /\ b2 + n * b3 = Lane(w, HALF, 1)
      /\ b0 = Lane(w, n, 0) /\ b1 = Lane(w, n, 1) /\ b2 = Lane(w, n, 2) /\ b3 = Lane(w, n, 3)
  BY ByteLanes, HalfLanes, Sizes
<1>2. c0 \in 0 .. n - 1 /\ c1 \in 0 .. n - 1 /\ v % n = c0 /\ v % HALF = c0 + n * c1
  <2>1. v \in Int /\ v \div 1 = v
    BY WordsAssumption DEF Word
  <2>2. Lane(v, BYTE, 0) = v % BYTE /\ Lane(v, HALF, 0) = v % HALF
    BY <2>1, PowerAssumption DEF Lane
  <2> QED BY <2>2, ByteLanes, HalfLanes
<1>3. n^0 = 1 /\ n^1 = n /\ n^2 = n * n /\ n^3 = n * n * n /\ HALF^0 = 1 /\ HALF^1 = HALF
  BY PowerAssumption
<1>4. \A x0, x1, x2, x3 \in 0 .. n - 1 : Quad(x0, x1, x2, x3) \in Word
  BY FourBytes
<1>5. a % 4 \in 0 .. 3 /\ (a \div 2) % 2 \in 0 .. 1
  OBVIOUS
<1> HIDE DEF n, b0, b1, b2, b3, c0, c1
<1>6. SetLane(w, n, 0, v) \in Word
  <2>1. SetLane(w, n, 0, v) = w + (c0 - b0)
    BY <1>1, <1>2, <1>3 DEF SetLane
  <2>2. w + (c0 - b0) = Quad(c0, b1, b2, b3)
    BY <1>1, <1>2
  <2> HIDE DEF Quad
  <2> QED BY <2>1, <2>2, <1>4, <1>1, <1>2
<1>7. SetLane(w, n, 1, v) \in Word
  <2>1. SetLane(w, n, 1, v) = w + (c0 - b1) * n
    BY <1>1, <1>2, <1>3 DEF SetLane
  <2>2. Quad(b0, c0, b2, b3) = w + (c0 - b1) * n
    BY <1>1, <1>2
  <2> HIDE DEF Quad
  <2> QED BY <2>1, <2>2, <1>4, <1>1, <1>2
<1>8. SetLane(w, n, 2, v) \in Word
  <2>1. SetLane(w, n, 2, v) = w + (c0 - b2) * (n * n)
    BY <1>1, <1>2, <1>3 DEF SetLane
  <2>2. Quad(b0, b1, c0, b3) = w + (c0 - b2) * (n * n)
    BY <1>1, <1>2
  <2> HIDE DEF Quad
  <2> QED BY <2>1, <2>2, <1>4, <1>1, <1>2
<1>9. SetLane(w, n, 3, v) \in Word
  <2>1. SetLane(w, n, 3, v) = w + (c0 - b3) * (n * n * n)
    BY <1>1, <1>2, <1>3 DEF SetLane
  <2>2. Quad(b0, b1, b2, c0) = w + (c0 - b3) * (n * n * n)
    BY <1>1, <1>2
  <2> HIDE DEF Quad
  <2> QED BY <2>1, <2>2, <1>4, <1>1, <1>2
<1>10. SetLane(w, HALF, 0, v) \in Word
  <2>1. SetLane(w, HALF, 0, v) = w + (c0 + n * c1 - (b0 + n * b1))
    BY <1>1, <1>2, <1>3 DEF SetLane
  <2>2. Quad(c0, c1, b2, b3) = w + (c0 + n * c1 - (b0 + n * b1))
    BY <1>1, <1>2
  <2> HIDE DEF Quad
  <2> QED BY <2>1, <2>2, <1>4, <1>1, <1>2
<1>11. SetLane(w, HALF, 1, v) \in Word
  <2>1. SetLane(w, HALF, 1, v) = w + (c0 + n * c1 - (b2 + n * b3)) * (n * n)
    BY <1>1, <1>2, <1>3 DEF SetLane
  <2>2. Quad(b0, b1, c0, c1) = w + (c0 + n * c1 - (b2 + n * b3)) * (n * n)
    BY <1>1, <1>2
  <2> HIDE DEF Quad
  <2> QED BY <2>1, <2>2, <1>4, <1>1, <1>2
<1>12. SetLane(w, BYTE, a % 4, v) \in Word
  BY <1>5, <1>6, <1>7, <1>8, <1>9 DEF n
<1>13. SetLane(w, HALF, (a \div 2) % 2, v) \in Word
  BY <1>5, <1>10, <1>11
<1> QED BY <1>12, <1>13 DEF WriteLane

-----------------------------------------------------------------------------
(* Whole instructions. *)

\* The address that D computes behind an instruction at m.pc is where the emulator goes.
LEMMA BranchTarget ==
  ASSUME NEW i, i.op \in Known \ {"eret"}, i.imm \in Word, NEW m, m.pc \in Word, NEW f \in Word, NEW x, NEW y,
         i.op \in BranchRT \cup BranchZ \cup JumpReg => x = Em!Rs(i, m),
         i.op \in BranchRT => y = Em!Rt(i, m),
         i.op \in Branch => f = U(m.pc + 4),
         i.op \in {"j", "jal"} => 4 * i.imm < 2^(BITS - REGION_BITS) /\ m.pc + 4 < 2^(BITS - REGION_BITS)
  PROVE  NextPc(i, f, x, y, 0) = IF Em!BranchResult(i, m) = <<>> THEN U(f + 4) ELSE Em!BranchResult(i, m)[1]
<1>1. \A w : Em!S(w) = S(w) /\ Em!U(w) = U(w)
  BY DEF Em!S, S, Em!U, U, Em!WORDS, WORDS
<1>2. CASE i.op \notin Branch
  <2>1. Em!BranchResult(i, m) = <<>>
    BY <1>2 DEF Em!BranchResult, Em!Branch, Em!BranchRT, Em!BranchZ, Em!JumpReg, Branch, BranchRT, BranchZ, JumpReg
  <2>2. NextPc(i, f, x, y, 0) = U(f + 4)
    BY <1>2 DEF NextPc, ShouldBranch, Branch, BranchRT, BranchZ, JumpReg
  <2> QED BY <2>1, <2>2
<1>3. CASE i.op \in BranchRT \cup BranchZ
  <2>1. ShouldBranch(i, x, y) <=> Em!Taken(i, m)
    BY <1>1, <1>3 DEF ShouldBranch, Em!Taken, Em!JumpReg, BranchRT, BranchZ
  <2>2. Em!BranchResult(i, m) = IF Em!Taken(i, m) THEN <<Em!Target(i, m)>> ELSE <<>>
    BY <1>3 DEF Em!BranchResult, Em!Branch, Em!BranchRT, Em!BranchZ, Em!JumpReg, BranchRT, BranchZ
  <2>3. U(f + 4 * S(ExtHalf(i.imm))) = Em!Target(i, m)
    <3> DEFINE d == 4 * S(ExtHalf(i.imm))
               p == m.pc
    <3>1. d \in Int /\ p \in Int
      BY ExtTyped, SignedTyped, WordsAssumption DEF Word
    <3>2. Em!Target(i, m) = U(U(p + d) + 4)
      BY <1>1, <1>3, EmulatorImm DEF Em!Target, Em!JumpReg, BranchRT, BranchZ
    <3>3. f = U(p + 4)
      BY <1>3 DEF Branch
    <3> HIDE DEF d, p
    <3>4. U(U(p + d) + 4) = U((p + d) + 4) /\ U(U(p + 4) + d) = U((p + 4) + d)
      BY <3>1, WrapAdd
    <3>5. (p + d) + 4 = (p + 4) + d
      BY <3>1
    <3>6. U(f + d) = Em!Target(i, m)
      BY <3>2, <3>3, <3>4, <3>5
    <3> QED BY <3>6 DEF d
  <2>4. NextPc(i, f, x, y, 0) = IF ShouldBranch(i, x, y) THEN U(f + 4 * S(ExtHalf(i.imm))) ELSE U(f + 4)
    BY <1>3 DEF NextPc, BranchRT, BranchZ, JumpReg
  <2> QED BY <2>1, <2>2, <2>3, <2>4
<1>4. CASE i.op \in {"j", "jal"}
  <2> DEFINE R == 2^(BITS - REGION_BITS)
             p == m.pc
             t == 4 * i.imm
  <2>1. R \in Nat \ {0} /\ R <= WORDS
    <3> DEFINE h == BITS - REGION_BITS
    <3>1. h \in 0 .. BITS /\ REGION_BITS \in 0 .. BITS /\ h + REGION_BITS = BITS /\ BITS \in Nat
      BY WordsAssumption, DecodeAssumption
    <3> HIDE DEF h
    <3>2. 2^(h + REGION_BITS) = 2^h * 2^REGION_BITS
      BY <3>1, PowerAdd
    <3>3. 2^h \in Nat \ {0} /\ 2^REGION_BITS \in Nat \ {0}
      BY <3>1, PowerPositive
    <3>4. 2^h * 2^REGION_BITS >= 2^h
      BY <3>3
    <3>5. 2^h <= WORDS
      BY <3>1, <3>2, <3>4 DEF WORDS
    <3> QED BY <3>3, <3>5 DEF h
  <2>2. t < R /\ p + 4 < R /\ p \in Nat /\ t \in Nat /\ WORDS \in Nat /\ f = U(p + 4)
    BY <1>4, WordsAssumption DEF Word, Branch
  <2>3. Em!Target(i, m) = (p \div R) * R + (U(t) % R)
    BY <1>1, <1>4 DEF Em!Target, Em!Region, Em!JumpReg
  <2>4. NextPc(i, f, x, y, 0) = Or(f \div R, U(t))
    BY <1>4 DEF NextPc, ShouldBranch, JumpReg
  <2> HIDE DEF R, p, t
  <2>5. p + 4 \in Word /\ t \in Word
    BY <2>1, <2>2 DEF Word
  <2>6. f = p + 4 /\ U(t) = t
    BY <2>2, <2>5, Wraps
  <2>7. f \div R = 0 /\ p \div R = 0 /\ t % R = t
    BY <2>1, <2>2, <2>6, SmallMod
  <2>8. Em!Target(i, m) = t
    BY <2>1, <2>2, <2>3, <2>6, <2>7
  <2>9. Or(0, t) = t
    BY <2>5, OrZero
  <2>10. Em!BranchResult(i, m) = <<Em!Target(i, m)>>
    BY <1>4 DEF Em!BranchResult, Em!Taken, Em!Branch
  <2> QED BY <2>4, <2>6, <2>7, <2>8, <2>9, <2>10
<1>5. CASE i.op \in JumpReg
  <2>1. Em!BranchResult(i, m) = <<Em!Target(i, m)>>
    BY <1>5 DEF Em!BranchResult, Em!Taken, Em!Branch, Em!JumpReg, JumpReg
  <2>2. Em!Target(i, m) = x
    BY <1>5 DEF Em!Target, Em!JumpReg, JumpReg
  <2>3. NextPc(i, f, x, y, 0) = x
    BY <1>5 DEF NextPc, ShouldBranch, JumpReg
  <2> QED BY <2>1, <2>2, <2>3
<1> QED BY <1>2, <1>3, <1>4, <1>5 DEF Branch

\* What the stages make of an instruction that works on the machine m: the output of the ALU,
\* of an idle multiply/divide unit, and the value that is written to its register.
Unit(m) == [lo |-> m.lo, hi |-> m.hi, busy |-> 0]
AluOut(i, m) == AluResult(i, In0(i, Em!Rs(i, m)), In1(i, Em!Rt(i, m)), Unit(m))
UnitOut(i, m) == MduStart(Unit(m), i, In0(i, Em!Rs(i, m)), In1(i, Em!Rt(i, m)))
ValueOut(i, m) ==
  IF WriteStage(i) = EXECUTE THEN AluOut(i, m)
  ELSE IF WriteStage(i) = MEM THEN WriteBack(ExtType(i), ReadLane(i, AluOut(i, m), m.mem[AluOut(i, m) \div 4]))
  ELSE U(m.pc + 8)

\* An instruction that raises no exception leaves behind what the emulator leaves: its ALU
\* result, its loaded and extended lane or its link in its register, its stored lane in
\* memory, and HI and LO.
LEMMA Completes ==
  ASSUME NEW i, NEW m, m = [pc |-> m.pc, grf |-> m.grf, lo |-> m.lo, hi |-> m.hi, mem |-> m.mem],
         i.op \in Known \ {"mfc0", "mtc0", "eret"}, i.imm \in Word,
         Em!Rs(i, m) \in Word, Em!Rt(i, m) \in Word, Em!Exception(i, m) = 0,
         i.op \in Load \cup Store => m.mem[Em!Addr(i, m) \div 4] \in Word
  PROVE  Em!Effect(i, m) =
           [pc |-> m.pc,
            grf |-> IF WriteAddr(i) = 0 THEN m.grf ELSE [m.grf EXCEPT ![WriteAddr(i)] = ValueOut(i, m)],
            lo |-> UnitOut(i, m).lo, hi |-> UnitOut(i, m).hi,
            mem |-> IF i.op \in Store
                    THEN [m.mem EXCEPT ![Em!Addr(i, m) \div 4] =
                            WriteLane(i, Em!Addr(i, m), m.mem[Em!Addr(i, m) \div 4], Em!Rt(i, m))]
                    ELSE m.mem]
<1> DEFINE u == Unit(m)
           x == AluOut(i, m)
           h == UnitOut(i, m)
           v == ValueOut(i, m)
           a == Em!Addr(i, m)
           Stores == [m.mem EXCEPT ![a \div 4] = WriteLane(i, a, m.mem[a \div 4], Em!Rt(i, m))]
<1>0. /\ u = [lo |-> m.lo, hi |-> m.hi, busy |-> 0]
      /\ x = AluResult(i, In0(i, Em!Rs(i, m)), In1(i, Em!Rt(i, m)), u)
      /\ h = MduStart(u, i, In0(i, Em!Rs(i, m)), In1(i, Em!Rt(i, m)))
      /\ v = IF WriteStage(i) = EXECUTE THEN x
             ELSE IF WriteStage(i) = MEM THEN WriteBack(ExtType(i), ReadLane(i, x, m.mem[x \div 4]))
             ELSE U(m.pc + 8)
  BY DEF Unit, AluOut, UnitOut, ValueOut
<1> DEFINE H == Em!HiLoEffect(i, m)
           Machine(g, mm) == [pc |-> m.pc, grf |-> g, lo |-> H.lo, hi |-> H.hi, mem |-> mm]
<1>1. h.lo = H.lo /\ h.hi = H.hi
  BY <1>0, HiLoAgree
<1>2. i.op \notin MulDiv \cup MoveTo => H = m
  BY DEF Em!HiLoEffect, Em!MulDiv, MulDiv, MoveTo
<1>3. Em!Addr(i, m) \in Word
  <2>1. ExtHalf(i.imm) \in Int /\ Em!Rs(i, m) \in Int
    BY ExtTyped, WordsAssumption DEF Word
  <2>2. U(Em!Rs(i, m) + ExtHalf(i.imm)) \in Word
    BY <2>1, Wraps
  <2> QED BY <2>2, EmulatorImm DEF Em!Addr, Em!U, U, Em!WORDS, WORDS
<1>4. i.op \in Load \cup Store => x = a /\ ~InvalidAddr(i, a)
  BY <1>0, <1>3, AluAddress, TrapsAgree
<1>5. \A r, w : Em!SetGrf(m, r, w) =
          [pc |-> m.pc, grf |-> IF r = 0 THEN m.grf ELSE [m.grf EXCEPT ![r] = w], lo |-> m.lo, hi |-> m.hi, mem |-> m.mem]
  BY DEF Em!SetGrf
<1> SUFFICES Em!Effect(i, m) =
      Machine(IF WriteAddr(i) = 0 THEN m.grf ELSE [m.grf EXCEPT ![WriteAddr(i)] = v],
              IF i.op \in Store THEN Stores ELSE m.mem)
  BY <1>1
<1> HIDE DEF H, x, v, h, u, a
<1>6. CASE i.op \in Computed
  <2>1. v = Em!Value(i, m)
    <3>1. WriteStage(i) = EXECUTE
      BY <1>6 DEF WriteStage, EXECUTE, Computed
    <3>2. x = Em!Value(i, m)
      BY <1>0, <1>6, AluValue
    <3> QED BY <1>0, <3>1, <3>2
  <2>2. Em!Effect(i, m) = Em!SetGrf(m, WriteAddr(i), v)
    BY <1>6, <2>1 DEF Em!Effect, WriteAddr, Computed, MoveFrom, Load, Em!Load, Em!Store, Em!Arith3, Em!AddSub, Em!Logic, Em!Compare, Em!Shift, Em!ShiftV,
           Em!ArithImm, Em!AddImm, Em!LogicImm, Em!CmpImm,
           Arith3, AddSub, Logic, Compare, Shift, ShiftV, ArithImm, AddImm, LogicImm, CmpImm
  <2>3. i.op \notin Store /\ i.op \notin MulDiv \cup MoveTo
    BY <1>6 DEF Computed, Arith3, AddSub, Logic, Compare, Shift, ShiftV, ArithImm, AddImm, LogicImm, CmpImm, Store, MulDiv, MoveTo
  <2> QED BY <1>2, <1>5, <2>2, <2>3
<1>7. CASE i.op \in Load
  <2>1. v = Em!LoadValue(i, m)
    <3>1. WriteStage(i) = MEM
      BY <1>7 DEF WriteStage, MEM, Load, Arith3, AddSub, Logic, Compare, Shift, ShiftV, ArithImm, AddImm, LogicImm, CmpImm, MoveFrom
    <3>2. Em!Addr(i, m) \in Int
      BY <1>3, WordsAssumption DEF Word
    <3> QED BY <1>0, <1>4, <1>7, <3>1, <3>2, LoadedLane DEF MEM, EXECUTE, a
  <2>2. Em!Effect(i, m) = Em!SetGrf(m, WriteAddr(i), v)
    BY <1>7, <2>1 DEF Em!Effect, WriteAddr, Load, Em!Load, Em!Store, Em!Arith3, Em!AddSub, Em!Logic, Em!Compare, Em!Shift, Em!ShiftV,
           Em!ArithImm, Em!AddImm, Em!LogicImm, Em!CmpImm,
           Arith3, AddSub, Logic, Compare, Shift, ShiftV, ArithImm, AddImm, LogicImm, CmpImm, MoveFrom
  <2>3. i.op \notin Store /\ i.op \notin MulDiv \cup MoveTo
    BY <1>7 DEF Load, Store, MulDiv, MoveTo
  <2> QED BY <1>2, <1>5, <2>2, <2>3
<1>8. CASE i.op \in Store
  <2>1. WriteLane(i, a, m.mem[a \div 4], Em!Rt(i, m)) = Em!StoreValue(i, m)
    <3>1. Em!Addr(i, m) \in Int
      BY <1>3, WordsAssumption DEF Word
    <3> QED BY <1>4, <1>8, <3>1, StoredLane DEF a
  <2>2. Em!Effect(i, m) = [m EXCEPT !.mem[Em!Addr(i, m) \div 4] = Em!StoreValue(i, m)]
    BY <1>8 DEF Em!Effect, Store, Em!Store, Em!Load, Em!Arith3, Em!AddSub, Em!Logic, Em!Compare, Em!Shift, Em!ShiftV,
           Em!ArithImm, Em!AddImm, Em!LogicImm, Em!CmpImm
  <2>3. WriteAddr(i) = 0 /\ i.op \notin MulDiv \cup MoveTo
    BY <1>8, SMTT(30) DEF WriteAddr, Load, Store, MulDiv, MoveTo, Arith3, AddSub, Logic, Compare, Shift, ShiftV, ArithImm, AddImm,
                LogicImm, CmpImm, MoveFrom
  <2> QED BY <1>2, <1>4, <1>8, <2>1, <2>2, <2>3 DEF a
<1>9. CASE i.op \in MoveFrom
  <2>1. WriteStage(i) = EXECUTE /\ x = (IF i.op = "mflo" THEN m.lo ELSE m.hi) /\ v = x
    BY <1>0, <1>9 DEF WriteStage, MoveFrom, AluResult
  <2>2. Em!Effect(i, m) = Em!SetGrf(m, WriteAddr(i), v)
    BY <1>9, <2>1 DEF Em!Effect, WriteAddr, Load, Em!Load, Em!Store, Em!Arith3, Em!AddSub, Em!Logic, Em!Compare, Em!Shift, Em!ShiftV,
           Em!ArithImm, Em!AddImm, Em!LogicImm, Em!CmpImm,
           Arith3, AddSub, Logic, Compare, Shift, ShiftV, ArithImm, AddImm, LogicImm, CmpImm, MoveFrom
  <2>3. i.op \notin Store /\ i.op \notin MulDiv \cup MoveTo
    BY <1>9 DEF MoveFrom, Store, MulDiv, MoveTo
  <2> QED BY <1>2, <1>5, <2>2, <2>3
<1>10. CASE i.op \in {"jal", "jalr"}
  <2>1. v = U(m.pc + 8)
    BY <1>0, <1>10 DEF WriteStage, DECODE, EXECUTE, MEM, Load, Arith3, AddSub, Logic, Compare, Shift, ShiftV, ArithImm, AddImm,
                 LogicImm, CmpImm, MoveFrom
  <2>2. Em!Effect(i, m) = Em!SetGrf(m, WriteAddr(i), v)
    BY <1>10, <2>1 DEF Em!Effect, WriteAddr, Load, Em!Load, Em!Store, Em!Arith3, Em!AddSub, Em!Logic, Em!Compare, Em!Shift, Em!ShiftV,
           Em!ArithImm, Em!AddImm, Em!LogicImm, Em!CmpImm, Em!U, U, Em!WORDS, WORDS,
           Arith3, AddSub, Logic, Compare, Shift, ShiftV, ArithImm, AddImm, LogicImm, CmpImm, MoveFrom
  <2>3. i.op \notin Store /\ i.op \notin MulDiv \cup MoveTo
    BY <1>10 DEF Store, MulDiv, MoveTo
  <2> QED BY <1>2, <1>5, <2>2, <2>3
<1>11. CASE i.op \in BranchRT \cup BranchZ \cup {"j", "jr"} \cup MulDiv \cup MoveTo
  <2>1. Em!Effect(i, m) = H
    BY <1>11 DEF Em!Effect, H, BranchRT, BranchZ, MulDiv, MoveTo, Em!Load, Em!Store, Em!Arith3, Em!AddSub, Em!Logic,
           Em!Compare, Em!Shift, Em!ShiftV, Em!ArithImm, Em!AddImm, Em!LogicImm, Em!CmpImm
  <2>2. WriteAddr(i) = 0 /\ i.op \notin Store
    BY <1>11 DEF WriteAddr, BranchRT, BranchZ, MulDiv, MoveTo, Load, Store, Arith3, AddSub, Logic, Compare, Shift, ShiftV,
           ArithImm, AddImm, LogicImm, CmpImm, MoveFrom
  <2>3. H = Machine(m.grf, m.mem)
    BY DEF H, Em!HiLoEffect, Em!MulDivEffect, Em!Product, Em!MulDiv
  <2> QED BY <2>1, <2>2, <2>3
<1> QED BY <1>6, <1>7, <1>8, <1>9, <1>10, <1>11
        DEF Known, Computed, Branch, JumpReg, HiLoOp, Arith3, ArithImm
=============================================================================
