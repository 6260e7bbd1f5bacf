------------------------------- MODULE Words -------------------------------
(***************************************************************************)
(* Machine words of BITS bits: a word is its unsigned value, a byte is a    *)
(* quarter of it and a half word a half.  The CPU and the emulator use      *)
(* BITS = 32; model checking uses 8, which keeps every field in proportion. *)
(***************************************************************************)
EXTENDS Integers

CONSTANT BITS    \* width of a word

WORDS == 2^BITS
BYTE  == 2^(BITS \div 4)
HALF  == 2^(BITS \div 2)
Word  == 0 .. WORDS - 1

ASSUME WordsAssumption == /\ BITS \in Nat \ {0} /\ BITS % 4 = 0
                          /\ WORDS \in Nat \ {0}

\* What Naturals defines powers to be, for those that occur here: the provers know
\* nothing of exponentiation.
ASSUME PowerAssumption ==
  /\ 2^0 = 1 /\ \A k \in 0 .. BITS - 1 : 2^(k + 1) = 2 * 2^k
  /\ \A size \in {BYTE, HALF} : size^0 = 1 /\ size^1 = size
  /\ BYTE^2 = BYTE * BYTE /\ BYTE^3 = BYTE * BYTE * BYTE

U(n) == n % WORDS                                         \* wrap to a word
S(w) == IF w < WORDS \div 2 THEN w ELSE w - WORDS         \* two's complement
Bit(w, k) == (w \div 2^k) % 2
Flag(b) == IF b THEN 1 ELSE 0
Align(w) == w - (w % 4)

\* Sign extensions of the low byte and the low half of a word.
ExtByte(w) == LET b == w % BYTE IN IF b < BYTE \div 2 THEN b ELSE U(b - BYTE)
ExtHalf(w) == LET h == w % HALF IN IF h < HALF \div 2 THEN h ELSE U(h - HALF)

And(a, b) ==
  LET low[k \in 0 .. BITS] ==    \* conjunction of the k low bits
        IF k = 0 THEN 0 ELSE low[k - 1] + 2^(k - 1) * Bit(a, k - 1) * Bit(b, k - 1)
  IN  low[BITS]
Or(a, b)  == a + b - And(a, b)
Xor(a, b) == a + b - 2 * And(a, b)
Nor(a, b) == WORDS - 1 - Or(a, b)

\* Shifts use the low log2(BITS) bits of the amount.
Sll(w, n) == U(w * 2^(n % BITS))
Srl(w, n) == w \div 2^(n % BITS)
Sra(w, n) == U(S(w) \div 2^(n % BITS))

\* Signed division truncates towards zero, as Verilog's and Rust's do.
AbsVal(n) == IF n < 0 THEN 0 - n ELSE n
Quot(a, b) == LET q == AbsVal(a) \div AbsVal(b)
              IN  IF (a < 0) = (b < 0) THEN q ELSE 0 - q
Rem(a, b)  == a - b * Quot(a, b)

\* Lane k of a word, counted in units of `size' (BYTE or HALF) from the low end.
Lane(w, size, k) == (w \div size^k) % size
SetLane(w, size, k, v) == w + ((v % size) - Lane(w, size, k)) * size^k
=============================================================================
