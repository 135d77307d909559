------------------------------ MODULE I2cProofs -------------------------------
(***************************************************************************)
(* Proofs about the I2C bus, for every width of a byte, every call of the  *)
(* user and every state the slave may have been left in: when a call says  *)
(* that it succeeded, what it wrote is in the memory of the slave and what *)
(* it read is what the memory holds.                                       *)
(*                                                                         *)
(* The invariant says where the slave is at every line of every bit of     *)
(* every operation, and how much of the call is written and read by then.  *)
(* It rests on arithmetic of bytes and their bits, on the list of the      *)
(* operations of a call, and on what the slave does with one edge of SCL.  *)
(***************************************************************************)
EXTENDS I2c, FiniteSetTheorems, SequenceTheorems, TLAPS

-----------------------------------------------------------------------------
(* The quotient and the remainder are the only ones.                       *)
LEMMA Quotient ==
  ASSUME NEW n \in Int, NEW d \in Nat \ {0}, NEW q \in Int, NEW r \in 0 .. d - 1, n = d * q + r
  PROVE  n \div d = q /\ n % d = r
<1>1. PICK u \in Int, v \in 0 .. d - 1 : n = d * u + v /\ u = n \div d /\ v = n % d
  OBVIOUS
<1>2. PICK w \in Int : w = u - q
  OBVIOUS
<1>3. d * w = r - v
  <2>1. PICK x \in Int, y \in Int : x = d * u /\ y = d * q
    OBVIOUS
  <2>2. d * (u - q) = d * u - d * q
    OBVIOUS
  <2>3. n = y + r /\ n = x + v
    BY <1>1, <2>1
  <2>4. x - y = r - v
    BY <2>3
  <2>5. QED
    BY <1>2, <2>1, <2>2, <2>4
<1>4. (w >= 1 => d * w >= d) /\ (w <= -1 => d * w <= - d)
  OBVIOUS
<1>5. w = 0
  BY <1>3, <1>4
<1>6. d * w = 0
  BY <1>5
<1>7. QED
  BY <1>1, <1>2, <1>3, <1>5, <1>6

(* Powers of two: a set with an element more has twice as many subsets.    *)
LEMMA PowerOfTwo ==
  ASSUME NEW k \in Nat
  PROVE  2 ^ k \in Nat \ {0} /\ 2 ^ (k + 1) = 2 * 2 ^ k
<1> DEFINE S == 1 .. k
           T == 1 .. k + 1
           U == {B \cup {k + 1} : B \in SUBSET S}
           f == [B \in SUBSET S |-> B \cup {k + 1}]
<1>1. IsFiniteSet(S) /\ Cardinality(S) = k /\ IsFiniteSet(T) /\ Cardinality(T) = k + 1
  BY FS_Interval
<1>2. /\ IsFiniteSet(SUBSET S) /\ Cardinality(SUBSET S) = 2 ^ k
      /\ IsFiniteSet(SUBSET T) /\ Cardinality(SUBSET T) = 2 ^ (k + 1)
  <2>1. IsFiniteSet(SUBSET S) /\ Cardinality(SUBSET S) = 2 ^ Cardinality(S)
    BY <1>1, FS_SUBSET
  <2>2. IsFiniteSet(SUBSET T) /\ Cardinality(SUBSET T) = 2 ^ Cardinality(T)
    BY <1>1, FS_SUBSET
  <2>3. QED
    BY <1>1, <2>1, <2>2, Zenon
<1>3. k + 1 \notin S /\ \A i : i \in T <=> i \in S \/ i = k + 1
  OBVIOUS
<1>4. f \in Bijection(SUBSET S, U)
  <2>1. f \in [SUBSET S -> U]
    OBVIOUS
  <2>2. \A B, C \in SUBSET S : f[B] = f[C] => B = C
    <3>1. SUFFICES ASSUME NEW B \in SUBSET S, NEW C \in SUBSET S, B \cup {k + 1} = C \cup {k + 1}
                   PROVE  B = C
      BY Zenon
    <3>2. k + 1 \notin B /\ k + 1 \notin C
      BY <1>3
    <3>3. QED
      BY <3>1, <3>2
  <2>3. \A V \in U : \E B \in SUBSET S : f[B] = V
    OBVIOUS
  <2>4. QED
    BY <2>1, <2>2, <2>3, Zenon DEF Bijection, Injection, Surjection, IsInjective
<1>5. IsFiniteSet(U) /\ Cardinality(U) = 2 ^ k
  BY <1>2, <1>4, FS_Bijection DEF ExistsBijection
<1>6. SUBSET T = (SUBSET S) \cup U
  <2>1. ASSUME NEW V \in SUBSET T PROVE V \in (SUBSET S) \cup U
    <3>1. CASE k + 1 \notin V
      BY <1>3, <2>1, <3>1
    <3>2. CASE k + 1 \in V
      <4>1. V \ {k + 1} \in SUBSET S /\ V = (V \ {k + 1}) \cup {k + 1}
        BY <1>3, <2>1, <3>2
      <4>2. QED
        BY <4>1
    <3>3. QED
      BY <3>1, <3>2
  <2>2. ASSUME NEW V \in (SUBSET S) \cup U PROVE V \in SUBSET T
    BY <1>3, <2>2
  <2>3. QED
    BY <2>1, <2>2
<1>7. (SUBSET S) \cap U = {}
  BY <1>3
<1>8. Cardinality((SUBSET S) \cap U) = 0
  BY <1>7, FS_EmptySet
<1>9. 2 ^ (k + 1) = 2 ^ k + 2 ^ k - 0
  <2>1. Cardinality((SUBSET S) \cup U)
          = Cardinality(SUBSET S) + Cardinality(U) - Cardinality((SUBSET S) \cap U)
    BY <1>2, <1>5, FS_Union
  <2>2. QED
    BY <1>2, <1>5, <1>6, <1>8, <2>1, Zenon
<1>10. 2 ^ k \in Nat /\ 2 ^ k # 0
  <2>1. Cardinality(SUBSET S) \in Nat
    BY <1>2, FS_CardinalityType
  <2>2. SUBSET S # {}
    OBVIOUS
  <2>3. Cardinality(SUBSET S) # 0
    BY <1>2, <2>2, FS_EmptySet
  <2>4. QED
    BY <1>2, <2>1, <2>3
<1>11. QED
  BY <1>9, <1>10

(* Half of a quotient, and what is left of it.                             *)
LEMMA HalfQuotient ==
  ASSUME NEW y \in Nat, NEW p \in Nat \ {0}
  PROVE  y \div p = 2 * (y \div (2 * p)) + ((y \div p) % 2) /\ (y \div p) % 2 \in {0, 1}
<1>1. PICK d \in Nat \ {0} : d = 2 * p
  OBVIOUS
<1>2. PICK q \in Nat, w \in 0 .. p - 1 : y = p * q + w /\ q = y \div p
  <2>1. y \div p \in Nat /\ y % p \in 0 .. p - 1 /\ y = p * (y \div p) + (y % p)
    OBVIOUS
  <2>2. QED
    BY <2>1
<1>3. PICK h \in Int, r \in 0 .. 1 : q = 2 * h + r /\ r = q % 2
  OBVIOUS
<1>4. PICK x \in 0 .. d - 1 : x = r * p + w
  <2>1. r * p \in {0, p} /\ r * p + w \in 0 .. d - 1
    BY <1>1, <1>2, <1>3
  <2>2. QED
    BY <2>1
<1>5. y = d * h + x
  <2>1. p * q = (2 * p) * h + r * p
    BY <1>3
  <2>2. QED
    BY <1>1, <1>2, <1>4, <2>1
<1>6. y \div d = h
  BY <1>4, <1>5, Quotient
<1>7. QED
  BY <1>1, <1>2, <1>3, <1>6

(* The address after one.                                                  *)
LEMMA FollowingAddress ==
  ASSUME NEW m \in Nat \ {0}, NEW x \in Nat
  PROVE  ((x % m) + 1) % m = (x + 1) % m
<1>1. PICK q \in Int, r \in 0 .. m - 1 : x = m * q + r /\ r = x % m
  OBVIOUS
<1>2. PICK z \in Int, o \in 0 .. m - 1 : z = x + 1 /\ o = 0
  OBVIOUS
<1>3. CASE r < m - 1
  <2>1. PICK v \in 0 .. m - 1 : v = r + 1
    <3>1. r + 1 \in 0 .. m - 1
      BY <1>1, <1>3
    <3>2. QED
      BY <3>1
  <2>2. z = m * q + v
    <3>1. PICK y \in Int : y = m * q /\ x = y + r
      BY <1>1
    <3>2. z = y + v
      BY <1>2, <2>1, <3>1
    <3>3. QED
      BY <3>1, <3>2, Zenon
  <2>3. z % m = v
    BY <2>2, Quotient
  <2>4. v \in Int /\ m * o = 0
    BY <1>2, <2>1
  <2>5. v % m = v
    <3>1. v = m * o + v
      BY <2>4
    <3>2. QED
      BY <2>4, <3>1, Quotient
  <2>6. QED
    BY <1>1, <1>2, <2>1, <2>3, <2>5, Zenon
<1>4. CASE r = m - 1
  <2>1. PICK u \in Int, one \in Int : u = q + 1 /\ one = 1
    BY <1>1
  <2>2. m * u = m * q + m
    BY <1>1, <2>1
  <2>3. z = m * u + o /\ m = m * one + o
    BY <1>1, <1>2, <1>4, <2>1, <2>2
  <2>4. z % m = o
    BY <2>3, Quotient
  <2>5. m \in Int
    OBVIOUS
  <2>6. m % m = o
    BY <2>3, <2>5, Quotient
  <2>7. r + 1 = m
    BY <1>4
  <2>8. QED
    BY <1>1, <1>2, <2>4, <2>6, <2>7, Zenon
<1>5. QED
  BY <1>1, <1>3, <1>4

(* The first k bits of a byte, as a number.                                *)
TopBits(y, k) == y \div 2 ^ (BITS - k)

(* The bytes and the addresses are numbers below a power of two.           *)
LEMMA ByteSizes ==
  /\ BITS \in Nat \ {0} /\ 2 ^ BITS \in Nat \ {0} /\ 2 ^ BITS = 2 * 2 ^ (BITS - 1)
  /\ 2 ^ (BITS - 1) \in Nat \ {0} /\ I2cByte = 0 .. 2 ^ BITS - 1 /\ 0 \in I2cByte
<1>1. BITS \in Nat \ {0}
  BY I2cAssumption
<1>2. PICK k \in Nat : k = BITS - 1 /\ k + 1 = BITS
  BY <1>1
<1>3. 2 ^ k \in Nat \ {0} /\ 2 ^ (k + 1) = 2 * 2 ^ k
  BY PowerOfTwo
<1>4. PICK p \in Nat \ {0}, m \in Nat \ {0} : p = 2 ^ k /\ m = 2 ^ (k + 1) /\ m = 2 * p
  <2>1. 2 * 2 ^ k \in Nat \ {0}
    BY <1>3
  <2>2. QED
    BY <1>3, <2>1
<1>5. 2 ^ BITS = m /\ 2 ^ (BITS - 1) = p
  BY <1>2, <1>4, Zenon
<1>6. 0 \in 0 .. m - 1
  BY <1>4
<1>7. QED
  BY <1>1, <1>4, <1>5, <1>6, Zenon DEF I2cByte

(* Bit for bit a byte is put together again.                               *)
LEMMA BitAfterBit ==
  ASSUME NEW y \in I2cByte
  PROVE  /\ TopBits(y, 0) = 0 /\ TopBits(y, BITS) = y
         /\ \A k \in 0 .. BITS - 1 :
              /\ TopBits(y, k + 1) = 2 * TopBits(y, k) + BitOf(y, BITS - 1 - k)
              /\ BitOf(y, BITS - 1 - k) \in {0, 1}
         /\ \A k \in 0 .. BITS : TopBits(y, k) \in I2cByte
<1>1. PICK m \in Nat \ {0} : m = 2 ^ BITS /\ y \in 0 .. m - 1 /\ I2cByte = 0 .. m - 1
  BY ByteSizes
<1>2. TopBits(y, 0) = 0
  <2>1. y = m * 0 + y
    BY <1>1
  <2>2. y \div m = 0
    BY <1>1, <2>1, Quotient
  <2>3. BITS - 0 = BITS
    BY ByteSizes
  <2>4. QED
    BY <1>1, <2>2, <2>3, Zenon DEF TopBits
<1>3. TopBits(y, BITS) = y
  <2>1. BITS - BITS = 0 /\ 2 ^ 0 = 1
    BY ByteSizes
  <2>2. y \div 1 = y
    BY <1>1
  <2>3. QED
    BY <2>1, <2>2, Zenon DEF TopBits
<1>4. ASSUME NEW k \in 0 .. BITS - 1
      PROVE  /\ TopBits(y, k + 1) = 2 * TopBits(y, k) + BitOf(y, BITS - 1 - k)
             /\ BitOf(y, BITS - 1 - k) \in {0, 1}
  <2>1. PICK j \in Nat : j = BITS - 1 - k /\ j = BITS - (k + 1) /\ j + 1 = BITS - k
    <3>1. BITS - 1 - k \in Nat /\ BITS - 1 - k = BITS - (k + 1) /\ (BITS - 1 - k) + 1 = BITS - k
      BY ByteSizes
    <3>2. QED
      BY <3>1
  <2>2. PICK p \in Nat \ {0} : p = 2 ^ j /\ 2 ^ (j + 1) = 2 * p
    BY PowerOfTwo
  <2>3. y \div p = 2 * (y \div (2 * p)) + ((y \div p) % 2) /\ (y \div p) % 2 \in {0, 1}
    <3>1. y \in Nat
      BY <1>1
    <3>2. QED
      BY <3>1, HalfQuotient
  <2>4. TopBits(y, k + 1) = y \div p /\ TopBits(y, k) = y \div (2 * p) /\ BitOf(y, BITS - 1 - k) = (y \div p) % 2
    BY <2>1, <2>2, Zenon DEF TopBits, BitOf
  <2>5. QED
    BY <2>3, <2>4, Zenon
<1>5. ASSUME NEW k \in 0 .. BITS PROVE TopBits(y, k) \in I2cByte
  <2>1. PICK j \in Nat : j = BITS - k
    BY ByteSizes
  <2>2. PICK p \in Nat \ {0} : p = 2 ^ j
    BY PowerOfTwo
  <2>3. PICK q \in Int, r \in 0 .. p - 1 : y = p * q + r /\ q = y \div p
    <3>1. PICK n \in Int : n = y
      BY <1>1
    <3>2. PICK q \in Int, r \in 0 .. p - 1 : n = p * q + r /\ q = n \div p
      OBVIOUS
    <3>3. QED
      BY <3>1, <3>2, Zenon
  <2>4. q >= 0 /\ q <= p * q
    <3>1. q <= -1 => p * q <= - p
      OBVIOUS
    <3>2. q >= 0
      BY <1>1, <2>3, <3>1
    <3>3. QED
      BY <3>2
  <2>5. q \in 0 .. m - 1
    <3>1. PICK x \in Int : x = p * q
      BY <2>3
    <3>2. QED
      BY <1>1, <2>3, <2>4, <3>1
  <2>6. QED
    BY <1>1, <2>1, <2>2, <2>3, <2>5, Zenon DEF TopBits
<1>6. QED
  BY <1>2, <1>3, <1>4, <1>5

(* There is a cell.                                                        *)
LEMMA CellNumbers == CELLS \in Nat \ {0} /\ 0 \in Cells /\ Cells \subseteq Nat /\ ADDR_SIZE \in 1 .. 4
<1>1. CELLS \in Nat \ {0} /\ ADDR_SIZE \in 1 .. 4
  BY I2cAssumption
<1>2. QED
  BY <1>1 DEF Cells

(* The addresses go round.                                                 *)
LEMMA GoesRound ==
  ASSUME NEW at \in Cells
  PROVE  /\ Nth(at, 1) = at
         /\ \A n \in Nat \ {0} : Nth(at, n) \in Cells /\ NextAddress(Nth(at, n)) = Nth(at, n + 1)
         /\ \A a \in Cells : NextAddress(a) \in Cells
<1>1. PICK m \in Nat \ {0} : m = CELLS /\ at \in 0 .. m - 1 /\ Cells = 0 .. m - 1
  BY CellNumbers DEF Cells
<1>2. Nth(at, 1) = at
  <2>1. at + 1 - 1 = at /\ at = m * 0 + at
    BY <1>1
  <2>2. at % m = at
    BY <1>1, <2>1, Quotient
  <2>3. QED
    BY <1>1, <2>1, <2>2, Zenon DEF Nth
<1>3. ASSUME NEW n \in Nat \ {0}
      PROVE  Nth(at, n) \in Cells /\ NextAddress(Nth(at, n)) = Nth(at, n + 1)
  <2>1. PICK x \in Nat : x = at + n - 1 /\ x + 1 = at + (n + 1) - 1
    <3>1. at + n - 1 \in Nat /\ (at + n - 1) + 1 = at + (n + 1) - 1
      BY <1>1
    <3>2. QED
      BY <3>1
  <2>2. ((x % m) + 1) % m = (x + 1) % m
    BY FollowingAddress
  <2>3. x % m \in 0 .. m - 1
    OBVIOUS
  <2>4. QED
    BY <1>1, <2>1, <2>2, <2>3, Zenon DEF Nth, NextAddress
<1>4. ASSUME NEW a \in Cells PROVE NextAddress(a) \in Cells
  <2>1. PICK x \in Int : x = a + 1
    BY <1>1
  <2>2. x % m \in 0 .. m - 1
    OBVIOUS
  <2>3. QED
    BY <1>1, <2>1, <2>2, Zenon DEF NextAddress
<1>5. QED
  BY <1>2, <1>3, <1>4

(* An address that is shifted down by a byte more: what is lost is the     *)
(* byte that is sent for it.                                               *)
LEMMA ShiftedOnce ==
  ASSUME NEW a \in Nat, NEW j \in 0 .. 3
  PROVE  /\ Shifted(a, j) \in Nat /\ Shifted(a, j + 1) \in Nat /\ Shifted(a, j) % 2 ^ BITS \in I2cByte
         /\ Shifted(a, j) = 2 ^ BITS * Shifted(a, j + 1) + (Shifted(a, j) % 2 ^ BITS)
<1> DEFINE D(x) == x \div 2 ^ BITS
<1>1. PICK m \in Nat \ {0} : m = 2 ^ BITS /\ I2cByte = 0 .. m - 1
  BY ByteSizes
<1>2. ASSUME NEW x \in Nat
      PROVE  D(x) \in Nat /\ x % 2 ^ BITS \in I2cByte /\ x = 2 ^ BITS * D(x) + (x % 2 ^ BITS)
  <2>1. PICK q \in Int, r \in 0 .. m - 1 : x = m * q + r /\ q = x \div m /\ r = x % m
    OBVIOUS
  <2>2. q >= 0
    <3>1. q <= -1 => m * q <= - m
      OBVIOUS
    <3>2. QED
      BY <2>1, <3>1
  <2>3. q \in Nat
    BY <2>1, <2>2
  <2>4. QED
    BY <1>1, <2>1, <2>3, Zenon
<1>3. /\ Shifted(a, 0) = a /\ Shifted(a, 1) = D(a) /\ Shifted(a, 2) = D(D(a))
      /\ Shifted(a, 3) = D(D(D(a))) /\ Shifted(a, 4) = D(D(D(D(a))))
  BY DEF Shifted
<1> HIDE DEF D
<1>4. Shifted(a, j) \in Nat /\ Shifted(a, j + 1) = D(Shifted(a, j))
  <2>1. j = 0 \/ j = 1 \/ j = 2 \/ j = 3
    OBVIOUS
  <2>2. a \in Nat /\ D(a) \in Nat /\ D(D(a)) \in Nat /\ D(D(D(a))) \in Nat
    BY <1>2, Zenon
  <2>3. QED
    BY <1>3, <2>1, <2>2
<1>5. QED
  BY <1>2, <1>4, Zenon

(* So the bytes of the address of a cell lead the slave to it.             *)
LEMMA CellIsReached ==
  ASSUME NEW a \in Cells
  PROVE  /\ Shifted(a, 0) = a /\ Shifted(a, ADDR_SIZE) = 0
         /\ \A j \in 0 .. 3 : Shifted(a, j) \in Cells =>
              (2 ^ BITS * Shifted(a, j + 1) + (Shifted(a, j) % 2 ^ BITS)) % CELLS = Shifted(a, j)
         /\ \A j \in 0 .. 4 : Shifted(a, j) \in Cells
<1>1. PICK c \in Nat \ {0} : c = CELLS /\ Cells = 0 .. c - 1
  BY CellNumbers DEF Cells
<1>2. Shifted(a, 0) = a
  BY DEF Shifted
<1>3. Shifted(a, ADDR_SIZE) = 0
  BY I2cAssumption
<1>4. ASSUME NEW j \in 0 .. 3, Shifted(a, j) \in Cells
      PROVE  (2 ^ BITS * Shifted(a, j + 1) + (Shifted(a, j) % 2 ^ BITS)) % CELLS = Shifted(a, j)
  <2>1. PICK x \in 0 .. c - 1 : x = Shifted(a, j)
    BY <1>1, <1>4
  <2>2. x = 2 ^ BITS * Shifted(a, j + 1) + (Shifted(a, j) % 2 ^ BITS)
    <3>1. a \in Nat
      BY CellNumbers
    <3>2. Shifted(a, j) = 2 ^ BITS * Shifted(a, j + 1) + (Shifted(a, j) % 2 ^ BITS)
      BY <3>1, ShiftedOnce, Zenon
    <3>3. QED
      BY <2>1, <3>2, Zenon
  <2>3. x = c * 0 + x
    OBVIOUS
  <2>4. x % c = x
    BY <2>3, Quotient
  <2>5. QED
    BY <1>1, <2>1, <2>2, <2>4, Zenon
<1>5. ASSUME NEW j \in 0 .. 3, Shifted(a, j) \in Cells
      PROVE  Shifted(a, j + 1) \in Cells
  <2>1. PICK m \in Nat \ {0} : m = 2 ^ BITS /\ I2cByte = 0 .. m - 1
    BY ByteSizes
  <2>2. PICK x \in 0 .. c - 1, y \in Nat, r \in 0 .. m - 1 :
          x = Shifted(a, j) /\ y = Shifted(a, j + 1) /\ x = m * y + r
    <3>1. a \in Nat
      BY CellNumbers
    <3>2. /\ Shifted(a, j + 1) \in Nat /\ Shifted(a, j) % m \in 0 .. m - 1
          /\ Shifted(a, j) = m * Shifted(a, j + 1) + (Shifted(a, j) % m)
      BY <2>1, <3>1, ShiftedOnce, Zenon
    <3>3. QED
      BY <1>1, <1>5, <3>2, Zenon
  <2>3. y <= m * y
    OBVIOUS
  <2>4. PICK p \in Nat : p = m * y
    OBVIOUS
  <2>5. y \in 0 .. c - 1
    BY <2>2, <2>3, <2>4
  <2>6. QED
    BY <1>1, <2>2, <2>5
<1>6. \A j \in 0 .. 4 : Shifted(a, j) \in Cells
  <2>1. Shifted(a, 0) \in Cells
    BY <1>2
  <2>2. Shifted(a, 1) \in Cells
    <3>1. 0 \in 0 .. 3 /\ 0 + 1 = 1
      OBVIOUS
    <3>2. QED
      BY <1>5, <2>1, <3>1
  <2>3. Shifted(a, 2) \in Cells
    <3>1. 1 \in 0 .. 3 /\ 1 + 1 = 2
      OBVIOUS
    <3>2. QED
      BY <1>5, <2>2, <3>1
  <2>4. Shifted(a, 3) \in Cells
    <3>1. 2 \in 0 .. 3 /\ 2 + 1 = 3
      OBVIOUS
    <3>2. QED
      BY <1>5, <2>3, <3>1
  <2>5. Shifted(a, 4) \in Cells
    <3>1. 3 \in 0 .. 3 /\ 3 + 1 = 4
      OBVIOUS
    <3>2. QED
      BY <1>5, <2>4, <3>1
  <2>6. \A j \in 0 .. 4 : j = 0 \/ j = 1 \/ j = 2 \/ j = 3 \/ j = 4
    OBVIOUS
  <2>7. QED
    BY <2>1, <2>2, <2>3, <2>4, <2>5, <2>6
<1>7. QED
  BY <1>2, <1>3, <1>4, <1>6

-----------------------------------------------------------------------------
(* The slave by itself.  Whatever the master does with the lines, it is in *)
(* one of the states of a slave that counts the bits of a byte.            *)
Ears == {"address", "data"}
Memories == [Cells -> I2cByte]
SlaveType ==
  [state : Ears \cup {"off", "send"}, n : 0 .. BITS + 1, shift : Nat, out : {0, 1},
   ptr : Cells, left : 0 .. ADDR_SIZE, mem : Memories]

SlaveOK(s, level) ==
  /\ s \in SlaveType
  /\ s.state = "off" => s.out = 1
  /\ s.state \in Ears =>
       /\ s.n <= BITS => s.shift < 2 ^ s.n
       /\ s.n > BITS => s.shift \in I2cByte
       /\ IF level = 1 THEN (s.n <= BITS /\ s.out = 1) \/ (s.n = BITS + 1 /\ s.out = 0)
                       ELSE (s.n < BITS /\ s.out = 1) \/ (s.n = BITS /\ s.out = 0)
  /\ s.state = "send" =>
       IF level = 1 THEN s.n >= 1 /\ (s.n = BITS + 1 => s.out = 1)
                    ELSE s.n <= BITS /\ (s.n = BITS => s.out = 1)

(* It does when it is turned off, starts to listen or to send.             *)
LEMMA TurnsOK ==
  ASSUME NEW s \in SlaveType
  PROVE  /\ Off(s) \in SlaveType /\ Off(s).state = "off" /\ Off(s).out = 1
         /\ Off(s).ptr = s.ptr /\ Off(s).left = s.left /\ Off(s).mem = s.mem
         /\ \A st \in Ears :
              /\ Begin(s, st) \in SlaveType /\ Begin(s, st).state = st /\ Begin(s, st).n = 0
              /\ Begin(s, st).shift = 0 /\ Begin(s, st).out = 1
              /\ Begin(s, st).ptr = s.ptr /\ Begin(s, st).left = s.left /\ Begin(s, st).mem = s.mem
         /\ \A p \in Cells :
              /\ Sending(s, p) \in SlaveType /\ Sending(s, p).state = "send" /\ Sending(s, p).n = 0
              /\ Sending(s, p).out = BitOf(s.mem[p], BITS - 1)
              /\ Sending(s, p).ptr = p /\ Sending(s, p).left = s.left /\ Sending(s, p).mem = s.mem
<1>1. BITS \in Nat \ {0}
  BY ByteSizes
<1>2. Off(s) \in SlaveType /\ Off(s).state = "off" /\ Off(s).out = 1
      /\ Off(s).ptr = s.ptr /\ Off(s).left = s.left /\ Off(s).mem = s.mem
  BY DEF Off, SlaveType
<1>3. ASSUME NEW st \in Ears
      PROVE  /\ Begin(s, st) \in SlaveType /\ Begin(s, st).state = st /\ Begin(s, st).n = 0
             /\ Begin(s, st).shift = 0 /\ Begin(s, st).out = 1
             /\ Begin(s, st).ptr = s.ptr /\ Begin(s, st).left = s.left /\ Begin(s, st).mem = s.mem
  <2>1. 0 \in 0 .. BITS + 1
    BY <1>1
  <2>2. QED
    BY <2>1 DEF Begin, SlaveType
<1>4. ASSUME NEW p \in Cells
      PROVE  /\ Sending(s, p) \in SlaveType /\ Sending(s, p).state = "send" /\ Sending(s, p).n = 0
             /\ Sending(s, p).out = BitOf(s.mem[p], BITS - 1)
             /\ Sending(s, p).ptr = p /\ Sending(s, p).left = s.left /\ Sending(s, p).mem = s.mem
  <2>1. PICK x \in I2cByte : x = s.mem[p]
    BY DEF SlaveType, Memories
  <2>2. PICK v \in {0, 1} : v = BitOf(x, BITS - 1)
    <3>1. BITS - 1 - 0 = BITS - 1 /\ 0 \in 0 .. BITS - 1
      BY <1>1
    <3>2. BitOf(x, BITS - 1 - 0) \in {0, 1}
      BY <3>1, BitAfterBit
    <3>3. QED
      BY <3>1, <3>2, Zenon
  <2>3. Sending(s, p) = [s EXCEPT !.state = "send", !.n = 0, !.ptr = p, !.out = v]
    BY <2>1, <2>2, Zenon DEF Sending
  <2>4. 0 \in 0 .. BITS + 1
    BY <1>1
  <2>5. QED
    BY <2>1, <2>2, <2>3, <2>4 DEF SlaveType
<1>5. QED
  BY <1>2, <1>3, <1>4, Zenon

(* So it is when SCL rises.                                                *)
LEMMA RisesOK ==
  ASSUME NEW s, SlaveOK(s, 0), NEW l \in {0, 1}
  PROVE  SlaveOK(Rises(s, l), 1)
<1>1. s \in SlaveType /\ BITS \in Nat \ {0} /\ s.n \in 0 .. BITS + 1
  BY ByteSizes DEF SlaveOK, SlaveType
<1>2. CASE s.state = "off"
  BY <1>2 DEF SlaveOK, Rises, Ears
<1>3. CASE s.state # "off" /\ s.n < BITS
  <2>1. PICK n \in Nat, m \in 1 .. BITS : n = s.n /\ m = n + 1
    <3>1. s.n \in Nat /\ s.n + 1 \in 1 .. BITS
      BY <1>1, <1>3
    <3>2. QED
      BY <3>1
  <2>2. PICK h \in Nat : h = IF s.state = "send" THEN 0 ELSE 2 * s.shift + l
    <3>1. s.shift \in Nat
      BY <1>1 DEF SlaveType
    <3>2. (IF s.state = "send" THEN 0 ELSE 2 * s.shift + l) \in Nat
      BY <3>1
    <3>3. QED
      BY <3>2
  <2>3. Rises(s, l) = [s EXCEPT !.n = m, !.shift = h]
    BY <1>1, <1>3, <2>1, <2>2 DEF Rises, SlaveType
  <2>4. s.state \in Ears => h < 2 ^ m
    <3>1. SUFFICES ASSUME s.state \in Ears PROVE h < 2 ^ m
      OBVIOUS
    <3>2. 2 ^ n \in Nat \ {0} /\ 2 ^ (n + 1) = 2 * 2 ^ n
      BY PowerOfTwo
    <3>3. s.shift < 2 ^ n /\ s.shift \in Nat /\ h = 2 * s.shift + l
      BY <1>1, <1>3, <2>1, <2>2, <3>1 DEF SlaveOK, SlaveType, Ears
    <3>4. 2 ^ m = 2 * 2 ^ n
      BY <2>1, <3>2, Zenon
    <3>5. QED
      BY <3>2, <3>3, <3>4
  <2>5. PICK r : r = Rises(s, l)
    OBVIOUS
  <2>6. /\ r \in SlaveType /\ r.state = s.state /\ r.n = m /\ r.shift = h /\ r.out = s.out
    <3>1. m \in 0 .. BITS + 1
      BY <1>1, <2>1
    <3>2. QED
      BY <1>1, <2>2, <2>3, <2>5, <3>1 DEF SlaveType
  <2>7. s.out = 1 \/ s.state = "send"
    BY <1>1, <1>3 DEF SlaveOK, SlaveType
  <2>8. m \in Nat /\ m >= 1 /\ m <= BITS /\ m # BITS + 1 /\ ~ m > BITS
    BY <1>1, <2>1
  <2>9. SlaveOK(r, 1)
    BY <1>3, <2>4, <2>6, <2>7, <2>8 DEF SlaveOK, Ears
  <2>10. QED
    BY <2>5, <2>9, Zenon
<1>4. CASE s.state # "off" /\ s.n >= BITS /\ s.state = "send" /\ l = 1
  <2>1. Rises(s, l) = Off(s)
    BY <1>1, <1>4 DEF Rises
  <2>2. QED
    BY <1>1, <2>1, TurnsOK DEF SlaveOK, Ears
<1>5. CASE s.state # "off" /\ s.n >= BITS /\ ~ (s.state = "send" /\ l = 1)
  <2>1. s.n = BITS
    BY <1>1, <1>5 DEF SlaveOK, SlaveType
  <2>2. PICK m \in 0 .. BITS + 1 : m = BITS + 1 /\ m = s.n + 1
    <3>1. BITS + 1 \in 0 .. BITS + 1
      BY <1>1
    <3>2. QED
      BY <2>1, <3>1
  <2>3. PICK r : r = [s EXCEPT !.n = m] /\ r = Rises(s, l)
    <3>1. ~ s.n < BITS
      BY <1>1, <2>1
    <3>2. Rises(s, l) = [s EXCEPT !.n = @ + 1]
      BY <1>5, <3>1 DEF Rises
    <3>3. [s EXCEPT !.n = @ + 1] = [s EXCEPT !.n = m]
      BY <2>2
    <3>4. QED
      BY <3>2, <3>3
  <2>4. r \in SlaveType /\ r.state = s.state /\ r.n = m /\ r.shift = s.shift /\ r.out = s.out
    BY <1>1, <2>3 DEF SlaveType
  <2>5. m >= 1 /\ m > BITS /\ ~ m <= BITS
    BY <1>1, <2>2
  <2>6. s.state \in Ears => s.out = 0 /\ s.shift \in I2cByte
    <3>1. SUFFICES ASSUME s.state \in Ears PROVE s.out = 0 /\ s.shift \in I2cByte
      OBVIOUS
    <3>2. s.out = 0 /\ s.shift < 2 ^ s.n /\ s.shift \in Nat
      BY <1>1, <2>1, <3>1 DEF SlaveOK, SlaveType
    <3>3. s.shift < 2 ^ BITS
      BY <2>1, <3>2, Zenon
    <3>4. QED
      BY <3>2, <3>3, ByteSizes
  <2>7. s.state = "send" => s.out = 1
    BY <2>1 DEF SlaveOK
  <2>8. SlaveOK(r, 1)
    BY <1>5, <2>2, <2>4, <2>5, <2>6, <2>7 DEF SlaveOK, Ears
  <2>9. QED
    BY <2>3, <2>8, Zenon
<1>6. QED
  BY <1>1, <1>2, <1>3, <1>4, <1>5

(* The acknowledge of a byte.                                              *)
LEMMA AcknowledgesOK ==
  ASSUME NEW s \in SlaveType, s.state \in Ears, s.n = BITS, s.shift \in I2cByte
  PROVE  /\ SlaveOK(Acknowledges(s), 0) /\ Acknowledges(s).ptr = s.ptr /\ Acknowledges(s).left = s.left
         /\ IF s.state = "address" /\ s.shift \div 2 # SLAVE
            THEN Acknowledges(s).state = "off" /\ Acknowledges(s).mem = s.mem
            ELSE /\ Acknowledges(s).state = s.state /\ Acknowledges(s).n = BITS
                 /\ Acknowledges(s).shift = s.shift /\ Acknowledges(s).out = 0
                 /\ Acknowledges(s).mem = IF s.state = "data" /\ s.left = 0 THEN [s.mem EXCEPT ![s.ptr] = s.shift]
                                           ELSE s.mem
<1>1. BITS \in Nat \ {0}
  BY ByteSizes
<1>2. CASE s.state = "address" /\ s.shift \div 2 # SLAVE
  <2>1. Acknowledges(s) = Off(s)
    BY <1>2 DEF Acknowledges
  <2>2. QED
    BY <1>2, <2>1, TurnsOK DEF SlaveOK, Ears
<1>3. CASE ~ (s.state = "address" /\ s.shift \div 2 # SLAVE)
  <2>1. PICK m \in Memories : m = IF s.state = "data" /\ s.left = 0 THEN [s.mem EXCEPT ![s.ptr] = s.shift] ELSE s.mem
    <3>1. s.mem \in Memories /\ s.ptr \in Cells
      BY DEF SlaveType
    <3>2. [s.mem EXCEPT ![s.ptr] = s.shift] \in Memories
      BY <3>1 DEF Memories
    <3>3. QED
      BY <3>1, <3>2
  <2>2. PICK r : r = [s EXCEPT !.out = 0, !.mem = m]
    OBVIOUS
  <2>3. Acknowledges(s) = r
    BY <1>3, <2>1, <2>2 DEF Acknowledges
  <2>4. /\ r \in SlaveType /\ r.state = s.state /\ r.n = s.n /\ r.shift = s.shift /\ r.out = 0
        /\ r.ptr = s.ptr /\ r.left = s.left /\ r.mem = m
    BY <2>1, <2>2 DEF SlaveType
  <2>5. r.shift < 2 ^ r.n
    <3>1. s.shift < 2 ^ BITS
      BY ByteSizes
    <3>2. QED
      BY <2>4, <3>1, Zenon
  <2>6. SlaveOK(r, 0)
    BY <1>1, <2>4, <2>5 DEF SlaveOK, Ears
  <2>7. QED
    BY <1>3, <2>1, <2>3, <2>4, <2>6, Zenon
<1>4. QED
  BY <1>2, <1>3

(* Where a byte leads the pointer, and how much of the address is still to
   come after it.                                                          *)
PtrAfter(s, st, y) ==
  IF st = "address" THEN IF y % 2 = 1 THEN s.ptr ELSE 0
  ELSE IF st = "data" /\ s.left > 0 THEN (2 ^ BITS * s.ptr + y) % CELLS ELSE NextAddress(s.ptr)
LeftAfter(s, st, y) ==
  IF st = "address" /\ y % 2 # 1 THEN ADDR_SIZE
  ELSE IF st = "data" /\ s.left > 0 THEN s.left - 1 ELSE s.left

(* They are a cell and a number of bytes.                                  *)
LEMMA AfterType ==
  ASSUME NEW s \in SlaveType, NEW st, NEW y, st = "data" => y \in Nat
  PROVE  PtrAfter(s, st, y) \in Cells /\ LeftAfter(s, st, y) \in 0 .. ADDR_SIZE
<1>1. /\ s.ptr \in Cells /\ NextAddress(s.ptr) \in Cells /\ 0 \in Cells /\ s.left \in 0 .. ADDR_SIZE
      /\ ADDR_SIZE \in Nat
  <2>1. s.ptr \in Cells /\ s.left \in 0 .. ADDR_SIZE
    BY DEF SlaveType
  <2>2. NextAddress(s.ptr) \in Cells
    BY <2>1, GoesRound
  <2>3. QED
    BY <2>1, <2>2, CellNumbers
<1>2. st = "data" => (2 ^ BITS * s.ptr + y) % CELLS \in Cells
  <2>1. SUFFICES ASSUME y \in Nat PROVE (2 ^ BITS * s.ptr + y) % CELLS \in Cells
    OBVIOUS
  <2>2. PICK m \in Nat \ {0}, p \in Nat : m = 2 ^ BITS /\ p = s.ptr
    BY <1>1, ByteSizes, CellNumbers
  <2>3. PICK x \in Int : x = m * p + y
    BY <2>1
  <2>4. PICK c \in Nat \ {0} : c = CELLS
    BY CellNumbers
  <2>5. x % c \in 0 .. c - 1
    OBVIOUS
  <2>6. QED
    BY <2>2, <2>3, <2>4, <2>5, Zenon DEF Cells
<1>3. LeftAfter(s, st, y) \in 0 .. ADDR_SIZE
  BY <1>1 DEF LeftAfter
<1>4. QED
  BY <1>1, <1>2, <1>3 DEF PtrAfter

(* What it does once it has acknowledged, or heard the acknowledge.        *)
LEMMA HasAcknowledgedOK ==
  ASSUME NEW s \in SlaveType, s.state # "off", s.shift \in I2cByte \/ s.state = "send"
  PROVE  /\ HasAcknowledged(s) \in SlaveType /\ SlaveOK(HasAcknowledged(s), 0)
         /\ HasAcknowledged(s).n = 0 /\ HasAcknowledged(s).mem = s.mem
         /\ HasAcknowledged(s).state = IF s.state = "send" \/ (s.state = "address" /\ s.shift % 2 = 1)
                                       THEN "send" ELSE "data"
         /\ HasAcknowledged(s).ptr = PtrAfter(s, s.state, s.shift)
         /\ HasAcknowledged(s).left = LeftAfter(s, s.state, s.shift)
         /\ IF HasAcknowledged(s).state = "send"
            THEN HasAcknowledged(s).out = BitOf(s.mem[HasAcknowledged(s).ptr], BITS - 1)
            ELSE HasAcknowledged(s).shift = 0 /\ HasAcknowledged(s).out = 1
<1>1. /\ BITS \in Nat \ {0} /\ 2 ^ 0 = 1 /\ s.ptr \in Cells /\ NextAddress(s.ptr) \in Cells
      /\ s.state \in {"address", "data", "send"}
  <2>1. s.ptr \in Cells
    BY DEF SlaveType
  <2>2. QED
    BY <2>1, ByteSizes, GoesRound DEF SlaveType, Ears
<1>2. PICK r : r = HasAcknowledged(s)
  OBVIOUS
<1>3. PICK p \in Cells, k \in 0 .. ADDR_SIZE :
        p = PtrAfter(s, s.state, s.shift) /\ k = LeftAfter(s, s.state, s.shift)
  <2>1. s.state = "data" => s.shift \in Nat
    BY DEF SlaveType
  <2>2. QED
    BY <2>1, AfterType
<1>4. SUFFICES /\ r \in SlaveType /\ r.n = 0 /\ r.mem = s.mem /\ r.ptr = p /\ r.left = k
               /\ r.state = IF s.state = "send" \/ (s.state = "address" /\ s.shift % 2 = 1) THEN "send" ELSE "data"
               /\ IF r.state = "send" THEN r.out = BitOf(s.mem[r.ptr], BITS - 1)
                                      ELSE r.shift = 0 /\ r.out = 1
  <2>1. SUFFICES SlaveOK(r, 0)
    BY <1>2, <1>3, <1>4, Zenon
  <2>2. r.state \in {"send", "data"}
    BY <1>4
  <2>3. r.state \in Ears => r.shift < 2 ^ r.n
    BY <1>1, <1>4, <2>2 DEF Ears
  <2>4. QED
    BY <1>1, <1>4, <2>2, <2>3 DEF SlaveOK, Ears
<1>5. CASE s.state = "address" /\ s.shift % 2 = 1
  <2>1. r = Sending(s, s.ptr) /\ p = s.ptr /\ k = s.left
    BY <1>2, <1>3, <1>5 DEF HasAcknowledged, PtrAfter, LeftAfter
  <2>2. /\ r \in SlaveType /\ r.state = "send" /\ r.n = 0 /\ r.out = BitOf(s.mem[s.ptr], BITS - 1)
        /\ r.ptr = s.ptr /\ r.left = s.left /\ r.mem = s.mem
    BY <1>1, <2>1, TurnsOK, Zenon
  <2>3. QED
    BY <1>5, <2>1, <2>2
<1>6. CASE s.state = "send"
  <2>1. r = Sending(s, p) /\ k = s.left
    BY <1>2, <1>3, <1>6 DEF HasAcknowledged, PtrAfter, LeftAfter
  <2>2. QED
    BY <1>1, <1>6, <2>1, TurnsOK
<1>7. CASE s.state = "data" \/ (s.state = "address" /\ s.shift % 2 # 1)
  <2>1. r = Begin([s EXCEPT !.ptr = p, !.left = k], "data")
    <3>1. CASE s.state = "address" /\ s.shift % 2 # 1
      BY <1>2, <1>3, <3>1 DEF HasAcknowledged, PtrAfter, LeftAfter
    <3>2. CASE s.state = "data" /\ s.left > 0
      BY <1>2, <1>3, <3>2 DEF HasAcknowledged, PtrAfter, LeftAfter
    <3>3. CASE s.state = "data" /\ ~ (s.left > 0)
      <4>1. r = Begin([s EXCEPT !.ptr = p], "data") /\ k = s.left
        BY <1>2, <1>3, <3>3 DEF HasAcknowledged, PtrAfter, LeftAfter
      <4>2. [s EXCEPT !.ptr = p] = [s EXCEPT !.ptr = p, !.left = k]
        BY <4>1 DEF SlaveType
      <4>3. QED
        BY <4>1, <4>2, Zenon
    <3>4. QED
      BY <1>7, <3>1, <3>2, <3>3
  <2>2. PICK t : t = [s EXCEPT !.ptr = p, !.left = k]
    OBVIOUS
  <2>3. t \in SlaveType /\ t.ptr = p /\ t.left = k /\ t.mem = s.mem
    BY <2>2 DEF SlaveType
  <2>4. r = Begin(t, "data")
    BY <2>1, <2>2
  <2>5. /\ r \in SlaveType /\ r.state = "data" /\ r.n = 0 /\ r.shift = 0 /\ r.out = 1
        /\ r.ptr = p /\ r.left = k /\ r.mem = s.mem
    BY <2>3, <2>4, TurnsOK DEF Ears
  <2>6. QED
    BY <1>7, <2>5
<1>8. QED
  BY <1>1, <1>5, <1>6, <1>7

(* So it is when SCL falls.                                                *)
LEMMA FallsOK ==
  ASSUME NEW s, SlaveOK(s, 1)
  PROVE  SlaveOK(Falls(s), 0)
<1>1. s \in SlaveType /\ BITS \in Nat \ {0} /\ s.n \in 0 .. BITS + 1
  BY ByteSizes DEF SlaveOK, SlaveType
<1>2. CASE s.state = "off"
  BY <1>2 DEF SlaveOK, Falls, Ears
<1>3. CASE s.state # "off" /\ s.n = BITS + 1
  <2>1. Falls(s) = HasAcknowledged(s)
    BY <1>3 DEF Falls
  <2>2. s.shift \in I2cByte \/ s.state = "send"
    <3>1. s.n > BITS
      BY <1>1, <1>3
    <3>2. QED
      BY <1>1, <1>3, <3>1 DEF SlaveOK, SlaveType
  <2>3. QED
    BY <1>1, <1>3, <2>1, <2>2, HasAcknowledgedOK
<1>4. CASE s.state = "send" /\ s.n # BITS + 1
  <2>1. PICK v \in {0, 1} : v = IF s.n = BITS THEN 1 ELSE BitOf(s.mem[s.ptr], BITS - 1 - s.n)
    <3>1. CASE s.n = BITS
      BY <3>1
    <3>2. CASE s.n # BITS
      <4>1. PICK k \in 0 .. BITS - 1 : k = s.n
        BY <1>1, <1>4, <3>2
      <4>2. PICK x \in I2cByte : x = s.mem[s.ptr]
        BY <1>1 DEF SlaveType, Memories
      <4>3. BitOf(x, BITS - 1 - k) \in {0, 1}
        BY BitAfterBit
      <4>4. QED
        BY <3>2, <4>1, <4>2, <4>3
    <3>3. QED
      BY <3>1, <3>2
  <2>2. PICK r : r = [s EXCEPT !.out = v]
    OBVIOUS
  <2>3. Falls(s) = r
    BY <1>4, <2>1, <2>2 DEF Falls
  <2>4. r \in SlaveType /\ r.state = "send" /\ r.n = s.n /\ r.out = v
    BY <1>1, <1>4, <2>2 DEF SlaveType
  <2>5. s.n <= BITS
    BY <1>1, <1>4
  <2>6. SlaveOK(r, 0)
    BY <2>1, <2>4, <2>5 DEF SlaveOK, Ears
  <2>7. QED
    BY <2>3, <2>6, Zenon
<1>5. CASE s.state \in Ears /\ s.n = BITS
  <2>1. Falls(s) = Acknowledges(s)
    BY <1>1, <1>5 DEF Falls, Ears
  <2>2. s.shift \in I2cByte
    <3>1. s.shift < 2 ^ s.n /\ s.shift \in Nat
      BY <1>1, <1>5 DEF SlaveOK, SlaveType
    <3>2. s.shift < 2 ^ BITS
      BY <1>5, <3>1, Zenon
    <3>3. QED
      BY <3>1, <3>2, ByteSizes
  <2>3. QED
    BY <1>1, <1>5, <2>1, <2>2, AcknowledgesOK
<1>6. CASE s.state \in Ears /\ s.n < BITS
  <2>1. Falls(s) = s
    BY <1>1, <1>6 DEF Falls, Ears
  <2>2. QED
    BY <1>1, <1>6, <2>1 DEF SlaveOK, Ears
<1>7. QED
  BY <1>1, <1>2, <1>3, <1>4, <1>5, <1>6 DEF SlaveType

(* So it is after every change of the lines.                               *)
LEMMA ReactionOK ==
  ASSUME scl \in {0, 1}, SlaveOK(slave, scl), NEW o, NEW c \in {0, 1}, NEW d
  PROVE  SlaveOK(Reaction(o, c, d), c)
<1>1. \A v : Bus(o, d, v) \in {0, 1}
  BY DEF Bus
<1>2. CASE scl = 1 /\ c = 1
  <2>1. slave \in SlaveType /\ BITS \in Nat \ {0} /\ 2 ^ 0 = 1
    BY ByteSizes DEF SlaveOK
  <2>2. SlaveOK(Begin(slave, "address"), 1)
    <3>1. PICK r : r = Begin(slave, "address")
      OBVIOUS
    <3>2. r \in SlaveType /\ r.state = "address" /\ r.n = 0 /\ r.shift = 0 /\ r.out = 1
      BY <2>1, <3>1, TurnsOK DEF Ears
    <3>3. r.shift < 2 ^ r.n
      BY <2>1, <3>2
    <3>4. QED
      BY <2>1, <3>1, <3>2, <3>3 DEF SlaveOK, Ears
  <2>3. SlaveOK(Off(slave), 1)
    BY <2>1, TurnsOK DEF SlaveOK, Ears
  <2>4. QED
    BY <1>2, <2>2, <2>3 DEF Reaction
<1>3. CASE scl = 0 /\ c = 1
  BY <1>1, <1>3, RisesOK DEF Reaction
<1>4. CASE scl = 1 /\ c = 0
  BY <1>4, FallsOK DEF Reaction
<1>5. CASE scl = 0 /\ c = 0
  BY <1>5 DEF Reaction
<1>6. QED
  BY <1>2, <1>3, <1>4, <1>5

-----------------------------------------------------------------------------
(* The calls of the user, and the operations of which they are made.       *)
Sevens == 0 .. 2 ^ (BITS - 1) - 1
WriteCalls == [op : {"write"}, to : Sevens, at : Nat, addr_size : 1 .. 4, data : Seq(I2cByte), ok : BOOLEAN]
ReadCalls ==
  [op : {"read"}, to : Sevens, at : Nat, addr_size : 1 .. 4, len : Nat, send_stop : BOOLEAN, ok : BOOLEAN]
PollCalls == [op : {"poll"}, to : Sevens, ok : BOOLEAN]
PlainCalls == WriteCalls \cup ReadCalls \cup PollCalls
ResetCalls == [op : {"reset"}, ok : {TRUE}]
RefusedCalls ==
  {c \in [op : {"write"}, to : Sevens, at : Nat, addr_size : Nat, data : Seq(I2cByte), ok : {FALSE}]
         \cup [op : {"read"}, to : Sevens, at : Nat, addr_size : Nat, len : Nat, send_stop : BOOLEAN,
               ok : {FALSE}] : Refused(c)}

Doings == {"start", "stop", "transmit", "receive", "clocks", "release"}
Ops == [do : Doings, arg : Int]
Op(what, arg) == [do |-> what, arg |-> arg]

(* The place of the last byte of the address, of the second start, and the
   number of the operations.                                               *)
LastPlace(c) == IF c.op = "poll" THEN 3 ELSE c.addr_size + 2
Second(c) == IF c.send_stop THEN LastPlace(c) + 2 ELSE LastPlace(c) + 1
Size(c) ==
  IF c.op = "write" THEN LastPlace(c) + Len(c.data) + 1 ELSE IF c.op = "read" THEN Second(c) + c.len + 2 ELSE 4

(* The words for the operations.                                           *)
LEMMA Words ==
  /\ "start" \in Doings /\ "stop" \in Doings /\ "transmit" \in Doings /\ "receive" \in Doings
  /\ "clocks" \in Doings /\ "release" \in Doings /\ 0 \in Int
BY DEF Doings

(* One more operation, and some more.                                      *)
IsMore(t, s, what, arg) ==
  /\ t \in Seq(Ops) /\ Len(t) = Len(s) + 1 /\ (\A i \in 1 .. Len(s) : t[i] = s[i])
  /\ t[Len(s) + 1] = Op(what, arg)

(* One operation more: the list is longer by one and otherwise the same.   *)
LEMMA OneMore ==
  ASSUME NEW s \in Seq(Ops), NEW what \in Doings, NEW arg \in Int
  PROVE  IsMore(s \o Operation(what, arg), s, what, arg)
<1>1. PICK x \in Ops : x = Op(what, arg)
  BY DEF Op, Ops, Doings
<1>2. PICK o \in Seq(Ops) : o = Operation(what, arg) /\ Len(o) = 1 /\ o[1] = x
  <2>1. Operation(what, arg) = <<x>>
    BY <1>1 DEF Operation, Op
  <2>2. <<x>> \in Seq(Ops) /\ Len(<<x>>) = 1 /\ <<x>>[1] = x
    OBVIOUS
  <2>3. QED
    BY <2>1, <2>2, Zenon
<1>3. PICK t : t = s \o o
  OBVIOUS
<1>4. /\ t \in Seq(Ops) /\ Len(t) = Len(s) + Len(o)
      /\ \A i \in 1 .. Len(s) + Len(o) : t[i] = IF i <= Len(s) THEN s[i] ELSE o[i - Len(s)]
  BY <1>3, ConcatProperties
<1>5. PICK n \in Nat, k \in Nat : n = Len(s) /\ k = n + 1 /\ k - n = 1 /\ ~ k <= n
  OBVIOUS
<1>6. (\A i \in 1 .. n : t[i] = s[i]) /\ t[k] = x /\ Len(t) = k
  <2>1. Len(t) = k /\ \A i \in 1 .. k : t[i] = IF i <= n THEN s[i] ELSE o[i - n]
    BY <1>2, <1>4, <1>5
  <2>2. \A i \in 1 .. n : i \in 1 .. k /\ i <= n
    BY <1>5
  <2>3. k \in 1 .. k
    BY <1>5
  <2>4. QED
    BY <1>2, <1>5, <2>1, <2>2, <2>3
<1>7. QED
  BY <1>1, <1>2, <1>3, <1>4, <1>5, <1>6, Zenon DEF IsMore

(* A loop of operations more: the first ones stay, its own follow.         *)
LEMMA SomeMore ==
  ASSUME NEW s \in Seq(Ops), NEW m \in Nat, NEW o \in [1 .. m -> Ops]
  PROVE  /\ s \o o \in Seq(Ops) /\ Len(s \o o) = Len(s) + m /\ (\A i \in 1 .. Len(s) : (s \o o)[i] = s[i])
         /\ \A i \in 1 .. m : (s \o o)[Len(s) + i] = o[i]
<1>1. o \in Seq(Ops) /\ Len(o) = m
  OBVIOUS
<1>2. PICK n \in Nat : n = Len(s)
  OBVIOUS
<1> DEFINE t == s \o o
<1> HIDE DEF t
<1>3. /\ t \in Seq(Ops) /\ Len(t) = n + m
      /\ \A i \in 1 .. n + m : t[i] = IF i <= n THEN s[i] ELSE o[i - n]
  <2>1. /\ t \in Seq(Ops) /\ Len(t) = Len(s) + Len(o)
        /\ \A i \in 1 .. Len(s) + Len(o) : t[i] = IF i <= Len(s) THEN s[i] ELSE o[i - Len(s)]
    BY <1>1, <1>2, ConcatProperties DEF t
  <2>2. QED
    BY <1>1, <1>2, <2>1
<1>4. \A i \in 1 .. n : t[i] = s[i]
  BY <1>3
<1>5. ASSUME NEW i \in 1 .. m PROVE t[n + i] = o[i]
  <2>1. PICK k \in 1 .. n + m : k = n + i /\ ~ k <= n /\ k - n = i
    <3>1. n + i \in 1 .. n + m /\ ~ n + i <= n /\ n + i - n = i
      OBVIOUS
    <3>2. QED
      BY <3>1
  <2>2. QED
    BY <1>3, <2>1
<1>6. QED
  BY <1>2, <1>3, <1>4, <1>5, Zenon DEF t

(* All calls begin with the address and one byte.                          *)
LEMMA BeginsSo ==
  ASSUME NEW a \in Int, NEW b \in Int
  PROVE  LET s == Start \o Transmit(a) \o Transmit(b)
         IN /\ s \in Seq(Ops) /\ Len(s) = 3
            /\ s[1] = Op("start", 0) /\ s[2] = Op("transmit", a) /\ s[3] = Op("transmit", b)
<1>1. PICK s1 \in Seq(Ops) : s1 = Start /\ Len(s1) = 1 /\ s1[1] = Op("start", 0)
  <2>1. PICK x \in Ops : x = Op("start", 0)
    <3>1. Op("start", 0) \in Ops
      BY Words DEF Op, Ops
    <3>2. QED
      BY <3>1
  <2>2. <<x>> \in Seq(Ops) /\ Len(<<x>>) = 1 /\ <<x>>[1] = x /\ Start = <<x>>
    BY <2>1 DEF Start, Operation, Op, Doings
  <2>3. QED
    BY <2>1, <2>2
<1>2. PICK s2 : s2 = s1 \o Operation("transmit", a)
  OBVIOUS
<1>3. s2 \in Seq(Ops) /\ Len(s2) = 2 /\ s2[1] = Op("start", 0) /\ s2[2] = Op("transmit", a)
  <2>1. IsMore(s2, s1, "transmit", a)
    BY <1>2, Words, OneMore, Zenon
  <2>2. QED
    BY <1>1, <2>1 DEF IsMore
<1>4. PICK s3 : s3 = s2 \o Operation("transmit", b)
  OBVIOUS
<1>5. /\ s3 \in Seq(Ops) /\ Len(s3) = 3 /\ s3[1] = Op("start", 0) /\ s3[2] = Op("transmit", a)
      /\ s3[3] = Op("transmit", b)
  <2>1. IsMore(s3, s2, "transmit", b)
    BY <1>3, <1>4, Words, OneMore, Zenon
  <2>2. QED
    BY <1>3, <2>1 DEF IsMore
<1>6. QED
  BY <1>1, <1>2, <1>4, <1>5, Zenon DEF Transmit

(* An address with the bit that says what to do.                           *)
LEMMA AddressBits ==
  ASSUME NEW to \in Sevens
  PROVE  /\ 2 * to \in I2cByte /\ (2 * to) \div 2 = to /\ (2 * to) % 2 = 0
         /\ 2 * to + 1 \in I2cByte /\ (2 * to + 1) \div 2 = to /\ (2 * to + 1) % 2 = 1
<1>1. PICK p \in Nat \ {0} : p = 2 ^ (BITS - 1) /\ 2 ^ BITS = 2 * p
  BY ByteSizes
<1>2. to \in 0 .. p - 1
  BY <1>1 DEF Sevens
<1>3. 2 * to \in 0 .. 2 * p - 1 /\ 2 * to + 1 \in 0 .. 2 * p - 1
  BY <1>2
<1>4. (2 * to) \div 2 = to /\ (2 * to) % 2 = 0 /\ (2 * to + 1) \div 2 = to /\ (2 * to + 1) % 2 = 1
  BY <1>2
<1>5. QED
  BY <1>1, <1>3, <1>4, Zenon DEF I2cByte

(* Writes and reads begin with the address on the bus and the bytes of the
   one in the memory.                                                      *)
LEMMA AddressIsSent ==
  ASSUME NEW c, c.to \in Sevens, c.at \in Nat, c.addr_size \in 1 .. 4, NEW e \in 3 .. 6, e = c.addr_size + 2
  PROVE  LET s == Start \o Transmit(2 * c.to) \o AddressBytes(c)
         IN /\ s \in Seq(Ops) /\ Len(s) = e
            /\ s[1] = Op("start", 0) /\ s[2] = Op("transmit", 2 * c.to)
            /\ \A n \in 3 .. e : s[n] = Op("transmit", AddressByte(c, e - n))
<1>1. PICK z \in 1 .. 4, a \in Int : z = c.addr_size /\ a = 2 * c.to
  BY AddressBits DEF I2cByte
<1>3. PICK s1 \in Seq(Ops) : s1 = Start /\ Len(s1) = 1 /\ s1[1] = Op("start", 0)
  <2>1. PICK x \in Ops : x = Op("start", 0)
    <3>1. Op("start", 0) \in Ops
      BY Words DEF Op, Ops
    <3>2. QED
      BY <3>1
  <2>2. <<x>> \in Seq(Ops) /\ Len(<<x>>) = 1 /\ <<x>>[1] = x /\ Start = <<x>>
    BY <2>1 DEF Start, Operation, Op, Doings
  <2>3. QED
    BY <2>1, <2>2
<1>4. PICK s2 : s2 = s1 \o Operation("transmit", a)
  OBVIOUS
<1>5. s2 \in Seq(Ops) /\ Len(s2) = 2 /\ s2[1] = Op("start", 0) /\ s2[2] = Op("transmit", a)
  <2>1. IsMore(s2, s1, "transmit", a)
    BY <1>4, Words, OneMore, Zenon
  <2>2. QED
    BY <1>3, <2>1 DEF IsMore
<1>6. PICK d : d = AddressBytes(c)
  OBVIOUS
<1>7. d \in [1 .. z -> Ops] /\ \A i \in 1 .. z : d[i] = Op("transmit", AddressByte(c, z - i))
  <2>1. ASSUME NEW i \in 1 .. z
        PROVE  /\ d[i] = Op("transmit", AddressByte(c, z - i))
               /\ Op("transmit", AddressByte(c, z - i)) \in Ops
    <3>1. PICK y \in I2cByte : y = AddressByte(c, z - i)
      <4>1. z - i \in 0 .. 3
        OBVIOUS
      <4>2. Shifted(c.at, z - i) % 2 ^ BITS \in I2cByte
        BY <4>1, ShiftedOnce, Zenon
      <4>3. QED
        BY <4>2, Zenon DEF AddressByte
    <3>2. d[i] = Op("transmit", y)
      <4>1. d[i] = Transmit(AddressByte(c, z - i))[1]
        BY <1>1, <1>6 DEF AddressBytes
      <4>2. QED
        BY <3>1, <4>1 DEF Transmit, Operation, Op
    <3>3. Op("transmit", y) \in Ops
      BY Words DEF Op, Ops, I2cByte
    <3>4. QED
      BY <3>1, <3>2, <3>3, Zenon
  <2>2. d = [n \in 1 .. z |-> Transmit(AddressByte(c, z - n))[1]]
    BY <1>1, <1>6 DEF AddressBytes
  <2>3. d \in [1 .. z -> Ops]
    BY <2>1, <2>2
  <2>4. QED
    BY <2>1, <2>3
<1>8. PICK s : s = s2 \o d
  OBVIOUS
<1>9. /\ s \in Seq(Ops) /\ Len(s) = e /\ s[1] = s2[1] /\ s[2] = s2[2]
      /\ \A i \in 1 .. z : s[2 + i] = d[i]
  <2>1. /\ s \in Seq(Ops) /\ Len(s) = Len(s2) + z /\ (\A i \in 1 .. Len(s2) : s[i] = s2[i])
        /\ \A i \in 1 .. z : s[Len(s2) + i] = d[i]
    <3>1. z \in Nat
      OBVIOUS
    <3>2. QED
      BY <1>5, <1>7, <1>8, <3>1, SomeMore, Zenon
  <2>2. e = z + 2
    BY <1>1
  <2>3. Len(s) = 2 + z /\ (\A i \in 1 .. 2 : s[i] = s2[i]) /\ \A i \in 1 .. z : s[2 + i] = d[i]
    BY <1>5, <2>1, Zenon
  <2>4. QED
    BY <2>1, <2>2, <2>3
<1>10. ASSUME NEW n \in 3 .. e PROVE s[n] = Op("transmit", AddressByte(c, e - n))
  <2>1. PICK i \in 1 .. z : i = n - 2 /\ 2 + i = n /\ z - i = e - n
    <3>1. n - 2 \in 1 .. z /\ 2 + (n - 2) = n /\ z - (n - 2) = e - n
      BY <1>1
    <3>2. QED
      BY <3>1
  <2>2. QED
    BY <1>7, <1>9, <2>1, Zenon
<1>11. s = Start \o Transmit(2 * c.to) \o AddressBytes(c)
  BY <1>1, <1>3, <1>4, <1>6, <1>8, Zenon DEF Transmit
<1>12. QED
  BY <1>1, <1>5, <1>9, <1>10, <1>11, Zenon

(* i2c_write: start, the address, the place in the memory, every byte of
   the data, stop.                                                         *)
LEMMA WriteIsMadeOf ==
  ASSUME NEW c \in WriteCalls
  PROVE  /\ Len(Body(c)) = Size(c) /\ Size(c) \in Nat /\ Size(c) >= 4 /\ LastPlace(c) \in 3 .. 6
         /\ Body(c)[1] = Op("start", 0) /\ Body(c)[2] = Op("transmit", 2 * c.to)
         /\ \A n \in 3 .. LastPlace(c) : Body(c)[n] = Op("transmit", AddressByte(c, LastPlace(c) - n))
         /\ \A i \in 1 .. Len(c.data) : Body(c)[LastPlace(c) + i] = Op("transmit", c.data[i])
         /\ Body(c)[Size(c)] = Op("stop", 0)
<1>1. PICK L \in Nat, z \in 3 .. 6 :
        /\ L = Len(c.data) /\ c.data \in [1 .. L -> I2cByte] /\ c.op = "write" /\ z = LastPlace(c)
        /\ z = c.addr_size + 2
  <2>1. c.data \in Seq(I2cByte) /\ c.op = "write" /\ c.addr_size \in 1 .. 4
    BY DEF WriteCalls
  <2>2. Len(c.data) \in Nat /\ c.data \in [1 .. Len(c.data) -> I2cByte]
    BY <2>1
  <2>3. LastPlace(c) = c.addr_size + 2 /\ LastPlace(c) \in 3 .. 6
    BY <2>1 DEF LastPlace
  <2>4. QED
    BY <2>1, <2>2, <2>3
<1>2. I2cByte \subseteq Int /\ c.to \in Sevens /\ c.at \in Nat /\ c.addr_size \in 1 .. 4
  BY DEF WriteCalls, I2cByte
<1>3. PICK s3 : s3 = Start \o Transmit(2 * c.to) \o AddressBytes(c)
  OBVIOUS
<1>4. /\ s3 \in Seq(Ops) /\ Len(s3) = z
      /\ s3[1] = Op("start", 0) /\ s3[2] = Op("transmit", 2 * c.to)
      /\ \A n \in 3 .. z : s3[n] = Op("transmit", AddressByte(c, z - n))
  BY <1>1, <1>2, <1>3, AddressIsSent
<1>5. PICK d : d = [n \in DOMAIN c.data |-> Transmit(c.data[n])[1]]
  OBVIOUS
<1>6. d \in [1 .. L -> Ops] /\ \A i \in 1 .. L : d[i] = Op("transmit", c.data[i])
  <2>1. DOMAIN c.data = 1 .. L /\ \A i \in 1 .. L : c.data[i] \in Int
    BY <1>1, <1>2
  <2>2. ASSUME NEW i \in 1 .. L PROVE d[i] = Op("transmit", c.data[i]) /\ Op("transmit", c.data[i]) \in Ops
    BY <1>5, <2>1 DEF Transmit, Operation, Op, Ops, Doings
  <2>3. d \in [1 .. L -> Ops]
    BY <1>5, <2>1, <2>2
  <2>4. QED
    BY <2>2, <2>3
<1>7. PICK s4 : s4 = s3 \o d
  OBVIOUS
<1>8. /\ s4 \in Seq(Ops) /\ Len(s4) = z + L /\ (\A i \in 1 .. z : s4[i] = s3[i])
      /\ \A i \in 1 .. L : s4[z + i] = d[i]
  <2>1. /\ s4 \in Seq(Ops) /\ Len(s4) = Len(s3) + L /\ (\A i \in 1 .. Len(s3) : s4[i] = s3[i])
        /\ \A i \in 1 .. L : s4[Len(s3) + i] = d[i]
    BY <1>4, <1>6, <1>7, SomeMore
  <2>2. QED
    BY <1>4, <2>1, Zenon
<1>9. PICK s5 : s5 = s4 \o Operation("stop", 0)
  OBVIOUS
<1>10. PICK n \in Nat : n = z + L
  BY <1>1
<1>11. /\ s5 \in Seq(Ops) /\ Len(s5) = n + 1 /\ (\A i \in 1 .. n : s5[i] = s4[i])
       /\ s5[n + 1] = Op("stop", 0)
  <2>1. IsMore(s5, s4, "stop", 0)
    BY <1>8, <1>9, Words, OneMore, Zenon
  <2>2. QED
    BY <1>8, <1>10, <2>1, Zenon DEF IsMore
<1>12. Body(c) = s5
  <2>1. Body(c) = i2c_write(c)
    BY <1>1, <1>2 DEF Body, Refused
  <2>2. QED
    BY <1>3, <1>5, <1>7, <1>9, <2>1, Zenon DEF i2c_write, Stop, I2C_ADDR_WR
<1>13. Size(c) = n + 1 /\ n + 1 \in Nat /\ n + 1 >= 4
  BY <1>1, <1>10 DEF Size
<1>14. ASSUME NEW i \in 1 .. L PROVE s5[z + i] = Op("transmit", c.data[i])
  <2>1. z + i \in 1 .. n
    BY <1>10
  <2>2. QED
    BY <1>6, <1>8, <1>11, <2>1
<1>15. ASSUME NEW i \in 1 .. z PROVE s5[i] = s3[i]
  <2>1. i \in 1 .. n
    BY <1>10
  <2>2. QED
    BY <1>8, <1>11, <2>1, Zenon
<1>16. s5[1] = s3[1] /\ s5[2] = s3[2] /\ \A i \in 3 .. z : s5[i] = s3[i]
  BY <1>15
<1>17. QED
  BY <1>1, <1>4, <1>11, <1>12, <1>13, <1>14, <1>16, Zenon

(* i2c_read: start, the address, the place, a stop if it is asked for,
   start again, the address to read, the bytes, of which only the last is
   refused, stop.                                                          *)
LEMMA ReadIsMadeOf ==
  ASSUME NEW c \in ReadCalls
  PROVE  /\ Len(Body(c)) = Size(c) /\ Size(c) \in Nat /\ Size(c) = Second(c) + c.len + 2
         /\ LastPlace(c) \in 3 .. 6 /\ Second(c) \in {LastPlace(c) + 1, LastPlace(c) + 2}
         /\ Body(c)[1] = Op("start", 0) /\ Body(c)[2] = Op("transmit", 2 * c.to)
         /\ \A n \in 3 .. LastPlace(c) : Body(c)[n] = Op("transmit", AddressByte(c, LastPlace(c) - n))
         /\ Second(c) = LastPlace(c) + 2 => Body(c)[LastPlace(c) + 1] = Op("stop", 0)
         /\ Body(c)[Second(c)] = Op("start", 0)
         /\ Body(c)[Second(c) + 1] = Op("transmit", 2 * c.to + 1)
         /\ \A i \in 1 .. c.len :
              Body(c)[Second(c) + 1 + i] = Op("receive", IF i # c.len THEN 1 ELSE 0)
         /\ Body(c)[Size(c)] = Op("stop", 0)
<1>1. PICK L \in Nat, z \in 3 .. 6 :
        L = c.len /\ c.op = "read" /\ c.send_stop \in BOOLEAN /\ z = LastPlace(c) /\ z = c.addr_size + 2
  <2>1. c.op = "read" /\ c.addr_size \in 1 .. 4 /\ c.len \in Nat /\ c.send_stop \in BOOLEAN
    BY DEF ReadCalls
  <2>2. LastPlace(c) = c.addr_size + 2 /\ LastPlace(c) \in 3 .. 6
    BY <2>1 DEF LastPlace
  <2>3. QED
    BY <2>1, <2>2
<1>2. c.to \in Sevens /\ c.at \in Nat /\ c.addr_size \in 1 .. 4 /\ 2 * c.to + 1 \in Int
  BY DEF ReadCalls, Sevens
<1>3. PICK s3 : s3 = Start \o Transmit(2 * c.to) \o AddressBytes(c)
  OBVIOUS
<1>4. /\ s3 \in Seq(Ops) /\ Len(s3) = z
      /\ s3[1] = Op("start", 0) /\ s3[2] = Op("transmit", 2 * c.to)
      /\ \A n \in 3 .. z : s3[n] = Op("transmit", AddressByte(c, z - n))
  BY <1>1, <1>2, <1>3, AddressIsSent
<1>5. PICK k \in {z + 1, z + 2} : k = Second(c) /\ k = IF c.send_stop THEN z + 2 ELSE z + 1
  BY <1>1 DEF Second
<1>6. PICK s4 : s4 = s3 \o (IF c.send_stop THEN Stop ELSE << >>)
  OBVIOUS
<1>7. /\ s4 \in Seq(Ops) /\ Len(s4) = k - 1 /\ (\A n \in 1 .. z : s4[n] = s3[n])
      /\ c.send_stop => s4[z + 1] = Op("stop", 0)
  <2>1. CASE c.send_stop
    <3>1. IsMore(s4, s3, "stop", 0)
      <4>1. s4 = s3 \o Operation("stop", 0)
        BY <1>6, <2>1 DEF Stop
      <4>2. QED
        BY <1>4, <4>1, Words, OneMore, Zenon
    <3>2. k = z + 2
      BY <1>5, <2>1
    <3>3. QED
      BY <1>4, <3>1, <3>2 DEF IsMore
  <2>2. CASE ~ c.send_stop
    <3>1. s4 = s3
      BY <1>4, <1>6, <2>2
    <3>2. k = z + 1
      BY <1>5, <2>2
    <3>3. QED
      BY <1>4, <2>2, <3>1, <3>2
  <2>3. QED
    BY <1>1, <2>1, <2>2
<1>8. PICK s5 : s5 = s4 \o Operation("start", 0)
  OBVIOUS
<1>9. s5 \in Seq(Ops) /\ Len(s5) = k /\ (\A i \in 1 .. k - 1 : s5[i] = s4[i]) /\ s5[k] = Op("start", 0)
  <2>1. IsMore(s5, s4, "start", 0)
    BY <1>7, <1>8, Words, OneMore, Zenon
  <2>2. Len(s4) + 1 = k
    BY <1>7
  <2>3. QED
    BY <1>7, <2>1, <2>2, Zenon DEF IsMore
<1>10. PICK s6 : s6 = s5 \o Operation("transmit", 2 * c.to + 1)
  OBVIOUS
<1>11. /\ s6 \in Seq(Ops) /\ Len(s6) = k + 1 /\ (\A i \in 1 .. k : s6[i] = s5[i])
       /\ s6[k + 1] = Op("transmit", 2 * c.to + 1)
  <2>1. IsMore(s6, s5, "transmit", 2 * c.to + 1)
    BY <1>2, <1>9, <1>10, Words, OneMore, Zenon
  <2>2. QED
    BY <1>9, <2>1, Zenon DEF IsMore
<1>12. PICK r : r = [n \in 1 .. c.len |-> Operation("receive", IF n # c.len THEN 1 ELSE 0)[1]]
  OBVIOUS
<1>13. r \in [1 .. L -> Ops] /\ \A i \in 1 .. L : r[i] = Op("receive", IF i # c.len THEN 1 ELSE 0)
  <2>1. ASSUME NEW i \in 1 .. L
        PROVE  /\ r[i] = Op("receive", IF i # c.len THEN 1 ELSE 0)
               /\ Op("receive", IF i # c.len THEN 1 ELSE 0) \in Ops
    BY <1>1, <1>12, Words DEF Operation, Op, Ops
  <2>2. r \in [1 .. L -> Ops]
    BY <1>1, <1>12, <2>1
  <2>3. QED
    BY <2>1, <2>2
<1>14. PICK s7 : s7 = s6 \o r
  OBVIOUS
<1>15. /\ s7 \in Seq(Ops) /\ Len(s7) = k + 1 + L /\ (\A i \in 1 .. k + 1 : s7[i] = s6[i])
       /\ \A i \in 1 .. L : s7[k + 1 + i] = r[i]
  <2>1. /\ s7 \in Seq(Ops) /\ Len(s7) = Len(s6) + L /\ (\A i \in 1 .. Len(s6) : s7[i] = s6[i])
        /\ \A i \in 1 .. L : s7[Len(s6) + i] = r[i]
    <3>1. s6 \in Seq(Ops) /\ r \in [1 .. L -> Ops] /\ s7 = s6 \o r /\ L \in Nat
      BY <1>11, <1>13, <1>14
    <3>2. QED
      BY <3>1, SomeMore, Zenon
  <2>2. QED
    BY <1>11, <2>1, Zenon
<1>16. PICK n \in Nat : n = k + 1 + L
  BY <1>1
<1>17. PICK s8 : s8 = s7 \o Operation("stop", 0)
  OBVIOUS
<1>18. s8 \in Seq(Ops) /\ Len(s8) = n + 1 /\ (\A i \in 1 .. n : s8[i] = s7[i]) /\ s8[n + 1] = Op("stop", 0)
  <2>1. IsMore(s8, s7, "stop", 0)
    BY <1>15, <1>17, Words, OneMore, Zenon
  <2>2. QED
    BY <1>15, <1>16, <2>1, Zenon DEF IsMore
<1>19. Body(c) = s8
  <2>1. Body(c) = i2c_read(c)
    BY <1>1, <1>2 DEF Body, Refused
  <2>2. QED
    BY <1>3, <1>6, <1>8, <1>10, <1>12, <1>14, <1>17, <2>1, Zenon
       DEF i2c_read, Start, Stop, Transmit, I2C_ADDR_WR, I2C_ADDR_RD
<1>20. Size(c) = n + 1 /\ n + 1 \in Nat /\ Size(c) = k + L + 2
  BY <1>1, <1>5, <1>16 DEF Size
<1>21. ASSUME NEW i \in 1 .. L PROVE s8[k + 1 + i] = r[i]
  <2>1. k + 1 + i \in 1 .. n
    BY <1>16
  <2>2. QED
    BY <1>15, <1>18, <2>1, Zenon
<1>22. ASSUME NEW i \in 1 .. k + 1 PROVE s8[i] = s6[i]
  <2>1. i \in 1 .. n
    BY <1>16
  <2>2. QED
    BY <1>15, <1>18, <2>1, Zenon
<1>23. s8[k + 1] = Op("transmit", 2 * c.to + 1)
  BY <1>11, <1>22
<1>24. s8[k] = Op("start", 0)
  <2>1. k \in 1 .. k /\ k \in 1 .. k + 1
    OBVIOUS
  <2>2. QED
    BY <1>9, <1>11, <1>22, <2>1, Zenon
<1>25. ASSUME NEW i \in 1 .. k - 1 PROVE s8[i] = s4[i]
  <2>1. i \in 1 .. k /\ i \in 1 .. k + 1
    OBVIOUS
  <2>2. QED
    BY <1>9, <1>11, <1>22, <2>1, Zenon
<1>26. (\A i \in 1 .. z : s8[i] = s3[i]) /\ (c.send_stop => s8[z + 1] = s4[z + 1])
  <2>1. ASSUME NEW i \in 1 .. z PROVE s8[i] = s3[i]
    <3>1. i \in 1 .. k - 1
      OBVIOUS
    <3>2. QED
      BY <1>7, <1>25, <3>1, Zenon
  <2>2. c.send_stop => z + 1 \in 1 .. k - 1
    BY <1>5
  <2>3. QED
    BY <1>25, <2>1, <2>2, Zenon
<1>27. \A i \in 1 .. c.len : s8[k + 1 + i] = Op("receive", IF i # c.len THEN 1 ELSE 0)
  BY <1>1, <1>13, <1>21
<1>28. /\ s8[1] = Op("start", 0) /\ s8[2] = Op("transmit", 2 * c.to)
       /\ \A i \in 3 .. z : s8[i] = Op("transmit", AddressByte(c, z - i))
       /\ k = z + 2 => s8[z + 1] = Op("stop", 0)
  <2>0. k = z + 2 => c.send_stop
    BY <1>1, <1>5
  <2>1. 1 \in 1 .. z /\ 2 \in 1 .. z /\ \A i \in 3 .. z : i \in 1 .. z
    OBVIOUS
  <2>2. QED
    BY <1>4, <1>7, <1>26, <2>0, <2>1, Zenon
<1>29. QED
  BY <1>1, <1>5, <1>18, <1>19, <1>20, <1>23, <1>24, <1>27, <1>28, Zenon

(* i2c_poll: start, the address to write, the address to read, stop.       *)
LEMMA PollIsMadeOf ==
  ASSUME NEW c \in PollCalls
  PROVE  /\ Len(Body(c)) = 4 /\ Size(c) = 4
         /\ Body(c)[1] = Op("start", 0) /\ Body(c)[2] = Op("transmit", 2 * c.to)
         /\ Body(c)[3] = Op("transmit", 2 * c.to + 1) /\ Body(c)[4] = Op("stop", 0)
<1>1. c.op = "poll" /\ 2 * c.to \in Int /\ 2 * c.to + 1 \in Int
  BY AddressBits DEF PollCalls, I2cByte
<1>2. PICK s3 : s3 = Start \o Transmit(2 * c.to) \o Transmit(2 * c.to + 1)
  OBVIOUS
<1>3. /\ s3 \in Seq(Ops) /\ Len(s3) = 3
      /\ s3[1] = Op("start", 0) /\ s3[2] = Op("transmit", 2 * c.to) /\ s3[3] = Op("transmit", 2 * c.to + 1)
  BY <1>1, <1>2, BeginsSo
<1>4. PICK s4 : s4 = s3 \o Operation("stop", 0)
  OBVIOUS
<1>5. IsMore(s4, s3, "stop", 0)
  BY <1>3, <1>4, Words, OneMore, Zenon
<1>6. Body(c) = s4
  <2>1. Body(c) = i2c_poll(c)
    BY <1>1 DEF Body, Refused
  <2>2. QED
    BY <1>2, <1>4, <2>1, Zenon DEF i2c_poll, Start, Stop, Transmit, I2C_ADDR_WR, I2C_ADDR_RD
<1>7. Size(c) = 4
  BY <1>1 DEF Size
<1>8. Len(s4) = 4 /\ s4[1] = s3[1] /\ s4[2] = s3[2] /\ s4[3] = s3[3] /\ s4[4] = Op("stop", 0)
  BY <1>3, <1>5 DEF IsMore
<1>9. QED
  BY <1>3, <1>6, <1>7, <1>8, Zenon

(* A reset of the bus: clocks, a stop, the lines let go.                   *)
LEMMA ResetIsMadeOf ==
  ASSUME NEW c \in ResetCalls
  PROVE  /\ Len(Body(c)) = 3
         /\ Body(c)[1] = Op("clocks", 0) /\ Body(c)[2] = Op("stop", 0) /\ Body(c)[3] = Op("release", 0)
<1>1. c.op = "reset"
  BY DEF ResetCalls
<1>2. Body(c) = i2c_reset
  BY <1>1 DEF Body, Refused
<1>3. PICK s1 \in Seq(Ops) : s1 = Operation("clocks", 0) /\ Len(s1) = 1 /\ s1[1] = Op("clocks", 0)
  <2>1. PICK x \in Ops : x = Op("clocks", 0)
    <3>1. Op("clocks", 0) \in Ops
      BY Words DEF Op, Ops
    <3>2. QED
      BY <3>1
  <2>2. <<x>> \in Seq(Ops) /\ Len(<<x>>) = 1 /\ <<x>>[1] = x /\ Operation("clocks", 0) = <<x>>
    BY <2>1 DEF Operation, Op
  <2>3. QED
    BY <2>1, <2>2
<1>4. PICK s2 : s2 = s1 \o Operation("stop", 0)
  OBVIOUS
<1>5. s2 \in Seq(Ops) /\ Len(s2) = 2 /\ s2[1] = Op("clocks", 0) /\ s2[2] = Op("stop", 0)
  <2>1. IsMore(s2, s1, "stop", 0)
    BY <1>4, Words, OneMore, Zenon
  <2>2. QED
    BY <1>3, <2>1 DEF IsMore
<1>6. PICK s3 : s3 = s2 \o Operation("release", 0)
  OBVIOUS
<1>7. s3 \in Seq(Ops) /\ Len(s3) = 3 /\ s3[1] = Op("clocks", 0) /\ s3[2] = Op("stop", 0) /\ s3[3] = Op("release", 0)
  <2>1. IsMore(s3, s2, "release", 0)
    BY <1>5, <1>6, Words, OneMore, Zenon
  <2>2. QED
    BY <1>5, <2>1 DEF IsMore
<1>8. Body(c) = s3
  BY <1>2, <1>3, <1>4, <1>6, Zenon DEF i2c_reset, Stop
<1>9. QED
  BY <1>7, <1>8, Zenon

(* A refused call has no operation at all.                                 *)
LEMMA RefusedIsNothing ==
  ASSUME NEW c \in RefusedCalls
  PROVE  /\ Body(c) = << >> /\ Len(Body(c)) = 0 /\ Refused(c) /\ c.op \in {"write", "read"}
         /\ c.to \in Sevens /\ c.ok = FALSE
<1>1. Refused(c) /\ c.op \in {"write", "read"} /\ c.to \in Sevens /\ c.ok = FALSE
  BY DEF RefusedCalls
<1>2. Body(c) = << >>
  BY <1>1 DEF Body
<1>3. QED
  BY <1>1, <1>2

-----------------------------------------------------------------------------
(* What a call does in its n-th place, the byte it transmits, and what the *)
(* slave takes that for.                                                   *)
IsStart(c, n) == n = 1 \/ (c.op = "read" /\ n = Second(c))
IsStop(c, n) == n = Size(c) \/ (c.op = "read" /\ n = LastPlace(c) + 1 /\ Second(c) = LastPlace(c) + 2)
IsReceive(c, n) == c.op = "read" /\ n > Second(c) + 1 /\ n < Size(c)
IsTransmit(c, n) ==
  n \in 2 .. LastPlace(c) \/ (c.op = "write" /\ n > LastPlace(c) /\ n < Size(c)) \/ (c.op = "read" /\ n = Second(c) + 1)
ByteOf(c, n) ==
  IF n = 2 THEN 2 * c.to
  ELSE IF c.op = "poll" \/ (c.op = "read" /\ n > LastPlace(c)) THEN 2 * c.to + 1
  ELSE IF n <= LastPlace(c) THEN AddressByte(c, LastPlace(c) - n) ELSE c.data[n - LastPlace(c)]
TakenFor(c, n) == IF n = 2 \/ (c.op = "read" /\ n > LastPlace(c)) THEN "address" ELSE "data"

(* The slave: it does nothing, waits for a byte, has heard k bits of it or *)
(* all of them, gives the bits of one.                                     *)
Quiet(s) == s.state = "off" /\ s.out = 1
Ready(s, st) == s.state = st /\ s.n = 0 /\ s.shift = 0 /\ s.out = 1
Hears(s, st, y, k) == s.state = st /\ s.n = k /\ s.shift = TopBits(y, k) /\ s.out = 1
Heard(s, st, y, n) == s.state = st /\ s.n = n /\ s.shift = y /\ s.out = 0
OutAt(x, n) == IF n = BITS THEN 1 ELSE BitOf(x, BITS - 1 - n)
Gives(s, n, v) == s.state = "send" /\ s.n = n /\ s.out = v

(* A byte is transmitted: bit b, edge e.                                   *)
Acked(b, e) == b = BITS + 1 \/ (b = BITS /\ e > 3)
Taken(b, e) == IF b = 0 THEN 0 ELSE IF e < 3 THEN b - 1 ELSE b
Level(b, e) == IF (b >= 1 /\ e = 3) \/ (b = BITS + 1 /\ e = 4) THEN 1 ELSE 0
Deaf(to, st, b, e) == to # SLAVE /\ (st # "address" \/ Acked(b, e))
After(s, st, y) ==
  IF st = "address" /\ y % 2 = 1 THEN Gives(s, 0, OutAt(s.mem[s.ptr], 0))
  ELSE Ready(s, "data")
TransmitAt(s, to, st, y, b, e) ==
  IF Deaf(to, st, b, e) THEN Quiet(s)
  ELSE IF ~ Acked(b, e) THEN Hears(s, st, y, Taken(b, e))
  ELSE IF b = BITS + 1 /\ e = 5 THEN After(s, st, y)
  ELSE Heard(s, st, y, IF b = BITS + 1 /\ e > 2 THEN BITS + 1 ELSE BITS)

(* A byte is received.                                                     *)
ReceiveLevel(b, e) == IF e = 3 \/ (b < BITS /\ e = 4) THEN 1 ELSE 0
ReceiveAt(s, x, last, b, e) ==
  IF b < BITS THEN Gives(s, IF e > 2 THEN b + 1 ELSE b, OutAt(x, IF e = 5 THEN b + 1 ELSE b))
  ELSE IF e <= 2 THEN Gives(s, BITS, 1)
  ELSE IF last THEN Quiet(s)
  ELSE IF e = 3 THEN Gives(s, BITS + 1, 1) ELSE Gives(s, 0, OutAt(s.mem[s.ptr], 0))

StartAt(s, fresh, e) ==
  /\ e = 1 /\ fresh => Quiet(s) /\ scl = 1 /\ oe = 0
  /\ e = 1 /\ ~ fresh => Ready(s, "data") /\ scl = 0
  /\ e = 2 => s.out = 1 /\ scl = 1 /\ sda = 1
  /\ e > 2 => Ready(s, "address") /\ scl = IF e = 3 THEN 1 ELSE 0
StopAt(s, e) ==
  /\ e <= 2 => (Quiet(s) \/ Ready(s, "data")) /\ scl = 0
  /\ e = 3 => s.out = 1 /\ scl = 1 /\ oe = 1 /\ sda = 0
  /\ e > 3 => Quiet(s) /\ scl = 1 /\ sda = 1 /\ (e = 5 => oe = 0)

(* How much is written, how much is read, and where the slave is.          *)
Ended == bit = BITS + 1 /\ edge = 5
Reached ==
  IF nth <= LastPlace(call) THEN 0
  ELSE IF nth < Size(call) THEN IF Acked(bit, edge) THEN nth - LastPlace(call) ELSE nth - LastPlace(call) - 1
  ELSE Len(call.data)
Follows ==
  /\ nth \in 2 .. LastPlace(call) /\ (nth = 2 => Ended) =>
       /\ slave.left = ADDR_SIZE + 2 - nth + (IF Ended THEN 0 ELSE 1)
       /\ call.op # "poll" => slave.ptr = Shifted(call.at, slave.left)
  /\ call.op = "write" /\ nth > LastPlace(call) /\ nth < Size(call) =>
       slave.left = 0 /\ slave.ptr = Nth(call.at, IF Ended THEN nth - LastPlace(call) + 1 ELSE nth - LastPlace(call))
  /\ call.op = "read" /\ nth > LastPlace(call) /\ nth <= Second(call) + 1 => slave.ptr = Nth(call.at, 1)
  /\ call.op = "read" =>
       /\ Len(received) = IF nth <= Second(call) + 1 THEN 0
                          ELSE IF nth > Size(call) THEN call.len ELSE nth - Second(call) - 2
       /\ \A k \in 1 .. Len(received) : received[k] = expected[Nth(call.at, k)]
Heads ==
  /\ call.to # SLAVE \/ Fits(call) =>
       slave.mem = IF call.op = "write" /\ call.to = SLAVE THEN Stored(call, Reached) ELSE expected
  /\ call.to = SLAVE /\ Fits(call) => Follows

Transmits ==
  /\ bit \in 0 .. BITS + 1 /\ edge \in 1 .. (IF bit = 0 THEN 2 ELSE 5) /\ scl = Level(bit, edge)
  /\ bit = BITS + 1 /\ edge = 3 => oe = 0
  /\ data = IF call.to # SLAVE /\ bit = BITS + 1 /\ edge > 3 THEN 1 ELSE 0
  /\ TransmitAt(slave, call.to, TakenFor(call, nth), ByteOf(call, nth), bit, edge)
Reading == IF bit < BITS THEN slave.mem[slave.ptr] ELSE data
Receives ==
  LET i == nth - Second(call) - 1
  IN /\ bit \in 0 .. BITS /\ edge \in 1 .. 5 /\ scl = ReceiveLevel(bit, edge)
     /\ bit < BITS /\ edge = 3 => oe = 0
     /\ data = TopBits(Reading, IF bit < BITS /\ edge > 3 THEN bit + 1 ELSE bit)
     /\ ReceiveAt(slave, Reading, i = call.len, bit, edge)
     /\ Fits(call) =>
          /\ Reading = expected[Nth(call.at, i)]
          /\ bit < BITS \/ edge < 4 \/ i # call.len =>
               slave.ptr = Nth(call.at, IF bit = BITS /\ edge > 3 THEN i + 1 ELSE i)

(* A stop that the slave may not see: that of a read of no bytes, while it
   sends, and that of a first reset.                                       *)
Stuck(s) == Quiet(s) \/ s.out = 0
BlindStop ==
  /\ edge <= 2 => scl = 0
  /\ edge = 3 => scl = 1 /\ oe = 1 /\ sda = 0
  /\ edge > 3 => Stuck(slave) /\ scl = 1 /\ sda = 1
Hanging(c, n) == c.op = "read" /\ c.len = 0 /\ c.to = SLAVE /\ n \in {Size(c), Size(c) + 1}

Plain ==
  /\ nth \in 1 .. Size(call) + 1
  /\ call.ok = (nth > 2 /\ call.to = SLAVE)
  /\ call.to # SLAVE /\ call.op # "poll" => nth \in {1, 2, Size(call), Size(call) + 1}
  /\ Heads
  /\ IsStart(call, nth) =>
       bit = 0 /\ data = 0 /\ edge \in 1 .. 4 /\ StartAt(slave, nth = 1 \/ Second(call) = LastPlace(call) + 2, edge)
  /\ IsStop(call, nth) =>
       /\ bit = 0 /\ data = 0 /\ edge \in 1 .. 5
       /\ ~ Hanging(call, nth) => StopAt(slave, edge)
       /\ Hanging(call, nth) => BlindStop /\ (edge = 5 => oe = 0)
  /\ IsTransmit(call, nth) => Transmits
  /\ IsReceive(call, nth) => Receives
  /\ nth = Size(call) + 1 =>
       Stuck(slave) /\ (~ Hanging(call, nth) => Quiet(slave)) /\ oe = 0 /\ scl = 1 /\ sda = 1

(* A reset: where the slave may be stuck, the clocks drain it.             *)
Draining(s, k) ==
  \/ Quiet(s) \/ (s.state = "send" /\ k <= s.n /\ s.n <= BITS)
  \/ s.state = "data" /\ s.n = k
ClockLevel(b, e) == IF e = 2 /\ b > 0 THEN 0 ELSE 1
Clocks ==
  /\ bit \in 0 .. BITS + 2 /\ scl = ClockLevel(bit, edge)
  /\ edge \in 1 .. (IF bit = 0 \/ bit = BITS + 2 THEN 2 ELSE 3)
  /\ owed < 2 =>
       /\ bit = 0 => Stuck(slave) /\ (oe = 0 \/ sda = 1)
       /\ bit = 1 /\ edge = 1 => Stuck(slave)
       /\ bit > 0 /\ bit <= BITS + 1 /\ ~ (bit = 1 /\ edge = 1) => Draining(slave, IF edge = 3 THEN bit ELSE bit - 1)
       /\ bit = BITS + 2 /\ edge = 1 => Draining(slave, BITS + 1)
       /\ bit = BITS + 2 /\ edge = 2 => Quiet(slave) \/ Ready(slave, "data")
Resets ==
  /\ nth \in 1 .. 4
  /\ nth = 1 => Clocks
  /\ nth = 2 => bit = 0 /\ edge \in 1 .. 5 /\ BlindStop /\ (edge = 5 => oe = 0) /\ (owed < 2 => StopAt(slave, edge))
  /\ nth \in {3, 4} =>
       bit = 0 /\ edge \in {1, 2} /\ oe = 0 /\ scl = 1 /\ sda = 1 /\ Stuck(slave) /\ (owed < 2 => Quiet(slave))

Released == oe = 0 /\ scl = 1 /\ sda = 1 /\ received = << >>
AtRest == Released /\ Quiet(slave) /\ slave.mem = expected

I2cInv ==
  /\ {oe, scl, sda} \subseteq {0, 1} /\ SlaveOK(slave, scl)
  /\ expected \in Memories /\ received \in Seq(I2cByte) /\ data \in I2cByte
  /\ {nth, bit, edge} \subseteq Nat /\ owed \in 0 .. 2
  /\ \/ call = NoCall /\ Released /\ (owed = 0 => AtRest) /\ (owed = 1 => Stuck(slave))
     \/ call \in PlainCalls /\ Plain /\ owed = 0
     \/ call \in RefusedCalls /\ AtRest /\ nth = 1 /\ owed = 0
     \/ call \in ResetCalls /\ Resets

-----------------------------------------------------------------------------
(* What the slave does with an edge of SCL.                                *)
LEMMA HearsABit ==
  ASSUME NEW s \in SlaveType, NEW st \in Ears, NEW y \in I2cByte, NEW k \in 0 .. BITS - 1, Hears(s, st, y, k)
  PROVE  /\ Hears(Rises(s, BitOf(y, BITS - 1 - k)), st, y, k + 1)
         /\ Rises(s, BitOf(y, BITS - 1 - k)).ptr = s.ptr /\ Rises(s, BitOf(y, BITS - 1 - k)).left = s.left
         /\ Rises(s, BitOf(y, BITS - 1 - k)).mem = s.mem
         /\ Falls(s) = s
<1>1. PICK v \in {0, 1} : v = BitOf(y, BITS - 1 - k) /\ TopBits(y, k + 1) = 2 * TopBits(y, k) + v
  BY BitAfterBit
<1>2. BITS \in Nat \ {0} /\ k \in Nat /\ k < BITS /\ k # BITS /\ k # BITS + 1 /\ k + 1 \in 0 .. BITS + 1
  BY ByteSizes
<1>3. PICK h \in Nat : h = TopBits(y, k + 1) /\ h = 2 * TopBits(y, k) + v
  <2>1. TopBits(y, k + 1) \in I2cByte
    BY <1>2, BitAfterBit
  <2>2. QED
    BY <1>1, <2>1, ByteSizes
<1>4. s.state = st /\ s.n = k /\ s.shift = TopBits(y, k) /\ s.out = 1 /\ st # "send" /\ st # "off"
  BY DEF Hears, Ears
<1>5. PICK r : r = [s EXCEPT !.n = k + 1, !.shift = h]
  OBVIOUS
<1>6. Rises(s, v) = r
  BY <1>2, <1>3, <1>4, <1>5 DEF Rises
<1>7. r.state = st /\ r.n = k + 1 /\ r.shift = h /\ r.out = 1 /\ r.ptr = s.ptr /\ r.left = s.left
      /\ r.mem = s.mem
  BY <1>2, <1>4, <1>5 DEF SlaveType
<1>8. Falls(s) = s
  BY <1>2, <1>4 DEF Falls
<1>9. QED
  BY <1>1, <1>3, <1>6, <1>7, <1>8, Zenon DEF Hears

(* With the last bit of a byte the slave acknowledges it and stores it if
   it is data; an address that is not its own it does not answer.          *)
LEMMA HearsTheLast ==
  ASSUME NEW s \in SlaveType, NEW st \in Ears, NEW y \in I2cByte, Hears(s, st, y, BITS)
  PROVE  /\ Falls(s).ptr = s.ptr /\ Falls(s).left = s.left
         /\ IF st = "address" /\ y \div 2 # SLAVE THEN Quiet(Falls(s)) ELSE Heard(Falls(s), st, y, BITS)
         /\ Falls(s).mem = IF st = "data" /\ s.left = 0 THEN [s.mem EXCEPT ![s.ptr] = y] ELSE s.mem
<1>1. BITS \in Nat \ {0} /\ BITS # BITS + 1 /\ TopBits(y, BITS) = y
  BY ByteSizes, BitAfterBit
<1>2. s.state = st /\ s.n = BITS /\ s.shift = y /\ s.out = 1 /\ st # "send" /\ st # "off"
  BY <1>1 DEF Hears, Ears
<1>3. PICK r : r = Acknowledges(s) /\ r = Falls(s)
  BY <1>1, <1>2 DEF Falls
<1>4. /\ SlaveOK(r, 0) /\ r.ptr = s.ptr /\ r.left = s.left
      /\ IF s.state = "address" /\ s.shift \div 2 # SLAVE
         THEN r.state = "off" /\ r.mem = s.mem
         ELSE /\ r.state = s.state /\ r.n = BITS /\ r.shift = s.shift /\ r.out = 0
              /\ r.mem = IF s.state = "data" /\ s.left = 0 THEN [s.mem EXCEPT ![s.ptr] = s.shift] ELSE s.mem
  BY <1>2, <1>3, AcknowledgesOK, Zenon
<1>5. CASE st = "address" /\ y \div 2 # SLAVE
  <2>1. r.state = "off" /\ r.mem = s.mem /\ r.out = 1 /\ st # "data"
    BY <1>2, <1>4, <1>5 DEF SlaveOK
  <2>2. QED
    BY <1>3, <1>4, <1>5, <2>1, Zenon DEF Quiet
<1>6. CASE ~ (st = "address" /\ y \div 2 # SLAVE)
  BY <1>2, <1>3, <1>4, <1>6, Zenon DEF Heard
<1>7. QED
  BY <1>5, <1>6, Zenon

(* The acknowledge is on the line for one clock; then the slave waits for
   the next byte or sends.                                                 *)
LEMMA HasHeard ==
  ASSUME NEW s \in SlaveType, NEW st \in Ears, NEW y \in I2cByte
  PROVE  /\ Heard(s, st, y, BITS) => \A l : /\ Heard(Rises(s, l), st, y, BITS + 1)
                                            /\ Rises(s, l).ptr = s.ptr /\ Rises(s, l).left = s.left
                                            /\ Rises(s, l).mem = s.mem
         /\ Heard(s, st, y, BITS + 1) =>
              /\ After(Falls(s), st, y) /\ Falls(s).mem = s.mem
              /\ Falls(s).ptr = PtrAfter(s, st, y) /\ Falls(s).left = LeftAfter(s, st, y)
<1>1. BITS \in Nat \ {0} /\ ~ BITS < BITS /\ BITS + 1 \in 0 .. BITS + 1 /\ BITS - 1 - 0 = BITS - 1 /\ 0 # BITS
  BY ByteSizes
<1>2. st # "send" /\ st # "off"
  BY DEF Ears
<1>3. ASSUME Heard(s, st, y, BITS), NEW l
      PROVE  /\ Heard(Rises(s, l), st, y, BITS + 1)
             /\ Rises(s, l).ptr = s.ptr /\ Rises(s, l).left = s.left /\ Rises(s, l).mem = s.mem
  <2>1. s.state = st /\ s.n = BITS /\ s.shift = y /\ s.out = 0
    BY <1>3 DEF Heard
  <2>2. PICK r : r = [s EXCEPT !.n = BITS + 1]
    OBVIOUS
  <2>3. Rises(s, l) = r
    <3>1. Rises(s, l) = [s EXCEPT !.n = @ + 1]
      BY <1>1, <1>2, <2>1 DEF Rises
    <3>2. QED
      BY <2>1, <2>2, <3>1
  <2>4. r.state = st /\ r.n = BITS + 1 /\ r.shift = y /\ r.out = 0 /\ r.ptr = s.ptr /\ r.left = s.left
        /\ r.mem = s.mem
    BY <1>1, <2>1, <2>2 DEF SlaveType
  <2>5. QED
    BY <2>3, <2>4, Zenon DEF Heard
<1>4. ASSUME Heard(s, st, y, BITS + 1)
      PROVE  /\ After(Falls(s), st, y) /\ Falls(s).mem = s.mem
             /\ Falls(s).ptr = PtrAfter(s, st, y) /\ Falls(s).left = LeftAfter(s, st, y)
  <2>1. s.state = st /\ s.n = BITS + 1 /\ s.shift = y /\ s.out = 0
    BY <1>4 DEF Heard
  <2>2. PICK r : r = HasAcknowledged(s) /\ r = Falls(s)
    BY <1>2, <2>1 DEF Falls
  <2>3. /\ r.n = 0 /\ r.mem = s.mem
        /\ r.state = IF s.state = "send" \/ (s.state = "address" /\ s.shift % 2 = 1) THEN "send" ELSE "data"
        /\ r.ptr = PtrAfter(s, st, y) /\ r.left = LeftAfter(s, st, y)
        /\ IF r.state = "send" THEN r.out = BitOf(s.mem[r.ptr], BITS - 1) ELSE r.shift = 0 /\ r.out = 1
    <3>1. s.state # "off" /\ (s.shift \in I2cByte \/ s.state = "send")
      BY <1>2, <2>1
    <3>2. r = HasAcknowledged(s)
      BY <2>2
    <3>3. QED
      BY <2>1, <3>1, <3>2, HasAcknowledgedOK
  <2>4. OutAt(r.mem[r.ptr], 0) = BitOf(r.mem[r.ptr], BITS - 1)
    BY <1>1, Zenon DEF OutAt
  <2>5. CASE st = "address" /\ y % 2 = 1
    <3>1. r.state = "send"
      BY <2>1, <2>3, <2>5
    <3>2. r.out = OutAt(r.mem[r.ptr], 0)
      BY <2>3, <2>4, <3>1, Zenon
    <3>3. After(r, st, y)
      BY <2>3, <2>5, <3>1, <3>2, Zenon DEF After, Gives
    <3>4. QED
      BY <2>1, <2>2, <2>3, <3>3, Zenon
  <2>6. CASE ~ (st = "address" /\ y % 2 = 1)
    <3>1. r.state = "data"
      BY <1>2, <2>1, <2>3, <2>6
    <3>2. r.state # "send"
      BY <3>1
    <3>3. Ready(r, "data")
      BY <2>3, <3>1, <3>2, Zenon DEF Ready
    <3>4. After(r, st, y)
      BY <2>6, <3>3, Zenon DEF After
    <3>5. QED
      BY <2>1, <2>2, <2>3, <3>4, Zenon
  <2>7. QED
    BY <2>5, <2>6, Zenon
<1>5. QED
  BY <1>3, <1>4, Zenon

(* A slave that does not listen does not change with the clock.            *)
LEMMA StaysQuiet ==
  ASSUME NEW s, Quiet(s)
  PROVE  Falls(s) = s /\ \A l : Rises(s, l) = s
BY DEF Quiet, Rises, Falls

(* A slave that sends gives the bits of its byte one by one; after them
   it ends or goes on with the next byte, as the master answers.           *)
LEMMA GivesABit ==
  ASSUME NEW s \in SlaveType, NEW v
  PROVE  /\ \A n \in 0 .. BITS - 1 : Gives(s, n, v) =>
              \A l : /\ Gives(Rises(s, l), n + 1, v) /\ Rises(s, l).ptr = s.ptr /\ Rises(s, l).mem = s.mem
         /\ \A n \in 0 .. BITS : Gives(s, n, v) =>
              Gives(Falls(s), n, OutAt(s.mem[s.ptr], n)) /\ Falls(s).ptr = s.ptr /\ Falls(s).mem = s.mem
         /\ Gives(s, BITS, 1) =>
              /\ Quiet(Rises(s, 1)) /\ Rises(s, 1).ptr = s.ptr /\ Rises(s, 1).mem = s.mem
              /\ Gives(Rises(s, 0), BITS + 1, 1) /\ Rises(s, 0).ptr = s.ptr /\ Rises(s, 0).mem = s.mem
         /\ Gives(s, BITS + 1, 1) =>
              /\ Falls(s).ptr = NextAddress(s.ptr) /\ Falls(s).mem = s.mem
              /\ Gives(Falls(s), 0, OutAt(Falls(s).mem[Falls(s).ptr], 0))
<1>1. BITS \in Nat \ {0} /\ ~ BITS < BITS /\ BITS + 1 \in 0 .. BITS + 1 /\ BITS - 1 - 0 = BITS - 1 /\ 0 # BITS
      /\ BITS # BITS + 1
  BY ByteSizes
<1>2. ASSUME NEW n \in 0 .. BITS - 1, Gives(s, n, v), NEW l
      PROVE  Gives(Rises(s, l), n + 1, v) /\ Rises(s, l).ptr = s.ptr /\ Rises(s, l).mem = s.mem
  <2>1. n + 1 \in 0 .. BITS + 1 /\ n < BITS
    BY <1>1
  <2>2. s.state = "send" /\ s.n = n /\ s.out = v
    BY <1>2 DEF Gives
  <2>3. PICK r : r = [s EXCEPT !.n = n + 1, !.shift = 0]
    OBVIOUS
  <2>4. Rises(s, l) = r
    BY <2>1, <2>2, <2>3 DEF Rises
  <2>5. r.state = "send" /\ r.n = n + 1 /\ r.out = v /\ r.ptr = s.ptr /\ r.mem = s.mem
    BY <2>1, <2>2, <2>3 DEF SlaveType
  <2>6. QED
    BY <2>4, <2>5, Zenon DEF Gives
<1>3. ASSUME NEW n \in 0 .. BITS, Gives(s, n, v)
      PROVE  Gives(Falls(s), n, OutAt(s.mem[s.ptr], n)) /\ Falls(s).ptr = s.ptr /\ Falls(s).mem = s.mem
  <2>1. s.state = "send" /\ s.n = n /\ s.out = v /\ n # BITS + 1
    BY <1>1, <1>3 DEF Gives
  <2>2. PICK w : w = OutAt(s.mem[s.ptr], n)
    OBVIOUS
  <2>3. PICK r : r = [s EXCEPT !.out = w]
    OBVIOUS
  <2>4. Falls(s) = r
    <3>1. w = IF s.n = BITS THEN 1 ELSE BitOf(s.mem[s.ptr], BITS - 1 - s.n)
      BY <2>1, <2>2 DEF OutAt
    <3>2. Falls(s) = [s EXCEPT !.out = IF s.n = BITS THEN 1 ELSE BitOf(s.mem[s.ptr], BITS - 1 - s.n)]
      BY <2>1 DEF Falls
    <3>3. QED
      BY <2>3, <3>1, <3>2, Zenon
  <2>5. r.state = "send" /\ r.n = n /\ r.out = w /\ r.ptr = s.ptr /\ r.mem = s.mem
    BY <2>1, <2>3 DEF SlaveType
  <2>6. QED
    BY <2>2, <2>4, <2>5, Zenon DEF Gives
<1>4. ASSUME Gives(s, BITS, 1)
      PROVE  /\ Quiet(Rises(s, 1)) /\ Rises(s, 1).ptr = s.ptr /\ Rises(s, 1).mem = s.mem
             /\ Gives(Rises(s, 0), BITS + 1, 1) /\ Rises(s, 0).ptr = s.ptr /\ Rises(s, 0).mem = s.mem
  <2>1. s.state = "send" /\ s.n = BITS /\ s.out = 1
    BY <1>4 DEF Gives
  <2>2. Rises(s, 1) = Off(s)
    BY <1>1, <2>1 DEF Rises
  <2>3. Quiet(Rises(s, 1)) /\ Rises(s, 1).ptr = s.ptr /\ Rises(s, 1).mem = s.mem
    BY <2>2, TurnsOK DEF Quiet
  <2>4. PICK r : r = [s EXCEPT !.n = BITS + 1]
    OBVIOUS
  <2>5. Rises(s, 0) = r
    <3>1. Rises(s, 0) = [s EXCEPT !.n = @ + 1]
      BY <1>1, <2>1 DEF Rises
    <3>2. QED
      BY <2>1, <2>4, <3>1
  <2>6. r.state = "send" /\ r.n = BITS + 1 /\ r.out = 1 /\ r.ptr = s.ptr /\ r.mem = s.mem
    BY <1>1, <2>1, <2>4 DEF SlaveType
  <2>7. QED
    BY <2>3, <2>5, <2>6, Zenon DEF Gives
<1>5. ASSUME Gives(s, BITS + 1, 1)
      PROVE  /\ Falls(s).ptr = NextAddress(s.ptr) /\ Falls(s).mem = s.mem
             /\ Gives(Falls(s), 0, OutAt(Falls(s).mem[Falls(s).ptr], 0))
  <2>1. s.state = "send" /\ s.n = BITS + 1 /\ s.out = 1
    BY <1>5 DEF Gives
  <2>2. PICK r : r = HasAcknowledged(s) /\ r = Falls(s)
    BY <2>1 DEF Falls
  <2>3. /\ r.n = 0 /\ r.mem = s.mem /\ r.state = "send" /\ r.ptr = NextAddress(s.ptr)
        /\ r.out = BitOf(s.mem[r.ptr], BITS - 1)
    BY <2>1, <2>2, HasAcknowledgedOK DEF PtrAfter
  <2>4. OutAt(r.mem[r.ptr], 0) = BitOf(r.mem[r.ptr], BITS - 1)
    BY <1>1, Zenon DEF OutAt
  <2>5. QED
    BY <2>2, <2>3, <2>4, Zenon DEF Gives
<1>6. QED
  BY <1>2, <1>3, <1>4, <1>5, Zenon

-----------------------------------------------------------------------------
(* Every place of a call has one of the four kinds.                        *)
LEMMA Kinds ==
  ASSUME NEW c \in PlainCalls
  PROVE  /\ c # NoCall /\ c.to \in Sevens /\ c.ok \in BOOLEAN /\ c.op \in {"write", "read", "poll"}
         /\ c.op = "write" => c \in WriteCalls
         /\ c.op = "read" => c \in ReadCalls
         /\ c.op = "poll" => c \in PollCalls
         /\ Size(c) \in Nat /\ Size(c) >= 4 /\ LastPlace(c) \in 3 .. 6 /\ LastPlace(c) < Size(c)
         /\ c.op = "read" => /\ Second(c) \in {LastPlace(c) + 1, LastPlace(c) + 2} /\ c.len \in Nat
                             /\ Size(c) = Second(c) + c.len + 2
         /\ c.op = "write" => Size(c) = LastPlace(c) + Len(c.data) + 1 /\ Len(c.data) \in Nat
         /\ c.op = "poll" => LastPlace(c) = 3 /\ Size(c) = 4
         /\ Len(Body(c)) = Size(c)
<1>1. /\ c.to \in Sevens /\ c.ok \in BOOLEAN /\ c.op \in {"write", "read", "poll"}
      /\ (c.op = "write" => c \in WriteCalls) /\ (c.op = "read" => c \in ReadCalls)
      /\ (c.op = "poll" => c \in PollCalls)
  BY DEF PlainCalls, WriteCalls, ReadCalls, PollCalls
<1>2. c # NoCall
  <2>1. "op" \in DOMAIN c
    BY DEF PlainCalls, WriteCalls, ReadCalls, PollCalls
  <2>2. DOMAIN NoCall = {}
    BY DEF NoCall
  <2>3. QED
    BY <2>1, <2>2
<1>3. CASE c.op = "write"
  <2>1. c \in WriteCalls /\ Len(c.data) \in Nat
    BY <1>1, <1>3 DEF WriteCalls
  <2>2. Len(Body(c)) = Size(c) /\ Size(c) \in Nat /\ Size(c) >= 4 /\ LastPlace(c) \in 3 .. 6
    BY <2>1, WriteIsMadeOf, Zenon
  <2>3. Size(c) = LastPlace(c) + Len(c.data) + 1
    BY <1>3 DEF Size
  <2>4. QED
    BY <1>1, <1>2, <1>3, <2>1, <2>2, <2>3
<1>4. CASE c.op = "read"
  <2>1. c \in ReadCalls /\ c.len \in Nat
    BY <1>1, <1>4 DEF ReadCalls
  <2>2. /\ Len(Body(c)) = Size(c) /\ Size(c) \in Nat /\ Size(c) = Second(c) + c.len + 2
        /\ LastPlace(c) \in 3 .. 6 /\ Second(c) \in {LastPlace(c) + 1, LastPlace(c) + 2}
    BY <2>1, ReadIsMadeOf, Zenon
  <2>3. PICK z \in 3 .. 6, L \in Nat : z = LastPlace(c) /\ L = c.len /\ Second(c) \in {z + 1, z + 2}
    BY <2>1, <2>2
  <2>4. PICK k \in {z + 1, z + 2} : k = Second(c)
    BY <2>3
  <2>5. k + L + 2 > z /\ k + L + 2 >= 4
    OBVIOUS
  <2>6. LastPlace(c) < Size(c) /\ Size(c) >= 4
    <3>1. Size(c) = k + L + 2
      BY <2>2, <2>3, <2>4, Zenon
    <3>2. QED
      BY <2>3, <2>5, <3>1
  <2>7. QED
    BY <1>1, <1>2, <1>4, <2>1, <2>2, <2>6
<1>5. CASE c.op = "poll"
  <2>1. c \in PollCalls /\ Len(Body(c)) = 4 /\ Size(c) = 4 /\ LastPlace(c) = 3
    BY <1>1, <1>5, PollIsMadeOf DEF LastPlace
  <2>2. QED
    BY <1>1, <1>2, <1>5, <2>1
<1>6. QED
  BY <1>1, <1>3, <1>4, <1>5

(* It is a start, a stop, a byte transmitted or a byte received, and the
   list of operations says the same.                                       *)
LEMMA KindOfPlace ==
  ASSUME NEW c \in PlainCalls, NEW n \in Nat, n \in 1 .. Size(c)
  PROVE  \/ /\ IsStart(c, n) /\ ~ IsStop(c, n) /\ ~ IsTransmit(c, n) /\ ~ IsReceive(c, n)
            /\ Body(c)[n] = Op("start", 0)
         \/ /\ IsStop(c, n) /\ ~ IsStart(c, n) /\ ~ IsTransmit(c, n) /\ ~ IsReceive(c, n)
            /\ Body(c)[n] = Op("stop", 0)
         \/ /\ IsTransmit(c, n) /\ ~ IsStart(c, n) /\ ~ IsStop(c, n) /\ ~ IsReceive(c, n)
            /\ Body(c)[n] = Op("transmit", ByteOf(c, n)) /\ n < Size(c) /\ n > 1
         \/ /\ IsReceive(c, n) /\ ~ IsStart(c, n) /\ ~ IsStop(c, n) /\ ~ IsTransmit(c, n)
            /\ Body(c)[n] = Op("receive", IF n - Second(c) - 1 # c.len THEN 1 ELSE 0)
<1>1. PICK z \in 3 .. 6, m \in Nat :
        z = LastPlace(c) /\ m = Size(c) /\ z < m /\ c.op \in {"write", "read", "poll"} /\ c \in PlainCalls
  BY Kinds
<1>2. CASE c.op = "write"
  <2>1. c \in WriteCalls /\ m = z + Len(c.data) + 1 /\ Len(c.data) \in Nat
    BY <1>1, <1>2, Kinds
  <2>2. /\ Body(c)[1] = Op("start", 0) /\ Body(c)[2] = Op("transmit", 2 * c.to)
        /\ \A k \in 3 .. z : Body(c)[k] = Op("transmit", AddressByte(c, z - k))
        /\ \A i \in 1 .. Len(c.data) : Body(c)[z + i] = Op("transmit", c.data[i])
        /\ Body(c)[m] = Op("stop", 0)
    BY <1>1, <2>1, WriteIsMadeOf
  <2>3. CASE n \in {1, 2} \/ n = m
    BY <1>1, <1>2, <2>2, <2>3 DEF IsStart, IsStop, IsTransmit, IsReceive, ByteOf
  <2>4. CASE n \in 3 .. z
    <3>1. ByteOf(c, n) = AddressByte(c, z - n) /\ Body(c)[n] = Op("transmit", AddressByte(c, z - n))
      BY <1>1, <1>2, <2>2, <2>4 DEF ByteOf
    <3>2. QED
      BY <1>1, <1>2, <2>4, <3>1 DEF IsStart, IsStop, IsTransmit, IsReceive
  <2>5. CASE n > z /\ n < m
    <3>1. PICK L \in Nat : L = Len(c.data) /\ m = z + L + 1
      BY <2>1
    <3>2. PICK i \in 1 .. L : i = n - z /\ z + i = n
      <4>1. m = z + L + 1
        BY <3>1
      <4>2. n - z \in 1 .. L /\ z + (n - z) = n
        BY <2>5, <4>1
      <4>3. QED
        BY <4>2
    <3>3. ByteOf(c, n) = c.data[i]
      <4>1. n # 2 /\ ~ n <= z
        BY <2>5
      <4>2. c.op # "poll" /\ c.op # "read"
        BY <1>2
      <4>3. ByteOf(c, n) = c.data[n - z]
        BY <1>1, <4>1, <4>2, Zenon DEF ByteOf
      <4>4. QED
        BY <3>2, <4>3
    <3>4. Body(c)[n] = Op("transmit", c.data[i])
      BY <2>2, <3>1, <3>2, Zenon
    <3>5. QED
      BY <1>1, <1>2, <2>5, <3>3, <3>4 DEF IsStart, IsStop, IsTransmit, IsReceive
  <2>6. QED
    BY <1>1, <2>3, <2>4, <2>5
<1>3. CASE c.op = "read"
  <2>1. PICK k \in {z + 1, z + 2} : k = Second(c) /\ m = k + c.len + 2 /\ c.len \in Nat
    BY <1>1, <1>3, Kinds
  <2>2. /\ Body(c)[1] = Op("start", 0) /\ Body(c)[2] = Op("transmit", 2 * c.to)
        /\ \A j \in 3 .. z : Body(c)[j] = Op("transmit", AddressByte(c, z - j))
        /\ k = z + 2 => Body(c)[z + 1] = Op("stop", 0)
        /\ Body(c)[k] = Op("start", 0) /\ Body(c)[k + 1] = Op("transmit", 2 * c.to + 1)
        /\ \A i \in 1 .. c.len : Body(c)[k + 1 + i] = Op("receive", IF i # c.len THEN 1 ELSE 0)
        /\ Body(c)[m] = Op("stop", 0)
    <3>1. c \in ReadCalls
      BY <1>3, Kinds
    <3>2. QED
      BY <1>1, <2>1, <3>1, ReadIsMadeOf
  <2>3. CASE n \in {1, 2} \/ n = m
    BY <1>1, <1>3, <2>1, <2>2, <2>3 DEF IsStart, IsStop, IsTransmit, IsReceive, ByteOf
  <2>4. CASE n \in 3 .. z
    <3>1. ByteOf(c, n) = AddressByte(c, z - n) /\ Body(c)[n] = Op("transmit", AddressByte(c, z - n))
      BY <1>1, <1>3, <2>2, <2>4 DEF ByteOf
    <3>2. QED
      BY <1>1, <1>3, <2>1, <2>4, <3>1 DEF IsStart, IsStop, IsTransmit, IsReceive
  <2>5. CASE n > z /\ n <= k + 1
    <3>1. ByteOf(c, k + 1) = 2 * c.to + 1
      BY <1>1, <1>3, <2>1 DEF ByteOf
    <3>2. (n = z + 1 /\ k = z + 2) \/ n = k \/ n = k + 1
      BY <2>1, <2>5
    <3>3. QED
      BY <1>1, <1>3, <2>1, <2>2, <3>1, <3>2 DEF IsStart, IsStop, IsTransmit, IsReceive
  <2>6. CASE n > k + 1 /\ n < m
    <3>1. PICK i \in 1 .. c.len : i = n - k - 1 /\ k + 1 + i = n
      <4>1. n - k - 1 \in 1 .. c.len /\ k + 1 + (n - k - 1) = n
        BY <2>1, <2>6
      <4>2. QED
        BY <4>1
    <3>2. Body(c)[n] = Op("receive", IF i # c.len THEN 1 ELSE 0)
      BY <2>2, <3>1, Zenon
    <3>3. Body(c)[n] = Op("receive", IF n - Second(c) - 1 # c.len THEN 1 ELSE 0)
      BY <2>1, <3>1, <3>2
    <3>4. QED
      BY <1>1, <1>3, <2>1, <2>6, <3>3 DEF IsStart, IsStop, IsTransmit, IsReceive
  <2>7. QED
    BY <1>1, <2>1, <2>3, <2>4, <2>5, <2>6
<1>4. CASE c.op = "poll"
  <2>1. /\ Size(c) = 4 /\ LastPlace(c) = 3
        /\ Body(c)[1] = Op("start", 0) /\ Body(c)[2] = Op("transmit", 2 * c.to)
        /\ Body(c)[3] = Op("transmit", 2 * c.to + 1) /\ Body(c)[4] = Op("stop", 0)
    BY <1>4, Kinds, PollIsMadeOf
  <2>2. ByteOf(c, 2) = 2 * c.to /\ ByteOf(c, 3) = 2 * c.to + 1
    BY <1>4 DEF ByteOf
  <2>3. n \in {1, 2, 3, 4}
    BY <2>1
  <2>4. QED
    BY <1>4, <2>1, <2>2, <2>3 DEF IsStart, IsStop, IsTransmit, IsReceive
<1>5. QED
  BY <1>1, <1>2, <1>3, <1>4

(* The bytes that are transmitted, and what the slave takes them for.      *)
LEMMA ByteOfPlace ==
  ASSUME NEW c \in PlainCalls, NEW n \in Nat, IsTransmit(c, n), n \in 1 .. Size(c)
  PROVE  /\ ByteOf(c, n) \in I2cByte /\ TakenFor(c, n) \in Ears
         /\ TakenFor(c, n) = "address" =>
              ByteOf(c, n) \div 2 = c.to /\ ByteOf(c, n) % 2 = IF n = 2 THEN 0 ELSE 1
<1>1. PICK z \in 3 .. 6, m \in Nat :
        /\ z = LastPlace(c) /\ m = Size(c) /\ c.to \in Sevens /\ c.op \in {"write", "read", "poll"}
        /\ c.op = "read" => Second(c) \in {z + 1, z + 2}
        /\ c.op = "poll" => z = 3 /\ m = 4
        /\ c.op = "write" => m = z + Len(c.data) + 1 /\ Len(c.data) \in Nat
  BY Kinds
<1>2. PICK w \in I2cByte, r \in I2cByte :
        /\ w = 2 * c.to /\ w \div 2 = c.to /\ w % 2 = 0
        /\ r = 2 * c.to + 1 /\ r \div 2 = c.to /\ r % 2 = 1
  BY <1>1, AddressBits
<1>3. n # 1
  <2>1. ~ 1 \in 2 .. z /\ ~ 1 > z
    OBVIOUS
  <2>2. c.op = "read" => Second(c) + 1 # 1
    BY <1>1
  <2>3. QED
    BY <1>1, <2>1, <2>2, Zenon DEF IsTransmit
<1>4. CASE n = 2
  BY <1>2, <1>4 DEF ByteOf, TakenFor, Ears
<1>5. CASE n # 2 /\ (c.op = "poll" \/ (c.op = "read" /\ n > z))
  <2>1. ByteOf(c, n) = r
    BY <1>1, <1>2, <1>5 DEF ByteOf
  <2>2. QED
    BY <1>1, <1>2, <1>5, <2>1 DEF TakenFor, Ears
<1>6. CASE n # 2 /\ n <= z /\ c.op # "poll"
  <2>1. ByteOf(c, n) = AddressByte(c, z - n) /\ TakenFor(c, n) = "data"
    BY <1>1, <1>6 DEF ByteOf, TakenFor
  <2>2. c.at \in Nat /\ z - n \in 0 .. 3
    BY <1>1, <1>3, <1>6, Kinds DEF WriteCalls, ReadCalls
  <2>3. AddressByte(c, z - n) \in I2cByte
    BY <2>2, ShiftedOnce, Zenon DEF AddressByte
  <2>4. QED
    BY <2>1, <2>3 DEF Ears
<1>7. CASE n > z /\ c.op = "write"
  <2>1. c.data \in Seq(I2cByte)
    BY <1>7, Kinds DEF WriteCalls
  <2>2. PICK L \in Nat : L = Len(c.data) /\ m = z + L + 1
    BY <1>1, <1>7
  <2>3. c.data[n - z] \in I2cByte
    <3>1. m = z + L + 1 /\ n < m
      <4>1. ~ n \in 2 .. z
        BY <1>7
      <4>2. QED
        BY <1>1, <1>7, <2>2, <4>1, Zenon DEF IsTransmit
    <3>2. n - z \in 1 .. L
      BY <1>7, <3>1
    <3>3. QED
      BY <2>1, <2>2, <3>2
  <2>4. ByteOf(c, n) = c.data[n - z] /\ TakenFor(c, n) = "data"
    BY <1>1, <1>7 DEF ByteOf, TakenFor
  <2>5. QED
    BY <2>3, <2>4 DEF Ears
<1>8. QED
  BY <1>1, <1>3, <1>4, <1>5, <1>6, <1>7

(* What is stored after one byte more.                                     *)
LEMMA StoredNext ==
  ASSUME expected \in Memories, NEW c \in WriteCalls
  PROVE  /\ Stored(c, 0) = expected
         /\ \A i \in 1 .. Len(c.data) :
              Stored(c, i) = [Stored(c, i - 1) EXCEPT ![Nth(c.at, i)] = c.data[i]]
<1>1. c.data \in Seq(I2cByte) /\ Len(c.data) \in Nat
  BY DEF WriteCalls
<1> DEFINE Hits(k, a) == {n \in 1 .. k : Nth(c.at, n) = a}
           Latest(H) == CHOOSE n \in H : \A m \in H : m <= n
           Of(H, a) == IF H = {} THEN expected[a] ELSE c.data[Latest(H)]
           At(k, a) == Of(Hits(k, a), a)
<1>2. \A k : Stored(c, k) = [a \in Cells |-> At(k, a)]
  BY DEF Stored
<1>3. Stored(c, 0) = expected
  <2>1. ASSUME NEW a \in Cells PROVE At(0, a) = expected[a]
    <3>1. Hits(0, a) = {}
      OBVIOUS
    <3>2. QED
      BY <3>1
  <2>2. Stored(c, 0) = [a \in Cells |-> expected[a]]
    BY <1>2, <2>1
  <2>3. QED
    BY <2>2 DEF Memories
<1>4. ASSUME NEW i \in 1 .. Len(c.data), NEW a \in Cells
      PROVE  At(i, a) = IF a = Nth(c.at, i) THEN c.data[i] ELSE At(i - 1, a)
  <2>1. CASE a = Nth(c.at, i)
    <3>1. i \in Hits(i, a) /\ \A m \in Hits(i, a) : m <= i
      BY <2>1
    <3>2. \A n \in Hits(i, a) : (\A m \in Hits(i, a) : m <= n) => n = i
      <4>1. SUFFICES ASSUME NEW n \in Hits(i, a), \A m \in Hits(i, a) : m <= n PROVE n = i
        OBVIOUS
      <4>2. i <= n /\ n <= i /\ n \in Int
        BY <3>1, <4>1
      <4>3. QED
        BY <4>2
    <3>3. Latest(Hits(i, a)) = i
      <4> HIDE DEF Hits
      <4>1. QED
        BY <3>1, <3>2
    <3>4. QED
      BY <2>1, <3>1, <3>3
  <2>2. CASE a # Nth(c.at, i)
    <3>1. Hits(i, a) = Hits(i - 1, a)
      BY <2>2
    <3>2. At(i, a) = At(i - 1, a)
      <4> HIDE DEF Hits, Of
      <4>1. QED
        BY <3>1
    <3>3. QED
      <4> HIDE DEF At
      <4>1. QED
        BY <2>2, <3>2
  <2>3. QED
    BY <2>1, <2>2, Zenon
<1>5. ASSUME NEW i \in 1 .. Len(c.data)
      PROVE  Stored(c, i) = [Stored(c, i - 1) EXCEPT ![Nth(c.at, i)] = c.data[i]]
  <2> HIDE DEF At
  <2>1. PICK j : j = i - 1
    OBVIOUS
  <2>2. Stored(c, j) = [a \in Cells |-> At(j, a)] /\ Stored(c, i) = [a \in Cells |-> At(i, a)]
    BY <1>2
  <2>3. [Stored(c, j) EXCEPT ![Nth(c.at, i)] = c.data[i]]
          = [a \in Cells |-> IF a = Nth(c.at, i) THEN c.data[i] ELSE At(j, a)]
    BY <2>2
  <2>4. \A a \in Cells : At(i, a) = IF a = Nth(c.at, i) THEN c.data[i] ELSE At(j, a)
    BY <1>4, <2>1
  <2>5. QED
    BY <2>1, <2>2, <2>3, <2>4
<1>6. QED
  BY <1>3, <1>5

-----------------------------------------------------------------------------
(* A step on the lines.                                                    *)
LEMMA LinesOf ==
  ASSUME NEW b, NEW y
  PROVE  /\ Lines(Op("start", y), b) = i2c_start /\ Lines(Op("stop", y), b) = i2c_stop
         /\ Lines(Op("transmit", y), b) = i2c_transmit_byte(y, b)
         /\ Lines(Op("receive", y), b) = i2c_receive_byte(y, b)
         /\ Lines(Op("clocks", y), b) = ResetClock(b) /\ Lines(Op("release", y), b) = <<<<0, 1, 1>>>>
         /\ LastBit(Op("start", y)) = 0 /\ LastBit(Op("stop", y)) = 0 /\ LastBit(Op("release", y)) = 0
         /\ LastBit(Op("transmit", y)) = BITS + 1 /\ LastBit(Op("receive", y)) = BITS
         /\ LastBit(Op("clocks", y)) = BITS + 2
<1>1. \A w : Op(w, y).do = w /\ Op(w, y).arg = y
  BY DEF Op
<1>2. /\ Lines(Op("start", y), b) = i2c_start /\ Lines(Op("stop", y), b) = i2c_stop
      /\ Lines(Op("transmit", y), b) = i2c_transmit_byte(y, b)
      /\ Lines(Op("receive", y), b) = i2c_receive_byte(y, b)
      /\ Lines(Op("clocks", y), b) = ResetClock(b) /\ Lines(Op("release", y), b) = <<<<0, 1, 1>>>>
  BY <1>1 DEF Lines
<1>3. /\ LastBit(Op("start", y)) = 0 /\ LastBit(Op("stop", y)) = 0 /\ LastBit(Op("release", y)) = 0
      /\ LastBit(Op("transmit", y)) = BITS + 1 /\ LastBit(Op("receive", y)) = BITS
      /\ LastBit(Op("clocks", y)) = ResetClocks + 1
  BY <1>1 DEF LastBit
<1>4. ResetClocks + 1 = BITS + 2
  BY ByteSizes DEF ResetClocks
<1>5. QED
  BY <1>2, <1>3, <1>4, Zenon

(* The slave when only the line of the data changes, or none.              *)
LEMMA LineMoves ==
  ASSUME I2cInv, i2c_oe_scl_sda,
         NEW o \in {0, 1}, NEW c \in {0, 1}, NEW d \in {0, 1}, Here[edge] = <<o, c, d>>
  PROVE  /\ oe' = o /\ scl' = c /\ sda' = d /\ edge' = edge + 1 /\ SlaveOK(slave', c)
         /\ slave \in SlaveType /\ slave' \in SlaveType
         /\ UNCHANGED <<call, nth, bit, data, received, expected, owed>>
         /\ scl = 0 /\ c = 1 => slave' = Rises(slave, Bus(o, d, slave.out))
         /\ scl = 1 /\ c = 0 => slave' = Falls(slave)
         /\ scl = 0 /\ c = 0 => slave' = slave
         /\ scl = 1 /\ c = 1 =>
              slave' = IF Bus(o, d, slave.out) < Bus(oe, sda, slave.out) THEN Begin(slave, "address")
                       ELSE IF Bus(o, d, slave.out) > Bus(oe, sda, slave.out) THEN Off(slave) ELSE slave
<1>1. /\ oe' = o /\ scl' = c /\ sda' = d /\ slave' = Reaction(o, c, d) /\ edge' = edge + 1
      /\ UNCHANGED <<call, nth, bit, data, received, expected, owed>>
  <2>1. PICK l \in {Here[edge]} :
          oe' = l[1] /\ scl' = l[2] /\ sda' = l[3] /\ slave' = Reaction(l[1], l[2], l[3])
    BY DEF i2c_oe_scl_sda
  <2>2. l[1] = o /\ l[2] = c /\ l[3] = d
    BY <2>1
  <2>3. slave' = Reaction(o, c, d)
    BY <2>1, <2>2, Zenon
  <2>4. QED
    BY <2>1, <2>2, <2>3 DEF i2c_oe_scl_sda
<1>2. scl \in {0, 1} /\ SlaveOK(slave, scl)
  BY DEF I2cInv
<1>3. SlaveOK(slave', c)
  BY <1>1, <1>2, ReactionOK, Zenon
<1>4. slave \in SlaveType /\ slave' \in SlaveType
  BY <1>2, <1>3 DEF SlaveOK
<1>5. QED
  BY <1>1, <1>2, <1>3, <1>4 DEF Reaction

-----------------------------------------------------------------------------
(* A start: the slave listens for an address.                              *)
LEMMA StartLine ==
  ASSUME I2cInv, call \in PlainCalls, Plain, i2c_oe_scl_sda, IsStart(call, nth), nth \in 1 .. Size(call)
  PROVE  /\ StartAt(slave, nth = 1 \/ Second(call) = LastPlace(call) + 2, edge)' /\ edge' \in 1 .. 4
         /\ slave'.mem = slave.mem /\ slave'.ptr = slave.ptr /\ SlaveOK(slave', scl')
         /\ {oe', scl', sda'} \subseteq {0, 1} /\ UNCHANGED <<call, nth, bit, data, received, expected, owed>>
<1> DEFINE fresh == nth = 1 \/ Second(call) = LastPlace(call) + 2
<1>1. Here = i2c_start /\ edge \in 1 .. 3 /\ bit = 0 /\ StartAt(slave, fresh, edge)
  <2>1. Now = Op("start", 0)
    BY KindOfPlace DEF Plain, Now
  <2>2. Here = i2c_start
    BY <2>1, LinesOf DEF Here
  <2>3. Len(i2c_start) = 3
    BY DEF i2c_start
  <2>4. QED
    BY <2>2, <2>3 DEF i2c_oe_scl_sda, Plain
<1>2. BITS \in Nat \ {0} /\ 0 < BITS /\ 0 # BITS /\ 0 # BITS + 1
  BY ByteSizes
<1>3. scl \in {0, 1} /\ oe \in {0, 1} /\ sda \in {0, 1} /\ slave \in SlaveType
  BY DEF I2cInv, SlaveOK
<1>4. CASE edge = 1
  <2>1. Here[edge] = <<1, 1, 1>>
    BY <1>1, <1>4 DEF i2c_start
  <2>2. /\ oe' = 1 /\ scl' = 1 /\ sda' = 1 /\ edge' = edge + 1 /\ SlaveOK(slave', 1)
        /\ UNCHANGED <<call, nth, bit, data, received, expected, owed>>
        /\ scl = 0 => slave' = Rises(slave, Bus(1, 1, slave.out))
        /\ scl = 1 => slave' = IF Bus(1, 1, slave.out) < Bus(oe, sda, slave.out) THEN Begin(slave, "address")
                               ELSE IF Bus(1, 1, slave.out) > Bus(oe, sda, slave.out) THEN Off(slave) ELSE slave
    BY <1>3, <2>1, LineMoves
  <2>3. slave'.out = 1 /\ slave'.mem = slave.mem /\ slave'.ptr = slave.ptr
    <3>1. CASE fresh
      <4>1. Quiet(slave) /\ scl = 1 /\ oe = 0
        BY <1>1, <1>4, <3>1 DEF StartAt
      <4>2. slave' = slave
        BY <2>2, <4>1 DEF Bus, Quiet
      <4>3. QED
        BY <4>1, <4>2 DEF Quiet
    <3>2. CASE ~ fresh
      <4>1. Ready(slave, "data") /\ scl = 0
        BY <1>1, <1>4, <3>2 DEF StartAt
      <4>2. slave' = Rises(slave, Bus(1, 1, slave.out)) /\ Bus(1, 1, slave.out) = 1
        BY <2>2, <4>1 DEF Bus, Ready
      <4>3. slave' = [slave EXCEPT !.n = @ + 1, !.shift = 2 * @ + 1]
        BY <1>2, <4>1, <4>2 DEF Rises, Ready
      <4>4. QED
        BY <1>3, <4>1, <4>3 DEF Ready, SlaveType
    <3>3. QED
      BY <3>1, <3>2
  <2>4. StartAt(slave, fresh, edge)' /\ edge' \in 1 .. 4
    BY <1>4, <2>2, <2>3 DEF StartAt
  <2>5. QED
    BY <2>2, <2>3, <2>4
<1>5. CASE edge = 2
  <2>1. Here[edge] = <<1, 1, 0>>
    BY <1>1, <1>5 DEF i2c_start
  <2>2. slave.out = 1 /\ scl = 1 /\ sda = 1
    BY <1>1, <1>5 DEF StartAt
  <2>3. /\ oe' = 1 /\ scl' = 1 /\ sda' = 0 /\ edge' = edge + 1 /\ SlaveOK(slave', 1)
        /\ UNCHANGED <<call, nth, bit, data, received, expected, owed>>
        /\ slave' = IF Bus(1, 0, slave.out) < Bus(oe, sda, slave.out) THEN Begin(slave, "address")
                    ELSE IF Bus(1, 0, slave.out) > Bus(oe, sda, slave.out) THEN Off(slave) ELSE slave
    BY <1>3, <2>1, <2>2, LineMoves
  <2>4. slave' = Begin(slave, "address")
    BY <2>2, <2>3 DEF Bus
  <2>5. Ready(slave', "address") /\ slave'.mem = slave.mem /\ slave'.ptr = slave.ptr
    BY <1>3, <2>4, TurnsOK DEF Ready, Ears
  <2>6. StartAt(slave, fresh, edge)' /\ edge' \in 1 .. 4
    BY <1>5, <2>3, <2>5 DEF StartAt
  <2>7. QED
    BY <2>3, <2>5, <2>6
<1>6. CASE edge = 3
  <2>1. Here[edge] = <<1, 0, 0>>
    BY <1>1, <1>6 DEF i2c_start
  <2>2. Ready(slave, "address") /\ scl = 1
    BY <1>1, <1>6 DEF StartAt
  <2>3. /\ oe' = 1 /\ scl' = 0 /\ sda' = 0 /\ edge' = edge + 1 /\ SlaveOK(slave', 0)
        /\ UNCHANGED <<call, nth, bit, data, received, expected, owed>> /\ slave' = Falls(slave)
    BY <1>3, <2>1, <2>2, LineMoves
  <2>4. slave' = slave
    BY <1>2, <2>2, <2>3 DEF Ready, Falls
  <2>5. StartAt(slave, fresh, edge)' /\ edge' \in 1 .. 4
    BY <1>6, <2>2, <2>3, <2>4 DEF StartAt
  <2>6. QED
    BY <2>3, <2>4, <2>5
<1>7. QED
  BY <1>1, <1>4, <1>5, <1>6

(* A stop: the slave is off.                                               *)
LEMMA StopLine ==
  ASSUME I2cInv, i2c_oe_scl_sda, Here = i2c_stop, edge \in 1 .. 5, StopAt(slave, edge)
  PROVE  /\ StopAt(slave, edge)' /\ edge' \in 1 .. 5
         /\ slave'.mem = slave.mem /\ slave'.ptr = slave.ptr /\ SlaveOK(slave', scl')
         /\ {oe', scl', sda'} \subseteq {0, 1} /\ UNCHANGED <<call, nth, bit, data, received, expected, owed>>
<1>1. edge \in 1 .. 4
  <2>1. Len(i2c_stop) = 4
    BY DEF i2c_stop
  <2>2. QED
    BY <2>1 DEF i2c_oe_scl_sda
<1>2. BITS \in Nat \ {0} /\ 0 < BITS /\ 0 # BITS /\ 0 # BITS + 1
  BY ByteSizes
<1>3. scl \in {0, 1} /\ oe \in {0, 1} /\ sda \in {0, 1} /\ slave \in SlaveType
  BY DEF I2cInv, SlaveOK
<1>4. CASE edge = 1
  <2>1. Here[edge] = <<1, 0, 0>>
    BY <1>4 DEF i2c_stop
  <2>2. (Quiet(slave) \/ Ready(slave, "data")) /\ scl = 0
    BY <1>4 DEF StopAt
  <2>3. /\ oe' = 1 /\ scl' = 0 /\ sda' = 0 /\ edge' = edge + 1 /\ SlaveOK(slave', 0)
        /\ UNCHANGED <<call, nth, bit, data, received, expected, owed>> /\ slave' = slave
    BY <1>3, <2>1, <2>2, LineMoves
  <2>4. StopAt(slave, edge)' /\ edge' \in 1 .. 5
    BY <1>4, <2>2, <2>3 DEF StopAt
  <2>5. QED
    BY <2>3, <2>4
<1>5. CASE edge = 2
  <2>1. Here[edge] = <<1, 1, 0>>
    BY <1>5 DEF i2c_stop
  <2>2. (Quiet(slave) \/ Ready(slave, "data")) /\ scl = 0
    BY <1>5 DEF StopAt
  <2>3. /\ oe' = 1 /\ scl' = 1 /\ sda' = 0 /\ edge' = edge + 1 /\ SlaveOK(slave', 1)
        /\ UNCHANGED <<call, nth, bit, data, received, expected, owed>>
        /\ slave' = Rises(slave, Bus(1, 0, slave.out))
    BY <1>3, <2>1, <2>2, LineMoves
  <2>4. slave'.out = 1 /\ slave'.mem = slave.mem /\ slave'.ptr = slave.ptr
    <3>1. CASE Quiet(slave)
      BY <2>3, <3>1, StaysQuiet DEF Quiet
    <3>2. CASE Ready(slave, "data")
      <4>1. PICK l : l = Bus(1, 0, slave.out)
        OBVIOUS
      <4>2. slave' = [slave EXCEPT !.n = @ + 1, !.shift = 2 * @ + l]
        BY <1>2, <2>3, <3>2, <4>1 DEF Rises, Ready
      <4>3. QED
        BY <1>3, <3>2, <4>2 DEF Ready, SlaveType
    <3>3. QED
      BY <2>2, <3>1, <3>2
  <2>5. StopAt(slave, edge)' /\ edge' \in 1 .. 5
    BY <1>5, <2>3, <2>4 DEF StopAt
  <2>6. QED
    BY <2>3, <2>4, <2>5
<1>6. CASE edge = 3
  <2>1. Here[edge] = <<1, 1, 1>>
    BY <1>6 DEF i2c_stop
  <2>2. slave.out = 1 /\ scl = 1 /\ oe = 1 /\ sda = 0
    BY <1>6 DEF StopAt
  <2>3. /\ oe' = 1 /\ scl' = 1 /\ sda' = 1 /\ edge' = edge + 1 /\ SlaveOK(slave', 1)
        /\ UNCHANGED <<call, nth, bit, data, received, expected, owed>>
        /\ slave' = IF Bus(1, 1, slave.out) < Bus(oe, sda, slave.out) THEN Begin(slave, "address")
                    ELSE IF Bus(1, 1, slave.out) > Bus(oe, sda, slave.out) THEN Off(slave) ELSE slave
    BY <1>3, <2>1, <2>2, LineMoves
  <2>4. slave' = Off(slave)
    BY <2>2, <2>3 DEF Bus
  <2>5. Quiet(slave') /\ slave'.mem = slave.mem /\ slave'.ptr = slave.ptr
    BY <1>3, <2>4, TurnsOK DEF Quiet
  <2>6. StopAt(slave, edge)' /\ edge' \in 1 .. 5
    BY <1>6, <2>3, <2>5 DEF StopAt
  <2>7. QED
    BY <2>3, <2>5, <2>6
<1>7. CASE edge = 4
  <2>1. Here[edge] = <<0, 1, 1>>
    BY <1>7 DEF i2c_stop
  <2>2. Quiet(slave) /\ scl = 1 /\ sda = 1
    BY <1>7 DEF StopAt
  <2>3. /\ oe' = 0 /\ scl' = 1 /\ sda' = 1 /\ edge' = edge + 1 /\ SlaveOK(slave', 1)
        /\ UNCHANGED <<call, nth, bit, data, received, expected, owed>>
        /\ slave' = IF Bus(0, 1, slave.out) < Bus(oe, sda, slave.out) THEN Begin(slave, "address")
                    ELSE IF Bus(0, 1, slave.out) > Bus(oe, sda, slave.out) THEN Off(slave) ELSE slave
    BY <1>3, <2>1, <2>2, LineMoves
  <2>4. slave' = slave
    BY <2>2, <2>3 DEF Bus, Quiet
  <2>5. StopAt(slave, edge)' /\ edge' \in 1 .. 5
    BY <1>7, <2>2, <2>3, <2>4 DEF StopAt
  <2>6. QED
    BY <2>3, <2>4, <2>5
<1>8. QED
  BY <1>1, <1>4, <1>5, <1>6, <1>7

(* SDA is let go while SCL is high.                                        *)
LEMMA LetsGo ==
  ASSUME I2cInv, i2c_oe_scl_sda, scl = 1, oe = 0 \/ sda = 1, NEW o \in {0, 1}, Here[edge] = <<o, 1, 1>>
  PROVE  /\ oe' = o /\ scl' = 1 /\ sda' = 1 /\ edge' = edge + 1 /\ SlaveOK(slave', 1) /\ slave' = slave
         /\ UNCHANGED <<call, nth, bit, data, received, expected, owed>>
<1>1. /\ oe' = o /\ scl' = 1 /\ sda' = 1 /\ edge' = edge + 1 /\ SlaveOK(slave', 1)
      /\ UNCHANGED <<call, nth, bit, data, received, expected, owed>>
      /\ slave' = IF Bus(o, 1, slave.out) < Bus(oe, sda, slave.out) THEN Begin(slave, "address")
                  ELSE IF Bus(o, 1, slave.out) > Bus(oe, sda, slave.out) THEN Off(slave) ELSE slave
  BY LineMoves
<1>2. slave.out \in {0, 1}
  BY DEF I2cInv, SlaveOK, SlaveType
<1>3. Bus(o, 1, slave.out) = slave.out /\ Bus(oe, sda, slave.out) = slave.out
  BY <1>2 DEF Bus, I2cInv
<1>4. QED
  BY <1>1, <1>2, <1>3

(* A stop while the slave sends: its memory stays as it is.                *)
LEMMA BlindStopLine ==
  ASSUME I2cInv, i2c_oe_scl_sda, Here = i2c_stop, edge \in 1 .. 5, BlindStop
  PROVE  /\ BlindStop' /\ edge' \in 1 .. 5 /\ edge' = edge + 1 /\ (edge' = 5 => oe' = 0)
         /\ slave'.mem = slave.mem /\ slave'.ptr = slave.ptr /\ SlaveOK(slave', scl')
         /\ {oe', scl', sda'} \subseteq {0, 1} /\ UNCHANGED <<call, nth, bit, data, received, expected, owed>>
<1>1. edge \in 1 .. 4
  <2>1. Len(i2c_stop) = 4
    BY DEF i2c_stop
  <2>2. QED
    BY <2>1 DEF i2c_oe_scl_sda
<1>2. slave \in SlaveType /\ slave.out \in {0, 1} /\ scl \in {0, 1} /\ SlaveOK(slave, scl)
  BY DEF I2cInv, SlaveOK, SlaveType
<1>3. CASE edge = 1
  <2>1. Here[edge] = <<1, 0, 0>> /\ scl = 0
    BY <1>3 DEF i2c_stop, BlindStop
  <2>2. /\ oe' = 1 /\ scl' = 0 /\ sda' = 0 /\ edge' = edge + 1 /\ SlaveOK(slave', 0) /\ slave' = slave
        /\ UNCHANGED <<call, nth, bit, data, received, expected, owed>>
    BY <2>1, LineMoves
  <2>3. QED
    BY <1>3, <2>2 DEF BlindStop
<1>4. CASE edge = 2
  <2>1. Here[edge] = <<1, 1, 0>> /\ scl = 0
    BY <1>4 DEF i2c_stop, BlindStop
  <2>2. PICK l \in {0, 1} : l = Bus(1, 0, slave.out)
    BY DEF Bus
  <2>3. /\ oe' = 1 /\ scl' = 1 /\ sda' = 0 /\ edge' = edge + 1 /\ SlaveOK(slave', 1)
        /\ slave' = Rises(slave, Bus(1, 0, slave.out))
        /\ UNCHANGED <<call, nth, bit, data, received, expected, owed>>
    BY <2>1, LineMoves
  <2>4. slave'.mem = slave.mem /\ slave'.ptr = slave.ptr
    <3>1. slave' = Rises(slave, l)
      BY <2>2, <2>3
    <3>2. QED
      BY <1>2, <3>1, TurnsOK DEF Rises, SlaveType
  <2>5. QED
    BY <1>4, <2>3, <2>4 DEF BlindStop
<1>5. CASE edge = 3
  <2>1. Here[edge] = <<1, 1, 1>> /\ scl = 1 /\ oe = 1 /\ sda = 0
    BY <1>5 DEF i2c_stop, BlindStop
  <2>2. /\ oe' = 1 /\ scl' = 1 /\ sda' = 1 /\ edge' = edge + 1 /\ SlaveOK(slave', 1)
        /\ UNCHANGED <<call, nth, bit, data, received, expected, owed>>
        /\ slave' = IF Bus(1, 1, slave.out) < Bus(oe, sda, slave.out) THEN Begin(slave, "address")
                    ELSE IF Bus(1, 1, slave.out) > Bus(oe, sda, slave.out) THEN Off(slave) ELSE slave
    BY <2>1, LineMoves
  <2>3. slave' = IF slave.out > 0 THEN Off(slave) ELSE slave
    BY <1>2, <2>1, <2>2 DEF Bus
  <2>4. Stuck(slave') /\ slave'.mem = slave.mem /\ slave'.ptr = slave.ptr
    <3>1. CASE slave.out = 0
      BY <2>3, <3>1 DEF Stuck
    <3>2. CASE slave.out = 1
      <4>1. slave' = Off(slave)
        BY <2>3, <3>2
      <4>2. QED
        BY <1>2, <4>1, TurnsOK DEF Stuck, Quiet
    <3>3. QED
      BY <1>2, <3>1, <3>2
  <2>5. QED
    BY <1>5, <2>2, <2>4 DEF BlindStop
<1>6. CASE edge = 4
  <2>1. Here[edge] = <<0, 1, 1>> /\ scl = 1 /\ sda = 1 /\ Stuck(slave)
    BY <1>6 DEF i2c_stop, BlindStop
  <2>2. /\ oe' = 0 /\ scl' = 1 /\ sda' = 1 /\ edge' = edge + 1 /\ SlaveOK(slave', 1) /\ slave' = slave
        /\ UNCHANGED <<call, nth, bit, data, received, expected, owed>>
    BY <2>1, LetsGo
  <2>3. QED
    BY <1>6, <2>1, <2>2 DEF BlindStop
<1>7. QED
  BY <1>1, <1>3, <1>4, <1>5, <1>6

(* What the slave does through the bits of a byte.                         *)
ByteEffect(s, r, to, st, y, b, e) ==
  /\ r.mem = IF to = SLAVE /\ st = "data" /\ s.left = 0 /\ b = BITS /\ e = 3 THEN [s.mem EXCEPT ![s.ptr] = y]
             ELSE s.mem
  /\ IF to = SLAVE /\ b = BITS + 1 /\ e = 4 THEN r.ptr = PtrAfter(s, st, y) /\ r.left = LeftAfter(s, st, y)
     ELSE r.ptr = s.ptr /\ r.left = s.left

TransmitGoes(s, r, to, st, y, b, e) ==
  /\ s \in SlaveType /\ st \in Ears /\ y \in I2cByte /\ (st = "address" => y \div 2 = to)
  /\ b \in 0 .. BITS + 1 /\ e \in 1 .. 4 /\ (b = 0 => e = 1)
  /\ TransmitAt(s, to, st, y, b, e)
  /\ b = 0 \/ e = 1 \/ (e = 4 /\ b <= BITS) \/ (b = BITS + 1 /\ e = 3) => r = s
  /\ b >= 1 /\ b <= BITS /\ e = 2 => r = Rises(s, Bus(1, BitOf(y, BITS - b), s.out))
  /\ b >= 1 /\ b <= BITS /\ e = 3 => r = Falls(s)
  /\ b = BITS + 1 /\ e = 2 => r = Rises(s, Bus(0, 0, s.out))
  /\ b = BITS + 1 /\ e = 4 => r = Falls(s)

(* One edge of a byte that is transmitted: the slave is where it should
   be for the next edge, and has done to its memory what ByteEffect says.      *)
LEMMA TransmitEdge ==
  ASSUME NEW s, NEW r, NEW to, NEW st, NEW y, NEW b, NEW e, TransmitGoes(s, r, to, st, y, b, e)
  PROVE  TransmitAt(r, to, st, y, b, e + 1) /\ ByteEffect(s, r, to, st, y, b, e)
<1> SUFFICES
      ASSUME s \in SlaveType, st \in Ears, y \in I2cByte, st = "address" => y \div 2 = to,
             b \in 0 .. BITS + 1, e \in 1 .. 4, b = 0 => e = 1, TransmitAt(s, to, st, y, b, e),
             b = 0 \/ e = 1 \/ (e = 4 /\ b <= BITS) \/ (b = BITS + 1 /\ e = 3) => r = s,
             b >= 1 /\ b <= BITS /\ e = 2 => r = Rises(s, Bus(1, BitOf(y, BITS - b), s.out)),
             b >= 1 /\ b <= BITS /\ e = 3 => r = Falls(s),
             b = BITS + 1 /\ e = 2 => r = Rises(s, Bus(0, 0, s.out)),
             b = BITS + 1 /\ e = 4 => r = Falls(s)
      PROVE  TransmitAt(r, to, st, y, b, e + 1) /\ ByteEffect(s, r, to, st, y, b, e)
  BY Zenon DEF TransmitGoes
<1>1. BITS \in Nat \ {0} /\ b \in Nat
  BY ByteSizes
<1>2. CASE b = 0
  <2>1. r = s /\ e = 1 /\ b # BITS /\ b # BITS + 1
    BY <1>1, <1>2
  <2>2. ~ Acked(b, 1) /\ ~ Acked(b, 2) /\ Taken(b, 1) = 0 /\ Taken(b, 2) = 0
    BY <1>2, <2>1 DEF Acked, Taken
  <2>3. Deaf(to, st, b, 1) <=> Deaf(to, st, b, 2)
    BY <2>2 DEF Deaf
  <2>4. TransmitAt(r, to, st, y, b, e + 1)
    BY <1>2, <2>1, <2>2, <2>3 DEF TransmitAt
  <2>5. ByteEffect(s, r, to, st, y, b, e)
    BY <2>1 DEF ByteEffect
  <2>6. QED
    BY <2>4, <2>5
<1>3. CASE b >= 1 /\ b < BITS
  <2>1. b # BITS /\ b # BITS + 1 /\ b # 0 /\ b <= BITS
    BY <1>1, <1>3
  <2>2. /\ \A x : ~ Acked(b, x)
        /\ Taken(b, 1) = b - 1 /\ Taken(b, 2) = b - 1 /\ Taken(b, 3) = b /\ Taken(b, 4) = b /\ Taken(b, 5) = b
    BY <2>1 DEF Acked, Taken
  <2>3. \A x : TransmitAt(s, to, st, y, b, x) <=>
                 IF to # SLAVE /\ st # "address" THEN Quiet(s) ELSE Hears(s, st, y, Taken(b, x))
    BY <2>1, <2>2 DEF TransmitAt, Deaf
  <2>4. \A x : TransmitAt(r, to, st, y, b, x) <=>
                 IF to # SLAVE /\ st # "address" THEN Quiet(r) ELSE Hears(r, st, y, Taken(b, x))
    BY <2>1, <2>2 DEF TransmitAt, Deaf
  <2>5. r.mem = s.mem /\ r.ptr = s.ptr /\ r.left = s.left => ByteEffect(s, r, to, st, y, b, e)
    BY <2>1 DEF ByteEffect
  <2>6. CASE e \in {1, 4}
    BY <2>1, <2>2, <2>3, <2>4, <2>5, <2>6
  <2>7. CASE e = 2
    <3>1. r = Rises(s, Bus(1, BitOf(y, BITS - b), s.out))
      BY <1>3, <2>1, <2>7
    <3>2. CASE to # SLAVE /\ st # "address"
      <4>1. Quiet(s)
        BY <2>3, <3>2
      <4>2. r = s
        BY <3>1, <4>1, StaysQuiet
      <4>3. QED
        BY <2>4, <2>5, <3>2, <4>1, <4>2
    <3>3. CASE ~ (to # SLAVE /\ st # "address")
      <4>1. PICK k \in 0 .. BITS - 1 : k = b - 1 /\ BITS - 1 - k = BITS - b /\ k + 1 = b
        <5>1. b - 1 \in 0 .. BITS - 1 /\ BITS - 1 - (b - 1) = BITS - b /\ (b - 1) + 1 = b
          BY <1>1, <1>3
        <5>2. QED
          BY <5>1
      <4>2. Hears(s, st, y, k)
        BY <2>2, <2>3, <2>7, <3>3, <4>1
      <4>3. BitOf(y, BITS - 1 - k) \in {0, 1} /\ s.out = 1
        BY <4>2, BitAfterBit DEF Hears
      <4>4. Bus(1, BitOf(y, BITS - b), s.out) = BitOf(y, BITS - 1 - k)
        BY <4>1, <4>3 DEF Bus
      <4>5. r = Rises(s, BitOf(y, BITS - 1 - k))
        BY <3>1, <4>4
      <4>6. Hears(r, st, y, k + 1) /\ r.ptr = s.ptr /\ r.left = s.left /\ r.mem = s.mem
        BY <4>2, <4>5, HearsABit
      <4>7. Hears(r, st, y, Taken(b, 3)) /\ e + 1 = 3
        BY <2>2, <2>7, <4>1, <4>6
      <4>8. QED
        BY <2>4, <2>5, <3>3, <4>6, <4>7
    <3>4. QED
      BY <3>2, <3>3
  <2>8. CASE e = 3
    <3>1. r = Falls(s)
      BY <1>3, <2>1, <2>8
    <3>2. r = s
      <4>1. CASE to # SLAVE /\ st # "address"
        BY <2>3, <3>1, <4>1, StaysQuiet
      <4>2. CASE ~ (to # SLAVE /\ st # "address")
        <5>1. b \in 0 .. BITS - 1
          BY <1>1, <1>3
        <5>2. Hears(s, st, y, b)
          BY <2>2, <2>3, <2>8, <4>2
        <5>3. QED
          BY <3>1, <5>1, <5>2, HearsABit
      <4>3. QED
        BY <4>1, <4>2
    <3>3. QED
      BY <2>2, <2>3, <2>4, <2>5, <2>8, <3>2
  <2>9. QED
    BY <2>6, <2>7, <2>8
<1>4. CASE b = BITS
  <2>1. b # BITS + 1 /\ b # 0 /\ b <= BITS /\ b >= 1
    BY <1>1, <1>4
  <2>2. /\ ~ Acked(b, 1) /\ ~ Acked(b, 2) /\ ~ Acked(b, 3) /\ Acked(b, 4) /\ Acked(b, 5)
        /\ Taken(b, 1) = b - 1 /\ Taken(b, 2) = b - 1 /\ Taken(b, 3) = b
    BY <1>4, <2>1 DEF Acked, Taken
  <2>3. CASE e = 1
    BY <2>2, <2>3 DEF TransmitAt, Deaf, ByteEffect
  <2>4. CASE e = 4
    BY <2>1, <2>2, <2>4 DEF TransmitAt, Deaf, ByteEffect
  <2>5. CASE e = 2
    <3>1. r = Rises(s, Bus(1, BitOf(y, BITS - b), s.out))
      BY <2>1, <2>5
    <3>2. r.mem = s.mem /\ r.ptr = s.ptr /\ r.left = s.left => ByteEffect(s, r, to, st, y, b, e)
      BY <2>1, <2>5 DEF ByteEffect
    <3>3. CASE to # SLAVE /\ st # "address"
      <4>1. Quiet(s)
        BY <2>2, <2>5, <3>3 DEF TransmitAt, Deaf
      <4>2. r = s
        BY <3>1, <4>1, StaysQuiet
      <4>3. QED
        BY <2>2, <2>5, <3>2, <3>3, <4>1, <4>2 DEF TransmitAt, Deaf
    <3>4. CASE ~ (to # SLAVE /\ st # "address")
      <4>1. PICK k \in 0 .. BITS - 1 : k = b - 1 /\ BITS - 1 - k = BITS - b /\ k + 1 = b
        <5>1. b - 1 \in 0 .. BITS - 1 /\ BITS - 1 - (b - 1) = BITS - b /\ (b - 1) + 1 = b
          BY <1>1, <1>4
        <5>2. QED
          BY <5>1
      <4>2. Hears(s, st, y, k)
        BY <2>2, <2>5, <3>4, <4>1 DEF TransmitAt, Deaf
      <4>3. BitOf(y, BITS - 1 - k) \in {0, 1} /\ s.out = 1
        BY <4>2, BitAfterBit DEF Hears
      <4>4. Bus(1, BitOf(y, BITS - b), s.out) = BitOf(y, BITS - 1 - k)
        BY <4>1, <4>3 DEF Bus
      <4>5. r = Rises(s, BitOf(y, BITS - 1 - k))
        BY <3>1, <4>4
      <4>6. Hears(r, st, y, k + 1) /\ r.ptr = s.ptr /\ r.left = s.left /\ r.mem = s.mem
        BY <4>2, <4>5, HearsABit
      <4>7. Hears(r, st, y, Taken(b, 3)) /\ e + 1 = 3
        BY <2>2, <2>5, <4>1, <4>6
      <4>8. QED
        BY <2>2, <3>2, <3>4, <4>6, <4>7 DEF TransmitAt, Deaf
    <3>5. QED
      BY <3>3, <3>4
  <2>6. CASE e = 3
    <3>1. r = Falls(s) /\ e + 1 = 4
      BY <2>1, <2>6
    <3>2. CASE to # SLAVE /\ st # "address"
      <4>1. Quiet(s)
        BY <2>2, <2>6, <3>2 DEF TransmitAt, Deaf
      <4>2. r = s
        BY <3>1, <4>1, StaysQuiet
      <4>3. QED
        BY <2>1, <2>2, <2>6, <3>1, <3>2, <4>1, <4>2 DEF TransmitAt, Deaf, ByteEffect
    <3>3. CASE ~ (to # SLAVE /\ st # "address")
      <4>1. Hears(s, st, y, BITS)
        BY <1>4, <2>2, <2>6, <3>3 DEF TransmitAt, Deaf
      <4>2. /\ r.ptr = s.ptr /\ r.left = s.left
            /\ IF st = "address" /\ y \div 2 # SLAVE THEN Quiet(r) ELSE Heard(r, st, y, BITS)
            /\ r.mem = IF st = "data" /\ s.left = 0 THEN [s.mem EXCEPT ![s.ptr] = y] ELSE s.mem
        BY <3>1, <4>1, HearsTheLast
      <4>3. ByteEffect(s, r, to, st, y, b, e)
        BY <1>4, <2>1, <2>6, <3>3, <4>2 DEF ByteEffect
      <4>4. TransmitAt(r, to, st, y, b, 4)
        BY <2>1, <2>2, <3>3, <4>2 DEF TransmitAt, Deaf
      <4>5. QED
        BY <3>1, <4>3, <4>4
    <3>4. QED
      BY <3>2, <3>3
  <2>7. QED
    BY <2>3, <2>4, <2>5, <2>6
<1>5. CASE b = BITS + 1
  <2>1. b # BITS /\ b # 0 /\ \A x : Acked(b, x)
    BY <1>1, <1>5 DEF Acked
  <2>2. CASE to # SLAVE
    <3>1. Quiet(s)
      BY <2>1, <2>2 DEF TransmitAt, Deaf
    <3>2. r = s
      BY <1>5, <2>1, <3>1, StaysQuiet
    <3>3. QED
      BY <2>1, <2>2, <3>1, <3>2 DEF TransmitAt, Deaf, ByteEffect
  <2>3. CASE to = SLAVE
    <3>1. \A t, x : TransmitAt(t, to, st, y, b, x) <=>
                      IF x = 5 THEN After(t, st, y) ELSE Heard(t, st, y, IF x > 2 THEN BITS + 1 ELSE BITS)
      BY <1>5, <2>1, <2>3 DEF TransmitAt, Deaf
    <3>2. CASE e \in {1, 3}
      <4>1. r = s
        BY <1>5, <3>2
      <4>2. QED
        BY <2>1, <3>1, <3>2, <4>1 DEF ByteEffect
    <3>3. CASE e = 2
      <4>1. PICK l : r = Rises(s, l)
        BY <1>5, <3>3
      <4>2. Heard(s, st, y, BITS)
        BY <3>1, <3>3
      <4>3. Heard(r, st, y, BITS + 1) /\ r.ptr = s.ptr /\ r.left = s.left /\ r.mem = s.mem
        BY <4>1, <4>2, HasHeard
      <4>4. QED
        BY <2>1, <3>1, <3>3, <4>3 DEF ByteEffect
    <3>4. CASE e = 4
      <4>1. r = Falls(s)
        BY <1>5, <3>4
      <4>2. Heard(s, st, y, BITS + 1)
        BY <3>1, <3>4
      <4>3. /\ After(r, st, y) /\ r.mem = s.mem
            /\ r.ptr = PtrAfter(s, st, y) /\ r.left = LeftAfter(s, st, y)
        BY <4>1, <4>2, HasHeard
      <4>5. ByteEffect(s, r, to, st, y, b, e)
        BY <1>5, <2>1, <2>3, <3>4, <4>3 DEF ByteEffect
      <4>6. TransmitAt(r, to, st, y, b, e + 1)
        BY <3>1, <3>4, <4>3
      <4>7. QED
        BY <4>5, <4>6
    <3>5. QED
      BY <3>2, <3>3, <3>4
  <2>4. QED
    BY <2>2, <2>3
<1>6. QED
  BY <1>1, <1>2, <1>3, <1>4, <1>5

(* The last of the lines of a bit, and the first of the next.              *)
LEMMA TransmitOn ==
  ASSUME NEW s, NEW to, NEW st, NEW y, NEW b \in 0 .. BITS, NEW e, e = IF b = 0 THEN 2 ELSE 5,
         TransmitAt(s, to, st, y, b, e)
  PROVE  TransmitAt(s, to, st, y, b + 1, 1)
<1>1. BITS \in Nat \ {0} /\ b \in Nat /\ b + 1 # 0 /\ b + 1 - 1 = b /\ b # BITS + 1
  BY ByteSizes
<1>2. (Acked(b, e) <=> Acked(b + 1, 1)) /\ (~ Acked(b, e) => Taken(b, e) = Taken(b + 1, 1))
  BY <1>1 DEF Acked, Taken
<1>3. Acked(b, e) => b = BITS
  BY <1>1 DEF Acked
<1>4. QED
  BY <1>1, <1>2, <1>3 DEF TransmitAt, Deaf

(* The lines of a byte that is transmitted.                                *)
LEMMA TransmitLine ==
  ASSUME I2cInv, call \in PlainCalls, Plain, i2c_oe_scl_sda, IsTransmit(call, nth), nth \in 1 .. Size(call)
  PROVE  /\ Transmits' /\ ByteEffect(slave, slave', call.to, TakenFor(call, nth), ByteOf(call, nth), bit, edge)
         /\ SlaveOK(slave', scl') /\ ~ (bit = BITS + 1 /\ edge = 3) /\ edge' = edge + 1 /\ edge \in 1 .. 4
         /\ {oe', scl', sda'} \subseteq {0, 1} /\ UNCHANGED <<call, nth, bit, data, received, expected, owed>>
<1>1. PICK to : to = call.to
  OBVIOUS
<1>2. PICK st \in Ears, y \in I2cByte :
        st = TakenFor(call, nth) /\ y = ByteOf(call, nth) /\ (st = "address" => y \div 2 = to)
  BY <1>1, ByteOfPlace DEF I2cInv
<1>3. Here = i2c_transmit_byte(y, bit)
  <2>1. Now = Op("transmit", y)
    BY <1>2, KindOfPlace DEF I2cInv, Now
  <2>2. QED
    BY <2>1, LinesOf DEF Here
<1>4. /\ BITS \in Nat \ {0} /\ bit \in 0 .. BITS + 1 /\ bit \in Nat /\ edge \in Nat /\ edge \in 1 .. 5
      /\ scl = Level(bit, edge) /\ TransmitAt(slave, to, st, y, bit, edge)
      /\ slave \in SlaveType /\ slave.out \in {0, 1} /\ oe \in {0, 1} /\ sda \in {0, 1}
      /\ data = IF to # SLAVE /\ bit = BITS + 1 /\ edge > 3 THEN 1 ELSE 0
  <2>1. Transmits
    BY DEF Plain
  <2>2. slave \in SlaveType /\ slave.out \in {0, 1}
    BY DEF I2cInv, SlaveOK, SlaveType
  <2>3. QED
    BY <1>1, <1>2, <2>1, <2>2, ByteSizes DEF Transmits, I2cInv
<1>5. edge <= Len(Here) /\ Here[edge] # Read
  BY DEF i2c_oe_scl_sda
<1>6. SUFFICES /\ oe' \in {0, 1} /\ scl' = Level(bit, edge + 1) /\ sda' \in {0, 1} /\ SlaveOK(slave', scl')
               /\ edge' = edge + 1 /\ edge \in 1 .. (IF bit = 0 THEN 1 ELSE 4) /\ ~ (bit = BITS + 1 /\ edge = 3)
               /\ UNCHANGED <<call, nth, bit, data, received, expected, owed>>
               /\ bit = BITS + 1 /\ edge = 2 => oe' = 0
               /\ TransmitAt(slave', to, st, y, bit, edge + 1) /\ ByteEffect(slave, slave', to, st, y, bit, edge)
  <2>1. scl' \in {0, 1}
    BY <1>6 DEF Level
  <2>2. TakenFor(call', nth') = st /\ ByteOf(call', nth') = y /\ call'.to = to
    BY <1>1, <1>2, <1>6
  <2>3. TransmitAt(slave', call'.to, TakenFor(call', nth'), ByteOf(call', nth'), bit', edge')
    BY <1>6, <2>2, Zenon
  <2>4. data' = IF call'.to # SLAVE /\ bit' = BITS + 1 /\ edge' > 3 THEN 1 ELSE 0
    BY <1>4, <1>6, <2>2
  <2>5. Transmits'
    BY <1>4, <1>6, <2>3, <2>4 DEF Transmits
  <2>6. QED
    BY <1>1, <1>2, <1>4, <1>6, <2>1, <2>5
<1>7. CASE bit = 0
  <2>1. Here = <<<<0, 0, 0>>>>
    BY <1>3, <1>7 DEF i2c_transmit_byte
  <2>2. edge = 1 /\ Here[edge] = <<0, 0, 0>>
    BY <1>4, <1>5, <2>1
  <2>3. scl = 0 /\ Level(bit, edge + 1) = 0
    BY <1>4, <1>7, <2>2 DEF Level
  <2>4. /\ oe' = 0 /\ scl' = 0 /\ sda' = 0 /\ edge' = edge + 1 /\ SlaveOK(slave', 0)
        /\ UNCHANGED <<call, nth, bit, data, received, expected, owed>> /\ slave' = slave
    BY <2>2, <2>3, LineMoves
  <2>5. TransmitAt(slave', to, st, y, bit, edge + 1) /\ ByteEffect(slave, slave', to, st, y, bit, edge)
    <3>1. TransmitGoes(slave, slave', to, st, y, bit, edge)
      BY <1>2, <1>4, <1>7, <2>2, <2>4 DEF TransmitGoes
    <3>2. QED
      BY <3>1, TransmitEdge, Zenon
  <2>6. QED
    BY <1>4, <1>7, <2>2, <2>3, <2>4, <2>5
<1>8. CASE bit >= 1 /\ bit <= BITS
  <2>1. bit # 0 /\ bit # BITS + 1
    BY <1>4, <1>8
  <2>2. PICK v \in {0, 1} : v = BitOf(y, BITS - bit)
    <3>1. PICK k \in 0 .. BITS - 1 : k = bit - 1 /\ BITS - 1 - k = BITS - bit
      <4>1. bit - 1 \in 0 .. BITS - 1 /\ BITS - 1 - (bit - 1) = BITS - bit
        BY <1>4, <1>8
      <4>2. QED
        BY <4>1
    <3>2. BitOf(y, BITS - 1 - k) \in {0, 1}
      BY BitAfterBit
    <3>3. QED
      BY <3>1, <3>2
  <2>3. Here = <<<<1, 0, v>>, <<1, 1, v>>, <<1, 0, v>>, <<0, 0, 0>>>>
    BY <1>3, <1>8, <2>1, <2>2 DEF i2c_transmit_byte, i2c_transmit_bit
  <2>4. edge \in 1 .. 4
    BY <1>4, <1>5, <2>3
  <2>5. Level(bit, 1) = 0 /\ Level(bit, 2) = 0 /\ Level(bit, 3) = 1 /\ Level(bit, 4) = 0 /\ Level(bit, 5) = 0
    BY <1>8, <2>1 DEF Level
  <2>6. CASE edge \in {1, 4}
    <3>1. PICK o \in {0, 1}, d \in {0, 1} : Here[edge] = <<o, 0, d>>
      BY <2>3, <2>6
    <3>2. scl = 0 /\ Level(bit, edge + 1) = 0
      BY <1>4, <2>5, <2>6
    <3>3. /\ oe' = o /\ scl' = 0 /\ sda' = d /\ edge' = edge + 1 /\ SlaveOK(slave', 0)
          /\ UNCHANGED <<call, nth, bit, data, received, expected, owed>> /\ slave' = slave
      BY <3>1, <3>2, LineMoves
    <3>4. TransmitAt(slave', to, st, y, bit, edge + 1) /\ ByteEffect(slave, slave', to, st, y, bit, edge)
      <4>1. TransmitGoes(slave, slave', to, st, y, bit, edge)
        BY <1>2, <1>4, <1>8, <2>1, <2>4, <2>6, <3>3 DEF TransmitGoes
      <4>2. QED
        BY <4>1, TransmitEdge, Zenon
    <3>5. QED
      BY <2>1, <2>4, <3>2, <3>3, <3>4
  <2>7. CASE edge = 2
    <3>1. Here[edge] = <<1, 1, v>>
      BY <2>3, <2>7
    <3>2. scl = 0 /\ Level(bit, edge + 1) = 1
      BY <1>4, <2>5, <2>7
    <3>3. /\ oe' = 1 /\ scl' = 1 /\ sda' = v /\ edge' = edge + 1 /\ SlaveOK(slave', 1)
          /\ UNCHANGED <<call, nth, bit, data, received, expected, owed>> /\ slave' = Rises(slave, Bus(1, v, slave.out))
      BY <3>1, <3>2, LineMoves
    <3>4. slave' = Rises(slave, Bus(1, BitOf(y, BITS - bit), slave.out))
      BY <2>2, <3>3
    <3>5. TransmitAt(slave', to, st, y, bit, edge + 1) /\ ByteEffect(slave, slave', to, st, y, bit, edge)
      <4>1. TransmitGoes(slave, slave', to, st, y, bit, edge)
        BY <1>2, <1>4, <1>8, <2>1, <2>4, <2>7, <3>4 DEF TransmitGoes
      <4>2. QED
        BY <4>1, TransmitEdge, Zenon
    <3>6. QED
      BY <2>1, <2>4, <3>2, <3>3, <3>5
  <2>8. CASE edge = 3
    <3>1. Here[edge] = <<1, 0, v>>
      BY <2>3, <2>8
    <3>2. scl = 1 /\ Level(bit, edge + 1) = 0
      BY <1>4, <2>5, <2>8
    <3>3. /\ oe' = 1 /\ scl' = 0 /\ sda' = v /\ edge' = edge + 1 /\ SlaveOK(slave', 0)
          /\ UNCHANGED <<call, nth, bit, data, received, expected, owed>> /\ slave' = Falls(slave)
      BY <3>1, <3>2, LineMoves
    <3>4. TransmitAt(slave', to, st, y, bit, edge + 1) /\ ByteEffect(slave, slave', to, st, y, bit, edge)
      <4>1. TransmitGoes(slave, slave', to, st, y, bit, edge)
        BY <1>2, <1>4, <1>8, <2>1, <2>4, <2>8, <3>3 DEF TransmitGoes
      <4>2. QED
        BY <4>1, TransmitEdge, Zenon
    <3>5. QED
      BY <2>1, <2>4, <2>8, <3>2, <3>3, <3>4
  <2>9. QED
    BY <2>4, <2>6, <2>7, <2>8
<1>9. CASE bit = BITS + 1
  <2>1. bit # 0 /\ ~ bit <= BITS /\ bit >= 1
    BY <1>4, <1>9
  <2>2. Here = <<<<0, 0, 0>>, <<0, 1, 0>>, Read, <<0, 0, 0>>>>
    BY <1>3, <1>9, <2>1 DEF i2c_transmit_byte, i2c_receive_bit
  <2>3. edge \in {1, 2, 4}
    BY <1>4, <1>5, <2>2
  <2>4. Level(bit, 1) = 0 /\ Level(bit, 2) = 0 /\ Level(bit, 3) = 1 /\ Level(bit, 4) = 1 /\ Level(bit, 5) = 0
    BY <1>9, <2>1 DEF Level
  <2>5. CASE edge = 1
    <3>1. Here[edge] = <<0, 0, 0>>
      BY <2>2, <2>5
    <3>2. scl = 0 /\ Level(bit, edge + 1) = 0
      BY <1>4, <2>4, <2>5
    <3>3. /\ oe' = 0 /\ scl' = 0 /\ sda' = 0 /\ edge' = edge + 1 /\ SlaveOK(slave', 0)
          /\ UNCHANGED <<call, nth, bit, data, received, expected, owed>> /\ slave' = slave
      BY <3>1, <3>2, LineMoves
    <3>4. TransmitAt(slave', to, st, y, bit, edge + 1) /\ ByteEffect(slave, slave', to, st, y, bit, edge)
      <4>1. TransmitGoes(slave, slave', to, st, y, bit, edge)
        BY <1>2, <1>4, <1>9, <2>1, <2>5, <3>3 DEF TransmitGoes
      <4>2. QED
        BY <4>1, TransmitEdge, Zenon
    <3>5. QED
      BY <2>1, <2>5, <3>2, <3>3, <3>4
  <2>6. CASE edge = 2
    <3>1. Here[edge] = <<0, 1, 0>>
      BY <2>2, <2>6
    <3>2. scl = 0 /\ Level(bit, edge + 1) = 1
      BY <1>4, <2>4, <2>6
    <3>3. /\ oe' = 0 /\ scl' = 1 /\ sda' = 0 /\ edge' = edge + 1 /\ SlaveOK(slave', 1)
          /\ UNCHANGED <<call, nth, bit, data, received, expected, owed>> /\ slave' = Rises(slave, Bus(0, 0, slave.out))
      BY <3>1, <3>2, LineMoves
    <3>4. TransmitAt(slave', to, st, y, bit, edge + 1) /\ ByteEffect(slave, slave', to, st, y, bit, edge)
      <4>1. TransmitGoes(slave, slave', to, st, y, bit, edge)
        BY <1>2, <1>4, <1>9, <2>1, <2>6, <3>3 DEF TransmitGoes
      <4>2. QED
        BY <4>1, TransmitEdge, Zenon
    <3>5. QED
      BY <2>1, <2>6, <3>2, <3>3, <3>4
  <2>7. CASE edge = 4
    <3>1. Here[edge] = <<0, 0, 0>>
      BY <2>2, <2>7
    <3>2. scl = 1 /\ Level(bit, edge + 1) = 0
      BY <1>4, <2>4, <2>7
    <3>3. /\ oe' = 0 /\ scl' = 0 /\ sda' = 0 /\ edge' = edge + 1 /\ SlaveOK(slave', 0)
          /\ UNCHANGED <<call, nth, bit, data, received, expected, owed>> /\ slave' = Falls(slave)
      BY <3>1, <3>2, LineMoves
    <3>4. TransmitAt(slave', to, st, y, bit, edge + 1) /\ ByteEffect(slave, slave', to, st, y, bit, edge)
      <4>1. TransmitGoes(slave, slave', to, st, y, bit, edge)
        BY <1>2, <1>4, <1>9, <2>1, <2>7, <3>3 DEF TransmitGoes
      <4>2. QED
        BY <4>1, TransmitEdge, Zenon
    <3>5. QED
      BY <2>1, <2>7, <3>2, <3>3, <3>4
  <2>8. QED
    BY <2>3, <2>5, <2>6, <2>7
<1>10. QED
  BY <1>4, <1>7, <1>8, <1>9

(* What the slave does through the bits of a byte that it gives.           *)
ReceiveGoes(s, r, x, last, b, e) ==
  /\ s \in SlaveType /\ last \in BOOLEAN /\ b \in 0 .. BITS /\ e \in 1 .. 4
  /\ ReceiveAt(s, x, last, b, e) /\ (b < BITS => x = s.mem[s.ptr])
  /\ e = 1 \/ (b < BITS /\ e = 3) \/ (b = BITS /\ e = 4) => r = s
  /\ b < BITS /\ e = 2 => r = Rises(s, Bus(0, 0, s.out))
  /\ b < BITS /\ e = 4 => r = Falls(s)
  /\ b = BITS /\ e = 2 => r = Rises(s, Bus(1, IF last THEN 1 ELSE 0, s.out))
  /\ b = BITS /\ e = 3 => r = Falls(s)

(* One edge of a byte that is received: the slave is where it should be
   for the next edge, its memory as it was, and its pointer moves with
   the acknowledge.                                                        *)
LEMMA ReceiveEdge ==
  ASSUME NEW s, NEW r, NEW x, NEW last, NEW b, NEW e, ReceiveGoes(s, r, x, last, b, e)
  PROVE  /\ ReceiveAt(r, x, last, b, e + 1) /\ r.mem = s.mem
         /\ r.ptr = IF b = BITS /\ e = 3 /\ ~ last THEN NextAddress(s.ptr) ELSE s.ptr
<1> SUFFICES
      ASSUME s \in SlaveType, last \in BOOLEAN, b \in 0 .. BITS, e \in 1 .. 4, ReceiveAt(s, x, last, b, e),
             b < BITS => x = s.mem[s.ptr],
             e = 1 \/ (b < BITS /\ e = 3) \/ (b = BITS /\ e = 4) => r = s,
             b < BITS /\ e = 2 => r = Rises(s, Bus(0, 0, s.out)),
             b < BITS /\ e = 4 => r = Falls(s),
             b = BITS /\ e = 2 => r = Rises(s, Bus(1, IF last THEN 1 ELSE 0, s.out)),
             b = BITS /\ e = 3 => r = Falls(s)
      PROVE  /\ ReceiveAt(r, x, last, b, e + 1) /\ r.mem = s.mem
             /\ r.ptr = IF b = BITS /\ e = 3 /\ ~ last THEN NextAddress(s.ptr) ELSE s.ptr
  BY Zenon DEF ReceiveGoes
<1>1. BITS \in Nat \ {0} /\ b \in Nat
  BY ByteSizes
<1>2. CASE b < BITS
  <2>1. /\ \A t, z : ReceiveAt(t, x, last, b, z) <=>
                       Gives(t, IF z > 2 THEN b + 1 ELSE b, OutAt(x, IF z = 5 THEN b + 1 ELSE b))
        /\ b # BITS /\ b \in 0 .. BITS - 1 /\ b + 1 \in 0 .. BITS
    BY <1>1, <1>2 DEF ReceiveAt
  <2>2. CASE e \in {1, 3}
    <3>1. r = s
      BY <1>2, <2>2
    <3>2. QED
      BY <2>1, <2>2, <3>1
  <2>3. CASE e = 2
    <3>1. r = Rises(s, Bus(0, 0, s.out))
      BY <1>2, <2>3
    <3>2. Gives(s, b, OutAt(x, b))
      BY <2>1, <2>3
    <3>3. Gives(r, b + 1, OutAt(x, b)) /\ r.ptr = s.ptr /\ r.mem = s.mem
      BY <2>1, <3>1, <3>2, GivesABit
    <3>4. QED
      BY <2>1, <2>3, <3>3
  <2>4. CASE e = 4
    <3>1. r = Falls(s)
      BY <1>2, <2>4
    <3>2. Gives(s, b + 1, OutAt(x, b))
      BY <2>1, <2>4
    <3>3. Gives(r, b + 1, OutAt(s.mem[s.ptr], b + 1)) /\ r.ptr = s.ptr /\ r.mem = s.mem
      BY <2>1, <3>1, <3>2, GivesABit
    <3>4. x = s.mem[s.ptr]
      BY <1>2
    <3>5. QED
      BY <2>1, <2>4, <3>3, <3>4
  <2>5. QED
    BY <2>2, <2>3, <2>4
<1>3. CASE b = BITS
  <2>1. \A t : /\ \A z \in {1, 2} : ReceiveAt(t, x, last, b, z) <=> Gives(t, BITS, 1)
               /\ \A z \in {3, 4, 5} : last => (ReceiveAt(t, x, last, b, z) <=> Quiet(t))
               /\ ~ last => (ReceiveAt(t, x, last, b, 3) <=> Gives(t, BITS + 1, 1))
               /\ \A z \in {4, 5} : ~ last =>
                    (ReceiveAt(t, x, last, b, z) <=> Gives(t, 0, OutAt(t.mem[t.ptr], 0)))
    BY <1>1, <1>3 DEF ReceiveAt
  <2>2. CASE e \in {1, 4}
    <3>1. r = s
      BY <1>3, <2>2
    <3>2. QED
      BY <2>1, <2>2, <3>1
  <2>3. CASE e = 2
    <3>1. Gives(s, BITS, 1)
      BY <2>1, <2>3
    <3>2. s.out = 1
      BY <3>1 DEF Gives
    <3>3. CASE last
      <4>1. r = Rises(s, 1)
        BY <1>3, <2>3, <3>2, <3>3 DEF Bus
      <4>2. Quiet(r) /\ r.ptr = s.ptr /\ r.mem = s.mem
        BY <3>1, <4>1, GivesABit
      <4>3. ReceiveAt(r, x, last, b, 3) <=> Quiet(r)
        BY <2>1, <3>3
      <4>4. Quiet(r)
        BY <4>2
      <4>5. ReceiveAt(r, x, last, b, 3)
        BY <4>3, <4>4, Zenon
      <4>6. e + 1 = 3 /\ ~ (b = BITS /\ e = 3 /\ ~ last)
        BY <2>3, <3>3
      <4>7. QED
        BY <4>2, <4>5, <4>6
    <3>4. CASE ~ last
      <4>1. r = Rises(s, 0)
        BY <1>3, <2>3, <3>2, <3>4 DEF Bus
      <4>2. Gives(r, BITS + 1, 1) /\ r.ptr = s.ptr /\ r.mem = s.mem
        BY <3>1, <4>1, GivesABit
      <4>3. QED
        BY <2>1, <2>3, <3>4, <4>2
    <3>5. QED
      BY <3>3, <3>4
  <2>4. CASE e = 3
    <3>1. r = Falls(s)
      BY <1>3, <2>4
    <3>2. CASE last
      <4>1. Quiet(s)
        BY <2>1, <2>4, <3>2
      <4>2. r = s
        BY <3>1, <4>1, StaysQuiet
      <4>3. ReceiveAt(r, x, last, b, 4) <=> Quiet(r)
        BY <2>1, <3>2
      <4>4. Quiet(r)
        BY <4>2, <4>1
      <4>5. ReceiveAt(r, x, last, b, 4)
        BY <4>3, <4>4, Zenon
      <4>6. e + 1 = 4 /\ ~ (b = BITS /\ e = 3 /\ ~ last)
        BY <2>4, <3>2
      <4>7. QED
        BY <4>2, <4>5, <4>6
    <3>3. CASE ~ last
      <4>1. Gives(s, BITS + 1, 1)
        BY <2>1, <2>4, <3>3
      <4>2. r.ptr = NextAddress(s.ptr) /\ r.mem = s.mem /\ Gives(r, 0, OutAt(r.mem[r.ptr], 0))
        BY <3>1, <4>1, GivesABit
      <4>3. QED
        BY <1>3, <2>1, <2>4, <3>3, <4>2
    <3>4. QED
      BY <3>2, <3>3
  <2>5. QED
    BY <2>2, <2>3, <2>4
<1>4. QED
  BY <1>1, <1>2, <1>3

(* The last of the lines of a bit, and the first of the next.              *)
LEMMA ReceiveOn ==
  ASSUME NEW s, NEW x, NEW last, NEW b \in 0 .. BITS - 1, ReceiveAt(s, x, last, b, 5)
  PROVE  ReceiveAt(s, x, last, b + 1, 1)
<1>1. BITS \in Nat \ {0} /\ b \in Nat /\ b < BITS
  BY ByteSizes
<1>2. Gives(s, b + 1, OutAt(x, b + 1))
  BY <1>1 DEF ReceiveAt
<1>3. CASE b + 1 = BITS
  <2>1. OutAt(x, b + 1) = 1
    BY <1>3 DEF OutAt
  <2>2. QED
    BY <1>1, <1>2, <1>3, <2>1 DEF ReceiveAt
<1>4. CASE b + 1 < BITS
  BY <1>1, <1>2, <1>4 DEF ReceiveAt
<1>5. QED
  BY <1>1, <1>3, <1>4

(* The place of a byte that is received, and which it is.                  *)
LEMMA WhichByte ==
  ASSUME call \in PlainCalls, IsReceive(call, nth), nth \in Nat, Plain, expected \in Memories
  PROVE  /\ call.op = "read" /\ call.len \in Nat
         /\ nth - Second(call) - 1 \in 1 .. call.len
         /\ Size(call) = Second(call) + call.len + 2
         /\ Fits(call) => call.at \in Cells
         /\ call.to = SLAVE
<1>1. PICK z \in 3 .. 6, k \in Nat :
        /\ call.op = "read" /\ z = LastPlace(call) /\ k = Second(call) /\ call.len \in Nat /\ k > z
        /\ Size(call) = k + call.len + 2
  BY Kinds DEF IsReceive
<1>2. PICK i \in 1 .. call.len : i = nth - Second(call) - 1
  <2>1. nth - k - 1 \in 1 .. call.len
    <3>1. PICK L \in Nat : L = call.len
      BY <1>1
    <3>2. nth > k + 1 /\ nth < k + L + 2
      BY <1>1, <3>1 DEF IsReceive
    <3>3. nth - k - 1 \in 1 .. L
      BY <3>2
    <3>4. QED
      BY <3>1, <3>3
  <2>2. QED
    BY <1>1, <2>1
<1>3. Fits(call) => call.at \in Cells
  BY <1>1 DEF Fits
<1>4. call.to = SLAVE
  <2>1. PICK m \in Nat : m = Size(call) /\ nth < m
    BY Kinds DEF IsReceive
  <2>2. nth \notin {1, 2, Size(call), Size(call) + 1}
    <3>1. nth > k + 1
      BY <1>1 DEF IsReceive
    <3>2. nth # 1 /\ nth # 2 /\ nth # m /\ nth # m + 1
      <4>1. z >= 3 /\ k > z /\ k \in Nat /\ z \in Nat
        BY <1>1
      <4>2. nth # 1 /\ nth # 2
        BY <3>1, <4>1
      <4>3. QED
        BY <2>1, <4>2
    <3>3. QED
      BY <2>1, <3>2
  <2>3. QED
    BY <1>1, <2>2, Zenon DEF Plain
<1>5. QED
  BY <1>1, <1>2, <1>3, <1>4

(* The lines of a byte that is received.                                   *)
LEMMA ReceiveLine ==
  ASSUME I2cInv, call \in PlainCalls, Plain, i2c_oe_scl_sda, IsReceive(call, nth), nth \in 1 .. Size(call)
  PROVE  /\ Receives' /\ slave'.mem = slave.mem
         /\ SlaveOK(slave', scl') /\ edge' = edge + 1
         /\ {oe', scl', sda'} \subseteq {0, 1} /\ UNCHANGED <<call, nth, bit, data, received, expected, owed>>
<1>0. nth \in Nat /\ expected \in Memories
  BY DEF I2cInv
<1>1. PICK i \in 1 .. call.len : i = nth - Second(call) - 1
  BY <1>0, WhichByte
<1>a. PICK at : at = call.at /\ (Fits(call) => at \in Cells)
  BY <1>0, WhichByte
<1>2. PICK last \in BOOLEAN : last = (i = call.len)
  OBVIOUS
<1>x. PICK x : x = Reading
  OBVIOUS
<1>3. Here = i2c_receive_byte(IF last THEN 0 ELSE 1, bit)
  <2>1. Now = Op("receive", IF i # call.len THEN 1 ELSE 0)
    BY <1>1, KindOfPlace DEF I2cInv, Now
  <2>2. (IF i # call.len THEN 1 ELSE 0) = IF last THEN 0 ELSE 1
    BY <1>a, <1>2, <1>x
  <2>3. QED
    BY <2>1, <2>2, LinesOf DEF Here
<1>4. /\ BITS \in Nat \ {0} /\ bit \in 0 .. BITS /\ bit \in Nat /\ edge \in Nat /\ edge \in 1 .. 5
      /\ scl = ReceiveLevel(bit, edge) /\ ReceiveAt(slave, x, last, bit, edge)
      /\ slave \in SlaveType /\ oe \in {0, 1} /\ sda \in {0, 1}
      /\ data = TopBits(x, IF bit < BITS /\ edge > 3 THEN bit + 1 ELSE bit)
      /\ Fits(call) => x = expected[Nth(at, i)]
      /\ Fits(call) /\ (bit < BITS \/ edge < 4 \/ ~ last) =>
           slave.ptr = Nth(at, IF bit = BITS /\ edge > 3 THEN i + 1 ELSE i)
  <2>1. Receives
    BY DEF Plain
  <2>2. slave \in SlaveType
    BY DEF I2cInv, SlaveOK
  <2>3. QED
    BY <1>1, <1>a, <1>2, <1>x, <2>1, <2>2, ByteSizes DEF Receives, I2cInv
<1>5. (bit < BITS => x = slave.mem[slave.ptr]) /\ (~ bit < BITS => x = data)
  BY <1>a, <1>2, <1>x DEF Reading
<1>6. edge <= Len(Here) /\ Here[edge] # Read
  BY DEF i2c_oe_scl_sda
<1>7. SUFFICES /\ oe' \in {0, 1} /\ scl' = ReceiveLevel(bit, edge + 1) /\ sda' \in {0, 1} /\ SlaveOK(slave', scl')
               /\ edge' = edge + 1 /\ edge \in 1 .. 4 /\ (bit < BITS /\ edge = 2 => oe' = 0)
               /\ ~ (bit < BITS /\ edge = 3)
               /\ UNCHANGED <<call, nth, bit, data, received, expected, owed>>
               /\ ReceiveGoes(slave, slave', x, last, bit, edge)
  <2>1. /\ ReceiveAt(slave', x, last, bit, edge + 1) /\ slave'.mem = slave.mem
        /\ slave'.ptr = IF bit = BITS /\ edge = 3 /\ ~ last THEN NextAddress(slave.ptr) ELSE slave.ptr
    BY <1>7, ReceiveEdge, Zenon
  <2>2. Second(call') = Second(call) /\ scl' \in {0, 1}
    BY <1>7 DEF ReceiveLevel
  <2>3. Fits(call) /\ (bit < BITS \/ edge' < 4 \/ ~ last) =>
          slave'.ptr = Nth(at, IF bit = BITS /\ edge' > 3 THEN i + 1 ELSE i)
    <3>0. SUFFICES ASSUME Fits(call)
                   PROVE  bit < BITS \/ edge' < 4 \/ ~ last =>
                            slave'.ptr = Nth(at, IF bit = BITS /\ edge' > 3 THEN i + 1 ELSE i)
      OBVIOUS
    <3>1. CASE bit = BITS /\ edge = 3 /\ ~ last
      <4>1. slave.ptr = Nth(at, i) /\ slave'.ptr = NextAddress(slave.ptr) /\ i \in Nat \ {0}
        BY <1>1, <1>4, <2>1, <3>0, <3>1
      <4>2. slave'.ptr = Nth(at, i + 1)
        BY <1>1, <1>a, <3>0, <4>1, GoesRound
      <4>3. QED
        BY <1>7, <3>1, <4>2
    <3>2. CASE ~ (bit = BITS /\ edge = 3)
      BY <1>4, <1>7, <2>1, <3>0, <3>2
    <3>3. CASE bit = BITS /\ edge = 3 /\ last
      BY <1>7, <3>3
    <3>4. QED
      BY <3>1, <3>2, <3>3
  <2>4. data' = TopBits(x, IF bit' < BITS /\ edge' > 3 THEN bit' + 1 ELSE bit')
    BY <1>4, <1>7
  <2>5. ReceiveAt(slave', x, last, bit', edge') /\ scl' = ReceiveLevel(bit', edge')
    BY <1>7, <2>1, Zenon
  <2>6. /\ call' = call /\ nth' = nth /\ expected' = expected /\ bit' \in 0 .. BITS /\ edge' \in 1 .. 5
        /\ (bit' < BITS /\ edge' = 3 => oe' = 0)
    BY <1>4, <1>7
  <2>7. Reading' = x
    <3>1. bit < BITS => slave'.ptr = slave.ptr
      BY <1>4, <2>1
    <3>2. QED
      BY <1>5, <1>7, <2>1, <3>1 DEF Reading
  <2>8. Fits(call') => x = expected'[Nth(at, i)]
    BY <1>4, <1>7
  <2>9. Fits(call') /\ (bit' < BITS \/ edge' < 4 \/ ~ last) =>
          slave'.ptr = Nth(at, IF bit' = BITS /\ edge' > 3 THEN i + 1 ELSE i)
    BY <1>7, <2>3
  <2>10. /\ nth' - Second(call') - 1 = i /\ call'.at = at /\ (i = call'.len) = last
    BY <1>1, <1>a, <1>2, <1>x, <1>7, <2>2
  <2>11. Receives'
    BY <2>4, <2>5, <2>6, <2>7, <2>8, <2>9, <2>10 DEF Receives
  <2>12. QED
    BY <1>7, <2>1, <2>2, <2>11
<1>8. CASE bit < BITS
  <2>1. bit # BITS
    BY <1>4, <1>8
  <2>2. Here = <<<<0, 0, 0>>, <<0, 1, 0>>, Read, <<0, 0, 0>>>>
    BY <1>3, <1>8 DEF i2c_receive_byte, i2c_receive_bit
  <2>3. edge \in {1, 2, 4}
    BY <1>4, <1>6, <2>2
  <2>4. /\ ReceiveLevel(bit, 1) = 0 /\ ReceiveLevel(bit, 2) = 0 /\ ReceiveLevel(bit, 3) = 1
        /\ ReceiveLevel(bit, 4) = 1 /\ ReceiveLevel(bit, 5) = 0
    BY <1>8, <2>1 DEF ReceiveLevel
  <2>5. CASE edge = 1
    <3>1. Here[edge] = <<0, 0, 0>> /\ scl = 0 /\ ReceiveLevel(bit, edge + 1) = 0
      BY <1>4, <2>2, <2>4, <2>5
    <3>2. /\ oe' = 0 /\ scl' = 0 /\ sda' = 0 /\ edge' = edge + 1 /\ SlaveOK(slave', 0)
          /\ UNCHANGED <<call, nth, bit, data, received, expected, owed>> /\ slave' = slave
      BY <3>1, LineMoves
    <3>3. ReceiveGoes(slave, slave', x, last, bit, edge)
      BY <1>4, <1>5, <1>8, <2>1, <2>5, <3>2 DEF ReceiveGoes
    <3>4. QED
      BY <2>5, <3>1, <3>2, <3>3
  <2>6. CASE edge = 2
    <3>1. Here[edge] = <<0, 1, 0>> /\ scl = 0 /\ ReceiveLevel(bit, edge + 1) = 1
      BY <1>4, <2>2, <2>4, <2>6
    <3>2. /\ oe' = 0 /\ scl' = 1 /\ sda' = 0 /\ edge' = edge + 1 /\ SlaveOK(slave', 1)
          /\ UNCHANGED <<call, nth, bit, data, received, expected, owed>> /\ slave' = Rises(slave, Bus(0, 0, slave.out))
      BY <3>1, LineMoves
    <3>3. ReceiveGoes(slave, slave', x, last, bit, edge)
      BY <1>4, <1>5, <1>8, <2>1, <2>6, <3>2 DEF ReceiveGoes
    <3>4. QED
      BY <2>6, <3>1, <3>2, <3>3
  <2>7. CASE edge = 4
    <3>1. Here[edge] = <<0, 0, 0>> /\ scl = 1 /\ ReceiveLevel(bit, edge + 1) = 0
      BY <1>4, <2>2, <2>4, <2>7
    <3>2. /\ oe' = 0 /\ scl' = 0 /\ sda' = 0 /\ edge' = edge + 1 /\ SlaveOK(slave', 0)
          /\ UNCHANGED <<call, nth, bit, data, received, expected, owed>> /\ slave' = Falls(slave)
      BY <3>1, LineMoves
    <3>3. ReceiveGoes(slave, slave', x, last, bit, edge)
      BY <1>4, <1>5, <1>8, <2>1, <2>7, <3>2 DEF ReceiveGoes
    <3>4. QED
      BY <2>7, <3>1, <3>2, <3>3
  <2>8. QED
    BY <2>3, <2>5, <2>6, <2>7
<1>9. CASE bit = BITS
  <2>1. ~ bit < BITS
    BY <1>4, <1>9
  <2>2. PICK v \in {0, 1} : v = IF last THEN 1 ELSE 0
    OBVIOUS
  <2>3. Here = <<<<1, 0, v>>, <<1, 1, v>>, <<1, 0, v>>, <<0, 0, 0>>>>
    BY <1>3, <2>1, <2>2 DEF i2c_receive_byte, i2c_transmit_bit
  <2>4. edge \in 1 .. 4
    BY <1>4, <1>6, <2>3
  <2>5. /\ ReceiveLevel(bit, 1) = 0 /\ ReceiveLevel(bit, 2) = 0 /\ ReceiveLevel(bit, 3) = 1
        /\ ReceiveLevel(bit, 4) = 0 /\ ReceiveLevel(bit, 5) = 0
    BY <2>1 DEF ReceiveLevel
  <2>6. CASE edge \in {1, 4}
    <3>1. PICK o \in {0, 1}, d \in {0, 1} : Here[edge] = <<o, 0, d>>
      BY <2>3, <2>6
    <3>2. scl = 0 /\ ReceiveLevel(bit, edge + 1) = 0
      BY <1>4, <2>5, <2>6
    <3>3. /\ oe' = o /\ scl' = 0 /\ sda' = d /\ edge' = edge + 1 /\ SlaveOK(slave', 0)
          /\ UNCHANGED <<call, nth, bit, data, received, expected, owed>> /\ slave' = slave
      BY <3>1, <3>2, LineMoves
    <3>4. ReceiveGoes(slave, slave', x, last, bit, edge)
      BY <1>4, <1>9, <2>1, <2>4, <2>6, <3>3 DEF ReceiveGoes
    <3>5. QED
      BY <2>1, <2>4, <3>2, <3>3, <3>4
  <2>7. CASE edge = 2
    <3>1. Here[edge] = <<1, 1, v>> /\ scl = 0 /\ ReceiveLevel(bit, edge + 1) = 1
      BY <1>4, <2>3, <2>5, <2>7
    <3>2. /\ oe' = 1 /\ scl' = 1 /\ sda' = v /\ edge' = edge + 1 /\ SlaveOK(slave', 1)
          /\ UNCHANGED <<call, nth, bit, data, received, expected, owed>> /\ slave' = Rises(slave, Bus(1, v, slave.out))
      BY <3>1, LineMoves
    <3>3. ReceiveGoes(slave, slave', x, last, bit, edge)
      BY <1>4, <1>9, <2>1, <2>2, <2>4, <2>7, <3>2 DEF ReceiveGoes
    <3>4. QED
      BY <2>1, <2>4, <3>1, <3>2, <3>3
  <2>8. CASE edge = 3
    <3>1. Here[edge] = <<1, 0, v>> /\ scl = 1 /\ ReceiveLevel(bit, edge + 1) = 0
      BY <1>4, <2>3, <2>5, <2>8
    <3>2. /\ oe' = 1 /\ scl' = 0 /\ sda' = v /\ edge' = edge + 1 /\ SlaveOK(slave', 0)
          /\ UNCHANGED <<call, nth, bit, data, received, expected, owed>> /\ slave' = Falls(slave)
      BY <3>1, LineMoves
    <3>3. ReceiveGoes(slave, slave', x, last, bit, edge)
      BY <1>4, <1>9, <2>1, <2>4, <2>8, <3>2 DEF ReceiveGoes
    <3>4. QED
      BY <2>1, <2>4, <3>1, <3>2, <3>3
  <2>9. QED
    BY <2>4, <2>6, <2>7, <2>8
<1>10. QED
  BY <1>4, <1>8, <1>9

-----------------------------------------------------------------------------
(* What the call has written and read so far is kept by a line that only   *)
(* moves on, and is right after every line of a byte that is transmitted.  *)
LEMMA HeadsKept ==
  ASSUME Heads, slave'.mem = slave.mem, slave'.ptr = slave.ptr, UNCHANGED <<call, nth, received, expected, owed>>,
         Reached' = Reached, Ended' <=> Ended, IsTransmit(call, nth) => slave'.left = slave.left
  PROVE  Heads'
<1>1. Stored(call, Reached)' = Stored(call, Reached)
  BY DEF Stored
<1>2. Second(call)' = Second(call) /\ Size(call)' = Size(call) /\ LastPlace(call)' = LastPlace(call) /\ Fits(call)' = Fits(call)
  OBVIOUS
<1>3. Follows => Follows'
  <2>1. SUFFICES ASSUME Follows PROVE Follows'
    OBVIOUS
  <2>2. /\ nth \in 2 .. LastPlace(call) => slave'.left = slave.left
        /\ call.op = "write" /\ nth > LastPlace(call) /\ nth < Size(call) => slave'.left = slave.left
    BY DEF IsTransmit
  <2>3. QED
    BY <1>2, <2>1, <2>2 DEF Follows
<1>4. QED
  BY <1>1, <1>2, <1>3 DEF Heads

(* An edge of a byte that is transmitted keeps what is said of the memory
   and of the pointer.                                                     *)
LEMMA TransmitHeads ==
  ASSUME Heads, call \in PlainCalls, expected \in Memories, nth \in 1 .. Size(call), IsTransmit(call, nth),
         Transmits, edge \in 1 .. 4, edge' = edge + 1, UNCHANGED <<call, nth, bit, received, expected, owed>>,
         ByteEffect(slave, slave', call.to, TakenFor(call, nth), ByteOf(call, nth), bit, edge)
  PROVE  Heads'
<1>1. PICK z \in 3 .. 6, m \in Nat :
        /\ z = LastPlace(call) /\ m = Size(call) /\ z < m /\ nth \in Nat /\ nth < m /\ nth > 1
        /\ call.op \in {"write", "read", "poll"} /\ (call.op = "poll" => z = 3)
        /\ (call.op = "read" => Second(call) \in {z + 1, z + 2})
  BY Kinds, KindOfPlace
<1>2. /\ BITS \in Nat \ {0} /\ bit \in 0 .. BITS + 1 /\ BITS # BITS + 1 /\ ~ Ended
      /\ (Ended' <=> bit = BITS + 1 /\ edge = 4)
  BY ByteSizes DEF Transmits, Ended
<1>3. ~ (bit = BITS /\ edge = 3) => (Acked(bit', edge') <=> Acked(bit, edge))
  BY <1>2 DEF Acked
<1>4. nth <= z \/ ~ (bit = BITS /\ edge = 3) => Reached' = Reached
  BY <1>1, <1>3 DEF Reached
<1>5. Second(call)' = Second(call) /\ Size(call)' = m /\ LastPlace(call)' = z /\ Fits(call)' = Fits(call)
  BY <1>1
<1>6. CASE call.to # SLAVE
  BY <1>5, <1>6 DEF ByteEffect, Heads
<1>7. CASE call.to = SLAVE /\ ~ Fits(call)
  BY <1>5, <1>7 DEF Heads
<1>8. CASE call.to = SLAVE /\ Fits(call)
  <2>1. /\ slave.mem = (IF call.op = "write" THEN Stored(call, Reached) ELSE expected) /\ Follows
        /\ (call.op # "poll" => call.at \in Cells /\ z = ADDR_SIZE + 2) /\ ADDR_SIZE \in 1 .. 4
        /\ Heads' <=> slave'.mem = (IF call.op = "write" THEN Stored(call, Reached)' ELSE expected) /\ Follows'
    BY <1>1, <1>5, <1>8, CellNumbers DEF Heads, Fits, LastPlace
  <2>2. CASE nth \in 2 .. z
    <3>1. nth > 2 => slave.left = ADDR_SIZE + 2 - nth + 1 /\ slave.left > 0
      <4>1. nth > 2 => slave.left = ADDR_SIZE + 2 - nth + 1
        BY <1>1, <1>2, <2>1, <2>2 DEF Follows
      <4>2. nth > 2 => ADDR_SIZE + 2 - nth + 1 > 0
        <5>1. call.op = "poll" => z = 3
          BY <1>1
        <5>2. z = 3 \/ z = ADDR_SIZE + 2
          BY <1>1, <2>1
        <5>3. QED
          BY <2>1, <2>2, <5>2
      <4>3. QED
        BY <4>1, <4>2
    <3>2. TakenFor(call, nth) = IF nth = 2 THEN "address" ELSE "data"
      BY <1>1, <2>2 DEF TakenFor
    <3>3. slave'.mem = slave.mem /\ Reached' = Reached
      BY <1>1, <1>4, <2>2, <3>1, <3>2 DEF ByteEffect
    <3>4. CASE ~ (bit = BITS + 1 /\ edge = 4)
      <4>1. slave'.ptr = slave.ptr /\ slave'.left = slave.left
        BY <1>8, <3>4 DEF ByteEffect
      <4>2. QED
        BY <1>2, <3>3, <3>4, <4>1, HeadsKept
    <3>5. CASE bit = BITS + 1 /\ edge = 4
      <4>1. /\ slave'.ptr = PtrAfter(slave, TakenFor(call, nth), ByteOf(call, nth))
            /\ slave'.left = LeftAfter(slave, TakenFor(call, nth), ByteOf(call, nth)) /\ Ended'
        BY <1>2, <1>8, <3>5 DEF ByteEffect
      <4>2. slave'.left = ADDR_SIZE + 2 - nth /\ (call.op # "poll" => slave'.ptr = Shifted(call.at, slave'.left))
        <5>1. CASE nth = 2
          <6>1. TakenFor(call, nth) = "address" /\ ByteOf(call, nth) % 2 = 0
            BY <1>1, <3>2, <5>1, ByteOfPlace
          <6>2. slave'.ptr = 0 /\ slave'.left = ADDR_SIZE
            BY <4>1, <6>1 DEF PtrAfter, LeftAfter
          <6>3. ADDR_SIZE = ADDR_SIZE + 2 - nth
            BY <2>1, <5>1
          <6>4. call.op # "poll" => Shifted(call.at, ADDR_SIZE) = 0
            BY <2>1, CellIsReached
          <6>5. QED
            BY <6>2, <6>3, <6>4
        <5>2. CASE nth > 2
          <6>1. /\ TakenFor(call, nth) = "data" /\ slave'.left = slave.left - 1
                /\ slave'.ptr = (2 ^ BITS * slave.ptr + ByteOf(call, nth)) % CELLS
            BY <3>1, <3>2, <4>1, <5>2 DEF PtrAfter, LeftAfter
          <6>2. slave'.left = ADDR_SIZE + 2 - nth
            BY <1>1, <2>1, <3>1, <5>2, <6>1
          <6>3. ASSUME call.op # "poll" PROVE slave'.ptr = Shifted(call.at, slave'.left)
            <7>1. PICK j \in 0 .. 3 : j = z - nth
              BY <2>2, <5>2
            <7>2. slave'.left = j /\ slave.left = j + 1
              BY <1>1, <2>1, <3>1, <5>2, <6>2, <6>3, <7>1
            <7>3. slave.ptr = Shifted(call.at, j + 1)
              BY <1>2, <1>1, <2>1, <2>2, <5>2, <6>3, <7>2 DEF Follows
            <7>4. ByteOf(call, nth) = Shifted(call.at, j) % 2 ^ BITS
              BY <1>1, <2>2, <5>2, <6>3, <7>1 DEF ByteOf, AddressByte
            <7>5. call.at \in Cells
              BY <2>1, <6>3
            <7>6. (2 ^ BITS * Shifted(call.at, j + 1) + (Shifted(call.at, j) % 2 ^ BITS)) % CELLS = Shifted(call.at, j)
              BY <7>5, CellIsReached
            <7>7. QED
              BY <6>1, <7>2, <7>3, <7>4, <7>6, Zenon
          <6>4. QED
            BY <6>2, <6>3
        <5>3. QED
          BY <2>2, <5>1, <5>2
      <4>3. Follows'
        <5>1. slave'.left = ADDR_SIZE + 2 - nth + 0
          BY <1>1, <2>1, <4>2
        <5>2. ~ nth > z
          BY <1>1, <2>2
        <5>3. call.op = "read" =>
                /\ Len(received) = IF nth <= Second(call) + 1 THEN 0
                                   ELSE IF nth > Size(call) THEN call.len ELSE nth - Second(call) - 2
                /\ \A k \in 1 .. Len(received) : received[k] = expected[Nth(call.at, k)]
          BY <2>1 DEF Follows
        <5>4. QED
          BY <1>1, <1>5, <4>1, <4>2, <5>1, <5>2, <5>3 DEF Follows
      <4>4. Stored(call, Reached)' = Stored(call, Reached)
        BY <3>3 DEF Stored
      <4>5. QED
        BY <2>1, <3>3, <4>3, <4>4
    <3>6. QED
      BY <3>4, <3>5
  <2>3. CASE call.op = "write" /\ nth > z
    <3>1. PICK L \in Nat : L = Len(call.data) /\ m = z + L + 1 /\ call \in WriteCalls
      BY <1>1, <2>3, Kinds
    <3>2. PICK i \in 1 .. L : i = nth - z /\ i - 1 = nth - z - 1 /\ i + 1 = nth - z + 1
      <4>1. m = z + L + 1
        BY <3>1
      <4>2. nth - z \in 1 .. L /\ (nth - z) - 1 = nth - z - 1
        BY <1>1, <2>3, <4>1
      <4>3. QED
        BY <4>2
    <3>3. slave.left = 0 /\ slave.ptr = Nth(call.at, i)
      BY <1>1, <1>2, <2>1, <2>3, <3>2 DEF Follows
    <3>4. TakenFor(call, nth) = "data" /\ ByteOf(call, nth) = call.data[i]
      BY <1>1, <2>3, <3>2 DEF TakenFor, ByteOf
    <3>5. CASE bit = BITS /\ edge = 3
      <4>1. /\ slave'.mem = [slave.mem EXCEPT ![slave.ptr] = call.data[i]]
            /\ slave'.ptr = slave.ptr /\ slave'.left = slave.left
        BY <1>2, <1>8, <3>3, <3>4, <3>5 DEF ByteEffect
      <4>2. slave.mem = Stored(call, i - 1)
        <5>1. Reached = i - 1
          BY <1>1, <1>2, <2>3, <3>2, <3>5 DEF Reached, Acked
        <5>2. QED
          BY <2>1, <2>3, <5>1
      <4>3. slave'.mem = Stored(call, i)
        <5>1. Stored(call, i) = [Stored(call, i - 1) EXCEPT ![Nth(call.at, i)] = call.data[i]]
          BY <3>1, StoredNext
        <5>2. QED
          BY <3>3, <4>1, <4>2, <5>1, Zenon
      <4>4. Stored(call, Reached)' = Stored(call, i)
        <5>1. Reached' = i
          BY <1>1, <1>5, <1>2, <2>3, <3>2, <3>5 DEF Reached, Acked
        <5>2. QED
          BY <5>1 DEF Stored
      <4>5. ~ Ended'
        BY <1>2, <3>5
      <4>6. Follows'
        BY <1>1, <1>5, <2>3, <3>2, <3>3, <4>1, <4>5 DEF Follows
      <4>7. QED
        BY <2>1, <2>3, <4>3, <4>4, <4>6
    <3>6. CASE bit = BITS + 1 /\ edge = 4
      <4>1. slave'.mem = slave.mem /\ slave'.ptr = NextAddress(slave.ptr) /\ slave'.left = 0
        BY <1>2, <1>8, <3>3, <3>4, <3>6 DEF ByteEffect, PtrAfter, LeftAfter
      <4>2. Reached' = Reached /\ Ended'
        BY <1>2, <1>4, <3>6
      <4>3. Stored(call, Reached)' = Stored(call, Reached)
        BY <4>2 DEF Stored
      <4>4. slave'.ptr = Nth(call.at, i + 1)
        <5>1. call.at \in Cells
          BY <2>1, <2>3
        <5>2. NextAddress(Nth(call.at, i)) = Nth(call.at, i + 1)
          BY <5>1, GoesRound
        <5>3. QED
          BY <3>3, <4>1, <5>2
      <4>5. Follows'
        BY <1>1, <1>5, <2>3, <3>2, <4>1, <4>2, <4>4 DEF Follows
      <4>6. QED
        BY <2>1, <4>1, <4>3, <4>5
    <3>7. CASE ~ (bit = BITS /\ edge = 3) /\ ~ (bit = BITS + 1 /\ edge = 4)
      <4>1. slave'.mem = slave.mem /\ slave'.ptr = slave.ptr /\ slave'.left = slave.left
        BY <3>7 DEF ByteEffect
      <4>2. Reached' = Reached /\ (Ended' <=> Ended)
        BY <1>2, <1>4, <3>7
      <4>3. QED
        BY <4>1, <4>2, HeadsKept
    <3>8. QED
      BY <3>5, <3>6, <3>7
  <2>4. CASE call.op = "read" /\ nth > z
    <3>1. nth = Second(call) + 1
      <4>1. ~ nth \in 2 .. z
        BY <2>4
      <4>2. QED
        BY <1>1, <2>4, <4>1, Zenon DEF IsTransmit
    <3>2. TakenFor(call, nth) = "address" /\ ByteOf(call, nth) % 2 = 1
      <4>1. TakenFor(call, nth) = "address"
        BY <1>1, <2>4 DEF TakenFor
      <4>2. nth # 2
        BY <2>4
      <4>3. QED
        BY <1>1, <4>1, <4>2, ByteOfPlace
    <3>3. slave'.mem = slave.mem /\ slave'.ptr = slave.ptr
      BY <3>2 DEF ByteEffect, PtrAfter
    <3>4. Follows'
      <4>1. ~ nth \in 2 .. z /\ call.op # "write"
        BY <2>4
      <4>2. QED
        BY <1>1, <1>5, <2>1, <3>1, <3>3, <4>1 DEF Follows
    <3>5. QED
      BY <2>1, <2>4, <3>3, <3>4
  <2>5. QED
    <3>1. call.op = "poll" => nth \in 2 .. z
      BY <1>1 DEF IsTransmit
    <3>2. QED
      BY <1>1, <2>2, <2>3, <2>4, <3>1
<1>9. QED
  BY <1>6, <1>7, <1>8

(* A line of a call.                                                       *)
LEMMA LinePlain ==
  ASSUME I2cInv, call \in PlainCalls, Plain, owed = 0, i2c_oe_scl_sda
  PROVE  I2cInv'
<1>0. PICK m \in Nat : m = Size(call) /\ nth <= m /\ nth \in 1 .. m + 1
  <2>1. Len(Body(call)) = Size(call) /\ Size(call) \in Nat
    BY Kinds
  <2>2. nth <= Size(call) /\ nth \in 1 .. Size(call) + 1
    BY <2>1 DEF i2c_oe_scl_sda, InCall, Plain
  <2>3. QED
    BY <2>1, <2>2
<1>1. /\ nth \in 1 .. m /\ nth \in 1 .. Size(call) /\ nth \in Nat /\ bit \in Nat /\ edge \in Nat
      /\ BITS \in Nat \ {0} /\ nth # m + 1 /\ m = Size(call) /\ m \in Nat
  <2>1. nth \in 1 .. m /\ nth \in Nat /\ nth # m + 1
    BY <1>0
  <2>2. QED
    BY <1>0, <2>1, ByteSizes DEF I2cInv
<1>2. SUFFICES /\ UNCHANGED <<call, nth, bit, data, received, expected, owed>> /\ edge' = edge + 1
               /\ SlaveOK(slave', scl') /\ {oe', scl', sda'} \subseteq {0, 1} /\ Heads'
               /\ IsStart(call, nth) => bit = 0 /\ data = 0 /\ edge' \in 1 .. 4
                                        /\ StartAt(slave, nth = 1 \/ Second(call) = LastPlace(call) + 2, edge)'
               /\ IsStop(call, nth) =>
                    /\ bit = 0 /\ data = 0 /\ edge' \in 1 .. 5
                    /\ ~ Hanging(call, nth) => StopAt(slave, edge)'
                    /\ Hanging(call, nth) => BlindStop' /\ (edge' = 5 => oe' = 0)
               /\ IsTransmit(call, nth) => Transmits'
               /\ IsReceive(call, nth) => Receives'
  <2>1. /\ Second(call)' = Second(call) /\ Size(call)' = Size(call) /\ LastPlace(call)' = LastPlace(call)
        /\ IsStart(call, nth)' = IsStart(call, nth) /\ IsStop(call, nth)' = IsStop(call, nth)
        /\ IsTransmit(call, nth)' = IsTransmit(call, nth) /\ IsReceive(call, nth)' = IsReceive(call, nth)
        /\ Hanging(call, nth)' = Hanging(call, nth) /\ call' = call /\ nth' = nth /\ bit' = bit /\ data' = data
    BY <1>2
  <2>2. nth # Size(call) + 1
    BY <1>1
  <2>3. Plain'
    BY <1>1, <1>2, <2>1, <2>2 DEF Plain
  <2>4. QED
    BY <1>1, <1>2, <2>3 DEF I2cInv
<1>4. CASE IsStart(call, nth) /\ ~ IsStop(call, nth) /\ ~ IsTransmit(call, nth) /\ ~ IsReceive(call, nth)
  <2>1. /\ StartAt(slave, nth = 1 \/ Second(call) = LastPlace(call) + 2, edge)' /\ edge' \in 1 .. 4
        /\ slave'.mem = slave.mem /\ slave'.ptr = slave.ptr /\ SlaveOK(slave', scl') /\ edge' = edge + 1
        /\ {oe', scl', sda'} \subseteq {0, 1} /\ UNCHANGED <<call, nth, bit, data, received, expected, owed>>
    BY <1>1, <1>4, StartLine DEF i2c_oe_scl_sda
  <2>2. bit = 0 /\ data = 0
    BY <1>4 DEF Plain
  <2>3. Heads'
    <3>1. (Ended' <=> Ended) /\ Reached' = Reached
      BY <1>1, <2>1, <2>2 DEF Ended, Reached, Acked
    <3>2. QED
      BY <1>4, <2>1, <3>1, HeadsKept DEF Plain
  <2>4. QED
    BY <1>4, <2>1, <2>2, <2>3
<1>5. CASE IsStop(call, nth) /\ ~ IsStart(call, nth) /\ ~ IsTransmit(call, nth) /\ ~ IsReceive(call, nth)
  <2>1. Here = i2c_stop
    BY <1>1, <1>5, KindOfPlace, LinesOf DEF Here, Now
  <2>2. /\ bit = 0 /\ data = 0 /\ edge \in 1 .. 5
        /\ (~ Hanging(call, nth) => StopAt(slave, edge)) /\ (Hanging(call, nth) => BlindStop)
    BY <1>5 DEF Plain
  <2>3. /\ ~ Hanging(call, nth) => StopAt(slave, edge)'
        /\ Hanging(call, nth) => BlindStop' /\ (edge' = 5 => oe' = 0)
        /\ edge' \in 1 .. 5
        /\ slave'.mem = slave.mem /\ slave'.ptr = slave.ptr /\ SlaveOK(slave', scl') /\ edge' = edge + 1
        /\ {oe', scl', sda'} \subseteq {0, 1} /\ UNCHANGED <<call, nth, bit, data, received, expected, owed>>
    <3>1. CASE Hanging(call, nth)
      BY <2>1, <2>2, <3>1, BlindStopLine
    <3>2. CASE ~ Hanging(call, nth)
      BY <2>1, <2>2, <3>2, StopLine DEF i2c_oe_scl_sda
    <3>3. QED
      BY <3>1, <3>2
  <2>4. Heads'
    <3>1. (Ended' <=> Ended) /\ Reached' = Reached
      BY <1>1, <2>2, <2>3 DEF Ended, Reached, Acked
    <3>2. QED
      BY <1>5, <2>3, <3>1, HeadsKept DEF Plain
  <2>5. QED
    BY <1>5, <2>2, <2>3, <2>4
<1>6. CASE IsTransmit(call, nth) /\ ~ IsStart(call, nth) /\ ~ IsStop(call, nth) /\ ~ IsReceive(call, nth)
  <2>1. /\ Transmits' /\ ByteEffect(slave, slave', call.to, TakenFor(call, nth), ByteOf(call, nth), bit, edge)
        /\ SlaveOK(slave', scl') /\ edge' = edge + 1 /\ edge \in 1 .. 4
        /\ {oe', scl', sda'} \subseteq {0, 1} /\ UNCHANGED <<call, nth, bit, data, received, expected, owed>>
    BY <1>1, <1>6, TransmitLine
  <2>2. Heads'
    BY <1>1, <1>6, <2>1, TransmitHeads DEF Plain, I2cInv
  <2>3. QED
    BY <1>6, <2>1, <2>2
<1>7. CASE IsReceive(call, nth) /\ ~ IsStart(call, nth) /\ ~ IsStop(call, nth) /\ ~ IsTransmit(call, nth)
  <2>1. /\ Receives' /\ slave'.mem = slave.mem /\ SlaveOK(slave', scl') /\ edge' = edge + 1
        /\ {oe', scl', sda'} \subseteq {0, 1} /\ UNCHANGED <<call, nth, bit, data, received, expected, owed>>
    BY <1>1, <1>7, ReceiveLine
  <2>2. PICK z \in 3 .. 6, k \in Nat :
          call.op = "read" /\ nth > k + 1 /\ k = Second(call) /\ z = LastPlace(call) /\ k > z
    BY <1>7, Kinds DEF IsReceive
  <2>3. /\ Second(call)' = Second(call) /\ Size(call)' = Size(call) /\ LastPlace(call)' = LastPlace(call)
        /\ Fits(call)' = Fits(call)
    BY <2>1
  <2>4. ~ nth \in 2 .. z /\ ~ nth <= k + 1
    <3>1. nth > k + 1 /\ k > z /\ k \in Nat /\ z \in Nat
      BY <2>2
    <3>2. QED
      BY <1>1, <3>1
  <2>5. Follows => Follows'
    BY <1>1, <2>1, <2>2, <2>3, <2>4 DEF Follows
  <2>6. Heads'
    BY <1>1, <2>1, <2>2, <2>3, <2>5 DEF Heads, Plain
  <2>7. QED
    BY <1>7, <2>1, <2>6
<1>8. QED
  BY <1>1, <1>4, <1>5, <1>6, <1>7, KindOfPlace

(* A bit that is read.                                                     *)
LEMMA SmallRemainder ==
  ASSUME NEW v \in I2cByte
  PROVE  v % 2 ^ BITS = v
<1>1. PICK m \in Nat \ {0} : m = 2 ^ BITS /\ I2cByte = 0 .. m - 1
  BY ByteSizes
<1>2. v \in 0 .. m - 1 /\ v = m * 0 + v
  BY <1>1
<1>3. v % m = v
  BY <1>1, <1>2, Quotient
<1>4. QED
  BY <1>1, <1>3, Zenon

(* A bit is a byte.                                                        *)
LEMMA OneBit == 0 \in I2cByte /\ 1 \in I2cByte
<1>1. PICK m \in Nat \ {0}, p \in Nat \ {0} : m = 2 * p /\ I2cByte = 0 .. m - 1
  BY ByteSizes
<1>2. QED
  BY <1>1

(* A read of SDA is the third thing of a bit that is received, and
   nothing of the other operations.                                        *)
LEMMA NotRead ==
  ASSUME NEW l, NEW e \in Nat \ {0}, e <= Len(l), l[e] = Read
  PROVE  /\ l # i2c_start /\ l # i2c_stop /\ \A v : l # i2c_transmit_bit(v)
         /\ \A a, b, c : l # <<<<a, b, c>>>>
         /\ l # <<<<1, 0, 1>>, <<1, 1, 1>>>>
         /\ l = i2c_receive_bit => e = 3
<1>1. \A a, b, c : <<a, b, c>> # Read
  <2>1. \A a, b, c : DOMAIN <<a, b, c>> # DOMAIN << >>
    OBVIOUS
  <2>2. QED
    BY <2>1 DEF Read
<1>2. l # i2c_start
  <2>1. Len(i2c_start) = 3 /\ i2c_start[1] # Read /\ i2c_start[2] # Read /\ i2c_start[3] # Read
    BY <1>1 DEF i2c_start
  <2>2. QED
    BY <2>1
<1>3. l # i2c_stop
  <2>1. /\ Len(i2c_stop) = 4 /\ i2c_stop[1] # Read /\ i2c_stop[2] # Read
        /\ i2c_stop[3] # Read /\ i2c_stop[4] # Read
    BY <1>1 DEF i2c_stop
  <2>2. QED
    BY <2>1
<1>4. ASSUME NEW a, NEW b, NEW c PROVE l # <<<<a, b, c>>>>
  BY <1>1
<1>8. l # <<<<1, 0, 1>>, <<1, 1, 1>>>>
  BY <1>1
<1>5. ASSUME NEW v PROVE l # i2c_transmit_bit(v)
  BY <1>1 DEF i2c_transmit_bit
<1>6. l = i2c_receive_bit => e = 3
  BY <1>1 DEF i2c_receive_bit
<1>7. QED
  BY <1>2, <1>3, <1>4, <1>5, <1>6, <1>8

(* A read of SDA in a transfer puts the right bit into the byte.           *)
LEMMA ReadPlain ==
  ASSUME I2cInv, call \in PlainCalls, Plain, owed = 0, ops_read
  PROVE  I2cInv'
<1>1. /\ nth \in 1 .. Size(call) /\ nth \in Nat /\ bit \in Nat /\ edge \in Nat /\ Size(call) \in Nat
      /\ BITS \in Nat \ {0} /\ BITS # BITS + 1 /\ data \in I2cByte /\ slave \in SlaveType
  <2>1. Len(Body(call)) = Size(call) /\ Size(call) \in Nat
    BY Kinds
  <2>2. nth <= Size(call) /\ nth \in 1 .. Size(call) + 1
    BY <2>1 DEF ops_read, InCall, Plain
  <2>3. QED
    BY <2>1, <2>2, ByteSizes DEF I2cInv, SlaveOK
<1>2. /\ UNCHANGED <<oe, scl, sda, call, nth, bit, received, slave, expected, owed>> /\ edge' = edge + 1
      /\ Here[edge] = Read /\ edge <= Len(Here)
      /\ data' = (2 * data + Bus(oe, sda, slave.out)) % 2 ^ BITS
  BY DEF ops_read
<1>3. SUFFICES /\ data' \in I2cByte /\ (Ended' <=> Ended) /\ Reached' = Reached
               /\ ~ IsStart(call, nth) /\ ~ IsStop(call, nth)
               /\ (IsTransmit(call, nth) => Transmits') /\ (IsReceive(call, nth) => Receives')
  <2>1. Heads'
    BY <1>2, <1>3, HeadsKept DEF Plain
  <2>2. /\ Second(call)' = Second(call) /\ Size(call)' = Size(call) /\ LastPlace(call)' = LastPlace(call) /\ nth # Size(call) + 1
        /\ IsStart(call, nth)' = IsStart(call, nth) /\ IsStop(call, nth)' = IsStop(call, nth)
        /\ IsTransmit(call, nth)' = IsTransmit(call, nth) /\ IsReceive(call, nth)' = IsReceive(call, nth)
    BY <1>1, <1>2
  <2>3. Plain'
    BY <1>1, <1>2, <1>3, <2>1, <2>2 DEF Plain
  <2>4. QED
    BY <1>1, <1>2, <2>3, <1>3 DEF I2cInv
<1>4. ~ IsStart(call, nth)
  <2>1. SUFFICES ASSUME IsStart(call, nth) PROVE FALSE
    OBVIOUS
  <2>2. edge \in 1 .. 4 /\ bit = 0
    BY <2>1 DEF Plain
  <2>3. Here = i2c_start
    BY <1>1, <2>1, KindOfPlace, LinesOf DEF Here, Now
  <2>4. QED
    BY <1>1, <1>2, <2>2, <2>3, NotRead
<1>5. ~ IsStop(call, nth)
  <2>1. SUFFICES ASSUME IsStop(call, nth) PROVE FALSE
    OBVIOUS
  <2>2. edge \in 1 .. 5 /\ bit = 0
    BY <2>1 DEF Plain
  <2>3. Here = i2c_stop
    BY <1>1, <2>1, KindOfPlace, LinesOf DEF Here, Now
  <2>4. QED
    BY <1>1, <1>2, <2>2, <2>3, NotRead
<1>6. CASE IsTransmit(call, nth) /\ ~ IsReceive(call, nth)
  <2>1. PICK st \in Ears, y \in I2cByte, to \in Sevens :
          st = TakenFor(call, nth) /\ y = ByteOf(call, nth) /\ to = call.to /\ (st = "address" => y \div 2 = to)
    BY <1>1, <1>6, Kinds, ByteOfPlace
  <2>2. Here = i2c_transmit_byte(y, bit)
    <3>1. Now = Op("transmit", y)
      BY <1>1, <1>6, <2>1, KindOfPlace DEF Now
    <3>2. QED
      BY <3>1, LinesOf DEF Here
  <2>3. /\ bit \in 0 .. BITS + 1 /\ edge \in 1 .. 5 /\ scl = Level(bit, edge)
        /\ (bit = BITS + 1 /\ edge = 3 => oe = 0)
        /\ data = IF to # SLAVE /\ bit = BITS + 1 /\ edge > 3 THEN 1 ELSE 0
        /\ TransmitAt(slave, to, st, y, bit, edge)
    BY <1>1, <1>6, <2>1 DEF Plain, Transmits
  <2>4. bit = BITS + 1 /\ edge = 3
    <3>1. edge \in Nat \ {0}
      BY <2>3
    <3>2. bit # 0 /\ ~ (bit <= BITS)
      <4>1. bit # 0
        BY <1>1, <1>2, <2>2, <3>1, NotRead DEF i2c_transmit_byte
      <4>2. bit <= BITS => Here = i2c_transmit_bit(BitOf(y, BITS - bit))
        BY <2>2, <4>1 DEF i2c_transmit_byte
      <4>3. QED
        BY <1>2, <3>1, <4>1, <4>2, NotRead
    <3>3. Here = i2c_receive_bit
      BY <2>2, <3>2 DEF i2c_transmit_byte
    <3>4. edge = 3
      BY <1>2, <3>1, <3>3, NotRead
    <3>5. QED
      BY <1>1, <2>3, <3>2, <3>4
  <2>5. slave.out = IF to # SLAVE THEN 1 ELSE 0
    <3>1. Acked(bit, edge)
      BY <2>4 DEF Acked
    <3>2. CASE to # SLAVE
      BY <2>3, <3>1, <3>2 DEF TransmitAt, Deaf, Quiet
    <3>3. CASE to = SLAVE
      BY <1>1, <2>3, <2>4, <3>1, <3>3 DEF TransmitAt, Deaf, Heard
    <3>4. QED
      BY <3>2, <3>3
  <2>6. data' = IF to # SLAVE THEN 1 ELSE 0
    <3>1. PICK v \in {0, 1} : v = slave.out /\ v = IF to # SLAVE THEN 1 ELSE 0
      BY <2>5
    <3>2. Bus(oe, sda, slave.out) = v /\ data = 0
      BY <2>3, <2>4, <3>1 DEF Bus
    <3>3. v \in I2cByte
      BY <3>1, OneBit
    <3>4. v % 2 ^ BITS = v
      BY <3>3, SmallRemainder
    <3>5. 2 * data + Bus(oe, sda, slave.out) = v
      BY <3>2
    <3>6. data' = v % 2 ^ BITS
      BY <1>2, <3>5, Zenon
    <3>7. QED
      BY <3>1, <3>4, <3>6
  <2>7. TransmitAt(slave, to, st, y, bit, 4)
    <3>1. TransmitGoes(slave, slave, to, st, y, bit, edge)
      BY <1>1, <2>1, <2>3, <2>4 DEF TransmitGoes
    <3>2. TransmitAt(slave, to, st, y, bit, edge + 1)
      BY <3>1, TransmitEdge, Zenon
    <3>3. edge + 1 = 4
      BY <2>4
    <3>4. QED
      BY <3>2, <3>3, Zenon
  <2>8. Transmits'
    <3>1. edge' = 4 /\ scl' = Level(bit, 4) /\ bit' = bit /\ bit # 0
      BY <1>1, <1>2, <2>3, <2>4 DEF Level
    <3>2. TransmitAt(slave', to, st, y, bit', edge') /\ scl' = Level(bit', edge')
      BY <1>2, <2>7, <3>1, Zenon
    <3>3. QED
      BY <1>1, <1>2, <2>1, <2>3, <2>4, <2>6, <3>1, <3>2 DEF Transmits
  <2>9. data' \in I2cByte
    BY <2>6, OneBit
  <2>10. (Ended' <=> Ended) /\ Reached' = Reached
    BY <1>1, <1>2, <2>4 DEF Ended, Reached, Acked
  <2>11. QED
    BY <1>4, <1>5, <1>6, <2>8, <2>9, <2>10
<1>7. CASE IsReceive(call, nth) /\ ~ IsTransmit(call, nth)
  <2>1. PICK i \in 1 .. call.len, x \in I2cByte :
          i = nth - Second(call) - 1 /\ (bit < BITS => x = slave.mem[slave.ptr]) /\ x = Reading
    <3>1. nth - Second(call) - 1 \in 1 .. call.len
      BY <1>1, <1>7, WhichByte DEF I2cInv
    <3>2. Reading \in I2cByte
      BY <1>1 DEF Reading, SlaveType, Memories
    <3>3. QED
      BY <3>1, <3>2 DEF Reading
  <2>2. PICK last \in BOOLEAN : last = (i = call.len)
    OBVIOUS
  <2>3. /\ bit \in 0 .. BITS /\ edge \in 1 .. 5 /\ scl = ReceiveLevel(bit, edge)
        /\ (bit < BITS /\ edge = 3 => oe = 0)
        /\ data = TopBits(x, IF bit < BITS /\ edge > 3 THEN bit + 1 ELSE bit)
        /\ ReceiveAt(slave, x, last, bit, edge)
        /\ Fits(call) =>
             /\ x = expected[Nth(call.at, i)]
             /\ bit < BITS \/ edge < 4 \/ ~ last =>
                  slave.ptr = Nth(call.at, IF bit = BITS /\ edge > 3 THEN i + 1 ELSE i)
    <3>1. Receives
      BY <1>1, <1>7 DEF Plain
    <3>2. QED
      BY <2>1, <2>2, <3>1, Zenon DEF Receives
  <2>4. PICK w : Here = i2c_receive_byte(w, bit)
    BY <1>1, <1>7, KindOfPlace, LinesOf DEF Here, Now
  <2>5. bit < BITS /\ edge = 3
    <3>1. edge \in Nat \ {0}
      BY <2>3
    <3>2. bit < BITS
      BY <1>2, <2>4, <3>1, NotRead DEF i2c_receive_byte
    <3>3. Here = i2c_receive_bit
      BY <2>4, <3>2 DEF i2c_receive_byte
    <3>4. QED
      BY <1>2, <3>1, <3>2, <3>3, NotRead
  <2>6. PICK v \in {0, 1} : /\ v = BitOf(x, BITS - 1 - bit) /\ TopBits(x, bit + 1) = 2 * TopBits(x, bit) + v
                            /\ TopBits(x, bit + 1) \in I2cByte
    <3>1. bit \in 0 .. BITS - 1 /\ bit + 1 \in 0 .. BITS
      BY <1>1, <2>3, <2>5
    <3>2. QED
      BY <3>1, BitAfterBit
  <2>7. Bus(oe, sda, slave.out) = v
    <3>1. slave.out = OutAt(x, bit) /\ bit # BITS
      BY <1>1, <2>3, <2>5 DEF ReceiveAt, Gives
    <3>2. slave.out = v
      BY <2>6, <3>1 DEF OutAt
    <3>3. QED
      BY <2>3, <2>5, <3>2 DEF Bus
  <2>8. data' = TopBits(x, bit + 1) /\ data' \in I2cByte
    <3>1. data = TopBits(x, bit)
      BY <2>3, <2>5
    <3>2. 2 * data + Bus(oe, sda, slave.out) = TopBits(x, bit + 1)
      BY <2>6, <2>7, <3>1
    <3>3. data' = TopBits(x, bit + 1) % 2 ^ BITS
      BY <1>2, <3>2, Zenon
    <3>4. QED
      BY <2>6, <3>3, SmallRemainder
  <2>9. ReceiveAt(slave, x, last, bit, 4)
    BY <2>3, <2>5 DEF ReceiveAt
  <2>10. Receives'
    <3>1. edge' = 4 /\ scl' = ReceiveLevel(bit, 4) /\ bit' = bit
      BY <1>2, <2>3, <2>5 DEF ReceiveLevel
    <3>2. /\ Second(call)' = Second(call) /\ expected' = expected /\ call' = call /\ nth' = nth /\ slave' = slave
          /\ Fits(call)' = Fits(call)
      BY <1>2
    <3>3. ReceiveAt(slave', x, last, bit', edge') /\ scl' = ReceiveLevel(bit', edge')
      BY <1>2, <2>9, <3>1, Zenon
    <3>4. Reading' = x /\ bit' # BITS
      BY <1>1, <2>1, <2>5, <3>1, <3>2 DEF Reading
    <3>5. data' = TopBits(x, IF bit' < BITS /\ edge' > 3 THEN bit' + 1 ELSE bit')
      BY <2>5, <2>8, <3>1
    <3>6. Fits(call) => x = expected'[Nth(call'.at, i)] /\ slave'.ptr = Nth(call'.at, i)
      BY <1>1, <2>3, <2>5, <3>2
    <3>7. nth' - Second(call') - 1 = i /\ last = (i = call'.len)
      BY <2>1, <2>2, <3>2
    <3>8. bit' \in 0 .. BITS /\ edge' \in 1 .. 5 /\ ~ (bit' < BITS /\ edge' = 3)
      BY <2>3, <3>1
    <3>9. QED
      BY <3>2, <3>3, <3>4, <3>5, <3>6, <3>7, <3>8 DEF Receives
  <2>11. (Ended' <=> Ended) /\ Reached' = Reached
    <3>1. nth > LastPlace(call)
      <4>1. PICK z \in 3 .. 6, k \in Nat : z = LastPlace(call) /\ k = Second(call) /\ k > z
        BY <1>7, Kinds DEF IsReceive
      <4>2. nth > k + 1
        BY <1>7, <4>1 DEF IsReceive
      <4>3. QED
        BY <1>1, <4>1, <4>2
    <3>2. (Ended' <=> Ended) /\ (Acked(bit', edge') <=> Acked(bit, edge))
      BY <1>1, <1>2, <2>5 DEF Ended, Acked
    <3>3. QED
      BY <1>2, <3>1, <3>2 DEF Reached
  <2>12. QED
    BY <1>4, <1>5, <1>7, <2>8, <2>10, <2>11
<1>8. QED
  BY <1>1, <1>4, <1>5, <1>6, <1>7, KindOfPlace

-----------------------------------------------------------------------------
(* From one bit to the next.                                               *)
LEMMA NextBitPlain ==
  ASSUME I2cInv, call \in PlainCalls, Plain, owed = 0, NextBit
  PROVE  I2cInv'
<1>1. /\ nth \in 1 .. Size(call) /\ nth \in Nat /\ bit \in Nat /\ edge \in Nat /\ Size(call) \in Nat
      /\ BITS \in Nat \ {0} /\ BITS # BITS + 1
  <2>1. Len(Body(call)) = Size(call) /\ Size(call) \in Nat
    BY Kinds
  <2>2. nth <= Size(call) /\ nth \in 1 .. Size(call) + 1
    BY <2>1 DEF NextBit, InCall, Plain
  <2>3. QED
    BY <2>1, <2>2, ByteSizes DEF I2cInv
<1>2. /\ UNCHANGED <<oe, scl, sda, call, nth, data, received, slave, expected, owed>> /\ bit' = bit + 1 /\ edge' = 1
      /\ edge > Len(Here) /\ bit < LastBit(Now)
  BY DEF NextBit
<1>3. SUFFICES /\ (Ended' <=> Ended) /\ Reached' = Reached /\ ~ IsStart(call, nth) /\ ~ IsStop(call, nth)
               /\ (IsTransmit(call, nth) => Transmits') /\ (IsReceive(call, nth) => Receives')
  <2>1. Heads'
    BY <1>2, <1>3, HeadsKept DEF Plain
  <2>2. /\ Second(call)' = Second(call) /\ Size(call)' = Size(call) /\ LastPlace(call)' = LastPlace(call) /\ nth # Size(call) + 1
        /\ IsStart(call, nth)' = IsStart(call, nth) /\ IsStop(call, nth)' = IsStop(call, nth)
        /\ IsTransmit(call, nth)' = IsTransmit(call, nth) /\ IsReceive(call, nth)' = IsReceive(call, nth)
    BY <1>1, <1>2
  <2>3. Plain'
    BY <1>1, <1>2, <1>3, <2>1, <2>2 DEF Plain
  <2>4. QED
    BY <1>1, <1>2, <2>3 DEF I2cInv
<1>4. ~ IsStart(call, nth) /\ ~ IsStop(call, nth)
  <2>1. SUFFICES ASSUME IsStart(call, nth) \/ IsStop(call, nth) PROVE FALSE
    OBVIOUS
  <2>2. bit = 0
    BY <2>1 DEF Plain
  <2>3. LastBit(Now) = 0
    BY <1>1, <2>1, KindOfPlace, LinesOf DEF Now
  <2>4. QED
    BY <1>2, <2>2, <2>3
<1>5. CASE IsTransmit(call, nth) /\ ~ IsReceive(call, nth)
  <2>1. PICK st, y, to : st = TakenFor(call, nth) /\ y = ByteOf(call, nth) /\ to = call.to
    OBVIOUS
  <2>2. Here = i2c_transmit_byte(y, bit) /\ LastBit(Now) = BITS + 1
    BY <1>1, <1>5, <2>1, KindOfPlace, LinesOf DEF Here, Now
  <2>3. /\ bit \in 0 .. BITS /\ edge \in 1 .. (IF bit = 0 THEN 2 ELSE 5) /\ scl = Level(bit, edge)
        /\ data = 0 /\ TransmitAt(slave, to, st, y, bit, edge)
    <3>1. Transmits
      BY <1>5 DEF Plain
    <3>2. QED
      BY <1>1, <1>2, <2>1, <2>2, <3>1 DEF Transmits
  <2>4. edge = IF bit = 0 THEN 2 ELSE 5
    <3>1. CASE bit = 0
      <4>1. Here = <<<<0, 0, 0>>>>
        BY <2>2, <3>1 DEF i2c_transmit_byte
      <4>2. Len(Here) = 1
        BY <4>1
      <4>3. QED
        BY <1>2, <2>3, <3>1, <4>2
    <3>2. CASE bit # 0
      <4>1. PICK v : Here = i2c_transmit_bit(v)
        BY <2>2, <2>3, <3>2 DEF i2c_transmit_byte
      <4>2. Len(Here) = 4
        BY <4>1 DEF i2c_transmit_bit
      <4>3. QED
        BY <1>2, <2>3, <3>2, <4>2
    <3>3. QED
      BY <3>1, <3>2
  <2>5. TransmitAt(slave, to, st, y, bit + 1, 1)
    BY <2>3, <2>4, TransmitOn
  <2>6. Transmits'
    <3>1. TransmitAt(slave', to, st, y, bit', edge')
      BY <1>2, <2>5, Zenon
    <3>2. scl' = Level(bit', edge') /\ bit' # 0
      BY <1>1, <1>2, <2>3, <2>4 DEF Level
    <3>3. QED
      BY <1>1, <1>2, <2>1, <2>3, <3>1, <3>2 DEF Transmits
  <2>7. (Ended' <=> Ended) /\ Reached' = Reached
    <3>1. (Ended' <=> Ended) /\ (Acked(bit', edge') <=> Acked(bit, edge))
      BY <1>1, <1>2, <2>3, <2>4 DEF Ended, Acked
    <3>2. QED
      BY <1>2, <3>1 DEF Reached
  <2>8. QED
    BY <1>4, <1>5, <2>6, <2>7
<1>6. CASE IsReceive(call, nth) /\ ~ IsTransmit(call, nth)
  <2>0. data \in I2cByte /\ slave \in SlaveType
    BY DEF I2cInv, SlaveOK
  <2>1. PICK i \in 1 .. call.len, x \in I2cByte :
          i = nth - Second(call) - 1 /\ (bit < BITS => x = slave.mem[slave.ptr]) /\ x = Reading
    <3>1. nth - Second(call) - 1 \in 1 .. call.len
      BY <1>1, <1>6, WhichByte DEF I2cInv
    <3>2. Reading \in I2cByte
      BY <2>0 DEF Reading, SlaveType, Memories
    <3>3. QED
      BY <3>1, <3>2 DEF Reading
  <2>2. PICK last \in BOOLEAN : last = (i = call.len)
    OBVIOUS
  <2>3. /\ bit \in 0 .. BITS /\ edge \in 1 .. 5 /\ scl = ReceiveLevel(bit, edge)
        /\ data = TopBits(x, IF bit < BITS /\ edge > 3 THEN bit + 1 ELSE bit)
        /\ ReceiveAt(slave, x, last, bit, edge)
        /\ Fits(call) =>
             /\ x = expected[Nth(call.at, i)]
             /\ bit < BITS \/ edge < 4 \/ ~ last =>
                  slave.ptr = Nth(call.at, IF bit = BITS /\ edge > 3 THEN i + 1 ELSE i)
    <3>1. Receives
      BY <1>1, <1>6 DEF Plain
    <3>2. QED
      BY <2>1, <2>2, <3>1, Zenon DEF Receives
  <2>4. PICK w : Here = i2c_receive_byte(w, bit) /\ LastBit(Now) = BITS
    <3>1. PICK v : Now = Op("receive", v)
      BY <1>1, <1>6, KindOfPlace DEF Now
    <3>2. Here = i2c_receive_byte(v, bit) /\ LastBit(Now) = BITS
      BY <3>1, LinesOf DEF Here
    <3>3. QED
      BY <3>2
  <2>5. bit \in 0 .. BITS - 1 /\ bit # BITS /\ bit < BITS
    BY <1>1, <1>2, <2>3, <2>4
  <2>6. edge = 5
    <3>1. Len(Here) = 4
      BY <2>4, <2>5 DEF i2c_receive_byte, i2c_receive_bit
    <3>2. QED
      BY <1>2, <2>3, <3>1
  <2>7. ReceiveAt(slave, x, last, bit + 1, 1)
    <3>1. ReceiveAt(slave, x, last, bit, 5)
      BY <2>3, <2>6
    <3>2. QED
      BY <2>5, <3>1, ReceiveOn
  <2>8. Receives'
    <3>1. scl' = ReceiveLevel(bit', edge') /\ bit' \in 0 .. BITS /\ edge' = 1 /\ bit' = bit + 1
      BY <1>1, <1>2, <2>3, <2>5, <2>6 DEF ReceiveLevel
    <3>2. /\ Second(call)' = Second(call) /\ expected' = expected /\ call' = call /\ nth' = nth /\ slave' = slave
          /\ Fits(call)' = Fits(call) /\ data' = data
      BY <1>2
    <3>3. ReceiveAt(slave', x, last, bit', edge')
      BY <1>2, <2>7, <3>2, Zenon
    <3>4. data = TopBits(x, bit + 1)
      BY <2>3, <2>5, <2>6
    <3>5. Reading' = x
      <4>1. CASE bit + 1 = BITS
        <5>1. data = x
          BY <3>4, <4>1, BitAfterBit
        <5>2. QED
          BY <1>1, <3>1, <3>2, <4>1, <5>1 DEF Reading
      <4>2. CASE bit + 1 < BITS
        BY <2>1, <2>5, <3>1, <3>2, <4>2 DEF Reading
      <4>3. QED
        BY <1>1, <2>5, <4>1, <4>2
    <3>6. data' = TopBits(x, IF bit' < BITS /\ edge' > 3 THEN bit' + 1 ELSE bit')
      BY <3>1, <3>2, <3>4
    <3>7. Fits(call) => x = expected'[Nth(call'.at, i)] /\ slave'.ptr = Nth(call'.at, i)
      BY <1>1, <2>3, <2>5, <3>2
    <3>8. nth' - Second(call') - 1 = i /\ last = (i = call'.len)
      BY <2>1, <2>2, <3>2
    <3>9. QED
      BY <3>1, <3>2, <3>3, <3>5, <3>6, <3>7, <3>8 DEF Receives
  <2>9. (Ended' <=> Ended) /\ Reached' = Reached
    <3>1. (Ended' <=> Ended) /\ (Acked(bit', edge') <=> Acked(bit, edge))
      BY <1>1, <1>2, <2>5, <2>6 DEF Ended, Acked
    <3>2. QED
      BY <1>2, <3>1 DEF Reached
  <2>10. QED
    BY <1>4, <1>6, <2>8, <2>9
<1>7. QED
  BY <1>1, <1>4, <1>5, <1>6, KindOfPlace

(* A byte begins: the slave is ready for it, or does not listen.           *)
LEMMA ByteBegins ==
  ASSUME NEW s, NEW to, NEW st, NEW y \in I2cByte,
         \/ Ready(s, st) /\ (to = SLAVE \/ st = "address")
         \/ Quiet(s) /\ to # SLAVE /\ st # "address"
  PROVE  TransmitAt(s, to, st, y, 0, 1)
<1>1. BITS \in Nat \ {0} /\ 0 # BITS /\ 0 # BITS + 1
  BY ByteSizes
<1>2. ~ Acked(0, 1) /\ Taken(0, 1) = 0 /\ TopBits(y, 0) = 0
  BY <1>1, BitAfterBit DEF Acked, Taken
<1>3. QED
  BY <1>2 DEF TransmitAt, Deaf, Hears, Ready

(* What a call does is not changed by its result.                          *)
SameCall(d, c, v) ==
  /\ d \in PlainCalls /\ d.op = c.op /\ d.to = c.to /\ d.ok = v /\ Size(d) = Size(c) /\ LastPlace(d) = LastPlace(c)
  /\ Fits(d) <=> Fits(c)
  /\ c.op = "write" => d.at = c.at /\ d.data = c.data /\ \A k : Stored(d, k) = Stored(c, k)
  /\ c.op = "read" => d.at = c.at /\ d.len = c.len /\ Second(d) = Second(c)
  /\ \A n : /\ IsStart(d, n) <=> IsStart(c, n)
            /\ IsStop(d, n) <=> IsStop(c, n)
            /\ IsTransmit(d, n) <=> IsTransmit(c, n)
            /\ IsReceive(d, n) <=> IsReceive(c, n)
            /\ TakenFor(d, n) = TakenFor(c, n)
            /\ ByteOf(d, n) = ByteOf(c, n) /\ (Hanging(d, n) <=> Hanging(c, n))

(* The result of a call is the only thing that a missing acknowledge
   changes in it.                                                          *)
LEMMA OkChanged ==
  ASSUME NEW c \in PlainCalls, NEW v \in BOOLEAN, NEW d, d = [c EXCEPT !.ok = v]
  PROVE  SameCall(d, c, v)
<1>1. c.op \in {"write", "read", "poll"}
  BY Kinds
<1>2. CASE c.op = "write"
  <2>1. c \in WriteCalls
    BY <1>2, Kinds
  <2>2. d \in WriteCalls /\ d.op = c.op /\ d.to = c.to /\ d.ok = v /\ d.at = c.at /\ d.data = c.data
        /\ d.addr_size = c.addr_size
    BY <2>1 DEF WriteCalls
  <2>3. (\A k : Stored(d, k) = Stored(c, k)) /\ LastPlace(d) = LastPlace(c) /\ Size(d) = Size(c)
        /\ \A k : AddressByte(d, k) = AddressByte(c, k)
    BY <1>2, <2>2 DEF Stored, LastPlace, Size, AddressByte
  <2>4. \A n : ByteOf(d, n) = ByteOf(c, n)
    BY <1>2, <2>2, <2>3 DEF ByteOf
  <2>5. QED
    BY <1>2, <2>2, <2>3, <2>4 DEF SameCall, PlainCalls, IsStart, IsStop, IsTransmit, IsReceive, TakenFor, Fits, Hanging
<1>3. CASE c.op = "read"
  <2>1. c \in ReadCalls
    BY <1>3, Kinds
  <2>2. d \in ReadCalls /\ d.op = c.op /\ d.to = c.to /\ d.ok = v /\ d.at = c.at /\ d.len = c.len
        /\ d.send_stop = c.send_stop /\ d.addr_size = c.addr_size
    BY <2>1 DEF ReadCalls
  <2>3. Second(d) = Second(c) /\ LastPlace(d) = LastPlace(c) /\ Size(d) = Size(c)
        /\ \A k : AddressByte(d, k) = AddressByte(c, k)
    BY <1>3, <2>2 DEF Second, LastPlace, Size, AddressByte
  <2>4. \A n : ByteOf(d, n) = ByteOf(c, n)
    BY <1>3, <2>2, <2>3 DEF ByteOf
  <2>5. QED
    BY <1>3, <2>2, <2>3, <2>4 DEF SameCall, PlainCalls, IsStart, IsStop, IsTransmit, IsReceive, TakenFor, Fits, Hanging
<1>4. CASE c.op = "poll"
  <2>1. c \in PollCalls
    BY <1>4, Kinds
  <2>2. d \in PollCalls /\ d.op = c.op /\ d.to = c.to /\ d.ok = v
    BY <2>1 DEF PollCalls
  <2>3. LastPlace(d) = LastPlace(c) /\ Size(d) = Size(c)
    BY <1>4, <2>2 DEF LastPlace, Size
  <2>4. \A n : ByteOf(d, n) = ByteOf(c, n)
    BY <1>4, <2>2, <2>3 DEF ByteOf
  <2>5. QED
    BY <1>4, <2>2, <2>3, <2>4 DEF SameCall, PlainCalls, IsStart, IsStop, IsTransmit, IsReceive, TakenFor, Fits, Hanging
<1>5. QED
  BY <1>1, <1>2, <1>3, <1>4

-----------------------------------------------------------------------------
(* From one operation to the next.                                         *)
LEMMA GoesOn ==
  ASSUME I2cInv, call \in PlainCalls, Plain, NextOperation
  PROVE  /\ BITS \in Nat \ {0} /\ BITS # BITS + 1 /\ 0 # BITS + 1 /\ call.op \in {"write", "read", "poll"}
         /\ UNCHANGED <<oe, scl, sda, slave, expected, owed>> /\ bit' = 0 /\ edge' = 1 /\ data' = 0
         /\ edge > Len(Here) /\ bit = LastBit(Now) /\ bit \in Nat /\ edge \in Nat
         /\ nth' = IF Now.do = "transmit" /\ data # 0 /\ call.op # "poll" THEN Size(call) ELSE nth + 1
         /\ received' = IF Now.do = "receive" THEN Append(received, data) ELSE received
         /\ Now.do # "transmit" => call' = call
         /\ Now.do = "transmit" =>
              call' = [call EXCEPT !.ok = IF call.op = "poll" THEN @ \/ data = 0 ELSE data = 0]
<1>1. Len(Body(call)) = Size(call) /\ call.op \in {"write", "read", "poll"}
  BY Kinds
<1>4. nth' = IF Now.do = "transmit" /\ data # 0 /\ call.op # "poll" THEN Size(call) ELSE nth + 1
  BY <1>1 DEF NextOperation, Go
<1>5. /\ UNCHANGED <<oe, scl, sda, slave, expected, owed>> /\ bit' = 0 /\ edge' = 1 /\ data' = 0
      /\ edge > Len(Here) /\ bit = LastBit(Now)
      /\ received' = IF Now.do = "receive" THEN Append(received, data) ELSE received
  BY DEF NextOperation, Go
<1>6. /\ Now.do # "transmit" => call' = call
      /\ Now.do = "transmit" =>
           call' = [call EXCEPT !.ok = IF call.op = "poll" THEN @ \/ data = 0 ELSE data = 0]
  BY DEF NextOperation
<1>7. /\ bit \in Nat /\ edge \in Nat /\ BITS \in Nat \ {0} /\ BITS # BITS + 1 /\ 0 # BITS + 1
  BY ByteSizes DEF I2cInv
<1>8. QED
  BY <1>1, <1>4, <1>5, <1>6, <1>7, Zenon

(* The places of a call in numbers.                                        *)
LEMMA Places ==
  ASSUME I2cInv, call \in PlainCalls, Plain, NextOperation
  PROVE  \E z \in 3 .. 6, k \in Nat, L \in Nat, m \in Nat :
           /\ z = LastPlace(call) /\ m = Size(call) /\ z < m /\ m >= 4 /\ nth \in 1 .. m /\ nth \in Nat
           /\ call.op = "read" => k = Second(call) /\ k \in {z + 1, z + 2} /\ L = call.len /\ m = k + L + 2
           /\ call.op = "write" => L = Len(call.data) /\ m = z + L + 1
           /\ call.op = "poll" => z = 3 /\ m = 4
<1>1. PICK z \in 3 .. 6, m \in Nat :
        /\ z = LastPlace(call) /\ m = Size(call) /\ z < m /\ m >= 4 /\ call.op \in {"write", "read", "poll"}
        /\ Len(Body(call)) = m
  BY Kinds
<1>2. nth \in 1 .. m /\ nth \in Nat
  <2>1. nth <= m /\ nth \in 1 .. m + 1
    BY <1>1 DEF NextOperation, InCall, Plain
  <2>2. QED
    BY <2>1
<1>3. CASE call.op = "read"
  <2>1. PICK k \in Nat, L \in Nat : k = Second(call) /\ L = call.len /\ k \in {z + 1, z + 2} /\ m = k + L + 2
    BY <1>1, <1>3, Kinds
  <2>2. QED
    BY <1>1, <1>2, <1>3, <2>1
<1>4. CASE call.op = "write"
  <2>1. PICK L \in Nat : L = Len(call.data) /\ m = z + L + 1
    BY <1>1, <1>4, Kinds
  <2>2. QED
    BY <1>1, <1>2, <1>4, <2>1
<1>5. CASE call.op = "poll"
  BY <1>1, <1>2, <1>5, Kinds
<1>6. QED
  BY <1>1, <1>3, <1>4, <1>5

(* The lines at rest between two operations: what is left to show is the
   place in the call.                                                      *)
LEMMA PlainAgain ==
  ASSUME I2cInv, UNCHANGED <<oe, scl, sda, slave, expected, owed>>, bit' = 0, edge' = 1, data' = 0,
         nth' \in Nat, call' \in PlainCalls, received' \in Seq(I2cByte), Plain', owed = 0
  PROVE  I2cInv'
BY ByteSizes DEF I2cInv

(* After a start the address is transmitted.                               *)
LEMMA AfterStart ==
  ASSUME I2cInv, call \in PlainCalls, Plain, owed = 0, NextOperation, IsStart(call, nth)
  PROVE  I2cInv'
<1>0. PICK z \in 3 .. 6, k \in Nat, L \in Nat, m \in Nat :
        /\ z = LastPlace(call) /\ m = Size(call) /\ z < m /\ m >= 4 /\ nth \in 1 .. m /\ nth \in Nat
        /\ call.op = "read" => k = Second(call) /\ k \in {z + 1, z + 2} /\ L = call.len /\ m = k + L + 2
        /\ call.op = "write" => L = Len(call.data) /\ m = z + L + 1
        /\ call.op = "poll" => z = 3 /\ m = 4
  BY Places
<1>1. /\ nth \in 1 .. Size(call) /\ BITS \in Nat \ {0} /\ 0 # BITS + 1 /\ call.op \in {"write", "read", "poll"}
      /\ UNCHANGED <<oe, scl, sda, slave, expected, owed>> /\ bit' = 0 /\ edge' = 1 /\ data' = 0 /\ edge > Len(Here)
  BY <1>0, GoesOn
<1>2. Now = Op("start", 0) /\ Here = i2c_start
  BY <1>0, <1>1, KindOfPlace, LinesOf DEF Now, Here
<1>3. call' = call /\ nth' = nth + 1 /\ received' = received
  <2>1. Now.do = "start"
    BY <1>2 DEF Op
  <2>2. QED
    BY <2>1, GoesOn
<1>4. Ready(slave, "address") /\ scl = 0
  <2>1. Len(Here) = 3
    BY <1>2 DEF i2c_start
  <2>2. edge = 4 /\ StartAt(slave, nth = 1 \/ Second(call) = LastPlace(call) + 2, edge)
    BY <1>1, <2>1 DEF Plain
  <2>3. QED
    BY <2>2 DEF StartAt
<1>5. nth = 1 \/ (call.op = "read" /\ nth = k)
  BY <1>0 DEF IsStart
<1>6. PICK n \in 1 .. m : n = nth + 1 /\ n \in Nat /\ n # m + 1 /\ (nth > 2 <=> n > 2)
  <2>1. nth + 1 \in 1 .. m /\ nth + 1 # m + 1 /\ (nth > 2 <=> nth + 1 > 2)
    BY <1>0, <1>5
  <2>2. QED
    BY <2>1
<1>7. IsTransmit(call, n) /\ TakenFor(call, n) = "address" /\ ~ IsStart(call, n) /\ ~ IsStop(call, n) /\ ~ IsReceive(call, n)
  <2>1. IsTransmit(call, n)
    <3>1. nth = 1 => n \in 2 .. z
      BY <1>6
    <3>2. QED
      BY <1>0, <1>5, <1>6, <3>1 DEF IsTransmit
  <2>2. TakenFor(call, n) = "address"
    <3>1. n = 2 \/ (call.op = "read" /\ n > z)
      BY <1>0, <1>5, <1>6
    <3>2. QED
      BY <1>0, <3>1 DEF TakenFor
  <2>3. n \in 1 .. Size(call)
    BY <1>0
  <2>4. QED
    BY <2>1, <2>2, <2>3, KindOfPlace, <1>6
<1>8. Transmits'
  <2>1. TransmitAt(slave, call.to, "address", ByteOf(call, n), 0, 1)
    <3>1. ByteOf(call, n) \in I2cByte
      BY <1>0, <1>6, <1>7, ByteOfPlace
    <3>2. QED
      BY <1>4, <3>1, ByteBegins
  <2>2. Level(0, 1) = 0
    BY <1>1 DEF Level
  <2>3. TransmitAt(slave', call'.to, TakenFor(call', nth'), ByteOf(call', nth'), bit', edge')
    BY <1>1, <1>3, <1>6, <1>7, <2>1, Zenon
  <2>4. scl' = Level(bit', edge')
    BY <1>1, <1>4, <2>2, Zenon
  <2>5. QED
    BY <1>1, <1>3, <2>3, <2>4 DEF Transmits
<1>9. Second(call)' = Second(call) /\ Size(call)' = Size(call) /\ LastPlace(call)' = LastPlace(call) /\ Fits(call)' = Fits(call)
  BY <1>3
<1>10. Heads'
  <2>1. ~ Ended' /\ ~ Acked(0, 1)
    BY <1>1 DEF Ended, Acked
  <2>2. call.op = "write" => Reached = 0 /\ Reached' = 0
    <3>1. call.op = "write" => nth <= z /\ nth' <= z
      BY <1>0, <1>3, <1>5
    <3>2. QED
      BY <1>0, <1>9, <3>1 DEF Reached
  <2>3. call.op = "write" => Stored(call, Reached)' = Stored(call, Reached)
    BY <1>1, <1>3, <2>2 DEF Stored
  <2>4. slave'.mem = slave.mem /\ slave'.ptr = slave.ptr /\ expected' = expected /\ received' = received /\ call' = call
    BY <1>1, <1>3
  <2>5. Follows => Follows'
    <3>1. SUFFICES ASSUME Follows PROVE Follows'
      OBVIOUS
    <3>2. nth' = n /\ (n = 2 \/ (call.op = "read" /\ n = k + 1 /\ nth = k /\ n > z))
      BY <1>0, <1>3, <1>5, <1>6
    <3>3. ~ (n \in 2 .. z /\ (n = 2 => Ended')) /\ ~ (call.op = "write" /\ n > z)
      <4>1. n = 2 => ~ n > z
        OBVIOUS
      <4>2. n > z => ~ n \in 2 .. z
        OBVIOUS
      <4>3. QED
        BY <2>1, <3>2, <4>1, <4>2
    <3>4. call.op = "read" => nth <= k + 1 /\ n <= k + 1 /\ (n > z => slave.ptr = Nth(call.at, 1))
      <4>1. call.op = "read" => nth <= k + 1 /\ n <= k + 1 /\ (n > z => nth > z)
        BY <1>0, <1>5, <1>6, <3>2
      <4>2. QED
        BY <1>0, <3>1, <4>1 DEF Follows
    <3>5. call.op = "read" => Len(received) = 0
      BY <1>0, <3>1, <3>4 DEF Follows
    <3>6. call.op = "read" => \A j \in 1 .. Len(received) : received[j] = expected[Nth(call.at, j)]
      BY <3>1 DEF Follows
    <3>7. QED
      BY <1>0, <1>9, <2>4, <3>2, <3>3, <3>4, <3>5, <3>6 DEF Follows
  <2>6. QED
    BY <1>9, <2>3, <2>4, <2>5 DEF Heads, Plain
<1>11. Plain'
  <2>1. /\ (call.ok <=> nth > 2 /\ call.to = SLAVE) /\ call.ok \in BOOLEAN
        /\ (call.to # SLAVE /\ call.op # "poll" => nth \in {1, 2, m, m + 1})
    BY <1>0, Kinds DEF Plain
  <2>2. nth' = n /\ n # Size(call) + 1 /\ call.ok = (n > 2 /\ call.to = SLAVE) /\ n \in 1 .. Size(call) + 1
    BY <1>0, <1>3, <1>6, <2>1
  <2>3. call.to # SLAVE /\ call.op # "poll" => n \in {1, 2, Size(call), Size(call) + 1}
    <3>1. call.to # SLAVE /\ call.op # "poll" => nth = 1
      <4>1. SUFFICES ASSUME call.op = "read", nth = k PROVE nth \notin {1, 2, m, m + 1}
        BY <1>5, <2>1
      <4>2. m = k + L + 2 /\ k \in {z + 1, z + 2}
        BY <1>0, <4>1
      <4>3. QED
        BY <4>1, <4>2
    <3>2. QED
      BY <1>6, <3>1
  <2>4. QED
    BY <1>1, <1>3, <1>7, <1>8, <1>9, <1>10, <2>2, <2>3 DEF Plain
<1>12. received' \in Seq(I2cByte) /\ nth' \in Nat
  BY <1>3, <1>6 DEF I2cInv
<1>13. QED
  BY <1>1, <1>3, <1>11, <1>12, PlainAgain

(* After a stop the call starts again or returns.                          *)
LEMMA AfterStop ==
  ASSUME I2cInv, call \in PlainCalls, Plain, owed = 0, NextOperation, IsStop(call, nth)
  PROVE  I2cInv'
<1>0. PICK z \in 3 .. 6, k \in Nat, L \in Nat, m \in Nat :
        /\ z = LastPlace(call) /\ m = Size(call) /\ z < m /\ m >= 4 /\ nth \in 1 .. m /\ nth \in Nat
        /\ call.op = "read" => k = Second(call) /\ k \in {z + 1, z + 2} /\ L = call.len /\ m = k + L + 2
        /\ call.op = "write" => L = Len(call.data) /\ m = z + L + 1
        /\ call.op = "poll" => z = 3 /\ m = 4
  BY Places
<1>1. /\ nth \in 1 .. Size(call) /\ BITS \in Nat \ {0} /\ 0 # BITS + 1 /\ call.op \in {"write", "read", "poll"}
      /\ UNCHANGED <<oe, scl, sda, slave, expected, owed>> /\ bit' = 0 /\ edge' = 1 /\ data' = 0 /\ edge > Len(Here)
  BY <1>0, GoesOn
<1>2. Now = Op("stop", 0) /\ Here = i2c_stop
  BY <1>0, <1>1, KindOfPlace, LinesOf DEF Now, Here
<1>3. call' = call /\ nth' = nth + 1 /\ received' = received
  <2>1. Now.do = "stop"
    BY <1>2 DEF Op
  <2>2. QED
    BY <2>1, GoesOn
<1>4. Stuck(slave) /\ (~ Hanging(call, nth) => Quiet(slave)) /\ scl = 1 /\ sda = 1 /\ oe = 0
  <2>1. Len(Here) = 4
    BY <1>2 DEF i2c_stop
  <2>2. edge = 5
    BY <1>1, <2>1 DEF Plain
  <2>3. CASE Hanging(call, nth)
    <3>1. BlindStop /\ oe = 0
      BY <2>2, <2>3 DEF Plain
    <3>2. QED
      BY <2>2, <2>3, <3>1 DEF BlindStop
  <2>4. CASE ~ Hanging(call, nth)
    <3>1. StopAt(slave, 5)
      BY <2>2, <2>4 DEF Plain
    <3>2. QED
      BY <2>4, <3>1 DEF StopAt, Stuck
  <2>5. QED
    BY <2>3, <2>4
<1>5. nth = m \/ (call.op = "read" /\ nth = z + 1 /\ k = z + 2)
  BY <1>0 DEF IsStop
<1>6. Second(call)' = Second(call) /\ Size(call)' = Size(call) /\ LastPlace(call)' = LastPlace(call) /\ Fits(call)' = Fits(call)
  BY <1>3
<1>7. /\ (call.ok <=> nth > 2 /\ call.to = SLAVE) /\ call.ok \in BOOLEAN
      /\ (call.to # SLAVE /\ call.op # "poll" => nth \in {1, 2, m, m + 1})
  BY <1>0, Kinds DEF Plain
<1>n. PICK n \in Nat : n = nth + 1 /\ n = nth' /\ n > 3 /\ nth > 2 /\ n \in 1 .. m + 1
  <2>1. nth > 2
    BY <1>0, <1>5
  <2>2. nth + 1 > 3 /\ nth + 1 \in 1 .. m + 1
    BY <1>0, <2>1
  <2>3. QED
    BY <1>0, <1>3, <2>1, <2>2
<1>8. call.ok = (n > 2 /\ call.to = SLAVE)
  <2>1. n > 2
    BY <1>n
  <2>2. QED
    BY <1>n, <1>7, <2>1
<1>9. Heads'
  <2>1. ~ Ended' /\ ~ Acked(0, 1) /\ ~ Acked(bit', edge')
    BY <1>1 DEF Ended, Acked
  <2>2. call.op = "write" => Reached' = Reached
    <3>1. call.op = "write" => ~ nth <= z /\ ~ nth < m /\ ~ n <= z /\ ~ n < m
      <4>1. nth = m => ~ nth <= z /\ ~ nth < m /\ ~ n <= z /\ ~ n < m
        BY <1>0, <1>n
      <4>2. QED
        BY <1>5, <4>1
    <3>2. QED
      BY <1>0, <1>3, <1>6, <1>n, <3>1 DEF Reached
  <2>3. call.op = "write" => Stored(call, Reached)' = Stored(call, Reached)
    BY <1>1, <1>3, <2>2 DEF Stored
  <2>4. slave'.mem = slave.mem /\ slave'.ptr = slave.ptr /\ expected' = expected /\ received' = received /\ call' = call
    BY <1>1, <1>3
  <2>5. Follows => Follows'
    <3>1. SUFFICES ASSUME Follows PROVE Follows'
      OBVIOUS
    <3>2. ~ n \in 2 .. z /\ ~ (call.op = "write" /\ n > z /\ n < m)
      <4>1. CASE nth = m
        BY <1>0, <1>n, <4>1
      <4>2. CASE call.op = "read" /\ nth = z + 1
        BY <1>n, <4>2
      <4>3. QED
        BY <1>5, <4>1, <4>2
    <3>3. CASE nth = m
      <4>1. call.op = "read" => /\ ~ n <= k + 1 /\ n > m /\ (nth <= k + 1 <=> FALSE) /\ ~ nth > m /\ nth - k - 2 = L
        BY <1>0, <1>n, <3>3
      <4>2. call.op = "read" => Len(received) = L
        BY <1>0, <3>1, <4>1 DEF Follows
      <4>3. call.op = "read" => \A j \in 1 .. Len(received) : received[j] = expected[Nth(call.at, j)]
        BY <3>1 DEF Follows
      <4>4. QED
        BY <1>0, <1>n, <1>6, <2>4, <3>2, <4>1, <4>2, <4>3 DEF Follows
    <3>4. CASE call.op = "read" /\ nth = z + 1 /\ k = z + 2
      <4>1. nth <= k + 1 /\ n <= k + 1 /\ nth > z /\ n > z
        BY <1>n, <3>4
      <4>2. Len(received) = 0 /\ slave.ptr = Nth(call.at, 1)
        BY <1>0, <3>1, <3>4, <4>1 DEF Follows
      <4>3. \A j \in 1 .. Len(received) : received[j] = expected[Nth(call.at, j)]
        BY <3>1, <3>4 DEF Follows
      <4>4. QED
        BY <1>0, <1>n, <1>6, <2>4, <3>2, <3>4, <4>1, <4>2, <4>3 DEF Follows
    <3>5. QED
      BY <1>5, <3>3, <3>4
  <2>6. QED
    BY <1>6, <2>3, <2>4, <2>5 DEF Heads, Plain
<1>10. Plain'
  <2>1. CASE nth = m
    <3>1. n = m + 1
      BY <1>n, <2>1
    <3>2. ~ IsStart(call, n) /\ ~ IsStop(call, n) /\ ~ IsTransmit(call, n) /\ ~ IsReceive(call, n)
      <4>1. n # 1 /\ n # m /\ ~ n \in 2 .. z /\ ~ n < m
        BY <1>0, <3>1
      <4>2. call.op = "read" => n # k /\ n # z + 1 /\ n # k + 1
        BY <1>0, <3>1
      <4>3. QED
        BY <1>0, <4>1, <4>2 DEF IsStart, IsStop, IsTransmit, IsReceive
    <3>3. ~ Hanging(call, n) => ~ Hanging(call, nth)
      BY <1>0, <2>1, <3>1 DEF Hanging
    <3>4. /\ nth' = n /\ call' = call /\ slave' = slave /\ oe' = 0 /\ scl' = 1 /\ sda' = 1 /\ n = Size(call) + 1
          /\ n \in 1 .. Size(call) + 1
      BY <1>0, <1>1, <1>3, <1>4, <1>n, <3>1
    <3>5. QED
      BY <1>4, <1>6, <1>8, <1>9, <3>2, <3>3, <3>4 DEF Plain
  <2>2. CASE call.op = "read" /\ nth = z + 1 /\ k = z + 2
    <3>1. n = k /\ n \in 1 .. m /\ n # m + 1 /\ n # 1
      BY <1>0, <1>n, <2>2
    <3>2. IsStart(call, n)
      BY <1>0, <2>2, <3>1 DEF IsStart
    <3>3. ~ IsStop(call, n) /\ ~ IsTransmit(call, n) /\ ~ IsReceive(call, n)
      BY <1>0, <3>1, <3>2, KindOfPlace
    <3>5. call.to = SLAVE
      <4>1. nth # 1 /\ nth # 2 /\ nth # m /\ nth # m + 1
        BY <1>0, <2>2
      <4>2. QED
        BY <1>7, <2>2, <4>1
    <3>6. Quiet(slave)
      <4>1. nth # m /\ nth # m + 1
        BY <1>0, <2>2
      <4>2. QED
        BY <1>0, <1>4, <4>1 DEF Hanging
    <3>4. StartAt(slave, nth = 1 \/ Second(call) = LastPlace(call) + 2, edge)'
      BY <1>0, <1>1, <1>4, <1>6, <2>2, <3>6 DEF StartAt, Quiet
    <3>7. n \in 1 .. Size(call) + 1 /\ n # Size(call) + 1
      BY <1>0, <3>1
    <3>8. QED
      BY <1>1, <1>3, <1>n, <1>6, <1>8, <1>9, <3>2, <3>3, <3>4, <3>5, <3>7 DEF Plain
  <2>3. QED
    BY <1>5, <2>1, <2>2
<1>11. received' \in Seq(I2cByte) /\ nth' \in Nat
  BY <1>3, <1>n DEF I2cInv
<1>12. QED
  BY <1>1, <1>3, <1>10, <1>11, PlainAgain

(* After a byte is received it is the next of the bytes read.              *)
LEMMA AfterReceive ==
  ASSUME I2cInv, call \in PlainCalls, Plain, owed = 0, NextOperation, IsReceive(call, nth)
  PROVE  I2cInv'
<1>0. PICK z \in 3 .. 6, k \in Nat, L \in Nat, m \in Nat :
        /\ z = LastPlace(call) /\ m = Size(call) /\ z < m /\ m >= 4 /\ nth \in 1 .. m /\ nth \in Nat
        /\ call.op = "read" => k = Second(call) /\ k \in {z + 1, z + 2} /\ L = call.len /\ m = k + L + 2
        /\ call.op = "write" => L = Len(call.data) /\ m = z + L + 1
        /\ call.op = "poll" => z = 3 /\ m = 4
  BY Places
<1>1. /\ nth \in 1 .. Size(call) /\ BITS \in Nat \ {0} /\ 0 # BITS + 1 /\ ~ BITS < BITS
      /\ UNCHANGED <<oe, scl, sda, slave, expected, owed>> /\ bit' = 0 /\ edge' = 1 /\ data' = 0
      /\ edge > Len(Here) /\ bit = LastBit(Now)
  BY <1>0, GoesOn
<1>2. call.op = "read" /\ call.to = SLAVE /\ k \in {z + 1, z + 2} /\ m = k + L + 2 /\ k = Second(call) /\ L = call.len
  BY <1>0, WhichByte DEF I2cInv
<1>3. PICK i \in 1 .. L : nth = k + 1 + i /\ nth - k - 1 = i
  <2>1. nth > k + 1 /\ nth < m
    BY <1>0, <1>2 DEF IsReceive
  <2>2. nth - k - 1 \in 1 .. L /\ nth = k + 1 + (nth - k - 1)
    BY <1>0, <1>2, <2>1
  <2>3. QED
    BY <2>2
<1>4. PICK at : at = call.at /\ (Fits(call) => at \in Cells)
  BY <1>0, WhichByte DEF I2cInv
<1>x. PICK x \in I2cByte, last \in BOOLEAN : x = data /\ last = (i = L)
  BY DEF I2cInv
<1>5. PICK w : Now = Op("receive", w)
  BY <1>1, <1>0, KindOfPlace DEF Now
<1>6. Here = i2c_receive_byte(w, bit) /\ LastBit(Now) = BITS
  BY <1>5, LinesOf DEF Here
<1>7. call' = call /\ nth' = nth + 1 /\ received' = Append(received, data)
  <2>1. Now.do = "receive"
    BY <1>5 DEF Op
  <2>2. QED
    BY <2>1, GoesOn
<1>8. /\ bit = BITS /\ edge \in 1 .. 5 /\ scl = ReceiveLevel(bit, edge) /\ ReceiveAt(slave, x, last, bit, edge)
      /\ Fits(call) => x = expected[Nth(at, i)] /\ (~ last => slave.ptr = Nth(at, IF edge > 3 THEN i + 1 ELSE i))
  <2>1. Receives /\ bit = BITS /\ ~ (bit < BITS)
    BY <1>1, <1>6 DEF Plain
  <2>2. Reading = x
    BY <1>x, <2>1 DEF Reading
  <2>3. QED
    BY <1>2, <1>3, <1>4, <1>x, <2>1, <2>2 DEF Receives
<1>9. edge = 5 /\ scl = 0
  <2>2. PICK v : Here = i2c_transmit_bit(v)
    BY <1>1, <1>6, <1>8 DEF i2c_receive_byte
  <2>3. Len(Here) = 4
    BY <2>2 DEF i2c_transmit_bit
  <2>4. edge = 5
    BY <1>1, <1>8, <2>3
  <2>5. scl = 0
    BY <1>1, <1>8, <2>4 DEF ReceiveLevel
  <2>6. QED
    BY <2>4, <2>5
<1>11. /\ Second(call)' = k /\ Size(call)' = m /\ LastPlace(call)' = z /\ Fits(call)' = Fits(call)
  BY <1>0, <1>2, <1>7
<1>12. PICK n \in 1 .. m : n = nth' /\ n = k + 2 + i /\ n \in Nat /\ n # m + 1 /\ n > 3 /\ n > z /\ n > k + 1
                           /\ n - k - 2 = i /\ n - k - 1 = i + 1 /\ (n = m <=> last) /\ ~ n > m /\ nth > 2
  <2>1. nth + 1 = k + 2 + i /\ k > z
    BY <1>2, <1>3
  <2>2. k + 2 + i \in 1 .. m /\ k + 2 + i # m + 1 /\ k + 2 + i > 3 /\ k + 2 + i > z /\ k + 2 + i > k + 1 /\ ~ k + 2 + i > m
    BY <1>2, <1>3, <2>1
  <2>3. (k + 2 + i) - k - 2 = i /\ (k + 2 + i) - k - 1 = i + 1 /\ (k + 2 + i = m <=> i = L) /\ nth > 2
    BY <1>2, <1>3
  <2>4. PICK n \in 1 .. m : n = k + 2 + i /\ n \in Nat
    BY <2>2
  <2>5. n = nth'
    BY <1>7, <2>1, <2>4
  <2>6. n # m + 1 /\ n > 3 /\ n > z /\ n > k + 1 /\ ~ n > m /\ n - k - 2 = i /\ n - k - 1 = i + 1 /\ (n = m <=> last)
    BY <1>x, <2>2, <2>3, <2>4
  <2>7. QED
    BY <2>3, <2>4, <2>5, <2>6
<1>13. Heads'
  <2>1. Fits(call) => slave.mem = expected /\ Follows
    BY <1>2 DEF Plain, Heads
  <2>2. ASSUME Fits(call), Follows PROVE Follows'
    <3>1. /\ Len(received) = i - 1 /\ received \in Seq(I2cByte)
          /\ \A j \in 1 .. Len(received) : received[j] = expected[Nth(at, j)]
      <4>1. ~ nth <= k + 1 /\ ~ nth > m /\ nth - k - 2 = i - 1
        BY <1>0, <1>2, <1>3
      <4>2. Len(received) = nth - k - 2
        BY <1>0, <1>2, <2>2, <4>1 DEF Follows
      <4>3. QED
        BY <1>2, <1>4, <2>2, <4>1, <4>2 DEF Follows, I2cInv
    <3>2. /\ received' \in Seq(I2cByte) /\ Len(received') = i /\ received'[i] = x
          /\ \A j \in 1 .. i - 1 : received'[j] = received[j]
      <4>1. /\ received' = Append(received, x) /\ Len(received) + 1 = i
        BY <1>3, <1>7, <1>x, <3>1
      <4>2. QED
        BY <3>1, <4>1, AppendProperties
    <3>3. \A j \in 1 .. Len(received') : received'[j] = expected'[Nth(call'.at, j)]
      <4>1. TAKE j \in 1 .. Len(received')
      <4>2. CASE j = i
        BY <1>1, <1>4, <1>7, <1>8, <2>2, <3>2, <4>2
      <4>3. CASE j # i
        <5>1. j \in 1 .. i - 1 /\ j \in 1 .. Len(received)
          BY <1>3, <3>1, <3>2, <4>3
        <5>2. QED
          BY <1>1, <1>4, <1>7, <3>1, <3>2, <5>1
      <4>4. QED
        BY <4>2, <4>3
    <3>4. ~ n \in 2 .. z /\ ~ n <= k + 1 /\ call'.op = "read" /\ nth' = n /\ ~ n > m /\ Len(received') = n - k - 2
      <4>1. ~ n \in 2 .. z /\ ~ n <= k + 1
        BY <1>12
      <4>2. nth' = n /\ ~ n > m /\ Len(received') = n - k - 2
        BY <1>12, <3>2
      <4>3. QED
        BY <1>2, <1>7, <4>1, <4>2
    <3>5. QED
      BY <1>11, <3>3, <3>4 DEF Follows
  <2>3. QED
    BY <1>1, <1>2, <1>7, <1>11, <2>1, <2>2 DEF Heads
<1>14. received' \in Seq(I2cByte)
  BY <1>x, <1>7 DEF I2cInv
<1>15. nth' = n /\ call.ok = (n > 2 /\ call.to = SLAVE)
  <2>1. call.ok = (nth > 2 /\ call.to = SLAVE)
    BY DEF Plain
  <2>2. nth > 2 /\ n > 2
    BY <1>12
  <2>3. QED
    BY <1>12, <2>1, <2>2
<1>16. Plain'
  <2>1. CASE last
    <3>1. IsStop(call, n)
      BY <1>0, <1>12, <2>1 DEF IsStop
    <3>2. ~ IsStart(call, n) /\ ~ IsTransmit(call, n) /\ ~ IsReceive(call, n)
      BY <1>0, <1>12, <3>1, KindOfPlace
    <3>3. Quiet(slave)
      BY <1>1, <1>8, <1>9, <2>1 DEF ReceiveAt
    <3>4. StopAt(slave, edge)'
      BY <1>1, <1>9, <3>3 DEF StopAt, Quiet
    <3>5. ~ Hanging(call, n)
      <4>1. L # 0
        BY <1>3
      <4>2. QED
        BY <1>2, <4>1 DEF Hanging
    <3>6. n \in 1 .. Size(call) + 1 /\ n # Size(call) + 1
      BY <1>0, <1>12
    <3>7. QED
      BY <1>1, <1>2, <1>7, <1>13, <1>15, <3>1, <3>2, <3>4, <3>5, <3>6 DEF Plain
  <2>2. CASE ~ last
    <3>1. IsReceive(call, n)
      <4>1. n > k + 1 /\ n < m
        BY <1>12, <2>2
      <4>2. QED
        BY <1>0, <1>2, <4>1 DEF IsReceive
    <3>2. ~ IsStart(call, n) /\ ~ IsStop(call, n) /\ ~ IsTransmit(call, n)
      BY <1>0, <1>12, <3>1, KindOfPlace
    <3>3. Fits(call) => slave.ptr = Nth(at, i + 1) /\ slave.mem = expected
      BY <1>2, <1>8, <1>9, <2>2 DEF Plain, Heads
    <3>4. PICK y \in I2cByte : y = slave.mem[slave.ptr]
      BY DEF I2cInv, SlaveOK, SlaveType, Memories
    <3>5. Gives(slave, 0, OutAt(y, 0))
      <4>1. Gives(slave, 0, OutAt(slave.mem[slave.ptr], 0))
        BY <1>1, <1>8, <1>9, <2>2 DEF ReceiveAt
      <4>2. QED
        BY <3>4, <4>1, Zenon
    <3>6. \A e : ReceiveAt(slave, y, e, 0, 1)
      BY <1>1, <3>5 DEF ReceiveAt
    <3>7. Receives'
      <4>1. 0 \in 0 .. BITS /\ 0 < BITS /\ ReceiveLevel(0, 1) = 0 /\ TopBits(y, 0) = 0
        BY <1>1, <3>4, BitAfterBit DEF ReceiveLevel
      <4>2. /\ bit' = 0 /\ edge' = 1 /\ data' = 0 /\ scl' = 0 /\ nth' = n /\ call' = call
            /\ slave' = slave /\ expected' = expected
        BY <1>1, <1>7, <1>9, <1>15
      <4>3. nth' - Second(call') - 1 = i + 1
        BY <1>11, <1>12, <1>15
      <4>4. Reading' = y
        BY <3>4, <4>1, <4>2 DEF Reading
      <4>5. Fits(call') => y = expected'[Nth(call'.at, i + 1)] /\ slave'.ptr = Nth(call'.at, i + 1)
        BY <1>4, <3>3, <3>4, <4>2
      <4>6. QED
        BY <3>6, <4>1, <4>2, <4>3, <4>4, <4>5 DEF Receives
    <3>8. n \in 1 .. Size(call) + 1 /\ n # Size(call) + 1
      BY <1>0, <1>12
    <3>9. QED
      BY <1>1, <1>2, <1>7, <1>13, <1>15, <3>1, <3>2, <3>7, <3>8 DEF Plain
  <2>3. QED
    BY <2>1, <2>2
<1>17. nth' \in Nat
  BY <1>12, <1>15
<1>18. QED
  BY <1>1, <1>7, <1>14, <1>16, <1>17, PlainAgain

(* After a byte is transmitted its acknowledge decides whether the call
   can succeed.                                                            *)
LEMMA AfterTransmit ==
  ASSUME I2cInv, call \in PlainCalls, Plain, owed = 0, NextOperation, IsTransmit(call, nth)
  PROVE  I2cInv'
<1>0. PICK z \in 3 .. 6, k \in Nat, L \in Nat, m \in Nat :
        /\ z = LastPlace(call) /\ m = Size(call) /\ z < m /\ m >= 4 /\ nth \in 1 .. m /\ nth \in Nat
        /\ call.op = "read" => k = Second(call) /\ k \in {z + 1, z + 2} /\ L = call.len /\ m = k + L + 2
        /\ call.op = "write" => L = Len(call.data) /\ m = z + L + 1
        /\ call.op = "poll" => z = 3 /\ m = 4
  BY Places
<1>1. /\ nth \in 1 .. Size(call) /\ bit \in Nat /\ call.op \in {"write", "read", "poll"}
      /\ BITS \in Nat \ {0} /\ 0 # BITS + 1 /\ BITS # BITS + 1 /\ ~ (BITS + 1 <= BITS)
      /\ UNCHANGED <<oe, scl, sda, slave, expected, owed>> /\ bit' = 0 /\ edge' = 1 /\ data' = 0
      /\ edge > Len(Here) /\ bit = LastBit(Now)
  BY <1>0, GoesOn
<1>2. PICK st \in Ears, y \in I2cByte, to \in Sevens :
        /\ st = TakenFor(call, nth) /\ y = ByteOf(call, nth) /\ to = call.to
        /\ (st = "address" => y % 2 = IF nth = 2 THEN 0 ELSE 1)
  BY <1>0, <1>1, Kinds, ByteOfPlace
<1>3. Now = Op("transmit", y) /\ nth < m /\ nth > 1
  BY <1>0, <1>1, <1>2, KindOfPlace DEF Now
<1>4. Here = i2c_receive_bit /\ bit = BITS + 1
  <2>1. Here = i2c_transmit_byte(y, bit) /\ LastBit(Now) = BITS + 1
    BY <1>3, LinesOf DEF Here
  <2>2. QED
    BY <1>1, <2>1 DEF i2c_transmit_byte
<1>5. /\ edge = 5 /\ scl = 0 /\ data = IF to # SLAVE THEN 1 ELSE 0
      /\ TransmitAt(slave, to, st, y, BITS + 1, 5)
  <2>1. Transmits
    BY DEF Plain
  <2>2. Len(Here) = 4
    BY <1>4 DEF i2c_receive_bit
  <2>3. edge = 5
    BY <1>1, <1>4, <2>1, <2>2 DEF Transmits
  <2>4. QED
    BY <1>1, <1>2, <1>4, <2>1, <2>3 DEF Transmits, Level
<1>6. IF to # SLAVE THEN Quiet(slave) ELSE After(slave, st, y)
  <2>1. Acked(BITS + 1, 5)
    BY DEF Acked
  <2>2. QED
    BY <1>5, <2>1 DEF TransmitAt, Deaf
<1>7. call' = [call EXCEPT !.ok = (to = SLAVE)] /\ received' = received
      /\ nth' = IF to # SLAVE /\ call.op # "poll" THEN Size(call) ELSE nth + 1
  <2>1. Now.do = "transmit"
    BY <1>3 DEF Op
  <2>2. PICK v : v = (IF call.op = "poll" THEN call.ok \/ data = 0 ELSE data = 0)
    OBVIOUS
  <2>3. call' = [call EXCEPT !.ok = v] /\ received' = received
        /\ nth' = IF data # 0 /\ call.op # "poll" THEN Size(call) ELSE nth + 1
    BY <2>1, <2>2, GoesOn
  <2>4. v = (to = SLAVE)
    <3>1. call.ok = (nth > 2 /\ to = SLAVE) /\ call.ok \in BOOLEAN
      BY <1>2, Kinds DEF Plain
    <3>2. CASE to = SLAVE
      <4>1. data = 0
        BY <1>5, <3>2
      <4>2. v = TRUE
        BY <2>2, <4>1
      <4>3. QED
        BY <3>2, <4>2
    <3>3. CASE to # SLAVE
      <4>1. data # 0
        BY <1>5, <3>3
      <4>4. call.ok = FALSE
        BY <3>1, <3>3
      <4>2. v = FALSE
        BY <2>2, <4>1, <4>4
      <4>3. QED
        BY <3>3, <4>2
    <3>4. QED
      BY <3>2, <3>3
  <2>5. data # 0 <=> to # SLAVE
    BY <1>5
  <2>6. QED
    BY <2>3, <2>4, <2>5
<1>8. PICK d : d = call'
  OBVIOUS
<1>9. PICK v \in BOOLEAN : v = (to = SLAVE) /\ d = [call EXCEPT !.ok = v]
  BY <1>7, <1>8
<1>10. /\ d \in PlainCalls /\ d.op = call.op /\ d.to = to /\ d.ok = v /\ Size(d) = m /\ LastPlace(d) = z /\ (Fits(d) <=> Fits(call))
       /\ call.op = "write" => d.at = call.at /\ d.data = call.data /\ \A j : Stored(d, j) = Stored(call, j)
       /\ call.op = "read" => d.at = call.at /\ d.len = L /\ Second(d) = k
       /\ \A n : /\ IsStart(d, n) <=> IsStart(call, n)
                 /\ IsStop(d, n) <=> IsStop(call, n)
                 /\ IsTransmit(d, n) <=> IsTransmit(call, n)
                 /\ IsReceive(d, n) <=> IsReceive(call, n)
                 /\ Hanging(d, n) <=> Hanging(call, n)
                 /\ TakenFor(d, n) = TakenFor(call, n) /\ ByteOf(d, n) = ByteOf(call, n)
  <2>1. SameCall(d, call, v)
    BY <1>9, OkChanged, Zenon
  <2>2. QED
    BY <1>0, <1>2, <2>1 DEF SameCall
<1>11. PICK n \in 1 .. m :
         /\ n \in Nat /\ n = nth' /\ n > 2 /\ n # m + 1 /\ n \in 1 .. Size(call)
         /\ (to # SLAVE /\ call.op # "poll" => n = m)
         /\ (to = SLAVE \/ call.op = "poll" => n = nth + 1)
  <2>1. CASE to # SLAVE /\ call.op # "poll"
    <3>1. m \in 1 .. m /\ m > 2 /\ m # m + 1
      BY <1>0
    <3>2. QED
      BY <1>0, <1>7, <2>1, <3>1
  <2>2. CASE to = SLAVE \/ call.op = "poll"
    <3>1. nth + 1 \in 1 .. m /\ nth + 1 > 2 /\ nth + 1 # m + 1
      BY <1>0, <1>3
    <3>2. nth + 1 = nth'
      BY <1>7, <2>2
    <3>3. QED
      BY <1>0, <2>2, <3>1, <3>2
  <2>3. QED
    BY <2>1, <2>2
<1>12. \/ nth = 2 /\ st = "address"
       \/ nth > 2 /\ nth <= z /\ st = "data"
       \/ nth > z /\ call.op = "write" /\ st = "data"
       \/ call.op = "read" /\ nth = k + 1 /\ nth > z /\ st = "address"
  <2>1. nth \in 2 .. z \/ (call.op = "write" /\ nth > z) \/ (call.op = "read" /\ nth = k + 1)
    BY <1>0 DEF IsTransmit
  <2>2. CASE nth \in 2 .. z
    <3>1. nth = 2 \/ (nth > 2 /\ nth <= z /\ nth # 2 /\ ~ nth > z)
      BY <2>2
    <3>2. QED
      BY <1>0, <1>2, <3>1 DEF TakenFor
  <2>3. CASE call.op = "write" /\ nth > z
    <3>1. nth # 2
      BY <2>3
    <3>2. QED
      BY <1>2, <2>3, <3>1 DEF TakenFor
  <2>4. CASE call.op = "read" /\ nth = k + 1
    <3>1. nth > z
      BY <1>0, <2>4
    <3>2. QED
      BY <1>0, <1>2, <2>4, <3>1 DEF TakenFor
  <2>5. QED
    BY <2>1, <2>2, <2>3, <2>4
<1>13. /\ to = SLAVE /\ nth = 2 => Ready(slave, "data")
       /\ to = SLAVE /\ st # "address" => Ready(slave, "data")
       /\ to = SLAVE /\ nth # 2 /\ st = "address" => Gives(slave, 0, OutAt(slave.mem[slave.ptr], 0))
  BY <1>2, <1>6, <1>12 DEF After
<1>p. to = SLAVE /\ (nth <= z \/ call.op = "write") => Ready(slave, "data")
  <2>1. CASE nth = 2
    BY <1>13, <2>1
  <2>2. CASE st # "address"
    BY <1>13, <2>2
  <2>3. CASE call.op = "read" /\ nth > z
    BY <1>0, <2>3
  <2>4. QED
    BY <1>12, <2>1, <2>2, <2>3
<1>14. IsStart(call, n) => call.op = "read" /\ k = z + 1 /\ n = k /\ Ready(slave, "data") /\ to = SLAVE
  <2>1. SUFFICES ASSUME IsStart(call, n)
                 PROVE  call.op = "read" /\ k = z + 1 /\ n = k /\ Ready(slave, "data") /\ to = SLAVE
    OBVIOUS
  <2>2. call.op = "read" /\ n = k /\ n # m
    <3>1. n # 1
      BY <1>11
    <3>2. call.op = "read" /\ n = k
      BY <1>0, <2>1, <3>1 DEF IsStart
    <3>3. QED
      BY <1>0, <3>2
  <2>3. to = SLAVE /\ n = nth + 1
    BY <1>11, <2>2
  <2>4. nth <= z /\ k = z + 1
    <3>1. nth = k - 1 /\ k \in {z + 1, z + 2}
      BY <1>0, <2>2, <2>3
    <3>2. ~ (nth > z)
      BY <1>12, <2>2, <3>1
    <3>3. QED
      BY <1>0, <3>1, <3>2
  <2>5. QED
    BY <1>p, <2>2, <2>3, <2>4
<1>15. IsStop(call, n) /\ ~ Hanging(call, n) => Quiet(slave) \/ Ready(slave, "data")
  <2>1. SUFFICES ASSUME IsStop(call, n), ~ Hanging(call, n), to = SLAVE PROVE Ready(slave, "data")
    BY <1>6
  <2>2. n = nth + 1 /\ (n = m \/ (call.op = "read" /\ n = z + 1 /\ k = z + 2))
    BY <1>0, <1>11, <2>1 DEF IsStop
  <2>3. CASE call.op = "read"
    <3>1. CASE n = m
      <4>1. L # 0
        BY <1>0, <1>2, <2>1, <2>3, <3>1 DEF Hanging
      <4>2. nth = k + L + 1
        BY <1>0, <2>2, <2>3, <3>1
      <4>3. nth > z /\ nth # k + 1 /\ nth # 2 /\ ~ nth <= z
        BY <1>0, <2>3, <4>1, <4>2
      <4>4. QED
        BY <1>12, <2>3, <4>3
    <3>2. CASE n = z + 1
      <4>1. nth <= z
        BY <1>0, <2>2, <3>2
      <4>2. QED
        BY <1>p, <2>1, <4>1
    <3>3. QED
      BY <2>2, <3>1, <3>2
  <2>4. CASE call.op = "write"
    BY <1>p, <2>1, <2>4
  <2>5. CASE call.op = "poll"
    <3>1. nth <= z
      BY <1>0, <2>2, <2>5
    <3>2. QED
      BY <1>p, <2>1, <3>1
  <2>6. QED
    BY <1>1, <2>3, <2>4, <2>5
<1>16. IsTransmit(call, n) => TransmitAt(slave, to, TakenFor(call, n), ByteOf(call, n), 0, 1)
  <2>1. SUFFICES ASSUME IsTransmit(call, n)
                 PROVE TransmitAt(slave, to, TakenFor(call, n), ByteOf(call, n), 0, 1)
    OBVIOUS
  <2>2. ByteOf(call, n) \in I2cByte
    BY <1>11, <2>1, ByteOfPlace
  <2>3. n < m /\ (to # SLAVE => call.op = "poll") /\ n = nth + 1
    BY <1>0, <1>1, <1>11, <2>1, KindOfPlace
  <2>4. TakenFor(call, n) = "data" /\ (to = SLAVE => Ready(slave, "data"))
    <3>1. n \in 2 .. z \/ (call.op = "write" /\ n > z) \/ (call.op = "read" /\ n = k + 1)
      BY <1>0, <2>1 DEF IsTransmit
    <3>2. n # 2
      BY <1>11
    <3>3. CASE n \in 2 .. z
      <4>1. ~ n > z /\ nth <= z
        BY <1>0, <2>3, <3>3
      <4>2. QED
        BY <1>0, <1>p, <3>2, <4>1 DEF TakenFor
    <3>4. CASE call.op = "write" /\ n > z
      BY <1>p, <3>2, <3>4 DEF TakenFor
    <3>5. CASE call.op = "read" /\ n = k + 1
      <4>1. nth = k /\ nth > z /\ nth # k + 1
        BY <1>0, <2>3, <3>5
      <4>2. FALSE
        <5>1. nth # 2 /\ ~ nth <= z
          BY <4>1
        <5>2. QED
          BY <1>12, <3>5, <4>1, <5>1
      <4>3. QED
        BY <4>2
    <3>6. QED
      BY <3>1, <3>3, <3>4, <3>5
  <2>5. QED
    BY <1>6, <2>2, <2>4, ByteBegins
<1>17. IsReceive(call, n) => /\ call.op = "read" /\ to = SLAVE /\ n = k + 2 /\ nth = k + 1 /\ nth > z /\ L # 0
                             /\ Gives(slave, 0, OutAt(slave.mem[slave.ptr], 0))
  <2>1. SUFFICES ASSUME IsReceive(call, n)
                 PROVE  /\ call.op = "read" /\ to = SLAVE /\ n = k + 2 /\ nth = k + 1 /\ nth > z /\ L # 0
                        /\ Gives(slave, 0, OutAt(slave.mem[slave.ptr], 0))
    OBVIOUS
  <2>2. call.op = "read" /\ n > k + 1 /\ n < m
    BY <1>0, <2>1 DEF IsReceive
  <2>3. to = SLAVE /\ n = nth + 1
    BY <1>11, <2>2
  <2>4. nth > z /\ nth # 2
    BY <1>0, <2>2, <2>3
  <2>5. nth = k + 1 /\ st = "address"
    <3>1. ~ nth <= z
      BY <2>4, <1>0
    <3>2. QED
      BY <1>12, <2>2, <2>4, <3>1
  <2>6. L # 0
    BY <1>0, <2>2
  <2>7. QED
    BY <1>13, <2>2, <2>3, <2>4, <2>5, <2>6
<1>18. /\ call' = d /\ nth' = n /\ bit' = 0 /\ edge' = 1 /\ data' = 0 /\ slave' = slave /\ scl' = 0 /\ oe' = oe
       /\ expected' = expected /\ received' = received
       /\ Size(call)' = m /\ LastPlace(call)' = z /\ (call.op = "read" => Second(call)' = k)
  BY <1>1, <1>5, <1>7, <1>8, <1>10, <1>11
<1>19. ~ Ended' /\ ~ Acked(bit', edge') /\ Ended /\ Acked(bit, edge)
  BY <1>1, <1>4, <1>5, <1>18 DEF Ended, Acked
<1>20. Heads'
  <2>1. to # SLAVE \/ Fits(call) =>
          slave.mem = IF call.op = "write" /\ to = SLAVE THEN Stored(call, Reached) ELSE expected
    BY <1>2 DEF Plain, Heads
  <2>2. CASE to # SLAVE
    BY <1>10, <1>18, <2>1, <2>2 DEF Heads
  <2>3. CASE to = SLAVE /\ ~ Fits(call)
    BY <1>10, <1>18, <2>3 DEF Heads
  <2>4. CASE to = SLAVE /\ Fits(call)
    <3>1. Follows /\ n = nth + 1 /\ (call.op # "poll" => z = ADDR_SIZE + 2 /\ call.at \in Cells) /\ ADDR_SIZE \in 1 .. 4
      BY <1>0, <1>2, <1>11, <2>4, CellNumbers DEF Plain, Heads, Fits, LastPlace
    <3>2. call.op = "write" => Reached' = Reached
      <4>1. SUFFICES ASSUME call.op = "write" PROVE Reached' = Reached
        OBVIOUS
      <4>2. d.data = call.data /\ L = Len(call.data) /\ m = z + L + 1
        BY <1>0, <1>10, <4>1
      <4>3. Reached' = IF n <= z THEN 0 ELSE IF n < m THEN n - z - 1 ELSE L
        BY <1>18, <1>19, <4>2 DEF Reached
      <4>4. Reached = IF nth <= z THEN 0 ELSE nth - z
        BY <1>0, <1>3, <1>19 DEF Reached
      <4>5. m = z + L + 1 /\ n = nth + 1 /\ nth < m /\ nth \in Nat
        BY <1>0, <1>3, <3>1, <4>2
      <4>6. (IF n <= z THEN 0 ELSE IF n < m THEN n - z - 1 ELSE L) = IF nth <= z THEN 0 ELSE nth - z
        BY <4>5
      <4>7. QED
        BY <4>3, <4>4, <4>6
    <3>3. call.op = "write" => Stored(call, Reached)' = Stored(call, Reached)
      <4>1. call.op = "write" => Stored(call, Reached)' = Stored(d, Reached)
        BY <1>18, <3>2 DEF Stored
      <4>2. QED
        BY <1>10, <4>1
    <3>4. nth \in 2 .. z =>
            slave.left = ADDR_SIZE + 2 - nth /\ (call.op # "poll" => slave.ptr = Shifted(call.at, slave.left))
      <4>1. nth \in 2 .. z =>
              slave.left = ADDR_SIZE + 2 - nth + 0 /\ (call.op # "poll" => slave.ptr = Shifted(call.at, slave.left))
        BY <1>0, <1>19, <3>1 DEF Follows
      <4>2. QED
        BY <1>0, <3>1, <4>1
    <3>5. n \in 2 .. z =>
            slave.left = ADDR_SIZE + 2 - n + 1 /\ (call.op # "poll" => slave.ptr = Shifted(call.at, slave.left))
      <4>1. n \in 2 .. z => nth \in 2 .. z /\ ADDR_SIZE + 2 - n + 1 = ADDR_SIZE + 2 - nth
        BY <1>0, <1>3, <3>1
      <4>2. QED
        BY <3>4, <4>1
    <3>6. call.op # "poll" /\ nth = z => slave.left = 0 /\ slave.ptr = Nth(call.at, 1)
      <4>1. SUFFICES ASSUME call.op # "poll", nth = z PROVE slave.left = 0 /\ slave.ptr = Nth(call.at, 1)
        OBVIOUS
      <4>2. nth \in 2 .. z /\ ADDR_SIZE + 2 - nth = 0
        BY <3>1, <4>1
      <4>3. Shifted(call.at, 0) = call.at /\ Nth(call.at, 1) = call.at
        BY <3>1, <4>1, CellIsReached, GoesRound
      <4>4. QED
        BY <3>4, <4>1, <4>2, <4>3
    <3>7. call.op = "write" /\ n > z /\ n < m => slave.left = 0 /\ slave.ptr = Nth(call.at, n - z)
      <4>1. SUFFICES ASSUME call.op = "write", n > z, n < m PROVE slave.left = 0 /\ slave.ptr = Nth(call.at, n - z)
        OBVIOUS
      <4>2. CASE nth = z
        <5>1. n - z = 1
          BY <3>1, <4>2
        <5>2. QED
          BY <3>6, <4>1, <4>2, <5>1
      <4>3. CASE nth > z
        <5>1. slave.left = 0 /\ slave.ptr = Nth(call.at, nth - z + 1)
          BY <1>0, <1>3, <1>19, <3>1, <4>1, <4>3 DEF Follows
        <5>2. nth - z + 1 = n - z
          BY <1>0, <3>1
        <5>3. QED
          BY <5>1, <5>2
      <4>4. QED
        BY <1>0, <3>1, <4>1, <4>2, <4>3
    <3>8. call.op = "read" =>
            /\ n > z /\ n <= k + 1 => slave.ptr = Nth(call.at, 1)
            /\ Len(received) = 0 /\ (n <= k + 1 \/ (~ n > m /\ n - k - 2 = 0))
      <4>1. SUFFICES ASSUME call.op = "read"
                     PROVE  /\ n > z /\ n <= k + 1 => slave.ptr = Nth(call.at, 1)
                            /\ Len(received) = 0 /\ (n <= k + 1 \/ (~ n > m /\ n - k - 2 = 0))
        OBVIOUS
      <4>2. k \in {z + 1, z + 2} /\ m = k + L + 2 /\ k = Second(call)
        BY <1>0, <4>1
      <4>3. nth <= z \/ nth = k + 1
        BY <1>0, <1>12, <4>1
      <4>a. n = nth + 1 /\ nth \in Nat /\ k > z /\ m = k + L + 2
        <5>1. n = nth + 1
          BY <3>1
        <5>2. nth \in Nat
          BY <1>0
        <5>3. k > z
          BY <4>2
        <5>4. QED
          BY <4>2, <5>1, <5>2, <5>3
      <4>4. nth <= k + 1
        BY <4>3, <4>a
      <4>5. Len(received) = 0
        BY <3>1, <4>1, <4>2, <4>4 DEF Follows
      <4>6. n > z /\ n <= k + 1 => nth = z
        BY <4>3, <4>a
      <4>7. n <= k + 1 \/ (~ n > m /\ n - k - 2 = 0)
        BY <4>4, <4>a
      <4>8. QED
        BY <3>6, <4>1, <4>5, <4>6, <4>7
    <3>9. call.op = "read" => \A j \in 1 .. Len(received) : received[j] = expected[Nth(call.at, j)]
      BY <3>1 DEF Follows
    <3>10. d.op = call.op /\ (call.op # "poll" => d.at = call.at) /\ (call.op = "read" => d.len = L)
      BY <1>1, <1>10
    <3>11. Follows'
      BY <1>18, <1>19, <3>5, <3>7, <3>8, <3>9, <3>10 DEF Follows
    <3>12. QED
      BY <1>10, <1>18, <2>1, <2>4, <3>3, <3>11 DEF Heads
  <2>5. QED
    BY <2>2, <2>3, <2>4
<1>21. IsTransmit(call, n) => Transmits'
  <2>1. SUFFICES ASSUME IsTransmit(call, n) PROVE Transmits'
    OBVIOUS
  <2>2. TakenFor(d, n) = TakenFor(call, n) /\ ByteOf(d, n) = ByteOf(call, n) /\ d.to = to
    BY <1>10
  <2>3. TransmitAt(slave, d.to, TakenFor(d, n), ByteOf(d, n), 0, 1)
    BY <1>16, <2>1, <2>2, Zenon
  <2>4. TransmitAt(slave', call'.to, TakenFor(call', nth'), ByteOf(call', nth'), bit', edge')
    BY <1>18, <2>3, Zenon
  <2>5. Level(0, 1) = 0
    BY <1>1 DEF Level
  <2>6. QED
    BY <1>1, <1>18, <2>4, <2>5 DEF Transmits
<1>22. IsReceive(call, n) => Receives'
  <2>1. SUFFICES ASSUME IsReceive(call, n) PROVE Receives'
    OBVIOUS
  <2>2. /\ call.op = "read" /\ to = SLAVE /\ n = k + 2 /\ nth = k + 1 /\ nth > z /\ L # 0
        /\ Gives(slave, 0, OutAt(slave.mem[slave.ptr], 0))
    BY <1>17, <2>1
  <2>3. Fits(call) => slave.ptr = Nth(call.at, 1) /\ slave.mem = expected
    <3>1. nth <= k + 1
      BY <1>0, <2>2
    <3>2. QED
      BY <1>0, <1>2, <2>2, <3>1 DEF Plain, Heads, Follows
  <2>4. d.at = call.at /\ Second(d) = k /\ d.len = L
    BY <1>10, <2>2
  <2>5. PICK x \in I2cByte : x = slave.mem[slave.ptr]
    BY DEF I2cInv, SlaveOK, SlaveType, Memories
  <2>6. Gives(slave, 0, OutAt(x, 0))
    BY <2>2, <2>5, Zenon
  <2>7. \A last : ReceiveAt(slave, x, last, 0, 1)
    BY <1>1, <2>6 DEF ReceiveAt
  <2>8. 0 \in 0 .. BITS /\ 0 < BITS /\ ReceiveLevel(0, 1) = 0 /\ TopBits(x, 0) = 0
    BY <1>1, <2>5, BitAfterBit DEF ReceiveLevel
  <2>9. nth' - Second(call') - 1 = 1
    <3>1. n - k - 1 = 1
      BY <1>0, <2>2
    <3>2. QED
      BY <1>18, <2>4, <3>1
  <2>10. Reading' = x
    BY <1>18, <2>5, <2>8 DEF Reading
  <2>11. Fits(call') => x = expected'[Nth(call'.at, 1)] /\ slave'.ptr = Nth(call'.at, 1)
    BY <1>10, <1>18, <2>3, <2>4, <2>5
  <2>12. QED
    BY <1>18, <2>7, <2>8, <2>9, <2>10, <2>11 DEF Receives
<1>23. Plain'
  <2>1. IsStart(call, n) => StartAt(slave, nth = 1 \/ Second(call) = LastPlace(call) + 2, edge)'
    <3>1. SUFFICES ASSUME IsStart(call, n) PROVE StartAt(slave, nth = 1 \/ Second(call) = LastPlace(call) + 2, edge)'
      OBVIOUS
    <3>2. Ready(slave, "data") /\ call.op = "read" /\ k = z + 1
      BY <1>14, <3>1
    <3>3. n # 1 /\ Second(call)' # LastPlace(call)' + 2
      BY <1>11, <1>18, <3>2
    <3>4. QED
      BY <1>18, <3>2, <3>3 DEF StartAt, Ready
  <2>2. IsStop(call, n) => (~ Hanging(call, n) => StopAt(slave, edge)') /\ (Hanging(call, n) => BlindStop')
    BY <1>15, <1>18 DEF StopAt, Quiet, Ready, BlindStop
  <2>3. d.ok = (n > 2 /\ to = SLAVE) /\ (to # SLAVE /\ call.op # "poll" => n = m)
    BY <1>9, <1>10, <1>11
  <2>4. /\ nth' \in 1 .. Size(call') + 1 /\ call'.ok = (nth' > 2 /\ call'.to = SLAVE) /\ nth' # Size(call') + 1
        /\ (call'.to # SLAVE /\ call'.op # "poll" => nth' \in {1, 2, Size(call'), Size(call') + 1})
    BY <1>1, <1>10, <1>11, <1>18, <2>3
  <2>5. /\ IsStart(call', nth') <=> IsStart(call, n)
        /\ IsStop(call', nth') <=> IsStop(call, n)
        /\ IsTransmit(call', nth') <=> IsTransmit(call, n)
        /\ IsReceive(call', nth') <=> IsReceive(call, n)
        /\ Hanging(call', nth') <=> Hanging(call, n)
    BY <1>10, <1>18, Zenon
  <2>6. bit' = 0 /\ data' = 0 /\ edge' \in 1 .. 4 /\ edge' \in 1 .. 5 /\ edge' # 5
    BY <1>18
  <2>7. QED
    BY <1>20, <1>21, <1>22, <2>1, <2>2, <2>4, <2>5, <2>6 DEF Plain
<1>24. received' \in Seq(I2cByte) /\ nth' \in Nat /\ call' \in PlainCalls
  BY <1>10, <1>11, <1>18 DEF I2cInv
<1>25. QED
  BY <1>1, <1>23, <1>24, PlainAgain

-----------------------------------------------------------------------------
(* A reset: the slave that is left in a transfer is drained.               *)
LEMMA FallsSending ==
  ASSUME NEW s \in SlaveType, s.state = "send", s.n # BITS + 1
  PROVE  Falls(s).state = "send" /\ Falls(s).n = s.n
<1>1. PICK v : Falls(s) = [s EXCEPT !.out = v]
  BY DEF Falls
<1>2. QED
  BY <1>1 DEF SlaveType

(* With the first clock a slave that is stuck, or not, begins to be
   drained.                                                                *)
LEMMA DrainBegins ==
  ASSUME NEW s, SlaveOK(s, 1), Stuck(s)
  PROVE  Draining(Falls(s), 0)
<1>1. s \in SlaveType /\ BITS \in Nat \ {0} /\ s.n \in 0 .. BITS + 1
  BY ByteSizes DEF SlaveOK, SlaveType
<1>2. CASE Quiet(s)
  BY <1>2, StaysQuiet DEF Draining
<1>3. CASE s.out = 0 /\ s.state = "send"
  <2>1. s.n # BITS + 1
    BY <1>3 DEF SlaveOK
  <2>2. Falls(s).state = "send" /\ Falls(s).n = s.n
    BY <1>1, <1>3, <2>1, FallsSending
  <2>3. 0 <= s.n /\ s.n <= BITS
    BY <1>1, <2>1
  <2>4. QED
    BY <2>2, <2>3 DEF Draining
<1>4. CASE s.out = 0 /\ s.state \in Ears
  <2>1. s.n = BITS + 1 /\ s.n > BITS /\ s.state # "off"
    BY <1>1, <1>4 DEF SlaveOK, Ears
  <2>2. s.shift \in I2cByte
    BY <1>4, <2>1 DEF SlaveOK
  <2>3. PICK r : r = HasAcknowledged(s) /\ r = Falls(s)
    BY <2>1 DEF Falls
  <2>4. r.n = 0 /\ r.state \in {"send", "data"}
    BY <1>1, <2>1, <2>2, <2>3, HasAcknowledgedOK
  <2>5. QED
    BY <1>1, <2>3, <2>4 DEF Draining
<1>5. QED
  BY <1>1, <1>2, <1>3, <1>4 DEF Stuck, SlaveOK, SlaveType

(* SCL falls: no clock is lost.                                            *)
LEMMA DrainFalls ==
  ASSUME NEW s, SlaveOK(s, 1), NEW k \in 1 .. BITS, Draining(s, k)
  PROVE  Draining(Falls(s), k)
<1>1. s \in SlaveType /\ BITS \in Nat \ {0} /\ s.n \in 0 .. BITS + 1 /\ k # BITS + 1
  BY ByteSizes DEF SlaveOK, SlaveType
<1>2. CASE Quiet(s)
  BY <1>2, StaysQuiet DEF Draining
<1>3. CASE s.state = "send" /\ k <= s.n /\ s.n <= BITS
  <2>1. s.n # BITS + 1
    BY <1>1, <1>3
  <2>2. Falls(s).state = "send" /\ Falls(s).n = s.n
    BY <1>1, <1>3, <2>1, FallsSending
  <2>3. QED
    BY <1>3, <2>2 DEF Draining
<1>4. CASE s.state = "data" /\ s.n = k
  <2>1. CASE s.n = BITS
    <3>1. s.state \in Ears /\ s.state # "address" /\ s.state # "off" /\ s.state # "send"
      BY <1>4 DEF Ears
    <3>2. s.shift \in I2cByte
      <4>1. s.shift \in Nat /\ s.shift < 2 ^ BITS
        BY <1>1, <2>1, <3>1 DEF SlaveOK, SlaveType
      <4>2. QED
        BY <4>1, ByteSizes
    <3>3. PICK r : r = Acknowledges(s) /\ r = Falls(s)
      BY <1>1, <2>1, <3>1 DEF Falls
    <3>4. r.state = s.state /\ r.n = BITS
      BY <1>1, <2>1, <3>1, <3>2, <3>3, AcknowledgesOK
    <3>5. QED
      BY <1>4, <2>1, <3>3, <3>4 DEF Draining
  <2>2. CASE s.n # BITS
    <3>1. Falls(s) = s
      BY <1>1, <1>4, <2>2 DEF Falls
    <3>2. QED
      BY <3>1
  <2>3. QED
    BY <2>1, <2>2
<1>5. QED
  BY <1>2, <1>3, <1>4 DEF Draining

(* SCL rises: one clock more.                                              *)
LEMMA DrainRises ==
  ASSUME NEW s, SlaveOK(s, 0), NEW k \in 0 .. BITS, Draining(s, k)
  PROVE  Draining(Rises(s, s.out), k + 1)
<1>1. s \in SlaveType /\ BITS \in Nat \ {0} /\ s.n \in 0 .. BITS + 1 /\ k \in Nat
  BY ByteSizes DEF SlaveOK, SlaveType
<1>2. CASE Quiet(s)
  BY <1>2, StaysQuiet DEF Draining
<1>3. CASE s.state = "send" /\ k <= s.n /\ s.n <= BITS
  <2>1. CASE s.n = BITS
    <3>1. s.out = 1
      BY <1>3, <2>1 DEF SlaveOK
    <3>2. Rises(s, s.out) = Off(s)
      BY <1>1, <1>3, <2>1, <3>1 DEF Rises
    <3>3. QED
      BY <1>1, <3>2, TurnsOK DEF Draining, Quiet
  <2>2. CASE s.n < BITS
    <3>1. PICK w : Rises(s, s.out) = [s EXCEPT !.n = s.n + 1, !.shift = w]
      <4>1. Rises(s, s.out) = [s EXCEPT !.n = s.n + 1, !.shift = 0]
        BY <1>1, <1>3, <2>2 DEF Rises
      <4>2. QED
        BY <4>1, Zenon
    <3>2. PICK r : r = [s EXCEPT !.n = s.n + 1, !.shift = w]
      OBVIOUS
    <3>3. r.state = "send" /\ r.n = s.n + 1
      BY <1>1, <1>3, <3>2 DEF SlaveType
    <3>4. k + 1 <= s.n + 1 /\ s.n + 1 <= BITS
      BY <1>1, <1>3, <2>2
    <3>5. QED
      BY <3>1, <3>2, <3>3, <3>4 DEF Draining
  <2>3. QED
    BY <1>1, <1>3, <2>1, <2>2
<1>4. CASE s.state = "data" /\ s.n = k
  <2>1. PICK w : Rises(s, s.out) = [s EXCEPT !.n = s.n + 1, !.shift = w]
    <3>1. CASE s.n < BITS
      <4>1. Rises(s, s.out) = [s EXCEPT !.n = s.n + 1, !.shift = 2 * s.shift + s.out]
        BY <1>1, <1>4, <3>1 DEF Rises
      <4>2. QED
        BY <4>1, Zenon
    <3>2. CASE ~ (s.n < BITS)
      <4>1. Rises(s, s.out) = [s EXCEPT !.n = s.n + 1]
        BY <1>1, <1>4, <3>2 DEF Rises
      <4>2. [s EXCEPT !.n = s.n + 1] = [s EXCEPT !.n = s.n + 1, !.shift = s.shift]
        BY <1>1 DEF SlaveType
      <4>3. QED
        BY <4>1, <4>2, Zenon
    <3>3. QED
      BY <3>1, <3>2, Zenon
  <2>2. PICK r : r = [s EXCEPT !.n = s.n + 1, !.shift = w]
    OBVIOUS
  <2>3. r.state = s.state /\ r.n = k + 1
    BY <1>1, <1>4, <2>2 DEF SlaveType
  <2>4. QED
    BY <1>4, <2>1, <2>2, <2>3 DEF Draining
<1>5. QED
  BY <1>2, <1>3, <1>4 DEF Draining

(* After all the clocks the slave is quiet, or waits for data that will
   not come.                                                               *)
LEMMA DrainEnds ==
  ASSUME NEW s, SlaveOK(s, 1), Draining(s, BITS + 1)
  PROVE  Quiet(Falls(s)) \/ Ready(Falls(s), "data")
<1>1. s \in SlaveType /\ BITS \in Nat \ {0} /\ s.n \in 0 .. BITS + 1 /\ ~ (BITS + 1 <= BITS) /\ BITS + 1 > BITS
  BY ByteSizes DEF SlaveOK, SlaveType
<1>2. CASE Quiet(s)
  BY <1>2, StaysQuiet
<1>3. CASE s.state = "data" /\ s.n = BITS + 1
  <2>1. s.shift \in I2cByte /\ s.state # "off" /\ s.state # "send" /\ s.state # "address"
    BY <1>1, <1>3 DEF SlaveOK, Ears
  <2>2. PICK r : r = HasAcknowledged(s) /\ r = Falls(s)
    BY <1>3, <2>1 DEF Falls
  <2>3. r.state = "data" /\ r.n = 0 /\ r.shift = 0 /\ r.out = 1
    BY <1>1, <2>1, <2>2, HasAcknowledgedOK
  <2>4. QED
    BY <2>2, <2>3 DEF Ready
<1>4. QED
  BY <1>1, <1>2, <1>3 DEF Draining

(* The lines of a reset.                                                   *)
LEMMA ResetPlace ==
  ASSUME call \in ResetCalls, nth \in Nat, nth \in 1 .. 3
  PROVE  /\ nth = 1 => Here = ResetClock(bit) /\ LastBit(Now) = BITS + 2
         /\ nth = 2 => Here = i2c_stop /\ LastBit(Now) = 0
         /\ nth = 3 => Here = <<<<0, 1, 1>>>> /\ LastBit(Now) = 0
         /\ Now.do # "transmit" /\ Now.do # "receive"
<1>1. /\ nth = 1 => Now = Op("clocks", 0)
      /\ nth = 2 => Now = Op("stop", 0)
      /\ nth = 3 => Now = Op("release", 0)
  BY ResetIsMadeOf DEF Now
<1>2. Now.do # "transmit" /\ Now.do # "receive"
  <2>1. Now = Op("clocks", 0) \/ Now = Op("stop", 0) \/ Now = Op("release", 0)
    BY <1>1
  <2>2. QED
    BY <2>1 DEF Op
<1>3. QED
  BY <1>1, <1>2, LinesOf DEF Here

(* What a line of a reset leaves alone.                                    *)
LEMMA ResetKept ==
  ASSUME I2cInv, call \in ResetCalls, {oe', scl', sda'} \subseteq {0, 1}, SlaveOK(slave', scl'),
         UNCHANGED <<call, nth, bit, data, received, expected, owed>>, edge' \in Nat, Resets'
  PROVE  I2cInv'
BY DEF I2cInv

(* The clocks.                                                             *)
LEMMA ClockLine ==
  ASSUME I2cInv, call \in ResetCalls, Resets, i2c_oe_scl_sda, nth = 1
  PROVE  I2cInv'
<1>1. BITS \in Nat \ {0} /\ BITS # BITS + 1 /\ bit \in Nat /\ edge \in Nat /\ nth \in Nat /\ SlaveOK(slave, scl)
  BY ByteSizes DEF I2cInv
<1>2. Here = ResetClock(bit) /\ edge <= Len(Here)
  BY <1>1, ResetPlace DEF i2c_oe_scl_sda
<1>3. /\ bit \in 0 .. BITS + 2 /\ scl = ClockLevel(bit, edge)
      /\ edge \in 1 .. (IF bit = 0 \/ bit = BITS + 2 THEN 2 ELSE 3) /\ Clocks
  BY DEF Resets, Clocks
<1>4. SUFFICES /\ {oe', scl', sda'} \subseteq {0, 1} /\ SlaveOK(slave', scl')
               /\ UNCHANGED <<call, nth, bit, data, received, expected, owed>>
               /\ edge' = edge + 1 /\ edge + 1 \in 1 .. (IF bit = 0 \/ bit = BITS + 2 THEN 2 ELSE 3)
               /\ scl' = ClockLevel(bit, edge + 1)
               /\ owed < 2 =>
                    /\ bit = 0 => Stuck(slave') /\ sda' = 1
                    /\ bit > 0 /\ bit <= BITS + 1 => Draining(slave', IF edge + 1 = 3 THEN bit ELSE bit - 1)
                    /\ bit = BITS + 2 => Quiet(slave') \/ Ready(slave', "data")
  <2>1. /\ nth' = nth /\ owed' = owed /\ bit' = bit /\ edge' = edge + 1 /\ edge + 1 # 1
    BY <1>3, <1>4
  <2>2. Clocks'
    <3>1. owed' < 2 /\ bit' = 0 => Stuck(slave') /\ (oe' = 0 \/ sda' = 1)
      BY <1>4, <2>1
    <3>2. edge' # 1
      BY <2>1
    <3>3. owed' < 2 /\ bit' > 0 /\ bit' <= BITS + 1 => Draining(slave', IF edge' = 3 THEN bit' ELSE bit' - 1)
      BY <1>4, <2>1
    <3>4. owed' < 2 /\ bit' = BITS + 2 => Quiet(slave') \/ Ready(slave', "data")
      BY <1>4, <2>1
    <3>5. /\ bit' \in 0 .. BITS + 2 /\ scl' = ClockLevel(bit', edge')
          /\ edge' \in 1 .. (IF bit' = 0 \/ bit' = BITS + 2 THEN 2 ELSE 3)
      BY <1>3, <1>4, <2>1
    <3>6. QED
      BY <3>1, <3>2, <3>3, <3>4, <3>5 DEF Clocks
  <2>3. Resets'
    BY <2>1, <2>2 DEF Resets
  <2>4. QED
    BY <1>1, <1>4, <2>1, <2>3, ResetKept
<1>5. CASE bit = 0
  <2>1. Here = <<<<1, 1, 1>>>>
    BY <1>2, <1>5 DEF ResetClock
  <2>2. Len(Here) = 1
    BY <2>1
  <2>3. edge = 1
    BY <1>2, <1>3, <2>2
  <2>4. Here[edge] = <<1, 1, 1>> /\ scl = 1
    BY <1>3, <1>5, <2>1, <2>3 DEF ClockLevel
  <2>5. /\ oe' = 1 /\ scl' = 1 /\ sda' = 1 /\ edge' = edge + 1 /\ SlaveOK(slave', 1)
        /\ UNCHANGED <<call, nth, bit, data, received, expected, owed>>
    BY <2>4, LineMoves
  <2>6. owed < 2 => Stuck(slave')
    <3>1. SUFFICES ASSUME owed < 2 PROVE Stuck(slave')
      OBVIOUS
    <3>2. Stuck(slave) /\ (oe = 0 \/ sda = 1)
      BY <1>3, <1>5, <3>1 DEF Clocks
    <3>3. slave' = slave
      BY <2>4, <3>2, LetsGo
    <3>4. QED
      BY <3>2, <3>3
  <2>7. ClockLevel(bit, edge + 1) = 1
    BY <1>5, <2>3 DEF ClockLevel
  <2>8. QED
    BY <1>1, <1>5, <2>3, <2>5, <2>6, <2>7
<1>6. CASE bit > 0 /\ bit <= BITS + 1 /\ edge = 1
  <2>1. Here = <<<<1, 0, 1>>, <<1, 1, 1>>>>
    BY <1>2, <1>6, ByteSizes DEF ResetClock, ResetClocks
  <2>2. Here[edge] = <<1, 0, 1>> /\ scl = 1 /\ ClockLevel(bit, edge + 1) = 0
    BY <1>3, <1>6, <2>1 DEF ClockLevel
  <2>3. /\ oe' = 1 /\ scl' = 0 /\ sda' = 1 /\ edge' = edge + 1 /\ SlaveOK(slave', 0)
        /\ UNCHANGED <<call, nth, bit, data, received, expected, owed>> /\ slave' = Falls(slave)
    BY <2>2, LineMoves
  <2>4. owed < 2 => Draining(slave', bit - 1)
    <3>1. SUFFICES ASSUME owed < 2 PROVE Draining(slave', bit - 1)
      OBVIOUS
    <3>2. SlaveOK(slave, 1)
      BY <1>1, <2>2
    <3>3. CASE bit = 1
      <4>1. Stuck(slave)
        BY <1>3, <1>6, <3>1, <3>3 DEF Clocks
      <4>2. bit - 1 = 0
        BY <3>3
      <4>3. QED
        BY <2>3, <3>2, <4>1, <4>2, DrainBegins
    <3>4. CASE bit # 1
      <4>1. PICK k \in 1 .. BITS : k = bit - 1
        <5>1. bit - 1 \in 1 .. BITS
          BY <1>1, <1>6, <3>4
        <5>2. QED
          BY <5>1
      <4>2. Draining(slave, k)
        BY <1>1, <1>3, <1>6, <3>1, <3>4, <4>1 DEF Clocks
      <4>3. QED
        BY <2>3, <3>2, <4>1, <4>2, DrainFalls
    <3>5. QED
      BY <3>3, <3>4
  <2>5. bit # BITS + 2 /\ bit # 0
    BY <1>1, <1>6
  <2>6. QED
    BY <1>6, <2>2, <2>3, <2>4, <2>5
<1>7. CASE bit > 0 /\ bit <= BITS + 1 /\ edge = 2
  <2>1. Here = <<<<1, 0, 1>>, <<1, 1, 1>>>>
    BY <1>2, <1>7, ByteSizes DEF ResetClock, ResetClocks
  <2>2. Here[edge] = <<1, 1, 1>> /\ scl = 0 /\ ClockLevel(bit, edge + 1) = 1
    BY <1>3, <1>7, <2>1 DEF ClockLevel
  <2>3. /\ oe' = 1 /\ scl' = 1 /\ sda' = 1 /\ edge' = edge + 1 /\ SlaveOK(slave', 1)
        /\ UNCHANGED <<call, nth, bit, data, received, expected, owed>>
        /\ slave' = Rises(slave, Bus(1, 1, slave.out))
    BY <2>2, LineMoves
  <2>4. Bus(1, 1, slave.out) = slave.out
    BY <1>1 DEF Bus, SlaveOK, SlaveType
  <2>5. owed < 2 => Draining(slave', bit)
    <3>1. SUFFICES ASSUME owed < 2 PROVE Draining(slave', bit)
      OBVIOUS
    <3>2. SlaveOK(slave, 0)
      BY <1>1, <2>2
    <3>3. PICK k \in 0 .. BITS : k = bit - 1 /\ k + 1 = bit
      <4>1. bit - 1 \in 0 .. BITS /\ bit - 1 + 1 = bit
        BY <1>1, <1>7
      <4>2. QED
        BY <4>1
    <3>4. Draining(slave, k)
      BY <1>1, <1>3, <1>7, <3>1, <3>3 DEF Clocks
    <3>5. Draining(Rises(slave, slave.out), k + 1)
      BY <3>2, <3>4, DrainRises
    <3>6. QED
      BY <2>3, <2>4, <3>3, <3>5
  <2>6. bit # BITS + 2 /\ bit # 0 /\ edge + 1 = 3
    BY <1>1, <1>7
  <2>7. QED
    BY <1>7, <2>2, <2>3, <2>5, <2>6
<1>8. CASE bit = BITS + 2
  <2>1. Here = <<<<0, 0, 1>>>>
    <3>1. bit # 0 /\ ~ (bit <= BITS + 1)
      BY <1>1, <1>8
    <3>2. QED
      BY <1>2, <3>1 DEF ResetClock, ResetClocks
  <2>2. Len(Here) = 1
    BY <2>1
  <2>3. edge = 1 /\ bit > 0
    <3>1. edge \in 1 .. 2
      BY <1>3, <1>8
    <3>2. edge <= 1
      BY <1>2, <2>2
    <3>3. QED
      BY <1>1, <1>8, <3>1, <3>2
  <2>4. Here[edge] = <<0, 0, 1>> /\ scl = 1 /\ ClockLevel(bit, edge + 1) = 0
    BY <1>3, <1>8, <2>1, <2>3 DEF ClockLevel
  <2>5. /\ oe' = 0 /\ scl' = 0 /\ sda' = 1 /\ edge' = edge + 1 /\ SlaveOK(slave', 0)
        /\ UNCHANGED <<call, nth, bit, data, received, expected, owed>> /\ slave' = Falls(slave)
    BY <2>4, LineMoves
  <2>6. owed < 2 => Quiet(slave') \/ Ready(slave', "data")
    <3>1. SUFFICES ASSUME owed < 2 PROVE Quiet(slave') \/ Ready(slave', "data")
      OBVIOUS
    <3>2. SlaveOK(slave, 1) /\ Draining(slave, BITS + 1)
      BY <1>1, <1>3, <1>8, <2>3, <2>4, <3>1 DEF Clocks
    <3>3. QED
      BY <2>5, <3>2, DrainEnds
  <2>7. bit # 0 /\ ~ (bit <= BITS + 1)
    BY <1>1, <1>8
  <2>8. QED
    BY <1>8, <2>3, <2>4, <2>5, <2>6, <2>7
<1>9. QED
  <2>1. bit > 0 /\ bit <= BITS + 1 => edge = 1 \/ edge = 2
    <3>1. SUFFICES ASSUME bit > 0, bit <= BITS + 1 PROVE edge = 1 \/ edge = 2
      OBVIOUS
    <3>2. Here = <<<<1, 0, 1>>, <<1, 1, 1>>>>
      BY <1>2, <3>1, ByteSizes DEF ResetClock, ResetClocks
    <3>3. Len(Here) = 2
      BY <3>2
    <3>4. QED
      BY <1>2, <1>3, <3>3
  <2>2. bit = 0 \/ (bit > 0 /\ bit <= BITS + 1) \/ bit = BITS + 2
    BY <1>1, <1>3
  <2>3. QED
    BY <1>5, <1>6, <1>7, <1>8, <2>1, <2>2

(* All the lines.                                                          *)
LEMMA LineReset ==
  ASSUME I2cInv, call \in ResetCalls, Resets, i2c_oe_scl_sda
  PROVE  I2cInv'
<1>1. nth \in Nat /\ nth \in 1 .. 3 /\ edge \in Nat /\ SlaveOK(slave, scl) /\ {oe, scl, sda} \subseteq {0, 1}
  <2>1. Len(Body(call)) = 3
    BY ResetIsMadeOf
  <2>2. QED
    BY <2>1 DEF i2c_oe_scl_sda, InCall, Resets, I2cInv
<1>2. edge <= Len(Here)
  BY DEF i2c_oe_scl_sda
<1>3. CASE nth = 1
  BY <1>3, ClockLine
<1>4. CASE nth = 3
  <2>1. Here = <<<<0, 1, 1>>>>
    BY <1>1, <1>4, ResetPlace
  <2>2. /\ bit = 0 /\ oe = 0 /\ scl = 1 /\ sda = 1 /\ Stuck(slave) /\ (owed < 2 => Quiet(slave))
        /\ edge \in {1, 2}
    BY <1>4 DEF Resets
  <2>3. edge = 1 /\ Here[edge] = <<0, 1, 1>>
    <3>1. Len(Here) = 1
      BY <2>1
    <3>2. edge = 1
      BY <1>2, <2>2, <3>1
    <3>3. QED
      BY <2>1, <3>2
  <2>4. /\ oe' = 0 /\ scl' = 1 /\ sda' = 1 /\ edge' = edge + 1 /\ SlaveOK(slave', 1) /\ slave' = slave
        /\ UNCHANGED <<call, nth, bit, data, received, expected, owed>>
    BY <2>2, <2>3, LetsGo
  <2>5. Resets'
    BY <1>4, <2>2, <2>3, <2>4 DEF Resets
  <2>6. QED
    BY <1>1, <2>4, <2>5, ResetKept
<1>5. CASE nth = 2
  <2>1. Here = i2c_stop /\ edge \in 1 .. 5 /\ BlindStop /\ bit = 0 /\ (owed < 2 => StopAt(slave, edge))
    BY <1>1, <1>5, ResetPlace DEF Resets
  <2>2. /\ BlindStop' /\ edge' \in 1 .. 5 /\ (edge' = 5 => oe' = 0) /\ SlaveOK(slave', scl')
        /\ {oe', scl', sda'} \subseteq {0, 1} /\ UNCHANGED <<call, nth, bit, data, received, expected, owed>>
    BY <2>1, BlindStopLine
  <2>3. owed' < 2 => StopAt(slave, edge)'
    BY <2>1, <2>2, StopLine
  <2>4. Resets'
    BY <1>5, <2>1, <2>2, <2>3 DEF Resets
  <2>5. edge' \in Nat
    BY <2>2
  <2>6. QED
    BY <2>2, <2>4, <2>5, ResetKept
<1>6. QED
  BY <1>1, <1>3, <1>4, <1>5

(* Nothing is read in a reset.                                             *)
LEMMA ReadReset ==
  ASSUME I2cInv, call \in ResetCalls, Resets, ops_read
  PROVE  FALSE
<1>1. nth \in Nat /\ nth \in 1 .. 3
  <2>1. Len(Body(call)) = 3
    BY ResetIsMadeOf
  <2>2. QED
    BY <2>1 DEF ops_read, InCall, Resets, I2cInv
<1>2. edge \in Nat \ {0} /\ edge <= Len(Here) /\ Here[edge] = Read
  BY <1>1 DEF ops_read, Resets, Clocks
<1>3. /\ nth = 1 => Here = ResetClock(bit)
      /\ nth = 2 => Here = i2c_stop
      /\ nth = 3 => Here = <<<<0, 1, 1>>>>
  BY <1>1, ResetPlace
<1>4. \/ Here = <<<<1, 1, 1>>>> \/ Here = <<<<1, 0, 1>>, <<1, 1, 1>>>> \/ Here = <<<<0, 0, 1>>>>
      \/ Here = i2c_stop \/ Here = <<<<0, 1, 1>>>>
  BY <1>1, <1>3 DEF ResetClock
<1>5. QED
  BY <1>2, <1>4, NotRead

(* From one clock to the next, and on.                                     *)
LEMMA NextBitReset ==
  ASSUME I2cInv, call \in ResetCalls, Resets, NextBit
  PROVE  I2cInv'
<1>1. nth \in Nat /\ nth \in 1 .. 3 /\ bit \in Nat /\ edge \in Nat /\ BITS \in Nat \ {0}
  <2>1. Len(Body(call)) = 3
    BY ResetIsMadeOf
  <2>2. QED
    BY <2>1, ByteSizes DEF NextBit, InCall, Resets, I2cInv
<1>2. /\ UNCHANGED <<oe, scl, sda, call, nth, data, received, slave, expected, owed>> /\ bit' = bit + 1 /\ edge' = 1
      /\ edge > Len(Here) /\ bit < LastBit(Now)
  BY DEF NextBit
<1>3. nth = 1 /\ Here = ResetClock(bit) /\ bit < BITS + 2
  <2>1. nth # 1 => bit = 0 /\ LastBit(Now) = 0
    BY <1>1, ResetPlace DEF Resets
  <2>2. nth = 1
    BY <1>1, <1>2, <2>1
  <2>3. QED
    BY <1>1, <1>2, <2>2, ResetPlace
<1>4. /\ bit \in 0 .. BITS + 2 /\ scl = ClockLevel(bit, edge)
      /\ edge \in 1 .. (IF bit = 0 \/ bit = BITS + 2 THEN 2 ELSE 3) /\ Clocks
  BY <1>3 DEF Resets, Clocks
<1>5. edge = IF bit = 0 THEN 2 ELSE 3
  <2>1. CASE bit = 0
    <3>1. Here = <<<<1, 1, 1>>>>
      BY <1>3, <2>1 DEF ResetClock
    <3>2. Len(Here) = 1
      BY <3>1
    <3>3. QED
      BY <1>2, <1>4, <2>1, <3>2
  <2>2. CASE bit # 0
    <3>1. bit <= BITS + 1 /\ bit # BITS + 2
      BY <1>1, <1>3
    <3>2. Here = <<<<1, 0, 1>>, <<1, 1, 1>>>>
      BY <1>3, <2>2, <3>1 DEF ResetClock, ResetClocks
    <3>3. Len(Here) = 2
      BY <3>2
    <3>4. QED
      BY <1>2, <1>4, <2>2, <3>1, <3>3
  <2>3. QED
    BY <2>1, <2>2
<1>6. scl' = ClockLevel(bit', edge')
  BY <1>1, <1>2, <1>4, <1>5 DEF ClockLevel
<1>7. owed < 2 /\ bit = 0 => Stuck(slave)
  BY <1>4 DEF Clocks
<1>8. owed < 2 /\ bit # 0 => Draining(slave, bit)
  <2>1. SUFFICES ASSUME owed < 2, bit # 0 PROVE Draining(slave, bit)
    OBVIOUS
  <2>2. bit > 0 /\ bit <= BITS + 1 /\ edge = 3
    BY <1>1, <1>3, <1>5, <2>1
  <2>3. QED
    BY <1>4, <2>1, <2>2 DEF Clocks
<1>9. Clocks'
  <2>1. bit' = bit + 1 /\ bit' # 0 /\ bit' - 1 = bit /\ edge' = 1 /\ owed' = owed /\ slave' = slave
    BY <1>1, <1>2
  <2>2. bit' \in 0 .. BITS + 2 /\ edge' \in 1 .. (IF bit' = 0 \/ bit' = BITS + 2 THEN 2 ELSE 3)
    BY <1>1, <1>3, <2>1
  <2>3. owed' < 2 /\ bit' = 1 => Stuck(slave')
    BY <1>1, <1>7, <2>1
  <2>4. owed' < 2 /\ bit' # 1 => Draining(slave', bit' - 1)
    BY <1>1, <1>8, <2>1
  <2>5. owed' < 2 /\ bit' = BITS + 2 => Draining(slave', BITS + 1)
    <3>1. SUFFICES ASSUME owed' < 2, bit' = BITS + 2 PROVE Draining(slave', BITS + 1)
      OBVIOUS
    <3>2. bit' # 1 /\ bit' - 1 = BITS + 1
      BY <1>1, <3>1
    <3>3. QED
      BY <2>4, <3>1, <3>2
  <2>6. edge' # 2 /\ edge' # 3
    BY <2>1
  <2>7. QED
    BY <1>6, <2>1, <2>2, <2>3, <2>4, <2>5, <2>6 DEF Clocks
<1>10. Resets'
  BY <1>2, <1>3, <1>9 DEF Resets
<1>11. QED
  BY <1>1, <1>2, <1>10 DEF I2cInv

(* From one operation of a reset to the next.                              *)
LEMMA NextOperationReset ==
  ASSUME I2cInv, call \in ResetCalls, Resets, NextOperation
  PROVE  I2cInv'
<1>1. nth \in Nat /\ nth \in 1 .. 3 /\ bit \in Nat /\ edge \in Nat /\ BITS \in Nat \ {0}
  <2>1. Len(Body(call)) = 3
    BY ResetIsMadeOf
  <2>2. QED
    BY <2>1, ByteSizes DEF NextOperation, InCall, Resets, I2cInv
<1>2. /\ UNCHANGED <<oe, scl, sda, call, received, slave, expected, owed>> /\ nth' = nth + 1
      /\ bit' = 0 /\ edge' = 1 /\ data' = 0 /\ edge > Len(Here) /\ bit = LastBit(Now)
  <2>1. Now.do # "transmit" /\ Now.do # "receive"
    BY <1>1, ResetPlace
  <2>2. QED
    BY <2>1 DEF NextOperation, Go
<1>3. SUFFICES Resets'
  BY <1>1, <1>2, <1>3, ByteSizes DEF I2cInv
<1>4. CASE nth = 1
  <2>1. Here = ResetClock(bit) /\ bit = BITS + 2 /\ Clocks
    BY <1>1, <1>2, <1>4, ResetPlace DEF Resets
  <2>2. Here = <<<<0, 0, 1>>>>
    <3>1. bit # 0 /\ ~ (bit <= BITS + 1)
      BY <1>1, <2>1
    <3>2. QED
      BY <2>1, <3>1 DEF ResetClock, ResetClocks
  <2>3. Len(Here) = 1
    BY <2>2
  <2>4. edge = 2 /\ bit > 0
    <3>1. edge \in 1 .. 2
      BY <2>1 DEF Clocks
    <3>2. edge = 2
      BY <1>2, <2>3, <3>1
    <3>3. bit > 0
      BY <1>1, <2>1
    <3>4. QED
      BY <3>2, <3>3
  <2>5. scl = 0 /\ (owed < 2 => Quiet(slave) \/ Ready(slave, "data"))
    BY <2>1, <2>4 DEF Clocks, ClockLevel
  <2>6. QED
    BY <1>2, <1>4, <2>5 DEF Resets, BlindStop, StopAt, Quiet, Ready
<1>5. CASE nth = 2
  <2>1. /\ Here = i2c_stop /\ edge \in 1 .. 5 /\ BlindStop /\ (edge = 5 => oe = 0)
        /\ (owed < 2 => StopAt(slave, edge))
    BY <1>1, <1>5, ResetPlace DEF Resets
  <2>2. Len(i2c_stop) = 4
    BY DEF i2c_stop
  <2>3. edge = 5
    BY <1>2, <2>1, <2>2
  <2>4. Stuck(slave) /\ oe = 0 /\ scl = 1 /\ sda = 1 /\ (owed < 2 => Quiet(slave))
    BY <2>1, <2>3 DEF BlindStop, StopAt
  <2>5. Stuck(slave') /\ (owed' < 2 => Quiet(slave'))
    BY <1>2, <2>4
  <2>6. QED
    BY <1>2, <1>5, <2>4, <2>5 DEF Resets
<1>6. CASE nth = 3
  <2>1. oe = 0 /\ scl = 1 /\ sda = 1 /\ Stuck(slave) /\ (owed < 2 => Quiet(slave))
    BY <1>6 DEF Resets
  <2>2. Stuck(slave') /\ (owed' < 2 => Quiet(slave'))
    BY <1>2, <2>1
  <2>3. QED
    BY <1>2, <1>6, <2>1, <2>2 DEF Resets
<1>7. QED
  BY <1>1, <1>4, <1>5, <1>6

-----------------------------------------------------------------------------
(* The calls: what the user may ask for is one of the calls above.         *)
LEMMA KindsOfCalls ==
  ASSUME NEW c \in Calls
  PROVE  (c \in PlainCalls /\ c.ok = FALSE) \/ c \in RefusedCalls \/ c \in ResetCalls
<1>1. /\ Targets \subseteq Sevens /\ Addresses \subseteq Nat /\ Sizes \subseteq Nat
      /\ Writes \subseteq Seq(I2cByte) /\ Lengths \subseteq Nat
  BY I2cAssumption DEF Sevens
<1>2. CASE c \in [op : {"write"}, to : Targets, at : Addresses, addr_size : Sizes, data : Writes, ok : {FALSE}]
  <2>1. /\ c \in [op : {"write"}, to : Sevens, at : Nat, addr_size : Nat, data : Seq(I2cByte), ok : {FALSE}]
        /\ c.addr_size \in Nat /\ c.op = "write" /\ c.ok = FALSE
    BY <1>1, <1>2
  <2>2. CASE c.addr_size \in 1 .. 4
    <3>1. c \in WriteCalls
      BY <2>1, <2>2 DEF WriteCalls
    <3>2. QED
      BY <2>1, <3>1 DEF PlainCalls
  <2>3. CASE c.addr_size \notin 1 .. 4
    <3>1. Refused(c)
      BY <2>1, <2>3 DEF Refused
    <3>2. QED
      BY <2>1, <3>1 DEF RefusedCalls
  <2>4. QED
    BY <2>2, <2>3
<1>3. CASE c \in [op : {"read"}, to : Targets, at : Addresses, addr_size : Sizes, len : Lengths,
                  send_stop : BOOLEAN, ok : {FALSE}]
  <2>1. /\ c \in [op : {"read"}, to : Sevens, at : Nat, addr_size : Nat, len : Nat, send_stop : BOOLEAN,
                   ok : {FALSE}]
        /\ c.addr_size \in Nat /\ c.op = "read" /\ c.ok = FALSE
    BY <1>1, <1>3
  <2>2. CASE c.addr_size \in 1 .. 4
    <3>1. c \in ReadCalls
      BY <2>1, <2>2 DEF ReadCalls
    <3>2. QED
      BY <2>1, <3>1 DEF PlainCalls
  <2>3. CASE c.addr_size \notin 1 .. 4
    <3>1. Refused(c)
      BY <2>1, <2>3 DEF Refused
    <3>2. QED
      BY <2>1, <3>1 DEF RefusedCalls
  <2>4. QED
    BY <2>2, <2>3
<1>4. CASE c \in [op : {"poll"}, to : Targets, ok : {FALSE}]
  BY <1>1, <1>4 DEF PlainCalls, PollCalls
<1>5. CASE c \in [op : {"reset"}, ok : {TRUE}]
  BY <1>5 DEF ResetCalls
<1>6. QED
  BY <1>2, <1>3, <1>4, <1>5 DEF Calls

(* A reset is a call, and a refused one is one.                            *)
LEMMA NotNoCall ==
  /\ \A c \in ResetCalls : c # NoCall /\ c.op = "reset"
  /\ \A c \in RefusedCalls : c # NoCall
  /\ \A c \in PlainCalls : c # NoCall
<1>1. ASSUME NEW c \in ResetCalls \cup RefusedCalls PROVE c # NoCall
  <2>1. "op" \in DOMAIN c
    BY DEF ResetCalls, RefusedCalls
  <2>2. DOMAIN NoCall = {}
    BY DEF NoCall
  <2>3. QED
    BY <2>1, <2>2
<1>2. \A c \in ResetCalls : c.op = "reset"
  BY DEF ResetCalls
<1>3. QED
  BY <1>1, <1>2, Kinds

(* Between two calls.                                                      *)
LEMMA BetweenCalls ==
  ASSUME I2cInv, call = NoCall
  PROVE  Released /\ (owed = 0 => AtRest) /\ (owed < 2 => Stuck(slave)) /\ owed \in 0 .. 2
<1>1. Released /\ (owed = 0 => AtRest) /\ (owed = 1 => Stuck(slave)) /\ owed \in 0 .. 2
  BY NotNoCall DEF I2cInv
<1>2. AtRest => Stuck(slave)
  BY DEF AtRest, Stuck
<1>3. QED
  BY <1>1, <1>2

(* A call begins: what it has to do is ahead, and nothing is done yet.     *)
LEMMA CallPlain ==
  ASSUME I2cInv, NEW c \in Calls, Call(c), c \in PlainCalls, c.ok = FALSE
  PROVE  I2cInv'
<1>1. PICK z \in 3 .. 6, m \in Nat :
        /\ z = LastPlace(c) /\ m = Size(c) /\ m >= 4 /\ z < m /\ c.op \in {"write", "read", "poll"} /\ c.op # "reset"
  BY Kinds
<1>2. AtRest /\ owed = 0
  <2>1. call = NoCall /\ owed \in 0 .. 2 /\ (owed > 0 => c.op = "reset")
    BY DEF Call, I2cInv
  <2>2. owed = 0
    BY <1>1, <2>1
  <2>3. QED
    BY <2>1, <2>2, BetweenCalls
<1>3. /\ call' = c /\ nth' = 1 /\ bit' = 0 /\ edge' = 1 /\ data' = 0
      /\ UNCHANGED <<oe, scl, sda, received, slave, expected, owed>>
  BY DEF Call, Go
<1>4. c.op = "read" => 1 < Second(c) /\ 1 <= Second(c) + 1
  <2>1. SUFFICES ASSUME c.op = "read" PROVE 1 < Second(c) /\ 1 <= Second(c) + 1
    OBVIOUS
  <2>2. PICK k \in {z + 1, z + 2} : k = Second(c)
    BY <1>1, <2>1, Kinds
  <2>3. 1 < k /\ 1 <= k + 1
    OBVIOUS
  <2>4. QED
    BY <2>2, <2>3
<1>5. 1 < z /\ 1 <= z /\ ~ (1 > z) /\ 1 \notin 2 .. z /\ 1 # m /\ 1 # z + 1 /\ 1 # m + 1 /\ 1 \in 1 .. m + 1
  BY <1>1
<1>6. IsStart(c, 1) /\ ~ IsStop(c, 1) /\ ~ IsTransmit(c, 1) /\ ~ IsReceive(c, 1)
  <2>1. IsStart(c, 1)
    BY DEF IsStart
  <2>2. ~ IsStop(c, 1)
    BY <1>1, <1>5 DEF IsStop
  <2>3. ~ IsReceive(c, 1)
    <3>1. c.op = "read" => ~ (1 > Second(c) + 1)
      <4>1. SUFFICES ASSUME c.op = "read" PROVE ~ (1 > Second(c) + 1)
        OBVIOUS
      <4>2. PICK k \in {z + 1, z + 2} : k = Second(c)
        BY <1>1, <4>1, Kinds
      <4>3. ~ (1 > k + 1)
        OBVIOUS
      <4>4. QED
        BY <4>2, <4>3
    <3>2. QED
      BY <3>1 DEF IsReceive
  <2>4. ~ IsTransmit(c, 1)
    <3>1. c.op = "read" => ~ (1 = Second(c) + 1)
      <4>1. SUFFICES ASSUME c.op = "read" PROVE ~ (1 = Second(c) + 1)
        OBVIOUS
      <4>2. PICK k \in {z + 1, z + 2} : k = Second(c)
        BY <1>1, <4>1, Kinds
      <4>3. ~ (1 = k + 1)
        OBVIOUS
      <4>4. QED
        BY <4>2, <4>3
    <3>2. QED
      BY <1>1, <1>5, <3>1 DEF IsTransmit
  <2>5. QED
    BY <2>1, <2>2, <2>3, <2>4
<1>7. /\ LastPlace(call)' = z /\ Size(call)' = m /\ Second(call)' = Second(c) /\ Fits(call)' = Fits(c)
      /\ slave'.mem = expected' /\ Len(received') = 0
  BY <1>1, <1>2, <1>3 DEF LastPlace, Size, Second, Fits, AtRest, Released
<1>8. c.op = "write" => Stored(call, Reached)' = expected'
  <2>1. SUFFICES ASSUME c.op = "write" PROVE Stored(call, Reached)' = expected'
    OBVIOUS
  <2>2. c \in WriteCalls /\ expected \in Memories
    BY <2>1, Kinds DEF I2cInv
  <2>3. Stored(c, 0) = expected
    BY <2>2, StoredNext
  <2>4. Reached' = 0
    BY <1>3, <1>5, <1>7 DEF Reached
  <2>5. Stored(call, Reached)' = Stored(c, 0)
    BY <1>3, <2>4 DEF Stored
  <2>6. QED
    BY <1>3, <2>3, <2>5
<1>9. Follows'
  <2>1. \A k \in 1 .. Len(received') : FALSE
    BY <1>7
  <2>2. ~ (nth' \in 2 .. LastPlace(call)') /\ ~ (nth' > LastPlace(call)')
    BY <1>3, <1>5, <1>7
  <2>3. call'.op = "read" => nth' <= Second(call)' + 1
    BY <1>3, <1>4, <1>7
  <2>4. QED
    BY <1>7, <2>1, <2>2, <2>3 DEF Follows
<1>10. Heads'
  <2>1. slave'.mem = IF call'.op = "write" /\ call'.to = SLAVE THEN Stored(call, Reached)' ELSE expected'
    BY <1>3, <1>7, <1>8
  <2>2. QED
    BY <1>9, <2>1 DEF Heads
<1>11. Plain'
  <2>1. StartAt(slave, nth = 1 \/ Second(call) = LastPlace(call) + 2, edge)'
    <3>1. Quiet(slave') /\ scl' = 1 /\ oe' = 0 /\ edge' = 1 /\ nth' = 1
      BY <1>2, <1>3 DEF AtRest, Released
    <3>2. QED
      BY <3>1 DEF StartAt
  <2>2. /\ IsStart(call', nth') /\ ~ IsStop(call', nth') /\ ~ IsTransmit(call', nth') /\ ~ IsReceive(call', nth')
        /\ nth' \in 1 .. Size(call') + 1 /\ nth' # Size(call') + 1
    BY <1>1, <1>3, <1>5, <1>6
  <2>3. call'.ok = (nth' > 2 /\ call'.to = SLAVE) /\ nth' = 1
    <3>1. nth' = 1 /\ ~ (nth' > 2)
      BY <1>3
    <3>2. call'.ok = FALSE
      BY <1>3
    <3>3. QED
      BY <3>1, <3>2
  <2>4. QED
    BY <1>3, <1>10, <2>1, <2>2, <2>3 DEF Plain
<1>12. QED
  BY <1>2, <1>3, <1>11, ByteSizes DEF I2cInv

(* One that is refused has nothing ahead, and a reset its clocks.          *)
LEMMA CallStep ==
  ASSUME I2cInv, NEW c \in Calls, Call(c)
  PROVE  I2cInv'
<1>1. call = NoCall /\ owed \in 0 .. 2 /\ (owed > 0 => c.op = "reset")
  BY DEF Call, I2cInv
<1>2. /\ call' = c /\ nth' = 1 /\ bit' = 0 /\ edge' = 1 /\ data' = 0
      /\ UNCHANGED <<oe, scl, sda, received, slave, expected, owed>>
  BY DEF Call, Go
<1>3. CASE c \in PlainCalls /\ c.ok = FALSE
  BY <1>3, CallPlain
<1>4. CASE c \in RefusedCalls
  <2>1. c.op # "reset"
    BY <1>4, RefusedIsNothing
  <2>2. owed = 0
    BY <1>1, <2>1
  <2>3. AtRest
    BY <1>1, <2>2, BetweenCalls
  <2>4. AtRest'
    BY <1>2, <2>3 DEF AtRest, Released
  <2>5. QED
    BY <1>2, <1>4, <2>2, <2>4, ByteSizes DEF I2cInv
<1>5. CASE c \in ResetCalls
  <2>1. Released /\ (owed < 2 => Stuck(slave))
    BY <1>1, BetweenCalls
  <2>2. oe' = 0 /\ scl' = 1 /\ (owed' < 2 => Stuck(slave'))
    BY <1>2, <2>1 DEF Released
  <2>3. BITS \in Nat \ {0} /\ 0 \in 0 .. BITS + 2 /\ 0 # BITS + 2 /\ 0 # 1 /\ ~ (0 > 0) /\ ClockLevel(0, 1) = 1
    BY ByteSizes DEF ClockLevel
  <2>4. Clocks'
    BY <1>2, <2>2, <2>3 DEF Clocks
  <2>5. Resets'
    BY <1>2, <2>4 DEF Resets
  <2>6. QED
    BY <1>2, <1>5, <2>5, ByteSizes DEF I2cInv
<1>6. QED
  BY <1>3, <1>4, <1>5, KindsOfCalls

(* When a call returns, the lines are high, and the slave is off except
   where it still sends and after a first reset.                           *)
LEMMA AtTheEnd ==
  ASSUME I2cInv, Returned
  PROVE  /\ oe = 0 /\ scl = 1 /\ sda = 1 /\ owed \in 0 .. 2
         /\ StillSends \/ call.op = "reset" => Stuck(slave)
         /\ ~ StillSends /\ (call.op = "reset" => owed < 2) => Quiet(slave)
         /\ \/ call \in PlainCalls /\ Plain /\ nth = Size(call) + 1 /\ call.op # "reset" /\ owed = 0
            \/ call \in RefusedCalls /\ AtRest /\ call.op # "reset" /\ owed = 0
            \/ call \in ResetCalls
<1>1. CASE call \in PlainCalls /\ Plain /\ owed = 0
  <2>1. PICK m \in Nat : m = Size(call) /\ Len(Body(call)) = m /\ m >= 4 /\ call.op # "reset"
    BY <1>1, Kinds
  <2>2. nth = m + 1 /\ nth > 2
    <3>1. nth \in 1 .. m + 1 /\ nth > m
      BY <1>1, <2>1 DEF Returned, Plain
    <3>2. QED
      BY <2>1, <3>1
  <2>3. Stuck(slave) /\ (~ Hanging(call, nth) => Quiet(slave)) /\ oe = 0 /\ scl = 1 /\ sda = 1
        /\ call.ok = (call.to = SLAVE)
    BY <1>1, <2>1, <2>2 DEF Plain
  <2>4. Hanging(call, nth) => StillSends
    BY <2>3 DEF Hanging, StillSends
  <2>5. QED
    BY <1>1, <2>1, <2>2, <2>3, <2>4
<1>2. CASE call \in RefusedCalls /\ AtRest /\ owed = 0
  <2>1. call.op # "reset" /\ call.ok = FALSE
    BY <1>2, RefusedIsNothing
  <2>2. QED
    BY <1>2, <2>1 DEF StillSends, AtRest, Released
<1>3. CASE call \in ResetCalls /\ Resets
  <2>1. Len(Body(call)) = 3
    BY <1>3, ResetIsMadeOf
  <2>2. nth = 4
    BY <1>3, <2>1 DEF Returned, Resets
  <2>3. oe = 0 /\ scl = 1 /\ sda = 1 /\ Stuck(slave) /\ (owed < 2 => Quiet(slave)) /\ call.op = "reset"
    BY <1>3, <2>2, NotNoCall DEF Resets
  <2>4. QED
    BY <1>3, <2>3 DEF I2cInv
<1>4. QED
  BY <1>1, <1>2, <1>3 DEF I2cInv, Returned

(* The call has done all it had to do, and the lines are at rest.          *)
LEMMA ReturnStep ==
  ASSUME I2cInv, Return
  PROVE  I2cInv'
<1>1. /\ call' = NoCall /\ nth' = 1 /\ bit' = 0 /\ edge' = 1 /\ data' = 0 /\ received' = << >>
      /\ expected' = slave.mem /\ UNCHANGED <<oe, scl, sda, slave>> /\ Returned
      /\ owed' = IF call.op = "reset" /\ owed > 0 THEN owed - 1 ELSE IF StillSends THEN 1 ELSE 0
  BY DEF Return, Go
<1>2. /\ oe = 0 /\ scl = 1 /\ sda = 1 /\ owed \in 0 .. 2
      /\ StillSends \/ call.op = "reset" => Stuck(slave)
      /\ ~ StillSends /\ (call.op = "reset" => owed < 2) => Quiet(slave)
  BY <1>1, AtTheEnd
<1>3. slave.mem \in Memories
  BY DEF I2cInv, SlaveOK, SlaveType
<1>4. Released'
  BY <1>1, <1>2 DEF Released
<1>5. owed' \in 0 .. 2 /\ (owed' = 1 => Stuck(slave)) /\ (owed' = 0 => Quiet(slave))
  <2>1. CASE call.op = "reset" /\ owed > 0
    <3>1. ~ StillSends /\ owed' = owed - 1
      BY <1>1, <2>1 DEF StillSends
    <3>2. Stuck(slave) /\ (owed < 2 => Quiet(slave))
      BY <1>2, <2>1, <3>1
    <3>3. owed' \in 0 .. 2 /\ (owed' = 0 => owed < 2)
      BY <1>2, <2>1, <3>1
    <3>4. QED
      BY <3>2, <3>3
  <2>2. CASE ~ (call.op = "reset" /\ owed > 0) /\ StillSends
    BY <1>1, <1>2, <2>2
  <2>3. CASE ~ (call.op = "reset" /\ owed > 0) /\ ~ StillSends
    BY <1>1, <1>2, <2>3
  <2>4. QED
    BY <2>1, <2>2, <2>3
<1>6. owed' = 0 => AtRest'
  BY <1>1, <1>4, <1>5 DEF AtRest, Quiet
<1>7. owed' = 1 => Stuck(slave')
  BY <1>1, <1>5
<1>8. QED
  BY <1>1, <1>3, <1>4, <1>5, <1>6, <1>7, ByteSizes DEF I2cInv

(* The processor is reset, wherever the slave is.                          *)
LEMMA ResetStep ==
  ASSUME I2cInv, ProcessorReset
  PROVE  I2cInv'
<1>1. /\ oe' = 0 /\ scl' = 1 /\ sda' = 1 /\ slave' = Reaction(0, 1, 1) /\ call' = NoCall /\ owed' = 2
      /\ nth' = 1 /\ bit' = 0 /\ edge' = 1 /\ data' = 0 /\ received' = << >> /\ expected' = expected
  BY DEF ProcessorReset, Go
<1>2. SlaveOK(slave', scl')
  <2>1. scl \in {0, 1} /\ SlaveOK(slave, scl) /\ 1 \in {0, 1}
    BY DEF I2cInv
  <2>2. SlaveOK(Reaction(0, 1, 1), 1)
    BY <2>1, ReactionOK
  <2>3. QED
    BY <1>1, <2>2, Zenon
<1>3. Released'
  BY <1>1 DEF Released
<1>4. QED
  BY <1>1, <1>2, <1>3, ByteSizes DEF I2cInv

-----------------------------------------------------------------------------
(* The invariant holds at first, and every step keeps it.                  *)
LEMMA I2cBegins == I2cInit => I2cInv
<1>1. SUFFICES ASSUME I2cInit PROVE I2cInv
  OBVIOUS
<1>2. EmptyMemory \in Memories
  BY ByteSizes DEF EmptyMemory, Memories
<1>3. slave \in SlaveType
  <2>1. 0 \in 0 .. BITS + 1 /\ 0 \in Cells /\ 0 \in 0 .. ADDR_SIZE
    BY ByteSizes, CellNumbers
  <2>2. QED
    BY <1>1, <1>2, <2>1 DEF I2cInit, SlaveType
<1>4. SlaveOK(slave, scl)
  BY <1>1, <1>3 DEF I2cInit, SlaveOK, Ears
<1>5. AtRest /\ Released /\ call = NoCall /\ owed = 0
  BY <1>1 DEF I2cInit, AtRest, Released, Quiet
<1>6. QED
  BY <1>1, <1>2, <1>4, <1>5, ByteSizes DEF I2cInit, I2cInv

(* Every step keeps the invariant.                                         *)
LEMMA I2cStep == I2cInv /\ [I2cNext]_i2cVars => I2cInv'
<1>1. SUFFICES ASSUME I2cInv, [I2cNext]_i2cVars PROVE I2cInv'
  OBVIOUS
<1>2. InCall => (call \in PlainCalls /\ Plain /\ owed = 0) \/ (call \in ResetCalls /\ Resets)
  <2>1. SUFFICES ASSUME InCall, call \in RefusedCalls, nth = 1 PROVE FALSE
    BY <1>1 DEF I2cInv, InCall
  <2>2. Len(Body(call)) = 0
    BY <2>1, RefusedIsNothing
  <2>3. QED
    BY <2>1, <2>2 DEF InCall
<1>3. CASE i2c_oe_scl_sda
  <2>1. InCall
    BY <1>3 DEF i2c_oe_scl_sda
  <2>2. QED
    BY <1>1, <1>2, <1>3, <2>1, LinePlain, LineReset
<1>4. CASE ops_read
  <2>1. InCall
    BY <1>4 DEF ops_read
  <2>2. QED
    BY <1>1, <1>2, <1>4, <2>1, ReadPlain, ReadReset
<1>5. CASE NextBit
  <2>1. InCall
    BY <1>5 DEF NextBit
  <2>2. QED
    BY <1>1, <1>2, <1>5, <2>1, NextBitPlain, NextBitReset
<1>6. CASE NextOperation
  <2>1. InCall
    BY <1>6 DEF NextOperation
  <2>2. CASE call \in PlainCalls /\ Plain /\ owed = 0
    <3>1. PICK z \in 3 .. 6, k \in Nat, L \in Nat, m \in Nat : m = Size(call) /\ nth \in 1 .. m /\ nth \in Nat
      BY <1>1, <1>6, <2>2, Places
    <3>2. IsStart(call, nth) \/ IsStop(call, nth) \/ IsTransmit(call, nth) \/ IsReceive(call, nth)
      BY <2>2, <3>1, KindOfPlace
    <3>3. QED
      BY <1>1, <1>6, <2>2, <3>2, AfterStart, AfterStop, AfterTransmit, AfterReceive
  <2>3. CASE call \in ResetCalls /\ Resets
    BY <1>1, <1>6, <2>3, NextOperationReset
  <2>4. QED
    BY <1>2, <2>1, <2>2, <2>3
<1>7. CASE \E c \in Calls : Call(c)
  BY <1>1, <1>7, CallStep
<1>8. CASE Return
  BY <1>1, <1>8, ReturnStep
<1>9. CASE ProcessorReset
  BY <1>1, <1>9, ResetStep
<1>10. CASE UNCHANGED i2cVars
  <2>1. /\ UNCHANGED <<oe, scl, sda, call, nth, bit, edge, data, received, slave, expected, owed>>
    BY <1>10 DEF i2cVars, i2cPlace
  <2>2. SlaveOK(slave, scl)' /\ (AtRest => AtRest') /\ (Released => Released')
    BY <1>1, <2>1 DEF I2cInv, AtRest, Released
  <2>3. Plain => Plain'
    BY <2>1 DEF Plain, Heads, Follows, Stored, Reached, Ended, StartAt, StopAt, BlindStop, Transmits, Receives, Reading
  <2>4. Resets => Resets'
    BY <2>1 DEF Resets, Clocks, BlindStop, StopAt
  <2>5. QED
    BY <1>1, <2>1, <2>2, <2>3, <2>4 DEF I2cInv
<1>11. QED
  BY <1>1, <1>3, <1>4, <1>5, <1>6, <1>7, <1>8, <1>9, <1>10 DEF I2cNext

(* The invariant says what a call has done when it returns.                *)
LEMMA I2cInvSuffices == I2cInv => CallsAreExact
<1>1. SUFFICES ASSUME I2cInv, Returned
               PROVE  /\ ~ StillSends /\ (call.op = "reset" => owed < 2) => BusIsFree
                      /\ call.op # "reset" =>
                           /\ call.ok = (call.to = SLAVE /\ ~ Refused(call))
                           /\ ~ call.ok \/ Fits(call) =>
                                slave.mem = IF call.op = "write" /\ call.ok THEN Stored(call, Len(call.data))
                                            ELSE expected
                           /\ call.op = "read" /\ call.ok /\ Fits(call) =>
                                received = [n \in 1 .. call.len |-> expected[Nth(call.at, n)]]
  BY DEF CallsAreExact
<1>2. ~ StillSends /\ (call.op = "reset" => owed < 2) => BusIsFree
  BY <1>1, AtTheEnd DEF BusIsFree, Bus, Quiet
<1>3. CASE call \in ResetCalls
  BY <1>2, <1>3, NotNoCall
<1>4. CASE call \in RefusedCalls /\ AtRest
  <2>1. Refused(call) /\ call.ok = FALSE /\ slave.mem = expected
    BY <1>4, RefusedIsNothing DEF AtRest
  <2>2. QED
    BY <1>2, <2>1
<1>5. CASE call \in PlainCalls /\ Plain /\ nth = Size(call) + 1
  <2>1. PICK z \in 3 .. 6, m \in Nat :
          z = LastPlace(call) /\ m = Size(call) /\ m >= 4 /\ z < m /\ call.op \in {"write", "read", "poll"}
    BY <1>5, Kinds
  <2>2. nth = m + 1 /\ nth > 2 /\ ~ (nth <= z) /\ ~ (nth < m) /\ nth > m
    <3>1. nth = m + 1
      BY <1>5, <2>1
    <3>2. QED
      BY <2>1, <3>1
  <2>3. call.ok = (call.to = SLAVE)
    BY <1>5, <2>2 DEF Plain
  <2>4. ~ Refused(call)
    <3>1. call.op \in {"write", "read"} => call.addr_size \in 1 .. 4
      BY <1>5, Kinds DEF WriteCalls, ReadCalls
    <3>2. QED
      BY <3>1 DEF Refused
  <2>5. ~ call.ok \/ Fits(call) =>
          slave.mem = IF call.op = "write" /\ call.ok THEN Stored(call, Len(call.data)) ELSE expected
    <3>1. Reached = Len(call.data)
      BY <2>1, <2>2 DEF Reached
    <3>2. QED
      BY <1>5, <2>3, <3>1 DEF Plain, Heads
  <2>6. ASSUME call.op = "read", call.ok, Fits(call)
        PROVE  received = [n \in 1 .. call.len |-> expected[Nth(call.at, n)]]
    <3>1. PICK k \in Nat, L \in Nat : k = Second(call) /\ L = call.len /\ m = k + L + 2
      BY <1>5, <2>1, <2>6, Kinds
    <3>2. ~ (nth <= k + 1)
      BY <2>2, <3>1
    <3>3. Follows
      BY <1>5, <2>3, <2>6 DEF Plain, Heads
    <3>4. Len(received) = call.len /\ \A j \in 1 .. Len(received) : received[j] = expected[Nth(call.at, j)]
      BY <2>1, <2>2, <2>6, <3>1, <3>2, <3>3 DEF Follows
    <3>5. received \in Seq(I2cByte)
      BY <1>1 DEF I2cInv
    <3>6. received = [n \in 1 .. Len(received) |-> received[n]]
      BY <3>5
    <3>7. QED
      BY <3>4, <3>6
  <2>7. QED
    BY <1>2, <2>3, <2>4, <2>5, <2>6
<1>6. QED
  BY <1>1, <1>3, <1>4, <1>5, AtTheEnd

(* Whatever the user calls, with any address, size and lengths, resets and *)
(* reads of no bytes among them, and wherever a reset of the processor     *)
(* cuts a transfer, the calls do what they say and leave the bus free.     *)
THEOREM I2cCallsAreExact == I2cSpec => []CallsAreExact
BY I2cBegins, I2cStep, I2cInvSuffices, PTL DEF I2cSpec
=============================================================================
