---------------------------- MODULE FormatProofs ----------------------------
(***************************************************************************)
(* The layout that partition_format finds is right for every size of a     *)
(* partition and of a sector.                                              *)
(***************************************************************************)
EXTENDS Format, TLAPS

(* One more factor is one more term.                                       *)
LEMMA OneMore ==
  ASSUME NEW x \in Int, NEW y \in Int
  PROVE  /\ x * y \in Int /\ x * y = y * x
         /\ (x - 1) * y = x * y - y
         /\ (x + 1) * y = x * y + y
OBVIOUS

(* A product grows with its second factor.                                 *)
LEMMA Monotone ==
  ASSUME NEW b \in Nat, NEW x \in Int, NEW y \in Int, x <= y
  PROVE  b * x <= b * y
OBVIOUS

(* Rounding up: the least number of steps that reach x, for every          *)
(* dividend that DIV_ROUND_UP meets in the loop.                           *)
LEMMA RoundUp ==
  ASSUME NEW x \in Int, NEW b \in Nat \ {0}
  PROVE  /\ DIV_ROUND_UP(x, b) \in Int
         /\ x <= DIV_ROUND_UP(x, b) * b
         /\ x > (DIV_ROUND_UP(x, b) - 1) * b
<1> DEFINE q == (x + b - 1) \div b
           r == (x + b - 1) % b
<1>1. /\ q \in Int /\ r \in 0..(b - 1)
      /\ x + b - 1 = b * q + r
  OBVIOUS
<1> HIDE DEF q, r
<1>2. b * q = q * b /\ q * b \in Int /\ (q - 1) * b = q * b - b
  BY <1>1, OneMore
<1>3. x <= q * b /\ x > (q - 1) * b
  BY <1>1, <1>2
<1> QED
  BY <1>1, <1>3 DEF DIV_ROUND_UP, q

(* A number of sectors that fits rules out the sizes of NoFit.             *)
LEMMA FitIsNotNoFit ==
  ASSUME NEW b \in Nat \ {0}, NEW s \in Int, NEW len \in Int,
         len <= s * b, len > (s - 1) * b
  PROVE  (s + len) % (b + 1) # 1
<1> DEFINE f == s + len
           c == b + 1
           q == f \div c
           r == f % c
<1>1. /\ q \in Int /\ r \in 0..b
      /\ f = c * q + r
  OBVIOUS
<1> HIDE DEF q, r
<1>2. /\ s * b = b * s /\ b * s \in Int /\ (s - 1) * b = b * s - b
      /\ b * q \in Int /\ c * q = b * q + q
  BY <1>1, OneMore
<1> SUFFICES ASSUME r = 1 PROVE FALSE
  BY DEF r
<1>3. s + len = b * q + q + 1 /\ len <= b * s /\ len > b * s - b
  BY <1>1, <1>2
<1>4. b * q + q + 1 <= b * s + s /\ b * q + q + 1 > b * s + s - b
  BY <1>1, <1>2, <1>3
<1>5. CASE q >= s
  <2>1. b * q >= b * s
    BY <1>5, <1>1, Monotone
  <2> QED BY <2>1, <1>2, <1>5, <1>4, <1>1
<1>6. CASE q <= s - 1
  <2>1. b * q <= b * (s - 1) /\ b * (s - 1) = b * s - b
    BY <1>6, <1>1, <1>2, Monotone, OneMore
  <2> QED BY <2>1, <1>2, <1>6, <1>4, <1>1
<1> QED BY <1>5, <1>6, <1>1

(* The inductive invariant: but for the first estimate, which counts no    *)
(* sector of the bitmap, both numbers come from the estimate before.       *)
FormatInv ==
  /\ free_sects \in Nat /\ free_sects > 1
  /\ block_bitmap_sects \in Int
  /\ prev_block_bitmap_sects \in Int
  /\ block_bitmap_bit_len \in Int
  /\ formatted \in BOOLEAN
  /\ \/ /\ prev_block_bitmap_sects = 0
        /\ block_bitmap_sects = DIV_ROUND_UP(free_sects, BITS_PER_SECTOR)
     \/ /\ block_bitmap_bit_len = free_sects - prev_block_bitmap_sects
        /\ block_bitmap_sects = DIV_ROUND_UP(block_bitmap_bit_len, BITS_PER_SECTOR)
  /\ formatted => block_bitmap_sects = prev_block_bitmap_sects

(* The invariant holds when the loop is entered.                           *)
LEMMA FormatInvInit == FormatInit => FormatInv
<1> SUFFICES ASSUME FormatInit PROVE FormatInv
  OBVIOUS
<1>1. free_sects \in Nat /\ free_sects > 1
  BY FormatAssumption DEF FormatInit
<1>2. DIV_ROUND_UP(free_sects, BITS_PER_SECTOR) \in Int
  BY <1>1, FormatAssumption, RoundUp
<1>3. /\ prev_block_bitmap_sects = 0 /\ block_bitmap_bit_len = 0
      /\ block_bitmap_sects = DIV_ROUND_UP(free_sects, BITS_PER_SECTOR)
      /\ ~formatted /\ formatted \in BOOLEAN
  BY Zenon DEF FormatInit
<1>4. prev_block_bitmap_sects \in Int /\ block_bitmap_bit_len \in Int
  BY <1>3
<1> QED
  BY <1>1, <1>2, <1>3, <1>4, Zenon DEF FormatInv

(* A turn of the loop keeps it.                                            *)
LEMMA FormatInvStep == FormatInv /\ [FormatNext]_formatVars => FormatInv'
<1> SUFFICES ASSUME FormatInv, [FormatNext]_formatVars PROVE FormatInv'
  OBVIOUS
<1> USE FormatAssumption
<1>1. CASE SizeBitmap
  <2>1. free_sects - block_bitmap_sects \in Int
    BY DEF FormatInv
  <2>2. DIV_ROUND_UP(free_sects - block_bitmap_sects, BITS_PER_SECTOR) \in Int
    BY <2>1, RoundUp
  <2> QED BY <1>1, <2>1, <2>2 DEF FormatInv, SizeBitmap
<1>2. CASE SizeFound
  BY <1>2 DEF FormatInv, SizeFound
<1>3. CASE UNCHANGED formatVars
  BY <1>3 DEF FormatInv, formatVars
<1> QED
  BY <1>1, <1>2, <1>3 DEF FormatNext

(* When the loop has ended it gives the property.                          *)
LEMMA FormatInvImplies == FormatInv => LayoutFits
<1> SUFFICES ASSUME FormatInv, formatted PROVE LayoutFits
  BY DEF LayoutFits
<1> USE FormatAssumption
<1>1. DIV_ROUND_UP(free_sects, BITS_PER_SECTOR) # 0
  <2>1. free_sects \in Int /\ free_sects > 0
    BY DEF FormatInv
  <2>2. free_sects <= DIV_ROUND_UP(free_sects, BITS_PER_SECTOR) * BITS_PER_SECTOR
    BY <2>1, RoundUp
  <2> QED BY <2>1, <2>2
<1>2. /\ block_bitmap_bit_len = free_sects - block_bitmap_sects
      /\ block_bitmap_sects = DIV_ROUND_UP(block_bitmap_bit_len, BITS_PER_SECTOR)
  BY <1>1 DEF FormatInv
<1>3. /\ block_bitmap_bit_len <= block_bitmap_sects * BITS_PER_SECTOR
      /\ block_bitmap_bit_len > (block_bitmap_sects - 1) * BITS_PER_SECTOR
  BY <1>2, RoundUp DEF FormatInv
<1>4. block_bitmap_sects + block_bitmap_bit_len = free_sects
  BY <1>2 DEF FormatInv
<1>5. ~NoFit
  BY <1>3, <1>4, FitIsNotNoFit DEF FormatInv, NoFit
<1> QED
  BY <1>3, <1>4, <1>5 DEF LayoutFits

(* When the sizing loop of partition_format ends, bitmap and blocks fill   *)
(* the partition exactly and each block has its bit, for every size; and   *)
(* for the sizes of NoFit it does not end.                                 *)
THEOREM LayoutCorrect == FormatSpec => []LayoutFits
<1>1. FormatInit => FormatInv
  BY FormatInvInit
<1>2. FormatInv /\ [FormatNext]_formatVars => FormatInv'
  BY FormatInvStep
<1>3. FormatInv => LayoutFits
  BY FormatInvImplies
<1> QED
  BY <1>1, <1>2, <1>3, PTL DEF FormatSpec
=============================================================================
