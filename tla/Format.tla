------------------------------- MODULE Format -------------------------------
(***************************************************************************)
(* partition_format of fs/fs.c: how many sectors of a new partition its    *)
(* block bitmap takes.  The bitmap needs a bit for every sector that is    *)
(* left, and every sector given to the bitmap is one less, so the code     *)
(* tries again until the number stops changing.                            *)
(***************************************************************************)
EXTENDS Integers

CONSTANTS BITS_PER_SECTOR,  \* 4096 in the code
          used_sects,       \* boot block, super block, inode bitmap, inode table
          SecCnts           \* the sizes of a partition, in sectors

ASSUME FormatAssumption ==
  /\ BITS_PER_SECTOR \in Nat \ {0}
  /\ used_sects \in Nat
  /\ SecCnts \subseteq {n \in Nat : n > used_sects + 1}

VARIABLES free_sects,               \* the sectors after the fixed ones
          block_bitmap_sects, prev_block_bitmap_sects, block_bitmap_bit_len,
          formatted                 \* the loop has ended

formatVars == <<free_sects, block_bitmap_sects, prev_block_bitmap_sects,
                block_bitmap_bit_len, formatted>>

DIV_ROUND_UP(X, STEP) == (X + STEP - 1) \div STEP

FormatInit ==
  \E sec_cnt \in SecCnts :
    /\ free_sects = sec_cnt - used_sects
    /\ prev_block_bitmap_sects = 0
    /\ block_bitmap_sects = DIV_ROUND_UP(free_sects, BITS_PER_SECTOR)
    /\ block_bitmap_bit_len = 0
    /\ formatted = FALSE

(* Mutated form: the sectors of the bitmap are counted as blocks too.      *)
SizeBitmapWhole ==
  /\ ~formatted
  /\ block_bitmap_sects # prev_block_bitmap_sects
  /\ prev_block_bitmap_sects' = block_bitmap_sects
  /\ block_bitmap_bit_len' = free_sects
  /\ block_bitmap_sects' =
       DIV_ROUND_UP(block_bitmap_bit_len', BITS_PER_SECTOR)
  /\ UNCHANGED <<free_sects, formatted>>

(* The body of the loop.                                                   *)
SizeBitmap ==
  /\ ~formatted
  /\ block_bitmap_sects # prev_block_bitmap_sects
  /\ prev_block_bitmap_sects' = block_bitmap_sects
  /\ block_bitmap_bit_len' = free_sects - block_bitmap_sects
  /\ block_bitmap_sects' =
       DIV_ROUND_UP(block_bitmap_bit_len', BITS_PER_SECTOR)
  /\ UNCHANGED <<free_sects, formatted>>

(* The loop's condition fails; the rest of the function writes the disk.   *)
SizeFound ==
  /\ ~formatted
  /\ block_bitmap_sects = prev_block_bitmap_sects
  /\ formatted' = TRUE
  /\ UNCHANGED <<free_sects, block_bitmap_sects, prev_block_bitmap_sects,
                 block_bitmap_bit_len>>

FormatNext == SizeBitmap \/ SizeFound

FormatSpec == FormatInit /\ [][FormatNext]_formatVars

-----------------------------------------------------------------------------
(* A size for which no number of sectors is right: with one sector less    *)
(* the bitmap is too short, with one more its last sector is not needed.   *)
NoFit == free_sects % (BITS_PER_SECTOR + 1) = 1

(* When the loop ends, bitmap and data blocks fill the sectors exactly:    *)
(* there is a bit for every block, and the last sector of the bitmap is    *)
(* needed.  For the sizes of NoFit the loop does not end.                  *)
LayoutFits ==
  formatted =>
    /\ block_bitmap_sects + block_bitmap_bit_len = free_sects
    /\ block_bitmap_bit_len <= block_bitmap_sects * BITS_PER_SECTOR
    /\ block_bitmap_bit_len > (block_bitmap_sects - 1) * BITS_PER_SECTOR
    /\ ~NoFit
=============================================================================
