-------------------------------- MODULE Inode --------------------------------
(***************************************************************************)
(* fs/inode.c and the bitmaps of fs/file.c: the inodes of the mounted      *)
(* partition, on disk and in the list of open inodes, and the two bitmaps, *)
(* on disk and in memory.                                                  *)
(*                                                                         *)
(* The operators work on a record f, the whole state of the file system:   *)
(*   sb            the super block: where the data blocks start (block_cnt *)
(*                 of them) and the bits of the block bitmap               *)
(*   disk          the two bitmaps, the inode table and the data sectors   *)
(*   writes        the disk after each ide_write of the call being served  *)
(*   block_bitmap, inode_bitmap    cur_part's bitmaps: the sets of 1 bits  *)
(*   open_inodes   cur_part->open_inodes, the head of the list first       *)
(*   fate          "runs", or how the kernel stopped                       *)
(* and more, which the modules above this one describe.                    *)
(*                                                                         *)
(* A sector holds directory entries, block addresses or bytes of a file.   *)
(* Read as something else than it was written as, it is all zeros.         *)
(***************************************************************************)
EXTENDS Format, Sequences, SequencesExt, FiniteSets, FiniteSetsExt

CONSTANTS DirectBlocks,     \* 12 in the code
          IndirectBlocks,   \* 128
          BLOCK_SIZE,       \* 512
          EntriesPerSector, \* 21
          MAX_FILES_PER_PART,  \* 4096
          Uint8             \* 256, the values of a uint8_t

ASSUME InodeAssumption ==
  /\ {DirectBlocks, IndirectBlocks, BLOCK_SIZE, MAX_FILES_PER_PART, Uint8} \subseteq Nat \ {0}
  /\ EntriesPerSector \in Nat \ {0, 1}

AllBlocks == DirectBlocks + IndirectBlocks        \* 140

NoEntry == [filename |-> "", i_no |-> 0, f_type |-> "FT_UNKNOWN"]
NoByte == <<"", 0>>

NoEntries == [k \in 0..(EntriesPerSector - 1) |-> NoEntry]
NoTable == [k \in 0..(IndirectBlocks - 1) |-> 0]
NoBytes == [k \in 0..(BLOCK_SIZE - 1) |-> NoByte]

EntrySector(entries) == [entries |-> entries]
TableSector(table) == [table |-> table]
ByteSector(bytes) == [bytes |-> bytes]

AsEntries(sector) == IF "entries" \in DOMAIN sector THEN sector.entries ELSE NoEntries
AsTable(sector) == IF "table" \in DOMAIN sector THEN sector.table ELSE NoTable
AsBytes(sector) == IF "bytes" \in DOMAIN sector THEN sector.bytes ELSE NoBytes

(* An assertion that fails stops the kernel: panic_spin of debug.c.        *)
ASSERT(f, condition) ==
  IF condition \/ f.fate # "runs" THEN f ELSE [f EXCEPT !.fate = "panic"]

(* A sector reaches the disk, and the power may fail next.                 *)
ide_write(f, d) ==
  IF f.fate = "runs"
  THEN [f EXCEPT !.disk = d, !.writes = Append(@, d)]
  ELSE f

WriteData(f, lba, sector) == ide_write(f, [f.disk EXCEPT !.data[lba] = sector])

-----------------------------------------------------------------------------
(* The bitmaps.                                                            *)

(* The sector of the bitmap in memory that holds the bit goes to disk.     *)
Synced(onDisk, inMemory, bit) ==
  LET sector == {b \in onDisk \cup inMemory :
                   b \div BITS_PER_SECTOR = bit \div BITS_PER_SECTOR}
  IN  (onDisk \ sector) \cup (inMemory \cap sector)

bitmap_sync_blocks(f, bit) ==
  ide_write(f, [f.disk EXCEPT !.block_bitmap = Synced(@, f.block_bitmap, bit)])

bitmap_sync_inodes(f, bit) ==
  ide_write(f, [f.disk EXCEPT !.inode_bitmap = Synced(@, f.inode_bitmap, bit)])

FreeBits(f) == 0..(f.sb.block_bits - 1) \ f.block_bitmap

(* The lowest free block is taken, in memory; -1 when there is none.       *)
block_bitmap_alloc(f) ==
  IF FreeBits(f) = {} THEN [f |-> [f EXCEPT !.full = TRUE], lba |-> -1]
  ELSE LET bit == Min(FreeBits(f))
       IN  [f |-> [f EXCEPT !.block_bitmap = @ \cup {bit}],
            lba |-> f.sb.data_start_lba + bit]

(* Mutated form: the bitmap stays in memory.                               *)
AllocUnsynced(f) == block_bitmap_alloc(f)

BitSynced(a) ==
  IF a.lba = -1 THEN a
  ELSE [a EXCEPT !.f = bitmap_sync_blocks(@, a.lba - @.sb.data_start_lba)]

(* A block is taken and the bitmap written, as most callers do.            *)
AllocAndSync(f) == BitSynced(block_bitmap_alloc(f))

(* Mutated form: the bitmap stays in memory.                               *)
FreeBlockUnsynced(f, lba) ==
  [f EXCEPT !.block_bitmap = @ \ {lba - f.sb.data_start_lba}]

FreeBlock(f, lba) ==
  LET bit == lba - f.sb.data_start_lba
  IN  bitmap_sync_blocks([f EXCEPT !.block_bitmap = @ \ {bit}], bit)

inode_bitmap_alloc(f) ==
  LET free == 0..(MAX_FILES_PER_PART - 1) \ f.inode_bitmap
  IN  IF free = {} THEN [f |-> f, i_no |-> -1]
      ELSE [f |-> [f EXCEPT !.inode_bitmap = @ \cup {Min(free)}],
            i_no |-> Min(free)]

-----------------------------------------------------------------------------
(* Inodes.  In memory an inode also has its count of users; "freed" tells  *)
(* one whose number was given back while somebody still held it.           *)

NoSectors == [k \in 0..DirectBlocks |-> 0]

inode_init(inode_no) ==
  [i_no |-> inode_no, i_size |-> 0, i_sectors |-> NoSectors,
   i_open_cnts |-> 0, freed |-> FALSE]

(* The place in the list of the inode with this number, 0 if it is not     *)
(* there.                                                                  *)
Place(f, inode_no) ==
  SelectInSeq(f.open_inodes, LAMBDA inode : inode.i_no = inode_no)

InodeOf(f, inode_no) == f.open_inodes[Place(f, inode_no)]

SetInode(f, inode) ==
  [f EXCEPT !.open_inodes[Place(f, inode.i_no)] = inode]

(* Mutated form: the number is cut to one bit.                             *)
SyncCut(f, inode) ==
  ide_write(f, [f.disk EXCEPT !.inode_table[inode.i_no % 2] =
                  [i_size |-> inode.i_size, i_sectors |-> inode.i_sectors]])

(* What inode_sync writes: the number is cut to a uint8_t first.           *)
inode_sync(f, inode) ==
  ide_write(f, [f.disk EXCEPT !.inode_table[inode.i_no % Uint8] =
                  [i_size |-> inode.i_size, i_sectors |-> inode.i_sectors]])

inode_delete(f, inode_no) ==
  ide_write(f, [f.disk EXCEPT !.inode_table[inode_no] =
                  [i_size |-> 0, i_sectors |-> NoSectors]])

(* An inode that is in the list is shared, another is read and put at the  *)
(* head of the list.  To be given an inode that was freed is to work on a  *)
(* file that is gone: the model stops there.                               *)
inode_open(f, inode_no) ==
  LET place == Place(f, inode_no)
      onDisk == f.disk.inode_table[inode_no]
  IN  IF f.fate # "runs" THEN f
      ELSE IF place # 0
      THEN [f EXCEPT !.open_inodes[place].i_open_cnts = @ + 1,
                     !.fate = IF f.open_inodes[place].freed THEN "stale" ELSE @]
      ELSE [f EXCEPT !.open_inodes =
              <<[inode_init(inode_no) EXCEPT !.i_size = onDisk.i_size,
                                             !.i_sectors = onDisk.i_sectors,
                                             !.i_open_cnts = 1]>> \o @]

(* Mutated form: the last user leaves the inode in the list.               *)
CloseTooLate(f, inode_no) ==
  LET place == Place(f, inode_no)
  IN  IF f.fate # "runs" THEN f
      ELSE IF f.open_inodes[place].i_open_cnts = 0
      THEN [f EXCEPT !.open_inodes = RemoveAt(@, place)]
      ELSE [f EXCEPT !.open_inodes[place].i_open_cnts = @ - 1]

inode_close(f, inode_no) ==
  LET place == Place(f, inode_no)
  IN  IF f.fate # "runs" THEN f
      ELSE IF f.open_inodes[place].i_open_cnts = 1
      THEN [f EXCEPT !.open_inodes = RemoveAt(@, place)]
      ELSE [f EXCEPT !.open_inodes[place].i_open_cnts = @ - 1]

(* all_blocks, which a dozen functions collect in the same way: the        *)
(* addresses of an inode's blocks, 0 for none.                             *)
all_blocks(disk, inode) ==
  LET table == inode.i_sectors[DirectBlocks]
  IN  [k \in 0..(AllBlocks - 1) |->
         IF k < DirectBlocks THEN inode.i_sectors[k]
         ELSE IF table = 0 THEN 0
         ELSE AsTable(disk.data[table])[k - DirectBlocks]]

(* all_blocks + 12, written to the table's sector.                         *)
TableOf(blocks) ==
  TableSector([k \in 0..(IndirectBlocks - 1) |-> blocks[k + DirectBlocks]])

(* Every block of a file or directory is given back, the table first, then *)
(* its number and its inode on disk.  Blocks go back one write at a time.  *)
Released(f, inode_no) ==
  LET inode == InodeOf(f, inode_no)
      blocks == all_blocks(f.disk, inode)
      lbas == SelectSeq(<<inode.i_sectors[DirectBlocks]>> \o
                        [k \in 1..AllBlocks |-> blocks[k - 1]],
                        LAMBDA lba : lba # 0)
      give(g, lba) == FreeBlock(ASSERT(g, lba > f.sb.data_start_lba), lba)
      freed == FoldLeft(give, f, lbas)
      numberFreed == bitmap_sync_inodes(
                       [freed EXCEPT !.inode_bitmap = @ \ {inode_no}], inode_no)
      deleted == inode_delete(numberFreed, inode_no)
  IN  IF f.fate # "runs" THEN f
      ELSE inode_close(SetInode(deleted, [inode EXCEPT !.freed = TRUE]), inode_no)

inode_release(f, inode_no) == Released(inode_open(f, inode_no), inode_no)
=============================================================================
