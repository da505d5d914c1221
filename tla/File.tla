--------------------------------- MODULE File ---------------------------------
(***************************************************************************)
(* fs/file.c: creating, opening, closing, writing and reading a file.  One *)
(* entry of file_table is modelled, f.file, and the calls of one task: the *)
(* sharing of the table is the subject of FileTable.tla.  path is not in   *)
(* the code: it tells under which path the file was opened.                *)
(*                                                                         *)
(* What a caller writes is told apart by the file's name and the offset.   *)
(***************************************************************************)
EXTENDS Directory

CONSTANT Uint32             \* 2^32, the values of a uint32_t

O_RDONLY == 0
O_RDWR == 2

NoFile == [fd_inode |-> -1, fd_pos |-> 0, fd_flag |-> 0, path |-> <<>>]
Opened(inode_no, flag, path) ==
  [fd_inode |-> inode_no, fd_pos |-> 0, fd_flag |-> flag, path |-> path]

NoOut == [bytes |-> <<>>, names |-> {}, path |-> <<>>, size |-> 0]

Returns(f, value) == [f EXCEPT !.ret = value]

(* The new file's entry, its parent's inode, its own inode and the inode   *)
(* bitmap are written in this order.  What fails gives the number back, in *)
(* memory, where alone it was taken.                                       *)
NumberBack(f, inode_no) == Returns([f EXCEPT !.inode_bitmap = @ \ {inode_no}], -1)

EntryMade(s, parent_dir, inode_no) ==
  LET new == inode_init(inode_no)
      parent == inode_sync(s.f, InodeOf(s.f, parent_dir.i_no))
      synced == bitmap_sync_inodes(inode_sync(parent, new), inode_no)
  IN  IF ~s.ok THEN NumberBack([s.f EXCEPT !.file = NoFile], inode_no)
      ELSE Returns([synced EXCEPT !.open_inodes =
                      <<[new EXCEPT !.i_open_cnts = 1]>> \o @], 3)

NumberTaken(a, parent_dir, path, flag) ==
  IF a.i_no = -1 THEN Returns(a.f, -1)
  ELSE IF a.f.file # NoFile THEN NumberBack(a.f, a.i_no)
  ELSE EntryMade(sync_dir_entry([a.f EXCEPT !.file = Opened(a.i_no, flag, path)],
                                parent_dir, Entry(Last(path), a.i_no, "FT_REGULAR")),
                 parent_dir, a.i_no)

file_create(f, parent_dir, path, flag) ==
  NumberTaken(inode_bitmap_alloc(f), parent_dir, path, flag)

file_open(f, inode_no, flag, path) ==
  IF f.file # NoFile THEN Returns(f, -1)
  ELSE Returns([inode_open(f, inode_no) EXCEPT
                  !.file = Opened(inode_no, flag, path)], 3)

file_close(f) ==
  Returns([inode_close(f, f.file.fd_inode) EXCEPT !.file = NoFile], 0)

-----------------------------------------------------------------------------
(* file_write, first part: the blocks.                                     *)

(* Block k of the file that is being written; s.blocks collects them.      *)
Grow(s, a, k) ==
  LET inode == InodeOf(s.f, s.f.file.fd_inode)
      kept == IF k >= DirectBlocks THEN a.f
              ELSE SetInode(ASSERT(a.f, inode.i_sectors[k] = 0),
                            [inode EXCEPT !.i_sectors[k] = a.lba])
  IN  IF a.lba = -1 THEN [s EXCEPT !.f = a.f, !.ok = FALSE]
      ELSE [s EXCEPT !.f = bitmap_sync_blocks(kept, a.lba - a.f.sb.data_start_lba),
                     !.blocks[k] = a.lba]

NewFileBlock(s, k) == IF s.ok THEN Grow(s, block_bitmap_alloc(s.f), k) ELSE s

NewFileBlocks(f, inode, has, will) ==
  FoldLeft(NewFileBlock, [f |-> f, blocks |-> all_blocks(f.disk, inode), ok |-> TRUE],
           [n \in 1..(will - has) |-> has + n - 1])

(* New blocks of the table are written once all are found.                 *)
WriteTable(s, lba) ==
  IF s.ok THEN [s EXCEPT !.f = WriteData(@, lba, TableOf(s.blocks))] ELSE s

(* The block of a new table is marked in memory, and reaches the disk with *)
(* the next block that is marked in the same sector of the bitmap.         *)
NewTable(a, inode, has, will) ==
  IF a.lba = -1 THEN [NewFileBlocks(a.f, inode, has, has) EXCEPT !.ok = FALSE]
  ELSE WriteTable(NewFileBlocks(
                    SetInode(ASSERT(a.f, inode.i_sectors[DirectBlocks] = 0),
                             [inode EXCEPT !.i_sectors[DirectBlocks] = a.lba]),
                    inode, has, will), a.lba)

(* The three cases of file_write that need more blocks: they fit the       *)
(* direct ones, the table is new, the table is there.                      *)
FileBlocks(f, inode, has, will) ==
  LET table == inode.i_sectors[DirectBlocks]
      hasTable == ASSERT(f, table # 0)
  IN  CASE will = has ->
             NewFileBlocks(IF has <= DirectBlocks THEN f ELSE hasTable, inode, has, will)
        [] will > has /\ will <= DirectBlocks ->
             NewFileBlocks(ASSERT(f, inode.i_sectors[has - 1] # 0), inode, has, will)
        [] will > has /\ has <= DirectBlocks /\ will > DirectBlocks ->
             NewTable(block_bitmap_alloc(f), inode, has, will)
        [] will > has /\ has > DirectBlocks ->
             WriteTable(NewFileBlocks(hasTable, inode, has, will), table)

(* Mutated form: the first block is not read before it is written.         *)
ChunkUnread(s, n) ==
  LET inode == InodeOf(s.f, s.f.file.fd_inode)
      size == inode.i_size
      lba == s.blocks[size \div BLOCK_SIZE]
      off == size % BLOCK_SIZE
      chunk == Min({s.left, BLOCK_SIZE - off})
      new == [b \in DOMAIN NoBytes |->
                IF b \in off..(off + chunk - 1)
                THEN <<Last(s.f.file.path), size + b - off>> ELSE NoByte]
  IN  [s EXCEPT !.f = SetInode(WriteData(s.f, lba, ByteSector(new)),
                               [inode EXCEPT !.i_size = @ + chunk]),
                !.left = @ - chunk]

(* file_write, second part: the data, one block at a time.  The first      *)
(* block is read before it is written, the rest of a later one is zero.    *)
WriteChunk(s, n) ==
  LET inode == InodeOf(s.f, s.f.file.fd_inode)
      size == inode.i_size
      lba == s.blocks[size \div BLOCK_SIZE]
      off == size % BLOCK_SIZE
      chunk == Min({s.left, BLOCK_SIZE - off})
      old == IF n = 1 THEN AsBytes(s.f.disk.data[lba]) ELSE NoBytes
      new == [b \in DOMAIN NoBytes |->
                IF b \in off..(off + chunk - 1)
                THEN <<Last(s.f.file.path), size + b - off>> ELSE old[b]]
  IN  [s EXCEPT !.f = SetInode(WriteData(s.f, lba, ByteSector(new)),
                               [inode EXCEPT !.i_size = @ + chunk]),
                !.left = @ - chunk]

(* The data is written, fd_pos is left on its last byte, and the inode     *)
(* follows.  A block that could not be had ends the call with what was     *)
(* allocated still in the inode in memory.                                 *)
WriteBlocks(b, size, count) ==
  LET chunks == IF count = 0 THEN 0
                ELSE (size + count - 1) \div BLOCK_SIZE - size \div BLOCK_SIZE + 1
      d == FoldLeft(WriteChunk, [f |-> b.f, blocks |-> b.blocks, left |-> count],
                    [n \in 1..chunks |-> n])
      moved == [d.f EXCEPT !.file.fd_pos = (size + count - 1) % Uint32]
  IN  IF ~b.ok \/ b.f.fate # "runs" THEN Returns(b.f, -1)
      ELSE Returns(inode_sync(moved, InodeOf(moved, moved.file.fd_inode)), count)

Appended(f, count) ==
  LET inode == InodeOf(f, f.file.fd_inode)
      has == inode.i_size \div BLOCK_SIZE + 1
      will == (inode.i_size + count) \div BLOCK_SIZE + 1
  IN  IF will > AllBlocks THEN ASSERT(f, FALSE)
      ELSE WriteBlocks(FileBlocks(f, inode, has, will), inode.i_size, count)

(* The first block of an empty file.                                       *)
FirstBlock(a, count) ==
  LET inode == InodeOf(a.f, a.f.file.fd_inode)
  IN  IF a.lba = -1 THEN Returns(a.f, -1)
      ELSE Appended(SetInode(a.f, [inode EXCEPT !.i_sectors[0] = a.lba]), count)

(* The data goes to the end of the file, wherever fd_pos is.               *)
file_write(f, count) ==
  LET inode == InodeOf(f, f.file.fd_inode)
  IN  IF inode.i_size + count > BLOCK_SIZE * AllBlocks THEN Returns(f, -1)
      ELSE IF inode.i_sectors[0] = 0 THEN FirstBlock(AllocAndSync(f), count)
      ELSE Appended(f, count)

-----------------------------------------------------------------------------
(* Mutated form: the count is not cut to what is left of the file.         *)
ReadUncut(f, count) ==
  LET inode == InodeOf(f, f.file.fd_inode)
      pos == f.file.fd_pos
      end == (pos + count) \div BLOCK_SIZE
      checked == ASSERT(f, pos \div BLOCK_SIZE < AllBlocks - 1 /\ end < AllBlocks - 1)
  IN  IF inode.i_size = 0 THEN Returns(f, -1)
      ELSE IF checked.fate # "runs" THEN checked
      ELSE Returns([f EXCEPT !.file.fd_pos = @ + count], count)

(* At most what is left of the file is read, from fd_pos on.               *)
file_read(f, count) ==
  LET inode == InodeOf(f, f.file.fd_inode)
      pos == f.file.fd_pos
      size == IF (pos + count) % Uint32 > inode.i_size
              THEN (inode.i_size - pos) % Uint32 ELSE count
      start == pos \div BLOCK_SIZE
      end == ((pos + size) % Uint32) \div BLOCK_SIZE
      table == inode.i_sectors[DirectBlocks]
      checked == ASSERT(f, /\ start < AllBlocks - 1 /\ end < AllBlocks - 1
                           /\ start # end /\ end >= DirectBlocks => table # 0)
      blocks == all_blocks(f.disk, inode)
      byte(n) == AsBytes(f.disk.data[blocks[n \div BLOCK_SIZE]])[n % BLOCK_SIZE]
  IN  IF size = 0 THEN Returns(f, -1)
      ELSE IF checked.fate # "runs" THEN checked
      ELSE Returns([f EXCEPT !.out.bytes = [n \in 1..size |-> byte(pos + n - 1)],
                             !.file.fd_pos = @ + size], size)
=============================================================================
