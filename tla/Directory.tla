------------------------------ MODULE Directory ------------------------------
(***************************************************************************)
(* fs/dir.c and the path search of fs/fs.c.  A path is the sequence of its *)
(* names, without "." and "..": the shell's make_clear_abs_path has taken  *)
(* them out (FileSystem.tla).  A struct dir is the number of its inode and *)
(* whether it is root_dir itself, which is never closed.  One entry is one *)
(* unit of a directory's size.                                             *)
(***************************************************************************)
EXTENDS Inode

root_dir == [i_no |-> 0, static |-> TRUE]

Entry(filename, inode_no, file_type) ==
  [filename |-> filename, i_no |-> inode_no, f_type |-> file_type]

dir_open(f, inode_no) ==
  [f |-> inode_open(f, inode_no), dir |-> [i_no |-> inode_no, static |-> FALSE]]

dir_close(f, dir) == IF dir.static THEN f ELSE inode_close(f, dir.i_no)

(* The entries of a directory, in the order in which its blocks are read.  *)
EntriesOf(disk, inode) ==
  LET blocks == all_blocks(disk, inode)
      entriesAt(k) == IF blocks[k] = 0 THEN NoEntries
                      ELSE AsEntries(disk.data[blocks[k]])
  IN  [n \in 1..(AllBlocks * EntriesPerSector) |->
         entriesAt((n - 1) \div EntriesPerSector)[(n - 1) % EntriesPerSector]]

(* The entry with this name, NoEntry if there is none.  The type is not    *)
(* looked at: an entry that was cleared has no name.                       *)
search_dir_entry(disk, inode, name) ==
  LET entries == EntriesOf(disk, inode)
      n == SelectInSeq(entries, LAMBDA e : e.filename = name)
  IN  IF n = 0 THEN NoEntry ELSE entries[n]

(* Mutated form: the last entry is left out.                               *)
ReadOneLess(disk, inode) ==
  LET used == SelectSeq(EntriesOf(disk, inode),
                        LAMBDA e : e.f_type # "FT_UNKNOWN")
  IN  SubSeq(used, 1, Min({inode.i_size - 1, Len(used)}))

(* dir_read, called until it returns NULL: the entries in use, until as    *)
(* many as the directory's size were returned.                             *)
dir_read(disk, inode) ==
  LET used == SelectSeq(EntriesOf(disk, inode),
                        LAMBDA e : e.f_type # "FT_UNKNOWN")
  IN  SubSeq(used, 1, Min({inode.i_size, Len(used)}))

dir_is_empty(inode) == inode.i_size = 2

-----------------------------------------------------------------------------
(* A block for a directory that has no room: its address goes into the     *)
(* inode in memory, or into the table on disk.  Block DirectBlocks being   *)
(* free is taken to mean that there is no table yet: the block becomes the *)
(* table, and a second one is needed.                                      *)
WithTable(first, second, inode) ==
  LET f == second.f
      bit == first.lba - f.sb.data_start_lba
      table == TableOf([all_blocks(f.disk, inode) EXCEPT ![DirectBlocks] = second.lba])
  IN  IF second.lba = -1 THEN [f |-> [f EXCEPT !.block_bitmap = @ \ {bit}], lba |-> -1]
      ELSE [f |-> WriteData(SetInode(f, [inode EXCEPT !.i_sectors[DirectBlocks] = first.lba]),
                            first.lba, table),
            lba |-> second.lba]

WithBlock(first, inode, k) ==
  LET f == first.f
      table == TableOf([all_blocks(f.disk, inode) EXCEPT ![k] = first.lba])
  IN  CASE first.lba = -1 -> first
        [] first.lba # -1 /\ k < DirectBlocks ->
             [first EXCEPT !.f = SetInode(f, [inode EXCEPT !.i_sectors[k] = first.lba])]
        [] first.lba # -1 /\ k = DirectBlocks ->
             WithTable(first, AllocAndSync(f), inode)
        [] first.lba # -1 /\ k > DirectBlocks ->
             [first EXCEPT !.f = WriteData(f, inode.i_sectors[DirectBlocks], table)]

Grown(f, dir) ==
  LET inode == InodeOf(f, dir.i_no)
  IN  SetInode(f, [inode EXCEPT !.i_size = @ + 1])

EnterNew(new, dir, entry) ==
  IF new.lba = -1 THEN [f |-> new.f, ok |-> FALSE]
  ELSE [f |-> Grown(WriteData(new.f, new.lba,
                              EntrySector([NoEntries EXCEPT ![0] = entry])), dir),
        ok |-> TRUE]

EnterOld(f, lba, dir, entry) ==
  LET old == AsEntries(f.disk.data[lba])
      e == Min({x \in DOMAIN old : old[x].f_type = "FT_UNKNOWN"})
  IN  [f |-> Grown(WriteData(f, lba, EntrySector([old EXCEPT ![e] = entry])), dir),
       ok |-> TRUE]

EnterAt(f, dir, entry, blocks, k) ==
  IF blocks[k] # 0 THEN EnterOld(f, blocks[k], dir, entry)
  ELSE EnterNew(WithBlock(AllocAndSync(f), InodeOf(f, dir.i_no), k), dir, entry)

(* The entry goes into the first free place: a cleared entry, or the start *)
(* of a new block.  The directory grows in memory; the caller writes its   *)
(* inode.                                                                  *)
sync_dir_entry(f, dir, entry) ==
  LET blocks == all_blocks(f.disk, InodeOf(f, dir.i_no))
      room(k) == \/ blocks[k] = 0
                 \/ \E e \in DOMAIN NoEntries :
                      AsEntries(f.disk.data[blocks[k]])[e].f_type = "FT_UNKNOWN"
      places == {k \in DOMAIN blocks : room(k)}
  IN  IF places = {} THEN [f |-> f, ok |-> FALSE]
      ELSE EnterAt(f, dir, entry, blocks, Min(places))

-----------------------------------------------------------------------------
(* The entry of an inode leaves its directory.  A block other than the     *)
(* first whose last entry it is goes back to the bitmap, and keeps its     *)
(* contents; for a block of the table the loop that counts the blocks of   *)
(* the table does not advance, and never ends.                             *)
delete_dir_entry(f, dir, inode_no) ==
  LET inode == InodeOf(f, dir.i_no)
      blocks == all_blocks(f.disk, inode)
      entries(k) == AsEntries(f.disk.data[blocks[k]])
      named(k) == {e \in DOMAIN NoEntries :
                     /\ entries(k)[e].f_type # "FT_UNKNOWN"
                     /\ entries(k)[e].filename \notin {".", ".."}}
      hits(k) == {e \in named(k) : entries(k)[e].i_no = inode_no}
      found == {k \in DOMAIN blocks : blocks[k] # 0 /\ hits(k) # {}}
      k == Min(found)
      isFirst == \E e \in DOMAIN NoEntries : entries(k)[e].filename = "."
      checked == ASSERT(f, Cardinality(hits(k)) = 1)
      cleared == [entries(k) EXCEPT ![Min(hits(k))] = NoEntry]
      shrunk(g, i) == LET j == [i EXCEPT !.i_size = @ - 1]
                      IN  inode_sync(SetInode(g, j), j)
  IN  CASE found = {} -> f
        [] found # {} /\ (Cardinality(named(k)) > 1 \/ isFirst) ->
             shrunk(WriteData(checked, blocks[k], EntrySector(cleared)), inode)
        [] found # {} /\ Cardinality(named(k)) = 1 /\ ~isFirst ->
             IF k >= DirectBlocks
             THEN [FreeBlock(checked, blocks[k]) EXCEPT !.fate = "hang"]
             ELSE shrunk(FreeBlock(checked, blocks[k]),
                         [inode EXCEPT !.i_sectors[k] = 0])

(* The directory child leaves parent; only its first block may be in use.  *)
dir_remove(f, parent, child) ==
  LET inode == InodeOf(f, child.i_no)
      checked == ASSERT(f, \A k \in 1..DirectBlocks : inode.i_sectors[k] = 0)
  IN  inode_release(delete_dir_entry(checked, parent, child.i_no), child.i_no)

-----------------------------------------------------------------------------
(* search_file goes down the path one name at a time.  It stops at the     *)
(* first name that is missing, and at the first that is a regular file,    *)
(* the last name of the path or not.  The directory it stopped in stays    *)
(* open for the caller.  For a directory that is found that is its parent, *)
(* which is opened again.                                                  *)
Descend(s, e) ==
  LET next == dir_open(dir_close(s.f, s.parent_dir), e.i_no)
      here == [s EXCEPT !.depth = @ + 1, !.i_no = e.i_no, !.file_type = e.f_type]
  IN  CASE e.f_type = "FT_UNKNOWN" -> [here EXCEPT !.i_no = -1]
        [] e.f_type = "FT_REGULAR" -> here
        [] e.f_type = "FT_DIRECTORY" ->
             [here EXCEPT !.f = next.f, !.parent_dir = next.dir,
                          !.parent_inode_no = s.parent_dir.i_no]

SearchStep(s, name) ==
  IF s.f.fate # "runs" \/ s.file_type # "FT_DIRECTORY" THEN s
  ELSE Descend(s, search_dir_entry(s.f.disk, InodeOf(s.f, s.parent_dir.i_no), name))

Arrived(s) ==
  LET parent == dir_open(dir_close(s.f, s.parent_dir), s.parent_inode_no)
  IN  IF s.depth = 0 \/ s.f.fate # "runs" \/ s.file_type # "FT_DIRECTORY" THEN s
      ELSE [s EXCEPT !.f = parent.f, !.parent_dir = parent.dir]

search_file(f, path) ==
  Arrived(FoldLeft(SearchStep,
                   [f |-> f, i_no |-> 0, file_type |-> "FT_DIRECTORY", depth |-> 0,
                    parent_dir |-> root_dir, parent_inode_no |-> 0],
                   path))
=============================================================================
