------------------------------ MODULE FileSystem ------------------------------
(***************************************************************************)
(* The file system of a partition: partition_format and filesys_init, the  *)
(* system calls of fs/fs.c and the commands of shell/buildin_cmd.c that    *)
(* make them, one call at a time.  The power may fail between two calls    *)
(* and after every sector that a call writes.                              *)
(*                                                                         *)
(* Files are created by a kernel thread, as main does: the inode is then   *)
(* kernel memory.  What becomes of a process that closes a file it created *)
(* is in FileTable.tla.                                                    *)
(*                                                                         *)
(* fs is the record that Inode.tla describes, with                         *)
(*   file           the one entry of file_table                            *)
(*   cwd_inode_nr   the caller's working directory                         *)
(*   ret, out       what the last call returned                            *)
(*   full           not in the code: a call has found no free block        *)
(***************************************************************************)
EXTENDS File

CONSTANTS Names,            \* names of files and directories
          CommandPaths,     \* what is typed after a command
          Counts,           \* how many bytes a read or write asks for
          Offsets,          \* where a seek goes
          BITS_PER_BYTE,    \* 8
          MaxDepth,         \* bound: names in a path
          MaxBytes,         \* bound: bytes of all files
          MaxKept           \* bound: handles on a directory that stay open

ASSUME FileSystemAssumption ==
  /\ {BITS_PER_BYTE, Uint32} \subseteq Nat \ {0}
  /\ {MaxDepth, MaxBytes, MaxKept} \subseteq Nat
  /\ MaxBytes < Uint32
  /\ Counts \subseteq Nat
  /\ Offsets \subseteq Int

VARIABLES fs,
          tree              \* not in the code: what the disk holds, by path

vars == <<formatVars, fs, tree>>

Paths == UNION {[1..n -> Names] : n \in 1..MaxDepth}

-----------------------------------------------------------------------------
(* partition_format: what it writes once the sizes are known.  The bits of *)
(* the last byte of the bitmap on are set, as there are no such blocks,    *)
(* and those of that byte that have a block are cleared again.             *)
FormattedBitmap ==
  LET lastByte == (block_bitmap_bit_len \div BITS_PER_BYTE) * BITS_PER_BYTE
  IN  ({0} \cup lastByte..(block_bitmap_sects * BITS_PER_SECTOR - 1))
        \ (lastByte..(block_bitmap_bit_len - 1))

super_block ==
  [data_start_lba |-> used_sects + block_bitmap_sects,
   block_cnt |-> block_bitmap_bit_len,
   block_bits |-> block_bitmap_sects * BITS_PER_SECTOR]

FormattedDisk ==
  LET root == super_block.data_start_lba
      dots == [NoEntries EXCEPT ![0] = Entry(".", 0, "FT_DIRECTORY"),
                                ![1] = Entry("..", 0, "FT_DIRECTORY")]
      free == [i_size |-> 0, i_sectors |-> NoSectors]
  IN  [block_bitmap |-> FormattedBitmap,
       inode_bitmap |-> {0},
       inode_table |-> [n \in 0..(MAX_FILES_PER_PART - 1) |->
                          IF n = 0 THEN [i_size |-> 2,
                                         i_sectors |-> [NoSectors EXCEPT ![0] = root]]
                          ELSE free],
       data |-> [lba \in root..(root + block_bitmap_bit_len - 1) |->
                   IF lba = root THEN EntrySector(dots) ELSE ByteSector(NoBytes)]]

(* mount_partition, open_root_dir and the empty file table, on this disk.  *)
Mounted(f, disk) ==
  inode_open([f EXCEPT !.disk = disk, !.writes = <<>>,
                       !.block_bitmap = disk.block_bitmap,
                       !.inode_bitmap = disk.inode_bitmap,
                       !.open_inodes = <<>>, !.file = NoFile,
                       !.cwd_inode_nr = 0, !.ret = 0, !.out = NoOut,
                       !.fate = "runs"], 0)

-----------------------------------------------------------------------------
(* System calls.                                                           *)

OpenFound(s, path, creat, flag) ==
  LET found == s.i_no # -1
      refused == \/ s.file_type = "FT_DIRECTORY"
                 \/ s.depth # Len(path)
                 \/ found = creat
  IN  IF refused THEN Returns(dir_close(s.f, s.parent_dir), -1)
      ELSE IF creat
      THEN dir_close(file_create(s.f, s.parent_dir, path, flag), s.parent_dir)
      ELSE file_open(s.f, s.i_no, flag, path)     \* parent_dir stays open

sys_open(f, path, creat, flag) == OpenFound(search_file(f, path), path, creat, flag)

sys_write(f, count) ==
  IF f.file.fd_flag = O_RDONLY THEN Returns(f, -1) ELSE file_write(f, count)

(* The new position must be one of the bytes of the file.                  *)
sys_lseek(f, offset, whence) ==
  LET size == InodeOf(f, f.file.fd_inode).i_size
      pos == CASE whence = "SEEK_SET" -> offset
               [] whence = "SEEK_CUR" -> f.file.fd_pos + offset
               [] whence = "SEEK_END" -> size + offset
  IN  IF pos < 0 \/ pos > size - 1 THEN Returns(f, -1)
      ELSE Returns([f EXCEPT !.file.fd_pos = pos], pos)

(* An open file is not removed.                                            *)
sys_unlink(f, path) ==
  LET s == search_file(f, path)
      g == ASSERT(s.f, s.i_no # 0)
      inUse == f.file.fd_inode = s.i_no
      removed == inode_release(delete_dir_entry(g, s.parent_dir, s.i_no), s.i_no)
  IN  IF s.i_no = -1 \/ s.file_type = "FT_DIRECTORY" \/ inUse
      THEN Returns(dir_close(g, s.parent_dir), -1)
      ELSE Returns(dir_close(removed, s.parent_dir), 0)

(* The new directory's block, with its own two entries, is on disk before  *)
(* the entry in the parent.  If there is no room for the entry the number  *)
(* is given back, and the block is not.                                    *)
sys_mkdir(f, path) ==
  LET s == search_file(f, path)
      a == inode_bitmap_alloc(s.f)
      b == AllocAndSync(a.f)
      dots == [NoEntries EXCEPT
                 ![0] = Entry(".", a.i_no, "FT_DIRECTORY"),
                 ![1] = Entry("..", s.parent_dir.i_no, "FT_DIRECTORY")]
      new == [inode_init(a.i_no) EXCEPT !.i_sectors[0] = b.lba, !.i_size = 2]
      e == sync_dir_entry(WriteData(b.f, b.lba, EntrySector(dots)), s.parent_dir,
                          Entry(Last(path), a.i_no, "FT_DIRECTORY"))
      parent == inode_sync(e.f, InodeOf(e.f, s.parent_dir.i_no))
      synced == bitmap_sync_inodes(inode_sync(parent, new), a.i_no)
      close(g, value) == Returns(dir_close(g, s.parent_dir), value)
      rollback(g) == close([g EXCEPT !.inode_bitmap = @ \ {a.i_no}], -1)
  IN  IF s.f.fate # "runs" \/ s.i_no # -1 \/ s.depth # Len(path) \/ a.i_no = -1
      THEN close(s.f, -1)
      ELSE IF b.lba = -1 THEN rollback(b.f)
      ELSE IF ~e.ok THEN rollback(e.f)
      ELSE close(synced, 0)

(* An empty directory is removed, whoever has it open or works in it.      *)
sys_rmdir(f, path) ==
  LET s == search_file(f, path)
      g == ASSERT(s.f, s.i_no # 0)
      d == dir_open(g, s.i_no)
      close(h, value) == Returns(dir_close(h, s.parent_dir), value)
  IN  IF s.i_no = -1 \/ s.file_type = "FT_REGULAR" \/ g.fate # "runs" THEN close(g, -1)
      ELSE IF ~dir_is_empty(InodeOf(d.f, s.i_no)) \/ d.f.fate # "runs"
      THEN close(dir_close(d.f, d.dir), -1)
      ELSE close(dir_close(dir_remove(d.f, s.parent_dir, d.dir), d.dir), 0)

sys_chdir(f, path) ==
  LET s == search_file(f, path)
      g == dir_close(s.f, s.parent_dir)
  IN  IF s.i_no # -1 /\ s.file_type = "FT_DIRECTORY"
      THEN Returns([g EXCEPT !.cwd_inode_nr = s.i_no], 0)
      ELSE Returns(g, -1)

(* The inode of a file or directory is opened to see its size.             *)
StatFound(s) ==
  LET g == inode_open(s.f, s.i_no)
      h == inode_close([g EXCEPT !.out.size = InodeOf(g, s.i_no).i_size], s.i_no)
  IN  IF s.i_no = -1 \/ s.f.fate # "runs" THEN Returns(dir_close(s.f, s.parent_dir), -1)
      ELSE Returns(dir_close(h, s.parent_dir), 0)

sys_stat(f, path) == StatFound(search_file(f, path))

(* The directory is opened, and its parent closed.                         *)
OpenDir(s) ==
  LET d == dir_open(s.f, s.i_no)
  IN  [d EXCEPT !.f = dir_close(@, s.parent_dir)]

sys_opendir(f, path) ==
  IF path = <<>> THEN [f |-> f, dir |-> root_dir] ELSE OpenDir(search_file(f, path))

(* The entry ".." in the first block of a directory.                       *)
get_parent_dir_inode_nr(f, child) ==
  LET g == inode_open(f, child)
      lba == InodeOf(g, child).i_sectors[0]
      h == ASSERT(inode_close(g, child), lba >= f.sb.data_start_lba)
      dotdot == AsEntries(f.disk.data[lba])[1]
  IN  IF h.fate # "runs" THEN [f |-> h, i_no |-> -1]
      ELSE [f |-> ASSERT(h, dotdot.f_type = "FT_DIRECTORY"), i_no |-> dotdot.i_no]

(* The entry in the parent that has the child's number.                    *)
get_child_dir_name(f, p_inode_nr, c_inode_nr) ==
  LET g == inode_open(f, p_inode_nr)
      entries == EntriesOf(f.disk, InodeOf(g, p_inode_nr))
      place == SelectInSeq(entries, LAMBDA e : e.i_no = c_inode_nr)
  IN  [f |-> inode_close(g, p_inode_nr),
       entry |-> IF g.fate # "runs" \/ place = 0 THEN NoEntry ELSE entries[place]]

(* One turn of the loop of sys_getcwd, from a directory to its parent.     *)
Joined(s, p_inode_nr, c) ==
  IF c.entry = NoEntry THEN [s EXCEPT !.f = c.f, !.ok = FALSE]
  ELSE [s EXCEPT !.f = c.f, !.child = p_inode_nr, !.path = <<c.entry.filename>> \o @]

Above(s, p) ==
  IF p.f.fate # "runs" THEN [s EXCEPT !.f = p.f, !.ok = FALSE]
  ELSE Joined(s, p.i_no, get_child_dir_name(p.f, p.i_no, s.child))

Upwards(s, n) ==
  IF s.child = 0 \/ ~s.ok THEN s
  ELSE Above(s, get_parent_dir_inode_nr(s.f, s.child))

(* The names from the root down to the working directory.  The way up is   *)
(* no longer than there are inodes.                                        *)
sys_getcwd(f) ==
  LET s == FoldLeft(Upwards, [f |-> f, child |-> f.cwd_inode_nr, path |-> <<>>, ok |-> TRUE],
                    [n \in 1..MAX_FILES_PER_PART |-> n])
  IN  IF s.ok THEN Returns([s.f EXCEPT !.out.path = s.path], 0) ELSE Returns(s.f, -1)

-----------------------------------------------------------------------------
(* The shell.                                                              *)

(* ".." takes the last name away, if there is one; "." is left out.        *)
wash_path(names) ==
  LET wash(path, name) == CASE name = ".." -> IF path = <<>> THEN path ELSE Front(path)
                            [] name = "." -> path
                            [] OTHER -> Append(path, name)
  IN  FoldLeft(wash, <<>>, names)

(* What was typed, made absolute with the help of getcwd.  When the        *)
(* working directory has no name, the shell's own assertion fails.         *)
Below(c, names) ==
  [f |-> [ASSERT(c, c.ret = 0) EXCEPT !.out = NoOut],
   path |-> wash_path(c.out.path \o names)]

make_clear_abs_path(f, typed) ==
  IF typed.absolute THEN [f |-> f, path |-> wash_path(typed.names)]
  ELSE Below(sys_getcwd(f), typed.names)

(* ls of a file or directory: stat, then opendir, readdir to the end and   *)
(* closedir.  The long form also makes a stat of every entry; should one   *)
(* fail, the directory stays open.                                         *)
ListEntries(f, dir, listed, path, long_info) ==
  LET look(g, e) == IF g.ret = -1 THEN g ELSE sys_stat(g, Append(path, e.filename))
      seen == IF long_info THEN FoldLeft(look, f, listed) ELSE f
      names == {listed[n].filename : n \in DOMAIN listed} \ {".", ".."}
  IN  IF seen.ret = -1 THEN seen
      ELSE dir_close([seen EXCEPT !.out = [f.out EXCEPT !.names = names]], dir)

ListDir(d, path, long_info) ==
  ListEntries(d.f, d.dir, dir_read(d.f.disk, InodeOf(d.f, d.dir.i_no)), path, long_info)

Listing(f, path, long_info) ==
  IF f.ret # -1 /\ search_file(f, path).file_type = "FT_DIRECTORY"
  THEN ListDir(sys_opendir(f, path), path, long_info) ELSE f

buildin_ls(f, path, long_info) == Listing(sys_stat(f, path), path, long_info)

-----------------------------------------------------------------------------
(* What is on the disk.                                                    *)

Walk(disk, path) ==
  LET step(e, name) == IF e.f_type # "FT_DIRECTORY" THEN NoEntry
                       ELSE search_dir_entry(disk, disk.inode_table[e.i_no], name)
  IN  FoldLeft(step, Entry("", 0, "FT_DIRECTORY"), path)

OnDisk(disk) == {p \in Paths : Walk(disk, p).f_type # "FT_UNKNOWN"}

(* The blocks of an inode, its table included.                             *)
BlocksOf(disk, inode) ==
  LET blocks == all_blocks(disk, inode)
  IN  ({blocks[k] : k \in DOMAIN blocks} \cup {inode.i_sectors[DirectBlocks]}) \ {0}

BytesOf(disk, inode) ==
  LET blocks == all_blocks(disk, inode)
  IN  [n \in 1..inode.i_size |->
         AsBytes(disk.data[blocks[(n - 1) \div BLOCK_SIZE]])[(n - 1) % BLOCK_SIZE]]

NodeAt(disk, p) ==
  LET e == Walk(disk, p)
      dir == e.f_type = "FT_DIRECTORY"
  IN  [dir |-> dir,
       bytes |-> IF dir THEN <<>> ELSE BytesOf(disk, disk.inode_table[e.i_no])]

TreeOn(disk) == [p \in OnDisk(disk) |-> NodeAt(disk, p)]

-----------------------------------------------------------------------------
(* The behaviours.                                                         *)

Init ==
  /\ FormatInit
  /\ fs = [sb |-> [data_start_lba |-> 0, block_cnt |-> 0, block_bits |-> 0],
           disk |-> <<>>, writes |-> <<>>, block_bitmap |-> {}, inode_bitmap |-> {},
           open_inodes |-> <<>>, file |-> NoFile, cwd_inode_nr |-> 0,
           ret |-> 0, out |-> NoOut, full |-> FALSE, fate |-> "blank"]
  /\ tree = [p \in {} |-> <<>>]

Format == FormatNext /\ UNCHANGED <<fs, tree>>

filesys_init ==
  /\ formatted
  /\ fs.fate = "blank"
  /\ fs' = Mounted([fs EXCEPT !.sb = super_block, !.fate = "runs"], FormattedDisk)
  /\ UNCHANGED <<formatVars, tree>>

(* Nobody reads a free block before it is written: between two calls the   *)
(* model forgets what is in it.                                            *)
Forgotten(disk, sb) ==
  [disk EXCEPT !.data = [lba \in DOMAIN @ |->
     IF lba - sb.data_start_lba \in disk.block_bitmap THEN @[lba]
     ELSE ByteSector(NoBytes)]]

(* A call that ends as g says, or the power fails after one of its writes  *)
(* and the disk is mounted again.  Of what the call returned, the state    *)
(* keeps whether it failed.                                                *)
Ended(g) ==
  [g EXCEPT !.writes = <<>>, !.out = NoOut,
            !.ret = IF g.ret = -1 THEN -1 ELSE 0,
            !.disk = IF g.fate = "runs" THEN Forgotten(@, g.sb) ELSE @]

Torn(g) == {[Mounted(g, disk) EXCEPT !.fate = "torn"] : disk \in ToSet(g.writes)}

Serve(g) ==
  \E next \in {Ended(g)} \cup Torn(g) :
    /\ fs' = next
    /\ tree' = IF next.disk = fs.disk THEN tree ELSE TreeOn(next.disk)
    /\ UNCHANGED formatVars

Asked == [fs EXCEPT !.ret = 0]

Runs == fs.fate = "runs"
HasFile == Runs /\ fs.file # NoFile

Open ==
  \E path \in Paths, flag \in {O_RDONLY, O_RDWR} :
    /\ Runs
    /\ \A n \in DOMAIN fs.open_inodes :
         fs.open_inodes[n].i_no \in {0, fs.file.fd_inode}
           \/ fs.open_inodes[n].i_open_cnts < MaxKept
    /\ Len(path) = 1 \/ MaxKept > 0
    /\ Serve(sys_open(Asked, path, FALSE, flag))

Create == \E path \in Paths : Runs /\ Serve(sys_open(Asked, path, TRUE, O_RDWR))

Close == HasFile /\ Serve(file_close(Asked))

Write ==
  \E count \in Counts :
    /\ HasFile
    /\ MapThenSumSet(LAMBDA p : Len(tree[p].bytes), DOMAIN tree) + count <= MaxBytes
    /\ Serve(sys_write(Asked, count))

Read == \E count \in Counts \ {0} : HasFile /\ Serve(file_read(Asked, count))

Lseek ==
  \E offset \in Offsets, whence \in {"SEEK_SET", "SEEK_CUR", "SEEK_END"} :
    HasFile /\ Serve(sys_lseek(Asked, offset, whence))

(* A command of the shell and the path that it works on.                   *)
Execute(call(_, _), c) ==
  /\ Len(c.path) <= MaxDepth
  /\ Serve(IF c.f.fate = "runs" THEN call(c.f, c.path) ELSE c.f)

Command(call(_, _)) ==
  \E typed \in CommandPaths : Runs /\ Execute(call, make_clear_abs_path(Asked, typed))

NotRoot(call(_, _), f, path) == IF path = <<>> THEN Returns(f, -1) ELSE call(f, path)

buildin_mkdir == Command(LAMBDA f, path : NotRoot(sys_mkdir, f, path))
buildin_rmdir == Command(LAMBDA f, path : NotRoot(sys_rmdir, f, path))
buildin_rm == Command(LAMBDA f, path : NotRoot(sys_unlink, f, path))
buildin_cd == Command(sys_chdir)

(* No path is given.                                                       *)
ListCwd(c) == Serve(IF c.ret = 0 THEN buildin_ls(c, c.out.path, FALSE) ELSE c)

(* With a path the long form, as the short one makes fewer calls.          *)
Ls ==
  \/ Command(LAMBDA f, path : buildin_ls(f, path, TRUE))
  \/ Runs /\ ListCwd(sys_getcwd(Asked))

buildin_pwd == Runs /\ Serve(sys_getcwd(Asked))

(* The power fails between two calls.                                      *)
Reboot ==
  /\ Runs
  /\ fs' = Mounted(fs, fs.disk)
  /\ UNCHANGED <<formatVars, tree>>

Next ==
  \/ Format \/ filesys_init \/ Reboot
  \/ Open \/ Create \/ Close \/ Write \/ Read \/ Lseek
  \/ buildin_mkdir \/ buildin_rmdir \/ buildin_rm \/ buildin_cd \/ Ls \/ buildin_pwd

Spec == Init /\ [][Next]_vars

-----------------------------------------------------------------------------
T == INSTANCE Tree WITH
       MaxLength <- MaxBytes,
       file <- [path |-> fs.file.path, pos |-> fs.file.fd_pos],
       failed <- fs.ret = -1,
       up <- fs.fate \in {"blank", "runs"}

(* The disk always holds the tree that the calls made so far describe,     *)
(* whatever blocks and directory entries were given back and taken again,  *)
(* across restarts.  A call that fails changes nothing, and a power        *)
(* failure in the middle of a call leaves the tree as it was or as the     *)
(* call leaves it.                                                         *)
ImplementsTree == T!Spec

(* The bitmaps mark only inodes and bits that there are, and an inode in   *)
(* the list has a user: inode_close takes it out with the last.            *)
TypeOK ==
  /\ fs.fate \in {"blank", "runs", "panic", "hang", "stale", "torn"}
  /\ fs.full \in BOOLEAN /\ fs.ret \in {-1, 0}
  /\ fs.inode_bitmap \subseteq 0..(MAX_FILES_PER_PART - 1)
  /\ fs.block_bitmap \subseteq 0..(fs.sb.block_bits - 1)
  /\ fs.cwd_inode_nr \in 0..(MAX_FILES_PER_PART - 1)
  /\ \A n \in DOMAIN fs.open_inodes :
       /\ fs.open_inodes[n].i_no \in 0..(MAX_FILES_PER_PART - 1)
       /\ fs.open_inodes[n].i_open_cnts \in Nat \ {0}

(* The numbers of the inodes that have a path, and their blocks.           *)
Reached == {0} \cup {Walk(fs.disk, p).i_no : p \in DOMAIN tree}
Owned == [n \in Reached |-> BlocksOf(fs.disk, fs.disk.inode_table[n])]
Exclusive(owned) == \A m, n \in DOMAIN owned : m < n => owned[m] \cap owned[n] = {}
OwnedBlocks == UNION {BlocksOf(fs.disk, fs.disk.inode_table[n]) : n \in Reached}
Lbas(sb, bits) == {sb.data_start_lba + b : b \in bits \cap 0..(sb.block_cnt - 1)}

(* No block belongs to two files or directories, or to one and to the free *)
(* blocks.  The bitmaps on disk and in memory agree with each other and    *)
(* with the tree, unless a call has run out of blocks: then some that it   *)
(* took may be lost.                                                       *)
BlocksAccounted ==
  Runs =>
    /\ Exclusive(Owned)
    /\ fs.disk.inode_bitmap = Reached
    /\ fs.inode_bitmap = fs.disk.inode_bitmap
    /\ fs.disk.block_bitmap \subseteq fs.block_bitmap
    /\ IF fs.full THEN OwnedBlocks \subseteq Lbas(fs.sb, fs.disk.block_bitmap)
       ELSE /\ OwnedBlocks = Lbas(fs.sb, fs.block_bitmap)
            /\ fs.block_bitmap = fs.disk.block_bitmap

(* Between two calls an inode in the list is the inode on disk, and the    *)
(* calls have given back what they opened: the root is held once, and so   *)
(* is the open file.  Only directories whose files were opened are kept.   *)
CacheCoherent ==
  Runs =>
    /\ \A n \in DOMAIN fs.open_inodes :
         LET inode == fs.open_inodes[n]
             onDisk == fs.disk.inode_table[inode.i_no]
         IN  \/ inode.freed
             \/ /\ inode.i_size = onDisk.i_size
                /\ fs.full \/ inode.i_sectors = onDisk.i_sectors
                /\ inode.i_no \in {0, fs.file.fd_inode} => inode.i_open_cnts = 1
                /\ \/ inode.i_no \in {0, fs.file.fd_inode}
                   \/ \E p \in DOMAIN tree : tree[p].dir /\ Walk(fs.disk, p).i_no = inode.i_no
    /\ fs.file # NoFile => Walk(fs.disk, fs.file.path).i_no = fs.file.fd_inode

(* A block that delete_dir_entry has given back, before the directory's    *)
(* inode is written: its one entry is on the way out.                      *)
OnTheWayOut(disk, lba) ==
  Cardinality({e \in DOMAIN NoEntries :
                 AsEntries(disk.data[lba])[e].f_type # "FT_UNKNOWN"}) = 1

(* Wherever the power fails, the disk that is left has no file whose       *)
(* blocks could be given to another file: the bitmap is written before a   *)
(* block is referred to, and a name is gone before its blocks are free.    *)
TornDiskSafe ==
  fs.fate = "torn" =>
    /\ Exclusive(Owned)
    /\ \A lba \in OwnedBlocks \ Lbas(fs.sb, fs.disk.block_bitmap) :
         OnTheWayOut(fs.disk, lba)

(* An assertion of the kernel fails only when a write had run out of       *)
(* blocks, when the working directory was removed, or at the end of a file *)
(* that has all the blocks it can have but one.  No loop is endless.       *)
AssertionsHold ==
  /\ fs.fate # "hang"
  /\ fs.fate = "panic" =>
       \/ fs.full
       \/ fs.cwd_inode_nr \notin {0} \cup {Walk(fs.disk, p).i_no :
                                            p \in {q \in DOMAIN tree : tree[q].dir}}
       \/ /\ fs.file # NoFile
          /\ InodeOf(fs, fs.file.fd_inode).i_size >= BLOCK_SIZE * (AllBlocks - 1)

LsTells(g, p) ==
  LET children == {q \in DOMAIN tree : Len(q) = Len(p) + 1 /\ Front(q) = p}
  IN  g.fate = "runs" =>
        /\ g.ret = 0 /\ g.open_inodes = fs.open_inodes
        /\ g.out.names = {Last(q) : q \in children}
        /\ g.out.size = IF tree[p].dir THEN 2 + Cardinality(children)
                        ELSE Len(tree[p].bytes)

PwdTells(g) ==
  g.fate = "runs" => /\ g.ret = 0
                     /\ Walk(fs.disk, g.out.path).i_no = fs.cwd_inode_nr

ReadTells(g, bytes, count) ==
  g.fate = "runs" /\ g.ret # -1 =>
    g.out.bytes = SubSeq(bytes, fs.file.fd_pos + 1,
                         Min({fs.file.fd_pos + count, Len(bytes)}))

(* In every state the calls that only look see the tree: ls lists a        *)
(* directory's names and its size, pwd returns a path that leads to the    *)
(* working directory, read returns the file's bytes from fd_pos on.        *)
CallsTell ==
  Runs =>
    /\ \A p \in DOMAIN tree : LsTells(buildin_ls(fs, p, FALSE), p)
    /\ PwdTells(sys_getcwd(fs))
    /\ fs.file # NoFile =>
         \A count \in Counts \ {0} :
           ReadTells(file_read(fs, count), tree[fs.file.path].bytes, count)
=============================================================================
