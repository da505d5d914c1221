------------------------------ MODULE FileTable ------------------------------
(***************************************************************************)
(* file_table and the descriptors of the tasks: open, create, close and    *)
(* unlink, pipes, fork and exit.  A call that waits for the disk lets the  *)
(* other tasks run, so a call is split at the points where it waits.       *)
(*                                                                         *)
(* Main is the thread of kernel/main.c, which creates a file at boot and   *)
(* keeps it; the other tasks are processes, which make any of the calls.   *)
(* What the calls do to the disk is in FileSystem.tla.  Here a file is its *)
(* inode number, and it has a name or not.  Kernel memory for an inode or  *)
(* a pipe can always be had.                                               *)
(***************************************************************************)
EXTENDS Integers, Sequences, SequencesExt, FiniteSets, FiniteSetsExt

CONSTANTS Tasks, Main,      \* Main is a kernel thread, the others processes
          First,            \* the first process
          Files,            \* inode numbers
          Slots,            \* the places of file_table from 3 on
          Fds,              \* the descriptors of a task from 3 on
          Objects,          \* bound: the inodes that fit in memory
          MaxCount,         \* bound: the users of an inode
          Uint32            \* 2^32, the values of a uint32_t

ASSUME FileTableAssumption ==
  /\ {Main, First} \subseteq Tasks /\ Main # First
  /\ Slots \subseteq Nat \ {0} /\ Fds \subseteq Nat \ {0, 1, 2}
  /\ {Uint32, MaxCount} \subseteq Nat \ {0}
  /\ {IsFiniteSet(Slots), IsFiniteSet(Fds), IsFiniteSet(Tasks)} = {TRUE}

VARIABLES alive,
          fd_table,         \* by task and descriptor
          file_table,
          inodes,           \* the inodes in memory
          open_inodes,      \* cur_part->open_inodes, the head first
          named,            \* files that have a directory entry
          call,             \* what a task waits for
          fate,             \* "runs", or how the tables came to harm
          refused,          \* not in the code: a task had no free descriptor
          overlapped        \* not in the code: a call began while another waited

vars == <<alive, fd_table, file_table, inodes, open_inodes, named, call,
          fate, refused, overlapped>>

NULL == "NULL"
Page == "page"              \* the ring buffer of a pipe
None == -1
FreeSlot == [fd_inode |-> NULL, fd_flag |-> "O_RDONLY", fd_pos |-> 0]
NoInode == [i_no |-> NULL, i_open_cnts |-> 0, write_deny |-> FALSE, user |-> FALSE]
NoCall == [stage |-> "none"]

Init ==
  /\ alive = {Main, First}
  /\ fd_table = [t \in Tasks |-> [d \in Fds |-> None]]
  /\ file_table = [s \in Slots |-> FreeSlot]
  /\ inodes = [o \in Objects |-> NoInode]
  /\ open_inodes = <<>>
  /\ named \in SUBSET Files
  /\ call = [t \in Tasks |-> NoCall]
  /\ fate = "runs"
  /\ refused = FALSE
  /\ overlapped = FALSE

Ready(t) == t \in alive /\ fate = "runs" /\ call[t] = NoCall
In(t, stage) == fate = "runs" /\ call[t].stage = stage

(* The calling task goes on waiting for the disk, or its call ends.        *)
Waits(t, c) ==
  /\ call' = [call EXCEPT ![t] = c]
  /\ overlapped' = (overlapped \/ (call[t] = NoCall /\ \E u \in Tasks : call[u] # NoCall))

Ends(t) ==
  /\ call' = [call EXCEPT ![t] = NoCall]
  /\ overlapped' = (overlapped \/ (call[t] = NoCall /\ \E u \in Tasks : call[u] # NoCall))

-----------------------------------------------------------------------------
(* The tables.  The operators work on a record of them.                    *)

Tables == [fd |-> fd_table, file |-> file_table, inodes |-> inodes,
           list |-> open_inodes, fate |-> fate, refused |-> refused]

Become(s) ==
  /\ fd_table' = s.fd /\ file_table' = s.file /\ inodes' = s.inodes
  /\ open_inodes' = s.list /\ fate' = s.fate /\ refused' = s.refused

FreeSlots(s) == {x \in Slots : s.file[x].fd_inode = NULL}
FreeObjects == {o \in Objects : inodes[o] = NoInode}
Refers(s, x) == {p \in Tasks \X Fds : s.fd[p[1]][p[2]] = x}

(* The lowest free place, None if there is none.                           *)
get_free_slot_in_global(s) == IF FreeSlots(s) = {} THEN None ELSE Min(FreeSlots(s))

(* The lowest free descriptor gets the slot.                               *)
pcb_fd_install(s, t, slot) ==
  LET free == {d \in Fds : s.fd[t][d] = None}
  IN  IF free = {} THEN [s EXCEPT !.refused = TRUE]
      ELSE [s EXCEPT !.fd[t][Min(free)] = slot]

(* An open file or a pipe takes the slot.  If another one is in it, that   *)
(* one is lost; if a descriptor still leads to it, that descriptor now has *)
(* somebody else's file.  The model stops there.                           *)
Take(s, slot, entry) ==
  [s EXCEPT !.file[slot] = entry,
            !.fate = IF s.file[slot].fd_inode # NULL THEN "overwritten"
                     ELSE IF Refers(s, slot) # {} THEN "reused" ELSE @]

(* Mutated form: the list is not searched.                                 *)
NeverListed(list, i_no) == 0

(* Where inode_open finds the inode in the list, 0 if it does not.         *)
Listed(list, i_no) == SelectInSeq(list, LAMBDA o : inodes[o].i_no = i_no)

(* Mutated form: the first user is not counted.                            *)
PushUncounted(s, o, i_no) ==
  [s EXCEPT !.list = <<o>> \o @, !.inodes[o] = [@ EXCEPT !.i_no = i_no]]

(* list_push, once the inode was read: one user so far.                    *)
Push(s, o, i_no) ==
  [s EXCEPT !.list = <<o>> \o @,
            !.inodes[o] = [@ EXCEPT !.i_no = i_no, !.i_open_cnts = 1]]

(* An inode whose last user leaves is freed as kernel memory; for one that *)
(* is in the heap of a process an assertion of sys_free fails.             *)
inode_close(s, o) ==
  IF s.inodes[o].i_open_cnts > 1
  THEN [s EXCEPT !.inodes[o].i_open_cnts = @ - 1]
  ELSE [s EXCEPT !.list = SelectSeq(@, LAMBDA x : x # o),
                 !.inodes[o] = NoInode,
                 !.fate = IF s.inodes[o].user THEN "panic" ELSE @]

(* file_open once it has the inode: the slot is filled whatever is in it   *)
(* by now.  One writer at a time: another one is turned away, and its use  *)
(* of the inode is not taken back.                                         *)
Fill(s, t, slot, o, flag) ==
  LET taken == Take(s, slot, [fd_inode |-> o, fd_flag |-> flag, fd_pos |-> 0])
      denied == flag = "O_RDWR" /\ s.inodes[o].write_deny
      marked == [taken EXCEPT !.inodes[o].write_deny = @ \/ flag = "O_RDWR"]
  IN  IF denied THEN [taken EXCEPT !.file[slot].fd_inode = NULL]
      ELSE pcb_fd_install(marked, t, slot)

(* file_close: whoever closes it lets the next writer in, and the slot is  *)
(* free, even if others share it.                                          *)
file_close(s, slot) ==
  LET o == s.file[slot].fd_inode
  IN  IF o = NULL THEN [s EXCEPT !.fate = "null"]
      ELSE inode_close([s EXCEPT !.inodes[o].write_deny = FALSE,
                                 !.file[slot].fd_inode = NULL], o)

(* The page of a pipe is freed with its last descriptor.                   *)
ClosePipe(s, slot) ==
  [s EXCEPT !.file[slot].fd_pos = (@ - 1) % Uint32,
            !.file[slot].fd_inode = IF s.file[slot].fd_pos = 1 THEN NULL ELSE @]

sys_close(s, t, d) ==
  LET slot == s.fd[t][d]
      closed == IF s.file[slot].fd_flag = "PIPE" THEN ClosePipe(s, slot)
                ELSE file_close(s, slot)
  IN  IF s.fate # "runs" THEN s ELSE [closed EXCEPT !.fd[t][d] = None]

-----------------------------------------------------------------------------
(* Opening a file that has a name.                                         *)

(* search_file has read the entry; the task goes on some time later.       *)
Search ==
  \E t \in Tasks \ {Main}, n \in named, op \in {"O_RDONLY", "O_RDWR", "unlink"} :
    /\ Ready(t)
    /\ Waits(t, [stage |-> "found", i_no |-> n, op |-> op])
    /\ UNCHANGED <<alive, fd_table, file_table, inodes, open_inodes, named, fate, refused>>

(* file_open: a slot is chosen, not yet taken.  An inode in the list is    *)
(* shared; for another one memory is taken, and the disk is read.          *)
file_open ==
  \E t \in Tasks :
    LET c == call[t]
        slot == get_free_slot_in_global(Tables)
        place == Listed(open_inodes, c.i_no)
        o == open_inodes[place]
        shared == [Tables EXCEPT !.inodes[o].i_open_cnts = @ + 1]
    IN  /\ In(t, "found") /\ c.op # "unlink"
        /\ \/ slot = None /\ Ends(t) /\ Become(Tables)
           \/ /\ slot # None /\ place # 0 /\ inodes[o].i_open_cnts < MaxCount
              /\ Become(Fill(shared, t, slot, o, c.op))
              /\ Ends(t)
           \/ /\ slot # None /\ place = 0
              /\ \E new \in FreeObjects :
                   /\ Waits(t, [stage |-> "reading", i_no |-> c.i_no, op |-> c.op,
                                slot |-> slot, obj |-> new])
                   /\ Become([Tables EXCEPT !.inodes[new].i_no = c.i_no])
        /\ UNCHANGED <<alive, named>>

(* The inode has been read.                                                *)
file_open_read ==
  \E t \in Tasks :
    LET c == call[t]
    IN  /\ In(t, "reading")
        /\ Become(Fill(Push(Tables, c.obj, c.i_no), t, c.slot, c.obj, c.op))
        /\ Ends(t)
        /\ UNCHANGED <<alive, named>>

-----------------------------------------------------------------------------
(* Creating a file: the slot is taken at once, the inode joins the list    *)
(* when all is on disk.  Its memory is the caller's.                       *)

Numbers == {inodes[o].i_no : o \in Objects} \cup {call[t].i_no : t \in {u \in Tasks : call[u] # NoCall}}

file_create ==
  \E t \in Tasks, n \in Files \ (named \cup Numbers), o \in FreeObjects :
    LET slot == get_free_slot_in_global(Tables)
        made == [Tables EXCEPT !.inodes[o] = [NoInode EXCEPT !.i_no = n, !.user = t # Main]]
    IN  /\ Ready(t)
        /\ slot # None
        /\ Become(Take(made, slot, [fd_inode |-> o, fd_flag |-> "O_RDWR", fd_pos |-> 0]))
        /\ Waits(t, [stage |-> "creating", i_no |-> n, slot |-> slot, obj |-> o])
        /\ UNCHANGED <<alive, named>>

sync_dir_entry ==
  \E t \in Tasks :
    /\ In(t, "creating")
    /\ named' = named \cup {call[t].i_no}
    /\ Waits(t, [call[t] EXCEPT !.stage = "entered"])
    /\ UNCHANGED <<alive, fd_table, file_table, inodes, open_inodes, fate, refused>>

file_create_end ==
  \E t \in Tasks :
    LET c == call[t]
    IN  /\ In(t, "entered")
        /\ Become(pcb_fd_install(Push(Tables, c.obj, c.i_no), t, c.slot))
        /\ Ends(t)
        /\ UNCHANGED <<alive, named>>

(* There was no room for the entry.                                        *)
file_create_rollback ==
  \E t \in Tasks :
    LET c == call[t]
    IN  /\ In(t, "creating")
        /\ Become([Tables EXCEPT !.file[c.slot] = FreeSlot, !.inodes[c.obj] = NoInode])
        /\ Ends(t)
        /\ UNCHANGED <<alive, named>>

-----------------------------------------------------------------------------
(* Removing a file: refused if a slot has it, then its name goes.          *)
sys_unlink ==
  \E t \in Tasks :
    LET c == call[t]
        inUse == \E s \in Slots : /\ file_table[s].fd_inode \in Objects
                                  /\ inodes[file_table[s].fd_inode].i_no = c.i_no
    IN  /\ In(t, "found") /\ c.op = "unlink"
        /\ \/ inUse /\ Ends(t)
           \/ ~inUse /\ Waits(t, [stage |-> "deleting", i_no |-> c.i_no])
        /\ UNCHANGED <<alive, fd_table, file_table, inodes, open_inodes, named, fate, refused>>

delete_dir_entry ==
  \E t \in Tasks :
    /\ In(t, "deleting")
    /\ named' = named \ {call[t].i_no}
    /\ Waits(t, [call[t] EXCEPT !.stage = "releasing"])
    /\ UNCHANGED <<alive, fd_table, file_table, inodes, open_inodes, fate, refused>>

(* inode_release holds the inode while it writes the bitmaps.  One that is *)
(* not in the list is read first.                                          *)
inode_release ==
  \E t \in Tasks :
    LET n == call[t].i_no
        place == Listed(open_inodes, n)
        shared == [Tables EXCEPT !.inodes[open_inodes[place]].i_open_cnts = @ + 1]
        at(stage, o) == [stage |-> stage, i_no |-> n, obj |-> o]
    IN  /\ In(t, "releasing")
        /\ \/ place # 0 /\ Become(shared) /\ Waits(t, at("held", open_inodes[place]))
           \/ /\ place = 0
              /\ \E new \in FreeObjects :
                   /\ Become([Tables EXCEPT !.inodes[new].i_no = n])
                   /\ Waits(t, at("fetching", new))
        /\ UNCHANGED <<alive, named>>

inode_release_read ==
  \E t \in Tasks :
    LET c == call[t]
    IN  /\ In(t, "fetching")
        /\ Become(Push(Tables, c.obj, c.i_no))
        /\ Waits(t, [c EXCEPT !.stage = "held"])
        /\ UNCHANGED <<alive, named>>

inode_release_end ==
  \E t \in Tasks :
    /\ In(t, "held")
    /\ Become(inode_close(Tables, call[t].obj))
    /\ Ends(t)
    /\ UNCHANGED <<alive, named>>

-----------------------------------------------------------------------------
(* Calls that do not wait.                                                 *)

Close ==
  \E t \in Tasks \ {Main}, d \in Fds :
    /\ Ready(t) /\ fd_table[t][d] # None
    /\ Become(sys_close(Tables, t, d))
    /\ Ends(t)
    /\ UNCHANGED <<alive, named>>

(* A slot with two descriptors.  That there is a free one is not checked:  *)
(* without one the memory before file_table is written.                    *)
sys_pipe ==
  \E t \in Tasks \ {Main} :
    LET slot == get_free_slot_in_global(Tables)
        made == Take(Tables, slot, [fd_inode |-> Page, fd_flag |-> "PIPE", fd_pos |-> 2])
    IN  /\ Ready(t)
        /\ Become(IF slot = None THEN [Tables EXCEPT !.fate = "stray write"]
                  ELSE pcb_fd_install(pcb_fd_install(made, t, slot), t, slot))
        /\ Ends(t)
        /\ UNCHANGED <<alive, named>>

(* Mutated form: a child is not counted as a user of its pipes.            *)
CountFiles(s, t, d) ==
  LET slot == s.fd[t][d]
      o == s.file[slot].fd_inode
  IN  IF slot = None \/ s.fate # "runs" \/ s.file[slot].fd_flag = "PIPE" THEN s
      ELSE IF o = NULL THEN [s EXCEPT !.fate = "null"]
      ELSE [s EXCEPT !.inodes[o].i_open_cnts = @ + 1]

(* update_inode_open_cnts: the child shares what the parent has open.      *)
CountOne(s, t, d) ==
  LET slot == s.fd[t][d]
      o == s.file[slot].fd_inode
  IN  IF slot = None \/ s.fate # "runs" THEN s
      ELSE IF s.file[slot].fd_flag = "PIPE" THEN [s EXCEPT !.file[slot].fd_pos = (@ + 1) % Uint32]
      ELSE IF o = NULL THEN [s EXCEPT !.fate = "null"]
      ELSE [s EXCEPT !.inodes[o].i_open_cnts = @ + 1]

Fork ==
  \E parent \in Tasks \ {Main}, child \in Tasks \ {Main} :
    LET copied == [Tables EXCEPT !.fd[child] = fd_table[parent]]
        count(s, d) == CountOne(s, child, d)
    IN  /\ Ready(parent) /\ child \notin alive
        /\ \A o \in Objects : inodes[o].i_open_cnts < MaxCount
        /\ Become(FoldLeft(count, copied, SetToSortSeq(Fds, <)))
        /\ alive' = alive \cup {child}
        /\ Ends(parent)
        /\ UNCHANGED named

(* release_prog_resource closes the descriptors from 3 on.                 *)
Exit ==
  \E t \in Tasks \ {Main, First} :
    LET shut(s, d) == IF s.fd[t][d] = None THEN s ELSE sys_close(s, t, d)
        closed == FoldLeft(shut, Tables, SetToSortSeq(Fds, <))
    IN  /\ Ready(t)
        /\ Become([closed EXCEPT !.fd[t] = [d \in Fds |-> None]])
        /\ alive' = alive \ {t}
        /\ Ends(t)
        /\ UNCHANGED named

Next ==
  \/ Search \/ file_open \/ file_open_read
  \/ file_create \/ sync_dir_entry \/ file_create_end \/ file_create_rollback
  \/ sys_unlink \/ delete_dir_entry
  \/ inode_release \/ inode_release_read \/ inode_release_end
  \/ Close \/ sys_pipe \/ Fork \/ Exit

Spec == Init /\ [][Next]_vars

-----------------------------------------------------------------------------
SlotsOf(o) == {s \in Slots : file_table[s].fd_inode = o}
MadeBy(o) == {t \in Tasks : call[t].stage \in {"creating", "entered"} /\ call[t].obj = o}

(* However the calls of the tasks interleave, an inode that a slot of      *)
(* file_table refers to is in memory and in the list, with a count that is *)
(* no less than the slots that refer to it, so that no close frees it      *)
(* under another; or it is being created.                                  *)
InodeHeldWhileOpen ==
  fate = "runs" =>
    \A o \in Objects : SlotsOf(o) # {} =>
      \/ MadeBy(o) # {} /\ Cardinality(SlotsOf(o)) = 1
      \/ /\ o \in ToSet(open_inodes)
         /\ inodes[o].i_open_cnts >= Cardinality(SlotsOf(o))

(* A pipe's count is the number of the descriptors that lead to it, over   *)
(* closes, forks and exits in any order, and its page lives just as long   *)
(* as one of them.  Descriptors that a full table refused to sys_pipe are  *)
(* counted all the same.                                                   *)
PipeHeldWhileOpen ==
  fate = "runs" =>
    \A s \in Slots : file_table[s].fd_flag = "PIPE" =>
      /\ file_table[s].fd_pos >= Cardinality(Refers(Tables, s))
      /\ ~refused => file_table[s].fd_pos = Cardinality(Refers(Tables, s))
      /\ (file_table[s].fd_inode = Page) = (file_table[s].fd_pos > 0)

(* As long as no call begins while another waits for the disk, a file has  *)
(* one inode in the list, which all its users share; a file in use has a   *)
(* name, every user is counted, and no open file is lost from its slot.    *)
OneInodePerFile ==
  ~overlapped =>
    /\ fate # "overwritten"
    /\ fate = "runs" => \A p \in DOMAIN open_inodes :
         LET o == open_inodes[p]
             users == UNION {Refers(Tables, s) : s \in SlotsOf(o)}
         IN  /\ \A q \in DOMAIN open_inodes :
                  q # p => inodes[open_inodes[q]].i_no # inodes[o].i_no
             /\ users # {} => inodes[o].i_no \in named
             /\ inodes[o].i_open_cnts >= Cardinality(users)
=============================================================================
