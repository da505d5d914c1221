------------------------------- MODULE Memory -------------------------------
(***************************************************************************)
(* kernel/memory.c, with what sys_fork, sys_execv, sys_exit and            *)
(* thread_exit do to memory: the two pools of page frames, the virtual     *)
(* address bitmaps, the page tables, and the arenas of sys_malloc.         *)
(*                                                                         *)
(* Every operation is a system call after start-up.  It runs with          *)
(* interrupts off and does not sleep while it holds a pool's lock, so it   *)
(* is one step.                                                            *)
(*                                                                         *)
(* An address space is Kernel or a process.  The pages of the kernel's     *)
(* heap, and those of a process from USER_VADDR_START to the stack, are    *)
(* numbered from 0.  All blocks have one size: the seven descriptors of    *)
(* the code share nothing but the pages.                                   *)
(*                                                                         *)
(* Programs are assumed to free only blocks that they have allocated since *)
(* they were forked, and all of those before they call execv: an arena     *)
(* names the descriptor of the task that made it, and the copy that fork   *)
(* makes of the arena still does.                                          *)
(***************************************************************************)
EXTENDS SequencesExt, FiniteSetsExt

CONSTANTS Procs, Init1,     \* the processes, and the first of them
          Kernel,           \* the kernel's address space
          KernelPages,      \* frames of kernel_pool, bits of kernel_vaddr
          UserFrames,       \* frames of user_pool
          UserPages,        \* bits of userprog_vaddr; the last is the stack
          PagesPerTable,    \* pages that one page table maps, 1024 in the code
          BitmapPages,      \* pages of a process' bitmap, 23 in the code
          BitmapWholePages, \* pages that bitmap fills, 22 in the code
          blocks_per_arena,
          LargePages,       \* pages of a request of more than 1024 bytes
          ImagePages,       \* pages of a program, from page 0 on
          MaxHeld,          \* bound: pointers a program holds
          MaxKernelHeld,    \* bound: pointers the kernel holds
          NULL

ASSUME MemoryAssumption ==
  /\ Init1 \in Procs /\ Kernel \notin Procs
  /\ {KernelPages, UserFrames, UserPages, PagesPerTable} \subseteq Nat \ {0}
  /\ BitmapWholePages \in Nat \ {0} /\ BitmapPages >= BitmapWholePages
  /\ {blocks_per_arena, LargePages, ImagePages} \subseteq Nat \ {0}
  /\ ImagePages < UserPages

Spaces == Procs \cup {Kernel}
Stack == UserPages - 1
Frames(s) == IF s = Kernel THEN 0..(KernelPages - 1) ELSE 0..(UserFrames - 1)
Pages(s) == IF s = Kernel THEN 0..(KernelPages - 1) ELSE 0..(UserPages - 1)

VARIABLES mem,        \* pools, bitmaps, page tables; see TypeOK
          proc,       \* the state of each process
          owns,       \* the kernel pages of its task_struct, bitmap, page directory
          arena,      \* the arenas in the memory of each space
          free_list,  \* of the descriptors k_block_descs and u_block_desc
          held        \* the pointers that sys_malloc has given out

heapVars == <<arena, free_list, held>>
vars == <<mem, proc, owns, heapVars>>

ASSERT(m, p) == IF p THEN m ELSE [m EXCEPT !.fate = "panic"]

(* The processor touches a page that is not there.                         *)
Fault(m) == [m EXCEPT !.fate = "fault"]

(* mfree_page reads an entry whose P bit is clear: it fails its ASSERT, or *)
(* frees the frame that the entry held before.                             *)
Stray(m) == [m EXCEPT !.fate = "stray"]

Without(f, S) == [x \in DOMAIN f \ S |-> f[x]]

-----------------------------------------------------------------------------
(* Pages.  An operation whose record m has ok = FALSE does nothing: a      *)
(* caller in the code has already returned.                                *)

(* Mutated form: the run found may go past the end of the bitmap.          *)
bitmap_scan_past(used, all, cnt) ==
  LET starts == {i \in all : i..(i + cnt - 1) \cap used = {}}
  IN  IF starts = {} THEN NULL ELSE Min(starts)

(* The first of cnt clear bits in a row, NULL if there are none.           *)
bitmap_scan(used, all, cnt) ==
  LET starts == {i \in all : i..(i + cnt - 1) \subseteq all \ used}
  IN  IF starts = {} THEN NULL ELSE Min(starts)

(* page_table_add: the page table of a process comes from the kernel's     *)
(* pool.  The code does not look whether it got one, and goes on with a    *)
(* page table at address 0.                                                *)
page_table_add(m, s, v, f) ==
  LET table == v \div PagesPerTable
      t == bitmap_scan(m.kpool, Frames(Kernel), 1)
      new == s # Kernel /\ table \notin DOMAIN m.pde[s]
      n == [m EXCEPT !.pt[s] = (v :> f) @@ @]
  IN  IF ~new THEN ASSERT(n, v \notin DOMAIN m.pt[s])
      ELSE IF t = NULL THEN Fault(n)
      ELSE [n EXCEPT !.kpool = @ \cup {t}, !.pde[s] = (table :> t) @@ @]

(* palloc and page_table_add for one page.                                 *)
map_page(m, s, v) ==
  LET f == bitmap_scan(IF s = Kernel THEN m.kpool ELSE m.upool, Frames(s), 1)
  IN  IF ~m.ok \/ m.fate # "runs" THEN m
      ELSE IF f = NULL THEN [m EXCEPT !.ok = FALSE]
      ELSE page_table_add(IF s = Kernel THEN [m EXCEPT !.kpool = @ \cup {f}]
                          ELSE [m EXCEPT !.upool = @ \cup {f}], s, v, f)

map_pages(m, s, pages) ==
  FoldLeft(LAMBDA n, v : map_page(n, s, v), m, pages)

(* vaddr_get, then the loop.  A loop that stops half way takes nothing     *)
(* back.  Field at is the address returned.                                *)
malloc_page(m, s, cnt) ==
  LET v == bitmap_scan(m.bits[s], Pages(s), cnt)
      n == [ASSERT(m, s = Kernel \/ v # Stack) EXCEPT
              !.bits[s] = @ \cup v..(v + cnt - 1), !.at = v]
  IN  IF ~m.ok THEN m
      ELSE IF v = NULL THEN [m EXCEPT !.ok = FALSE]
      ELSE map_pages(n, s, [i \in 1..cnt |-> v + i - 1])

(* Mutated form: page_table_pte_remove is forgotten.                       *)
mfree_page_mapped(m, s, v, cnt) ==
  LET pages == v..(v + cnt - 1)
      frames == {m.pt[s][w] : w \in pages \cap DOMAIN m.pt[s]}
      n == IF s = Kernel THEN [m EXCEPT !.kpool = @ \ frames]
           ELSE [m EXCEPT !.upool = @ \ frames]
  IN  IF pages \subseteq DOMAIN m.pt[s] THEN [n EXCEPT !.bits[s] = @ \ pages]
      ELSE Stray(m)

(* mfree_page: pfree and page_table_pte_remove for every page, then        *)
(* vaddr_remove.                                                           *)
mfree_page(m, s, v, cnt) ==
  LET pages == v..(v + cnt - 1)
      frames == {m.pt[s][w] : w \in pages \cap DOMAIN m.pt[s]}
      n == IF s = Kernel THEN [m EXCEPT !.kpool = @ \ frames]
           ELSE [m EXCEPT !.upool = @ \ frames]
  IN  IF pages \subseteq DOMAIN m.pt[s]
      THEN [n EXCEPT !.pt[s] = Without(@, pages), !.bits[s] = @ \ pages]
      ELSE Stray(m)

(* Mutated form: the bit is left as it is.                                 *)
get_a_page_no_bit(m, s, v) == map_page(m, s, v)

(* get_a_page, which sets the bit of its page first.                       *)
get_a_page(m, s, v) == map_page([m EXCEPT !.bits[s] = @ \cup {v}], s, v)

-----------------------------------------------------------------------------
(* The heap.                                                               *)

Block(s, v, i) == [space |-> s, page |-> v, idx |-> i]

Blocks(s, v) == {Block(s, v, i) : i \in 1..blocks_per_arena}

Live == {Kernel} \cup {p \in Procs : proc[p] = "live"}

Ready(s) == mem.fate = "runs" /\ s \in Live

(* The call returns.                                                       *)
Done(m) == [m EXCEPT !.ok = TRUE, !.at = NULL]

MayHold(s) ==
  Cardinality(held[s]) < (IF s = Kernel THEN MaxKernelHeld ELSE MaxHeld)

malloc_small(s) ==
  LET grow == free_list[s] = << >>
      m == IF grow THEN malloc_page(mem, s, 1) ELSE mem
      list == IF grow THEN [i \in 1..blocks_per_arena |-> Block(s, m.at, i)]
              ELSE free_list[s]
      a == IF grow THEN (m.at :> [desc |-> s, cnt |-> blocks_per_arena, large |-> FALSE])
                        @@ arena[s]
           ELSE arena[s]
      b == Head(list)
  IN  /\ Ready(s) /\ MayHold(s)
      /\ mem' = Done(m)
      /\ IF m.ok
         THEN /\ free_list' = [free_list EXCEPT ![s] = Tail(list)]
              /\ arena' = [arena EXCEPT ![s] = [a EXCEPT ![b.page].cnt = @ - 1]]
              /\ held' = [held EXCEPT ![s] = @ \cup {<<b.page, b.idx>>}]
         ELSE UNCHANGED heapVars
      /\ UNCHANGED <<proc, owns>>

malloc_large(s) ==
  LET m == malloc_page(mem, s, LargePages)
      a == [desc |-> NULL, cnt |-> LargePages, large |-> TRUE]
  IN  /\ Ready(s) /\ MayHold(s)
      /\ mem' = Done(m)
      /\ IF m.ok
         THEN /\ arena' = [arena EXCEPT ![s] = (m.at :> a) @@ @]
              /\ held' = [held EXCEPT ![s] = @ \cup {<<m.at, 0>>}]
         ELSE UNCHANGED <<arena, held>>
      /\ UNCHANGED <<proc, owns, free_list>>

(* After start-up the kernel allocates only inodes in its own heap, which   *)
(* are small.                                                              *)
sys_malloc(s) == malloc_small(s) \/ (s # Kernel /\ malloc_large(s))

free_large(s, v) ==
  /\ mem' = mfree_page(mem, s, v, arena[s][v].cnt)
  /\ arena' = [arena EXCEPT ![s] = Without(@, {v})]
  /\ UNCHANGED free_list

(* Mutated form: the blocks of an arena that is given back stay listed.    *)
free_block_listed(s, v, i) ==
  LET d == arena[s][v].desc
      list == Append(free_list[d], Block(s, v, i))
      full == arena[s][v].cnt + 1 = blocks_per_arena
  IN  IF full
      THEN /\ mem' = mfree_page(mem, s, v, 1)
           /\ arena' = [arena EXCEPT ![s] = Without(@, {v})]
           /\ free_list' = [free_list EXCEPT ![d] = list]
      ELSE /\ arena' = [arena EXCEPT ![s][v].cnt = @ + 1]
           /\ free_list' = [free_list EXCEPT ![d] = list]
           /\ UNCHANGED mem

(* A block goes to the list of the descriptor its arena names, and an      *)
(* arena all of whose blocks are free is given back.                       *)
free_block(s, v, i) ==
  LET d == arena[s][v].desc
      list == Append(free_list[d], Block(s, v, i))
      full == arena[s][v].cnt + 1 = blocks_per_arena
  IN  IF full
      THEN /\ mem' = mfree_page(ASSERT(mem, Blocks(s, v) \subseteq ToSet(list)), s, v, 1)
           /\ arena' = [arena EXCEPT ![s] = Without(@, {v})]
           /\ free_list' = [free_list EXCEPT ![d] =
                              SelectSeq(list, LAMBDA b : b \notin Blocks(s, v))]
      ELSE /\ arena' = [arena EXCEPT ![s][v].cnt = @ + 1]
           /\ free_list' = [free_list EXCEPT ![d] = list]
           /\ UNCHANGED mem

sys_free(s, ptr) ==
  LET v == ptr[1]
  IN  /\ Ready(s) /\ ptr \in held[s]
      /\ arena[s][v].desc \in {s, NULL}
      /\ IF arena[s][v].large THEN free_large(s, v) ELSE free_block(s, v, ptr[2])
      /\ held' = [held EXCEPT ![s] = @ \ {ptr}]
      /\ UNCHANGED <<proc, owns>>

-----------------------------------------------------------------------------
(* Processes.                                                              *)

Empty == << >>

NoPages == [pcb |-> NULL, bitmap |-> NULL, pgdir |-> NULL]

(* process_execute(init): the page of the task_struct, the bitmap and the  *)
(* page directory.                                                         *)
Init ==
  LET none == [kpool |-> {}, upool |-> {},
               bits |-> [s \in Spaces |-> {}],
               pt |-> [s \in Spaces |-> Empty],
               pde |-> [p \in Procs |-> Empty],
               ok |-> TRUE, at |-> NULL, fate |-> "runs"]
      m1 == malloc_page(none, Kernel, 1)
      m2 == malloc_page(m1, Kernel, BitmapPages)
      m3 == malloc_page(m2, Kernel, 1)
  IN  /\ mem = Done(m3)
      /\ proc = [p \in Procs |-> IF p = Init1 THEN "new" ELSE "none"]
      /\ owns = [p \in Procs |-> IF p = Init1
                                 THEN [pcb |-> m1.at, bitmap |-> m2.at, pgdir |-> m3.at]
                                 ELSE NoPages]
      /\ arena = [s \in Spaces |-> Empty]
      /\ free_list = [s \in Spaces |-> << >>]
      /\ held = [s \in Spaces |-> {}]

(* start_process allocates the stack.                                      *)
start_process(p) ==
  LET m == get_a_page(mem, p, Stack)
  IN  /\ mem.fate = "runs" /\ proc[p] = "new"
      /\ mem' = IF m.ok THEN m ELSE Fault(m)
      /\ proc' = [proc EXCEPT ![p] = "live"]
      /\ UNCHANGED <<owns, heapVars>>

(* get_a_page_without_opvaddrbitmap in the child, and the copy, which      *)
(* touches the page of the parent and that of the child without a look at  *)
(* either.                                                                 *)
copy_page(m, p, c, v) ==
  LET n == map_page(m, c, v)
  IN  IF m.fate # "runs" THEN m
      ELSE IF v \in DOMAIN m.pt[p] /\ n.ok THEN n ELSE Fault(n)

(* Every page of the parent whose bit is set is copied.                    *)
copy_body_stack3(m, p, c) ==
  FoldLeft(LAMBDA n, v : copy_page(n, p, c, v), [m EXCEPT !.bits[c] = m.bits[p]],
           SetToSortSeq(m.bits[p], LAMBDA v, w : v < w))

sys_fork(p, c) ==
  LET m1 == malloc_page(mem, Kernel, 1)            \* child_thread
      m2 == malloc_page(m1, Kernel, 1)             \* buf_page
      m3 == malloc_page(m2, Kernel, BitmapPages)
      m4 == malloc_page(m3, Kernel, 1)             \* pgdir
      m5 == IF m4.ok THEN copy_body_stack3(m4, p, c) ELSE m4
  IN  /\ Ready(p) /\ proc[c] = "none"
      /\ IF m5.ok /\ m5.fate = "runs"
         THEN /\ mem' = Done(mfree_page(m5, Kernel, m2.at, 1))
              /\ proc' = [proc EXCEPT ![c] = "live"]
              /\ owns' = [owns EXCEPT ![c] = [pcb |-> m1.at, bitmap |-> m3.at, pgdir |-> m4.at]]
              /\ arena' = [arena EXCEPT ![c] = arena[p]]
              /\ free_list' = [free_list EXCEPT ![c] = << >>]
              /\ held' = [held EXCEPT ![c] = held[p]]
         ELSE /\ mem' = Done(m5)
              /\ UNCHANGED <<proc, owns, heapVars>>

(* segment_load uses the pages that are there and gets the others; the new *)
(* program overwrites them all and knows no pointer of the old one.        *)
segment_load(m, p) ==
  FoldLeft(LAMBDA n, v : IF ~n.ok \/ v \in DOMAIN n.pt[p] THEN n ELSE get_a_page(n, p, v),
           m, [i \in 1..ImagePages |-> i - 1])

sys_execv(p) ==
  LET m == segment_load(mem, p)
  IN  /\ Ready(p) /\ p \in Procs \ {Init1}
      /\ \A v \in DOMAIN arena[p] : arena[p][v].desc # p
      /\ mem' = Done(m)
      /\ IF m.ok
         THEN /\ arena' = [arena EXCEPT ![p] = Without(@, 0..(ImagePages - 1))]
              /\ held' = [held EXCEPT ![p] = {}]
         ELSE UNCHANGED <<arena, held>>
      /\ UNCHANGED <<proc, owns, free_list>>

(* Mutated forms: the page tables are forgotten; one page too many is      *)
(* given back.                                                             *)
release_pages_only(m, p) ==
  [mfree_page(m, Kernel, owns[p].bitmap, BitmapWholePages) EXCEPT
     !.upool = @ \ {m.pt[p][v] : v \in DOMAIN m.pt[p]},
     !.bits[p] = {}, !.pt[p] = Empty, !.pde[p] = Empty]

release_one_more(m, p) ==
  [mfree_page(m, Kernel, owns[p].bitmap, BitmapPages + 1) EXCEPT
     !.upool = @ \ {m.pt[p][v] : v \in DOMAIN m.pt[p]},
     !.kpool = @ \ {m.pde[p][t] : t \in DOMAIN m.pde[p]},
     !.bits[p] = {}, !.pt[p] = Empty, !.pde[p] = Empty]

(* release_prog_resource: every frame the page tables of the process name, *)
(* the page tables, and the pages that its bitmap fills.                   *)
release_prog_resource(m, p) ==
  [mfree_page(m, Kernel, owns[p].bitmap, BitmapWholePages) EXCEPT
     !.upool = @ \ {m.pt[p][v] : v \in DOMAIN m.pt[p]},
     !.kpool = @ \ {m.pde[p][t] : t \in DOMAIN m.pde[p]},
     !.bits[p] = {}, !.pt[p] = Empty, !.pde[p] = Empty]

sys_exit(p) ==
  /\ Ready(p) /\ p \in Procs \ {Init1}
  /\ mem' = release_prog_resource(mem, p)
  /\ proc' = [proc EXCEPT ![p] = "hanging"]
  /\ owns' = [owns EXCEPT ![p].bitmap = NULL]
  /\ arena' = [arena EXCEPT ![p] = Empty]
  /\ free_list' = [free_list EXCEPT ![p] = << >>]
  /\ held' = [held EXCEPT ![p] = {}]

(* thread_exit in the parent's sys_wait.                                   *)
thread_exit(p) ==
  /\ mem.fate = "runs" /\ proc[p] = "hanging"
  /\ mem' = mfree_page(mfree_page(mem, Kernel, owns[p].pgdir, 1), Kernel, owns[p].pcb, 1)
  /\ proc' = [proc EXCEPT ![p] = "none"]
  /\ owns' = [owns EXCEPT ![p] = NoPages]
  /\ UNCHANGED heapVars

Next ==
  \/ \E s \in Spaces : sys_malloc(s) \/ \E ptr \in held[s] : sys_free(s, ptr)
  \/ \E p \in Procs :
       \/ start_process(p) \/ sys_execv(p) \/ sys_exit(p) \/ thread_exit(p)
       \/ \E c \in Procs : sys_fork(p, c)

Spec == Init /\ [][Next]_vars

-----------------------------------------------------------------------------
TypeOK ==
  /\ mem.kpool \subseteq Frames(Kernel)
  /\ mem.upool \subseteq 0..(UserFrames - 1)
  /\ mem.fate \in {"runs", "panic", "fault", "stray"} /\ mem.ok
  /\ \A s \in Spaces :
       /\ mem.bits[s] \subseteq Pages(s) /\ DOMAIN mem.pt[s] \subseteq Pages(s)
       /\ ToSet(free_list[s]) \subseteq
            [space : Spaces, page : Nat, idx : 1..blocks_per_arena]
       /\ \A v \in DOMAIN arena[s] : arena[s][v] \in
            [desc : Spaces \cup {NULL}, cnt : Nat, large : BOOLEAN]
  /\ proc \in [Procs -> {"none", "new", "live", "hanging"}]

(* No ASSERT of memory.c fails, whatever calls succeed and fail before: no *)
(* page is mapped twice, none that is not mapped is given back, and every  *)
(* block of an arena that is given back is in the free list.               *)
NoPanic == mem.fate \notin {"panic", "stray"}

(* The uses of the frames of each pool, with the frame.                    *)
UserUses ==
  UNION {{<<p, v, mem.pt[p][v]>> : v \in DOMAIN mem.pt[p]} : p \in Procs}

KernelUses ==
  {<<Kernel, v, mem.pt[Kernel][v]>> : v \in DOMAIN mem.pt[Kernel]} \cup
  UNION {{<<p, t, mem.pde[p][t]>> : t \in DOMAIN mem.pde[p]} : p \in Procs}

(* A frame has one use, as a page of one address space or as a page table, *)
(* and the pools' bitmaps mark exactly the frames in use: fork, execv,     *)
(* exit and calls that fail half way neither share a frame nor lose one.   *)
FramesAccounted ==
  /\ {u[3] : u \in UserUses} = mem.upool
  /\ Cardinality(UserUses) = Cardinality(mem.upool)
  /\ {u[3] : u \in KernelUses} = mem.kpool
  /\ Cardinality(KernelUses) = Cardinality(mem.kpool)

(* A page that is mapped is marked in the bitmap of its address space, so  *)
(* vaddr_get never hands it out a second time.                             *)
MappedIsReserved == \A s \in Spaces : DOMAIN mem.pt[s] \subseteq mem.bits[s]

(* "On failure the virtual addresses and the physical pages taken so far   *)
(* must all be rolled back" (malloc_page): a bit of an address bitmap is   *)
(* set only for a page that is mapped, and copy_body_stack3 relies on it.  *)
ReservedIsMapped ==
  mem.fate = "runs" => \A s \in Spaces : mem.bits[s] \subseteq DOMAIN mem.pt[s]

(* The kernel pages a process needs.                                       *)
Needs(p) ==
  {owns[p].pcb, owns[p].pgdir} \cup
  (IF owns[p].bitmap = NULL THEN {}
   ELSE owns[p].bitmap..(owns[p].bitmap + BitmapPages - 1))

(* The task_struct, bitmap and page directory of a process are there until *)
(* it is reaped and belong to it alone: no exit of another process, and no *)
(* sys_free, takes them away.                                              *)
TaskPagesKept ==
  \A p \in Procs : proc[p] # "none" =>
    /\ Needs(p) \subseteq DOMAIN mem.pt[Kernel]
    /\ Needs(p) \cap DOMAIN arena[Kernel] = {}
    /\ \A q \in Procs \ {p} : proc[q] # "none" => Needs(p) \cap Needs(q) = {}

(* free_list holds "the blocks that can be used now": none of them is in   *)
(* use by the program, which sys_malloc would give it a second time, and   *)
(* each is in an arena that is still there.  An arena counts its free      *)
(* blocks correctly, and every block of it is either listed, once, or in   *)
(* use, so sys_free gives the page back at the right moment.               *)
ArenaCounts ==
  \A s \in Spaces :
    /\ \A b \in ToSet(free_list[s]) :
         /\ <<b.page, b.idx>> \notin held[s]
         /\ b.page \in DOMAIN arena[s] /\ ~arena[s][b.page].large
    /\ \A v \in DOMAIN arena[s] : arena[s][v].desc = s =>
         LET listed == SelectSeq(free_list[s], LAMBDA b : b.page = v)
         IN  /\ Len(listed) = arena[s][v].cnt
             /\ ToSet(listed) = {Block(s, v, i) : i \in {j \in 1..blocks_per_arena :
                                                          <<v, j>> \notin held[s]}}
=============================================================================
