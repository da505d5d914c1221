--------------------------------- MODULE Tree ---------------------------------
(***************************************************************************)
(* What the file system promises its callers: a tree of directories and    *)
(* files, changed by one call at a time, that a restart leaves alone.  A   *)
(* call returns -1 and changes nothing, or does what it says.              *)
(*                                                                         *)
(* Some promises are the code's own.  Data is written at the end of a      *)
(* file, and leaves the position on its last byte.  A removal that names   *)
(* something below a regular file removes that file.                       *)
(***************************************************************************)
EXTENDS Integers, Sequences, SequencesExt

CONSTANTS Paths,            \* the paths of the tree below its root
          MaxLength         \* the bytes a file may have

VARIABLES tree,             \* the paths in use: directory or not, and bytes
          file,             \* the open file, and where it is read from
          failed,           \* the last call returned -1
          up                \* the system runs

vars == <<tree, file, failed, up>>

EmptyDir == [dir |-> TRUE, bytes |-> <<>>]
EmptyFile == [dir |-> FALSE, bytes |-> <<>>]
Closed == [path |-> <<>>, pos |-> 0]

Init ==
  /\ tree = [p \in {} |-> EmptyDir]
  /\ file = Closed
  /\ failed = FALSE
  /\ up = TRUE

InUse == DOMAIN tree
IsDir(p) == p = <<>> \/ (p \in InUse /\ tree[p].dir)
IsFile(p) == p \in InUse /\ ~tree[p].dir
Children(p) == {q \in InUse : Len(q) = Len(p) + 1 /\ Front(q) = p}
Without(p) == [q \in InUse \ {p} |-> tree[q]]
With(p, node) == [q \in InUse \cup {p} |-> IF q = p THEN node ELSE tree[q]]

Fail == UNCHANGED <<tree, file>>

New(p, node) == /\ p \notin InUse
                /\ IsDir(Front(p))
                /\ tree' = With(p, node)

Create(p) == /\ New(p, EmptyFile)
             /\ file = Closed
             /\ file' = [path |-> p, pos |-> 0]

Mkdir(p) == /\ New(p, EmptyDir)
            /\ UNCHANGED file

Open(p) == /\ IsFile(p)
           /\ file = Closed
           /\ file' = [path |-> p, pos |-> 0]
           /\ UNCHANGED tree

Close == /\ file # Closed
         /\ file' = Closed
         /\ UNCHANGED tree

Extended(n) ==
  LET old == tree[file.path].bytes
      new == [k \in 1..n |-> <<Last(file.path), Len(old) + k - 1>>]
  IN  tree' = With(file.path, [EmptyFile EXCEPT !.bytes = old \o new])

Write(n) ==
  LET size == Len(tree[file.path].bytes) + n
  IN  /\ file # Closed
      /\ Extended(n)
      /\ file'.path = file.path
      /\ size > 0 => file'.pos = size - 1

(* Reading moves on by what was read, seeking goes to a byte of the file.  *)
Move(pos) == /\ file # Closed
             /\ pos <= Len(tree[file.path].bytes)
             /\ file' = [file EXCEPT !.pos = pos]
             /\ UNCHANGED tree

(* p is the file that the call's path leads to.  It is not open.           *)
Unlink(p) == /\ IsFile(p)
             /\ file.path # p
             /\ tree' = Without(p)
             /\ UNCHANGED file

Rmdir(p) == /\ IsDir(p)
            /\ Children(p) = {}
            /\ tree' = Without(p)
            /\ UNCHANGED file

(* Calls that only look, and those about the working directory, which is   *)
(* not part of the tree.                                                   *)
Look == UNCHANGED <<tree, file>>

Restart == /\ file' = Closed
           /\ UNCHANGED tree

Call ==
  \/ Close \/ Look \/ Restart
  \/ \E p \in Paths : Create(p) \/ Mkdir(p) \/ Open(p) \/ Unlink(p) \/ Rmdir(p)
  \/ \E n \in 0..MaxLength : Write(n) \/ Move(n)

(* The kernel stops: an assertion fails, it hangs, or the power is cut in  *)
(* the middle of a call.  The tree is left as before the call or as after. *)
Stop ==
  /\ ~up'
  /\ \/ UNCHANGED tree
     \/ \E p \in Paths :
          \/ New(p, EmptyFile) \/ New(p, EmptyDir)
          \/ IsFile(p) /\ tree' = Without(p)
          \/ IsDir(p) /\ Children(p) = {} /\ tree' = Without(p)
     \/ \E n \in 0..MaxLength : file # Closed /\ Extended(n)

Next == /\ up
        /\ \/ Stop
           \/ up' /\ IF failed' THEN Fail ELSE Call

Spec == Init /\ [][Next]_vars
=============================================================================
