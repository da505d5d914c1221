---------------------------- MODULE MCFileSystem ----------------------------
(* An instance of FileSystem: two names, a disk of a dozen sectors.        *)
EXTENDS FileSystem, TLC

MCSecCnts == {8, 14, 22}
MCOffsets == {-3}

Typed(absolute, names) == [absolute |-> absolute, names |-> names]
MCCommandPaths ==
  {Typed(absolute, <<name>>) : absolute \in BOOLEAN, name \in Names}
    \cup {Typed(FALSE, <<"..">>)}

NameSymmetry == Permutations(Names)

(* Every call starts from ret = 0: two states that differ in ret alone     *)
(* have the same behaviours.                                               *)
MCView == <<formatVars, tree, [fs EXCEPT !.ret = 0]>>
=============================================================================
