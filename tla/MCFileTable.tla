----------------------------- MODULE MCFileTable -----------------------------
(* Two processes beside the boot thread, one file, two slots.             *)
EXTENDS FileTable, TLC

CONSTANTS main, p1, p2, f, x, y, z

MCSlots == 1..2
MCFds == 3..4
MCSymmetry == Permutations(Objects)
=============================================================================
