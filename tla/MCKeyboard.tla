----------------------------- MODULE MCKeyboard -----------------------------
(* Small instances of Keyboard for TLC; every time slice is one tick.      *)
EXTENDS Keyboard

MCPriority == [t \in Threads |-> 0]
MCBytes == Keys \X {"plain", "shift", "ctrl"}
=============================================================================
