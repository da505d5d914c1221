------------------------------ MODULE Keyboard ------------------------------
(***************************************************************************)
(* The keyboard of device/keyboard.c: the interrupt handler turns scan     *)
(* codes into characters and puts them into the ring kbd_buf, from which   *)
(* tasks read in the stdin case of sys_read (fs/fs.c).                     *)
(*                                                                         *)
(* A key is its make code.  The character of a key is the pair of the key  *)
(* and the column of keymap, or "ctrl" for the two shortcuts.              *)
(***************************************************************************)
EXTENDS Ioqueue

CONSTANTS Readers,    \* the tasks that read standard input
          Keys,       \* the make codes of the keys of the keyboard
          MaxPort,    \* bound: bytes waiting in the keyboard controller
          MaxCount    \* bound: the largest count of a sys_read

VARIABLES shift_status, ctrl_status, alt_status, caps_lock_status,
          ext_scancode,
          held,   \* the keys that are down
          port    \* bytes the controller has still to deliver

modifierVars == <<shift_status, ctrl_status, alt_status, caps_lock_status>>
keyVars == <<modifierVars, ext_scancode, held, port>>
vars == <<queueVars, keyVars>>

Prefix == 224          \* 0xe0, the first byte of a two-byte code
Extended == 57344      \* 0xe000
BreakBit == 128        \* 0x80
shift_make == {42, 54}                              \* left, right
ctrl_make == {29, Extended + 29}
alt_make == {56, Extended + 56}
caps_lock_make == 58
key_l == 38
key_u == 22

(* What a key may send after the prefix, if it has one: with and without   *)
(* the break bit it is a byte, and not the prefix.                         *)
MakeCodes == (1..127) \ {Prefix - BreakBit}

ASSUME KeysAssumption == Keys \subseteq MakeCodes \cup {Extended + k : k \in MakeCodes}
ASSUME CharsAssumption == Keys \X {"plain", "shift", "ctrl"} \subseteq Bytes
ASSUME ReadersAssumption == Readers \subseteq Threads \ {Idle} /\ MaxCount \in Nat

Init ==
  /\ ioqueue_init
  /\ shift_status = 0 /\ ctrl_status = 0 /\ alt_status = 0
  /\ caps_lock_status = 0 /\ ext_scancode = 0
  /\ held = {} /\ port = << >>

-----------------------------------------------------------------------------
(* The keyboard: pressing a key sends its make code (again and again while *)
(* it is down), releasing it sends the code with the break bit set.        *)

Send(k, bit) ==
  LET code == IF k >= Extended THEN <<Prefix, k - Extended + bit>> ELSE <<k + bit>>
  IN  /\ Len(port) + Len(code) <= MaxPort
      /\ port' = port \o code
      /\ UNCHANGED <<queueVars, modifierVars, ext_scancode>>

press(k) == Send(k, 0) /\ held' = held \cup {k}

release(k) == k \in held /\ Send(k, BreakBit) /\ held' = held \ {k}

-----------------------------------------------------------------------------
(* Keys with two different characters: digits and punctuation.  For the    *)
(* others ("letters") caps lock and shift cancel each other.               *)
TwoCharKey(k) == k < 14 \/ k \in {41, 26, 27, 43, 39, 40, 51, 52, 53}

(* Rows of keymap with the same character in both columns.                 *)
OneCharKey(k) == k \in {1, 14, 15, 28, 55, 57}

keymap(k, shift) == <<k, IF shift /\ ~OneCharKey(k) THEN "shift" ELSE "plain">>

cur_char(k) ==
  LET shift == IF TwoCharKey(k) THEN shift_status = 1
               ELSE shift_status + caps_lock_status = 1
      c == keymap(k, shift)
  IN  IF ctrl_status = 1 /\ c \in {<<key_l, "plain">>, <<key_u, "plain">>}
      THEN <<k, "ctrl">> ELSE c

(* A key of keymap, which ends at 0x3a, or the right alt or ctrl key.      *)
Known(k) == (k > 0 /\ k < 59) \/ k \in alt_make \cup ctrl_make

Modifier(k) == k \in ctrl_make \cup shift_make \cup alt_make \cup {caps_lock_make}

SetModifiers(k, v) ==
  /\ ctrl_status' = IF k \in ctrl_make THEN v ELSE ctrl_status
  /\ shift_status' = IF k \in shift_make THEN v ELSE shift_status
  /\ alt_status' = IF k \in alt_make THEN v ELSE alt_status

QuietQueue == wake_hlt /\ UNCHANGED <<sch, ringVars, sleeper, lockVars, callVars>>

break_code(k) ==
  /\ SetModifiers(k, 0)
  /\ UNCHANGED caps_lock_status
  /\ QuietQueue

make_modifier(k) ==
  /\ Modifier(k)
  /\ SetModifiers(k, 1)
  /\ caps_lock_status' = IF k = caps_lock_make THEN 1 - caps_lock_status
                         ELSE caps_lock_status
  /\ QuietQueue

make_char(k) ==
  /\ Known(k) /\ ~Modifier(k)
  /\ UNCHANGED modifierVars
  /\ IF ioq_full THEN QuietQueue
     ELSE ioq_store(cur_char(k)) /\ wake_hlt /\ UNCHANGED callVars

unknown_key(k) ==
  /\ ~Known(k)
  /\ UNCHANGED modifierVars
  /\ QuietQueue

(* Mutated form: ext_scancode is not put back.                             *)
intr_keyboard_handler_ext ==
  /\ InterruptsOn /\ port # << >>
  /\ port' = Tail(port)
  /\ UNCHANGED held
  /\ IF Head(port) = Prefix
     THEN ext_scancode' = 1 /\ QuietQueue /\ UNCHANGED modifierVars
     ELSE LET code == Head(port) + ext_scancode * Extended
          IN  /\ UNCHANGED ext_scancode
              /\ IF Head(port) >= BreakBit
                 THEN break_code(code - BreakBit)
                 ELSE make_modifier(code) \/ make_char(code) \/ unknown_key(code)

intr_keyboard_handler ==
  /\ InterruptsOn /\ port # << >>
  /\ port' = Tail(port)
  /\ UNCHANGED held
  /\ IF Head(port) = Prefix
     THEN ext_scancode' = 1 /\ QuietQueue /\ UNCHANGED modifierVars
     ELSE LET code == Head(port) + ext_scancode * Extended
          IN  /\ ext_scancode' = 0
              /\ IF Head(port) >= BreakBit
                 THEN break_code(code - BreakBit)
                 ELSE make_modifier(code) \/ make_char(code) \/ unknown_key(code)

(* sys_read of count bytes from standard input.                            *)
sys_read(t, count) == Enter(t, "consumer", count)

Next ==
  \/ QueueNext /\ UNCHANGED keyVars
  \/ \E t \in Readers, n \in 1..MaxCount : sys_read(t, n) /\ UNCHANGED keyVars
  \/ intr_keyboard_handler
  \/ \E k \in Keys : press(k) \/ release(k)

Spec == Init /\ [][Next]_vars

-----------------------------------------------------------------------------
TypeOK ==
  /\ RingTypeOK
  /\ {shift_status, ctrl_status, alt_status, caps_lock_status, ext_scancode} \subseteq {0, 1}
  /\ held \subseteq Keys

(* The status variables record whether shift, ctrl and alt are down: once  *)
(* the handler has seen every byte the keyboard sent, each is 1 exactly    *)
(* when such a key is held, and no first half of a code is left over.      *)
ModifiersTrackKeys ==
  port = << >> =>
    /\ shift_status = 1 <=> held \cap shift_make # {}
    /\ ctrl_status = 1 <=> held \cap ctrl_make # {}
    /\ alt_status = 1 <=> held \cap alt_make # {}
    /\ ext_scancode = 0
=============================================================================
