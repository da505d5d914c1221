--------------------------- MODULE KeyboardProofs ---------------------------
(***************************************************************************)
(* What Keyboard promises, for any keyboard whose scan codes are bytes,    *)
(* any number of keys typed ahead, any number of readers and any size of   *)
(* the ring.                                                               *)
(***************************************************************************)
EXTENDS Keyboard, IoqueueProofs

-----------------------------------------------------------------------------
(* The bytes p that the controller has still to deliver, when the handler  *)
(* has e in ext_scancode.                                                  *)

(* Byte i is the second byte of a two-byte code.                           *)
IsExt(p, e, i) == IF i = 1 THEN e = 1 ELSE p[i - 1] = Prefix

(* The key that byte i completes the code of.                              *)
KeyAt(p, e, i) ==
  (IF IsExt(p, e, i) THEN Extended ELSE 0) +
  (IF p[i] >= BreakBit THEN p[i] - BreakBit ELSE p[i])

(* Byte i is about a key of the class M.                                   *)
About(p, e, i, M) == p[i] # Prefix /\ KeyAt(p, e, i) \in M

(* No prefix is without its second byte, and every code is that of a key.  *)
PortOK(p, e) ==
  /\ p \in Seq(Nat) /\ e \in {0, 1}
  /\ e = 1 => p # << >>
  /\ \A i \in 1..Len(p) : IF p[i] = Prefix THEN i < Len(p) /\ ~IsExt(p, e, i)
                          ELSE KeyAt(p, e, i) \in Keys

(* The last byte about a key of M, or the status st if there is none,      *)
(* tells whether one of the keys h of M is down.                           *)
Tracks(M, st, h, p, e) ==
  /\ (\A i \in 1..Len(p) : ~About(p, e, i, M)) => (st = 1 <=> h \cap M # {})
  /\ \A i \in 1..Len(p) :
       /\ About(p, e, i, M)
       /\ \A j \in (i + 1)..Len(p) : ~About(p, e, j, M)
       => (p[i] < BreakBit <=> h \cap M # {})

(* The bytes q with the flag f are those of p with e after the first.      *)
Shifted(p, e, q, f) ==
  /\ q \in Seq(Nat) /\ Len(p) \in Nat \ {0} /\ Len(q) = Len(p) - 1 /\ Head(p) = p[1]
  /\ \A i \in 1..Len(q) : /\ i + 1 \in 1..Len(p) /\ q[i] = p[i + 1]
                          /\ IsExt(q, f, i) <=> IsExt(p, e, i + 1)
                          /\ KeyAt(q, f, i) = KeyAt(p, e, i + 1)

(* What is left when the handler has taken a byte.                         *)
LEMMA ShiftLemma ==
  ASSUME NEW p \in Seq(Nat), p # << >>, NEW e \in {0, 1}, NEW q, q = Tail(p),
         NEW f, f = IF Head(p) = Prefix THEN 1 ELSE 0
  PROVE  Shifted(p, e, q, f)
<1>1. /\ q \in Seq(Nat) /\ Len(p) \in Nat \ {0} /\ Len(q) = Len(p) - 1 /\ Head(p) = p[1]
      /\ \A i \in 1..Len(q) : q[i] = p[i + 1]
  OBVIOUS
<1>2. ASSUME NEW i \in 1..Len(q)
      PROVE  /\ i + 1 \in 1..Len(p) /\ q[i] = p[i + 1]
             /\ IsExt(q, f, i) <=> IsExt(p, e, i + 1)
  <2>1. i + 1 \in 1..Len(p) /\ q[i] = p[i + 1]
    BY <1>1
  <2>2. CASE i = 1
    BY <1>1, <2>2 DEF IsExt
  <2>3. CASE i # 1
    <3>1. i - 1 \in 1..Len(q) /\ (i - 1) + 1 = i /\ (i + 1) - 1 = i /\ i + 1 # 1
      BY <1>1, <2>3
    <3>2. q[i - 1] = p[i]
      BY <1>1, <3>1
    <3> QED
      BY <2>3, <3>1, <3>2 DEF IsExt
  <2> QED
    BY <2>1, <2>2, <2>3
<1> QED
  BY <1>1, <1>2 DEF KeyAt, Shifted

(* The bytes left after the handler took one are still whole codes.        *)
LEMMA TailPortOK ==
  ASSUME NEW p, NEW e, PortOK(p, e), p # << >>,
         NEW f, f = IF Head(p) = Prefix THEN 1 ELSE 0
  PROVE  PortOK(Tail(p), f)
<1>1. PICK q : q = Tail(p)
  OBVIOUS
<1>2. /\ p \in Seq(Nat) /\ p # << >> /\ e \in {0, 1} /\ f \in {0, 1}
      /\ f = IF Head(p) = Prefix THEN 1 ELSE 0
      /\ q = Tail(p)
  BY <1>1 DEF PortOK
<1>3. /\ q \in Seq(Nat) /\ Len(p) \in Nat \ {0} /\ Len(q) = Len(p) - 1 /\ Head(p) = p[1]
      /\ \A i \in 1..Len(q) : /\ i + 1 \in 1..Len(p) /\ q[i] = p[i + 1]
                              /\ IsExt(q, f, i) <=> IsExt(p, e, i + 1)
                              /\ KeyAt(q, f, i) = KeyAt(p, e, i + 1)
  <2>1. Shifted(p, e, q, f)
    BY <1>2, ShiftLemma
  <2> QED
    BY <2>1 DEF Shifted
<1>4. ASSUME f = 1 PROVE q # << >>
  <2>1. p[1] = Prefix /\ 1 \in 1..Len(p)
    BY <1>3, <1>4
  <2>2. 1 < Len(p)
    BY <2>1 DEF PortOK
  <2> QED
    BY <1>3, <2>2
<1>5. ASSUME NEW i \in 1..Len(q)
      PROVE  IF q[i] = Prefix THEN i < Len(q) /\ ~IsExt(q, f, i)
             ELSE KeyAt(q, f, i) \in Keys
  <2>1. IF p[i + 1] = Prefix THEN i + 1 < Len(p) /\ ~IsExt(p, e, i + 1)
        ELSE KeyAt(p, e, i + 1) \in Keys
    BY <1>3 DEF PortOK
  <2> QED
    BY <1>3, <2>1
<1> QED
  BY <1>1, <1>2, <1>3, <1>4, <1>5 DEF PortOK

(* The handler's store of the status keeps track of the keys.              *)
LEMMA TailTracks ==
  ASSUME NEW p, NEW e, PortOK(p, e), p # << >>,
         NEW f, f = IF Head(p) = Prefix THEN 1 ELSE 0,
         NEW M, NEW h, NEW st, Tracks(M, st, h, p, e),
         NEW new, new = IF About(p, e, 1, M) THEN IF p[1] < BreakBit THEN 1 ELSE 0
                        ELSE st
  PROVE  Tracks(M, new, h, Tail(p), f)
<1>1. PICK q : q = Tail(p)
  OBVIOUS
<1>2. /\ p \in Seq(Nat) /\ p # << >> /\ e \in {0, 1} /\ f \in {0, 1}
      /\ f = IF Head(p) = Prefix THEN 1 ELSE 0
      /\ q = Tail(p)
  BY <1>1 DEF PortOK
<1>3. /\ q \in Seq(Nat) /\ Len(p) \in Nat \ {0} /\ Len(q) = Len(p) - 1
      /\ \A i \in 1..Len(q) : /\ i + 1 \in 1..Len(p) /\ q[i] = p[i + 1]
                              /\ KeyAt(q, f, i) = KeyAt(p, e, i + 1)
  <2>1. Shifted(p, e, q, f)
    BY <1>2, ShiftLemma
  <2> QED
    BY <2>1 DEF Shifted
<1>4. \A i \in 1..Len(q) : About(q, f, i, M) <=> About(p, e, i + 1, M)
  BY <1>3 DEF About
<1>5. \A i \in 2..Len(p) : i - 1 \in 1..Len(q) /\ (i - 1) + 1 = i
  BY <1>3
<1>6. \A i \in 2..Len(p) : About(p, e, i, M) <=> About(q, f, i - 1, M)
  BY <1>4, <1>5
<1>7. ASSUME \A i \in 1..Len(q) : ~About(q, f, i, M)
      PROVE  new = 1 <=> h \cap M # {}
  <2>1. \A i \in 2..Len(p) : ~About(p, e, i, M)
    BY <1>5, <1>6, <1>7
  <2>2. CASE About(p, e, 1, M)
    <3>1. 1 \in 1..Len(p) /\ \A j \in (1 + 1)..Len(p) : ~About(p, e, j, M)
      BY <1>3, <2>1
    <3>2. p[1] < BreakBit <=> h \cap M # {}
      BY <2>2, <3>1 DEF Tracks
    <3> QED
      BY <2>2, <3>2
  <2>3. CASE ~About(p, e, 1, M)
    <3>1. \A i \in 1..Len(p) : ~About(p, e, i, M)
      BY <1>3, <2>1, <2>3
    <3> QED
      BY <2>3, <3>1 DEF Tracks
  <2> QED
    BY <2>2, <2>3
<1>8. ASSUME NEW i \in 1..Len(q), About(q, f, i, M),
             \A j \in (i + 1)..Len(q) : ~About(q, f, j, M)
      PROVE  q[i] < BreakBit <=> h \cap M # {}
  <2>1. About(p, e, i + 1, M) /\ i + 1 \in 1..Len(p) /\ q[i] = p[i + 1]
    BY <1>3, <1>4, <1>8
  <2>2. ASSUME NEW j \in ((i + 1) + 1)..Len(p) PROVE ~About(p, e, j, M)
    <3>1. j - 1 \in (i + 1)..Len(q) /\ j \in 2..Len(p)
      BY <1>3
    <3> QED
      BY <1>6, <1>8, <3>1
  <2> QED
    BY <2>1, <2>2 DEF Tracks
<1> QED
  BY <1>1, <1>7, <1>8 DEF Tracks

(* The bytes r are those of p followed by the code of k, with the break    *)
(* bit or without.                                                         *)
Longer(p, e, r, k, bit) ==
  /\ r \in Seq(Nat) /\ Len(p) \in Nat /\ Len(r) \in Nat /\ Len(p) < Len(r)
  /\ \A i \in 1..Len(p) : r[i] = p[i] /\ KeyAt(r, e, i) = KeyAt(p, e, i)
                          /\ (IsExt(r, e, i) <=> IsExt(p, e, i))
  /\ \A i \in (Len(p) + 1)..(Len(r) - 1) : r[i] = Prefix /\ ~IsExt(r, e, i)
  /\ r[Len(r)] # Prefix /\ KeyAt(r, e, Len(r)) = k /\ (r[Len(r)] < BreakBit <=> bit = 0)

(* A code of one byte is decoded as the key that sent it.                  *)
LEMMA PlainSent ==
  ASSUME NEW p, NEW e, PortOK(p, e), NEW k \in MakeCodes, NEW bit \in {0, BreakBit},
         NEW r, r = Append(p, k + bit)
  PROVE  Longer(p, e, r, k, bit)
<1>1. k \in 1..127 /\ k # 96 /\ k + bit \in Nat /\ k + bit # Prefix
  BY DEF MakeCodes, Prefix, BreakBit
<1>2. p \in Seq(Nat) /\ Len(p) \in Nat
  BY DEF PortOK
<1>3. /\ r \in Seq(Nat) /\ Len(r) = Len(p) + 1 /\ r[Len(r)] = k + bit
      /\ \A i \in 1..Len(p) : r[i] = p[i]
  BY <1>1, <1>2
<1>4. ASSUME NEW i \in 1..Len(p) PROVE IsExt(r, e, i) <=> IsExt(p, e, i)
  <2>1. CASE i = 1
    BY <2>1 DEF IsExt
  <2>2. CASE i # 1
    <3>1. i - 1 \in 1..Len(p)
      BY <1>2, <2>2
    <3> QED
      BY <1>3, <2>2, <3>1 DEF IsExt
  <2> QED
    BY <2>1, <2>2
<1>5. ~IsExt(r, e, Len(r))
  <2>1. CASE Len(p) = 0
    BY <1>2, <1>3, <2>1 DEF IsExt, PortOK
  <2>2. CASE Len(p) # 0
    <3>1. Len(p) \in 1..Len(p) /\ Len(r) # 1 /\ Len(r) - 1 = Len(p)
      BY <1>2, <1>3, <2>2
    <3>2. p[Len(p)] # Prefix
      BY <1>2, <3>1 DEF PortOK
    <3> QED
      BY <1>3, <3>1, <3>2 DEF IsExt
  <2> QED
    BY <2>1, <2>2
<1>6. KeyAt(r, e, Len(r)) = k /\ (r[Len(r)] < BreakBit <=> bit = 0)
  BY <1>1, <1>3, <1>5 DEF KeyAt, BreakBit
<1>7. \A i \in (Len(p) + 1)..(Len(r) - 1) : FALSE
  BY <1>2, <1>3
<1> QED
  BY <1>1, <1>2, <1>3, <1>4, <1>6, <1>7 DEF Longer, KeyAt

(* The same for a code of two bytes.                                       *)
LEMMA ExtendedSent ==
  ASSUME NEW p, NEW e, PortOK(p, e), NEW m \in MakeCodes, NEW bit \in {0, BreakBit},
         NEW r, r = Append(Append(p, Prefix), m + bit)
  PROVE  Longer(p, e, r, Extended + m, bit)
<1>1. m \in 1..127 /\ m # 96 /\ m + bit \in Nat /\ m + bit # Prefix /\ Prefix \in Nat
  BY DEF MakeCodes, Prefix, BreakBit
<1>2. p \in Seq(Nat) /\ Len(p) \in Nat
  BY DEF PortOK
<1>3. /\ r \in Seq(Nat) /\ Len(r) = Len(p) + 2 /\ r[Len(p) + 2] = m + bit
      /\ r[Len(p) + 1] = Prefix
      /\ \A i \in 1..Len(p) : r[i] = p[i]
  <2>1. PICK q : q = Append(p, Prefix)
    OBVIOUS
  <2>2. /\ q \in Seq(Nat) /\ Len(q) = Len(p) + 1 /\ q[Len(p) + 1] = Prefix
        /\ \A i \in 1..Len(p) : q[i] = p[i]
    BY <1>1, <1>2, <2>1
  <2>3. /\ r \in Seq(Nat) /\ Len(r) = Len(q) + 1 /\ r[Len(r)] = m + bit
        /\ \A i \in 1..Len(q) : r[i] = q[i]
    BY <1>1, <2>1, <2>2
  <2> QED
    BY <1>2, <2>2, <2>3
<1>4. ASSUME NEW i \in 1..Len(p) PROVE IsExt(r, e, i) <=> IsExt(p, e, i)
  <2>1. CASE i = 1
    BY <2>1 DEF IsExt
  <2>2. CASE i # 1
    <3>1. i - 1 \in 1..Len(p)
      BY <1>2, <2>2
    <3> QED
      BY <1>3, <2>2, <3>1 DEF IsExt
  <2> QED
    BY <2>1, <2>2
<1>5. ~IsExt(r, e, Len(p) + 1)
  <2>1. CASE Len(p) = 0
    BY <1>2, <1>3, <2>1 DEF IsExt, PortOK
  <2>2. CASE Len(p) # 0
    <3>1. Len(p) \in 1..Len(p) /\ Len(p) + 1 # 1 /\ (Len(p) + 1) - 1 = Len(p)
      BY <1>2, <2>2
    <3>2. p[Len(p)] # Prefix
      BY <1>2, <3>1 DEF PortOK
    <3> QED
      BY <1>3, <3>1, <3>2 DEF IsExt
  <2> QED
    BY <2>1, <2>2
<1>6. IsExt(r, e, Len(r))
  <2>1. Len(r) # 1 /\ Len(r) - 1 = Len(p) + 1
    BY <1>2, <1>3
  <2> QED
    BY <1>3, <2>1 DEF IsExt
<1>7. KeyAt(r, e, Len(r)) = Extended + m /\ (r[Len(r)] < BreakBit <=> bit = 0)
  BY <1>1, <1>3, <1>6 DEF KeyAt, BreakBit, Extended
<1>8. \A i \in (Len(p) + 1)..(Len(r) - 1) : i = Len(p) + 1
  BY <1>2, <1>3
<1> QED
  BY <1>1, <1>2, <1>3, <1>4, <1>5, <1>7, <1>8 DEF Longer, KeyAt

(* With the code of a key sent, the bytes on the way are still whole codes.*)
LEMMA SentPortOK ==
  ASSUME NEW p, NEW e, PortOK(p, e), NEW k \in Keys, NEW bit, NEW r, Longer(p, e, r, k, bit)
  PROVE  PortOK(r, e)
<1>1. ASSUME NEW i \in 1..Len(r)
      PROVE  IF r[i] = Prefix THEN i < Len(r) /\ ~IsExt(r, e, i)
             ELSE KeyAt(r, e, i) \in Keys
  <2>0. /\ Len(p) \in Nat /\ Len(r) \in Nat /\ Len(p) < Len(r)
    BY DEF Longer
  <2>1. CASE i \in 1..Len(p)
    <3>1. r[i] = p[i] /\ KeyAt(r, e, i) = KeyAt(p, e, i) /\ (IsExt(r, e, i) <=> IsExt(p, e, i))
      BY <2>1 DEF Longer
    <3>2. CASE r[i] = Prefix
      <4>1. p[i] = Prefix => i < Len(p) /\ ~IsExt(p, e, i)
        BY <2>1 DEF PortOK
      <4>2. i < Len(r)
        BY <2>0, <2>1
      <4> QED
        BY <3>1, <3>2, <4>1, <4>2
    <3>3. CASE r[i] # Prefix
      <4>1. p[i] # Prefix => KeyAt(p, e, i) \in Keys
        BY <2>1 DEF PortOK
      <4> QED
        BY <3>1, <3>3, <4>1
    <3> QED
      BY <3>2, <3>3
  <2>2. CASE i \in (Len(p) + 1)..(Len(r) - 1)
    BY <2>0, <2>2 DEF Longer
  <2>3. CASE i = Len(r)
    BY <2>3 DEF Longer
  <2> QED
    BY <2>0, <2>1, <2>2, <2>3
<1>2. r \in Seq(Nat) /\ r # << >>
  BY DEF Longer
<1> QED
  BY <1>1, <1>2 DEF PortOK

(* After a code is sent, the last byte about a class tells its state.      *)
LEMMA SentTracks ==
  ASSUME NEW p, NEW e, PortOK(p, e), NEW k, NEW bit, NEW r, Longer(p, e, r, k, bit),
         NEW M, NEW st, NEW h, NEW g, Tracks(M, st, h, p, e),
         k \in M => (bit = 0 <=> g \cap M # {}),
         k \notin M => g \cap M = h \cap M
  PROVE  Tracks(M, st, g, r, e)
<1>0. /\ Len(p) \in Nat /\ Len(r) \in Nat /\ Len(p) < Len(r) /\ Len(r) \in 1..Len(r)
  BY DEF Longer
<1>1. \A i \in 1..Len(p) : r[i] = p[i] /\ (About(r, e, i, M) <=> About(p, e, i, M))
  BY DEF Longer, About
<1>2. About(r, e, Len(r), M) <=> k \in M
  BY DEF Longer, About
<1>3. \A i \in (Len(p) + 1)..(Len(r) - 1) : ~About(r, e, i, M)
  BY DEF Longer, About
<1>4. CASE k \in M
  <2>1. ASSUME NEW i \in 1..Len(r), \A j \in (i + 1)..Len(r) : ~About(r, e, j, M)
        PROVE  i = Len(r)
    BY <1>0, <1>2, <1>4, <2>1
  <2>2. r[Len(r)] < BreakBit <=> g \cap M # {}
    BY <1>4 DEF Longer
  <2> QED
    BY <1>0, <1>2, <1>4, <2>1, <2>2 DEF Tracks
<1>5. CASE k \notin M
  <2>1. \A i \in 1..Len(r) : About(r, e, i, M) => i \in 1..Len(p)
    BY <1>0, <1>2, <1>3, <1>5
  <2>2. g \cap M = h \cap M
    BY <1>5
  <2>3. ASSUME \A i \in 1..Len(r) : ~About(r, e, i, M)
        PROVE  st = 1 <=> g \cap M # {}
    <3>1. \A i \in 1..Len(p) : ~About(p, e, i, M)
      BY <1>0, <1>1, <2>3
    <3> QED
      BY <2>2, <3>1 DEF Tracks
  <2>4. ASSUME NEW i \in 1..Len(r), About(r, e, i, M),
               \A j \in (i + 1)..Len(r) : ~About(r, e, j, M)
        PROVE  r[i] < BreakBit <=> g \cap M # {}
    <3>1. i \in 1..Len(p) /\ About(p, e, i, M) /\ r[i] = p[i]
      BY <1>1, <2>1, <2>4
    <3>2. ASSUME NEW j \in (i + 1)..Len(p) PROVE ~About(p, e, j, M)
      <4>1. j \in 1..Len(p) /\ j \in (i + 1)..Len(r)
        BY <1>0, <3>1
      <4> QED
        BY <1>1, <2>4, <4>1
    <3> QED
      BY <2>2, <3>1, <3>2 DEF Tracks
  <2> QED
    BY <2>3, <2>4 DEF Tracks
<1> QED
  BY <1>4, <1>5

-----------------------------------------------------------------------------
(* What the steps of the keyboard and of its handler do.                   *)

(* A key that is pressed or released sends its code.                       *)
LEMMA SendLonger ==
  ASSUME PortOK(port, ext_scancode), NEW k \in Keys, NEW bit \in {0, BreakBit}, Send(k, bit)
  PROVE  Longer(port, ext_scancode, port', k, bit)
<1>0. port \in Seq(Nat)
  BY DEF PortOK
<1>1. CASE k \in MakeCodes
  <2>1. k < Extended /\ k \in Nat /\ k + bit \in Nat
    BY <1>1 DEF MakeCodes, Extended, BreakBit
  <2>2. port' = port \o <<k + bit>>
    BY <2>1 DEF Send, Extended
  <2>3. port' = Append(port, k + bit)
    BY <1>0, <2>1, <2>2
  <2> QED
    BY <1>1, <2>3, PlainSent
<1>2. ASSUME NEW m \in MakeCodes, k = Extended + m
      PROVE  Longer(port, ext_scancode, port', k, bit)
  <2>1. k >= Extended /\ k - Extended = m /\ m + bit \in Nat /\ Prefix \in Nat
    BY <1>2 DEF MakeCodes, Extended, BreakBit, Prefix
  <2>2. port' = port \o <<Prefix, m + bit>>
    BY <2>1 DEF Send
  <2>3. port' = Append(Append(port, Prefix), m + bit)
    BY <1>0, <2>1, <2>2
  <2> QED
    BY <1>2, <2>3, ExtendedSent
<1> QED
  BY <1>1, <1>2, KeysAssumption

(* The code that the handler computes from the last byte of a scan code is *)
(* that of the key.                                                        *)
LEMMA ByteLemma ==
  ASSUME PortOK(port, ext_scancode), port # << >>, Head(port) # Prefix,
         NEW code, code = Head(port) + ext_scancode * Extended
  PROVE  /\ Head(port) = port[1] /\ port[1] \in Nat
         /\ KeyAt(port, ext_scancode, 1) \in Keys
         /\ KeyAt(port, ext_scancode, 1) =
              IF Head(port) >= BreakBit THEN code - BreakBit ELSE code
<1>1. port \in Seq(Nat) /\ Len(port) \in Nat /\ ext_scancode \in {0, 1}
  BY DEF PortOK
<1>2. 1 \in 1..Len(port) /\ Head(port) = port[1] /\ port[1] \in Nat
  BY <1>1
<1>3. KeyAt(port, ext_scancode, 1) \in Keys
  BY <1>2 DEF PortOK
<1>4. KeyAt(port, ext_scancode, 1) =
        IF Head(port) >= BreakBit THEN code - BreakBit ELSE code
  BY <1>1, <1>2 DEF KeyAt, IsExt, Extended, BreakBit
<1> QED
  BY <1>2, <1>3, <1>4

(* Every key has a character of the ring's alphabet in every column.       *)
LEMMA CharLemma ==
  ASSUME NEW k \in Keys
  PROVE  cur_char(k) \in Bytes
<1>1. <<k, "plain">> \in Bytes /\ <<k, "shift">> \in Bytes /\ <<k, "ctrl">> \in Bytes
  BY CharsAssumption
<1>2. \A s \in BOOLEAN : keymap(k, s) \in {<<k, "plain">>, <<k, "shift">>}
  BY DEF keymap
<1> QED
  BY <1>1, <1>2 DEF cur_char, keymap

(* A status variable after the handler took the first byte.                *)
NewStatus(st, M) ==
  IF About(port, ext_scancode, 1, M) THEN IF port[1] < BreakBit THEN 1 ELSE 0 ELSE st

(* The handler stores one character and wakes the reader.                  *)
StoreChar(b) == ioq_store(b) /\ wake_hlt /\ UNCHANGED callVars

(* It leaves the ring alone or stores one character, and sets the status   *)
(* variables by the key that the byte is about.                            *)
HandlerStep ==
  /\ port # << >> /\ port' = Tail(port) /\ held' = held
  /\ ext_scancode' = IF Head(port) = Prefix THEN 1 ELSE 0
  /\ shift_status' = NewStatus(shift_status, shift_make)
  /\ ctrl_status' = NewStatus(ctrl_status, ctrl_make)
  /\ alt_status' = NewStatus(alt_status, alt_make)
  /\ caps_lock_status' \in {caps_lock_status, 1 - caps_lock_status}
  /\ QuietQueue \/ \E b \in Bytes : StoreChar(b)

(* That is what intr_keyboard_handler does with whole codes.               *)
LEMMA HandlerFacts ==
  ASSUME PortOK(port, ext_scancode), intr_keyboard_handler
  PROVE  HandlerStep
<1>1. port # << >> /\ port' = Tail(port) /\ held' = held /\ Head(port) = port[1]
  BY DEF intr_keyboard_handler, PortOK
<1>2. CASE Head(port) = Prefix
  <2>1. \A M : ~About(port, ext_scancode, 1, M)
    BY <1>1, <1>2 DEF About
  <2>2. ext_scancode' = 1 /\ QuietQueue /\ UNCHANGED modifierVars
    BY <1>2 DEF intr_keyboard_handler
  <2> QED
    BY <1>1, <1>2, <2>1, <2>2 DEF HandlerStep, NewStatus, modifierVars
<1>3. CASE Head(port) # Prefix
  <2> DEFINE code == Head(port) + ext_scancode * Extended
  <2>1. PICK k \in Keys : k = KeyAt(port, ext_scancode, 1)
    BY <1>1, <1>3, ByteLemma
  <2>2. /\ k = IF Head(port) >= BreakBit THEN code - BreakBit ELSE code
        /\ Head(port) \in Nat
    BY <1>1, <1>3, <2>1, ByteLemma
  <2>3. \A M : About(port, ext_scancode, 1, M) <=> k \in M
    BY <1>1, <1>3, <2>1 DEF About
  <2>4. /\ ext_scancode' = 0
        /\ IF Head(port) >= BreakBit THEN break_code(code - BreakBit)
           ELSE make_modifier(code) \/ make_char(code) \/ unknown_key(code)
    BY <1>3 DEF intr_keyboard_handler
  <2> HIDE DEF code
  <2>5. CASE Head(port) >= BreakBit
    <3>1. break_code(k) /\ ~(port[1] < BreakBit)
      BY <1>1, <2>2, <2>4, <2>5 DEF BreakBit
    <3> QED
      BY <1>1, <1>3, <2>3, <2>4, <3>1 DEF HandlerStep, NewStatus, break_code, SetModifiers
  <2>6. CASE ~(Head(port) >= BreakBit)
    <3>1. (make_modifier(k) \/ make_char(k) \/ unknown_key(k)) /\ port[1] < BreakBit
      BY <1>1, <2>2, <2>4, <2>6 DEF BreakBit
    <3>2. CASE make_modifier(k)
      BY <1>1, <1>3, <2>3, <2>4, <3>1, <3>2
      DEF HandlerStep, NewStatus, make_modifier, SetModifiers
    <3>3. CASE make_char(k)
      <4>1. k \notin shift_make /\ k \notin ctrl_make /\ k \notin alt_make
        BY <3>3 DEF make_char, Modifier
      <4>2. QuietQueue \/ \E b \in Bytes : StoreChar(b)
        BY <3>3, CharLemma DEF make_char, StoreChar
      <4> QED
        BY <1>1, <1>3, <2>3, <2>4, <3>3, <4>1, <4>2
        DEF HandlerStep, NewStatus, make_char, modifierVars
    <3>4. CASE unknown_key(k)
      <4>1. k \notin shift_make /\ k \notin ctrl_make /\ k \notin alt_make
        BY <3>4 DEF unknown_key, Known, shift_make
      <4> QED
        BY <1>1, <1>3, <2>3, <2>4, <3>4, <4>1
        DEF HandlerStep, NewStatus, unknown_key, modifierVars
    <3> QED
      BY <3>1, <3>2, <3>3, <3>4
  <2> QED
    BY <2>5, <2>6
<1> QED
  BY <1>2, <1>3

-----------------------------------------------------------------------------
(* The invariant of the keyboard and its ring.                             *)
KInv ==
  /\ QInv
  /\ {shift_status, ctrl_status, alt_status, caps_lock_status} \subseteq {0, 1}
  /\ held \subseteq Keys
  /\ PortOK(port, ext_scancode)

(* The handler, a producer that never sleeps, keeps the ring, its lock and *)
(* the tasks that wait at it in order.                                     *)
LEMMA HandlerKeepsQInv ==
  ASSUME QInv, HandlerStep
  PROVE  QInv'
<1>1. CASE QuietQueue
  <2>1. sch' = sch /\ sch \in SchedState /\ Consistent(sch) /\ sch.ok
    BY <1>1 DEF QuietQueue, QInv, RingTypeOK, NoPanic
  <2>2. SameSleepers(sch, sch')
    BY <2>1 DEF SameSleepers
  <2>3. wake_hlt /\ UNCHANGED <<ringVars, sleeper, lockVars, callVars>>
    BY <1>1 DEF QuietQueue
  <2> QED
    BY <2>1, <2>2, <2>3, QuietKeeps
<1>2. ASSUME NEW b \in Bytes, StoreChar(b) PROVE QInv'
  <2>1. /\ pc' \in [Threads -> Labels] /\ PcInv' /\ NobodyMoves /\ side' = side /\ left' = left
    BY <1>2, WakeHltFacts DEF StoreChar
  <2>2. /\ head' \in 0..(bufsize - 1) /\ tail' = tail /\ byte' = byte
        /\ buf' \in [0..(bufsize - 1) -> Bytes \cup {NULL}]
        /\ holder' = holder /\ waiters' = waiters
    BY <1>2, StoreType DEF StoreChar, ioq_store, lockVars
  <2>3. /\ sch' \in SchedState /\ Consistent(sch') /\ sch'.ok
        /\ sleeper' \in [{"producer", "consumer"} -> Threads \cup {NULL}]
        /\ WaitersInv' /\ LockInv'
    BY <1>2, <2>1, WakeupKeeps DEF StoreChar, ioq_store
  <2>4. RingTypeOK'
    BY <2>1, <2>2, <2>3 DEF QInv, RingTypeOK
  <2> QED
    BY <2>1, <2>3, <2>4, QInvFrom
<1> QED
  BY <1>1, <1>2 DEF HandlerStep

(* The cases of a step.                                                    *)
KeyStep(k, bit) ==
  /\ Send(k, bit) /\ (bit = 0 \/ k \in held)
  /\ held' = IF bit = 0 THEN held \cup {k} ELSE held \ {k}

StepKinds ==
  \/ UNCHANGED keyVars /\ (QueueNext \/ UNCHANGED queueVars)
  \/ UNCHANGED keyVars /\ \E t \in Readers, n \in Nat : sys_read(t, n)
  \/ HandlerStep
  \/ \E k \in Keys, bit \in {0, BreakBit} : KeyStep(k, bit)

(* Every step is one of these.                                             *)
LEMMA StepCases ==
  ASSUME KInv, [Next]_vars
  PROVE  StepKinds
<1>1. ASSUME UNCHANGED vars PROVE StepKinds
  BY <1>1 DEF vars, StepKinds
<1>2. ASSUME NEW t \in Readers, NEW n \in 1..MaxCount, sys_read(t, n), UNCHANGED keyVars
      PROVE  StepKinds
  BY <1>2, ReadersAssumption DEF StepKinds
<1>3. ASSUME intr_keyboard_handler PROVE StepKinds
  BY <1>3, HandlerFacts DEF StepKinds, KInv
<1>4. ASSUME NEW k \in Keys, press(k) PROVE StepKinds
  BY <1>4 DEF StepKinds, KeyStep, press
<1>5. ASSUME NEW k \in Keys, release(k) PROVE StepKinds
  <2>1. KeyStep(k, BreakBit)
    BY <1>5 DEF KeyStep, release, BreakBit
  <2> QED
    BY <2>1 DEF StepKinds
<1> QED
  BY <1>1, <1>2, <1>3, <1>4, <1>5 DEF Next, StepKinds

(* Every step keeps the invariant.                                         *)
LEMMA StepKeepsKInv ==
  ASSUME KInv, [Next]_vars
  PROVE  KInv'
<1>1. QInv /\ PortOK(port, ext_scancode)
  BY DEF KInv
<1>2. ASSUME UNCHANGED keyVars, QInv' PROVE KInv'
  BY <1>2 DEF KInv, keyVars, modifierVars, PortOK, IsExt, KeyAt
<1>3. ASSUME UNCHANGED keyVars, QueueNext \/ UNCHANGED queueVars PROVE KInv'
  BY <1>1, <1>2, <1>3, QueueStepKeeps, QueueStutterKeeps
<1>4. ASSUME UNCHANGED keyVars, NEW t \in Readers, NEW n \in Nat, sys_read(t, n) PROVE KInv'
  <2>1. t \in Users /\ Enter(t, "consumer", n)
    BY <1>4, ReadersAssumption DEF sys_read, Users
  <2> QED
    BY <1>1, <1>2, <1>4, <2>1, EnterKeeps
<1>5. ASSUME HandlerStep PROVE KInv'
  <2>1. QInv'
    BY <1>1, <1>5, HandlerKeepsQInv
  <2>2. PortOK(port', ext_scancode')
    BY <1>1, <1>5, TailPortOK DEF HandlerStep
  <2>3. {shift_status', ctrl_status', alt_status', caps_lock_status'} \subseteq {0, 1}
    BY <1>5 DEF HandlerStep, NewStatus, KInv
  <2>4. held' \subseteq Keys
    BY <1>5 DEF HandlerStep, KInv
  <2> QED
    BY <2>1, <2>2, <2>3, <2>4 DEF KInv, PortOK, IsExt, KeyAt
<1>6. ASSUME NEW k \in Keys, NEW bit \in {0, BreakBit}, KeyStep(k, bit) PROVE KInv'
  <2>1. QInv'
    BY <1>1, <1>6, QueueStutterKeeps DEF KeyStep, Send
  <2>2. Longer(port, ext_scancode, port', k, bit) /\ ext_scancode' = ext_scancode
    BY <1>1, <1>6, SendLonger DEF KeyStep, Send
  <2>3. PortOK(port', ext_scancode')
    BY <1>1, <2>2, SentPortOK
  <2>4. UNCHANGED modifierVars
    BY <1>6 DEF KeyStep, Send
  <2>5. held' \subseteq Keys
    BY <1>6 DEF KeyStep, KInv
  <2> QED
    BY <2>1, <2>3, <2>4, <2>5 DEF KInv, PortOK, IsExt, KeyAt, modifierVars
<1> QED
  BY <1>3, <1>4, <1>5, <1>6, StepCases DEF StepKinds

(* Scan codes arrive whole and are decoded, the ring and its lock stay in  *)
(* order: for every keyboard, any number of readers, any size of the ring. *)
THEOREM KeyboardInvariance == Spec => []KInv
<1>1. Init => KInv
  <2> SUFFICES ASSUME Init PROVE KInv
    OBVIOUS
  <2>1. QInv
    BY QInvInit DEF Init
  <2>2. PortOK(port, ext_scancode)
    BY DEF Init, PortOK
  <2> QED
    BY <2>1, <2>2 DEF Init, KInv
<1>2. KInv /\ [Next]_vars => KInv'
  BY StepKeepsKInv
<1> QED
  BY <1>1, <1>2, PTL DEF Spec

(* Every variable of the ring, the tasks and the handler keeps its type.   *)
THEOREM KeyboardTypes == Spec => []TypeOK
<1>1. KInv => TypeOK
  BY DEF KInv, QInv, TypeOK, PortOK
<1> QED
  BY <1>1, KeyboardInvariance, PTL

(* No ASSERT of ioqueue.c, of its lock or of the scheduler fails when the  *)
(* producer is the interrupt handler: in particular ioq_putchar never      *)
(* reaches ioq_wait there, and the reader it wakes is BLOCKED.             *)
THEOREM KeyboardNeverPanics == Spec => []NoPanic
<1>1. KInv => NoPanic
  BY DEF KInv, QInv
<1> QED
  BY <1>1, KeyboardInvariance, PTL

(* The lock of the keyboard's ring is never lost either.                   *)
THEOREM KeyboardLockKept == Spec => []LockInv
<1>1. KInv => LockInv
  BY DEF KInv, QInv
<1> QED
  BY <1>1, KeyboardInvariance, PTL

(* The characters the handler stores are read once each, in the order of   *)
(* the keys: kbd_buf is a first-in, first-out queue.                       *)
THEOREM KeyboardIsFifo == Spec => ImplementsFifo
<1>1. Init => AbstractFifo!Init
  BY InitRefines DEF Init
<1>2. KInv /\ KInv' /\ [Next]_vars => [AbstractFifo!Next]_<<Contents, byte>>
  <2> SUFFICES ASSUME KInv, KInv', [Next]_vars
               PROVE  [AbstractFifo!Next]_<<Contents, byte>>
    OBVIOUS
  <2>0. QInv /\ QInv'
    BY DEF KInv
  <2>1. ASSUME QueueNext PROVE [AbstractFifo!Next]_<<Contents, byte>>
    BY <2>0, <2>1, QueueStepRefines
  <2>2. ASSUME UNCHANGED queueVars \/ QuietQueue PROVE UNCHANGED ringVars
    BY <2>2 DEF queueVars, QuietQueue
  <2>3. ASSUME NEW t \in Readers, NEW n \in Nat, sys_read(t, n) PROVE UNCHANGED ringVars
    BY <2>3 DEF sys_read, Enter
  <2>4. ASSUME NEW b \in Bytes, StoreChar(b) PROVE AbstractFifo!Next
    BY <2>0, <2>4, StoreRefines DEF StoreChar
  <2>5. ASSUME NEW k \in Keys, NEW bit \in {0, BreakBit}, KeyStep(k, bit)
        PROVE  UNCHANGED queueVars
    BY <2>5 DEF KeyStep, Send
  <2> QED
    BY <2>1, <2>2, <2>3, <2>4, <2>5, StepCases, RingUntouched DEF StepKinds, HandlerStep
<1> QED
  BY <1>1, <1>2, KeyboardInvariance, PTL DEF Spec, ImplementsFifo, AbstractFifo!Spec

-----------------------------------------------------------------------------
(* The status variables and the keys.  Each of the three follows one class *)
(* of keys in the same way.                                                *)

(* What a step that sends no code does to a status variable st of the      *)
(* class M, with new its next value.                                       *)
StatusStep(st, new, M) ==
  \/ new = st /\ UNCHANGED <<port, ext_scancode, held>>
  \/ /\ new = NewStatus(st, M) /\ port # << >> /\ port' = Tail(port) /\ held' = held
     /\ ext_scancode' = IF Head(port) = Prefix THEN 1 ELSE 0

StatusSteps ==
  /\ StatusStep(shift_status, shift_status', shift_make)
  /\ StatusStep(ctrl_status, ctrl_status', ctrl_make)
  /\ StatusStep(alt_status, alt_status', alt_make)

(* A step sends a code and leaves the status variables alone, or it sends  *)
(* none.                                                                   *)
LEMMA StatusCases ==
  ASSUME KInv, [Next]_vars
  PROVE  \/ StatusSteps
         \/ UNCHANGED modifierVars /\ \E k \in Keys, bit \in {0, BreakBit} : KeyStep(k, bit)
<1>1. ASSUME UNCHANGED keyVars PROVE StatusSteps
  BY <1>1 DEF StatusSteps, StatusStep, keyVars, modifierVars
<1>2. ASSUME HandlerStep PROVE StatusSteps
  BY <1>2 DEF StatusSteps, StatusStep, HandlerStep
<1>3. ASSUME NEW k \in Keys, NEW bit \in {0, BreakBit}, KeyStep(k, bit)
      PROVE  UNCHANGED modifierVars
  BY <1>3 DEF KeyStep, Send
<1> QED
  BY <1>1, <1>2, <1>3, StepCases DEF StepKinds

(* A step that sends no code keeps track of the keys h.                    *)
LEMMA StatusTracks ==
  ASSUME PortOK(port, ext_scancode), NEW M, NEW st, NEW new, StatusStep(st, new, M),
         NEW h, Tracks(M, st, h, port, ext_scancode)
  PROVE  Tracks(M, new, h, port', ext_scancode') /\ held' = held
<1>1. ASSUME new = st, UNCHANGED <<port, ext_scancode, held>>
      PROVE  Tracks(M, new, h, port', ext_scancode') /\ held' = held
  BY <1>1 DEF Tracks
<1>2. ASSUME new = NewStatus(st, M), port # << >>, port' = Tail(port), held' = held,
             ext_scancode' = IF Head(port) = Prefix THEN 1 ELSE 0
      PROVE  Tracks(M, new, h, port', ext_scancode')
  BY <1>2, TailTracks DEF NewStatus
<1> QED
  BY <1>1, <1>2 DEF StatusStep

(* So does a step that sends one, for the keys g that it makes of h.       *)
LEMMA KeyTracks ==
  ASSUME PortOK(port, ext_scancode), NEW k \in Keys, NEW bit \in {0, BreakBit},
         KeyStep(k, bit), NEW M, NEW st, NEW h, Tracks(M, st, h, port, ext_scancode), NEW g,
         k \in M => (bit = 0 <=> g \cap M # {}),
         k \notin M => g \cap M = h \cap M
  PROVE  Tracks(M, st, g, port', ext_scancode')
<1>1. Longer(port, ext_scancode, port', k, bit) /\ ext_scancode' = ext_scancode
  BY SendLonger DEF KeyStep, Send
<1> QED
  BY <1>1, SentTracks

(* A status variable that is set, or will be when the bytes on the way are *)
(* seen, stands for a key that is down.                                    *)
Backed(M, st, h, p, e) == \E d \in SUBSET (h \cap M) : Tracks(M, st, d, p, e)

(* The handler and the tasks keep the statuses backed by keys.             *)
LEMMA QuietBacked ==
  ASSUME PortOK(port, ext_scancode), NEW M, NEW st, NEW new, StatusStep(st, new, M),
         Backed(M, st, held, port, ext_scancode)
  PROVE  Backed(M, new, held', port', ext_scancode')
<1>1. PICK d \in SUBSET (held \cap M) : Tracks(M, st, d, port, ext_scancode)
  BY DEF Backed
<1>2. Tracks(M, new, d, port', ext_scancode') /\ held' = held
  BY <1>1, StatusTracks
<1> QED
  BY <1>2 DEF Backed

(* So do a press and a release.                                            *)
LEMMA KeyBacked ==
  ASSUME PortOK(port, ext_scancode), NEW k \in Keys, NEW bit \in {0, BreakBit},
         KeyStep(k, bit), NEW M, NEW st, Backed(M, st, held, port, ext_scancode)
  PROVE  Backed(M, st, held', port', ext_scancode')
<1>1. PICK d \in SUBSET (held \cap M) : Tracks(M, st, d, port, ext_scancode)
  BY DEF Backed
<1>2. PICK g : g = IF k \notin M THEN d ELSE IF bit = 0 THEN {k} ELSE {}
  OBVIOUS
<1>3. g \in SUBSET (held' \cap M)
  BY <1>2 DEF KeyStep
<1>4. (k \in M => (bit = 0 <=> g \cap M # {})) /\ (k \notin M => g \cap M = d \cap M)
  BY <1>2
<1>5. Tracks(M, st, g, port', ext_scancode')
  BY <1>1, <1>4, KeyTracks
<1> QED
  BY <1>3, <1>5 DEF Backed

BackedInv ==
  /\ Backed(shift_make, shift_status, held, port, ext_scancode)
  /\ Backed(ctrl_make, ctrl_status, held, port, ext_scancode)
  /\ Backed(alt_make, alt_status, held, port, ext_scancode)

(* No modifier sticks: once the handler has seen every byte, a status      *)
(* variable is 1 only if a key of its class is down, however many of them  *)
(* there are and in whatever order they are pressed and released.          *)
NoModifierSticks ==
  port = << >> =>
    /\ shift_status = 1 => held \cap shift_make # {}
    /\ ctrl_status = 1 => held \cap ctrl_make # {}
    /\ alt_status = 1 => held \cap alt_make # {}
    /\ ext_scancode = 0

(* What Tracks and Backed say when no byte is on the way.                  *)
LEMMA NothingOnTheWay ==
  ASSUME PortOK(port, ext_scancode), port = << >>
  PROVE  /\ ext_scancode = 0
         /\ \A M, st, h : Tracks(M, st, h, port, ext_scancode) =>
                            (st = 1 <=> h \cap M # {})
         /\ \A M, st : Backed(M, st, held, port, ext_scancode) =>
                         (st = 1 => held \cap M # {})
<1>1. ext_scancode = 0
  BY DEF PortOK
<1>2. ASSUME NEW M, NEW st, NEW h, Tracks(M, st, h, port, ext_scancode)
      PROVE  st = 1 <=> h \cap M # {}
  BY <1>2 DEF Tracks
<1>3. ASSUME NEW M, NEW st, Backed(M, st, held, port, ext_scancode)
      PROVE  st = 1 => held \cap M # {}
  <2>1. PICK d \in SUBSET (held \cap M) : Tracks(M, st, d, port, ext_scancode)
    BY <1>3 DEF Backed
  <2>2. st = 1 <=> d \cap M # {}
    BY <1>2, <2>1
  <2> QED
    BY <2>2
<1> QED
  BY <1>1, <1>2, <1>3

(* So does every step.                                                     *)
LEMMA StepKeepsBackedInv ==
  ASSUME KInv, BackedInv, [Next]_vars
  PROVE  BackedInv'
<1>0. PortOK(port, ext_scancode)
  BY DEF KInv
<1>1. ASSUME StatusSteps PROVE BackedInv'
  <2>1. Backed(shift_make, shift_status', held', port', ext_scancode')
    BY <1>0, <1>1, QuietBacked DEF StatusSteps, BackedInv
  <2>2. Backed(ctrl_make, ctrl_status', held', port', ext_scancode')
    BY <1>0, <1>1, QuietBacked DEF StatusSteps, BackedInv
  <2>3. Backed(alt_make, alt_status', held', port', ext_scancode')
    BY <1>0, <1>1, QuietBacked DEF StatusSteps, BackedInv
  <2> QED
    BY <2>1, <2>2, <2>3
    DEF BackedInv, Backed, Tracks, About, KeyAt, IsExt, shift_make, ctrl_make, alt_make
<1>2. ASSUME UNCHANGED modifierVars, NEW k \in Keys, NEW bit \in {0, BreakBit}, KeyStep(k, bit)
      PROVE  BackedInv'
  <2>1. Backed(shift_make, shift_status', held', port', ext_scancode')
    BY <1>0, <1>2, KeyBacked DEF BackedInv, modifierVars
  <2>2. Backed(ctrl_make, ctrl_status', held', port', ext_scancode')
    BY <1>0, <1>2, KeyBacked DEF BackedInv, modifierVars
  <2>3. Backed(alt_make, alt_status', held', port', ext_scancode')
    BY <1>0, <1>2, KeyBacked DEF BackedInv, modifierVars
  <2> QED
    BY <2>1, <2>2, <2>3
    DEF BackedInv, Backed, Tracks, About, KeyAt, IsExt, shift_make, ctrl_make, alt_make
<1> QED
  BY <1>1, <1>2, StatusCases

(* A modifier whose keys are all released is off, on any keyboard.         *)
THEOREM ModifiersNeverStick == Spec => []NoModifierSticks
<1>1. Init => BackedInv
  <2> SUFFICES ASSUME Init PROVE BackedInv
    OBVIOUS
  <2>1. ASSUME NEW M PROVE Backed(M, 0, held, port, ext_scancode)
    <3>1. Tracks(M, 0, {}, port, ext_scancode)
      BY DEF Init, Tracks
    <3> QED
      BY <3>1 DEF Backed
  <2>2. shift_status = 0 /\ ctrl_status = 0 /\ alt_status = 0
    BY DEF Init
  <2> QED
    BY <2>1, <2>2 DEF BackedInv
<1>2. KInv /\ BackedInv /\ [Next]_vars => BackedInv'
  BY StepKeepsBackedInv
<1>3. KInv /\ BackedInv => NoModifierSticks
  BY NothingOnTheWay DEF KInv, BackedInv, NoModifierSticks
<1> QED
  BY <1>1, <1>2, <1>3, KeyboardInvariance, PTL DEF Spec

-----------------------------------------------------------------------------
(* At most one key of each class is down.                                  *)
OneHeld ==
  \A M \in {shift_make, ctrl_make, alt_make} : \A j, k \in held \cap M : j = k

TracksInv ==
  /\ Tracks(shift_make, shift_status, held, port, ext_scancode)
  /\ Tracks(ctrl_make, ctrl_status, held, port, ext_scancode)
  /\ Tracks(alt_make, alt_status, held, port, ext_scancode)

(* A press or a release, when no other key of the class is down.           *)
LEMMA KeyHeldTracks ==
  ASSUME PortOK(port, ext_scancode), NEW k \in Keys, NEW bit \in {0, BreakBit},
         KeyStep(k, bit), NEW M, \A i, j \in held \cap M : i = j,
         NEW st, Tracks(M, st, held, port, ext_scancode)
  PROVE  Tracks(M, st, held', port', ext_scancode')
<1>1. ASSUME k \in M PROVE bit = 0 <=> held' \cap M # {}
  <2>1. CASE bit = 0
    BY <1>1, <2>1 DEF KeyStep
  <2>2. CASE bit # 0
    BY <1>1, <2>2 DEF KeyStep
  <2> QED
    BY <2>1, <2>2
<1>2. ASSUME k \notin M PROVE held' \cap M = held \cap M
  BY <1>2 DEF KeyStep
<1>3. PICK g : g = held'
  OBVIOUS
<1>4. Tracks(M, st, g, port', ext_scancode')
  BY <1>1, <1>2, <1>3, KeyTracks
<1> QED
  BY <1>3, <1>4

(* Every step, when at most one key of each class is down.                 *)
LEMMA StepKeepsTracksInv ==
  ASSUME KInv, OneHeld, TracksInv, [Next]_vars
  PROVE  TracksInv'
<1>0. PortOK(port, ext_scancode)
  BY DEF KInv
<1>1. ASSUME StatusSteps PROVE TracksInv'
  <2>1. Tracks(shift_make, shift_status', held, port', ext_scancode') /\ held' = held
    BY <1>0, <1>1, StatusTracks DEF StatusSteps, TracksInv
  <2>2. Tracks(ctrl_make, ctrl_status', held, port', ext_scancode')
    BY <1>0, <1>1, StatusTracks DEF StatusSteps, TracksInv
  <2>3. Tracks(alt_make, alt_status', held, port', ext_scancode')
    BY <1>0, <1>1, StatusTracks DEF StatusSteps, TracksInv
  <2> QED
    BY <2>1, <2>2, <2>3 DEF TracksInv
<1>2. ASSUME UNCHANGED modifierVars, NEW k \in Keys, NEW bit \in {0, BreakBit}, KeyStep(k, bit)
      PROVE  TracksInv'
  <2>1. Tracks(shift_make, shift_status', held', port', ext_scancode')
    BY <1>0, <1>2, KeyHeldTracks DEF OneHeld, TracksInv, modifierVars
  <2>2. Tracks(ctrl_make, ctrl_status', held', port', ext_scancode')
    BY <1>0, <1>2, KeyHeldTracks DEF OneHeld, TracksInv, modifierVars
  <2>3. Tracks(alt_make, alt_status', held', port', ext_scancode')
    BY <1>0, <1>2, KeyHeldTracks DEF OneHeld, TracksInv, modifierVars
  <2> QED
    BY <2>1, <2>2, <2>3 DEF TracksInv
<1> QED
  BY <1>1, <1>2, StatusCases

(* While nobody holds two keys of a class at once the status variables are *)
(* those of the keys.  The code keeps one flag for the two shift keys, and *)
(* the other pairs, so with both held the release of one clears it: the    *)
(* hypothesis cannot be dropped.                                           *)
THEOREM StatusFollowsKeys == Spec /\ []OneHeld => []ModifiersTrackKeys
<1>1. Init => TracksInv
  BY DEF Init, TracksInv, Tracks
<1>2. KInv /\ OneHeld /\ TracksInv /\ [Next]_vars => TracksInv'
  BY StepKeepsTracksInv
<1>3. KInv /\ TracksInv => ModifiersTrackKeys
  BY NothingOnTheWay DEF KInv, TracksInv, ModifiersTrackKeys
<1> QED
  BY <1>1, <1>2, <1>3, KeyboardInvariance, PTL DEF Spec
=============================================================================
