-------------------------- MODULE PacketCodecProofs --------------------------
(***************************************************************************)
(* What the operators of PacketCodec compute, for every input: the CRC     *)
(* (its register is linear and injective, so that one damaged byte always  *)
(* shows, and a sealed packet leaves the same remainder whatever is in     *)
(* it), the byte layouts, and the ranges of what is decoded.               *)
(*                                                                         *)
(* The CRC runs over as many bytes as there are, so facts about it need    *)
(* induction.  It is taken from WFMin: a set of naturals that holds 0 and  *)
(* the successor of each of its elements holds all of them.                *)
(***************************************************************************)
EXTENDS PacketCodec, SequenceTheorems, WellFoundedInduction, TLAPS

(* Induction.                                                              *)

LEMMA Least ==
    ASSUME NEW T \in SUBSET Nat, T # {}
    PROVE  \E x \in T : \A y \in T : ~(y < x)
<1>1. \E x \in T : \A y \in T : <<y, x>> \notin OpToRel(<, Nat)
  BY NatLessThanWellFounded, WFMin, Zenon
<1> QED
  BY <1>1 DEF OpToRel

LEMMA Induction ==
    ASSUME NEW S, 0 \in S, \A n \in Nat : n \in S => n + 1 \in S
    PROVE  Nat \subseteq S
<1> DEFINE T == Nat \ S
<1>1. ASSUME NEW x \in T, \A y \in T : ~(y < x) PROVE FALSE
  <2>1. x - 1 \in Nat /\ x - 1 < x
    OBVIOUS
  <2>2. x - 1 \in S
    BY <2>1, <1>1
  <2> QED
    BY <2>1, <2>2
<1> QED
  BY <1>1, Least

LEMMA FunctionIsSeq ==
    ASSUME NEW S, NEW n \in Nat, NEW f \in [1 .. n -> S]
    PROVE  f \in Seq(S) /\ Len(f) = n
<1>1. f \in Seq(S)
  BY SeqDef
<1>2. Len(f) \in Nat /\ 1 .. Len(f) = 1 .. n
  BY <1>1, LenProperties
<1> QED
  BY <1>1, <1>2

-----------------------------------------------------------------------------
(* The register, bit by bit.                                               *)

LEMMA XorCancels ==
    ASSUME NEW u, NEW v, NEW w, Xor(u, w) = Xor(v, w) \/ Xor(w, u) = Xor(w, v)
    PROVE  u = v
BY DEF Xor

LEMMA ShiftBitBit ==
    ASSUME NEW w \in SUBSET Word32
    PROVE  /\ ShiftBit(w) \in SUBSET Word32
           /\ \A b \in Word32 :
                 b \in ShiftBit(w) <=> ~(b + 1 \in w <=> (0 \in w /\ b \in Polynomial))
<1> DEFINE shifted == {b - 1 : b \in w \ {0}}
<1>1. shifted \in SUBSET Word32 /\ Polynomial \in SUBSET Word32
  BY DEF Word32, Polynomial
<1>2. \A b \in Word32 : b \in shifted <=> b + 1 \in w
  BY DEF Word32
<1>3. ShiftBit(w) = IF 0 \in w THEN Xor(shifted, Polynomial) ELSE shifted
  BY DEF ShiftBit
<1> HIDE DEF shifted
<1> QED
  BY <1>1, <1>2, <1>3 DEF Xor

LEMMA XorType ==
    ASSUME NEW v \in SUBSET Word32, NEW w \in SUBSET Word32
    PROVE  Xor(v, w) \in SUBSET Word32
BY DEF Xor

LEMMA ShiftBitLinear ==
    ASSUME NEW v \in SUBSET Word32, NEW w \in SUBSET Word32
    PROVE  ShiftBit(Xor(v, w)) = Xor(ShiftBit(v), ShiftBit(w))
<1>1. Xor(v, w) \in SUBSET Word32
  BY XorType
<1>2. \A b : b \in Xor(v, w) <=> ~(b \in v <=> b \in w)
  BY DEF Xor
<1>3. \A b : b \in Xor(ShiftBit(v), ShiftBit(w)) <=> ~(b \in ShiftBit(v) <=> b \in ShiftBit(w))
  BY DEF Xor
<1>4. ASSUME NEW b \in Word32
      PROVE  b \in ShiftBit(Xor(v, w)) <=> b \in Xor(ShiftBit(v), ShiftBit(w))
  BY <1>1, <1>2, <1>3, ShiftBitBit
<1>5. ShiftBit(Xor(v, w)) \in SUBSET Word32 /\ Xor(ShiftBit(v), ShiftBit(w)) \in SUBSET Word32
  BY <1>1, ShiftBitBit, XorType
<1> QED
  BY <1>4, <1>5

\* The polynomial has bit 31, which nothing else can set: it tells whether bit 0 was set.
LEMMA ShiftBitInjective ==
    ASSUME NEW v \in SUBSET Word32, NEW w \in SUBSET Word32, ShiftBit(v) = ShiftBit(w)
    PROVE  v = w
<1>1. 31 \in Polynomial /\ 32 \notin v /\ 32 \notin w /\ 31 \in Word32
  BY DEF Polynomial, Word32
<1>2. 0 \in v <=> 0 \in w
  BY <1>1, ShiftBitBit
<1>3. ASSUME NEW b \in Word32, b # 0
      PROVE  b \in v <=> b \in w
  <2>1. b - 1 \in Word32 /\ (b - 1) + 1 = b
    BY <1>3 DEF Word32
  <2> QED
    BY <1>2, <2>1, ShiftBitBit
<1> QED
  BY <1>2, <1>3

-----------------------------------------------------------------------------
(* Byte by byte.                                                           *)

Shift4(w) == ShiftBit(ShiftBit(ShiftBit(ShiftBit(w))))
Shift8(w) == Shift4(Shift4(w))

LEMMA ShiftByteIsShift8 ==
    ASSUME NEW crc, NEW byte
    PROVE  ShiftByte(crc, byte) = Shift8(Xor(crc, byte))
BY DEF ShiftByte, Shift8, Shift4

LEMMA Shift4Facts ==
    ASSUME NEW v \in SUBSET Word32, NEW w \in SUBSET Word32
    PROVE  /\ Shift4(v) \in SUBSET Word32
           /\ Shift4(Xor(v, w)) = Xor(Shift4(v), Shift4(w))
           /\ Shift4(v) = Shift4(w) => v = w
<1> DEFINE v1 == ShiftBit(v) v2 == ShiftBit(v1) v3 == ShiftBit(v2) v4 == ShiftBit(v3)
           w1 == ShiftBit(w) w2 == ShiftBit(w1) w3 == ShiftBit(w2) w4 == ShiftBit(w3)
<1>1. v1 \in SUBSET Word32 /\ w1 \in SUBSET Word32
  BY ShiftBitBit
<1>2. v2 \in SUBSET Word32 /\ w2 \in SUBSET Word32
  BY <1>1, ShiftBitBit
<1>3. v3 \in SUBSET Word32 /\ w3 \in SUBSET Word32
  BY <1>2, ShiftBitBit
<1>4. v4 \in SUBSET Word32 /\ Shift4(v) = v4 /\ Shift4(w) = w4
  BY <1>3, ShiftBitBit DEF Shift4
<1>5. Shift4(Xor(v, w)) = Xor(v4, w4)
  <2>1. ShiftBit(Xor(v, w)) = Xor(v1, w1)
    BY ShiftBitLinear
  <2>2. ShiftBit(Xor(v1, w1)) = Xor(v2, w2)
    BY <1>1, ShiftBitLinear
  <2>3. ShiftBit(Xor(v2, w2)) = Xor(v3, w3)
    BY <1>2, ShiftBitLinear
  <2>4. ShiftBit(Xor(v3, w3)) = Xor(v4, w4)
    BY <1>3, ShiftBitLinear
  <2> HIDE DEF v1, v2, v3, v4, w1, w2, w3, w4
  <2> QED
    BY <2>1, <2>2, <2>3, <2>4 DEF Shift4
<1>6. v4 = w4 => v = w
  <2>1. v4 = w4 => v3 = w3
    BY <1>3, ShiftBitInjective
  <2>2. v3 = w3 => v2 = w2
    BY <1>2, ShiftBitInjective
  <2>3. v2 = w2 => v1 = w1
    BY <1>1, ShiftBitInjective
  <2>4. v1 = w1 => v = w
    BY ShiftBitInjective
  <2> QED
    BY <2>1, <2>2, <2>3, <2>4
<1> QED
  BY <1>4, <1>5, <1>6

LEMMA Shift8Facts ==
    ASSUME NEW v \in SUBSET Word32, NEW w \in SUBSET Word32
    PROVE  /\ Shift8(v) \in SUBSET Word32
           /\ Shift8(Xor(v, w)) = Xor(Shift8(v), Shift8(w))
           /\ Shift8(v) = Shift8(w) => v = w
<1>1. Shift4(v) \in SUBSET Word32 /\ Shift4(w) \in SUBSET Word32
  BY Shift4Facts
<1> QED
  BY <1>1, Shift4Facts DEF Shift8

LEMMA ByteIsWord ==
    ASSUME NEW b \in Byte
    PROVE  b \in SUBSET Word32
BY DEF Byte, Word32

LEMMA ShiftByteType ==
    ASSUME NEW crc \in SUBSET Word32, NEW byte \in Byte
    PROVE  ShiftByte(crc, byte) \in SUBSET Word32
<1>1. Xor(crc, byte) \in SUBSET Word32
  BY ByteIsWord, XorType
<1> QED
  BY <1>1, Shift8Facts, ShiftByteIsShift8

\* Two registers stay apart behind the same byte ...
LEMMA RegistersStayApart ==
    ASSUME NEW crc \in SUBSET Word32, NEW other \in SUBSET Word32, NEW byte \in Byte,
           ShiftByte(crc, byte) = ShiftByte(other, byte)
    PROVE  crc = other
<1>1. Xor(crc, byte) \in SUBSET Word32 /\ Xor(other, byte) \in SUBSET Word32
  BY ByteIsWord, XorType
<1>2. Xor(crc, byte) = Xor(other, byte)
  BY <1>1, Shift8Facts, ShiftByteIsShift8
<1> QED
  BY <1>2, XorCancels

\* ... and two bytes set the same register apart.
LEMMA BytesSetApart ==
    ASSUME NEW crc \in SUBSET Word32, NEW byte \in Byte, NEW other \in Byte,
           ShiftByte(crc, byte) = ShiftByte(crc, other)
    PROVE  byte = other
<1>1. Xor(crc, byte) \in SUBSET Word32 /\ Xor(crc, other) \in SUBSET Word32
  BY ByteIsWord, XorType
<1>2. Xor(crc, byte) = Xor(crc, other)
  BY <1>1, Shift8Facts, ShiftByteIsShift8
<1> QED
  BY <1>2, XorCancels

-----------------------------------------------------------------------------
(* All bytes.                                                              *)

\* What the recursive function of Registers says of its value at i.
AfterByte(initial, data, reg, i) ==
    IF i = 0 THEN initial ELSE UNION {ShiftByte(c, data[i]) : c \in {reg[i - 1]}}

\* There is such a function, up to every n.
LEMMA RegistersExist ==
    ASSUME NEW initial, NEW data, NEW n \in Nat
    PROVE  \E reg : reg = [i \in 0 .. n |-> AfterByte(initial, data, reg, i)]
<1> DEFINE After(reg, i) == AfterByte(initial, data, reg, i)
           S == {k \in Nat : \E reg : reg = [i \in 0 .. k |-> After(reg, i)]}
<1>1. 0 \in S
  <2>1. [i \in 0 .. 0 |-> initial] = [i \in 0 .. 0 |-> After([j \in 0 .. 0 |-> initial], i)]
    BY DEF AfterByte
  <2> QED
    BY <2>1
<1>2. ASSUME NEW k \in Nat, k \in S
      PROVE  k + 1 \in S
  <2>1. PICK reg : reg = [i \in 0 .. k |-> After(reg, i)]
    BY <1>2
  <2> DEFINE more == [i \in 0 .. k + 1 |-> IF i <= k THEN reg[i] ELSE After(reg, i)]
  <2>2. ASSUME NEW i \in 0 .. k + 1
        PROVE  more[i] = After(more, i)
    <3>1. i # 0 => i - 1 \in 0 .. k + 1 /\ i - 1 <= k
      OBVIOUS
    <3>2. i # 0 => more[i - 1] = reg[i - 1]
      BY <3>1
    <3>3. After(more, i) = After(reg, i)
      BY <3>2 DEF AfterByte
    <3>4. i <= k => reg[i] = After(reg, i)
      <4> HIDE DEF After
      <4> QED
        BY <2>1
    <3> HIDE DEF After
    <3> QED
      BY <3>3, <3>4
  <2>3. more = [i \in 0 .. k + 1 |-> After(more, i)]
    <3> HIDE DEF After
    <3> QED
      BY <2>2
  <2>4. \E g : g = [i \in 0 .. k + 1 |-> After(g, i)]
    <3> HIDE DEF more, After
    <3> QED
      BY <2>3
  <2> QED
    BY <2>4
<1>3. n \in S
  <2> HIDE DEF S
  <2> QED
    BY <1>1, <1>2, Induction
<1> QED
  BY <1>3

LEMMA RegistersStep ==
    ASSUME NEW initial, NEW data, Len(data) \in Nat
    PROVE  /\ Registers(initial, data)[0] = initial
           /\ \A i \in 1 .. Len(data) :
                 Registers(initial, data)[i] = ShiftByte(Registers(initial, data)[i - 1], data[i])
<1> DEFINE After(reg, i) == AfterByte(initial, data, reg, i)
           R == Registers(initial, data)
<1>1. R = [i \in 0 .. Len(data) |-> After(R, i)]
  <2>1. R = CHOOSE reg : reg = [i \in 0 .. Len(data) |-> After(reg, i)]
    BY Zenon DEF Registers, AfterByte
  <2>2. \E reg : reg = [i \in 0 .. Len(data) |-> After(reg, i)]
    BY RegistersExist
  <2> HIDE DEF R, After
  <2> QED
    BY <2>1, <2>2, Zenon
<1>2. \A i \in 0 .. Len(data) : R[i] = After(R, i)
  <2> HIDE DEF R, After
  <2> QED
    BY <1>1
<1>3. \A i : UNION {ShiftByte(c, data[i]) : c \in {R[i - 1]}} = ShiftByte(R[i - 1], data[i])
  OBVIOUS
<1>4. /\ R[0] = initial
      /\ \A i \in 1 .. Len(data) : R[i] = ShiftByte(R[i - 1], data[i])
  <2>1. R[0] = initial
    <3>1. After(R, 0) = initial /\ 0 \in 0 .. Len(data)
      BY DEF AfterByte
    <3> HIDE DEF R, After
    <3> QED
      BY <1>2, <3>1
  <2>2. ASSUME NEW i \in 1 .. Len(data)
        PROVE  R[i] = ShiftByte(R[i - 1], data[i])
    <3>1. i # 0 /\ i \in 0 .. Len(data)
      OBVIOUS
    <3>2. After(R, i) = ShiftByte(R[i - 1], data[i])
      BY <1>3, <3>1, Zenon DEF AfterByte
    <3> HIDE DEF R, After
    <3> QED
      BY <1>2, <3>1, <3>2
  <2> HIDE DEF R
  <2> QED
    BY <2>1, <2>2
<1> QED
  BY <1>4, Zenon

LEMMA RegistersType ==
    ASSUME NEW initial \in SUBSET Word32, NEW data \in Seq(Byte), NEW n \in 0 .. Len(data)
    PROVE  Registers(initial, data)[n] \in SUBSET Word32
<1> DEFINE R == Registers(initial, data)
           S == {k \in Nat : k <= Len(data) => R[k] \in SUBSET Word32}
<1>1. Len(data) \in Nat /\ \A i \in 1 .. Len(data) : data[i] \in Byte
  OBVIOUS
<1>2. R[0] = initial /\ \A i \in 1 .. Len(data) : R[i] = ShiftByte(R[i - 1], data[i])
  BY <1>1, RegistersStep
<1> HIDE DEF R
<1>3. 0 \in S
  BY <1>2
<1>4. ASSUME NEW k \in Nat, k \in S
      PROVE  k + 1 \in S
  <2> SUFFICES ASSUME k + 1 <= Len(data)
               PROVE  R[k + 1] \in SUBSET Word32
    OBVIOUS
  <2>1. k + 1 \in 1 .. Len(data) /\ (k + 1) - 1 = k
    BY <1>1
  <2>2. R[k] \in SUBSET Word32
    BY <1>1, <1>4
  <2> QED
    BY <1>1, <1>2, <2>1, <2>2, ShiftByteType
<1>5. n \in S
  <2> HIDE DEF S
  <2> QED
    BY <1>3, <1>4, Induction
<1> QED
  BY <1>5 DEF R

\* The register after n bytes depends on no other byte.
LEMMA RegistersAgree ==
    ASSUME NEW initial, NEW d, NEW e, Len(d) \in Nat, Len(e) \in Nat,
           NEW n \in Nat, n <= Len(d), n <= Len(e),
           \A j \in 1 .. n : d[j] = e[j]
    PROVE  Registers(initial, d)[n] = Registers(initial, e)[n]
<1> DEFINE R == Registers(initial, d)
           Q == Registers(initial, e)
           S == {k \in Nat : k <= n => R[k] = Q[k]}
<1>1. /\ R[0] = initial /\ \A i \in 1 .. Len(d) : R[i] = ShiftByte(R[i - 1], d[i])
      /\ Q[0] = initial /\ \A i \in 1 .. Len(e) : Q[i] = ShiftByte(Q[i - 1], e[i])
  BY RegistersStep
<1> HIDE DEF R, Q
<1>2. 0 \in S
  BY <1>1
<1>3. ASSUME NEW k \in Nat, k \in S
      PROVE  k + 1 \in S
  <2> SUFFICES ASSUME k + 1 <= n
               PROVE  R[k + 1] = Q[k + 1]
    OBVIOUS
  <2>1. k + 1 \in 1 .. n /\ k + 1 \in 1 .. Len(d) /\ k + 1 \in 1 .. Len(e) /\ (k + 1) - 1 = k
    OBVIOUS
  <2>2. R[k] = Q[k]
    BY <1>3
  <2> QED
    BY <1>1, <2>1, <2>2
<1>4. n \in S
  <2> HIDE DEF S
  <2> QED
    BY <1>2, <1>3, Induction
<1> QED
  BY <1>4 DEF R, Q

\* One byte that is different is noticed: the registers part there, and never meet again.
LEMMA CrcApart ==
    ASSUME NEW initial \in SUBSET Word32, NEW d \in Seq(Byte), NEW e \in Seq(Byte),
           Len(e) = Len(d), NEW i \in 1 .. Len(d), d[i] # e[i],
           \A j \in 1 .. Len(d) : j # i => d[j] = e[j]
    PROVE  Crc32(initial, d) # Crc32(initial, e)
<1> DEFINE R == Registers(initial, d)
           Q == Registers(initial, e)
           S == {k \in Nat : i <= k /\ k <= Len(d) => R[k] # Q[k]}
<1>1. /\ Len(d) \in Nat
      /\ \A j \in 1 .. Len(d) : d[j] \in Byte /\ e[j] \in Byte
  OBVIOUS
<1>2. /\ \A j \in 1 .. Len(d) : R[j] = ShiftByte(R[j - 1], d[j])
      /\ \A j \in 1 .. Len(d) : Q[j] = ShiftByte(Q[j - 1], e[j])
  BY <1>1, RegistersStep
<1>3. \A j \in 0 .. Len(d) : R[j] \in SUBSET Word32 /\ Q[j] \in SUBSET Word32
  BY RegistersType
<1>4. R[i - 1] = Q[i - 1]
  <2>1. i - 1 \in Nat /\ i - 1 <= Len(d) /\ \A j \in 1 .. i - 1 : d[j] = e[j]
    BY <1>1
  <2> QED
    BY <1>1, <2>1, RegistersAgree
<1> HIDE DEF R, Q
<1>5. 0 \in S
  OBVIOUS
<1>6. ASSUME NEW k \in Nat, k \in S
      PROVE  k + 1 \in S
  <2> SUFFICES ASSUME i <= k + 1, k + 1 <= Len(d)
               PROVE  R[k + 1] # Q[k + 1]
    OBVIOUS
  <2>1. k + 1 \in 1 .. Len(d) /\ (k + 1) - 1 = k /\ k \in 0 .. Len(d)
    BY <1>1
  <2>2. R[k + 1] = ShiftByte(R[k], d[k + 1]) /\ Q[k + 1] = ShiftByte(Q[k], e[k + 1])
    BY <1>2, <2>1
  <2>3. /\ R[k] \in SUBSET Word32 /\ Q[k] \in SUBSET Word32
        /\ d[k + 1] \in Byte /\ e[k + 1] \in Byte
    BY <1>1, <1>3, <2>1
  <2>4. CASE k + 1 = i
    <3>1. Q[k + 1] = ShiftByte(R[k], e[k + 1]) /\ d[k + 1] # e[k + 1]
      BY <1>4, <2>1, <2>2, <2>4
    <3> QED
      BY <2>2, <2>3, <3>1, BytesSetApart, Zenon
  <2>5. CASE k + 1 # i
    <3>1. R[k] # Q[k] /\ d[k + 1] = e[k + 1]
      BY <1>6, <2>1, <2>5
    <3> QED
      BY <2>2, <2>3, <3>1, RegistersStayApart, Zenon
  <2> QED
    BY <2>4, <2>5
<1>7. Len(d) \in S
  <2> HIDE DEF S
  <2> QED
    BY <1>1, <1>5, <1>6, Induction
<1> QED
  BY <1>1, <1>7 DEF R, Q, Crc32

LEMMA CrcType ==
    ASSUME NEW initial \in SUBSET Word32, NEW data \in Seq(Byte)
    PROVE  Crc32(initial, data) \in SUBSET Word32
<1>1. Len(data) \in 0 .. Len(data)
  OBVIOUS
<1> QED
  BY <1>1, RegistersType DEF Crc32

LEMMA SeededType ==
    ASSUME NEW seed \in Byte, NEW data \in Seq(Byte)
    PROVE  /\ Crc32(Word32, <<seed>>) \in SUBSET Word32
           /\ ComputeSeededDualSenseCrc(seed, data) \in SUBSET Word32
<1>1. <<seed>> \in Seq(Byte) /\ Word32 \in SUBSET Word32
  OBVIOUS
<1>2. Crc32(Word32, <<seed>>) \in SUBSET Word32
  BY <1>1, CrcType
<1> QED
  BY <1>2 DEF ComputeSeededDualSenseCrc

LEMMA SeededApart ==
    ASSUME NEW seed \in Byte, NEW d \in Seq(Byte), NEW e \in Seq(Byte),
           Len(e) = Len(d), NEW i \in 1 .. Len(d), d[i] # e[i],
           \A j \in 1 .. Len(d) : j # i => d[j] = e[j]
    PROVE  ComputeSeededDualSenseCrc(seed, d) # ComputeSeededDualSenseCrc(seed, e)
<1> DEFINE c == Crc32(Word32, <<seed>>)
<1>1. c \in SUBSET Word32
  BY SeededType
<1> HIDE DEF c
<1>2. Crc32(c, d) # Crc32(c, e)
  BY <1>1, CrcApart
<1>3. Crc32(c, d) \in SUBSET Word32 /\ Crc32(c, e) \in SUBSET Word32
  BY <1>1, CrcType
<1>4. Word32 \ Crc32(c, d) # Word32 \ Crc32(c, e)
  BY <1>2, <1>3
<1> QED
  BY <1>4 DEF ComputeSeededDualSenseCrc, c

-----------------------------------------------------------------------------
(* Words as four bytes, and the CRC behind what it is taken over.          *)

LEMMA WriteType ==
    ASSUME NEW value
    PROVE  /\ WriteLe32(value) \in Seq(Byte) /\ Len(WriteLe32(value)) = 4
           /\ \A i \in 1 .. 4 : WriteLe32(value)[i] \in Byte
<1>1. WriteLe32(value) \in [1 .. 4 -> Byte]
  BY DEF WriteLe32, Byte
<1> QED
  BY <1>1, FunctionIsSeq

LEMMA WrittenBytes ==
    ASSUME NEW value
    PROVE  /\ WriteLe32(value)[1] = value \cap 0 .. 7
           /\ WriteLe32(value)[2] = {b - 8 : b \in value \cap 8 .. 15}
           /\ WriteLe32(value)[3] = {b - 16 : b \in value \cap 16 .. 23}
           /\ WriteLe32(value)[4] = {b - 24 : b \in value \cap 24 .. 31}
BY DEF WriteLe32

LEMMA ReadBit ==
    ASSUME NEW bytes, NEW b
    PROVE  b \in ReadLe32(bytes) <=> \E i \in 1 .. 4 : \E c \in bytes[i] : b = 8 * (i - 1) + c
BY DEF ReadLe32

LEMMA ReadOfWritten ==
    ASSUME NEW value \in SUBSET Word32
    PROVE  ReadLe32(WriteLe32(value)) = value
<1>1. ASSUME NEW b \in value
      PROVE  b \in ReadLe32(WriteLe32(value))
  <2>1. PICK i \in 1 .. 4 : b \in 8 * (i - 1) .. 8 * i - 1
    BY DEF Word32
  <2>2. b - 8 * (i - 1) \in WriteLe32(value)[i]
    BY <2>1 DEF WriteLe32
  <2>3. b = 8 * (i - 1) + (b - 8 * (i - 1))
    BY <2>1
  <2> QED
    BY <2>2, <2>3, ReadBit
<1>2. ASSUME NEW b \in ReadLe32(WriteLe32(value))
      PROVE  b \in value
  <2>1. PICK i \in 1 .. 4 : \E c \in WriteLe32(value)[i] : b = 8 * (i - 1) + c
    BY <1>2, ReadBit
  <2>2. PICK v \in value \cap (8 * (i - 1) .. 8 * i - 1) :
                 b = 8 * (i - 1) + (v - 8 * (i - 1))
    BY <2>1 DEF WriteLe32
  <2> QED
    BY <2>1, <2>2
<1> QED
  BY <1>1, <1>2

LEMMA ReadApart ==
    ASSUME NEW d \in [1 .. 4 -> Byte], NEW e \in [1 .. 4 -> Byte], NEW i \in 1 .. 4, d[i] # e[i]
    PROVE  ReadLe32(d) # ReadLe32(e)
<1>1. PICK c \in 0 .. 7 : ~(c \in d[i] <=> c \in e[i])
  BY DEF Byte
<1>2. ASSUME NEW bytes \in [1 .. 4 -> Byte]
      PROVE  8 * (i - 1) + c \in ReadLe32(bytes) <=> c \in bytes[i]
  <2>1. ASSUME NEW j \in 1 .. 4, NEW b, b \in bytes[j], 8 * (i - 1) + c = 8 * (j - 1) + b
        PROVE  b = c /\ j = i
    <3>1. b \in 0 .. 7
      BY <2>1 DEF Byte
    <3> QED
      BY <2>1, <3>1
  <2> QED
    BY <2>1, ReadBit
<1> QED
  BY <1>1, <1>2

LEMMA CrcAppended ==
    ASSUME NEW initial, NEW data \in Seq(Byte), NEW tail \in Seq(Byte), Len(tail) = 4
    PROVE  Crc32(initial, data \o tail)
             = ShiftByte(ShiftByte(ShiftByte(ShiftByte(
                   Crc32(initial, data), tail[1]), tail[2]), tail[3]), tail[4])
<1> DEFINE n == Len(data)
           all == data \o tail
           R == Registers(initial, all)
<1>1. /\ n \in Nat /\ Len(all) = n + 4
      /\ \A i \in 1 .. n : all[i] = data[i]
      /\ all[n + 1] = tail[1] /\ all[n + 2] = tail[2] /\ all[n + 3] = tail[3] /\ all[n + 4] = tail[4]
  <2>1. n \in Nat
    OBVIOUS
  <2>2. /\ Len(all) = n + 4
        /\ \A i \in 1 .. n + 4 : all[i] = IF i <= n THEN data[i] ELSE tail[i - n]
    <3>1. /\ Len(all) = n + Len(tail)
          /\ \A i \in 1 .. n + Len(tail) : all[i] = IF i <= n THEN data[i] ELSE tail[i - n]
      BY ConcatProperties, Zenon
    <3> HIDE DEF n, all
    <3> QED
      BY <3>1
  <2> HIDE DEF n, all
  <2>3. ASSUME NEW i \in 1 .. n
        PROVE  all[i] = data[i]
    <3>1. i \in 1 .. n + 4 /\ i <= n
      BY <2>1
    <3> QED
      BY <2>2, <3>1, Zenon
  <2>4. ASSUME NEW j \in 1 .. 4
        PROVE  all[n + j] = tail[j]
    <3>1. n + j \in 1 .. n + 4 /\ ~(n + j <= n) /\ (n + j) - n = j
      BY <2>1
    <3> QED
      BY <2>2, <3>1, Zenon
  <2>5. 1 \in 1 .. 4 /\ 2 \in 1 .. 4 /\ 3 \in 1 .. 4 /\ 4 \in 1 .. 4
    OBVIOUS
  <2> QED
    BY <2>1, <2>2, <2>3, <2>4, <2>5, Zenon
<1> HIDE DEF all
<1>2. \A i \in 1 .. n + 4 : R[i] = ShiftByte(R[i - 1], all[i])
  BY <1>1, RegistersStep
<1>3. R[n] = Registers(initial, data)[n]
  <2>1. /\ n \in Nat /\ n <= Len(data) /\ n <= Len(all)
        /\ Len(data) \in Nat /\ Len(all) \in Nat
    BY <1>1
  <2>2. \A j \in 1 .. n : all[j] = data[j]
    BY <1>1, Zenon
  <2> HIDE DEF n
  <2>3. Registers(initial, all)[n] = Registers(initial, data)[n]
    BY <2>1, <2>2, RegistersAgree
  <2> QED
    BY <2>3, Zenon
<1> HIDE DEF R, n
<1>4. /\ n + 1 \in 1 .. n + 4 /\ (n + 1) - 1 = n
      /\ n + 2 \in 1 .. n + 4 /\ (n + 2) - 1 = n + 1
      /\ n + 3 \in 1 .. n + 4 /\ (n + 3) - 1 = n + 2
      /\ n + 4 \in 1 .. n + 4 /\ (n + 4) - 1 = n + 3
  BY <1>1
<1>5. /\ R[n + 1] = ShiftByte(R[n], tail[1]) /\ R[n + 2] = ShiftByte(R[n + 1], tail[2])
      /\ R[n + 3] = ShiftByte(R[n + 2], tail[3]) /\ R[n + 4] = ShiftByte(R[n + 3], tail[4])
  BY <1>1, <1>2, <1>4
<1>6. Crc32(initial, data) = R[n] /\ Crc32(initial, all) = R[n + 4]
  BY <1>1, <1>3 DEF Crc32, R, n
<1> QED
  BY <1>5, <1>6 DEF all

\* Bits that do not reach the end of the register are only moved.
Down(w, k) == {b - k : b \in w}

LEMMA DownBit ==
    ASSUME NEW w \in SUBSET Int, NEW k \in Int
    PROVE  Down(w, k) \in SUBSET Int /\ \A b \in Int : b \in Down(w, k) <=> b + k \in w
<1>1. ASSUME NEW b \in Int, b + k \in w
      PROVE  b \in Down(w, k)
  <2>1. b = (b + k) - k
    OBVIOUS
  <2> QED
    BY <1>1, <2>1, Zenon DEF Down
<1>2. ASSUME NEW b \in Int, b \in Down(w, k)
      PROVE  b + k \in w
  <2>1. PICK c \in w : b = c - k
    BY <1>2 DEF Down
  <2>2. b + k = c
    BY <2>1
  <2> QED
    BY <2>2
<1>3. Down(w, k) \in SUBSET Int
  BY DEF Down
<1> QED
  BY <1>1, <1>2, <1>3

LEMMA DownTwice ==
    ASSUME NEW w \in SUBSET Int, NEW j \in Int, NEW k \in Int
    PROVE  Down(Down(w, j), k) = Down(w, j + k)
<1>1. Down(w, j) \in SUBSET Int /\ Down(Down(w, j), k) \in SUBSET Int /\ Down(w, j + k) \in SUBSET Int
  BY DownBit
<1>2. ASSUME NEW b \in Int
      PROVE  b \in Down(Down(w, j), k) <=> b \in Down(w, j + k)
  <2>1. b \in Down(Down(w, j), k) <=> b + k \in Down(w, j)
    BY <1>1, DownBit
  <2>2. b + k \in Down(w, j) <=> (b + k) + j \in w
    BY DownBit
  <2>3. b \in Down(w, j + k) <=> b + (j + k) \in w
    BY DownBit
  <2>4. (b + k) + j = b + (j + k)
    OBVIOUS
  <2> QED
    BY <2>1, <2>2, <2>3, <2>4
<1> QED
  BY <1>1, <1>2

LEMMA DownRange ==
    ASSUME NEW first \in Int, NEW last \in Int, NEW w \in SUBSET (first .. last), NEW k \in Int,
           NEW low \in Int, NEW high \in Int, low <= first - k, last - k <= high
    PROVE  Down(w, k) \in SUBSET (low .. high)
<1>1. ASSUME NEW b \in Down(w, k)
      PROVE  b \in low .. high
  <2>1. PICK c \in w : b = c - k
    BY DEF Down
  <2>2. c \in first .. last
    OBVIOUS
  <2> QED
    BY <2>1, <2>2
<1> QED
  BY <1>1

LEMMA ShiftBitMoves ==
    ASSUME NEW w \in SUBSET (1 .. 31)
    PROVE  ShiftBit(w) = Down(w, 1)
BY DEF ShiftBit, Down

LEMMA Shift8Moves ==
    ASSUME NEW w \in SUBSET (8 .. 31)
    PROVE  Shift8(w) = Down(w, 8)
<1>1. ASSUME NEW k \in 0 .. 7
      PROVE  ShiftBit(Down(w, k)) = Down(w, k + 1)
  <2>1. 8 \in Int /\ 31 \in Int /\ 1 \in Int /\ k \in Int /\ 1 <= 8 - k /\ 31 - k <= 31
    OBVIOUS
  <2>2. Down(w, k) \in SUBSET (1 .. 31)
    BY <2>1, DownRange, Zenon
  <2>3. Down(Down(w, k), 1) = Down(w, k + 1)
    BY DownTwice
  <2> QED
    BY <2>2, <2>3, ShiftBitMoves
<1>2. Down(w, 0) = w
  <2>1. w \in SUBSET Int /\ 0 \in Int /\ \A b \in Int : b + 0 = b
    OBVIOUS
  <2>2. Down(w, 0) \in SUBSET Int /\ \A b \in Int : b \in Down(w, 0) <=> b \in w
    BY <2>1, DownBit
  <2> QED
    BY <2>1, <2>2
<1>3. Shift4(w) = Down(w, 4)
  BY <1>1, <1>2 DEF Shift4
<1>4. Shift4(Down(w, 4)) = Down(w, 8)
  BY <1>1 DEF Shift4
<1> QED
  BY <1>3, <1>4 DEF Shift8

LEMMA Shift8MovesOn ==
    ASSUME NEW w \in SUBSET (16 .. 31)
    PROVE  Shift8(Shift8(w)) = Down(w, 16)
<1>1. w \in SUBSET (8 .. 31) /\ w \in SUBSET Int
  OBVIOUS
<1>2. 16 \in Int /\ 31 \in Int /\ 8 \in Int /\ 8 <= 16 - 8 /\ 31 - 8 <= 31 /\ 8 + 8 = 16
  OBVIOUS
<1>3. Down(w, 8) \in SUBSET (8 .. 31)
  BY <1>2, DownRange, Zenon
<1>4. Shift8(w) = Down(w, 8) /\ Shift8(Down(w, 8)) = Down(Down(w, 8), 8)
  BY <1>1, <1>3, Shift8Moves, Zenon
<1>5. Down(Down(w, 8), 8) = Down(w, 16)
  BY <1>1, <1>2, DownTwice
<1> QED
  BY <1>4, <1>5

LEMMA Shift8MovesFurther ==
    ASSUME NEW w \in SUBSET (24 .. 31)
    PROVE  Shift8(Shift8(Shift8(w))) = Down(w, 24)
<1>1. w \in SUBSET (16 .. 31) /\ w \in SUBSET Int
  OBVIOUS
<1>2. 24 \in Int /\ 31 \in Int /\ 16 \in Int /\ 8 \in Int
      /\ 8 <= 24 - 16 /\ 31 - 16 <= 31 /\ 16 + 8 = 24
  OBVIOUS
<1>3. Down(w, 16) \in SUBSET (8 .. 31)
  BY <1>2, DownRange, Zenon
<1>4. Shift8(Shift8(w)) = Down(w, 16) /\ Shift8(Down(w, 16)) = Down(Down(w, 16), 8)
  BY <1>1, <1>3, Shift8Moves, Shift8MovesOn, Zenon
<1>5. Down(Down(w, 16), 8) = Down(w, 24)
  BY <1>1, <1>2, DownTwice
<1> QED
  BY <1>4, <1>5

\* The register after four zero bytes.
LEMMA ResidueShifted ==
    Residue = Shift8(Shift8(Shift8(Shift8(Word32))))
<1>1. /\ <<>> \in Seq(Byte) /\ Zeros(4) \in Seq(Byte) /\ Len(Zeros(4)) = 4
      /\ \A i \in 1 .. 4 : Zeros(4)[i] = {}
  <2>1. Zeros(4) \in [1 .. 4 -> Byte]
    BY DEF Zeros, Byte
  <2> QED
    BY <2>1, FunctionIsSeq DEF Zeros
<1>2. <<>> \o Zeros(4) = Zeros(4)
  BY <1>1, ConcatEmptySeq, Zenon
<1>3. Crc32(Word32, <<>>) = Word32
  BY RegistersStep DEF Crc32
<1>4. \A crc : ShiftByte(crc, {}) = Shift8(crc)
  <2>1. \A crc : Xor(crc, {}) = crc
    BY DEF Xor
  <2> QED
    BY <2>1, ShiftByteIsShift8
<1>5. Crc32(Word32, <<>> \o Zeros(4))
        = ShiftByte(ShiftByte(ShiftByte(ShiftByte(Crc32(Word32, <<>>), {}), {}), {}), {})
  <2> DEFINE empty == <<>>
             zeros == Zeros(4)
  <2>1. /\ zeros[1] = {} /\ zeros[2] = {} /\ zeros[3] = {} /\ zeros[4] = {}
        /\ empty \in Seq(Byte) /\ zeros \in Seq(Byte) /\ Len(zeros) = 4
    BY <1>1
  <2> HIDE DEF empty, zeros
  <2>2. Crc32(Word32, empty \o zeros)
          = ShiftByte(ShiftByte(ShiftByte(ShiftByte(
                Crc32(Word32, empty), zeros[1]), zeros[2]), zeros[3]), zeros[4])
    BY <2>1, CrcAppended
  <2> QED
    BY <2>1, <2>2, Zenon DEF empty, zeros
<1> QED
  BY <1>2, <1>3, <1>4, <1>5 DEF Residue

\* Whatever a packet holds, with its CRC behind it the register ends in the same value:
\* the four bytes cancel the register but for its complement, which is all ones.
LEMMA CrcOfSealed ==
    ASSUME NEW initial \in SUBSET Word32, NEW data \in Seq(Byte)
    PROVE  Crc32(initial, data \o WriteLe32(Word32 \ Crc32(initial, data))) = Residue
<1> DEFINE R == Crc32(initial, data)
           N == Word32 \ R
           B1 == N \cap 0 .. 7
           B2 == N \cap 8 .. 15
           B3 == N \cap 16 .. 23
           B4 == N \cap 24 .. 31
           X1 == Xor(R, B1)
           X2 == Xor(X1, B2)
           X3 == Xor(X2, B3)
           X4 == Xor(X3, B4)
           W == WriteLe32(N)
<1>1. R \in SUBSET Word32
  BY CrcType
<1> HIDE DEF R
<1>2. /\ B1 \in SUBSET Word32 /\ B2 \in SUBSET Word32
      /\ B3 \in SUBSET Word32 /\ B4 \in SUBSET Word32
      /\ X1 \in SUBSET Word32 /\ X2 \in SUBSET Word32 /\ X3 \in SUBSET Word32
  BY <1>1, XorType
<1>3. X4 = Word32
  <2>1. ASSUME NEW b \in Word32
        PROVE  b \in X4
    <3>1. \/ b \in 0 .. 7 /\ b \notin 8 .. 15 /\ b \notin 16 .. 23 /\ b \notin 24 .. 31
          \/ b \notin 0 .. 7 /\ b \in 8 .. 15 /\ b \notin 16 .. 23 /\ b \notin 24 .. 31
          \/ b \notin 0 .. 7 /\ b \notin 8 .. 15 /\ b \in 16 .. 23 /\ b \notin 24 .. 31
          \/ b \notin 0 .. 7 /\ b \notin 8 .. 15 /\ b \notin 16 .. 23 /\ b \in 24 .. 31
      BY DEF Word32
    <3>2. /\ b \in X1 <=> ~(b \in R <=> b \in B1)
          /\ b \in X2 <=> ~(b \in X1 <=> b \in B2)
          /\ b \in X3 <=> ~(b \in X2 <=> b \in B3)
          /\ b \in X4 <=> ~(b \in X3 <=> b \in B4)
      <4> HIDE DEF B1, B2, B3, B4
      <4> QED
        BY Zenon DEF Xor
    <3>3. /\ b \in B1 <=> b \notin R /\ b \in 0 .. 7
          /\ b \in B2 <=> b \notin R /\ b \in 8 .. 15
          /\ b \in B3 <=> b \notin R /\ b \in 16 .. 23
          /\ b \in B4 <=> b \notin R /\ b \in 24 .. 31
      OBVIOUS
    <3> HIDE DEF X1, X2, X3, X4, B1, B2, B3, B4
    <3> QED
      BY <3>1, <3>2, <3>3
  <2>2. X4 \in SUBSET Word32
    BY <1>2, XorType
  <2> HIDE DEF X4
  <2> QED
    BY <2>1, <2>2
<1>4. /\ W[1] = B1 /\ W[2] = Shift8(B2) /\ W[3] = Shift8(Shift8(B3))
      /\ W[4] = Shift8(Shift8(Shift8(B4)))
  <2>1. W[1] = B1 /\ W[2] = Down(B2, 8) /\ W[3] = Down(B3, 16) /\ W[4] = Down(B4, 24)
    BY WrittenBytes DEF Down
  <2>2. B2 \in SUBSET (8 .. 31) /\ B3 \in SUBSET (16 .. 31) /\ B4 \in SUBSET (24 .. 31)
    OBVIOUS
  <2> HIDE DEF B2, B3, B4, W
  <2> QED
    BY <2>1, <2>2, Shift8Moves, Shift8MovesOn, Shift8MovesFurther
<1>5. Crc32(initial, data \o W)
        = ShiftByte(ShiftByte(ShiftByte(ShiftByte(R, W[1]), W[2]), W[3]), W[4])
  BY WriteType, CrcAppended DEF R
<1> HIDE DEF N, B1, B2, B3, B4, X1, X2, X3, X4, W
<1>6. ShiftByte(R, W[1]) = Shift8(X1)
  BY <1>4, ShiftByteIsShift8 DEF X1
<1>7. ShiftByte(Shift8(X1), W[2]) = Shift8(Shift8(X2))
  BY <1>2, <1>4, ShiftByteIsShift8, Shift8Facts DEF X2
<1>8. ShiftByte(Shift8(Shift8(X2)), W[3]) = Shift8(Shift8(Shift8(X3)))
  <2>1. Shift8(X2) \in SUBSET Word32 /\ Shift8(B3) \in SUBSET Word32
    BY <1>2, Shift8Facts
  <2>2. Xor(Shift8(Shift8(X2)), Shift8(Shift8(B3))) = Shift8(Shift8(Xor(X2, B3)))
    BY <1>2, <2>1, Shift8Facts
  <2> QED
    BY <1>4, <2>2, ShiftByteIsShift8 DEF X3
<1>9. ShiftByte(Shift8(Shift8(Shift8(X3))), W[4]) = Shift8(Shift8(Shift8(Shift8(X4))))
  <2>1. /\ Shift8(X3) \in SUBSET Word32 /\ Shift8(B4) \in SUBSET Word32
        /\ Shift8(Shift8(X3)) \in SUBSET Word32 /\ Shift8(Shift8(B4)) \in SUBSET Word32
    BY <1>2, Shift8Facts
  <2>2. Xor(Shift8(Shift8(Shift8(X3))), Shift8(Shift8(Shift8(B4))))
          = Shift8(Shift8(Shift8(Xor(X3, B4))))
    BY <1>2, <2>1, Shift8Facts
  <2> QED
    BY <1>4, <2>2, ShiftByteIsShift8 DEF X4
<1>10. Crc32(initial, data \o W) = Residue
  BY <1>3, <1>5, <1>6, <1>7, <1>8, <1>9, ResidueShifted
<1> QED
  BY <1>10 DEF W, N, R
=============================================================================
