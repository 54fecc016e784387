--------------------------- MODULE BatteryProofs ---------------------------
(***************************************************************************)
(* What parse_battery() makes of a packet, for every report: an intact     *)
(* packet gives back the blocks the pods put into it, one that was damaged *)
(* in its length, its count byte or its header gives nothing.              *)
(***************************************************************************)
EXTENDS Battery, SequenceTheorems, TLAPS

\* Packet p is report s, byte for byte: the header, the count, the blocks.
Composed(p, s) ==
    /\ Len(p) = CountOffset + BlockSize * Len(s)
    /\ p[1] = 4 /\ p[2] = 0 /\ p[3] = 4 /\ p[4] = 0
    /\ p[5] = OpBattery /\ p[6] = 0
    /\ p[CountOffset] = Len(s)
    /\ \A i \in DOMAIN s, k \in 1..BlockSize :
          p[CountOffset + (i - 1) * BlockSize + k] = s[i][k]

\* The inductive invariant: what is intact is composed of what was sent, what is
\* not is refused.
PacketInv ==
    /\ intact \in BOOLEAN
    /\ sent \in Seq(Blocks) /\ Len(sent) <= MaxBlocks
    /\ intact => packet \in Seq(Nat) /\ Composed(packet, sent)
    /\ ~intact => ParseBattery(packet) = Refused

-----------------------------------------------------------------------------
\* The bounds of the packet on its way.
LEMMA Bounds ==
    MaxBlocks \in Nat /\ MaxBlocks <= 255 /\ MaxJunk \in Nat /\ SpacerBytes \subseteq Nat
<1>1. MaxBlocks \in Byte /\ MaxJunk \in Nat /\ SpacerBytes \subseteq Byte
  BY BatteryAssumption, Zenon
<1> QED BY <1>1 DEF Byte

\* A block is five bytes.
LEMMA BlockBytes ==
    ASSUME NEW b \in Blocks
    PROVE  /\ b \in Seq(Nat) /\ Len(b) = BlockSize
           /\ \A k \in 1..BlockSize : b[k] \in Byte
<1>1. PICK c \in ComponentBytes, s \in SpacerBytes, l \in LevelBytes,
           st \in StatusBytes, e \in SpacerBytes : b = <<c, s, l, st, e>>
  BY DEF Blocks
<1>2. {c, s, l, st, e} \subseteq Byte
  BY BatteryAssumption
<1> QED BY <1>1, <1>2 DEF BlockSize, Byte

\* Where the bytes of a block are.
LEMMA BlockPosition ==
    ASSUME NEW n \in Nat, NEW i \in 1..n, NEW k \in 1..5
    PROVE  7 + (i - 1) * 5 + k \in 8..(7 + 5 * n)
OBVIOUS

LEMMA BlockSpan ==
    ASSUME NEW n \in Nat, NEW i \in 1..n
    PROVE  LET a == 7 + (i - 1) * 5 + 1
               z == 7 + i * 5
           IN  /\ a \in Int /\ z \in Int /\ z - a + 1 = 5
               /\ \A j \in a..z : j \in 1..(7 + 5 * n)
               /\ \A k \in 1..5 : a + k - 1 = 7 + (i - 1) * 5 + k
OBVIOUS

\* A packet whose count byte disagrees with its length is refused.
LEMMA LengthRefused ==
    ASSUME NEW p, Len(p) < CountOffset \/ Len(p) # CountOffset + p[CountOffset] * BlockSize,
           Len(p) \in Nat
    PROVE  ParseBattery(p) = Refused
<1>1. ~(Len(p) >= CountOffset) \/ ~LengthAgrees(p)
  BY DEF LengthAgrees, CountOffset
<1> QED BY <1>1, Zenon DEF ParseBattery

\* So is one whose first four bytes are not the header, or whose opcode is not
\* the battery's.
LEMMA HeaderRefused ==
    ASSUME NEW p, ~HasStdHeader(p) \/ OpcodeOf(p) # OpBattery
    PROVE  ParseBattery(p) = Refused
BY Zenon DEF ParseBattery

\* Bytes after bytes.
LEMMA BytesJoined ==
    ASSUME NEW x \in Seq(Nat), NEW y \in Seq(Nat)
    PROVE  /\ x \o y \in Seq(Nat) /\ Len(x \o y) = Len(x) + Len(y)
           /\ \A j \in 1..Len(x) : (x \o y)[j] = x[j]
           /\ \A k \in 1..Len(y) : (x \o y)[Len(x) + k] = y[k]
<1> DEFINE z == x \o y
           n == Len(x)
           m == Len(y)
<1>1. z \in Seq(Nat) /\ Len(z) = n + m /\ n \in Nat /\ m \in Nat
  OBVIOUS
<1>2. \A j \in 1..(n + m) : z[j] = IF j <= n THEN x[j] ELSE y[j - n]
  BY ConcatProperties
<1> HIDE DEF z, n, m
<1>3. \A j \in 1..n : z[j] = x[j]
  BY <1>1, <1>2
<1>4. ASSUME NEW k \in 1..m PROVE z[n + k] = y[k]
  <2> DEFINE j == n + k
  <2>2. j \in 1..(n + m) /\ ~(j <= n) /\ j - n = k
    BY <1>1
  <2> HIDE DEF j
  <2>3. z[j] = IF j <= n THEN x[j] ELSE y[j - n]
    BY <1>2, <2>2, Zenon
  <2>4. z[j] = y[k]
    BY <2>2, <2>3, Zenon
  <2> QED BY <2>4 DEF j
<1> QED BY <1>1, <1>3, <1>4 DEF z, n, m

LEMMA EmptyComposed ==
    EmptyPacket \in Seq(Nat) /\ Composed(EmptyPacket, <<>>)
<1> DEFINE h == <<4, 0, 4, 0>>
           e == <<4, 0, 0>>
<1>1. /\ h \in Seq(Nat) /\ Len(h) = 4
      /\ h[1] = 4 /\ h[2] = 0 /\ h[3] = 4 /\ h[4] = 0
  OBVIOUS
<1>2. e \in Seq(Nat) /\ Len(e) = 3 /\ e[1] = 4 /\ e[2] = 0 /\ e[3] = 0
  OBVIOUS
<1>3. EmptyPacket = h \o e
  BY DEF EmptyPacket, StdHeader, OpBattery
<1> HIDE DEF h, e
<1>4. /\ h \o e \in Seq(Nat) /\ Len(h \o e) = 7
      /\ \A i \in 1..4 : (h \o e)[i] = h[i]
      /\ \A k \in 1..3 : (h \o e)[4 + k] = e[k]
  <2>1. /\ h \o e \in Seq(Nat) /\ Len(h \o e) = Len(h) + Len(e)
        /\ \A j \in 1..Len(h) : (h \o e)[j] = h[j]
        /\ \A k \in 1..Len(e) : (h \o e)[Len(h) + k] = e[k]
    BY <1>1, <1>2, BytesJoined, Zenon
  <2>2. 4 + 3 = 7
    OBVIOUS
  <2> QED BY <1>1, <1>2, <2>1, <2>2, Zenon
<1>5. /\ EmptyPacket \in Seq(Nat) /\ Len(EmptyPacket) = 7
      /\ EmptyPacket[1] = 4 /\ EmptyPacket[2] = 0 /\ EmptyPacket[3] = 4
      /\ EmptyPacket[4] = 0 /\ EmptyPacket[5] = 4 /\ EmptyPacket[6] = 0
      /\ EmptyPacket[7] = 0
  <2> DEFINE p == EmptyPacket
  <2>1. \A i \in 1..4 : p[i] = h[i]
    BY <1>3, <1>4
  <2>2. \A k \in 1..3 : p[4 + k] = e[k]
    BY <1>3, <1>4
  <2> HIDE DEF p
  <2>3. p[4 + 1] = 4 /\ p[4 + 2] = 0 /\ p[4 + 3] = 0
    BY <1>2, <2>2
  <2>4. p[1] = 4 /\ p[2] = 0 /\ p[3] = 4 /\ p[4] = 0
    BY <1>1, <2>1
  <2>5. p[5] = 4 /\ p[6] = 0 /\ p[7] = 0
    BY <2>3
  <2> QED BY <1>3, <1>4, <2>4, <2>5 DEF p
<1> QED BY <1>5 DEF Composed, CountOffset, BlockSize, OpBattery

LEMMA PacketInit == Init => PacketInv
<1> SUFFICES ASSUME Init PROVE PacketInv
  OBVIOUS
<1>1. sent \in Seq(Blocks) /\ Len(sent) <= MaxBlocks
  BY BatteryAssumption DEF Init, Byte
<1> QED BY <1>1, EmptyComposed DEF Init, PacketInv

-----------------------------------------------------------------------------
\* The pods add a block: the count byte goes up, the bytes go to the end.
LEMMA ComposedGrows ==
    ASSUME NEW p \in Seq(Nat), NEW s \in Seq(Blocks), Composed(p, s),
           NEW b \in Blocks
    PROVE  LET q == [p EXCEPT ![CountOffset] = @ + 1] \o b
           IN  q \in Seq(Nat) /\ Composed(q, Append(s, b))
<1> DEFINE h == [p EXCEPT ![CountOffset] = @ + 1]
           q == h \o b
           t == Append(s, b)
<1>1. b \in Seq(Nat) /\ Len(b) = 5
  BY BlockBytes DEF BlockSize
<1>2. Len(s) \in Nat /\ Len(p) = 7 + 5 * Len(s) /\ p[7] = Len(s)
  BY DEF Composed, CountOffset, BlockSize
<1>3. /\ h \in Seq(Nat) /\ Len(h) = Len(p) /\ h[7] = Len(s) + 1
      /\ \A j \in 1..Len(p) : j # 7 => h[j] = p[j]
  BY <1>2 DEF CountOffset
<1> HIDE DEF h
<1>4. /\ q \in Seq(Nat) /\ Len(q) = Len(h) + 5
      /\ \A j \in 1..Len(h) : q[j] = h[j]
      /\ \A k \in 1..5 : q[Len(h) + k] = b[k]
  <2>1. /\ q \in Seq(Nat) /\ Len(q) = Len(h) + Len(b)
        /\ \A j \in 1..Len(h) : q[j] = h[j]
        /\ \A k \in 1..Len(b) : q[Len(h) + k] = b[k]
    BY <1>1, <1>3, BytesJoined, Zenon
  <2> QED BY <1>1, <2>1, Zenon
<1>5. /\ t \in Seq(Blocks) /\ Len(t) = Len(s) + 1 /\ t[Len(s) + 1] = b
      /\ \A i \in 1..Len(s) : t[i] = s[i]
  OBVIOUS
<1> HIDE DEF q, t
<1>6. Len(q) = 7 + 5 * Len(t) /\ q[7] = Len(t)
  BY <1>2, <1>3, <1>4, <1>5
<1>7. q[1] = 4 /\ q[2] = 0 /\ q[3] = 4 /\ q[4] = 0 /\ q[5] = OpBattery /\ q[6] = 0
  <2>1. \A j \in 1..6 : j \in 1..Len(p) /\ j # 7
    BY <1>2
  <2>2. \A j \in 1..6 : q[j] = p[j]
    BY <1>3, <1>4, <2>1, Zenon
  <2> QED BY <2>2 DEF Composed
<1>8. ASSUME NEW i \in DOMAIN t, NEW k \in 1..5
      PROVE  q[7 + (i - 1) * 5 + k] = t[i][k]
  <2>1. i \in 1..Len(s) \/ i = Len(s) + 1
    <3>1. DOMAIN t = 1..(Len(s) + 1)
      BY <1>5
    <3> HIDE DEF t
    <3> QED BY <1>2, <3>1
  <2>2. CASE i \in 1..Len(s)
    <3> DEFINE j == 7 + (i - 1) * 5 + k
    <3>1. j \in 1..Len(p) /\ j # 7
      <4>1. j \in 8..(7 + 5 * Len(s))
        BY <1>2, <2>2, BlockPosition
      <4> QED BY <1>2, <4>1
    <3>2. p[j] = s[i][k]
      <4>1. i \in DOMAIN s
        BY <2>2
      <4> QED BY <4>1 DEF Composed, CountOffset, BlockSize
    <3> HIDE DEF j
    <3>3. q[j] = s[i][k]
      BY <1>3, <1>4, <3>1, <3>2
    <3> QED BY <1>5, <2>2, <3>3 DEF j
  <2>3. CASE i = Len(s) + 1
    <3>1. 7 + (i - 1) * 5 + k = Len(h) + k
      BY <1>2, <1>3, <2>3
    <3> QED BY <1>4, <1>5, <2>3, <3>1
  <2> QED BY <2>1, <2>2, <2>3
<1>9. Composed(q, t)
  BY <1>6, <1>7, <1>8 DEF Composed, CountOffset, BlockSize
<1> QED BY <1>4, <1>9 DEF q, h, t

\* A packet that lost bytes at its end is refused.
LEMMA TruncatedRefused ==
    ASSUME NEW p \in Seq(Nat), NEW s \in Seq(Blocks), Composed(p, s),
           NEW n \in Nat \ {0}, n <= Len(p)
    PROVE  ParseBattery(SubSeq(p, 1, Len(p) - n)) = Refused
<1> DEFINE q == SubSeq(p, 1, Len(p) - n)
<1>1. Len(q) = Len(p) - n /\ \A i \in 1..(Len(p) - n) : q[i] = p[i]
  OBVIOUS
<1> HIDE DEF q
<1>2. Len(s) \in Nat /\ Len(p) = 7 + 5 * Len(s) /\ p[7] = Len(s)
  BY DEF Composed, CountOffset, BlockSize
<1>3. Len(q) \in Nat /\ (Len(q) < 7 \/ Len(q) # 7 + q[7] * 5)
  <2>1. Len(q) \in Nat /\ Len(q) < 7 + 5 * Len(s)
    BY <1>1, <1>2
  <2>2. CASE Len(q) >= 7
    <3>1. 7 \in 1..(Len(p) - n)
      BY <1>1, <1>2, <2>2
    <3>2. q[7] = p[7]
      BY <1>1, <3>1, Zenon
    <3> QED BY <1>2, <2>1, <3>2
  <2> QED BY <2>1, <2>2
<1>4. ParseBattery(q) = Refused
  BY <1>3, LengthRefused DEF CountOffset, BlockSize
<1> QED BY <1>4 DEF q

\* So is one that has more bytes than its count byte says.
LEMMA ExtendedRefused ==
    ASSUME NEW p \in Seq(Nat), NEW s \in Seq(Blocks), Composed(p, s),
           NEW n \in Nat \ {0}, NEW b \in Nat
    PROVE  ParseBattery(p \o [i \in 1..n |-> b]) = Refused
<1> DEFINE junk == [i \in 1..n |-> b]
           q == p \o junk
<1>1. junk \in Seq(Nat) /\ Len(junk) = n
  OBVIOUS
<1> HIDE DEF junk
<1>2. Len(q) = Len(p) + n /\ \A i \in 1..Len(p) : q[i] = p[i]
  BY <1>1
<1> HIDE DEF q
<1>3. Len(s) \in Nat /\ Len(p) = 7 + 5 * Len(s) /\ p[7] = Len(s)
  BY DEF Composed, CountOffset, BlockSize
<1>4. Len(q) \in Nat /\ Len(q) # 7 + q[7] * 5
  BY <1>2, <1>3
<1>5. ParseBattery(q) = Refused
  BY <1>4, LengthRefused DEF CountOffset, BlockSize
<1> QED BY <1>5 DEF q, junk

\* And one whose count byte says another number of blocks.
LEMMA MiscountedRefused ==
    ASSUME NEW p \in Seq(Nat), NEW s \in Seq(Blocks), Composed(p, s),
           NEW n \in Nat, n # p[CountOffset]
    PROVE  ParseBattery([p EXCEPT ![CountOffset] = n]) = Refused
<1> DEFINE q == [p EXCEPT ![CountOffset] = n]
<1>1. Len(s) \in Nat /\ Len(p) = 7 + 5 * Len(s) /\ p[7] = Len(s)
  BY DEF Composed, CountOffset, BlockSize
<1>2. Len(q) = Len(p) /\ q[7] = n
  BY <1>1 DEF CountOffset
<1> HIDE DEF q
<1>3. Len(q) \in Nat /\ Len(q) # 7 + q[7] * 5
  BY <1>1, <1>2 DEF CountOffset
<1>4. ParseBattery(q) = Refused
  BY <1>3, LengthRefused DEF CountOffset, BlockSize
<1> QED BY <1>4 DEF q

\* And one with a wrong byte before the count.
LEMMA MisaddressedRefused ==
    ASSUME NEW p \in Seq(Nat), NEW s \in Seq(Blocks), Composed(p, s),
           NEW i \in 1..(CountOffset - 1)
    PROVE  ParseBattery([p EXCEPT ![i] = @ + 1]) = Refused
<1> DEFINE q == [p EXCEPT ![i] = @ + 1]
<1>1. /\ Len(s) \in Nat /\ Len(p) = 7 + 5 * Len(s)
      /\ p[1] = 4 /\ p[2] = 0 /\ p[3] = 4 /\ p[4] = 0 /\ p[5] = 4 /\ p[6] = 0
  BY DEF Composed, CountOffset, BlockSize, OpBattery
<1>2. i \in 1..6 /\ DOMAIN p = 1..Len(p)
  BY DEF CountOffset
<1>3. /\ q[i] = p[i] + 1
      /\ \A j \in 1..6 : j # i => q[j] = p[j]
  BY <1>1, <1>2
<1> HIDE DEF q
<1>4. CASE i \in 1..4
  <2>1. q[i] # StdHeader[i] /\ i \in DOMAIN StdHeader
    BY <1>1, <1>3, <1>4 DEF StdHeader
  <2>2. ~HasStdHeader(q)
    BY <2>1, Zenon DEF HasStdHeader
  <2> QED BY <2>2, HeaderRefused DEF q
<1>5. CASE i \in 5..6
  <2>1. q[5] + 256 * q[6] # 4
    BY <1>1, <1>3, <1>5
  <2>2. OpcodeOf(q) # OpBattery
    BY <2>1 DEF OpcodeOf, OpBattery
  <2> QED BY <2>2, HeaderRefused DEF q
<1> QED BY <1>2, <1>4, <1>5

\* Every step of the packet on its way keeps the invariant.
LEMMA PacketStep ==
    ASSUME PacketInv, [Next]_vars
    PROVE  PacketInv'
<1>1. CASE PodsAddBlock
  <2>1. PICK b \in Blocks :
            /\ packet' = [packet EXCEPT ![CountOffset] = @ + 1] \o b
            /\ sent' = Append(sent, b)
    BY <1>1 DEF PodsAddBlock
  <2>2. /\ intact = TRUE /\ intact' = intact /\ sent \in Seq(Blocks)
        /\ packet \in Seq(Nat) /\ Composed(packet, sent)
    BY <1>1 DEF PodsAddBlock, PacketInv
  <2>3. packet' \in Seq(Nat) /\ Composed(packet', sent')
    BY <2>1, <2>2, ComposedGrows, Zenon
  <2>4. sent' \in Seq(Blocks) /\ Len(sent') <= MaxBlocks
    <3>1. Len(sent) < MaxBlocks
      BY <1>1 DEF PodsAddBlock
    <3> QED BY <2>1, <2>2, <3>1, Bounds
  <2> QED BY <2>2, <2>3, <2>4, Zenon DEF PacketInv
<1>2. ASSUME NEW p, Damaged(p),
             packet \in Seq(Nat) /\ Composed(packet, sent) => ParseBattery(p) = Refused
      PROVE  PacketInv'
  <2>1. packet' = p /\ intact' = FALSE /\ sent' = sent /\ ParseBattery(p) = Refused
    BY <1>2 DEF Damaged, PacketInv
  <2> QED BY <2>1, Zenon DEF PacketInv
<1>3. CASE Truncated
  <2>1. PICK n \in 1..(MaxJunk + Len(StdHeader)) :
            n <= Len(packet) /\ Damaged(SubSeq(packet, 1, Len(packet) - n))
    BY <1>3 DEF Truncated
  <2>2. n \in Nat \ {0} /\ sent \in Seq(Blocks)
    BY Bounds DEF PacketInv, StdHeader
  <2> QED BY <1>2, <2>1, <2>2, TruncatedRefused, Zenon
<1>4. CASE Extended
  <2>1. PICK n \in 1..MaxJunk, b \in SpacerBytes :
            Damaged(packet \o [i \in 1..n |-> b])
    BY <1>4 DEF Extended
  <2>2. n \in Nat \ {0} /\ b \in Nat /\ sent \in Seq(Blocks)
    BY Bounds DEF PacketInv
  <2> QED BY <1>2, <2>1, <2>2, ExtendedRefused, Zenon
<1>5. CASE Miscounted
  <2>1. PICK n \in 0..(MaxBlocks + 1) :
            n # packet[CountOffset] /\ Damaged([packet EXCEPT ![CountOffset] = n])
    BY <1>5 DEF Miscounted
  <2>2. n \in Nat /\ sent \in Seq(Blocks)
    BY Bounds DEF PacketInv
  <2> QED BY <1>2, <2>1, <2>2, MiscountedRefused, Zenon
<1>6. CASE Misaddressed
  <2>1. PICK i \in 1..(CountOffset - 1) : Damaged([packet EXCEPT ![i] = @ + 1])
    BY <1>6 DEF Misaddressed
  <2>2. sent \in Seq(Blocks)
    BY DEF PacketInv
  <2> QED BY <1>2, <2>1, <2>2, MisaddressedRefused, Zenon
<1>7. CASE UNCHANGED vars
  BY <1>7, Zenon DEF vars, PacketInv
<1> QED BY <1>1, <1>3, <1>4, <1>5, <1>6, <1>7 DEF Next

-----------------------------------------------------------------------------
\* The i-th block that the code cuts out of a composed packet is the i-th that
\* the pods sent.
LEMMA BlockOfComposed ==
    ASSUME NEW p \in Seq(Nat), NEW s \in Seq(Blocks), Composed(p, s),
           NEW i \in DOMAIN s
    PROVE  \A k \in 1..5 : Block(p, i)[k] = s[i][k]
<1> DEFINE a == 7 + (i - 1) * 5 + 1
           z == 7 + i * 5
<1>1. Len(s) \in Nat /\ i \in 1..Len(s)
  OBVIOUS
<1>8. Len(p) = 7 + 5 * Len(s)
  BY DEF Composed, CountOffset, BlockSize
<1>2. a \in Int /\ z \in Int /\ z - a + 1 = 5 /\ \A j \in a..z : j \in 1..Len(p)
  BY <1>1, <1>8, BlockSpan, Zenon
<1>3. Block(p, i) = SubSeq(p, a, z)
  BY DEF Block, CountOffset, BlockSize
<1>4. \A k \in 1..5 : a + k - 1 = 7 + (i - 1) * 5 + k
  BY <1>1, BlockSpan, Zenon
<1> HIDE DEF a, z
<1>5. \A j \in a..z : p[j] \in Nat
  BY <1>2
<1>6. \A k \in 1..(z - a + 1) : SubSeq(p, a, z)[k] = p[a + k - 1]
  BY <1>2, <1>5, SubSeqProperties
<1>7. \A k \in 1..5 : p[7 + (i - 1) * 5 + k] = s[i][k]
  BY DEF Composed, CountOffset, BlockSize
<1> QED BY <1>2, <1>3, <1>4, <1>6, <1>7, Zenon

\* A composed packet has the battery's header and a length that its count byte
\* agrees with.
LEMMA ComposedAccepted ==
    ASSUME NEW p \in Seq(Nat), NEW s \in Seq(Blocks), Composed(p, s)
    PROVE  HasStdHeader(p) /\ OpcodeOf(p) = OpBattery /\ Len(p) >= CountOffset
           /\ LengthAgrees(p) /\ p[CountOffset] = Len(s)
<1>1. /\ Len(s) \in Nat /\ Len(p) = 7 + 5 * Len(s) /\ p[7] = Len(s)
      /\ p[1] = 4 /\ p[2] = 0 /\ p[3] = 4 /\ p[4] = 0 /\ p[5] = 4 /\ p[6] = 0
  BY DEF Composed, CountOffset, BlockSize, OpBattery
<1>2. HasStdHeader(p)
  BY <1>1 DEF HasStdHeader, StdHeader
<1>3. OpcodeOf(p) = OpBattery
  <2>1. ~(Len(p) < 6) /\ p[5] + 256 * p[6] = 4
    BY <1>1
  <2>2. OpcodeOf(p) = p[5] + 256 * p[6]
    BY <1>2, <2>1 DEF OpcodeOf
  <2> QED BY <2>1, <2>2 DEF OpBattery
<1> QED BY <1>1, <1>2, <1>3 DEF LengthAgrees, CountOffset, BlockSize

\* What one block becomes is a component of the report.
LEMMA ComponentType ==
    ASSUME NEW b, \A k \in 1..5 : b[k] \in Byte
    PROVE  ComponentOf(b) \in Component
<1>1. b[1] \in Byte /\ b[3] \in Byte /\ b[4] \in Byte
  OBVIOUS
<1>2. LevelOf(b[3], b[4]) \in Byte \cup {NoLevel}
  BY <1>1 DEF LevelOf
<1> QED BY <1>1, <1>2 DEF ComponentOf, Component

\* parse_battery() of a composed packet: the components of its blocks, in order,
\* when it knows all of them, and nothing otherwise.
LEMMA ParseComposed ==
    ASSUME NEW p \in Seq(Nat), NEW s \in Seq(Blocks), Composed(p, s),
           Len(s) <= MaxBlocks
    PROVE  IF \A i \in DOMAIN s : s[i][1] \in {Case, Left, Right}
           THEN /\ ParseBattery(p) = [i \in 1..Len(s) |-> ComponentOf(s[i])]
                /\ ParseBattery(p) # Refused
           ELSE ParseBattery(p) = Refused
<1> DEFINE n == Len(s)
           Known == \A i \in DOMAIN s : s[i][1] \in {Case, Left, Right}
<1>1. n \in Nat /\ DOMAIN s = 1..n
  OBVIOUS
<1>2. /\ HasStdHeader(p) /\ OpcodeOf(p) = OpBattery /\ Len(p) >= CountOffset
      /\ LengthAgrees(p) /\ p[CountOffset] = n
  BY ComposedAccepted
<1> HIDE DEF n
<1>3. ASSUME NEW i \in 1..n PROVE \A k \in 1..5 : Block(p, i)[k] = s[i][k]
  BY <1>1, BlockOfComposed
<1>4. ASSUME NEW i \in 1..n
      PROVE  /\ Block(p, i)[1] = s[i][1]
             /\ ComponentOf(Block(p, i)) = ComponentOf(s[i])
  <2>1. 1 \in 1..5 /\ 2 \in 1..5 /\ 3 \in 1..5 /\ 4 \in 1..5 /\ 5 \in 1..5
    OBVIOUS
  <2>2. /\ Block(p, i)[1] = s[i][1] /\ Block(p, i)[2] = s[i][2]
        /\ Block(p, i)[3] = s[i][3] /\ Block(p, i)[4] = s[i][4]
        /\ Block(p, i)[5] = s[i][5]
    BY <1>3, <2>1, Zenon
  <2> QED BY <2>2, Zenon DEF ComponentOf
<1>5. (\A i \in 1..n : KnownComponent(Block(p, i)[1])) <=> Known
  BY <1>1, <1>4, Zenon DEF KnownComponent
<1>6. CASE Known
  <2>1. ParseBattery(p) = [i \in 1..p[CountOffset] |-> ComponentOf(Block(p, i))]
    BY <1>2, <1>5, <1>6, Zenon DEF ParseBattery
  <2>2. ParseBattery(p) = [i \in 1..n |-> ComponentOf(s[i])]
    BY <1>2, <1>4, <2>1, Zenon
  <2>3. n \in Byte
    <3>1. n <= MaxBlocks
      BY DEF n
    <3> QED BY <1>1, <3>1, Bounds DEF Byte
  <2>4. \A i \in 1..n : ComponentOf(s[i]) \in Component
    <3> TAKE i \in 1..n
    <3>1. s[i] \in Blocks
      BY <1>1
    <3>2. \A k \in 1..5 : s[i][k] \in Byte
      BY <3>1, BlockBytes DEF BlockSize
    <3> QED BY <3>2, ComponentType
  <2>5. ParseBattery(p) \in [1..n -> Component]
    BY <2>2, <2>4, Zenon
  <2>6. ParseBattery(p) # Refused
    BY <2>3, <2>5, BatteryAssumption
  <2> QED BY <1>6, <2>2, <2>6 DEF n
<1>7. CASE ~Known
  <2>1. ~(\A i \in 1..p[CountOffset] : KnownComponent(Block(p, i)[1]))
    BY <1>2, <1>5, <1>7, Zenon
  <2>2. ParseBattery(p) = Refused
    BY <2>1, Zenon DEF ParseBattery
  <2> QED BY <1>7, <2>2
<1> QED BY <1>6, <1>7

\* The invariant says what the runs check of the parser.
LEMMA PacketReport ==
    ASSUME PacketInv
    PROVE  WholeReportOrNone /\ DamageIsRefused
<1>1. DamageIsRefused
  BY DEF PacketInv, DamageIsRefused
<1>2. ASSUME intact PROVE WholeReportOrNone
  <2> DEFINE r == ParseBattery(packet)
             Known == \A i \in DOMAIN sent : sent[i][1] \in {Case, Left, Right}
  <2>1. /\ sent \in Seq(Blocks) /\ Len(sent) <= MaxBlocks
        /\ packet \in Seq(Nat) /\ Composed(packet, sent)
    BY <1>2 DEF PacketInv
  <2>2. IF Known
        THEN r = [i \in 1..Len(sent) |-> ComponentOf(sent[i])] /\ r # Refused
        ELSE r = Refused
    BY <2>1, ParseComposed
  <2> HIDE DEF r
  <2>3. CASE Known
    <3>1. r = [i \in 1..Len(sent) |-> ComponentOf(sent[i])] /\ r # Refused
      BY <2>2, <2>3
    <3>2. Len(sent) \in Nat /\ DOMAIN sent = 1..Len(sent)
      BY <2>1
    <3>3. Len(r) = Len(sent)
      BY <3>1, <3>2
    <3>4. \A i \in DOMAIN sent : r[i] = ComponentOf(sent[i])
      BY <3>1, <3>2, Zenon
    <3>5. \A i \in DOMAIN sent :
              /\ r[i].component = sent[i][1] /\ r[i].status = sent[i][4]
              /\ r[i].rawLevel = sent[i][3]
              /\ ~r[i].anomaly <=> sent[i][2] = 1 /\ sent[i][5] = 1
      <4> TAKE i \in DOMAIN sent
      <4>1. /\ r[i].component = sent[i][1] /\ r[i].status = sent[i][4]
            /\ r[i].rawLevel = sent[i][3]
            /\ r[i].anomaly = (sent[i][2] # 1 \/ sent[i][5] # 1)
        <5> DEFINE b == sent[i]
        <5>1. r[i] = ComponentOf(b)
          BY <3>4
        <5> HIDE DEF b
        <5>2. ComponentOf(b) =
                  [component |-> b[1], status |-> b[4], rawLevel |-> b[3],
                   level |-> LevelOf(b[3], b[4]), anomaly |-> b[2] # 1 \/ b[5] # 1]
          BY DEF ComponentOf
        <5> QED BY <5>1, <5>2 DEF b
      <4> QED BY <4>1, Zenon
    <3> QED BY <2>3, <3>1, <3>3, <3>5 DEF WholeReportOrNone, r
  <2>4. CASE ~Known
    BY <2>2, <2>4 DEF WholeReportOrNone, r
  <2> QED BY <2>3, <2>4
<1>3. ASSUME ~intact PROVE WholeReportOrNone
  BY <1>3 DEF WholeReportOrNone
<1> QED BY <1>1, <1>2, <1>3

\* parse_battery(), for every report of up to 255 blocks: an intact packet gives
\* all of its components or nothing, and a packet that was damaged in its length,
\* its count byte or its header gives nothing.
THEOREM ParserCorrect == Spec => [](WholeReportOrNone /\ DamageIsRefused)
<1>1. Init => PacketInv
  BY PacketInit
<1>2. PacketInv /\ [Next]_vars => PacketInv'
  BY PacketStep
<1>3. PacketInv => WholeReportOrNone /\ DamageIsRefused
  BY PacketReport
<1> QED BY <1>1, <1>2, <1>3, PTL DEF Spec

=============================================================================
