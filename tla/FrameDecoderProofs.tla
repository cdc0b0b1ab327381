------------------------- MODULE FrameDecoderProofs -------------------------
(***************************************************************************)
(* Proofs about FrameDecoder, for every value of its constants.            *)
(***************************************************************************)
EXTENDS FrameDecoder, Induction, SequenceTheorems, TLAPS

-----------------------------------------------------------------------------
(* The checksum *)

\* The arithmetic of one step of the checksum.
LEMMA Digit ==
  ASSUME NEW a \in Nat, NEW b \in Nat, NEW c \in Nat, NEW d \in Nat
  PROVE  /\ 8 * a + b \in Nat /\ 8 * a + b >= a
         /\ a >= 1 => 8 * a + b >= 8
         /\ a < c => 8 * a + b < 8 * c + b
         /\ b < d => 8 * a + b < 8 * a + d
         /\ d < a => d < 8 * a + b
OBVIOUS

CrcSteps(F, s) == F[0] = 1 /\ \A i \in 1..Len(s) : F[i] = 8 * F[i - 1] + s[i]

\* crc32c goes through the cells one by one.
LEMMA CrcRecursion ==
  ASSUME NEW s \in Seq(Nat)
  PROVE  \E F \in [0..Len(s) -> Nat] : CrcSteps(F, s) /\ crc32c(s) = F[Len(s)]
<1> DEFINE n == Len(s)
           B(F, i) == IF i = 0 THEN 1 ELSE 8 * F[i - 1] + s[i]
           Crc == CHOOSE F : F = [i \in 0..n |-> B(F, i)]
           h == [i \in 1..n |-> [x \in Nat |-> 8 * x + s[i]]]
<1>1. n \in Nat /\ \A i \in 1..n : s[i] \in Nat
  BY LenProperties, ElementOfSeq
<1>2. h \in [1..n -> [Nat -> Nat]]
  BY <1>1
<1>3. PICK G \in [0..n -> Nat] : Recurses(G, n, 1, h)
  <2> HIDE DEF h, n
  <2> QED BY <1>1, <1>2, RecursionDefines
<1>4. G[0] = 1 /\ \A i \in 1..n : G[i] = 8 * G[i - 1] + s[i]
  <2>1. G[0] = 1 /\ \A i \in 1..n : G[i] = h[i][G[i - 1]]
    BY <1>3 DEF Recurses
  <2>2. \A i \in 1..n : i - 1 \in 0..n
    BY <1>1
  <2> QED BY <2>1, <2>2
<1>5. \A i \in 0..n : G[i] = B(G, i)
  <2>1. 0..n = {0} \cup 1..n /\ 0 \notin 1..n
    BY <1>1
  <2> HIDE DEF n
  <2> QED BY <1>4, <2>1
<1>6. Crc = [i \in 0..n |-> B(Crc, i)]
  <2> HIDE DEF B, n
  <2>1. G = [i \in 0..n |-> B(G, i)]
    BY <1>5
  <2> QED BY <2>1, Zenon
<1>7. crc32c(s) = Crc[n]
  BY DEF crc32c
<1> HIDE DEF Crc, h
<1>8. Crc[0] = 1 /\ \A i \in 1..n : Crc[i] = 8 * Crc[i - 1] + s[i]
  <2>1. \A i \in 0..n : Crc[i] = B(Crc, i)
    <3> HIDE DEF B, n
    <3> QED BY <1>6, Zenon
  <2> HIDE DEF n
  <2> QED BY <1>1, <2>1
<1> HIDE DEF n
<1>9. \A i \in 0..n : Crc[i] = G[i]
  <2> DEFINE I == {k \in Nat : k <= n => Crc[k] = G[k]}
  <2>1. 0 \in I
    BY <1>4, <1>8
  <2>2. ASSUME NEW k \in Nat, k \in I PROVE k + 1 \in I
    <3> SUFFICES ASSUME k + 1 <= n PROVE Crc[k + 1] = G[k + 1]
      OBVIOUS
    <3>1. k + 1 \in 1..n /\ (k + 1) - 1 = k /\ k <= n
      BY <1>1
    <3>2. Crc[k] = G[k]
      BY <2>2, <3>1
    <3> QED BY <1>4, <1>8, <3>1, <3>2
  <2>3. \A k \in Nat : k \in I
    <3> HIDE DEF I
    <3> QED BY <2>1, <2>2, SetInduction
  <2> QED BY <1>1, <2>3
<1>10. CrcSteps(G, s) /\ crc32c(s) = G[n]
  BY <1>1, <1>4, <1>7, <1>9 DEF CrcSteps, n
<1> QED BY <1>10 DEF n

\* The checksum of a cell at least is never a plain cell.
LEMMA CrcLarge ==
  ASSUME NEW s \in Seq(Nat), Len(s) >= 1
  PROVE  crc32c(s) \in Nat /\ crc32c(s) \notin Cells
<1>1. PICK F \in [0..Len(s) -> Nat] : CrcSteps(F, s) /\ crc32c(s) = F[Len(s)]
  BY CrcRecursion
<1> DEFINE n == Len(s)
<1>2. n \in Nat /\ n >= 1 /\ \A i \in 1..n : s[i] \in Nat
  BY LenProperties, ElementOfSeq
<1>3. F[0] = 1 /\ \A i \in 1..n : F[i] = 8 * F[i - 1] + s[i]
  BY <1>1 DEF CrcSteps
<1> HIDE DEF n
<1>4. F \in [0..n -> Nat] /\ crc32c(s) = F[n]
  BY <1>1 DEF n
<1> DEFINE I == {k \in Nat : k <= n => F[k] >= 1 /\ (k >= 1 => F[k] >= 8)}
<1>5. 0 \in I
  BY <1>3
<1>6. ASSUME NEW k \in Nat, k \in I PROVE k + 1 \in I
  <2> SUFFICES ASSUME k + 1 <= n PROVE F[k + 1] >= 8 /\ F[k + 1] >= 1
    OBVIOUS
  <2>1. k + 1 \in 1..n /\ (k + 1) - 1 = k /\ k \in 0..n
    BY <1>2
  <2>2. F[k] >= 1
    BY <1>6, <2>1
  <2>3. F[k] \in Nat /\ s[k + 1] \in Nat
    BY <1>2, <1>4, <2>1
  <2>4. F[k + 1] = 8 * F[k] + s[k + 1]
    BY <1>3, <2>1
  <2>5. 8 * F[k] + s[k + 1] >= 8
    BY <2>2, <2>3, Digit
  <2> QED BY <2>3, <2>4, <2>5
<1>7. \A k \in Nat : k \in I
  <2> HIDE DEF I
  <2> QED BY <1>5, <1>6, SetInduction
<1>8. F[n] >= 8 /\ F[n] \in Nat
  BY <1>2, <1>4, <1>7
<1> QED BY <1>4, <1>8 DEF Cells

\* Two contents that agree but for one cell, of which the one with the larger
\* cell is not the shorter, have different checksums.
LEMMA CrcGrows ==
  ASSUME NEW s \in Seq(Nat), NEW t \in Seq(Nat), Len(s) <= Len(t),
         NEW j \in 1..Len(s), s[j] < t[j],
         \A i \in 1..Len(s) : i # j => s[i] = t[i]
  PROVE  crc32c(s) # crc32c(t)
<1> DEFINE m == Len(s)
           n == Len(t)
<1>1. /\ m \in Nat /\ n \in Nat /\ m <= n
      /\ \A i \in 1..m : s[i] \in Nat /\ (i # j => s[i] = t[i])
      /\ \A i \in 1..n : t[i] \in Nat
  BY LenProperties, ElementOfSeq
<1>2. PICK F \in [0..m -> Nat] : CrcSteps(F, s) /\ crc32c(s) = F[m]
  BY CrcRecursion
<1>3. PICK G \in [0..n -> Nat] : CrcSteps(G, t) /\ crc32c(t) = G[n]
  BY CrcRecursion
<1>4. /\ F[0] = 1 /\ \A i \in 1..m : F[i] = 8 * F[i - 1] + s[i]
      /\ G[0] = 1 /\ \A i \in 1..n : G[i] = 8 * G[i - 1] + t[i]
  BY <1>2, <1>3 DEF CrcSteps
<1>5. j \in 1..m /\ j \in Nat /\ s[j] < t[j]
  BY <1>1
<1> HIDE DEF m, n
<1> DEFINE P(k) == /\ k < j => F[k] = G[k]
                   /\ j <= k /\ k <= m => F[k] < G[k]
                   /\ m <= k => F[m] < G[k]
           I == {k \in Nat : k <= n => P(k)}
<1>6. 0 \in I
  BY <1>1, <1>4, <1>5
<1>7. ASSUME NEW k \in Nat, k \in I PROVE k + 1 \in I
  <2> SUFFICES ASSUME k + 1 <= n PROVE P(k + 1)
    BY DEF I
  <2>1. k + 1 \in 1..n /\ (k + 1) - 1 = k /\ k \in 0..n /\ k <= n
    BY <1>1
  <2>2. P(k)
    BY <1>7, <2>1
  <2>3. G[k] \in Nat /\ t[k + 1] \in Nat /\ G[k + 1] = 8 * G[k] + t[k + 1] /\ G[k + 1] >= G[k] /\ G[k + 1] \in Nat
    <3>1. G[k] \in Nat /\ t[k + 1] \in Nat /\ G[k + 1] = 8 * G[k] + t[k + 1]
      BY <1>1, <1>4, <2>1
    <3>2. 8 * G[k] + t[k + 1] \in Nat /\ 8 * G[k] + t[k + 1] >= G[k]
      BY <3>1, Digit
    <3> QED BY <3>1, <3>2
  <2>4. CASE k + 1 <= m
    <3>1. k + 1 \in 1..m /\ k \in 0..m
      BY <1>1, <2>4
    <3>2. F[k] \in Nat /\ s[k + 1] \in Nat /\ F[k + 1] = 8 * F[k] + s[k + 1]
      BY <1>1, <1>4, <2>1, <3>1
    <3>3. CASE k + 1 < j
      <4>1. F[k] = G[k] /\ s[k + 1] = t[k + 1]
        BY <1>1, <1>5, <2>2, <3>1, <3>3
      <4>2. F[k + 1] = G[k + 1]
        BY <2>3, <3>2, <4>1
      <4> QED BY <1>1, <1>5, <3>1, <3>3, <4>2
    <3>4. CASE k + 1 = j
      <4>1. F[k] = G[k] /\ s[k + 1] < t[k + 1]
        BY <1>5, <2>2, <3>4
      <4>2. 8 * F[k] + s[k + 1] < 8 * G[k] + t[k + 1]
        BY <2>3, <3>2, <4>1, Digit
      <4>3. F[k + 1] < G[k + 1]
        BY <2>3, <3>2, <4>2
      <4> QED BY <1>1, <1>5, <2>4, <3>1, <3>4, <4>3
    <3>5. CASE k + 1 > j
      <4>1. F[k] < G[k] /\ s[k + 1] = t[k + 1]
        BY <1>1, <1>5, <2>2, <2>4, <3>1, <3>5
      <4>2. 8 * F[k] + s[k + 1] < 8 * G[k] + t[k + 1]
        BY <2>3, <3>2, <4>1, Digit
      <4>3. F[k + 1] < G[k + 1]
        BY <2>3, <3>2, <4>2
      <4>4. ~(k + 1 < j) /\ (m <= k + 1 => m = k + 1)
        BY <1>1, <1>5, <2>4, <3>5
      <4> QED BY <4>3, <4>4
    <3> QED BY <1>5, <3>3, <3>4, <3>5
  <2>5. CASE ~(k + 1 <= m)
    <3>1. m <= k /\ F[m] \in Nat
      BY <1>1, <1>2, <2>5
    <3>2. F[m] < G[k]
      BY <2>2, <3>1
    <3>3. F[m] < 8 * G[k] + t[k + 1]
      BY <2>3, <3>1, <3>2, Digit
    <3>4. F[m] < G[k + 1]
      BY <2>3, <3>3
    <3> QED BY <1>1, <1>5, <2>5, <3>4
  <2> QED BY <2>4, <2>5
<1>8. \A k \in Nat : k \in I
  <2> HIDE DEF I
  <2> QED BY <1>6, <1>7, SetInduction
<1>9. F[m] < G[n]
  BY <1>1, <1>8
<1>10. F[m] \in Nat /\ G[n] \in Nat
  BY <1>1
<1> QED BY <1>2, <1>3, <1>9, <1>10 DEF m, n

-----------------------------------------------------------------------------
(* Frames and their cells *)

\* u is s, of m cells, followed by t, of n cells.
JoinOf(u, s, m, t, n) ==
  /\ Len(u) = m + n /\ m \in Nat /\ n \in Nat
  /\ \A i \in 1..m : u[i] = s[i]
  /\ \A i \in 1..n : u[m + i] = t[i]

\* The cells of two sequences that are joined.
LEMMA Joined ==
  ASSUME NEW S, NEW s \in Seq(S), NEW t \in Seq(S)
  PROVE  s \o t \in Seq(S) /\ JoinOf(s \o t, s, Len(s), t, Len(t))
<1> DEFINE m == Len(s)
           n == Len(t)
<1>1. m \in Nat /\ n \in Nat
  BY LenProperties
<1> DEFINE u == s \o t
<1>2. /\ u \in Seq(S) /\ Len(u) = m + n
      /\ \A i \in 1..(m + n) : u[i] = IF i <= m THEN s[i] ELSE t[i - m]
  BY ConcatProperties
<1> HIDE DEF u, m, n
<1>3. ASSUME NEW i \in 1..m PROVE u[i] = s[i]
  <2>1. i \in 1..(m + n) /\ i <= m
    BY <1>1
  <2> QED BY <1>2, <2>1
<1>4. ASSUME NEW i \in 1..n PROVE u[m + i] = t[i]
  <2>1. m + i \in 1..(m + n) /\ ~(m + i <= m) /\ (m + i) - m = i
    BY <1>1
  <2> QED BY <1>2, <2>1
<1>5. u \in Seq(S) /\ JoinOf(u, s, m, t, n)
  BY <1>1, <1>2, <1>3, <1>4 DEF JoinOf
<1> QED BY <1>5 DEF u, m, n

\* A frame that is sent.
LEMMA FrameType ==
  ASSUME NEW f \in Frames
  PROVE  /\ f = [type |-> f.type, payload |-> f.payload]
         /\ f.type \in Nat /\ f.payload \in Seq(Nat)
         /\ Len(f.payload) \in Nat /\ Len(f.payload) <= Longest /\ Len(f.payload) <= MaxPayload
<1>1. f.type \in Types /\ f = [type |-> f.type, payload |-> f.payload]
      /\ f.payload \in UNION {[1..n -> Bytes] : n \in 0..Longest}
  BY DEF Frames
<1>2. PICK n \in 0..Longest : f.payload \in [1..n -> Bytes]
  BY <1>1
<1>3. n \in Nat /\ n <= Longest /\ n <= MaxPayload /\ Bytes \subseteq Nat /\ Types \subseteq Nat
  BY <1>2, FrameAssumption DEF Cells
<1>4. f.payload \in [1..n -> Nat]
  BY <1>2, <1>3
<1>5. f.payload \in Seq(Nat)
  BY <1>3, <1>4, SeqDef
<1>6. Len(f.payload) = n
  BY <1>3, <1>4, <1>5, LenProperties
<1> QED BY <1>1, <1>3, <1>5, <1>6

Header(f) == <<FrameMagic, ProtocolVersion, f.type, Len(f.payload)>>

\* What the checksum covers.
Content(f) == Header(f) \o f.payload

\* e is the encoding of a frame of type y with payload p of n bytes and content c.
Encodes(e, y, p, n, c) ==
  /\ e \in Seq(Nat) /\ Len(e) = 5 + n
  /\ e[1] = FrameMagic /\ e[2] = ProtocolVersion /\ e[3] = y /\ e[4] = n
  /\ e[5] = crc32c(c) /\ \A i \in 1..n : e[5 + i] = p[i]
  /\ c \in Seq(Nat) /\ Len(c) = 4 + n
  /\ \A i \in 1..4 : c[i] = e[i]
  /\ \A i \in 1..n : c[4 + i] = p[i]

\* Every cell of an encoded frame.
LEMMA EncodedCells ==
  ASSUME NEW f \in Frames
  PROVE  Encodes(encode_frame(f), f.type, f.payload, Len(f.payload), Content(f))
<1> DEFINE p == f.payload
           n == Len(p)
           h == Header(f)
           c == h \o p
           x == crc32c(c)
           u == <<x>>
           hu == h \o u
           e == hu \o p
<1>1. p \in Seq(Nat) /\ n \in Nat /\ f.type \in Nat
  BY FrameType
<1>2. h \in Seq(Nat) /\ Len(h) = 4 /\ h[1] = FrameMagic /\ h[2] = ProtocolVersion /\ h[3] = f.type /\ h[4] = n
  BY <1>1 DEF Header, FrameMagic, ProtocolVersion
<1>3. Content(f) = c /\ encode_frame(f) = e
  BY DEF encode_frame, Checksum, Header, Content
<1> HIDE DEF h, p
<1>4. /\ c \in Seq(Nat) /\ Len(c) = 4 + n
      /\ \A i \in 1..4 : c[i] = h[i]
      /\ \A i \in 1..n : c[4 + i] = p[i]
  <2> HIDE DEF n
  <2>1. h \o p \in Seq(Nat) /\ JoinOf(h \o p, h, Len(h), p, Len(p))
    BY <1>1, <1>2, Joined
  <2> HIDE DEF c
  <2>2. c \in Seq(Nat) /\ JoinOf(c, h, 4, p, n)
    BY <1>2, <2>1 DEF c, n
  <2> QED BY <2>2 DEF JoinOf
<1> HIDE DEF n, c
<1>5. x \in Nat
  <2>1. Len(c) >= 1
    BY <1>1, <1>4
  <2> QED BY <1>4, <2>1, CrcLarge
<1> HIDE DEF x
<1>6. u \in Seq(Nat) /\ Len(u) = 1 /\ u[1] = x
  BY <1>5
<1> HIDE DEF u
<1>7. /\ hu \in Seq(Nat) /\ Len(hu) = 5
      /\ \A i \in 1..4 : hu[i] = h[i]
      /\ hu[5] = x
  <2>1. h \o u \in Seq(Nat) /\ JoinOf(h \o u, h, Len(h), u, Len(u))
    BY <1>2, <1>6, Joined
  <2> HIDE DEF hu
  <2>2. hu \in Seq(Nat) /\ JoinOf(hu, h, 4, u, 1)
    BY <1>2, <1>6, <2>1 DEF hu
  <2>3. 1 \in 1..1 /\ 4 + 1 = 5
    OBVIOUS
  <2> QED BY <1>6, <2>2, <2>3 DEF JoinOf
<1> HIDE DEF hu
<1>8. /\ e \in Seq(Nat) /\ Len(e) = 5 + n
      /\ \A i \in 1..5 : e[i] = hu[i]
      /\ \A i \in 1..n : e[5 + i] = p[i]
  <2>1. hu \o p \in Seq(Nat) /\ JoinOf(hu \o p, hu, Len(hu), p, Len(p))
    BY <1>1, <1>7, Joined
  <2> HIDE DEF e
  <2>2. e \in Seq(Nat) /\ JoinOf(e, hu, 5, p, n)
    BY <1>7, <2>1 DEF e, n
  <2> QED BY <2>2 DEF JoinOf
<1> HIDE DEF e
<1>9. 1 \in 1..4 /\ 2 \in 1..4 /\ 3 \in 1..4 /\ 4 \in 1..4 /\ 5 \in 1..5 /\ \A i \in 1..4 : i \in 1..5
  OBVIOUS
<1>10. \A i \in 1..4 : e[i] = h[i] /\ c[i] = e[i]
  BY <1>4, <1>7, <1>8, <1>9
<1>11. e[1] = FrameMagic /\ e[2] = ProtocolVersion /\ e[3] = f.type /\ e[4] = n
  BY <1>2, <1>9, <1>10
<1>12. e[5] = x
  BY <1>7, <1>8, <1>9
<1>13. Encodes(e, f.type, p, n, c)
  BY <1>4, <1>8, <1>10, <1>11, <1>12 DEF Encodes, x
<1> QED BY <1>3, <1>13 DEF n, p

-----------------------------------------------------------------------------
(* The stream *)

WriteSteps(F, s, n) == F[0] = << >> /\ \A i \in 1..n : F[i] = F[i - 1] \o encode_frame(s[i])

\* Stream goes through the frames one by one.
LEMMA StreamRecursion ==
  ASSUME NEW s \in Seq(Frames)
  PROVE  \E F \in [0..Len(s) -> Seq(Nat)] : WriteSteps(F, s, Len(s)) /\ Stream(s) = F[Len(s)]
<1> DEFINE n == Len(s)
           V == Seq(Nat)
           B(F, i) == IF i = 0 THEN << >> ELSE F[i - 1] \o encode_frame(s[i])
           Written == CHOOSE F : F = [i \in 0..n |-> B(F, i)]
           h == [i \in 1..n |-> [x \in V |-> x \o encode_frame(s[i])]]
<1>1. n \in Nat /\ \A i \in 1..n : s[i] \in Frames
  BY LenProperties, ElementOfSeq
<1>2. \A i \in 1..n : encode_frame(s[i]) \in V
  BY <1>1, EncodedCells DEF Encodes
<1>3. h \in [1..n -> [V -> V]]
  <2>1. ASSUME NEW i \in 1..n, NEW x \in V PROVE x \o encode_frame(s[i]) \in V
    <3> DEFINE e == encode_frame(s[i])
    <3>1. e \in V
      BY <1>2
    <3> HIDE DEF e
    <3>2. x \o e \in V
      BY <3>1, ConcatProperties
    <3> QED BY <3>2 DEF e
  <2> HIDE DEF V, n
  <2> QED BY <2>1
<1>4. PICK G \in [0..n -> V] : Recurses(G, n, << >>, h)
  <2>1. << >> \in V
    OBVIOUS
  <2> HIDE DEF h, n, V
  <2> QED BY <1>1, <1>3, <2>1, RecursionDefines
<1>5. G[0] = << >> /\ \A i \in 1..n : G[i] = G[i - 1] \o encode_frame(s[i])
  <2>1. G[0] = << >> /\ \A i \in 1..n : G[i] = h[i][G[i - 1]]
    BY <1>4 DEF Recurses
  <2>2. \A i \in 1..n : i - 1 \in 0..n
    BY <1>1
  <2> HIDE DEF V, n
  <2>3. ASSUME NEW i \in 1..n PROVE G[i] = G[i - 1] \o encode_frame(s[i])
    <3>1. G[i - 1] \in V
      BY <2>2
    <3>2. \A x \in V : h[i][x] = x \o encode_frame(s[i])
      OBVIOUS
    <3> HIDE DEF h
    <3> QED BY <2>1, <3>1, <3>2
  <2> QED BY <2>1, <2>3
<1>6. \A i \in 0..n : G[i] = B(G, i)
  <2>1. 0..n = {0} \cup 1..n /\ 0 \notin 1..n
    BY <1>1
  <2> HIDE DEF n
  <2> QED BY <1>5, <2>1
<1>7. Written = [i \in 0..n |-> B(Written, i)]
  <2> HIDE DEF B, n, V
  <2>1. G = [i \in 0..n |-> B(G, i)]
    BY <1>6
  <2> QED BY <2>1, Zenon
<1>8. Stream(s) = Written[n]
  BY DEF Stream
<1> HIDE DEF Written, h
<1>9. Written[0] = << >> /\ \A i \in 1..n : Written[i] = Written[i - 1] \o encode_frame(s[i])
  <2>1. \A i \in 0..n : Written[i] = B(Written, i)
    <3> HIDE DEF B, n
    <3> QED BY <1>7, Zenon
  <2>2. 0..n = {0} \cup 1..n /\ 0 \notin 1..n
    BY <1>1
  <2> HIDE DEF n
  <2> QED BY <2>1, <2>2
<1> HIDE DEF n
<1>10. \A i \in 0..n : Written[i] = G[i]
  <2> DEFINE I == {k \in Nat : k <= n => Written[k] = G[k]}
  <2>1. 0 \in I
    BY <1>5, <1>9
  <2>2. ASSUME NEW k \in Nat, k \in I PROVE k + 1 \in I
    <3> SUFFICES ASSUME k + 1 <= n PROVE Written[k + 1] = G[k + 1]
      OBVIOUS
    <3>1. k + 1 \in 1..n /\ (k + 1) - 1 = k /\ k <= n
      BY <1>1
    <3>2. Written[k] = G[k]
      BY <2>2, <3>1
    <3> QED BY <1>5, <1>9, <3>1, <3>2
  <2>3. \A k \in Nat : k \in I
    <3> HIDE DEF I
    <3> QED BY <2>1, <2>2, SetInduction
  <2> QED BY <1>1, <2>3
<1>11. WriteSteps(G, s, n) /\ Stream(s) = G[n]
  <2>1. n \in 0..n
    BY <1>1
  <2>2. Stream(s) = G[n]
    BY <1>8, <1>10, <2>1
  <2>3. WriteSteps(G, s, n)
    BY <1>5 DEF WriteSteps
  <2> QED BY <2>2, <2>3
<1> QED BY <1>11 DEF n

\* The stream of the first frames is what had been written by then.
LEMMA StreamOfFirst ==
  ASSUME NEW s \in Seq(Frames), NEW d \in Seq(Frames), Len(d) <= Len(s),
         \A i \in 1..Len(d) : d[i] = s[i],
         NEW F \in [0..Len(s) -> Seq(Nat)], WriteSteps(F, s, Len(s))
  PROVE  Stream(d) = F[Len(d)]
<1> DEFINE n == Len(d)
<1>1. PICK G \in [0..n -> Seq(Nat)] : WriteSteps(G, d, n) /\ Stream(d) = G[n]
  BY StreamRecursion
<1>2. n \in Nat /\ Len(s) \in Nat /\ n <= Len(s)
  BY LenProperties
<1>3. \A i \in 1..n : i \in 1..Len(s) /\ d[i] = s[i]
  BY <1>2
<1> HIDE DEF n
<1>4. F[0] = G[0] /\ \A i \in 1..n : /\ F[i] = F[i - 1] \o encode_frame(s[i])
                                      /\ G[i] = G[i - 1] \o encode_frame(s[i])
  <2>1. F[0] = << >> /\ \A i \in 1..Len(s) : F[i] = F[i - 1] \o encode_frame(s[i])
    BY DEF WriteSteps
  <2>2. G[0] = << >> /\ \A i \in 1..n : G[i] = G[i - 1] \o encode_frame(d[i])
    BY <1>1 DEF WriteSteps
  <2> QED BY <1>3, <2>1, <2>2
<1> DEFINE I == {k \in Nat : k <= n => F[k] = G[k]}
<1>5. 0 \in I
  BY <1>4
<1>6. ASSUME NEW k \in Nat, k \in I PROVE k + 1 \in I
  <2> SUFFICES ASSUME k + 1 <= n PROVE F[k + 1] = G[k + 1]
    OBVIOUS
  <2>1. k + 1 \in 1..n /\ (k + 1) - 1 = k /\ k <= n
    BY <1>2
  <2>2. F[k] = G[k]
    BY <1>6, <2>1
  <2> QED BY <1>4, <2>1, <2>2
<1>7. \A k \in Nat : k \in I
  <2> HIDE DEF I
  <2> QED BY <1>5, <1>6, SetInduction
<1> QED BY <1>1, <1>2, <1>7 DEF n

\* A frame more is its cells more.
LEMMA StreamAppend ==
  ASSUME NEW s \in Seq(Frames), NEW f \in Frames
  PROVE  Stream(Append(s, f)) = Stream(s) \o encode_frame(f)
<1> DEFINE a == Append(s, f)
           n == Len(s)
<1>1. a \in Seq(Frames) /\ Len(a) = n + 1 /\ (\A i \in 1..n : a[i] = s[i]) /\ a[n + 1] = f
  BY AppendProperties
<1>2. n \in Nat /\ n + 1 \in 1..(n + 1) /\ (n + 1) - 1 = n /\ n <= n + 1
  BY LenProperties
<1> HIDE DEF a
<1>3. PICK F \in [0..Len(a) -> Seq(Nat)] : WriteSteps(F, a, Len(a)) /\ Stream(a) = F[Len(a)]
  BY <1>1, StreamRecursion
<1>4. Stream(s) = F[n]
  <2>1. \A i \in 1..Len(s) : s[i] = a[i]
    BY <1>1
  <2>2. Len(s) <= Len(a)
    BY <1>1, <1>2
  <2> QED BY <1>1, <1>3, <2>1, <2>2, StreamOfFirst
<1> HIDE DEF n
<1>5. F[n + 1] = F[n] \o encode_frame(f)
  BY <1>1, <1>2, <1>3 DEF WriteSteps
<1> QED BY <1>1, <1>3, <1>4, <1>5 DEF a

\* Nothing sent is an empty stream.
LEMMA StreamEmpty == Stream(<< >>) = << >>
<1> DEFINE s == << >>
<1>1. s \in Seq(Frames) /\ Len(s) = 0
  OBVIOUS
<1> HIDE DEF s
<1>2. PICK F \in [0..Len(s) -> Seq(Nat)] : WriteSteps(F, s, Len(s)) /\ Stream(s) = F[Len(s)]
  BY <1>1, StreamRecursion
<1>3. Stream(s) = << >>
  BY <1>1, <1>2 DEF WriteSteps
<1> QED BY <1>3 DEF s

\* A stream is no longer than as many frames can be.
LEMMA StreamBounded ==
  ASSUME NEW s \in Seq(Frames)
  PROVE  Stream(s) \in Seq(Nat) /\ Len(Stream(s)) \in Nat /\ Len(Stream(s)) <= Len(s) * Bound
<1> DEFINE n == Len(s)
<1>1. PICK F \in [0..n -> Seq(Nat)] : WriteSteps(F, s, n) /\ Stream(s) = F[n]
  BY StreamRecursion
<1>2. n \in Nat /\ (\A i \in 1..n : s[i] \in Frames)
  BY LenProperties, ElementOfSeq
<1>3. Bound \in Nat /\ MaxPayload \in Nat /\ Bound = MaxPayload + 5
  BY FrameAssumption DEF Bound, HeaderCells
<1> HIDE DEF n
<1> DEFINE I == {k \in Nat : k <= n => Len(F[k]) <= k * Bound}
<1>4. 0 \in I
  <2>1. F[0] = << >> /\ Len(<< >>) = 0 /\ 0 * Bound = 0
    BY <1>1, <1>3 DEF WriteSteps
  <2> QED BY <2>1
<1>5. ASSUME NEW k \in Nat, k \in I PROVE k + 1 \in I
  <2> SUFFICES ASSUME k + 1 <= n PROVE Len(F[k + 1]) <= (k + 1) * Bound
    OBVIOUS
  <2>1. k + 1 \in 1..n /\ (k + 1) - 1 = k /\ k <= n /\ k \in 0..n
    BY <1>2
  <2> DEFINE e == encode_frame(s[k + 1])
             g == F[k]
             p == s[k + 1].payload
  <2>2. Len(g) <= k * Bound /\ g \in Seq(Nat)
    BY <1>5, <2>1
  <2>3. e \in Seq(Nat) /\ Len(e) = 5 + Len(p) /\ Len(p) \in Nat /\ Len(p) <= MaxPayload
    <3>1. s[k + 1] \in Frames
      BY <1>2, <2>1
    <3> QED BY <3>1, EncodedCells, FrameType DEF Encodes
  <2>4. F[k + 1] = g \o e
    BY <1>1, <2>1 DEF WriteSteps
  <2> HIDE DEF g, e, p
  <2>5. Len(g \o e) = Len(g) + Len(e) /\ Len(g) \in Nat
    BY <2>2, <2>3, ConcatProperties, LenProperties
  <2> DEFINE x == k * Bound
  <2>6. x \in Nat /\ (k + 1) * Bound = x + Bound
    BY <1>3
  <2> HIDE DEF x
  <2>7. Len(g) <= x
    BY <2>2 DEF x
  <2> QED BY <1>3, <2>3, <2>4, <2>5, <2>6, <2>7
<1>6. \A k \in Nat : k \in I
  <2> HIDE DEF I
  <2> QED BY <1>4, <1>5, SetInduction
<1>7. F[n] \in Seq(Nat) /\ Len(F[n]) <= n * Bound
  BY <1>2, <1>6
<1> QED BY <1>1, <1>7, LenProperties DEF n

\* The cells of w after the first p begin with those of e.
Ahead(w, p, e) == p + Len(e) <= Len(w) /\ \A i \in 1..Len(e) : w[p + i] = e[i]

\* After the cells of the first frames come those of the next one.
LEMMA StreamNext ==
  ASSUME NEW s \in Seq(Frames), NEW d \in Seq(Frames), Len(d) < Len(s),
         \A i \in 1..Len(d) : d[i] = s[i]
  PROVE  Ahead(Stream(s), Len(Stream(d)), encode_frame(s[Len(d) + 1]))
<1> DEFINE n == Len(s)
           k == Len(d)
           e == encode_frame(s[k + 1])
<1>1. n \in Nat /\ k \in Nat /\ k < n /\ k <= n /\ k + 1 \in 1..n /\ k \in 0..n /\ (k + 1) - 1 = k
  BY LenProperties
<1>2. \A i \in 1..n : s[i] \in Frames
  BY ElementOfSeq
<1>3. PICK F \in [0..n -> Seq(Nat)] : WriteSteps(F, s, n) /\ Stream(s) = F[n]
  BY StreamRecursion
<1>4. Stream(d) = F[k]
  BY <1>1, <1>3, StreamOfFirst
<1> HIDE DEF n, k
<1>5. e \in Seq(Nat) /\ Len(e) \in Nat
  <2>1. s[k + 1] \in Frames
    BY <1>1, <1>2
  <2> QED BY <2>1, EncodedCells, LenProperties DEF Encodes
<1>6. F[k] \in Seq(Nat) /\ Len(F[k]) \in Nat
  BY <1>1, LenProperties
<1>7. F[k + 1] = F[k] \o e
  BY <1>1, <1>3 DEF WriteSteps
<1> DEFINE p == Len(F[k])
<1> HIDE DEF e, p
<1>8. Ahead(F[k + 1], p, e)
  <2>1. JoinOf(F[k] \o e, F[k], Len(F[k]), e, Len(e))
    BY <1>5, <1>6, Joined
  <2>2. JoinOf(F[k + 1], F[k], p, e, Len(e))
    BY <1>7, <2>1 DEF p
  <2>3. Len(F[k + 1]) = p + Len(e) /\ \A i \in 1..Len(e) : F[k + 1][p + i] = e[i]
    BY <2>2 DEF JoinOf
  <2>4. p + Len(e) <= p + Len(e)
    BY <1>5, <1>6 DEF p
  <2> QED BY <2>3, <2>4 DEF Ahead
<1> DEFINE I == {j \in Nat : k < j /\ j <= n => Ahead(F[j], p, e)}
<1>9. 0 \in I
  BY <1>1
<1>10. ASSUME NEW j \in Nat, j \in I PROVE j + 1 \in I
  <2> SUFFICES ASSUME k < j + 1, j + 1 <= n PROVE Ahead(F[j + 1], p, e)
    OBVIOUS
  <2>1. CASE j = k
    BY <1>8, <2>1
  <2>2. CASE j # k
    <3>1. k < j /\ j <= n /\ j + 1 \in 1..n /\ (j + 1) - 1 = j /\ j \in 0..n
      BY <1>1, <2>2
    <3> DEFINE g == F[j]
               x == encode_frame(s[j + 1])
    <3>2. Ahead(g, p, e) /\ g \in Seq(Nat)
      BY <1>10, <3>1
    <3>3. F[j + 1] = g \o x
      BY <1>3, <3>1 DEF WriteSteps
    <3>4. x \in Seq(Nat)
      <4>1. s[j + 1] \in Frames
        BY <1>2, <3>1
      <4> QED BY <4>1, EncodedCells DEF Encodes
    <3> HIDE DEF g, x
    <3>5. JoinOf(g \o x, g, Len(g), x, Len(x))
      BY <3>2, <3>4, Joined
    <3>6. /\ Len(g \o x) = Len(g) + Len(x) /\ Len(g) \in Nat /\ Len(x) \in Nat
          /\ \A i \in 1..Len(g) : (g \o x)[i] = g[i]
      BY <3>5 DEF JoinOf
    <3>7. p + Len(e) <= Len(g) /\ (\A i \in 1..Len(e) : g[p + i] = e[i]) /\ p \in Nat
      BY <1>6, <3>2 DEF Ahead, p
    <3>8. p + Len(e) <= Len(g \o x)
      BY <1>5, <3>6, <3>7
    <3>9. ASSUME NEW i \in 1..Len(e) PROVE (g \o x)[p + i] = e[i]
      <4>1. p + i \in 1..Len(g)
        BY <1>5, <3>6, <3>7
      <4> QED BY <3>6, <3>7, <4>1
    <3> QED BY <3>3, <3>8, <3>9 DEF Ahead
  <2> QED BY <2>1, <2>2
<1>11. \A j \in Nat : j \in I
  <2> HIDE DEF I
  <2> QED BY <1>9, <1>10, SetInduction
<1>12. Ahead(F[n], p, e)
  <2>1. n <= n
    BY <1>1
  <2> QED BY <1>1, <1>11, <2>1
<1> QED BY <1>3, <1>4, <1>12 DEF e, p, n, k

-----------------------------------------------------------------------------
(* The undecoded cells against the stream *)

\* The tape is the stream after its first p cells, except for the cell at d of
\* the stream, which is damaged.
Follows(tape, w, p, d) ==
  /\ p + Len(tape) = Len(w)
  /\ \A i \in 1..Len(tape) : p + i # d => tape[i] = w[p + i]
  /\ \A i \in 1..Len(tape) : p + i = d => tape[i] \in Cells /\ tape[i] # w[p + i]

\* Cells that are sent come at the end of both.
LEMMA FollowsSend ==
  ASSUME NEW tape \in Seq(Nat), NEW w \in Seq(Nat), NEW e \in Seq(Nat), NEW p \in Nat,
         NEW d \in Nat, d <= Len(w), Follows(tape, w, p, d)
  PROVE  Follows(tape \o e, w \o e, p, d)
<1> DEFINE m == Len(tape)
           n == Len(e)
           l == Len(w)
           a == tape \o e
           b == w \o e
<1>1. JoinOf(a, tape, m, e, n) /\ JoinOf(b, w, l, e, n)
  BY Joined
<1>2. /\ m \in Nat /\ n \in Nat /\ l \in Nat /\ Len(a) = m + n /\ Len(b) = l + n
      /\ \A i \in 1..m : a[i] = tape[i]
      /\ \A i \in 1..n : a[m + i] = e[i]
      /\ \A i \in 1..l : b[i] = w[i]
      /\ \A i \in 1..n : b[l + i] = e[i]
  <2> HIDE DEF a, b, m, n, l
  <2> QED BY <1>1 DEF JoinOf
<1>3. /\ p + m = l
      /\ \A i \in 1..m : p + i # d => tape[i] = w[p + i]
      /\ \A i \in 1..m : p + i = d => tape[i] \in Cells /\ tape[i] # w[p + i]
  BY DEF Follows
<1>4. d <= l
  OBVIOUS
<1> HIDE DEF a, b, m, n, l
<1>5. p + Len(a) = Len(b)
  BY <1>2, <1>3
<1>6. ASSUME NEW i \in 1..Len(a)
      PROVE  /\ p + i # d => a[i] = b[p + i]
             /\ p + i = d => a[i] \in Cells /\ a[i] # b[p + i]
  <2>1. CASE i \in 1..m
    <3>1. p + i \in 1..l
      BY <1>2, <1>3, <2>1
    <3>2. a[i] = tape[i] /\ b[p + i] = w[p + i]
      BY <1>2, <2>1, <3>1
    <3> QED BY <1>3, <2>1, <3>2
  <2>2. CASE i \notin 1..m
    <3>1. i - m \in 1..n /\ m + (i - m) = i /\ l + (i - m) = p + i /\ p + i # d
      BY <1>2, <1>3, <1>4, <2>2
    <3>2. a[m + (i - m)] = e[i - m] /\ b[l + (i - m)] = e[i - m]
      BY <1>2, <3>1
    <3> QED BY <3>1, <3>2
  <2> QED BY <2>1, <2>2
<1>7. Follows(a, b, p, d)
  BY <1>5, <1>6 DEF Follows
<1> QED BY <1>7 DEF a, b

\* A first damaged cell.
LEMMA FollowsDamage ==
  ASSUME NEW tape \in Seq(Nat), NEW w \in Seq(Nat), NEW p \in Nat,
         Follows(tape, w, p, 0), NEW j \in 1..Len(tape), NEW cell \in Cells, tape[j] # cell
  PROVE  Follows([tape EXCEPT ![j] = cell], w, p, p + j)
<1> DEFINE a == [tape EXCEPT ![j] = cell]
           m == Len(tape)
<1>1. m \in Nat /\ cell \in Nat
  BY LenProperties DEF Cells
<1>2. Len(a) = m /\ \A i \in 1..m : a[i] = IF i = j THEN cell ELSE tape[i]
  BY <1>1, ExceptSeq
<1>3. p + m = Len(w) /\ \A i \in 1..m : p + i # 0 => tape[i] = w[p + i]
  BY DEF Follows
<1> HIDE DEF a, m
<1>4. \A i \in 1..m : p + i # 0 /\ (p + i = p + j <=> i = j)
  BY <1>1
<1>5. Follows(a, w, p, p + j)
  <2>1. p + Len(a) = Len(w)
    BY <1>2, <1>3
  <2>2. ASSUME NEW i \in 1..Len(a)
        PROVE  /\ p + i # p + j => a[i] = w[p + i]
               /\ p + i = p + j => a[i] \in Cells /\ a[i] # w[p + i]
    <3>1. i \in 1..m /\ tape[i] = w[p + i]
      BY <1>2, <1>3, <1>4
    <3> QED BY <1>2, <1>4, <3>1
  <2> QED BY <2>1, <2>2 DEF Follows
<1> QED BY <1>5 DEF a

\* Cells that are decoded are the first of both.
LEMMA FollowsDrop ==
  ASSUME NEW tape \in Seq(Nat), NEW w \in Seq(Nat), NEW p \in Nat, NEW d \in Nat,
         Follows(tape, w, p, d), NEW q \in 0..Len(tape), NEW a \in Seq(Nat), Len(a) = Len(tape) - q,
         \A i \in 1..Len(a) : a[i] = tape[q + i]
  PROVE  Follows(a, w, p + q, d)
<1> DEFINE m == Len(tape)
           n == Len(a)
<1>1. m \in Nat /\ n \in Nat /\ q \in Nat /\ q <= m /\ n = m - q
  BY LenProperties
<1>2. /\ p + m = Len(w)
      /\ \A i \in 1..m : p + i # d => tape[i] = w[p + i]
      /\ \A i \in 1..m : p + i = d => tape[i] \in Cells /\ tape[i] # w[p + i]
  BY DEF Follows
<1>3. \A i \in 1..n : a[i] = tape[q + i]
  OBVIOUS
<1> HIDE DEF m, n
<1>4. (p + q) + n = Len(w)
  <2>1. (p + q) + n = p + m
    BY <1>1
  <2> QED BY <1>2, <2>1
<1>5. ASSUME NEW i \in 1..n
      PROVE  /\ (p + q) + i # d => a[i] = w[(p + q) + i]
             /\ (p + q) + i = d => a[i] \in Cells /\ a[i] # w[(p + q) + i]
  <2>1. q + i \in 1..m /\ p + (q + i) = (p + q) + i
    BY <1>1
  <2> QED BY <1>2, <1>3, <2>1
<1> QED BY <1>4, <1>5 DEF Follows, n

-----------------------------------------------------------------------------
(* The frame at the head of the buffer *)

\* What next() takes the checksum of, for a payload of q cells.
Covered(b, q) == SubSeq(b, 1, 4) \o SubSeq(b, 6, 5 + q)

\* The covered cells are those of the buffer without the checksum.
LEMMA CoveredCells ==
  ASSUME NEW b \in Seq(Nat), NEW q \in Nat, 5 + q <= Len(b)
  PROVE  /\ Covered(b, q) \in Seq(Nat) /\ Len(Covered(b, q)) = 4 + q
         /\ \A i \in 1..4 : Covered(b, q)[i] = b[i]
         /\ \A i \in 1..q : Covered(b, q)[4 + i] = b[5 + i]
         /\ SubSeq(b, 6, 5 + q) \in Seq(Nat) /\ Len(SubSeq(b, 6, 5 + q)) = q
         /\ \A i \in 1..q : SubSeq(b, 6, 5 + q)[i] = b[5 + i]
<1> DEFINE s == SubSeq(b, 1, 4)
           u == SubSeq(b, 6, 5 + q)
           m == Len(b)
<1>1. m \in Nat /\ 5 + q <= m /\ \A i \in 1..m : b[i] \in Nat
  BY LenProperties, ElementOfSeq
<1> HIDE DEF m
<1>2. s \in Seq(Nat) /\ Len(s) = 4 /\ \A i \in 1..4 : s[i] = b[i]
  <2>1. (\A i \in 1..4 : b[i] \in Nat) /\ 1 \in Int /\ 4 \in Int
    BY <1>1
  <2>2. /\ s \in Seq(Nat) /\ Len(s) = IF 1 <= 4 THEN 4 - 1 + 1 ELSE 0
        /\ \A i \in 1..(4 - 1 + 1) : s[i] = b[1 + i - 1]
    BY <2>1, SubSeqProperties
  <2> HIDE DEF s
  <2>3. \A i \in 1..4 : i \in 1..(4 - 1 + 1) /\ 1 + i - 1 = i
    OBVIOUS
  <2> QED BY <2>2, <2>3
<1>3. u \in Seq(Nat) /\ Len(u) = q /\ \A i \in 1..q : u[i] = b[5 + i]
  <2>1. (\A i \in 6..(5 + q) : b[i] \in Nat) /\ 6 \in Int /\ 5 + q \in Int
    BY <1>1
  <2>2. /\ u \in Seq(Nat) /\ Len(u) = IF 6 <= 5 + q THEN (5 + q) - 6 + 1 ELSE 0
        /\ \A i \in 1..((5 + q) - 6 + 1) : u[i] = b[6 + i - 1]
    BY <2>1, SubSeqProperties
  <2> HIDE DEF u
  <2>3. \A i \in 1..q : i \in 1..((5 + q) - 6 + 1) /\ 6 + i - 1 = 5 + i
    OBVIOUS
  <2> QED BY <2>2, <2>3
<1> DEFINE c == s \o u
<1>4. Covered(b, q) = c /\ SubSeq(b, 6, 5 + q) = u
  BY DEF Covered
<1> HIDE DEF s, u
<1>5. s \o u \in Seq(Nat) /\ JoinOf(s \o u, s, Len(s), u, Len(u))
  BY <1>2, <1>3, Joined
<1> HIDE DEF c
<1>6. c \in Seq(Nat) /\ JoinOf(c, s, 4, u, q)
  BY <1>2, <1>3, <1>5 DEF c
<1>7. /\ Len(c) = 4 + q
      /\ \A i \in 1..4 : c[i] = b[i]
      /\ \A i \in 1..q : c[4 + i] = b[5 + i]
  BY <1>2, <1>3, <1>6 DEF JoinOf
<1> QED BY <1>3, <1>4, <1>6, <1>7

\* One cell more or less is a different checksum.
LEMMA CrcSingle ==
  ASSUME NEW s \in Seq(Nat), NEW t \in Seq(Nat), Len(s) = Len(t),
         NEW j \in 1..Len(s), s[j] # t[j],
         \A i \in 1..Len(s) : i # j => s[i] = t[i]
  PROVE  crc32c(s) # crc32c(t)
<1>1. Len(s) \in Nat /\ Len(s) <= Len(t) /\ Len(t) <= Len(s) /\ j \in 1..Len(t)
  BY LenProperties
<1>2. s[j] \in Nat /\ t[j] \in Nat
  BY <1>1, ElementOfSeq
<1>3. CASE s[j] < t[j]
  BY <1>1, <1>3, CrcGrows
<1>4. CASE t[j] < s[j]
  <2>1. \A i \in 1..Len(t) : i # j => t[i] = s[i]
    OBVIOUS
  <2> QED BY <1>1, <1>4, <2>1, CrcGrows
<1> QED BY <1>2, <1>3, <1>4

\* The buffered cells are those of the encoded frame as far as they go, except
\* for the one at j.
Matches(b, e, j) ==
  \A i \in 1..Len(b) : i <= Len(e) =>
    /\ i # j => b[i] = e[i]
    /\ i = j => b[i] \in Cells /\ b[i] # e[i]

\* A frame that passes the checks of next() has no damaged cell.
LEMMA DamageDetected ==
  ASSUME NEW b \in Seq(Nat), NEW e, NEW y, NEW p, NEW n \in Nat, NEW c,
         Encodes(e, y, p, n, c), NEW j \in 1..(5 + n), Matches(b, e, j),
         Len(b) >= 5, b[1] = FrameMagic, b[2] = ProtocolVersion, 5 + b[4] <= Len(b)
  PROVE  b[5] # crc32c(Covered(b, b[4]))
<1> DEFINE m == Len(b)
           q == b[4]
           t == Covered(b, q)
<1>1. m \in Nat /\ m >= 5 /\ \A i \in 1..m : b[i] \in Nat
  BY LenProperties, ElementOfSeq
<1>2. q \in Nat /\ 5 + q <= m
  BY <1>1
<1>3. /\ t \in Seq(Nat) /\ Len(t) = 4 + q
      /\ \A i \in 1..4 : t[i] = b[i]
      /\ \A i \in 1..q : t[4 + i] = b[5 + i]
  <2> HIDE DEF q
  <2> QED BY <1>2, CoveredCells DEF m
<1>4. /\ Len(e) = 5 + n
      /\ e[1] = FrameMagic /\ e[2] = ProtocolVersion /\ e[4] = n
      /\ e[5] = crc32c(c) /\ \A i \in 1..n : e[5 + i] = p[i]
      /\ c \in Seq(Nat) /\ Len(c) = 4 + n
      /\ \A i \in 1..4 : c[i] = e[i]
      /\ \A i \in 1..n : c[4 + i] = p[i]
  BY DEF Encodes
<1>5. ASSUME NEW i \in 1..m, i <= 5 + n
      PROVE  (i # j => b[i] = e[i]) /\ (i = j => b[i] \in Cells /\ b[i] # e[i])
  BY <1>4, <1>5 DEF Matches
<1> HIDE DEF m, t
<1>6. j # 1 /\ j # 2
  <2>1. 1 \in 1..m /\ 1 <= 5 + n /\ 2 \in 1..m /\ 2 <= 5 + n
    BY <1>1
  <2> QED BY <1>4, <1>5, <2>1
<1>7. 3 \in 1..m /\ 3 <= 5 + n /\ 4 \in 1..m /\ 4 <= 5 + n /\ 5 \in 1..m /\ 5 <= 5 + n
  BY <1>1
<1>8. q = b[4]
  OBVIOUS
<1> HIDE DEF q
<1>9. CASE j = 5
  <2>1. b[5] \in Cells
    BY <1>5, <1>7, <1>9
  <2>2. Len(t) >= 1
    BY <1>2, <1>3
  <2>3. crc32c(t) \notin Cells
    BY <1>3, <2>2, CrcLarge
  <2> QED BY <2>1, <2>3 DEF t, q
<1>10. CASE j # 5
  <2>1. b[5] = crc32c(c)
    BY <1>4, <1>5, <1>7, <1>10
  <2>2. ASSUME NEW i \in 1..4, i # j PROVE t[i] = c[i]
    <3>1. i \in 1..m /\ i <= 5 + n
      BY <1>1
    <3>2. b[i] = e[i]
      BY <1>5, <2>2, <3>1
    <3> QED BY <1>3, <1>4, <3>2
  <2>3. ASSUME NEW i \in 1..q, i <= n, 5 + i # j PROVE t[4 + i] = c[4 + i]
    <3>1. 5 + i \in 1..m /\ 5 + i <= 5 + n /\ i \in 1..n
      BY <1>1, <1>2, <2>3
    <3>2. b[5 + i] = e[5 + i]
      BY <1>5, <2>3, <3>1
    <3>3. t[4 + i] = b[5 + i] /\ e[5 + i] = p[i] /\ c[4 + i] = p[i]
      BY <1>3, <1>4, <3>1
    <3> QED BY <3>2, <3>3
  <2>4. CASE j = 4
    <3>1. t[4] = q /\ c[4] = n /\ 4 \in 1..4
      BY <1>3, <1>4, <1>8
    <3>2. q # n
      BY <1>4, <1>5, <1>7, <1>8, <2>4
    <3>3. ASSUME NEW i \in 1..(4 + q), i <= 4 + n, i # 4 PROVE t[i] = c[i]
      <4>1. CASE i <= 4
        <5>1. i \in 1..4 /\ i # j
          BY <2>4, <3>3, <4>1
        <5> QED BY <2>2, <5>1
      <4>2. CASE i > 4
        <5>1. i - 4 \in 1..q /\ i - 4 <= n /\ 5 + (i - 4) # j /\ 4 + (i - 4) = i
          BY <1>2, <2>4, <3>3, <4>2
        <5>2. t[4 + (i - 4)] = c[4 + (i - 4)]
          BY <2>3, <5>1
        <5> QED BY <5>1, <5>2
      <4> QED BY <4>1, <4>2
    <3>4. CASE q < n
      <4>1. /\ Len(t) <= Len(c) /\ 4 \in 1..Len(t) /\ t[4] < c[4]
        BY <1>2, <1>3, <1>4, <3>1, <3>4
      <4>2. \A i \in 1..Len(t) : i # 4 => t[i] = c[i]
        BY <1>2, <1>3, <3>3, <3>4
      <4>3. crc32c(t) # crc32c(c)
        BY <1>3, <1>4, <4>1, <4>2, CrcGrows
      <4> QED BY <2>1, <4>3 DEF t, q
    <3>5. CASE n < q
      <4>1. /\ Len(c) <= Len(t) /\ 4 \in 1..Len(c) /\ c[4] < t[4]
        BY <1>2, <1>3, <1>4, <3>1, <3>5
      <4>2. ASSUME NEW i \in 1..Len(c), i # 4 PROVE c[i] = t[i]
        <5>1. i \in 1..(4 + q) /\ i <= 4 + n
          BY <1>2, <1>4, <3>5
        <5> QED BY <3>3, <4>2, <5>1
      <4>3. crc32c(c) # crc32c(t)
        BY <1>3, <1>4, <4>1, <4>2, CrcGrows
      <4> QED BY <2>1, <4>3 DEF t, q
    <3> QED BY <1>2, <3>2, <3>4, <3>5
  <2>5. CASE j # 4
    <3>1. q = n
      BY <1>4, <1>5, <1>7, <1>8, <2>5
    <3> DEFINE k == IF j = 3 THEN 3 ELSE j - 1
    <3>2. k \in 1..(4 + n)
      BY <1>6, <1>10, <2>5
    <3>3. j \in 1..m /\ j <= 5 + n
      BY <1>1, <1>2, <3>1
    <3>4. b[j] # e[j]
      BY <1>5, <3>3
    <3>5. t[k] = b[j] /\ c[k] = e[j]
      <4>1. CASE j = 3
        BY <1>3, <1>4, <4>1
      <4>2. CASE j # 3
        <5>1. j - 5 \in 1..q /\ j - 5 \in 1..n /\ 5 + (j - 5) = j /\ 4 + (j - 5) = k
          BY <1>2, <1>6, <1>10, <2>5, <3>1, <4>2
        <5> HIDE DEF k
        <5>2. t[4 + (j - 5)] = b[5 + (j - 5)] /\ c[4 + (j - 5)] = e[5 + (j - 5)]
          BY <1>3, <1>4, <5>1
        <5> QED BY <5>1, <5>2
      <4> QED BY <4>1, <4>2
    <3>6. ASSUME NEW i \in 1..(4 + n), i # k PROVE t[i] = c[i]
      <4>1. CASE i <= 4
        <5>1. i \in 1..4 /\ i # j
          BY <1>6, <1>10, <2>5, <3>6, <4>1
        <5> QED BY <2>2, <5>1
      <4>2. CASE i > 4
        <5>1. i - 4 \in 1..n /\ 5 + (i - 4) # j /\ 4 + (i - 4) = i
          BY <3>6, <4>2
        <5>2. i - 4 \in 1..q /\ i - 4 <= n
          BY <3>1, <5>1
        <5>3. t[4 + (i - 4)] = c[4 + (i - 4)]
          BY <2>3, <5>1, <5>2
        <5> QED BY <5>1, <5>3
      <4> QED BY <4>1, <4>2
    <3> HIDE DEF k
    <3>7. Len(t) = Len(c) /\ k \in 1..Len(t) /\ t[k] # c[k]
      BY <1>3, <1>4, <3>1, <3>2, <3>4, <3>5
    <3>8. \A i \in 1..Len(t) : i # k => t[i] = c[i]
      BY <1>3, <3>1, <3>6
    <3>9. crc32c(t) # crc32c(c)
      BY <1>3, <1>4, <3>7, <3>8, CrcSingle
    <3> QED BY <2>1, <3>9 DEF t, q
  <2> QED BY <2>4, <2>5
<1> QED BY <1>9, <1>10

\* The buffer begins with a sound header and, if it is long enough, with a sound
\* frame of type y and payload p.
Recognised(b, y, p, n) ==
  /\ b[1] = FrameMagic /\ b[2] = ProtocolVersion /\ b[3] = y /\ b[4] = n
  /\ 5 + n <= Len(b) => b[5] = crc32c(Covered(b, n)) /\ SubSeq(b, 6, 5 + n) = p

\* Undamaged cells pass the checks of next(), and are the frame that was encoded.
LEMMA FrameRecognised ==
  ASSUME NEW b \in Seq(Nat), NEW e, NEW y, NEW p \in Seq(Nat), NEW n \in Nat, NEW c, Len(p) = n,
         Encodes(e, y, p, n, c), NEW j \in Nat, j \notin 1..(5 + n), Matches(b, e, j), Len(b) >= 5
  PROVE  Recognised(b, y, p, n)
<1> DEFINE m == Len(b)
<1>1. m \in Nat /\ m >= 5
  BY LenProperties
<1>2. /\ Len(e) = 5 + n
      /\ e[1] = FrameMagic /\ e[2] = ProtocolVersion /\ e[3] = y /\ e[4] = n
      /\ e[5] = crc32c(c) /\ \A i \in 1..n : e[5 + i] = p[i]
      /\ c \in Seq(Nat) /\ Len(c) = 4 + n
      /\ \A i \in 1..4 : c[i] = e[i]
      /\ \A i \in 1..n : c[4 + i] = p[i]
  BY DEF Encodes
<1>3. ASSUME NEW i \in 1..m, i <= 5 + n PROVE b[i] = e[i]
  BY <1>2, <1>3 DEF Matches
<1>4. 5 + n <= m => 5 + n <= Len(b)
  OBVIOUS
<1> HIDE DEF m
<1>5. /\ 1 \in 1..m /\ 1 <= 5 + n /\ 2 \in 1..m /\ 2 <= 5 + n /\ 3 \in 1..m /\ 3 <= 5 + n
      /\ 4 \in 1..m /\ 4 <= 5 + n /\ 5 \in 1..m /\ 5 <= 5 + n
  BY <1>1
<1>6. b[1] = FrameMagic /\ b[2] = ProtocolVersion /\ b[3] = y /\ b[4] = n /\ b[5] = crc32c(c)
  BY <1>2, <1>3, <1>5
<1>7. ASSUME 5 + n <= m PROVE b[5] = crc32c(Covered(b, n)) /\ SubSeq(b, 6, 5 + n) = p
  <2> DEFINE t == Covered(b, n)
             u == SubSeq(b, 6, 5 + n)
  <2>1. /\ t \in Seq(Nat) /\ Len(t) = 4 + n
        /\ \A i \in 1..4 : t[i] = b[i]
        /\ \A i \in 1..n : t[4 + i] = b[5 + i]
        /\ u \in Seq(Nat) /\ Len(u) = n
        /\ \A i \in 1..n : u[i] = b[5 + i]
    BY <1>4, <1>7, CoveredCells
  <2> HIDE DEF t, u
  <2>2. ASSUME NEW i \in 1..n PROVE b[5 + i] = p[i]
    <3>1. 5 + i \in 1..m /\ 5 + i <= 5 + n
      BY <1>1, <1>7
    <3> QED BY <1>2, <1>3, <3>1
  <2>3. ASSUME NEW i \in 1..(4 + n) PROVE t[i] = c[i]
    <3>1. CASE i <= 4
      <4>1. i \in 1..4 /\ i \in 1..m /\ i <= 5 + n
        BY <1>1, <3>1
      <4> QED BY <1>2, <1>3, <2>1, <4>1
    <3>2. CASE i > 4
      <4>1. i - 4 \in 1..n /\ 4 + (i - 4) = i
        BY <3>2
      <4>2. t[4 + (i - 4)] = c[4 + (i - 4)]
        BY <1>2, <2>1, <2>2, <4>1
      <4> QED BY <4>1, <4>2
    <3> QED BY <3>1, <3>2
  <2>4. t = c
    <3>1. Len(t) = Len(c) /\ \A i \in 1..Len(t) : t[i] = c[i]
      BY <1>2, <2>1, <2>3
    <3> QED BY <1>2, <2>1, <3>1, SeqEqual
  <2>5. u = p
    <3>1. Len(u) = Len(p) /\ \A i \in 1..Len(u) : u[i] = p[i]
      BY <2>1, <2>2
    <3> QED BY <2>1, <3>1, SeqEqual
  <2> QED BY <1>6, <2>4, <2>5 DEF t, u
<1> QED BY <1>6, <1>7 DEF m, Recognised

-----------------------------------------------------------------------------
(* The inductive invariant *)

\* Where the decoder stands in the stream.
Position == Len(Stream(delivered))

\* The undecoded cells: buffered, then in flight.
Tape == buffer \o wire

StateSound ==
  /\ sent \in Seq(Frames) /\ delivered \in Seq(Frames)
  /\ wire \in Seq(Nat) /\ buffer \in Seq(Nat)
  /\ failed \in BOOLEAN /\ decoding \in BOOLEAN /\ held \in BOOLEAN /\ damaged \in Nat
  /\ Len(buffer) <= Bound /\ Len(sent) <= MaxSent

\* The frames delivered are the first that were sent; the cells in flight are
\* ahead of the decoder, and so is the damage.
Located ==
  /\ Len(delivered) <= Len(sent) /\ \A i \in 1..Len(delivered) : delivered[i] = sent[i]
  /\ Position + Len(wire) <= Len(Stream(sent))
  /\ damaged # 0 => Position < damaged
  /\ damaged <= Len(Stream(sent))

\* Until the decoder fails, what is buffered and in flight is what remains of the
\* stream, except for the damaged cell.
Faithful == ~failed => Follows(Tape, Stream(sent), Position, damaged)

IInv == StateSound /\ Located /\ Faithful /\ LegalAccepted

\* The frame that the decoder is in, and the place of the damage counted from its
\* first cell.
CurrentFrame == sent[Len(delivered) + 1]
Offset == IF damaged = 0 THEN 0 ELSE damaged - Position

\* The cells of the tape.
LEMMA TapeCells ==
  ASSUME StateSound
  PROVE  Tape \in Seq(Nat) /\ JoinOf(Tape, buffer, Len(buffer), wire, Len(wire))
BY Joined DEF StateSound, Tape

\* The places of the stream.
LEMMA Places ==
  ASSUME StateSound
  PROVE  /\ Position \in Nat /\ Stream(sent) \in Seq(Nat) /\ Len(Stream(sent)) \in Nat
         /\ Len(buffer) \in Nat /\ Len(wire) \in Nat /\ Len(sent) \in Nat /\ Len(delivered) \in Nat
         /\ Bound \in Nat /\ HeaderCells = 5 /\ Bound = MaxPayload + 5 /\ MaxPayload \in Nat
         /\ Longest \in Nat
<1>1. sent \in Seq(Frames) /\ delivered \in Seq(Frames) /\ wire \in Seq(Nat) /\ buffer \in Seq(Nat)
  BY DEF StateSound
<1>2. Position \in Nat /\ Stream(sent) \in Seq(Nat) /\ Len(Stream(sent)) \in Nat
  BY <1>1, StreamBounded DEF Position
<1>3. Len(buffer) \in Nat /\ Len(wire) \in Nat /\ Len(sent) \in Nat /\ Len(delivered) \in Nat
  BY <1>1, LenProperties
<1>4. Bound \in Nat /\ HeaderCells = 5 /\ Bound = MaxPayload + 5 /\ MaxPayload \in Nat /\ Longest \in Nat
  BY FrameAssumption DEF Bound, HeaderCells
<1> QED BY <1>2, <1>3, <1>4

\* While anything is buffered, a frame that was sent is being decoded, and the
\* buffer holds its cells.
LEMMA AtHead ==
  ASSUME IInv, ~failed, Len(buffer) >= 1
  PROVE  /\ Len(delivered) < Len(sent) /\ CurrentFrame \in Frames /\ Offset \in Nat
         /\ Ahead(Stream(sent), Position, encode_frame(CurrentFrame))
         /\ Matches(buffer, encode_frame(CurrentFrame), Offset)
<1>1. StateSound /\ Located /\ Follows(Tape, Stream(sent), Position, damaged)
  BY DEF IInv, Faithful
<1> DEFINE w == Stream(sent)
           x == Position
           b == Len(buffer)
           tp == Tape
<1>2. x \in Nat /\ w \in Seq(Nat) /\ Len(w) \in Nat /\ b \in Nat /\ Len(wire) \in Nat
      /\ Len(sent) \in Nat /\ Len(delivered) \in Nat
  BY <1>1, Places
<1>3. /\ tp \in Seq(Nat) /\ Len(tp) = b + Len(wire)
      /\ \A i \in 1..b : tp[i] = buffer[i]
  <2> HIDE DEF tp
  <2>1. tp \in Seq(Nat) /\ JoinOf(tp, buffer, Len(buffer), wire, Len(wire))
    BY <1>1, TapeCells DEF tp
  <2> QED BY <2>1 DEF JoinOf
<1>4. /\ x + Len(tp) = Len(w)
      /\ \A i \in 1..Len(tp) : x + i # damaged => tp[i] = w[x + i]
      /\ \A i \in 1..Len(tp) : x + i = damaged => tp[i] \in Cells /\ tp[i] # w[x + i]
  <2> HIDE DEF tp, w, x
  <2> QED BY <1>1 DEF Follows, tp, w, x
<1>5. /\ sent \in Seq(Frames) /\ delivered \in Seq(Frames) /\ damaged \in Nat
      /\ Len(delivered) <= Len(sent) /\ (\A i \in 1..Len(delivered) : delivered[i] = sent[i])
      /\ (damaged # 0 => x < damaged)
  BY <1>1 DEF StateSound, Located
<1>6. Len(delivered) < Len(sent)
  <2> SUFFICES ASSUME Len(delivered) = Len(sent) PROVE FALSE
    BY <1>2, <1>5
  <2>1. delivered = sent
    BY <1>5, SeqEqual
  <2>2. x = Len(w)
    BY <2>1 DEF Position
  <2> HIDE DEF x, w, tp
  <2> QED BY <1>2, <1>3, <1>4, <2>2
<1>7. CurrentFrame \in Frames
  <2>1. Len(delivered) + 1 \in 1..Len(sent)
    BY <1>2, <1>6
  <2> QED BY <1>5, <2>1, ElementOfSeq DEF CurrentFrame
<1>8. Ahead(Stream(sent), Position, encode_frame(CurrentFrame))
  BY <1>5, <1>6, StreamNext DEF CurrentFrame, Position
<1> DEFINE e == encode_frame(CurrentFrame)
<1>9. \A i \in 1..Len(e) : w[x + i] = e[i]
  BY <1>8 DEF Ahead
<1> HIDE DEF x, w, tp, e
<1>10. Len(e) \in Nat
  <2>1. e \in Seq(Nat)
    BY <1>7, EncodedCells DEF Encodes, e
  <2> QED BY <2>1, LenProperties
<1>11. Offset \in Nat /\ (damaged = 0 => Offset = 0) /\ (damaged # 0 => Offset = damaged - x)
  BY <1>2, <1>5 DEF Offset, x
<1>12. ASSUME NEW i \in 1..b, i <= Len(e)
       PROVE  /\ i # Offset => buffer[i] = e[i]
              /\ i = Offset => buffer[i] \in Cells /\ buffer[i] # e[i]
  <2>1. i \in 1..Len(tp) /\ i \in 1..Len(e) /\ tp[i] = buffer[i]
    <3>1. i \in 1..Len(e)
      BY <1>10, <1>12
    <3>2. i \in 1..Len(tp)
      BY <1>2, <1>3
    <3> QED BY <1>3, <3>1, <3>2
  <2>2. w[x + i] = e[i]
    BY <1>9, <2>1
  <2>3. x + i = damaged <=> i = Offset
    BY <1>2, <1>5, <1>11
  <2> QED BY <1>4, <2>1, <2>2, <2>3
<1>13. Matches(buffer, e, Offset)
  BY <1>12 DEF Matches
<1> QED BY <1>6, <1>7, <1>8, <1>11, <1>13 DEF e

\* The frame at the head of an undamaged stream is accepted.
LEMMA UndamagedAccepted ==
  ASSUME IInv, ~failed, damaged = 0, HasHeader
  PROVE  ~BadHeader /\ (HasFrame => ~BadChecksum) /\ buffer[4] \in Nat /\ buffer[4] <= Longest
<1>1. StateSound /\ HeaderCells = 5 /\ Len(buffer) \in Nat /\ buffer \in Seq(Nat)
  BY Places DEF IInv, StateSound
<1>2. Len(buffer) >= 5 /\ Len(buffer) >= 1
  BY <1>1 DEF HasHeader
<1> DEFINE f == CurrentFrame
           e == encode_frame(f)
           n == Len(f.payload)
<1>3. f \in Frames /\ Matches(buffer, e, Offset) /\ Offset = 0
  BY <1>2, AtHead DEF Offset
<1> HIDE DEF f
<1> DEFINE p == f.payload
           c == Content(f)
           y == f.type
<1>4. Encodes(e, y, p, n, c) /\ p \in Seq(Nat) /\ Len(p) = n /\ n \in Nat
      /\ n <= Longest /\ n <= MaxPayload
  BY <1>3, EncodedCells, FrameType
<1> HIDE DEF e, p, n, c, y
<1>5. Offset \in Nat /\ Offset \notin 1..(5 + n)
  BY <1>3, <1>4
<1>6. /\ buffer[1] = FrameMagic /\ buffer[2] = ProtocolVersion /\ buffer[4] = n
      /\ 5 + n <= Len(buffer) => buffer[5] = crc32c(Covered(buffer, n))
  <2>1. Recognised(buffer, y, p, n)
    BY <1>1, <1>2, <1>3, <1>4, <1>5, FrameRecognised
  <2> QED BY <2>1 DEF Recognised
<1>7. ~BadHeader
  <2>1. ~(buffer[4] > MaxPayload)
    BY <1>4, <1>6, FrameAssumption
  <2> QED BY <1>6, <2>1 DEF BadHeader
<1>8. ASSUME HasFrame PROVE ~BadChecksum
  <2>1. 5 + n <= Len(buffer)
    BY <1>1, <1>4, <1>6, <1>8 DEF HasFrame
  <2>2. Covered(buffer, n) = SubSeq(buffer, 1, 4) \o SubSeq(buffer, 6, HeaderCells + buffer[4])
    BY <1>1, <1>6 DEF Covered
  <2>3. buffer[5] = Checksum(SubSeq(buffer, 1, 4), SubSeq(buffer, 6, HeaderCells + buffer[4]))
    BY <1>6, <2>1, <2>2 DEF Checksum
  <2> QED BY <2>3 DEF BadChecksum
<1> QED BY <1>4, <1>6, <1>7, <1>8

-----------------------------------------------------------------------------
(* The actions *)

\* Initially nothing is sent.
LEMMA Initial ==
  ASSUME Init
  PROVE  IInv
<1>1. sent = << >> /\ wire = << >> /\ buffer = << >> /\ delivered = << >> /\ damaged = 0
      /\ failed = FALSE /\ decoding = FALSE /\ held = FALSE
  BY DEF Init
<1>2. << >> \in Seq(Frames) /\ << >> \in Seq(Nat) /\ Len(<< >>) = 0 /\ << >> \o << >> = << >>
  OBVIOUS
<1>3. Stream(<< >>) = << >>
  BY StreamEmpty
<1>4. Bound \in Nat /\ MaxSent \in Nat
  BY FrameAssumption DEF Bound, HeaderCells
<1>5. StateSound
  <2>1. Len(buffer) <= Bound /\ Len(sent) <= MaxSent /\ damaged \in Nat
    BY <1>1, <1>2, <1>4
  <2>2. failed \in BOOLEAN /\ decoding \in BOOLEAN /\ held \in BOOLEAN
    BY <1>1
  <2>3. sent \in Seq(Frames) /\ delivered \in Seq(Frames) /\ wire \in Seq(Nat) /\ buffer \in Seq(Nat)
    BY <1>1, <1>2
  <2> QED BY <2>1, <2>2, <2>3 DEF StateSound
<1>6. Located
  BY <1>1, <1>2, <1>3 DEF Located, Position
<1>7. Faithful
  <2>1. Follows(<< >>, << >>, 0, 0)
    BY <1>2 DEF Follows
  <2> QED BY <1>1, <1>2, <1>3, <2>1 DEF Faithful, Tape, Position
<1>8. LegalAccepted
  BY <1>1 DEF LegalAccepted
<1> QED BY <1>5, <1>6, <1>7, <1>8 DEF IInv

\* The invariant speaks of the variables only.
LEMMA Unmoved ==
  ASSUME IInv, UNCHANGED vars
  PROVE  IInv'
BY DEF IInv, vars, StateSound, Located, Faithful, LegalAccepted, Position, Tape

\* Three runs of cells, joined in either order.
LEMMA Regrouped ==
  ASSUME NEW s \in Seq(Nat), NEW t \in Seq(Nat), NEW u \in Seq(Nat)
  PROVE  (s \o t) \o u = s \o (t \o u)
BY ConcatAssociative

\* Sending adds the same cells to the stream and to the tape.
LEMMA SendKeeps ==
  ASSUME IInv, NEW f \in Frames, Send(f)
  PROVE  IInv'
<1> DEFINE e == encode_frame(f)
           w == Stream(sent)
<1>1. StateSound /\ Located
  BY DEF IInv
<1>2. /\ sent' = Append(sent, f) /\ wire' = wire \o encode_frame(f) /\ Len(sent) < MaxSent
      /\ buffer' = buffer /\ failed' = failed /\ delivered' = delivered
      /\ decoding' = decoding /\ damaged' = damaged /\ held' = held
  BY DEF Send
<1>3. /\ sent \in Seq(Frames) /\ delivered \in Seq(Frames)
      /\ wire \in Seq(Nat) /\ buffer \in Seq(Nat)
      /\ failed \in BOOLEAN /\ decoding \in BOOLEAN /\ held \in BOOLEAN /\ damaged \in Nat
      /\ Len(buffer) <= Bound
  BY <1>1 DEF StateSound
<1>4. e \in Seq(Nat) /\ Len(e) \in Nat
  <2>1. e \in Seq(Nat)
    BY EncodedCells DEF Encodes
  <2> QED BY <2>1, LenProperties
<1>5. Position \in Nat /\ w \in Seq(Nat) /\ Len(w) \in Nat /\ Len(wire) \in Nat /\ Len(sent) \in Nat
      /\ Len(delivered) \in Nat
  BY <1>1, Places
<1>6. sent' \in Seq(Frames) /\ Len(sent') = Len(sent) + 1 /\ \A i \in 1..Len(sent) : sent'[i] = sent[i]
  BY <1>2, <1>3, AppendProperties
<1>7. Stream(sent') = w \o e
  BY <1>2, <1>3, StreamAppend
<1>8. wire' = wire \o e
  BY <1>2
<1> HIDE DEF e, w
<1>9. /\ wire \o e \in Seq(Nat) /\ Len(wire \o e) = Len(wire) + Len(e)
      /\ w \o e \in Seq(Nat) /\ Len(w \o e) = Len(w) + Len(e)
  BY <1>3, <1>4, <1>5, ConcatProperties
<1>10. StateSound'
  <2>1. Len(sent') <= MaxSent
    BY <1>2, <1>5, <1>6, FrameAssumption
  <2>2. Len(buffer') <= Bound
    BY <1>2, <1>3
  <2>3. wire' \in Seq(Nat)
    BY <1>8, <1>9
  <2> QED BY <1>2, <1>3, <1>6, <2>1, <2>2, <2>3 DEF StateSound
<1>11. Position' = Position
  BY <1>2 DEF Position
<1>12. /\ Len(delivered) <= Len(sent) /\ (\A i \in 1..Len(delivered) : delivered[i] = sent[i])
       /\ Position + Len(wire) <= Len(w) /\ (damaged # 0 => Position < damaged) /\ damaged <= Len(w)
  BY <1>1 DEF Located, w
<1>13. Located'
  <2>1. Len(delivered') <= Len(sent')
    BY <1>2, <1>5, <1>6, <1>12
  <2>2. ASSUME NEW i \in 1..Len(delivered') PROVE delivered'[i] = sent'[i]
    <3>1. i \in 1..Len(delivered) /\ i \in 1..Len(sent)
      BY <1>2, <1>5, <1>12
    <3> QED BY <1>2, <1>6, <1>12, <3>1
  <2>3. Position' + Len(wire') <= Len(Stream(sent'))
    BY <1>4, <1>5, <1>7, <1>8, <1>9, <1>11, <1>12
  <2>4. damaged' # 0 => Position' < damaged'
    BY <1>2, <1>11, <1>12
  <2>5. damaged' <= Len(Stream(sent'))
    BY <1>2, <1>3, <1>4, <1>5, <1>7, <1>9, <1>12
  <2> QED BY <2>1, <2>2, <2>3, <2>4, <2>5 DEF Located
<1>14. Faithful'
  <2> SUFFICES ASSUME ~failed' PROVE Follows(Tape', Stream(sent'), Position', damaged')
    BY DEF Faithful
  <2>1. Follows(Tape, w, Position, damaged)
    BY <1>2 DEF IInv, Faithful, w
  <2>2. Tape' = Tape \o e
    <3>1. buffer \in Seq(Nat) /\ wire \in Seq(Nat) /\ e \in Seq(Nat)
      BY <1>3, <1>4
    <3>2. (buffer \o wire) \o e = buffer \o (wire \o e)
      BY <3>1, Regrouped
    <3> QED BY <1>2, <1>8, <3>2 DEF Tape
  <2>3. Tape \in Seq(Nat)
    BY <1>1, TapeCells
  <2>4. Follows(Tape \o e, w \o e, Position, damaged)
    BY <1>3, <1>4, <1>5, <1>12, <2>1, <2>3, FollowsSend
  <2> QED BY <1>2, <1>7, <1>11, <2>2, <2>4
<1>15. LegalAccepted'
  BY <1>2 DEF IInv, LegalAccepted
<1> QED BY <1>10, <1>13, <1>14, <1>15 DEF IInv

\* The place i cells into the last l of v, when x + b cells come before these.
LEMMA Shift ==
  ASSUME NEW x \in Nat, NEW b \in Nat, NEW l \in Nat, NEW v \in Nat, NEW i \in Nat,
         x + (b + l) = v
  PROVE  v - l + i = x + (b + i)
OBVIOUS

\* Damage is ahead of the decoder.
LEMMA DamageKeeps ==
  ASSUME IInv, NEW i, NEW cell \in Cells, Damage(i, cell)
  PROVE  IInv'
<1> DEFINE w == Stream(sent)
           d == Len(w) - Len(wire) + i
<1>1. StateSound /\ Located
  BY DEF IInv
<1>2. /\ damaged = 0 /\ i \in DOMAIN wire /\ wire[i] # cell
      /\ wire' = [wire EXCEPT ![i] = cell] /\ damaged' = d
      /\ sent' = sent /\ buffer' = buffer /\ failed' = failed /\ delivered' = delivered
      /\ decoding' = decoding /\ held' = held
  BY DEF Damage
<1>3. /\ sent \in Seq(Frames) /\ delivered \in Seq(Frames)
      /\ wire \in Seq(Nat) /\ buffer \in Seq(Nat)
      /\ failed \in BOOLEAN /\ decoding \in BOOLEAN /\ held \in BOOLEAN
      /\ Len(buffer) <= Bound /\ Len(sent) <= MaxSent
  BY <1>1 DEF StateSound
<1>4. Position \in Nat /\ w \in Seq(Nat) /\ Len(w) \in Nat /\ Len(wire) \in Nat /\ Len(buffer) \in Nat
  BY <1>1, Places
<1>5. Position + Len(wire) <= Len(w)
  BY <1>1 DEF Located
<1> HIDE DEF w
<1>6. i \in 1..Len(wire) /\ cell \in Nat
  <2>1. DOMAIN wire = 1..Len(wire)
    BY <1>3, LenProperties
  <2>2. cell \in Nat
    BY DEF Cells
  <2> QED BY <1>2, <2>1, <2>2
<1>7. d \in Nat /\ Position < d /\ d <= Len(w) /\ d # 0
  BY <1>4, <1>5, <1>6
<1>8. /\ wire' \in Seq(Nat) /\ Len(wire') = Len(wire)
      /\ \A j \in 1..Len(wire) : wire'[j] = IF j = i THEN cell ELSE wire[j]
  BY <1>2, <1>3, <1>6, ExceptSeq
<1> HIDE DEF d
<1>9. StateSound'
  BY <1>2, <1>3, <1>7, <1>8 DEF StateSound
<1>10. Position' = Position /\ Stream(sent') = w
  BY <1>2 DEF Position, w
<1>11. Located'
  <2>1. /\ Len(delivered) <= Len(sent) /\ \A k \in 1..Len(delivered) : delivered[k] = sent[k]
    BY <1>1 DEF Located
  <2> QED BY <1>2, <1>5, <1>7, <1>8, <1>10, <2>1 DEF Located
<1>12. Faithful'
  <2> SUFFICES ASSUME ~failed' PROVE Follows(Tape', Stream(sent'), Position', damaged')
    BY DEF Faithful
  <2> DEFINE tp == Tape
             b == Len(buffer)
             j == b + i
             u == [tp EXCEPT ![j] = cell]
  <2>1. Follows(tp, w, Position, 0)
    BY <1>2 DEF IInv, Faithful, w
  <2>2. tp \in Seq(Nat) /\ JoinOf(tp, buffer, b, wire, Len(wire))
    BY <1>1, TapeCells
  <2>3. Tape' \in Seq(Nat) /\ JoinOf(Tape', buffer, b, wire', Len(wire))
    <3>1. Tape' \in Seq(Nat) /\ JoinOf(Tape', buffer', Len(buffer'), wire', Len(wire'))
      BY <1>2, <1>3, <1>8, Joined DEF Tape
    <3> QED BY <1>2, <1>8, <3>1
  <2> HIDE DEF tp, b
  <2>4. /\ Len(tp) = b + Len(wire) /\ b \in Nat
        /\ \A k \in 1..b : tp[k] = buffer[k]
        /\ \A k \in 1..Len(wire) : tp[b + k] = wire[k]
    BY <2>2 DEF JoinOf
  <2>5. /\ Len(Tape') = b + Len(wire)
        /\ \A k \in 1..b : Tape'[k] = buffer[k]
        /\ \A k \in 1..Len(wire) : Tape'[b + k] = wire'[k]
    BY <2>3 DEF JoinOf
  <2>6. j \in 1..Len(tp) /\ tp[j] = wire[i]
    BY <1>4, <1>6, <2>4
  <2>7. u \in Seq(Nat) /\ Len(u) = Len(tp) /\ \A k \in 1..Len(tp) : u[k] = IF k = j THEN cell ELSE tp[k]
    <3> HIDE DEF j
    <3> QED BY <1>6, <2>2, <2>6, ExceptSeq
  <2>8. Follows(u, w, Position, Position + j)
    <3>1. tp[j] # cell
      BY <1>2, <2>6
    <3> HIDE DEF j
    <3> QED BY <1>4, <2>1, <2>2, <2>6, <3>1, FollowsDamage
  <2> HIDE DEF u
  <2>9. Tape' = u
    <3>1. Len(Tape') = Len(u)
      BY <2>4, <2>5, <2>7
    <3>2. ASSUME NEW k \in 1..Len(Tape') PROVE Tape'[k] = u[k]
      <4>1. k \in 1..Len(tp)
        BY <2>4, <2>5
      <4>2. CASE k \in 1..b
        <5>1. k # j
          BY <1>4, <1>6, <2>4, <4>2
        <5> HIDE DEF j
        <5> QED BY <2>4, <2>5, <2>7, <4>1, <4>2, <5>1
      <4>3. CASE k \notin 1..b
        <5>1. k - b \in 1..Len(wire) /\ b + (k - b) = k /\ (k = j <=> k - b = i)
          BY <1>4, <1>6, <2>4, <2>5, <4>3
        <5> HIDE DEF j
        <5>2. tp[b + (k - b)] = wire[k - b] /\ Tape'[b + (k - b)] = wire'[k - b]
          BY <2>4, <2>5, <5>1
        <5>3. wire'[k - b] = IF k = j THEN cell ELSE wire[k - b]
          BY <1>8, <5>1
        <5> QED BY <2>7, <4>1, <5>1, <5>2, <5>3
      <4> QED BY <4>2, <4>3
    <3> QED BY <2>3, <2>7, <3>1, <3>2, SeqEqual
  <2>10. d = Position + j
    <3>1. Position + Len(tp) = Len(w)
      BY <2>1 DEF Follows
    <3>2. Position + (b + Len(wire)) = Len(w)
      BY <2>4, <3>1
    <3>3. Len(w) - Len(wire) + i = Position + (b + i)
      <4>1. i \in Nat
        BY <1>6
      <4> QED BY <1>4, <2>4, <3>2, <4>1, Shift
    <3> QED BY <3>3 DEF d
  <2> HIDE DEF j
  <2> QED BY <1>2, <1>10, <2>8, <2>9, <2>10
<1>13. LegalAccepted'
  BY <1>2, <1>7 DEF LegalAccepted
<1> QED BY <1>9, <1>11, <1>12, <1>13 DEF IInv

\* The first n cells and the others.
LEMMA Divided ==
  ASSUME NEW s \in Seq(Nat), NEW n \in Nat, n <= Len(s)
  PROVE  LET u == SubSeq(s, 1, n)
             v == SubSeq(s, n + 1, Len(s))
         IN /\ u \in Seq(Nat) /\ Len(u) = n
            /\ v \in Seq(Nat) /\ Len(v) = Len(s) - n
            /\ u \o v = s
            /\ \A i \in 1..Len(v) : v[i] = s[n + i]
<1> DEFINE u == SubSeq(s, 1, n)
           m == Len(s)
           v == SubSeq(s, n + 1, m)
<1>1. m \in Nat /\ n <= m /\ \A i \in 1..m : s[i] \in Nat
  BY LenProperties, ElementOfSeq
<1>2. u \o v = s
  <2>1. 1 \in 1..(Len(s) + 1) /\ n \in (1 - 1)..Len(s) /\ Len(s) \in n..Len(s)
    BY <1>1
  <2>2. SubSeq(s, 1, n) \o SubSeq(s, n + 1, Len(s)) = SubSeq(s, 1, Len(s))
    BY <2>1, ConcatAdjacentSubSeq
  <2>3. SubSeq(s, 1, Len(s)) = s
    BY SubSeqFull
  <2> QED BY <2>2, <2>3
<1> HIDE DEF m
<1>3. u \in Seq(Nat) /\ Len(u) = n
  <2>1. (\A i \in 1..n : s[i] \in Nat) /\ 1 \in Int /\ n \in Int
    BY <1>1
  <2>2. u \in Seq(Nat) /\ Len(u) = IF 1 <= n THEN n - 1 + 1 ELSE 0
    BY <2>1, SubSeqProperties
  <2> HIDE DEF u
  <2> QED BY <2>2
<1>4. v \in Seq(Nat) /\ Len(v) = m - n /\ \A i \in 1..Len(v) : v[i] = s[n + i]
  <2>1. (\A i \in (n + 1)..m : s[i] \in Nat) /\ n + 1 \in Int /\ m \in Int
    BY <1>1
  <2>2. /\ v \in Seq(Nat) /\ Len(v) = IF n + 1 <= m THEN m - (n + 1) + 1 ELSE 0
        /\ \A i \in 1..(m - (n + 1) + 1) : v[i] = s[n + 1 + i - 1]
    BY <2>1, SubSeqProperties
  <2> HIDE DEF v
  <2>3. Len(v) = m - n
    BY <1>1, <2>2
  <2>4. \A i \in 1..(m - n) : i \in 1..(m - (n + 1) + 1) /\ n + 1 + i - 1 = n + i
    BY <1>1
  <2> QED BY <2>2, <2>3, <2>4
<1> QED BY <1>2, <1>3, <1>4 DEF m

\* Receiving moves cells from the wire to the buffer; the buffer overflows only
\* when the reader let a whole frame wait in it.
LEMMA PushKeeps ==
  ASSUME IInv, NEW n \in 1..MaxChunk, Push(n)
  PROVE  IInv'
<1> DEFINE u == SubSeq(wire, 1, n)
           v == SubSeq(wire, n + 1, Len(wire))
<1>1. StateSound /\ Located
  BY DEF IInv
<1>2. /\ ~failed /\ n <= Len(wire) /\ wire' = v /\ held' = (held \/ HasFrame)
      /\ sent' = sent /\ delivered' = delivered /\ damaged' = damaged
      /\ Exceeds(n) => failed' = TRUE /\ buffer' = buffer /\ decoding' = decoding
      /\ ~Exceeds(n) => failed' = failed /\ buffer' = buffer \o u /\ decoding' = TRUE
  BY DEF Push
<1>3. /\ sent \in Seq(Frames) /\ delivered \in Seq(Frames)
      /\ wire \in Seq(Nat) /\ buffer \in Seq(Nat)
      /\ damaged \in Nat /\ Len(buffer) <= Bound /\ Len(sent) <= MaxSent
  BY <1>1 DEF StateSound
<1>4. failed \in BOOLEAN /\ decoding \in BOOLEAN /\ held \in BOOLEAN
  BY <1>1 DEF StateSound
<1>5. /\ Position \in Nat /\ Len(Stream(sent)) \in Nat /\ Len(wire) \in Nat /\ Len(buffer) \in Nat
      /\ Bound \in Nat /\ Longest \in Nat /\ HeaderCells = 5
  BY <1>1, Places
<1>6. n \in Nat /\ n <= MaxChunk /\ MaxChunk \in Nat
  BY FrameAssumption
<1>7. /\ u \in Seq(Nat) /\ Len(u) = n
      /\ v \in Seq(Nat) /\ Len(v) = Len(wire) - n
      /\ u \o v = wire
  BY <1>2, <1>3, <1>6, Divided
<1> HIDE DEF u, v
<1>8. Position' = Position /\ Stream(sent') = Stream(sent)
  BY <1>2 DEF Position
<1>9. held' \in BOOLEAN /\ decoding' \in BOOLEAN
  <2>1. held' \in BOOLEAN
    BY <1>2
  <2>2. decoding' \in BOOLEAN
    BY <1>2, <1>4, Zenon
  <2> QED BY <2>1, <2>2
<1>10. Located'
  <2>1. /\ Len(delivered) <= Len(sent) /\ (\A k \in 1..Len(delivered) : delivered[k] = sent[k])
        /\ Position + Len(wire) <= Len(Stream(sent))
        /\ (damaged # 0 => Position < damaged) /\ damaged <= Len(Stream(sent))
    BY <1>1 DEF Located
  <2>2. Position' + Len(wire') <= Len(Stream(sent'))
    BY <1>2, <1>5, <1>6, <1>7, <1>8, <2>1
  <2> QED BY <1>2, <1>8, <2>1, <2>2 DEF Located
<1>11. CASE Exceeds(n)
  <2>1. failed' = TRUE /\ buffer' = buffer
    BY <1>2, <1>11
  <2>2. StateSound'
    BY <1>2, <1>3, <1>7, <1>9, <2>1 DEF StateSound
  <2>3. Faithful'
    BY <2>1 DEF Faithful
  <2>4. LegalAccepted'
    <3> SUFFICES ASSUME Roomy, damaged' = 0, ~held' PROVE FALSE
      BY DEF LegalAccepted
    <3>1. damaged = 0 /\ ~HasFrame
      BY <1>2
    <3>2. Len(buffer) <= 4 + Longest
      <4>1. CASE Len(buffer) < 5
        BY <1>5, <4>1
      <4>2. CASE Len(buffer) >= 5
        <5>1. HasHeader
          BY <1>5, <4>2 DEF HasHeader
        <5>2. buffer[4] \in Nat /\ buffer[4] <= Longest
          BY <1>2, <3>1, <5>1, UndamagedAccepted
        <5>3. ~(Len(buffer) >= 5 + buffer[4])
          BY <1>5, <3>1, <5>1 DEF HasFrame
        <5> QED BY <1>5, <5>2, <5>3
      <4> QED BY <1>5, <4>1, <4>2
    <3>3. (5 + Longest - 1) + MaxChunk <= Bound
      BY <1>5 DEF Roomy
    <3>4. Len(buffer) + n > Bound
      BY <1>11 DEF Exceeds
    <3> QED BY <1>5, <1>6, <3>2, <3>3, <3>4
  <2> QED BY <1>10, <2>2, <2>3, <2>4 DEF IInv
<1>12. CASE ~Exceeds(n)
  <2>1. failed' = failed /\ buffer' = buffer \o u
    BY <1>2, <1>12
  <2>2. buffer \o u \in Seq(Nat) /\ Len(buffer \o u) = Len(buffer) + n
    BY <1>3, <1>7, ConcatProperties
  <2>3. Len(buffer') <= Bound
    BY <1>5, <1>6, <1>12, <2>1, <2>2 DEF Exceeds
  <2>4. failed' \in BOOLEAN
    BY <1>4, <2>1
  <2>5. buffer' \in Seq(Nat) /\ wire' \in Seq(Nat)
    BY <1>2, <1>7, <2>1, <2>2
  <2>6. StateSound'
    BY <1>2, <1>3, <1>9, <2>3, <2>4, <2>5 DEF StateSound
  <2>7. Tape' = Tape
    <3>1. (buffer \o u) \o v = buffer \o (u \o v)
      BY <1>3, <1>7, Regrouped
    <3> QED BY <1>2, <1>7, <2>1, <3>1 DEF Tape
  <2>8. Faithful'
    <3>1. Follows(Tape, Stream(sent), Position, damaged)
      BY <1>2 DEF IInv, Faithful
    <3> QED BY <1>2, <1>8, <2>7, <3>1 DEF Faithful
  <2>9. LegalAccepted'
    BY <1>2, <2>1 DEF LegalAccepted
  <2> QED BY <1>10, <2>6, <2>8, <2>9 DEF IInv
<1> QED BY <1>11, <1>12

\* Only a damaged stream is refused by next().
LEMMA NextFailsKeeps ==
  ASSUME IInv, NextFails
  PROVE  IInv'
<1>1. /\ ~failed /\ HasHeader /\ (BadHeader \/ (HasFrame /\ BadChecksum)) /\ failed' = TRUE
      /\ sent' = sent /\ wire' = wire /\ buffer' = buffer /\ delivered' = delivered
      /\ damaged' = damaged /\ held' = held /\ decoding' = FALSE
  BY DEF NextFails
<1>2. StateSound'
  BY <1>1 DEF IInv, StateSound
<1>3. Located'
  BY <1>1 DEF IInv, Located, Position
<1>4. Faithful'
  BY <1>1 DEF Faithful
<1>5. damaged # 0
  BY <1>1, UndamagedAccepted
<1>6. LegalAccepted'
  BY <1>1, <1>5 DEF LegalAccepted
<1> QED BY <1>2, <1>3, <1>4, <1>6 DEF IInv

\* Finding no frame moves nothing but the reader.
LEMMA NextNotFoundKeeps ==
  ASSUME IInv, NextNotFound
  PROVE  IInv'
<1>1. /\ sent' = sent /\ wire' = wire /\ buffer' = buffer /\ failed' = failed
      /\ delivered' = delivered /\ damaged' = damaged /\ held' = held /\ decoding' = FALSE
  BY DEF NextNotFound
<1>2. StateSound'
  BY <1>1 DEF IInv, StateSound
<1>3. Located' /\ Faithful' /\ LegalAccepted'
  BY <1>1 DEF IInv, Located, Faithful, LegalAccepted, Position, Tape
<1> QED BY <1>2, <1>3 DEF IInv

\* What next() returns is the frame that was sent, undamaged.
LEMMA NextIsCurrent ==
  ASSUME IInv, NextFrame
  PROVE  LET f == CurrentFrame
             n == Len(f.payload)
         IN /\ f \in Frames /\ Len(delivered) < Len(sent) /\ n \in Nat
            /\ 5 + n <= Len(buffer)
            /\ Offset \in Nat /\ Offset \notin 1..(5 + n)
            /\ delivered' = Append(delivered, f)
            /\ buffer' = SubSeq(buffer, (5 + n) + 1, Len(buffer))
            /\ Len(encode_frame(f)) = 5 + n
<1> DEFINE f == CurrentFrame
           e == encode_frame(f)
           p == f.payload
           n == Len(p)
           c == Content(f)
           y == f.type
           q == buffer[4]
<1>1. /\ ~failed /\ HasHeader /\ ~BadHeader /\ HasFrame /\ ~BadChecksum
      /\ delivered' = Append(delivered, [type    |-> buffer[3],
                                         payload |-> SubSeq(buffer, HeaderCells + 1, HeaderCells + q)])
      /\ buffer' = SubSeq(buffer, (HeaderCells + q) + 1, Len(buffer))
  BY DEF NextFrame
<1>2. StateSound /\ HeaderCells = 5 /\ Len(buffer) \in Nat /\ buffer \in Seq(Nat)
  BY Places DEF IInv, StateSound
<1>3. Len(buffer) >= 5 /\ Len(buffer) >= 1
  BY <1>1, <1>2 DEF HasHeader
<1>4. f \in Frames /\ Len(delivered) < Len(sent) /\ Offset \in Nat /\ Matches(buffer, e, Offset)
  BY <1>1, <1>3, AtHead
<1> HIDE DEF f
<1>5. Encodes(e, y, p, n, c) /\ p \in Seq(Nat) /\ Len(p) = n /\ n \in Nat /\ f = [type |-> y, payload |-> p]
  BY <1>4, EncodedCells, FrameType
<1> HIDE DEF e, p, n, c, y
<1>6. Offset \notin 1..(5 + n)
  <2> SUFFICES ASSUME Offset \in 1..(5 + n) PROVE FALSE
    OBVIOUS
  <2>1. buffer[1] = FrameMagic /\ buffer[2] = ProtocolVersion
    BY <1>1 DEF BadHeader
  <2>2. Len(buffer) >= 5 + buffer[4] /\ buffer[4] \in Nat
    <3>1. Len(buffer) >= 5 + buffer[4]
      BY <1>1, <1>2 DEF HasFrame
    <3>2. 4 \in 1..Len(buffer)
      BY <1>2, <1>3
    <3>3. buffer[4] \in Nat
      BY <1>2, <3>2, ElementOfSeq
    <3> QED BY <3>1, <3>3
  <2>3. 5 + buffer[4] <= Len(buffer)
    BY <1>2, <2>2
  <2>4. buffer[5] # crc32c(Covered(buffer, buffer[4]))
    <3> DEFINE j == Offset
    <3>1. j \in 1..(5 + n) /\ Matches(buffer, e, j)
      BY <1>4
    <3> HIDE DEF j
    <3> QED BY <1>2, <1>3, <1>5, <2>1, <2>3, <3>1, DamageDetected
  <2>5. Covered(buffer, buffer[4]) = SubSeq(buffer, 1, 4) \o SubSeq(buffer, 6, HeaderCells + buffer[4])
    BY <1>2 DEF Covered
  <2>6. BadChecksum
    BY <2>4, <2>5 DEF BadChecksum, Checksum
  <2> QED BY <1>1, <2>6
<1>7. Recognised(buffer, y, p, n)
  BY <1>2, <1>3, <1>4, <1>5, <1>6, FrameRecognised
<1>8. q = n /\ buffer[3] = y
  BY <1>7 DEF Recognised
<1>9. 5 + n <= Len(buffer)
  BY <1>1, <1>2, <1>5, <1>8 DEF HasFrame
<1>10. SubSeq(buffer, 6, 5 + n) = p
  BY <1>7, <1>9 DEF Recognised
<1>11. HeaderCells + 1 = 6 /\ HeaderCells + q = 5 + n
  BY <1>2, <1>8
<1>12. delivered' = Append(delivered, f)
  BY <1>1, <1>5, <1>8, <1>10, <1>11
<1>13. buffer' = SubSeq(buffer, (5 + n) + 1, Len(buffer))
  BY <1>1, <1>11
<1>14. Len(e) = 5 + n
  BY <1>5 DEF Encodes
<1> QED BY <1>4, <1>5, <1>6, <1>9, <1>12, <1>13, <1>14 DEF f, n, p, e

\* Decoding a frame moves the decoder past it.
LEMMA NextFrameKeeps ==
  ASSUME IInv, NextFrame
  PROVE  IInv'
<1> DEFINE f == CurrentFrame
           n == Len(f.payload)
           t == 5 + n
           e == encode_frame(f)
           w == Stream(sent)
           v == SubSeq(buffer, t + 1, Len(buffer))
<1>1. StateSound /\ Located
  BY DEF IInv
<1>2. /\ f \in Frames /\ Len(delivered) < Len(sent) /\ t \in Nat /\ t <= Len(buffer)
      /\ Offset \in Nat /\ Offset \notin 1..t /\ delivered' = Append(delivered, f)
      /\ buffer' = v /\ Len(e) = t
  <2>1. /\ f \in Frames /\ Len(delivered) < Len(sent) /\ n \in Nat /\ t <= Len(buffer)
        /\ Offset \in Nat /\ Offset \notin 1..t /\ delivered' = Append(delivered, f)
        /\ buffer' = v /\ Len(e) = t
    BY NextIsCurrent, Zenon
  <2>2. t \in Nat
    <3> HIDE DEF n
    <3> QED BY <2>1
  <2> QED BY <2>1, <2>2, Zenon
<1>3. /\ ~failed /\ sent' = sent /\ wire' = wire /\ failed' = failed /\ damaged' = damaged
      /\ held' = held /\ decoding' \in BOOLEAN
  BY DEF NextFrame
<1>4. /\ sent \in Seq(Frames) /\ delivered \in Seq(Frames)
      /\ wire \in Seq(Nat) /\ buffer \in Seq(Nat)
      /\ damaged \in Nat /\ Len(buffer) <= Bound /\ Len(sent) <= MaxSent
      /\ failed \in BOOLEAN /\ held \in BOOLEAN
  BY <1>1 DEF StateSound
<1>5. /\ Position \in Nat /\ w \in Seq(Nat) /\ Len(w) \in Nat /\ Len(wire) \in Nat
      /\ Len(buffer) \in Nat /\ Bound \in Nat /\ Len(delivered) \in Nat /\ Len(sent) \in Nat
  BY <1>1, Places
<1>6. f = sent[Len(delivered) + 1]
  BY DEF CurrentFrame
<1> HIDE DEF f, t, w
<1>7. /\ v \in Seq(Nat) /\ Len(v) = Len(buffer) - t
      /\ \A i \in 1..Len(v) : v[i] = buffer[t + i]
  BY <1>2, <1>4, Divided
<1> HIDE DEF v, e
<1>8. /\ delivered' \in Seq(Frames) /\ Len(delivered') = Len(delivered) + 1
      /\ (\A i \in 1..Len(delivered) : delivered'[i] = delivered[i])
      /\ delivered'[Len(delivered) + 1] = f
  BY <1>2, <1>4, AppendProperties
<1>9. Position' = Position + t
  <2>1. Stream(delivered') = Stream(delivered) \o e
    BY <1>2, <1>4, StreamAppend DEF e
  <2>2. e \in Seq(Nat) /\ Stream(delivered) \in Seq(Nat)
    BY <1>2, <1>4, EncodedCells, StreamBounded DEF Encodes, e
  <2>3. Len(Stream(delivered) \o e) = Len(Stream(delivered)) + Len(e)
    BY <2>2, ConcatProperties
  <2> QED BY <1>2, <2>1, <2>3 DEF Position
<1>10. StateSound'
  <2>1. Len(buffer') <= Bound /\ buffer' \in Seq(Nat)
    BY <1>2, <1>4, <1>5, <1>7
  <2> QED BY <1>3, <1>4, <1>8, <2>1 DEF StateSound
<1>11. /\ (\A i \in 1..Len(delivered) : delivered[i] = sent[i])
       /\ (damaged # 0 => Position < damaged) /\ damaged <= Len(w)
  BY <1>1 DEF Located, w
<1>12. /\ Tape \in Seq(Nat) /\ Len(Tape) = Len(buffer) + Len(wire)
       /\ \A i \in 1..Len(buffer) : Tape[i] = buffer[i]
       /\ \A i \in 1..Len(wire) : Tape[Len(buffer) + i] = wire[i]
  BY <1>1, TapeCells DEF JoinOf
<1>13. Follows(Tape, w, Position, damaged)
  BY <1>3 DEF IInv, Faithful, w
<1>14. Position + Len(Tape) = Len(w)
  BY <1>13 DEF Follows
<1>15. Located'
  <2>1. Len(delivered') <= Len(sent')
    BY <1>2, <1>3, <1>5, <1>8
  <2>2. ASSUME NEW i \in 1..Len(delivered') PROVE delivered'[i] = sent'[i]
    <3>1. CASE i \in 1..Len(delivered)
      BY <1>3, <1>8, <1>11, <3>1
    <3>2. CASE i = Len(delivered) + 1
      BY <1>3, <1>6, <1>8, <3>2
    <3> QED BY <1>5, <1>8, <3>1, <3>2
  <2>3. Position' + Len(wire') <= Len(Stream(sent'))
    <3>1. (Position + t) + Len(wire) <= Len(w)
      BY <1>2, <1>5, <1>12, <1>14
    <3> QED BY <1>3, <1>9, <3>1 DEF w
  <2>4. damaged' # 0 => Position' < damaged'
    <3> SUFFICES ASSUME damaged # 0 PROVE Position + t < damaged
      BY <1>3, <1>9
    <3>1. Offset = damaged - Position /\ Position < damaged
      BY <1>11 DEF Offset
    <3> QED BY <1>2, <1>4, <1>5, <3>1
  <2>5. damaged' <= Len(Stream(sent'))
    BY <1>3, <1>11 DEF w
  <2> QED BY <2>1, <2>2, <2>3, <2>4, <2>5 DEF Located
<1>16. Faithful'
  <2> DEFINE a == v \o wire
  <2>1. Tape' = a
    BY <1>2, <1>3 DEF Tape
  <2>2. a \in Seq(Nat) /\ JoinOf(a, v, Len(v), wire, Len(wire))
    BY <1>4, <1>7, Joined
  <2> HIDE DEF a
  <2>3. /\ Len(a) = Len(v) + Len(wire)
        /\ \A i \in 1..Len(v) : a[i] = v[i]
        /\ \A i \in 1..Len(wire) : a[Len(v) + i] = wire[i]
    BY <2>2 DEF JoinOf
  <2>4. t \in 0..Len(Tape) /\ Len(a) = Len(Tape) - t
    BY <1>2, <1>5, <1>7, <1>12, <2>3
  <2>5. ASSUME NEW i \in 1..Len(a) PROVE a[i] = Tape[t + i]
    <3>1. CASE i \in 1..Len(v)
      <4>1. t + i \in 1..Len(buffer)
        BY <1>2, <1>5, <1>7, <3>1
      <4> QED BY <1>7, <1>12, <2>3, <3>1, <4>1
    <3>2. CASE i \notin 1..Len(v)
      <4>1. i - Len(v) \in 1..Len(wire) /\ Len(v) + (i - Len(v)) = i /\ Len(buffer) + (i - Len(v)) = t + i
        BY <1>2, <1>5, <1>7, <2>3, <3>2
      <4>2. a[Len(v) + (i - Len(v))] = wire[i - Len(v)] /\ Tape[Len(buffer) + (i - Len(v))] = wire[i - Len(v)]
        BY <1>12, <2>3, <4>1
      <4> QED BY <4>1, <4>2
    <3> QED BY <3>1, <3>2
  <2>6. Follows(a, w, Position + t, damaged)
    BY <1>4, <1>5, <1>12, <1>13, <2>2, <2>4, <2>5, FollowsDrop
  <2> QED BY <1>3, <1>9, <2>1, <2>6 DEF Faithful, w
<1>17. LegalAccepted'
  BY <1>3 DEF IInv, LegalAccepted
<1> QED BY <1>10, <1>15, <1>16, <1>17 DEF IInv

\* Reconnecting starts again from nothing.
LEMMA ReconnectKeeps ==
  ASSUME Reconnect
  PROVE  IInv'
<1>1. Init'
  BY DEF Reconnect, Init
<1> QED BY <1>1, Initial, PTL

-----------------------------------------------------------------------------
(* The theorems *)

\* The invariant holds throughout.
LEMMA Inductive == Spec => []IInv
<1>1. Init => IInv
  BY Initial
<1>2. IInv /\ [Next]_vars => IInv'
  <2> SUFFICES ASSUME IInv, [Next]_vars PROVE IInv'
    OBVIOUS
  <2>1. ASSUME NEW f \in Frames, Send(f) PROVE IInv'
    BY <2>1, SendKeeps
  <2>2. ASSUME NEW i \in 1..(MaxSent * Bound), NEW cell \in Cells, Damage(i, cell) PROVE IInv'
    BY <2>2, DamageKeeps
  <2>3. ASSUME NEW n \in 1..MaxChunk, Push(n) PROVE IInv'
    BY <2>3, PushKeeps
  <2>4. CASE NextFails
    BY <2>4, NextFailsKeeps
  <2>5. CASE NextFrame
    BY <2>5, NextFrameKeeps
  <2>6. CASE NextNotFound
    BY <2>6, NextNotFoundKeeps
  <2>7. CASE Reconnect
    BY <2>7, ReconnectKeeps
  <2>8. CASE UNCHANGED vars
    BY <2>8, Unmoved
  <2> QED BY <2>1, <2>2, <2>3, <2>4, <2>5, <2>6, <2>7, <2>8 DEF Next, Decode
<1> QED BY <1>1, <1>2, PTL DEF Spec

\* As many frames of at most b cells as m are no longer than as many as n.
LEMMA Monotone ==
  ASSUME NEW b \in Nat, NEW m \in Nat, NEW n \in Nat, m <= n
  PROVE  m * b <= n * b /\ m * b \in Nat /\ n * b \in Nat
<1>1. n - m \in Nat /\ n * b = m * b + (n - m) * b
  OBVIOUS
<1>2. m * b \in Nat /\ (n - m) * b \in Nat /\ n * b \in Nat
  BY <1>1
<1> QED BY <1>1, <1>2

\* TypeOK (frame.cpp, FrameDecoder::push): in particular the decoder never buffers more
\* than a frame of the largest size, whatever it is sent.
THEOREM TypeCorrect == Spec => []TypeOK
<1>1. IInv => TypeOK
  <2> SUFFICES ASSUME IInv PROVE TypeOK
    OBVIOUS
  <2>1. /\ sent \in Seq(Frames) /\ wire \in Seq(Nat) /\ buffer \in Seq(Nat) /\ damaged \in Nat
        /\ failed \in BOOLEAN /\ decoding \in BOOLEAN /\ held \in BOOLEAN
        /\ Len(buffer) <= Bound /\ Len(sent) <= MaxSent
    BY DEF IInv, StateSound
  <2>2. damaged <= Len(Stream(sent))
    BY DEF IInv, Located
  <2>3. Len(Stream(sent)) \in Nat /\ Len(Stream(sent)) <= Len(sent) * Bound /\ Len(sent) \in Nat
    BY <2>1, StreamBounded, LenProperties
  <2>4. Bound \in Nat /\ MaxSent \in Nat
    BY FrameAssumption DEF Bound, HeaderCells
  <2>5. Len(sent) * Bound <= MaxSent * Bound /\ Len(sent) * Bound \in Nat /\ MaxSent * Bound \in Nat
    BY <2>1, <2>3, <2>4, Monotone
  <2>6. damaged \in 0..(MaxSent * Bound)
    BY <2>1, <2>2, <2>3, <2>5
  <2> QED BY <2>1, <2>6 DEF TypeOK
<1> QED BY <1>1, Inductive, PTL

\* DeliversPrefix: whatever the split, the join and the damage of the stream, next()
\* has returned exactly the first frames that encode_frame was given, and none with
\* a damaged cell.
THEOREM PrefixDelivered == Spec => []DeliversPrefix
<1>1. IInv => DeliversPrefix
  <2> SUFFICES ASSUME IInv PROVE DeliversPrefix
    OBVIOUS
  <2>1. /\ Len(delivered) <= Len(sent) /\ (\A i \in 1..Len(delivered) : delivered[i] = sent[i])
        /\ (damaged # 0 => Position < damaged) /\ sent \in Seq(Frames) /\ delivered \in Seq(Frames)
    BY DEF IInv, Located, StateSound
  <2>2. SubSeq(delivered, 1, Len(delivered)) = SubSeq(sent, 1, Len(delivered))
    <3> DEFINE k == Len(delivered)
               a == SubSeq(delivered, 1, k)
               b == SubSeq(sent, 1, k)
    <3>1. k \in Nat /\ Len(sent) \in Nat
      BY <2>1, LenProperties
    <3>2. 1 \in Int /\ k \in Int /\ (\A i \in 1..k : delivered[i] \in Frames /\ sent[i] \in Frames)
      BY <2>1, <3>1, ElementOfSeq
    <3> HIDE DEF k
    <3>3. /\ a \in Seq(Frames) /\ Len(a) = IF 1 <= k THEN k - 1 + 1 ELSE 0
          /\ \A i \in 1..(k - 1 + 1) : a[i] = delivered[1 + i - 1]
      BY <3>2, SubSeqProperties
    <3>4. /\ b \in Seq(Frames) /\ Len(b) = IF 1 <= k THEN k - 1 + 1 ELSE 0
          /\ \A i \in 1..(k - 1 + 1) : b[i] = sent[1 + i - 1]
      BY <3>2, SubSeqProperties
    <3> HIDE DEF a, b
    <3>5. \A i \in 1..k : i \in 1..(k - 1 + 1) /\ 1 + i - 1 = i
      BY <3>1
    <3>6. Len(a) = Len(b) /\ Len(a) = k
      BY <3>1, <3>3, <3>4
    <3>7. \A i \in 1..k : a[i] = delivered[i] /\ b[i] = sent[i]
      BY <3>3, <3>4, <3>5
    <3>8. \A i \in 1..k : delivered[i] = sent[i]
      BY <2>1 DEF k
    <3>9. a = b
      BY <3>3, <3>4, <3>6, <3>7, <3>8, SeqEqual
    <3> QED BY <3>9 DEF a, b, k
  <2> QED BY <2>1, <2>2 DEF DeliversPrefix, IsPrefix, Position
<1> QED BY <1>1, Inductive, PTL

\* LegalAccepted: a reader that decodes what it has before it receives more never
\* sees the decoder fail on an undamaged stream, wherever it is split, provided that
\* a receive buffer fits beside the longest incomplete frame.
THEOREM LegalStreamsAccepted == Spec => []LegalAccepted
<1>1. IInv => LegalAccepted
  BY DEF IInv
<1> QED BY <1>1, Inductive, PTL
=============================================================================
