------------------------ MODULE PacketReceiverProofs ------------------------
(***************************************************************************)
(* Proofs about PacketReceiver for any set of bytes, any base of digits,   *)
(* any capacity and lines of any length: the receiver, which sees one byte *)
(* at a time, handles and acknowledges exactly the frames that the whole   *)
(* line holds.                                                             *)
(***************************************************************************)
EXTENDS PacketReceiver, Numbers, SequenceTheorems, TLAPS

(* What a line holds, as far as it goes: the first # is at h.  These are   *)
(* about any line, since a step has one before it and one after it.        *)
FirstHash(l, h) ==
    h \in DOMAIN l /\ l[h] = "#" /\ \A k \in 1 .. h - 1 : l[k] # "#"

NoHash(l) == \A k \in DOMAIN l : l[k] # "#"

FrameAt(l, h) ==
    /\ FirstHash(l, h)
    /\ Len(l) = h + 2 /\ h <= Capacity
    /\ Digit[l[h + 1]] >= 0 /\ Digit[l[h + 2]] >= 0

(* A line that will not be a frame, whatever comes: the first # is too late, *)
(* what follows it is no digit, or there is too much already.              *)
TooLong(l) == Len(l) >= Capacity /\ \A k \in 1 .. Capacity : l[k] # "#"

Lost(l) ==
    \/ TooLong(l)
    \/ \E h \in DOMAIN l :
          /\ FirstHash(l, h)
          /\ \/ Len(l) >= h + 1 /\ Digit[l[h + 1]] < 0
             \/ Len(l) >= h + 2

(* The values of a u8.                                                     *)
Checksums == 0 .. Word - 1

(* The receiver's variables are in their types, the packet and its         *)
(* terminating zero within the array.                                      *)
Types ==
    /\ client \in BOOLEAN /\ no_ack_mode \in BOOLEAN /\ framed \in BOOLEAN
    /\ receiving_packet \in BOOLEAN /\ reading_checksum \in BOOLEAN
    /\ packet \in Seq(Bytes) /\ Len(packet) <= Capacity - 1
    /\ checksum \in Checksums /\ received_checksum \in Checksums
    /\ checksum_digits \in 0 .. 2
    /\ line \in Seq(Bytes)
    /\ ack \in {"none", "+", "-"}

(* Between $ and #: the packet is the line.                                *)
Receiving ==
    /\ framed /\ ~reading_checksum
    /\ NoHash(line) /\ packet = line /\ checksum = SumOf(packet)
    /\ checksum_digits = 0 /\ received_checksum = 0

(* After #: the packet is the line up to it, and the rest are digits.      *)
Reading ==
    LET h == Len(packet) + 1 IN
    /\ framed
    /\ FirstHash(line, h) /\ packet = SubSeq(line, 1, h - 1)
    /\ checksum = SumOf(packet)
    /\ checksum_digits \in {0, 1}
    /\ Len(line) = h + checksum_digits
    /\ checksum_digits = 0 => received_checksum = 0
    /\ checksum_digits = 1 => /\ Digit[line[h + 1]] >= 0
                              /\ received_checksum = Digit[line[h + 1]]

(* The flags of the receiver say where in the line it is.                  *)
Phase ==
    client =>
      /\ receiving_packet => Receiving
      /\ reading_checksum => Reading
      /\ ~receiving_packet /\ ~reading_checksum => ~framed \/ Lost(line)

IInv == Types /\ Phase

-----------------------------------------------------------------------------
(* Lines.                                                                  *)
LEMMA AppendLine ==
    ASSUME NEW l \in Seq(Bytes), NEW b \in Bytes
    PROVE  /\ Append(l, b) \in Seq(Bytes)
           /\ Len(Append(l, b)) = Len(l) + 1
           /\ DOMAIN Append(l, b) = 1 .. Len(l) + 1
           /\ \A k \in 1 .. Len(l) : Append(l, b)[k] = l[k]
           /\ Append(l, b)[Len(l) + 1] = b
           /\ Len(l) \in Nat /\ DOMAIN l = 1 .. Len(l)
  OBVIOUS

LEMMA FirstHashUnique ==
    ASSUME NEW l \in Seq(Bytes), NEW g, NEW h, FirstHash(l, g), FirstHash(l, h)
    PROVE  g = h
  <1>1. DOMAIN l = 1 .. Len(l) /\ Len(l) \in Nat
    OBVIOUS
  <1>2. g \in Nat \ {0} /\ h \in Nat \ {0}
    BY <1>1 DEF FirstHash
  <1>3. ~(g < h) /\ ~(h < g)
    BY <1>2 DEF FirstHash
  <1> QED BY <1>2, <1>3

LEMMA FirstHashExists ==
    ASSUME NEW l \in Seq(Bytes), NEW n \in DOMAIN l, l[n] = "#"
    PROVE  \E h \in DOMAIN l : FirstHash(l, h)
  <1> DEFINE T == {k \in DOMAIN l : l[k] = "#"}
  <1>1. DOMAIN l = 1 .. Len(l) /\ Len(l) \in Nat
    OBVIOUS
  <1>2. T \subseteq Nat /\ T # {}
    BY <1>1
  <1> HIDE DEF T
  <1>3. PICK h \in T : \A k \in T : ~(k < h)
    BY <1>2, LeastNumber
  <1>4. h \in DOMAIN l /\ l[h] = "#"
    BY <1>3 DEF T
  <1>5. \A k \in 1 .. h - 1 : l[k] # "#"
    <2> SUFFICES ASSUME NEW k \in 1 .. h - 1, l[k] = "#" PROVE FALSE
      OBVIOUS
    <2>1. k \in DOMAIN l /\ k < h
      BY <1>1, <1>4
    <2>2. k \in T
      BY <2>1 DEF T
    <2> QED BY <1>3, <2>1, <2>2
  <1> QED BY <1>4, <1>5 DEF FirstHash

(* One more byte leaves the first # where it is, and is the first # only   *)
(* if there was none.                                                      *)
LEMMA FirstHashAppend ==
    ASSUME NEW l \in Seq(Bytes), NEW b \in Bytes
    PROVE  /\ \A h \in DOMAIN l : FirstHash(l, h) => FirstHash(Append(l, b), h)
           /\ \A h : FirstHash(Append(l, b), h) =>
                \/ FirstHash(l, h)
                \/ h = Len(l) + 1 /\ b = "#" /\ NoHash(l)
           /\ NoHash(l) /\ b = "#" => FirstHash(Append(l, b), Len(l) + 1)
           /\ NoHash(l) /\ b # "#" => NoHash(Append(l, b))
  <1> DEFINE m == Append(l, b)
  <1>1. /\ Len(m) = Len(l) + 1 /\ DOMAIN m = 1 .. Len(l) + 1
        /\ \A k \in 1 .. Len(l) : m[k] = l[k]
        /\ m[Len(l) + 1] = b
        /\ Len(l) \in Nat /\ DOMAIN l = 1 .. Len(l)
    BY AppendLine
  <1> HIDE DEF m
  <1>2. ASSUME NEW h \in DOMAIN l, FirstHash(l, h) PROVE FirstHash(m, h)
    BY <1>1, <1>2 DEF FirstHash
  <1>3. ASSUME NEW h, FirstHash(m, h), h # Len(l) + 1 PROVE FirstHash(l, h)
    <2>1. h \in 1 .. Len(l) /\ m[h] = "#" /\ \A k \in 1 .. h - 1 : m[k] # "#"
      BY <1>1, <1>3 DEF FirstHash
    <2>2. \A k \in 1 .. h - 1 : k \in 1 .. Len(l)
      BY <1>1, <2>1
    <2> QED BY <1>1, <2>1, <2>2 DEF FirstHash
  <1>4. ASSUME FirstHash(m, Len(l) + 1) PROVE b = "#" /\ NoHash(l)
    BY <1>1, <1>4 DEF FirstHash, NoHash
  <1>5. ASSUME NoHash(l), b = "#" PROVE FirstHash(m, Len(l) + 1)
    BY <1>1, <1>5 DEF FirstHash, NoHash
  <1>6. ASSUME NoHash(l), b # "#" PROVE NoHash(m)
    BY <1>1, <1>6 DEF NoHash
  <1> QED BY <1>2, <1>3, <1>4, <1>5, <1>6 DEF m

(* IsFrame and IsValid, where the first # is known.                        *)
GoodAt(l, h) ==
    Digit[l[h + 1]] * HexBase + Digit[l[h + 2]] = SumOf(SubSeq(l, 1, h - 1))

LEMMA FrameIs ==
    line \in Seq(Bytes) =>
      /\ IsFrame => framed /\ \E h \in DOMAIN line : FrameAt(line, h)
      /\ framed /\ (\E h \in DOMAIN line : FrameAt(line, h)) => IsFrame
      /\ \A h \in DOMAIN line : FirstHash(line, h) =>
           /\ IsValid <=> GoodAt(line, h)
           /\ Contents = SubSeq(line, 1, h - 1)
  <1> SUFFICES ASSUME line \in Seq(Bytes)
               PROVE  /\ IsFrame => framed /\ \E h \in DOMAIN line : FrameAt(line, h)
                      /\ framed /\ (\E h \in DOMAIN line : FrameAt(line, h)) => IsFrame
                      /\ \A h \in DOMAIN line : FirstHash(line, h) =>
                           /\ IsValid <=> GoodAt(line, h)
                           /\ Contents = SubSeq(line, 1, h - 1)
    OBVIOUS
  <1>1. ASSUME NEW h, FirstHash(line, h) PROVE Hash = h
    <2>1. h \in DOMAIN line /\ line[h] = "#" /\ \A k \in 1..(h - 1) : line[k] # "#"
      BY <1>1 DEF FirstHash
    <2>2. FirstHash(line, Hash)
      BY <2>1 DEF Hash, FirstHash
    <2> QED BY <1>1, <2>2, FirstHashUnique
  <1>2. ASSUME NEW n \in DOMAIN line, line[n] = "#"
        PROVE  Hash \in DOMAIN line /\ FirstHash(line, Hash)
    BY <1>1, <1>2, FirstHashExists
  <1>3. \A h \in DOMAIN line : h + 1 \in Int /\ h + 2 \in Int
    OBVIOUS
  <1>4. ASSUME IsFrame PROVE framed /\ \E h \in DOMAIN line : FrameAt(line, h)
    BY <1>2, <1>4 DEF IsFrame, FrameAt
  <1>5. ASSUME framed, NEW h \in DOMAIN line, FrameAt(line, h) PROVE IsFrame
    BY <1>1, <1>5 DEF IsFrame, FrameAt, FirstHash
  <1>6. ASSUME NEW h \in DOMAIN line, FirstHash(line, h)
        PROVE  /\ IsValid <=> GoodAt(line, h)
               /\ Contents = SubSeq(line, 1, h - 1)
    BY <1>1, <1>6 DEF IsValid, GoodAt, Contents
  <1> QED BY <1>4, <1>5, <1>6

(* A lemma about every state is one about the next.                        *)
LEMMA FrameIsNext ==
    (line \in Seq(Bytes) =>
      /\ IsFrame => framed /\ \E h \in DOMAIN line : FrameAt(line, h)
      /\ framed /\ (\E h \in DOMAIN line : FrameAt(line, h)) => IsFrame
      /\ \A h \in DOMAIN line : FirstHash(line, h) =>
           /\ IsValid <=> GoodAt(line, h)
           /\ Contents = SubSeq(line, 1, h - 1))'
  BY FrameIs, PTL

(* A frame that is complete was one that lacked its last digit.            *)
LEMMA FrameAppend ==
    ASSUME NEW l \in Seq(Bytes), NEW b \in Bytes, NEW h, FrameAt(Append(l, b), h)
    PROVE  /\ h \in DOMAIN l /\ FirstHash(l, h) /\ Len(l) = h + 1 /\ h <= Capacity
           /\ Digit[l[h + 1]] >= 0 /\ Digit[b] >= 0
  <1> DEFINE m == Append(l, b)
  <1>1. /\ Len(m) = Len(l) + 1 /\ DOMAIN m = 1 .. Len(l) + 1
        /\ \A k \in 1 .. Len(l) : m[k] = l[k]
        /\ m[Len(l) + 1] = b
        /\ Len(l) \in Nat /\ DOMAIN l = 1 .. Len(l)
    BY AppendLine
  <1>2. FirstHash(l, h) \/ h = Len(l) + 1
    BY FirstHashAppend DEF FrameAt
  <1> HIDE DEF m
  <1>3. FirstHash(m, h) /\ Len(m) = h + 2 /\ h <= Capacity /\ Digit[m[h + 1]] >= 0
        /\ Digit[m[h + 2]] >= 0
    BY DEF FrameAt, m
  <1>4. h \in 1 .. Len(l) + 1
    BY <1>1, <1>3 DEF FirstHash
  <1>5. Len(l) = h + 1
    <2>1. Len(l) \in Nat /\ h \in Nat
      BY <1>1, <1>4
    <2>2. Len(l) + 1 = h + 2
      BY <1>1, <1>3, Zenon
    <2> QED BY <2>1, <2>2
  <1>6. h \in 1 .. Len(l) /\ h + 1 \in 1 .. Len(l) /\ h + 2 = Len(l) + 1
    BY <1>4, <1>5
  <1> QED BY <1>1, <1>2, <1>3, <1>5, <1>6

(* A lost line stays lost, and is no frame.                                *)
LEMMA LostStays ==
    ASSUME NEW l \in Seq(Bytes), NEW b \in Bytes, Lost(l)
    PROVE  Lost(Append(l, b)) /\ \A h : ~FrameAt(Append(l, b), h)
  <1> DEFINE m == Append(l, b)
  <1>1. /\ Len(m) = Len(l) + 1 /\ DOMAIN m = 1 .. Len(l) + 1
        /\ \A k \in 1 .. Len(l) : m[k] = l[k]
        /\ m[Len(l) + 1] = b
        /\ Len(l) \in Nat /\ DOMAIN l = 1 .. Len(l)
    BY AppendLine
  <1>2. Capacity \in Nat \ {0}
    BY ReceiverAssumption
  <1>3. CASE TooLong(l)
    <2>1. TooLong(m)
      BY <1>1, <1>2, <1>3 DEF TooLong
    <2>2. ASSUME NEW h, FrameAt(m, h) PROVE FALSE
      <3>1. FirstHash(l, h) /\ h <= Capacity /\ h \in DOMAIN l
        BY <2>2, FrameAppend
      <3> QED BY <1>1, <1>2, <1>3, <3>1 DEF TooLong, FirstHash
    <2> QED BY <2>1, <2>2 DEF Lost
  <1>4. ASSUME NEW h \in DOMAIN l, FirstHash(l, h),
               \/ Len(l) >= h + 1 /\ Digit[l[h + 1]] < 0
               \/ Len(l) >= h + 2
        PROVE  Lost(m) /\ \A g : ~FrameAt(m, g)
    <2>1. FirstHash(m, h)
      BY <1>4, FirstHashAppend
    <2>2. h \in DOMAIN m /\ (Len(l) >= h + 1 => h + 1 \in 1 .. Len(l))
      BY <1>1, <1>4
    <2> HIDE DEF m
    <2>3. Lost(m)
      BY <1>1, <1>4, <2>1, <2>2 DEF Lost
    <2>4. ASSUME NEW g, FrameAt(m, g) PROVE FALSE
      <3>1. FirstHash(l, g) /\ Len(l) = g + 1 /\ Digit[l[g + 1]] >= 0
        BY <2>4, FrameAppend DEF m
      <3>2. g = h
        BY <1>4, <3>1, FirstHashUnique
      <3>3. l[h + 1] \in Bytes
        BY <1>1, <1>4, <3>1, <3>2
      <3>4. Digit[l[h + 1]] \in Int
        BY <3>3, ReceiverAssumption
      <3> QED BY <1>1, <1>4, <3>1, <3>2, <3>4
    <2> QED BY <2>3, <2>4
  <1> QED BY <1>3, <1>4 DEF Lost

-----------------------------------------------------------------------------
(* Sums.  The receiver adds byte by byte and wraps at every one; SumOf adds *)
(* the packet up and wraps once.                                           *)
Sums(s) ==
    LET sum[n \in 0..Len(s)] == IF n = 0 THEN 0 ELSE sum[n - 1] + Value[s[n]]
    IN  sum

LEMMA WordType == Word \in Nat \ {0} /\ HexBase \in Nat /\ HexBase > 1
  <1>1. HexBase \in Nat /\ HexBase > 1
    BY ReceiverAssumption
  <1>2. \A m, n \in Nat : m > 1 /\ n > 1 => m * n \in Nat /\ m * n > 0
    OBVIOUS
  <1> QED BY <1>1, <1>2 DEF Word

LEMMA ByteTypes ==
    \A b \in Bytes : Value[b] \in Nat /\ Digit[b] \in Int /\ Digit[b] < HexBase
                     /\ Digit[b] >= -1
  <1> TAKE b \in Bytes
  <1>1. Value[b] \in 0..(HexBase * HexBase - 1) /\ Digit[b] \in -1..(HexBase - 1)
        /\ HexBase \in Nat
    BY ReceiverAssumption
  <1> QED BY <1>1

(* The recursion of a sum has a solution.                                  *)
LEMMA SumsUnfold ==
    ASSUME NEW s \in Seq(Bytes)
    PROVE  /\ Sums(s)[0] = 0
           /\ \A n \in 1 .. Len(s) : Sums(s)[n] = Sums(s)[n - 1] + Value[s[n]]
           /\ \A n \in 0 .. Len(s) : Sums(s)[n] \in Nat
  <1> DEFINE N == Len(s)
             V(n) == IF n \in 1 .. N THEN Value[s[n]] ELSE 0
             F == [n \in Nat |-> [x \in Nat |-> x + V(n)]]
             S == Sums(s)
  <1>1. N \in Nat /\ \A n \in 1 .. N : s[n] \in Bytes
    OBVIOUS
  <1>2. \A n \in Nat : V(n) \in Nat
    BY <1>1, ByteTypes
  <1> HIDE DEF V, N
  <1>3. F \in [Nat -> [Nat -> Nat]] /\ 0 \in Nat
    BY <1>2
  <1> HIDE DEF F
  <1>4. PICK f \in [Nat -> Nat] : Solves(f, 0, F)
    BY <1>3, Recursion
  <1>5. f[0] = 0
    BY <1>4 DEF Solves
  <1>6. ASSUME NEW n \in 1 .. N PROVE f[n] = f[n - 1] + Value[s[n]] /\ n - 1 \in 0 .. N
    <2>1. n \in Nat /\ n # 0 /\ n - 1 \in Nat /\ n - 1 \in 0 .. N
      BY <1>1
    <2>2. f[n] = F[n][f[n - 1]]
      BY <1>4, <2>1 DEF Solves
    <2>3. f[n - 1] \in Nat
      BY <1>4, <2>1
    <2>4. F[n][f[n - 1]] = f[n - 1] + V(n)
      BY <2>1, <2>3 DEF F
    <2> QED BY <2>1, <2>2, <2>4 DEF V
  <1> DEFINE g == [n \in 0 .. N |-> f[n]]
  <1>7. g = [n \in 0 .. N |-> IF n = 0 THEN 0 ELSE g[n - 1] + Value[s[n]]]
    <2>1. ASSUME NEW n \in 0 .. N
          PROVE  g[n] = IF n = 0 THEN 0 ELSE g[n - 1] + Value[s[n]]
      <3>1. CASE n = 0
        BY <1>5, <3>1
      <3>2. CASE n # 0
        <4>1. n \in 1 .. N
          BY <1>1, <3>2
        <4> QED BY <1>6, <3>2, <4>1
      <3> QED BY <3>1, <3>2
    <2> QED BY <2>1
  <1> HIDE DEF g
  <1>8. S = [n \in 0 .. N |-> IF n = 0 THEN 0 ELSE S[n - 1] + Value[s[n]]]
    BY <1>7 DEF Sums, N
  <1> HIDE DEF S
  <1>9. S[0] = 0 /\ \A n \in 1 .. N : S[n] = S[n - 1] + Value[s[n]]
    <2>1. 0 \in 0 .. N /\ \A n \in 1 .. N : n \in 0 .. N /\ n # 0
      BY <1>1
    <2>2. \A n \in 0 .. N : S[n] = IF n = 0 THEN 0 ELSE S[n - 1] + Value[s[n]]
      BY <1>8
    <2> QED BY <2>1, <2>2
  <1>10. \A n \in 0 .. N : S[n] \in Nat
    <2> DEFINE T == {n \in Nat : n <= N => S[n] \in Nat}
    <2>1. 0 \in T
      BY <1>9
    <2>2. ASSUME NEW n \in Nat, n \in T PROVE n + 1 \in T
      <3>1. CASE n + 1 <= N
        <4>1. n <= N /\ n + 1 \in 1 .. N /\ (n + 1) - 1 = n
          BY <1>1, <3>1
        <4>2. S[n] \in Nat /\ Value[s[n + 1]] \in Nat
          BY <1>1, <2>2, <4>1, ByteTypes
        <4>3. S[n + 1] = S[n] + Value[s[n + 1]]
          BY <1>9, <4>1
        <4>4. S[n + 1] \in Nat
          <5>1. \A x, y \in Nat : x + y \in Nat
            OBVIOUS
          <5>2. S[n] + Value[s[n + 1]] \in Nat
            BY <4>2, <5>1, Zenon
          <5> QED BY <4>3, <5>2, Zenon
        <4> QED BY <4>4
      <3>2. CASE ~(n + 1 <= N)
        BY <3>2
      <3> QED BY <3>1, <3>2
    <2> HIDE DEF T
    <2>3. Nat \subseteq T
      BY <2>1, <2>2, InductionSet
    <2> QED BY <1>1, <2>3 DEF T
  <1> QED BY <1>9, <1>10 DEF S, N

LEMMA SumOfAppend ==
    /\ SumOf(<<>>) = 0
    /\ \A s \in Seq(Bytes) : SumOf(s) \in Checksums
    /\ \A s \in Seq(Bytes), b \in Bytes :
          SumOf(Append(s, b)) = (SumOf(s) + Value[b]) % Word
  <1>1. \A s : SumOf(s) = Sums(s)[Len(s)] % Word
    BY DEF SumOf, Sums
  <1>2. Word \in Nat \ {0}
    BY WordType
  <1>3. ASSUME NEW s \in Seq(Bytes) PROVE SumOf(s) \in Checksums
    <2>1. Len(s) \in 0 .. Len(s)
      OBVIOUS
    <2>2. Sums(s)[Len(s)] \in Nat
      BY <2>1, SumsUnfold
    <2> QED BY <1>1, <1>2, <2>2 DEF Checksums
  <1>4. SumOf(<<>>) = 0
    <2>1. <<>> \in Seq(Bytes) /\ Len(<<>>) = 0
      BY EmptySeq
    <2>2. Sums(<<>>)[0] = 0
      BY <2>1, SumsUnfold
    <2> QED BY <1>1, <1>2, <2>1, <2>2
  <1>5. ASSUME NEW s \in Seq(Bytes), NEW b \in Bytes
        PROVE  SumOf(Append(s, b)) = (SumOf(s) + Value[b]) % Word
    <2> DEFINE t == Append(s, b)
               N == Len(s)
               S == Sums(s)
               R == Sums(t)
    <2>1. /\ t \in Seq(Bytes) /\ Len(t) = N + 1 /\ N \in Nat
          /\ \A k \in 1 .. N : t[k] = s[k]
          /\ t[N + 1] = b
      BY AppendLine
    <2>2. /\ S[0] = 0 /\ \A n \in 1 .. N : S[n] = S[n - 1] + Value[s[n]]
          /\ \A n \in 0 .. N : S[n] \in Nat
      BY SumsUnfold
    <2> HIDE DEF t
    <2>3. R[0] = 0 /\ \A n \in 1 .. N + 1 : R[n] = R[n - 1] + Value[t[n]]
      BY <2>1, SumsUnfold
    <2> HIDE DEF N, S, R
    <2> DEFINE T == {n \in Nat : n <= N => R[n] = S[n]}
    <2>4. 0 \in T
      BY <2>2, <2>3
    <2>5. ASSUME NEW n \in Nat, n \in T PROVE n + 1 \in T
      <3>1. CASE n + 1 <= N
        <4>1. n <= N /\ n + 1 \in 1 .. N /\ n + 1 \in 1 .. N + 1 /\ (n + 1) - 1 = n
          BY <2>1, <3>1
        <4>2. R[n] = S[n] /\ t[n + 1] = s[n + 1]
          BY <2>1, <2>5, <4>1
        <4>3. R[n + 1] = R[n] + Value[t[n + 1]] /\ S[n + 1] = S[n] + Value[s[n + 1]]
          BY <2>2, <2>3, <4>1
        <4> QED BY <4>2, <4>3
      <3>2. CASE ~(n + 1 <= N)
        BY <3>2
      <3> QED BY <3>1, <3>2
    <2> HIDE DEF T
    <2>6. N \in T
      BY <2>1, <2>4, <2>5, InductionSet
    <2>7. R[N] = S[N] /\ N + 1 \in 1 .. N + 1 /\ (N + 1) - 1 = N /\ N \in 0 .. N
      BY <2>1, <2>6 DEF T
    <2>8. R[N + 1] = S[N] + Value[b]
      BY <2>1, <2>3, <2>7
    <2>9. S[N] \in Int /\ Value[b] \in Int
      BY <2>2, <2>7, ByteTypes
    <2>10. ((S[N] % Word) + Value[b]) % Word = (S[N] + Value[b]) % Word
      BY <1>2, <2>9, RemainderAdd
    <2>11. SumOf(s) = S[N] % Word /\ SumOf(t) = R[N + 1] % Word
      BY <1>1, <2>1 DEF S, R, N
    <2> QED BY <2>8, <2>10, <2>11 DEF t
  <1> QED BY <1>3, <1>4, <1>5

(* Two digits are a word and do not wrap.                                  *)
LEMMA TwoDigits ==
    ASSUME NEW d \in 0 .. HexBase - 1, NEW e \in 0 .. HexBase - 1
    PROVE  d * HexBase + e \in 0 .. Word - 1 /\ (d * HexBase + e) % Word = d * HexBase + e
  <1> DEFINE x == d * HexBase + e
  <1>1. HexBase \in Nat /\ HexBase > 1 /\ d \in Nat /\ e \in Nat
    BY WordType
  <1>2. d * HexBase <= (HexBase - 1) * HexBase
    <2>1. \A m, n, k \in Nat : m <= n => m * k <= n * k
      OBVIOUS
    <2>2. d <= HexBase - 1 /\ HexBase - 1 \in Nat
      BY <1>1
    <2> QED BY <1>1, <2>1, <2>2
  <1>3. (HexBase - 1) * HexBase = HexBase * HexBase - HexBase
    BY <1>1
  <1>4. d * HexBase \in Nat /\ HexBase * HexBase \in Nat
    BY <1>1
  <1>5. x \in 0 .. Word - 1
    BY <1>1, <1>2, <1>3, <1>4 DEF Word
  <1> HIDE DEF x
  <1>6. x % Word = x
    BY <1>5, WordType
  <1> QED BY <1>5, <1>6 DEF x

-----------------------------------------------------------------------------
(* Steps.                                                                  *)
LEMMA ConstantTypes ==
    /\ Capacity \in Nat \ {0} /\ 0 \in Checksums
    /\ <<>> \in Seq(Bytes) /\ Len(<<>>) = 0 /\ "#" \in Bytes /\ Digit["#"] = -1
  <1>1. Word \in Nat \ {0}
    BY WordType
  <1>2. <<>> \in Seq(Bytes) /\ Len(<<>>) = 0
    BY EmptySeq
  <1> QED BY <1>1, <1>2, ReceiverAssumption DEF Checksums

(* A packet begins, or the receiver waits for one.                         *)
LEMMA ResetType ==
    ASSUME NEW receiving \in BOOLEAN, reset_packet(receiving)
    PROVE  /\ packet' \in Seq(Bytes) /\ Len(packet') <= Capacity - 1
           /\ checksum' \in Checksums /\ received_checksum' \in Checksums
           /\ checksum_digits' \in 0 .. 2
           /\ receiving_packet' \in BOOLEAN /\ reading_checksum' \in BOOLEAN
           /\ receiving_packet' = receiving /\ ~reading_checksum'
  <1>1. /\ packet' = <<>> /\ checksum' = 0 /\ received_checksum' = 0
        /\ checksum_digits' = 0 /\ receiving_packet' = receiving /\ reading_checksum' = FALSE
    BY DEF reset_packet
  <1>2. Len(packet') <= Capacity - 1 /\ packet' \in Seq(Bytes)
    BY <1>1, ConstantTypes
  <1>3. checksum' \in Checksums /\ received_checksum' \in Checksums
    BY <1>1, ConstantTypes, Zenon
  <1>4. checksum_digits' \in 0 .. 2
    BY <1>1
  <1> QED BY <1>1, <1>2, <1>3, <1>4

LEMMA ConnectStep == IInv /\ Connect => IInv'
  <1> SUFFICES ASSUME IInv, Connect PROVE IInv'
    OBVIOUS
  <1>1. /\ client' = TRUE /\ reset_packet(FALSE) /\ line' = <<>> /\ framed' = FALSE
        /\ ack' = "none" /\ no_ack_mode' = no_ack_mode
    BY DEF Connect
  <1>2. Types'
    BY <1>1, ResetType, ConstantTypes DEF IInv, Types
  <1>3. Phase'
    BY <1>1, ResetType DEF Phase
  <1> QED BY <1>2, <1>3 DEF IInv

LEMMA StartStep == IInv /\ Start => IInv'
  <1> SUFFICES ASSUME IInv, Start PROVE IInv'
    OBVIOUS
  <1>1. /\ reset_packet(TRUE) /\ line' = <<>> /\ framed' = TRUE /\ ack' = "none"
        /\ client' = client /\ no_ack_mode' = no_ack_mode
    BY DEF Start
  <1>2. Types'
    BY <1>1, ResetType, ConstantTypes DEF IInv, Types
  <1>3. packet' = <<>> /\ checksum' = 0 /\ checksum_digits' = 0 /\ received_checksum' = 0
    BY <1>1 DEF reset_packet
  <1>4. SumOf(<<>>) = 0
    BY SumOfAppend
  <1>5. NoHash(<<>>)
    BY DEF NoHash
  <1>6. Receiving'
    BY <1>1, <1>3, <1>4, <1>5, ResetType DEF Receiving
  <1>7. Phase'
    BY <1>1, <1>6, ResetType DEF Phase
  <1> QED BY <1>2, <1>7 DEF IInv

(* The frame and the line are left alone.                                  *)
LEMMA KeepsStep ==
    ASSUME IInv, UNCHANGED <<frame, no_ack_mode, line, framed>>, client' \in BOOLEAN,
           client' => client, ack' \in {"none", "+", "-"}
    PROVE  IInv'
  <1>1. Types'
    BY DEF IInv, Types, frame
  <1>2. Phase'
    BY DEF IInv, Phase, Receiving, Reading, frame
  <1> QED BY <1>1, <1>2 DEF IInv

(* The line is one byte longer.                                            *)
LEMMA QuietFacts ==
    ASSUME IInv, NEW byte \in Bytes, Quiet(byte)
    PROVE  /\ client /\ client' = client /\ no_ack_mode' = no_ack_mode /\ framed' = framed
           /\ line' = Append(line, byte) /\ line \in Seq(Bytes) /\ line' \in Seq(Bytes)
           /\ ack' = "none" /\ handled' = <<>>
           /\ Len(line') = Len(line) + 1 /\ Len(line) \in Nat
           /\ DOMAIN line = 1 .. Len(line) /\ DOMAIN line' = 1 .. Len(line) + 1
           /\ \A k \in 1 .. Len(line) : line'[k] = line[k]
           /\ line'[Len(line) + 1] = byte
  <1>1. line \in Seq(Bytes)
    BY DEF IInv, Types
  <1>2. line' = Append(line, byte)
    BY DEF Quiet
  <1> QED BY <1>1, <1>2, AppendLine DEF Quiet

LEMMA EndStep == IInv /\ EndOfPacket => IInv'
  <1> SUFFICES ASSUME IInv, EndOfPacket PROVE IInv'
    OBVIOUS
  <1>1. /\ Quiet("#") /\ receiving_packet /\ receiving_packet' = FALSE
        /\ reading_checksum' = TRUE
        /\ UNCHANGED <<packet, checksum, received_checksum, checksum_digits>>
    BY DEF EndOfPacket
  <1>2. /\ client /\ framed' = framed /\ line' = Append(line, "#") /\ line \in Seq(Bytes)
        /\ line' \in Seq(Bytes) /\ Len(line') = Len(line) + 1 /\ Len(line) \in Nat
        /\ ack' = "none" /\ client' = client /\ no_ack_mode' = no_ack_mode
    BY <1>1, QuietFacts, ConstantTypes
  <1>3. Receiving
    BY <1>1, <1>2 DEF IInv, Phase
  <1>4. Types'
    BY <1>1, <1>2 DEF IInv, Types
  <1>5. Reading'
    <2> DEFINE h == Len(packet) + 1
    <2>1. packet = line /\ NoHash(line) /\ framed /\ checksum = SumOf(packet)
          /\ checksum_digits = 0 /\ received_checksum = 0
      BY <1>3 DEF Receiving
    <2>2. h = Len(line) + 1 /\ Len(packet') + 1 = h /\ h - 1 = Len(line)
      BY <1>1, <1>2, <2>1
    <2>3. FirstHash(line', h)
      BY <1>2, <2>1, <2>2, FirstHashAppend, ConstantTypes
    <2>4. SubSeq(line', 1, h - 1) = line
      <3>1. SubSeq(Append(line, "#"), 1, Len(line)) = line
        BY <1>2, ConstantTypes
      <3> QED BY <1>2, <2>2, <3>1
    <2> HIDE DEF h
    <2> QED BY <1>1, <1>2, <2>1, <2>2, <2>3, <2>4 DEF Reading, h
  <1>6. Phase'
    BY <1>1, <1>5 DEF Phase
  <1> QED BY <1>4, <1>6 DEF IInv

LEMMA ByteStep == ASSUME IInv, NEW byte \in Bytes, PacketByte(byte) PROVE IInv'
  <1>1. Quiet(byte) /\ receiving_packet /\ byte # "#"
    BY DEF PacketByte
  <1>2. /\ client /\ framed' = framed /\ line' = Append(line, byte) /\ line \in Seq(Bytes)
        /\ line' \in Seq(Bytes) /\ Len(line') = Len(line) + 1 /\ Len(line) \in Nat
        /\ DOMAIN line' = 1 .. Len(line) + 1
        /\ ack' = "none" /\ client' = client /\ no_ack_mode' = no_ack_mode
    BY <1>1, QuietFacts
  <1>3. /\ packet = line /\ NoHash(line) /\ framed /\ checksum = SumOf(packet)
        /\ checksum_digits = 0 /\ received_checksum = 0 /\ ~reading_checksum
    BY <1>1, <1>2 DEF IInv, Phase, Receiving
  <1>4. NoHash(line')
    BY <1>1, <1>2, <1>3, FirstHashAppend
  <1>5. CASE Len(packet) < Capacity - 1
    <2>1. /\ packet' = Append(packet, byte) /\ checksum' = (checksum + Value[byte]) % Word
          /\ UNCHANGED <<received_checksum, checksum_digits, receiving_packet, reading_checksum>>
      BY <1>5 DEF PacketByte
    <2>2. checksum' = SumOf(packet') /\ checksum' \in Checksums
      BY <1>2, <1>3, <2>1, SumOfAppend
    <2>3. packet' = line'
      BY <1>2, <1>3, <2>1
    <2>4. Len(packet') <= Capacity - 1
      BY <1>2, <1>3, <1>5, <2>3, ConstantTypes
    <2>5. Types'
      BY <1>2, <2>1, <2>2, <2>3, <2>4 DEF IInv, Types
    <2>6. Receiving'
      BY <1>2, <1>3, <1>4, <2>1, <2>2, <2>3 DEF Receiving
    <2>7. Phase'
      BY <1>1, <1>3, <2>1, <2>6 DEF Phase
    <2> QED BY <2>5, <2>7 DEF IInv
  <1>6. CASE ~(Len(packet) < Capacity - 1)
    <2>1. reset_packet(FALSE)
      BY <1>6 DEF PacketByte
    <2>2. Types'
      BY <1>2, <2>1, ResetType DEF IInv, Types
    <2>3. Lost(line')
      <3>1. Len(line') >= Capacity
        BY <1>2, <1>3, <1>6, ConstantTypes
      <3>2. \A k \in 1 .. Capacity : k \in DOMAIN line'
        BY <1>2, <3>1, ConstantTypes
      <3> QED BY <1>4, <3>1, <3>2 DEF Lost, TooLong, NoHash
    <2>4. Phase'
      BY <2>1, <2>3, ResetType DEF Phase
    <2> QED BY <2>2, <2>4 DEF IInv
  <1> QED BY <1>5, <1>6

(* The digits.                                                             *)
LEMMA NoDigitStep == ASSUME IInv, NEW byte \in Bytes, NoDigit(byte) PROVE IInv'
  <1>1. /\ Quiet(byte) /\ ~receiving_packet /\ reading_checksum /\ Digit[byte] < 0
        /\ reset_packet(FALSE)
    BY DEF NoDigit
  <1>2. /\ client /\ framed' = framed /\ line' = Append(line, byte) /\ line \in Seq(Bytes)
        /\ line' \in Seq(Bytes) /\ Len(line') = Len(line) + 1 /\ Len(line) \in Nat
        /\ line'[Len(line) + 1] = byte /\ DOMAIN line' = 1 .. Len(line) + 1
        /\ ack' = "none" /\ client' = client /\ no_ack_mode' = no_ack_mode
    BY <1>1, QuietFacts
  <1>3. Reading
    BY <1>1, <1>2 DEF IInv, Phase
  <1>4. Types'
    BY <1>1, <1>2, ResetType DEF IInv, Types
  <1>5. Lost(line')
    <2> DEFINE h == Len(packet) + 1
    <2>1. /\ FirstHash(line, h) /\ checksum_digits \in {0, 1}
          /\ Len(line) = h + checksum_digits
      BY <1>3 DEF Reading
    <2>2. h \in DOMAIN line /\ h \in Nat
      BY <1>2, <2>1 DEF FirstHash
    <2> HIDE DEF h
    <2>3. FirstHash(line', h)
      BY <1>2, <2>1, <2>2, FirstHashAppend
    <2>4. h \in DOMAIN line'
      BY <2>3 DEF FirstHash
    <2>5. CASE checksum_digits = 0
      <3>1. Len(line') >= h + 1 /\ line'[h + 1] = byte
        BY <1>2, <2>1, <2>2, <2>5
      <3>2. Digit[line'[h + 1]] < 0
        BY <1>1, <3>1
      <3> QED BY <2>3, <2>4, <3>1, <3>2 DEF Lost
    <2>6. CASE checksum_digits = 1
      <3>1. Len(line') >= h + 2
        BY <1>2, <2>1, <2>2, <2>6
      <3> QED BY <2>3, <2>4, <3>1 DEF Lost
    <2> QED BY <2>1, <2>5, <2>6
  <1>6. Phase'
    BY <1>1, <1>5, ResetType DEF Phase
  <1> QED BY <1>4, <1>6 DEF IInv

LEMMA ReceivedType ==
    ASSUME Types, NEW byte \in Bytes
    PROVE  Received(byte) \in Checksums
  <1>1. Word \in Nat \ {0} /\ HexBase \in Nat
    BY WordType
  <1>2. received_checksum \in Nat
    BY <1>1 DEF Types, Checksums
  <1>3. Digit[byte] \in Int
    BY ByteTypes
  <1>4. received_checksum * HexBase \in Nat
    BY <1>1, <1>2, \A m, n \in Nat : m * n \in Nat
  <1> DEFINE x == received_checksum * HexBase + Digit[byte]
  <1>5. x \in Int
    BY <1>3, <1>4
  <1> HIDE DEF x
  <1>6. x % Word \in Checksums
    BY <1>1, <1>5 DEF Checksums
  <1> QED BY <1>6 DEF Received, x

(* Where the receiver reads digits, and the line with the next byte.       *)
LEMMA DigitFacts ==
    ASSUME IInv, client, reading_checksum, NEW byte \in Bytes, Digit[byte] >= 0
    PROVE  LET h == Len(packet) + 1
               m == Append(line, byte)
           IN  /\ framed /\ h \in Nat /\ h <= Capacity /\ h \in DOMAIN line
               /\ FirstHash(line, h) /\ FirstHash(m, h)
               /\ packet = SubSeq(line, 1, h - 1) /\ packet = SubSeq(m, 1, h - 1)
               /\ checksum = SumOf(packet)
               /\ Len(line) = h + checksum_digits /\ Len(m) = Len(line) + 1
               /\ m[Len(line) + 1] = byte
               /\ \A k \in 1 .. Len(line) : m[k] = line[k]
               /\ checksum_digits = 0 => Received(byte) = Digit[byte]
               /\ checksum_digits = 1 =>
                    /\ Digit[line[h + 1]] >= 0
                    /\ Received(byte) = Digit[line[h + 1]] * HexBase + Digit[byte]
  <1> DEFINE h == Len(packet) + 1
             m == Append(line, byte)
  <1>1. /\ line \in Seq(Bytes) /\ packet \in Seq(Bytes) /\ Len(packet) <= Capacity - 1
        /\ checksum_digits \in 0 .. 2
    BY DEF IInv, Types
  <1>2. Reading
    BY DEF IInv, Phase
  <1>3. /\ framed /\ FirstHash(line, h) /\ packet = SubSeq(line, 1, h - 1)
        /\ checksum = SumOf(packet) /\ checksum_digits \in {0, 1}
        /\ Len(line) = h + checksum_digits
        /\ checksum_digits = 0 => received_checksum = 0
        /\ checksum_digits = 1 => /\ Digit[line[h + 1]] >= 0
                                  /\ received_checksum = Digit[line[h + 1]]
    BY <1>2 DEF Reading
  <1>4. /\ Len(m) = Len(line) + 1 /\ \A k \in 1 .. Len(line) : m[k] = line[k]
        /\ m[Len(line) + 1] = byte /\ Len(line) \in Nat /\ DOMAIN line = 1 .. Len(line)
    BY <1>1, AppendLine
  <1>5. h \in DOMAIN line
    BY <1>3 DEF FirstHash
  <1>6. FirstHash(m, h)
    BY <1>1, <1>3, <1>5, FirstHashAppend
  <1>7. h \in Nat /\ h <= Capacity
    <2>1. Len(packet) \in Nat /\ Capacity \in Nat
      BY <1>1, ConstantTypes
    <2> QED BY <1>1, <2>1
  <1> HIDE DEF h
  <1>8. packet = SubSeq(m, 1, h - 1)
    <2>1. h - 1 \in 0 .. Len(line)
      BY <1>4, <1>5
    <2>2. SubSeq(Append(line, byte), 1, h - 1) = SubSeq(line, 1, h - 1)
      BY <1>1, <1>4, <2>1
    <2> QED BY <1>3, <2>2
  <1>9. Digit[byte] \in 0 .. HexBase - 1
    <2>1. Digit[byte] \in Int /\ Digit[byte] < HexBase /\ HexBase \in Nat
      BY ByteTypes, WordType
    <2> QED BY <2>1
  <1>10. ASSUME checksum_digits = 0 PROVE Received(byte) = Digit[byte]
    <2>1. 0 \in 0 .. HexBase - 1 /\ 0 * HexBase + Digit[byte] = Digit[byte]
      BY <1>9, WordType
    <2>2. (0 * HexBase + Digit[byte]) % Word = 0 * HexBase + Digit[byte]
      BY <1>9, <2>1, TwoDigits
    <2>3. received_checksum = 0
      BY <1>3, <1>10
    <2> QED BY <2>1, <2>2, <2>3 DEF Received
  <1>11. ASSUME checksum_digits = 1
         PROVE  /\ Digit[line[h + 1]] >= 0
                /\ Received(byte) = Digit[line[h + 1]] * HexBase + Digit[byte]
    <2> DEFINE d == Digit[line[h + 1]]
    <2>1. d >= 0 /\ received_checksum = d
      BY <1>3, <1>11
    <2>2. h + 1 \in 1 .. Len(line)
      BY <1>3, <1>4, <1>7, <1>11
    <2>3. line[h + 1] \in Bytes
      BY <1>1, <2>2
    <2>4. d \in Int /\ d < HexBase /\ HexBase \in Nat
      BY <2>3, ByteTypes, WordType
    <2> HIDE DEF d
    <2>5. d \in 0 .. HexBase - 1
      BY <2>1, <2>4
    <2>6. (d * HexBase + Digit[byte]) % Word = d * HexBase + Digit[byte]
      BY <1>9, <2>5, TwoDigits
    <2>7. Received(byte) = d * HexBase + Digit[byte]
      BY <2>1, <2>6 DEF Received
    <2> QED BY <2>1, <2>7 DEF d
  <1> HIDE DEF m
  <1> QED BY <1>3, <1>4, <1>5, <1>6, <1>7, <1>8, <1>10, <1>11 DEF h, m

LEMMA FirstDigitStep == ASSUME IInv, NEW byte \in Bytes, FirstDigit(byte) PROVE IInv'
  <1> DEFINE h == Len(packet) + 1
  <1>1. /\ Quiet(byte) /\ ~receiving_packet /\ reading_checksum /\ checksum_digits = 0
        /\ Digit[byte] >= 0 /\ received_checksum' = Received(byte) /\ checksum_digits' = 1
        /\ UNCHANGED <<packet, checksum, receiving_packet, reading_checksum>>
    BY DEF FirstDigit
  <1>2. /\ client /\ framed' = framed /\ line' = Append(line, byte)
        /\ line' \in Seq(Bytes)
        /\ ack' = "none" /\ client' = client /\ no_ack_mode' = no_ack_mode
    BY <1>1, QuietFacts
  <1>3. /\ framed /\ h \in Nat /\ FirstHash(line', h) /\ packet = SubSeq(line', 1, h - 1)
        /\ checksum = SumOf(packet) /\ Len(line) = h + checksum_digits
        /\ Len(line') = Len(line) + 1 /\ line'[Len(line) + 1] = byte
        /\ Received(byte) = Digit[byte]
    BY <1>1, <1>2, DigitFacts
  <1>4. Len(line') = h + 1 /\ line'[h + 1] = byte
    BY <1>1, <1>3
  <1>5. Types'
    BY <1>1, <1>2, ReceivedType DEF IInv, Types
  <1>6. Len(packet') + 1 = h
    BY <1>1
  <1> HIDE DEF h
  <1>7. Reading'
    BY <1>1, <1>2, <1>3, <1>4, <1>6 DEF Reading
  <1>8. Phase'
    BY <1>1, <1>7 DEF Phase
  <1> QED BY <1>5, <1>8 DEF IInv

LEMMA LastDigitStep == ASSUME IInv, NEW byte \in Bytes, LastDigit(byte) PROVE IInv'
  <1> DEFINE h == Len(packet) + 1
  <1>1. /\ client /\ ~receiving_packet /\ reading_checksum /\ checksum_digits = 1
        /\ Digit[byte] >= 0 /\ received_checksum' = Received(byte) /\ checksum_digits' = 2
        /\ reading_checksum' = FALSE /\ line' = Append(line, byte)
        /\ UNCHANGED <<packet, checksum, receiving_packet, framed>>
    BY DEF LastDigit
  <1>2. client' \in BOOLEAN /\ no_ack_mode' \in BOOLEAN
    <2>1. no_ack_mode \in BOOLEAN
      BY DEF IInv, Types
    <2> QED BY <1>1, <2>1 DEF LastDigit, Handle
  <1>3. ack' \in {"none", "+", "-"}
    BY DEF LastDigit, Acknowledge
  <1>4. line \in Seq(Bytes) /\ line' \in Seq(Bytes)
    BY <1>1, AppendLine DEF IInv, Types
  <1>5. Types'
    <2>1. Types
      BY DEF IInv
    <2>2. received_checksum' \in Checksums
      BY <1>1, <2>1, ReceivedType
    <2>3. checksum_digits' \in 0 .. 2
      BY <1>1
    <2> QED BY <1>1, <1>2, <1>3, <1>4, <2>1, <2>2, <2>3, Zenon DEF Types
  <1>6. Lost(line')
    <2>1. /\ h \in Nat /\ FirstHash(line', h) /\ Len(line) = h + checksum_digits
          /\ Len(line') = Len(line) + 1
      BY <1>1, DigitFacts
    <2>2. Len(line') >= h + 2 /\ h \in DOMAIN line'
      BY <1>1, <2>1 DEF FirstHash
    <2> HIDE DEF h
    <2> QED BY <2>1, <2>2 DEF Lost
  <1>7. Phase'
    BY <1>1, <1>6 DEF Phase
  <1> QED BY <1>5, <1>7 DEF IInv

LEMMA FailsStep == ASSUME IInv, NEW byte \in Bytes, LastDigitFails(byte) PROVE IInv'
  <1>1. /\ received_checksum' = Received(byte) /\ checksum_digits' = 2
        /\ client' = FALSE /\ ack' = "none"
        /\ UNCHANGED <<packet, checksum, receiving_packet, reading_checksum, no_ack_mode,
                       line, framed>>
    BY DEF LastDigitFails
  <1>2. Types'
    <2>1. Types
      BY DEF IInv
    <2>2. received_checksum' \in Checksums
      BY <1>1, <2>1, ReceivedType
    <2>3. checksum_digits' \in 0 .. 2
      BY <1>1
    <2> QED BY <1>1, <2>1, <2>2, <2>3, Zenon DEF Types
  <1> QED BY <1>1, <1>2 DEF IInv, Phase

LEMMA NoiseStep == ASSUME IInv, NEW byte \in Bytes, Noise(byte) PROVE IInv'
  <1>1. Quiet(byte) /\ ~receiving_packet /\ ~reading_checksum /\ UNCHANGED frame
    BY DEF Noise
  <1>2. /\ client /\ framed' = framed /\ line' = Append(line, byte) /\ line \in Seq(Bytes)
        /\ line' \in Seq(Bytes)
        /\ ack' = "none" /\ client' = client /\ no_ack_mode' = no_ack_mode
    BY <1>1, QuietFacts
  <1>3. ~framed \/ Lost(line')
    BY <1>1, <1>2, LostStays DEF IInv, Phase
  <1>4. Types'
    BY <1>1, <1>2 DEF IInv, Types, frame
  <1>5. Phase'
    BY <1>1, <1>2, <1>3 DEF Phase, frame
  <1> QED BY <1>4, <1>5 DEF IInv

LEMMA NextStep == IInv /\ [Next]_vars => IInv'
  <1> SUFFICES ASSUME IInv, [Next]_vars PROVE IInv'
    OBVIOUS
  <1>1. CASE Connect
    BY <1>1, ConnectStep
  <1>2. CASE Disconnect
    BY <1>2, KeepsStep DEF Disconnect
  <1>3. CASE Interrupt
    BY <1>3, KeepsStep DEF Interrupt
  <1>4. CASE Start
    BY <1>4, StartStep
  <1>5. CASE EndOfPacket
    BY <1>5, EndStep
  <1>6. ASSUME NEW byte \in Bytes,
               \/ PacketByte(byte) \/ NoDigit(byte) \/ FirstDigit(byte)
               \/ LastDigit(byte) \/ LastDigitFails(byte) \/ Noise(byte)
        PROVE  IInv'
    BY <1>6, ByteStep, NoDigitStep, FirstDigitStep, LastDigitStep, FailsStep, NoiseStep
  <1>7. CASE UNCHANGED vars
    BY <1>7, KeepsStep DEF vars, IInv, Types
  <1> QED BY <1>1, <1>2, <1>3, <1>4, <1>5, <1>6, <1>7 DEF Next, receive_byte

LEMMA InitOK == Init => IInv
  <1> SUFFICES ASSUME Init PROVE IInv
    OBVIOUS
  <1>1. Len(packet) <= Capacity - 1 /\ packet \in Seq(Bytes) /\ line \in Seq(Bytes)
    BY ConstantTypes DEF Init
  <1>2. checksum \in Checksums /\ received_checksum \in Checksums
    BY ConstantTypes, Zenon DEF Init
  <1>3. checksum_digits \in 0 .. 2
    BY DEF Init
  <1>4. Types
    BY <1>1, <1>2, <1>3, Zenon DEF Init, Types
  <1> QED BY <1>4 DEF Init, IInv, Phase

(* Type correctness, with the packet in its array, and what the flags of   *)
(* the receiver say about the line, whatever has come.                     *)
THEOREM ReceiverInvariance == Spec => []IInv
  BY InitOK, NextStep, PTL DEF Spec

-----------------------------------------------------------------------------
(* What the receiver has done with the last byte, told of the line.        *)
Told ==
    /\ handled # <<>> =>
         /\ framed
         /\ \E h \in DOMAIN line :
               FrameAt(line, h) /\ GoodAt(line, h) /\ handled = <<SubSeq(line, 1, h - 1)>>
    /\ ack = "+" => handled # <<>>
    /\ ack = "-" => /\ handled = <<>> /\ framed /\ ~no_ack_mode
                    /\ \E h \in DOMAIN line : FrameAt(line, h) /\ ~GoodAt(line, h)
    /\ handled # <<>> /\ ack = "none" => no_ack_mode
    /\ ack = "+" /\ no_ack_mode => handled = <<NoAckCommand>>

LEMMA QuietTold == ack' = "none" /\ handled' = <<>> => Told'
  BY DEF Told

(* The last digit of a frame completes it, and the checksums compare as    *)
(* the line says.                                                          *)
LEMMA LastDigitFrame ==
    ASSUME IInv, NEW byte \in Bytes, LastDigit(byte)
    PROVE  LET h == Len(packet) + 1 IN
           /\ h \in DOMAIN line' /\ FrameAt(line', h) /\ framed'
           /\ packet = SubSeq(line', 1, h - 1)
           /\ GoodAt(line', h) <=> Received(byte) = checksum
  <1> DEFINE h == Len(packet) + 1
             m == Append(line, byte)
  <1>1. /\ client /\ reading_checksum /\ checksum_digits = 1 /\ Digit[byte] >= 0
        /\ line' = m /\ framed' = framed
    BY DEF LastDigit
  <1>2. /\ framed /\ h \in Nat /\ h <= Capacity /\ FirstHash(m, h)
        /\ packet = SubSeq(m, 1, h - 1) /\ checksum = SumOf(packet)
        /\ Len(line) = h + checksum_digits /\ Len(m) = Len(line) + 1
        /\ m[Len(line) + 1] = byte
        /\ \A k \in 1 .. Len(line) : m[k] = line[k]
        /\ Digit[line[h + 1]] >= 0
        /\ Received(byte) = Digit[line[h + 1]] * HexBase + Digit[byte]
    BY <1>1, DigitFacts
  <1> HIDE DEF h, m
  <1>3. /\ Len(m) = h + 2 /\ m[h + 2] = byte /\ h + 1 \in 1 .. Len(line)
    <2>1. Len(line) = h + 1 /\ Len(line) + 1 = h + 2
      BY <1>1, <1>2
    <2> QED BY <1>2, <2>1
  <1>4. m[h + 1] = line[h + 1]
    BY <1>2, <1>3
  <1>5. FrameAt(m, h)
    BY <1>1, <1>2, <1>3, <1>4 DEF FrameAt
  <1>6. GoodAt(m, h) <=> Received(byte) = checksum
    BY <1>2, <1>3, <1>4 DEF GoodAt
  <1>7. h \in DOMAIN m
    BY <1>2 DEF FirstHash
  <1> QED BY <1>1, <1>2, <1>5, <1>6, <1>7 DEF h

LEMMA LastDigitTold == ASSUME IInv, NEW byte \in Bytes, LastDigit(byte) PROVE Told'
  <1> DEFINE h == Len(packet) + 1
             valid == Received(byte) = checksum
  <1>1. /\ h \in DOMAIN line' /\ FrameAt(line', h) /\ framed'
        /\ packet = SubSeq(line', 1, h - 1)
        /\ GoodAt(line', h) <=> valid
    BY LastDigitFrame
  <1>2. /\ ack' = IF no_ack_mode THEN "none" ELSE IF valid THEN "+" ELSE "-"
        /\ valid => handled' = <<packet>>
                    /\ no_ack_mode' = (no_ack_mode \/ packet = NoAckCommand)
        /\ ~valid => handled' = <<>> /\ no_ack_mode' = no_ack_mode
    BY DEF LastDigit, Acknowledge, Handle
  <1>3. no_ack_mode \in BOOLEAN
    BY DEF IInv, Types
  <1> HIDE DEF h, valid
  <1>4. CASE valid
    <2>1. handled' = <<packet>> /\ handled' # <<>>
      BY <1>2, <1>4
    <2>2. ack' # "-" /\ (ack' = "none" => no_ack_mode')
          /\ (ack' = "+" /\ no_ack_mode' => packet = NoAckCommand)
      BY <1>2, <1>3, <1>4
    <2>3. \E g \in DOMAIN line' :
             FrameAt(line', g) /\ GoodAt(line', g) /\ handled' = <<SubSeq(line', 1, g - 1)>>
      BY <1>1, <1>4, <2>1
    <2> QED BY <1>1, <2>1, <2>2, <2>3 DEF Told
  <1>5. CASE ~valid
    <2>1. handled' = <<>> /\ ack' # "+" /\ (ack' = "-" => ~no_ack_mode')
      BY <1>2, <1>3, <1>5
    <2>2. \E g \in DOMAIN line' : FrameAt(line', g) /\ ~GoodAt(line', g)
      BY <1>1, <1>5
    <2> QED BY <1>1, <2>1, <2>2 DEF Told
  <1> QED BY <1>4, <1>5

LEMMA ToldStep == IInv /\ Told /\ [Next]_vars => Told'
  <1> SUFFICES ASSUME IInv, Told, [Next]_vars PROVE Told'
    OBVIOUS
  <1>1. CASE Connect \/ Disconnect \/ Interrupt \/ Start \/ EndOfPacket
    BY <1>1, QuietTold DEF Connect, Disconnect, Interrupt, Start, EndOfPacket, Quiet
  <1>2. ASSUME NEW byte \in Bytes,
               \/ PacketByte(byte) \/ NoDigit(byte) \/ FirstDigit(byte)
               \/ LastDigitFails(byte) \/ Noise(byte)
        PROVE  Told'
    BY <1>2, QuietTold DEF PacketByte, NoDigit, FirstDigit, LastDigitFails, Noise, Quiet
  <1>3. ASSUME NEW byte \in Bytes, LastDigit(byte) PROVE Told'
    BY <1>3, LastDigitTold
  <1>4. CASE UNCHANGED vars
    BY <1>4 DEF vars, Told
  <1> QED BY <1>1, <1>2, <1>3, <1>4 DEF Next, receive_byte

LEMMA ToldInvariance == Spec => [](IInv /\ Told)
  <1>1. Init => Told
    BY DEF Init, Told
  <1> QED BY <1>1, ToldStep, ReceiverInvariance, PTL DEF Spec

(* A packet is handled only when the bytes since the last $ are a frame    *)
(* with its right checksum, and with exactly its contents.                 *)
THEOREM HandlesTheorem == Spec => []HandlesFrames
  <1>1. ASSUME IInv, Told, NEW p \in Range(handled)
        PROVE  IsFrame /\ IsValid /\ p = Contents
    <2>1. line \in Seq(Bytes)
      BY <1>1 DEF IInv, Types
    <2>2. handled # <<>>
      BY <1>1 DEF Range
    <2>3. PICK h \in DOMAIN line :
             FrameAt(line, h) /\ GoodAt(line, h) /\ handled = <<SubSeq(line, 1, h - 1)>>
      BY <1>1, <2>2 DEF Told
    <2>4. framed /\ FirstHash(line, h)
      BY <1>1, <2>2, <2>3 DEF Told, FrameAt
    <2>5. IsFrame /\ IsValid /\ Contents = SubSeq(line, 1, h - 1)
      BY <2>1, <2>3, <2>4, FrameIs
    <2>6. p = SubSeq(line, 1, h - 1)
      BY <1>1, <2>3 DEF Range
    <2> QED BY <2>5, <2>6
  <1>2. IInv /\ Told => HandlesFrames
    BY <1>1 DEF HandlesFrames
  <1> QED BY <1>2, ToldInvariance, PTL

(* GDB is told the truth about every frame, once, and nothing else.        *)
THEOREM AckTheorem == Spec => []AckTellsFrame
  <1>1. ASSUME IInv, Told PROVE AckTellsFrame
    <2>1. line \in Seq(Bytes)
      BY <1>1 DEF IInv, Types
    <2>2. ASSUME ack = "+" PROVE IsFrame /\ IsValid /\ handled = <<Contents>>
      <3>1. PICK h \in DOMAIN line :
               FrameAt(line, h) /\ GoodAt(line, h) /\ handled = <<SubSeq(line, 1, h - 1)>>
        BY <1>1, <2>2 DEF Told
      <3>2. framed /\ FirstHash(line, h)
        BY <1>1, <2>2, <3>1 DEF Told, FrameAt
      <3> QED BY <2>1, <3>1, <3>2, FrameIs
    <2>3. ASSUME ack = "-" PROVE IsFrame /\ ~IsValid /\ handled = << >>
      <3>1. PICK h \in DOMAIN line : FrameAt(line, h) /\ ~GoodAt(line, h)
        BY <1>1, <2>3 DEF Told
      <3>2. framed /\ FirstHash(line, h) /\ handled = <<>>
        BY <1>1, <2>3, <3>1 DEF Told, FrameAt
      <3> QED BY <2>1, <3>1, <3>2, FrameIs
    <2> QED BY <1>1, <2>2, <2>3 DEF Told, AckTellsFrame
  <1> QED BY <1>1, ToldInvariance, PTL

(* Every frame leads to something: the byte that completes it has a packet *)
(* handled, or the sender told.                                            *)
THEOREM NoFrameLostTheorem == Spec => NoFrameLost
  <1> DEFINE Answered == IF IsValid' THEN handled' # << >> ELSE no_ack_mode \/ ack' = "-"
             Heard == line' # line /\ client' /\ IsFrame' => Answered
  <1>1. ASSUME IInv, IInv', [Next]_vars, line' # line, client', IsFrame' PROVE Answered
    <2>1. line \in Seq(Bytes) /\ line' \in Seq(Bytes)
      BY <1>1 DEF IInv, Types
    <2>2. framed' /\ \E h \in DOMAIN line' : FrameAt(line', h)
      BY <1>1, <2>1, FrameIsNext
    <2>3. PICK h \in DOMAIN line' : FrameAt(line', h)
      BY <2>2
    <2>4. ASSUME NEW byte \in Bytes, line' = Append(line, byte)
          PROVE  /\ h \in DOMAIN line /\ FirstHash(line, h) /\ Len(line) = h + 1
                 /\ Digit[byte] >= 0
      BY <2>1, <2>3, <2>4, FrameAppend
    <2>5. ~Connect /\ ~Start
      <3>1. line' # <<>>
        BY <2>1, <2>3 DEF FrameAt
      <3> QED BY <3>1 DEF Connect, Start
    <2>6. ~Disconnect /\ ~Interrupt /\ ~UNCHANGED vars
      BY <1>1 DEF Disconnect, Interrupt, vars
    <2>7. ~EndOfPacket
      <3> SUFFICES ASSUME EndOfPacket PROVE FALSE
        OBVIOUS
      <3>1. line' = Append(line, "#")
        BY DEF EndOfPacket, Quiet
      <3> QED BY <2>4, <3>1, ConstantTypes
    <2>8. ASSUME NEW byte \in Bytes,
                 \/ PacketByte(byte) \/ NoDigit(byte) \/ FirstDigit(byte) \/ Noise(byte)
          PROVE  FALSE
      <3>1. client /\ line' = Append(line, byte) /\ framed' = framed
        BY <2>8 DEF PacketByte, NoDigit, FirstDigit, Noise, Quiet
      <3>2. /\ h \in DOMAIN line /\ FirstHash(line, h) /\ Len(line) = h + 1
            /\ Digit[byte] >= 0
        BY <2>4, <3>1
      <3>3. Digit[byte] \in Int
        BY ByteTypes
      <3>4. CASE PacketByte(byte)
        BY <1>1, <3>1, <3>2, <3>4 DEF PacketByte, IInv, Phase, Receiving, NoHash, FirstHash
      <3>5. CASE NoDigit(byte)
        BY <3>2, <3>3, <3>5 DEF NoDigit
      <3>6. CASE FirstDigit(byte)
        <4>1. Reading /\ checksum_digits = 0
          BY <1>1, <3>1, <3>6 DEF FirstDigit, IInv, Phase
        <4>2. FirstHash(line, Len(packet) + 1) /\ Len(line) = (Len(packet) + 1) + 0
          BY <4>1 DEF Reading
        <4>3. Len(packet) + 1 = h
          BY <2>1, <3>2, <4>2, FirstHashUnique
        <4> QED BY <2>1, <3>2, <4>2, <4>3
      <3>7. CASE Noise(byte)
        <4>1. Lost(line)
          BY <1>1, <2>2, <3>1, <3>7 DEF Noise, IInv, Phase
        <4> QED BY <2>1, <2>3, <3>1, <4>1, LostStays
      <3> QED BY <2>8, <3>4, <3>5, <3>6, <3>7
    <2>9. ASSUME NEW byte \in Bytes, LastDigitFails(byte) PROVE FALSE
      BY <1>1, <2>9 DEF LastDigitFails
    <2>10. PICK byte \in Bytes : LastDigit(byte)
      BY <1>1, <2>5, <2>6, <2>7, <2>8, <2>9 DEF Next, receive_byte
    <2> DEFINE g == Len(packet) + 1
    <2>11. /\ g \in DOMAIN line' /\ FrameAt(line', g)
           /\ GoodAt(line', g) <=> Received(byte) = checksum
      BY <1>1, <2>10, LastDigitFrame
    <2> HIDE DEF g
    <2>12. IsValid' <=> GoodAt(line', g)
      BY <2>1, <2>11, FrameIsNext DEF FrameAt
    <2>13. CASE IsValid'
      <3>1. handled' = <<packet>>
        BY <2>10, <2>11, <2>12, <2>13 DEF LastDigit, Handle
      <3> QED BY <2>13, <3>1
    <2>14. CASE ~IsValid'
      <3>1. no_ack_mode \/ ack' = "-"
        BY <2>10, <2>11, <2>12, <2>14 DEF LastDigit, Acknowledge
      <3> QED BY <2>14, <3>1
    <2> QED BY <2>13, <2>14
  <1>2. IInv /\ IInv' /\ [Next]_vars => [Heard]_vars
    BY <1>1
  <1> QED BY <1>2, ReceiverInvariance, PTL DEF Spec, NoFrameLost

=============================================================================
