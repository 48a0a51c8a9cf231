-------------------------- MODULE SealedFrames_proofs --------------------------
(***************************************************************************)
(* SealedFrames implements FrameChannel and fails only for a reason, for   *)
(* frames of any lengths, any number of them and any number of changed     *)
(* bytes.                                                                  *)
(*                                                                         *)
(* The argument is about addresses.  Frame i starts behind the base[i]     *)
(* bytes of the frames before it; whatever is cut, the bytes that are      *)
(* unread have the addresses that follow the place where the reader        *)
(* stands, and an address determines the byte.                             *)
(***************************************************************************)
EXTENDS SealedFrames, SequenceTheorems, TLAPS

USE FrameAssumption

-----------------------------------------------------------------------------
(* Addresses. *)

Bytes == [frame : Nat \ {0}, pos : Nat \ {0}, intact : BOOLEAN]

FrameLen(lengths, i) == HeaderLen + BodyLen(lengths[i])

(* The frames of these lengths follow one another. *)
Laid(lengths, base) ==
  /\ base \in [Nat -> Nat]
  /\ \A i \in 1..Len(lengths) : base[i + 1] = base[i] + FrameLen(lengths, i)
  /\ \A i \in 1..Len(lengths), k \in 1..(Len(lengths) + 1) :
       i < k => base[i] + FrameLen(lengths, i) <= base[k]

(* The bytes of s are those that follow address c. *)
Follow(lengths, base, s, c) ==
  \A j \in 1..Len(s) :
    /\ s[j].frame \in 1..Len(lengths)
    /\ s[j].pos <= FrameLen(lengths, s[j].frame)
    /\ base[s[j].frame] + s[j].pos = c + j

LEMMA Lengthy ==
  ASSUME NEW lengths \in Seq(Nat), NEW i \in 1..Len(lengths)
  PROVE  /\ lengths[i] \in Nat /\ BodyLen(lengths[i]) \in Nat
         /\ BodyLen(lengths[i]) >= NonceSize
         /\ FrameLen(lengths, i) = HeaderLen + BodyLen(lengths[i])
         /\ FrameLen(lengths, i) \in Nat /\ FrameLen(lengths, i) > HeaderLen
<1>1. lengths[i] \in Nat
  BY ElementOfSeq
<1>2. PICK n \in Nat : n = lengths[i]
  BY <1>1
<1>3. /\ BodyLen(n) \in Nat /\ BodyLen(n) >= NonceSize
      /\ HeaderLen + BodyLen(n) \in Nat /\ HeaderLen + BodyLen(n) > HeaderLen
  BY DEF BodyLen
<1> QED BY <1>2, <1>3 DEF FrameLen

(* An address within frame i belongs to frame i. *)
LEMMA AddressDetermines ==
  ASSUME NEW lengths \in Seq(Nat), NEW base, Laid(lengths, base),
         NEW f \in 1..Len(lengths), NEW q \in Nat \ {0}, q <= FrameLen(lengths, f),
         NEW i \in 1..Len(lengths), NEW p \in Nat \ {0}, p <= FrameLen(lengths, i),
         base[f] + q = base[i] + p
  PROVE  f = i /\ q = p
<1>1. /\ FrameLen(lengths, f) \in Nat /\ FrameLen(lengths, i) \in Nat
      /\ base[f] \in Nat /\ base[i] \in Nat
      /\ f \in Nat /\ i \in Nat
  BY Lengthy, LenProperties DEF Laid
<1>2. f < i => base[f] + FrameLen(lengths, f) <= base[i]
  BY LenProperties DEF Laid
<1>3. i < f => base[i] + FrameLen(lengths, i) <= base[f]
  BY LenProperties DEF Laid
<1>4. f = i
  <2>1. q > 0 /\ p > 0 /\ q \in Nat /\ p \in Nat
    OBVIOUS
  <2>2. PICK a \in Nat, b \in Nat : a = base[f] /\ b = base[i]
    BY <1>1
  <2>3. PICK m \in Nat, n \in Nat : m = FrameLen(lengths, f) /\ n = FrameLen(lengths, i)
    BY <1>1
  <2>4. a + q = b + p /\ q <= m /\ p <= n
    BY <2>2, <2>3
  <2>5. CASE f < i
    <3>1. a + m <= b
      BY <1>2, <2>2, <2>3, <2>5
    <3> QED BY <2>1, <2>4, <3>1
  <2>6. CASE i < f
    <3>1. b + n <= a
      BY <1>3, <2>2, <2>3, <2>6
    <3> QED BY <2>1, <2>4, <3>1
  <2> QED BY <1>1, <2>5, <2>6
<1> QED BY <1>1, <1>4

(* One more frame gets an address and moves none. *)
LEMMA Extended ==
  ASSUME NEW lengths \in Seq(Nat), NEW n \in Nat, NEW base, Laid(lengths, base)
  PROVE  \E wider :
           /\ Laid(Append(lengths, n), wider)
           /\ \A i \in 1..(Len(lengths) + 1) : wider[i] = base[i]
<1> DEFINE N == Len(lengths)
           more == Append(lengths, n)
           end == base[N + 1] + HeaderLen + BodyLen(n)
           wider == [base EXCEPT ![N + 2] = end]
<1>1. /\ N \in Nat /\ Len(more) = N + 1 /\ more \in Seq(Nat)
      /\ \A i \in 1..N : more[i] = lengths[i]
      /\ more[N + 1] = n
  BY AppendProperties, LenProperties
<1>2. /\ \A i \in 1..N : FrameLen(more, i) = FrameLen(lengths, i)
      /\ FrameLen(more, N + 1) = HeaderLen + BodyLen(n)
      /\ BodyLen(n) \in Nat
  BY <1>1 DEF FrameLen, BodyLen
<1>3. /\ base \in [Nat -> Nat] /\ end \in Nat /\ base[N + 1] \in Nat
      /\ wider \in [Nat -> Nat] /\ wider[N + 2] = end
      /\ \A i \in 1..(N + 1) : wider[i] = base[i]
  <2>1. base \in [Nat -> Nat] /\ N + 1 \in Nat /\ N + 2 \in Nat
    <3>1. base \in [Nat -> Nat]
      BY DEF Laid
    <3>2. N \in Nat
      BY <1>1
    <3> HIDE DEF N
    <3> QED BY <3>1, <3>2
  <2>2. base[N + 1] \in Nat /\ end \in Nat
    <3>1. base[N + 1] \in Nat
      BY <2>1
    <3>2. HeaderLen \in Nat /\ BodyLen(n) \in Nat
      BY <1>2
    <3> HIDE DEF N
    <3> QED BY <3>1, <3>2
  <2> HIDE DEF end
  <2>3. \A i \in 1..(N + 1) : i \in Nat /\ i # N + 2
    BY <1>1
  <2> QED BY <2>1, <2>2, <2>3
<1> HIDE DEF wider, more
<1>4. end = base[N + 1] + FrameLen(more, N + 1)
  <2>1. base[N + 1] \in Nat /\ BodyLen(n) \in Nat /\ HeaderLen \in Nat
    BY <1>2, <1>3
  <2>2. FrameLen(more, N + 1) = HeaderLen + BodyLen(n)
    BY <1>2
  <2> HIDE DEF N
  <2>3. base[N + 1] + HeaderLen + BodyLen(n) = base[N + 1] + (HeaderLen + BodyLen(n))
    BY <2>1
  <2> QED BY <2>2, <2>3
<1> HIDE DEF end, N
<1>5. ASSUME NEW i \in 1..(N + 1)
      PROVE  wider[i + 1] = wider[i] + FrameLen(more, i)
  <2>1. CASE i = N + 1
    <3>1. i + 1 = N + 2
      BY <1>1, <2>1
    <3> QED BY <1>3, <1>4, <2>1, <3>1
  <2>2. CASE i # N + 1
    <3>1. i \in 1..N /\ i + 1 \in 1..(N + 1)
      BY <1>1, <2>2
    <3> QED BY <1>2, <1>3, <3>1 DEF Laid, N
  <2> QED BY <2>1, <2>2
<1>6. ASSUME NEW i \in 1..(N + 1), NEW k \in 1..(N + 2), i < k
      PROVE  wider[i] + FrameLen(more, i) <= wider[k]
  <2>1. CASE i = N + 1
    <3>1. k = N + 2
      BY <1>1, <1>6, <2>1
    <3> QED BY <1>3, <1>4, <2>1, <3>1
  <2>2. CASE i # N + 1 /\ k # N + 2
    <3>1. i \in 1..N /\ k \in 1..(N + 1)
      BY <1>1, <2>2
    <3> QED BY <1>2, <1>3, <1>6, <3>1 DEF Laid, N
  <2>3. CASE i # N + 1 /\ k = N + 2
    <3>1. i \in 1..N /\ N + 1 \in 1..(N + 1) /\ i < N + 1
      BY <1>1, <2>3
    <3>2. base[i] + FrameLen(lengths, i) <= base[N + 1]
      BY <3>1 DEF Laid, N
    <3>3. base[N + 1] <= end
      <4>1. FrameLen(more, N + 1) = HeaderLen + BodyLen(n) /\ BodyLen(n) \in Nat
        BY <1>2
      <4>2. FrameLen(more, N + 1) \in Nat
        BY <4>1
      <4>3. base[N + 1] \in Nat
        BY <1>3
      <4> QED BY <1>4, <4>2, <4>3
    <3>4. wider[i] = base[i] /\ wider[k] = end /\ base[i] \in Nat
      BY <1>3, <2>3, <3>1
    <3>5. FrameLen(lengths, i) \in Nat /\ FrameLen(more, i) = FrameLen(lengths, i)
      BY <1>2, <3>1, Lengthy DEF N
    <3>6. base[N + 1] \in Nat /\ end \in Nat
      BY <1>3
    <3> QED BY <3>2, <3>3, <3>4, <3>5, <3>6
  <2> QED BY <2>1, <2>2, <2>3
<1>7. Laid(more, wider)
  <2>1. (N + 1) + 1 = N + 2
    BY <1>1
  <2> QED BY <1>1, <1>3, <1>5, <1>6, <2>1 DEF Laid
<1> QED BY <1>3, <1>7 DEF more, N

LEMMA StillFollow ==
  ASSUME NEW lengths \in Seq(Nat), NEW n \in Nat, NEW base, NEW wider,
         \A i \in 1..(Len(lengths) + 1) : wider[i] = base[i],
         NEW s, NEW c, Follow(lengths, base, s, c)
  PROVE  Follow(Append(lengths, n), wider, s, c)
<1>1. /\ Len(lengths) \in Nat /\ Len(Append(lengths, n)) = Len(lengths) + 1
      /\ \A i \in 1..Len(lengths) : Append(lengths, n)[i] = lengths[i]
      /\ \A i \in 1..Len(lengths) : i \in 1..(Len(lengths) + 1)
  BY AppendProperties, LenProperties
<1> QED BY <1>1 DEF Follow, FrameLen

-----------------------------------------------------------------------------
(* Sequences of bytes. *)

(* What WriteFrame puts on the wire: a frame or, when it breaks off, its head. *)
IsFrame(f, i, n) ==
  /\ f \in Seq(Bytes)
  /\ Len(f) = HeaderLen + BodyLen(n)
  /\ \A k \in 1..(HeaderLen + BodyLen(n)) : f[k] = Byte(i, k)
  /\ \A l \in 0..((HeaderLen + BodyLen(n)) - 1) :
       /\ SubSeq(f, 1, l) \in Seq(Bytes)
       /\ Len(SubSeq(f, 1, l)) = l
       /\ \A k \in 1..l : SubSeq(f, 1, l)[k] = Byte(i, k)

LEMMA Written ==
  ASSUME NEW n \in Nat, NEW i \in Nat \ {0}
  PROVE  IsFrame(Frame(i, n), i, n)
<1>1. HeaderLen + BodyLen(n) \in Nat
  BY DEF BodyLen
<1>2. \A k \in 1..(HeaderLen + BodyLen(n)) : Byte(i, k) \in Bytes
  BY <1>1 DEF Byte, Bytes
<1>3. Frame(i, n) = [k \in 1..(HeaderLen + BodyLen(n)) |-> Byte(i, k)]
  BY DEF Frame
<1>4. /\ Frame(i, n) \in Seq(Bytes) /\ Len(Frame(i, n)) = HeaderLen + BodyLen(n)
      /\ \A k \in 1..(HeaderLen + BodyLen(n)) : Frame(i, n)[k] = Byte(i, k)
  BY <1>1, <1>2, <1>3
<1>5. ASSUME NEW l \in 0..((HeaderLen + BodyLen(n)) - 1)
      PROVE  /\ SubSeq(Frame(i, n), 1, l) \in Seq(Bytes)
             /\ Len(SubSeq(Frame(i, n), 1, l)) = l
             /\ \A k \in 1..l : SubSeq(Frame(i, n), 1, l)[k] = Byte(i, k)
  <2>1. /\ l \in Int /\ 1 \in Int
        /\ \A k \in 1..l : k \in 1..(HeaderLen + BodyLen(n))
        /\ l - 1 + 1 = l /\ \A k \in 1..l : 1 + k - 1 = k
        /\ l < 1 => l = 0
    <3>0. PICK L \in Nat : L = HeaderLen + BodyLen(n)
      BY <1>1
    <3>1. l \in Nat /\ l <= HeaderLen + BodyLen(n)
      <4>1. l \in 0..(L - 1)
        BY <3>0
      <4>2. l \in Nat /\ l <= L
        BY <4>1
      <4> QED BY <3>0, <4>2
    <3>2. \A k \in 1..l : k \in 1..(HeaderLen + BodyLen(n))
      BY <1>1, <3>1
    <3> QED BY <3>1, <3>2
  <2>2. \A k \in 1..l : Frame(i, n)[k] \in Bytes
    BY <1>2, <1>4, <2>1
  <2>3. /\ SubSeq(Frame(i, n), 1, l) \in Seq(Bytes)
        /\ Len(SubSeq(Frame(i, n), 1, l)) = IF 1 <= l THEN l - 1 + 1 ELSE 0
        /\ \A k \in 1..(l - 1 + 1) : SubSeq(Frame(i, n), 1, l)[k] = Frame(i, n)[1 + k - 1]
    BY <2>1, <2>2, SubSeqProperties
  <2> QED BY <1>4, <2>1, <2>3
<1> QED BY <1>4, <1>5 DEF IsFrame

(* The wire with something appended. *)
LEMMA Concatenated ==
  ASSUME NEW s \in Seq(Bytes), NEW x \in Seq(Bytes)
  PROVE  /\ s \o x \in Seq(Bytes) /\ Len(s) \in Nat /\ Len(x) \in Nat
         /\ Len(s \o x) = Len(s) + Len(x)
         /\ \A k \in 1..Len(s) : (s \o x)[k] = s[k]
         /\ \A m \in 1..Len(x) : (s \o x)[Len(s) + m] = x[m]
<1>1. /\ Len(s) \in Nat /\ Len(x) \in Nat /\ s \o x \in Seq(Bytes)
      /\ Len(s \o x) = Len(s) + Len(x)
      /\ \A k \in 1..(Len(s) + Len(x)) :
           (s \o x)[k] = IF k <= Len(s) THEN s[k] ELSE x[k - Len(s)]
  BY LenProperties, ConcatProperties
<1> QED BY <1>1

(* One read takes the first k bytes of the wire and leaves the rest. *)
LEMMA Split ==
  ASSUME NEW s \in Seq(Bytes), NEW k \in 1..Len(s)
  PROVE  /\ SubSeq(s, 1, k) \in Seq(Bytes) /\ SubSeq(s, k + 1, Len(s)) \in Seq(Bytes)
         /\ Len(s) \in Nat
         /\ Len(SubSeq(s, 1, k)) = k
         /\ Len(SubSeq(s, k + 1, Len(s))) = Len(s) - k
         /\ \A m \in 1..k : SubSeq(s, 1, k)[m] = s[m]
         /\ \A m \in 1..(Len(s) - k) : SubSeq(s, k + 1, Len(s))[m] = s[k + m]
<1>1. /\ Len(s) \in Nat /\ 1 \in Int /\ k \in Int /\ k + 1 \in Int /\ Len(s) \in Int
      /\ 1 <= k /\ k <= Len(s)
  BY LenProperties
<1>2. /\ \A i \in 1..k : s[i] \in Bytes
      /\ \A i \in (k + 1)..Len(s) : s[i] \in Bytes
  BY <1>1, ElementOfSeq
<1>3. /\ SubSeq(s, 1, k) \in Seq(Bytes)
      /\ Len(SubSeq(s, 1, k)) = IF 1 <= k THEN k - 1 + 1 ELSE 0
      /\ \A m \in 1..(k - 1 + 1) : SubSeq(s, 1, k)[m] = s[1 + m - 1]
  BY <1>1, <1>2, SubSeqProperties
<1>4. /\ SubSeq(s, k + 1, Len(s)) \in Seq(Bytes)
      /\ Len(SubSeq(s, k + 1, Len(s))) = IF k + 1 <= Len(s) THEN Len(s) - (k + 1) + 1 ELSE 0
      /\ \A m \in 1..(Len(s) - (k + 1) + 1) :
           SubSeq(s, k + 1, Len(s))[m] = s[(k + 1) + m - 1]
  BY <1>1, <1>2, SubSeqProperties
<1>5. \A m \in 1..(Len(s) - k) : (k + 1) + m - 1 = k + m
  BY <1>1
<1>6. Len(s) - (k + 1) + 1 = Len(s) - k
  BY <1>1
<1>7. \A m \in 1..k : 1 + m - 1 = m /\ m \in 1..(k - 1 + 1)
  BY <1>1
<1>8. Len(SubSeq(s, 1, k)) = k /\ \A m \in 1..k : SubSeq(s, 1, k)[m] = s[m]
  <2>1. k - 1 + 1 = k
    BY <1>1
  <2> QED BY <1>1, <1>3, <1>7, <2>1
<1>9. Len(SubSeq(s, k + 1, Len(s))) = Len(s) - k
  <2>1. CASE k + 1 <= Len(s)
    BY <1>4, <1>6, <2>1
  <2>2. CASE ~(k + 1 <= Len(s))
    <3>1. Len(s) - k = 0
      BY <1>1, <2>2
    <3> QED BY <1>4, <2>2, <3>1
  <2> QED BY <2>1, <2>2
<1>10. \A m \in 1..(Len(s) - k) : SubSeq(s, k + 1, Len(s))[m] = s[k + m]
  BY <1>4, <1>5, <1>6
<1> QED BY <1>1, <1>3, <1>4, <1>8, <1>9, <1>10

LEMMA FollowConcat ==
  ASSUME NEW lengths, NEW base, NEW s \in Seq(Bytes), NEW x \in Seq(Bytes), NEW c \in Nat,
         Follow(lengths, base, s, c), Follow(lengths, base, x, c + Len(s))
  PROVE  Follow(lengths, base, s \o x, c)
<1> DEFINE r == s \o x
<1>1. /\ Len(s) \in Nat /\ Len(x) \in Nat /\ Len(r) = Len(s) + Len(x)
      /\ \A k \in 1..Len(s) : r[k] = s[k]
      /\ \A m \in 1..Len(x) : r[Len(s) + m] = x[m]
  BY Concatenated
<1> HIDE DEF r
<1>2. ASSUME NEW j \in 1..Len(r)
      PROVE  /\ r[j].frame \in 1..Len(lengths)
             /\ r[j].pos <= FrameLen(lengths, r[j].frame)
             /\ base[r[j].frame] + r[j].pos = c + j
  <2>1. CASE j \in 1..Len(s)
    BY <1>1, <2>1 DEF Follow
  <2>2. CASE j \notin 1..Len(s)
    <3>1. j - Len(s) \in 1..Len(x) /\ Len(s) + (j - Len(s)) = j
      BY <1>1, <2>2
    <3>2. r[j] = x[j - Len(s)]
      BY <1>1, <3>1
    <3>3. c + Len(s) + (j - Len(s)) = c + j
      BY <1>1
    <3> QED BY <3>1, <3>2, <3>3 DEF Follow
  <2> QED BY <2>1, <2>2
<1> QED BY <1>2 DEF Follow, r

LEMMA FollowSplit ==
  ASSUME NEW lengths, NEW base, NEW s \in Seq(Bytes), NEW k \in 1..Len(s), NEW c \in Nat,
         Follow(lengths, base, s, c)
  PROVE  /\ Follow(lengths, base, SubSeq(s, 1, k), c)
         /\ Follow(lengths, base, SubSeq(s, k + 1, Len(s)), c + k)
<1> DEFINE a == SubSeq(s, 1, k)
           b == SubSeq(s, k + 1, Len(s))
<1>1. /\ Len(s) \in Nat /\ Len(a) = k /\ Len(b) = Len(s) - k
      /\ \A m \in 1..k : a[m] = s[m]
      /\ \A m \in 1..(Len(s) - k) : b[m] = s[k + m]
  BY Split
<1> HIDE DEF a, b
<1>2. Follow(lengths, base, a, c)
  <2>1. \A m \in 1..Len(a) : m \in 1..Len(s) /\ a[m] = s[m]
    BY <1>1
  <2> QED BY <2>1 DEF Follow
<1>3. Follow(lengths, base, b, c + k)
  <2>1. \A m \in 1..Len(b) : k + m \in 1..Len(s) /\ b[m] = s[k + m] /\ c + k + m = c + (k + m)
    BY <1>1
  <2> QED BY <2>1 DEF Follow
<1> QED BY <1>2, <1>3 DEF a, b

LEMMA Empty ==
  /\ <<>> \in Seq(Bytes) /\ <<>> \in Seq(Sizes) /\ <<>> \in Seq(Nat) /\ Len(<<>>) = 0
  /\ \A lengths, base, c : Follow(lengths, base, <<>>, c)
BY EmptySeq DEF Follow

-----------------------------------------------------------------------------
(* The inductive invariant. *)

Types ==
  /\ TypeOK
  /\ sent \in Seq(Nat)
  /\ got \in Seq(Bytes) /\ wire \in Seq(Bytes)
  /\ part = "header" => need = HeaderLen

(* How far into its frame the reader has come, apart from got. *)
Behind == IF part = "header" THEN 0 ELSE HeaderLen

(* What is unread follows the place where the reader stands, and reaches the
   place where the next frame will be written. *)
Placed(base) ==
  /\ Laid(sent, base)
  /\ part = "body" => delivered < Len(sent)
  /\ Follow(sent, base, got, base[delivered + 1] + Behind)
  /\ Follow(sent, base, wire, base[delivered + 1] + Behind + Len(got))
  /\ open => base[delivered + 1] + Behind + Len(got) + Len(wire) = base[Len(sent) + 1]

Stream == part # "failed" => \E base : Placed(base)

(* Without a changed byte the reader knows how much to read. *)
Unchanged ==
  part # "failed" /\ corrupted = 0 =>
    /\ \A k \in 1..Len(wire) : wire[k].intact
    /\ \A k \in 1..Len(got) : got[k].intact
    /\ part = "body" => need = BodyLen(sent[delivered + 1])

FramesInv ==
  /\ Types
  /\ Stream
  /\ Unchanged
  /\ FailureHasCause

LEMMA Initially == Init => FramesInv
<1> SUFFICES ASSUME Init PROVE FramesInv
  OBVIOUS
<1>1. Types
  BY Empty DEF Init, Types, TypeOK
<1>2. Placed([i \in Nat |-> 0])
  <2>1. Laid(<<>>, [i \in Nat |-> 0])
    BY Empty DEF Laid
  <2> QED BY <2>1, Empty DEF Init, Placed, Behind
<1>3. Unchanged /\ FailureHasCause
  BY Empty DEF Init, Unchanged, FailureHasCause
<1> QED BY <1>1, <1>2, <1>3 DEF FramesInv, Stream

LEMMA WriteKeepsInvariant ==
  ASSUME FramesInv, WriteFrame
  PROVE  FramesInv'
<1> DEFINE N == Len(sent)
<1>0. Types
  BY DEF FramesInv
<1>1. PICK n \in Sizes, x \in Seq(Bytes) :
        /\ sent' = Append(sent, n)
        /\ wire' = wire \o x
        /\ Len(x) <= HeaderLen + BodyLen(n)
        /\ \A m \in 1..Len(x) : x[m] = Byte(N + 1, m)
        /\ open' => Len(x) = HeaderLen + BodyLen(n)
  <2>1. N + 1 \in Nat \ {0}
    BY <1>0, LenProperties DEF Types
  <2>2. PICK n \in Sizes :
          /\ sent' = Append(sent, n)
          /\ \/ wire' = wire \o Frame(N + 1, n)
             \/ /\ \E l \in 0..(Len(Frame(N + 1, n)) - 1) :
                     wire' = wire \o SubSeq(Frame(N + 1, n), 1, l)
                /\ open' = FALSE
    BY DEF WriteFrame
  <2>3. n \in Nat /\ BodyLen(n) \in Nat
    BY DEF BodyLen
  <2>4. PICK f : f = Frame(N + 1, n) /\ IsFrame(f, N + 1, n)
    <3> HIDE DEF N
    <3> QED BY <2>1, <2>3, Written
  <2>5. PICK L \in Nat : L = HeaderLen + BodyLen(n)
    BY <2>3
  <2>6. CASE wire' = wire \o f
    <3>1. /\ f \in Seq(Bytes) /\ Len(f) = L /\ L <= L
          /\ \A m \in 1..Len(f) : f[m] = Byte(N + 1, m)
      BY <2>4, <2>5 DEF IsFrame
    <3> QED BY <2>2, <2>5, <2>6, <3>1
  <2>7. CASE open' = FALSE /\ \E l \in 0..(Len(f) - 1) : wire' = wire \o SubSeq(f, 1, l)
    <3>1. PICK l \in 0..(L - 1) : wire' = wire \o SubSeq(f, 1, l)
      BY <2>4, <2>5, <2>7 DEF IsFrame
    <3>2. l <= L
      BY <2>5
    <3>3. /\ SubSeq(f, 1, l) \in Seq(Bytes) /\ Len(SubSeq(f, 1, l)) = l
          /\ \A k \in 1..l : SubSeq(f, 1, l)[k] = Byte(N + 1, k)
      BY <2>4, <2>5 DEF IsFrame
    <3> QED BY <2>2, <2>5, <2>7, <3>1, <3>2, <3>3
  <2> QED BY <2>2, <2>4, <2>6, <2>7
<1>2. UNCHANGED <<part, got, need, delivered, corrupted>> /\ open /\ N < MaxFrames
  BY DEF WriteFrame
<1>3. /\ n \in Nat /\ N \in Nat /\ BodyLen(n) \in Nat
      /\ Len(sent') = N + 1 /\ sent' \in Seq(Sizes) /\ sent' \in Seq(Nat)
      /\ \A i \in 1..N : sent'[i] = sent[i]
      /\ sent'[N + 1] = n
  BY <1>0, <1>1, AppendProperties, LenProperties DEF Types, TypeOK, BodyLen
<1>4. /\ Len(wire) \in Nat /\ Len(x) \in Nat
      /\ wire' \in Seq(Bytes) /\ Len(wire') = Len(wire) + Len(x)
      /\ \A k \in 1..Len(wire) : wire'[k] = wire[k]
      /\ \A m \in 1..Len(x) : wire'[Len(wire) + m] = x[m]
  BY <1>0, <1>1, Concatenated DEF Types
<1>5. Types'
  <2>1. open' \in BOOLEAN
    BY <1>0, Zenon DEF WriteFrame, Types, TypeOK
  <2> HIDE DEF N
  <2>2. delivered' \in 0..Len(sent') /\ Len(sent') <= MaxFrames
    BY <1>0, <1>2, <1>3 DEF Types, TypeOK, N
  <2> QED BY <1>0, <1>2, <1>3, <1>4, <2>1, <2>2 DEF Types, TypeOK
<1>6. Stream'
  <2> SUFFICES ASSUME part # "failed"
               PROVE  \E base : Placed(base)'
    BY <1>2 DEF Stream
  <2>1. PICK base : Placed(base)
    BY DEF FramesInv, Stream
  <2>2. PICK wider : /\ Laid(sent', wider)
                     /\ \A i \in 1..(N + 1) : wider[i] = base[i]
    BY <1>0, <1>1, <1>3, <2>1, Extended DEF Placed, Types
  <2> DEFINE c == base[delivered + 1] + Behind
  <2>3. /\ delivered + 1 \in 1..(N + 1) /\ wider[delivered + 1] = base[delivered + 1]
        /\ N + 1 \in 1..(N + 1) /\ wider[N + 1] = base[N + 1]
        /\ Behind \in Nat /\ Behind' = Behind
        /\ Len(got) \in Nat
    BY <1>0, <1>2, <1>3, <2>2, LenProperties DEF Types, TypeOK, Behind
  <2>4. base[delivered + 1] \in Nat /\ base[N + 1] \in Nat /\ c \in Nat
    <3>1. base \in [Nat -> Nat] /\ delivered + 1 \in Nat /\ N + 1 \in Nat
      <4>1. base \in [Nat -> Nat]
        BY <2>1 DEF Placed, Laid
      <4>2. N \in Nat /\ delivered \in Nat
        BY <1>0, <1>3 DEF Types, TypeOK
      <4> HIDE DEF N
      <4> QED BY <4>1, <4>2
    <3>2. base[delivered + 1] \in Nat /\ base[N + 1] \in Nat
      BY <3>1
    <3> QED BY <2>3, <3>2
  <2>5. wider[N + 2] = base[N + 1] + HeaderLen + BodyLen(n)
    <3>1. N + 1 \in 1..Len(sent') /\ (N + 1) + 1 = N + 2
      BY <1>3
    <3>2. wider[(N + 1) + 1] = wider[N + 1] + FrameLen(sent', N + 1)
      BY <2>2, <3>1 DEF Laid
    <3>3. FrameLen(sent', N + 1) = HeaderLen + BodyLen(n)
      BY <1>3 DEF FrameLen
    <3>4. base[N + 1] \in Nat /\ HeaderLen \in Nat /\ BodyLen(n) \in Nat
      BY <1>3, <2>4
    <3>5. base[N + 1] + (HeaderLen + BodyLen(n)) = base[N + 1] + HeaderLen + BodyLen(n)
      BY <3>4
    <3>6. wider[N + 2] = wider[N + 1] + FrameLen(sent', N + 1)
      BY <3>1, <3>2
    <3> QED BY <2>3, <3>3, <3>5, <3>6
  <2>6. /\ Follow(sent', wider, got, c)
        /\ Follow(sent', wider, wire, c + Len(got))
    BY <1>0, <1>1, <1>3, <2>1, <2>2, StillFollow DEF Placed, Types
  <2>7. c + Len(got) + Len(wire) = base[N + 1]
    BY <1>2, <2>1 DEF Placed
  <2> HIDE DEF c
  <2>8. Follow(sent', wider, x, c + Len(got) + Len(wire))
    <3>1. ASSUME NEW m \in 1..Len(x)
          PROVE  /\ x[m].frame = N + 1 /\ x[m].pos = m
                 /\ m <= FrameLen(sent', N + 1)
      <4>1. x[m] = Byte(N + 1, m) /\ FrameLen(sent', N + 1) = HeaderLen + BodyLen(n)
        BY <1>1, <1>3 DEF FrameLen
      <4>2. Len(x) <= HeaderLen + BodyLen(n) /\ HeaderLen + BodyLen(n) \in Nat /\ Len(x) \in Nat
        BY <1>1, <1>3, <1>4
      <4>3. m <= HeaderLen + BodyLen(n)
        BY <4>2
      <4> QED BY <4>1, <4>3 DEF Byte
    <3>2. N + 1 \in 1..Len(sent')
      BY <1>3
    <3> QED BY <2>3, <2>7, <3>1, <3>2 DEF Follow
  <2>9. Follow(sent', wider, wire', c + Len(got))
    <3>1. c + Len(got) \in Nat
      BY <2>3, <2>4
    <3> QED BY <1>0, <1>1, <2>6, <2>8, <3>1, FollowConcat DEF Types
  <2>10. open' => c + Len(got) + Len(wire') = wider[N + 2]
    <3>1. /\ Len(x) \in Nat /\ Len(wire) \in Nat /\ Len(got) \in Nat /\ c \in Nat
          /\ HeaderLen \in Nat /\ BodyLen(n) \in Nat
      BY <1>3, <1>4, <2>3, <2>4
    <3>2. open' => Len(wire') = Len(wire) + (HeaderLen + BodyLen(n))
      BY <1>1, <1>4
    <3>3. wider[N + 2] = c + Len(got) + Len(wire) + HeaderLen + BodyLen(n)
      BY <2>5, <2>7
    <3>4. c + Len(got) + (Len(wire) + (HeaderLen + BodyLen(n)))
            = c + Len(got) + Len(wire) + HeaderLen + BodyLen(n)
      BY <3>1
    <3> QED BY <3>2, <3>3, <3>4
  <2>11. part = "body" => delivered < N + 1
    BY <1>0, <1>3 DEF Types, TypeOK
  <2>12. Placed(wider)'
    <3>1. (N + 1) + 1 = N + 2
      BY <1>3
    <3> QED BY <1>2, <1>3, <2>2, <2>3, <2>6, <2>9, <2>10, <2>11, <3>1 DEF Placed, c
  <2> QED BY <2>12
<1>7. Unchanged'
  <2> SUFFICES ASSUME part # "failed", corrupted = 0
               PROVE  /\ \A k \in 1..Len(wire') : wire'[k].intact
                      /\ \A k \in 1..Len(got) : got[k].intact
                      /\ part = "body" => need = BodyLen(sent'[delivered + 1])
    BY <1>2 DEF Unchanged
  <2>1. ASSUME NEW k \in 1..Len(wire') PROVE wire'[k].intact
    <3>1. CASE k \in 1..Len(wire)
      BY <1>4, <3>1 DEF FramesInv, Unchanged
    <3>2. CASE k \notin 1..Len(wire)
      <4>1. k - Len(wire) \in 1..Len(x) /\ k = Len(wire) + (k - Len(wire))
        BY <1>4, <3>2
      <4>2. wire'[k] = Byte(N + 1, k - Len(wire))
        BY <1>1, <1>4, <4>1
      <4> QED BY <4>2 DEF Byte
    <3> QED BY <3>1, <3>2
  <2>2. part = "body" => delivered + 1 \in 1..N
    BY <1>0, <1>3 DEF FramesInv, Stream, Placed, Types, TypeOK
  <2> QED BY <1>3, <2>1, <2>2 DEF FramesInv, Unchanged
<1>8. FailureHasCause'
  <2>1. part = "failed" /\ corrupted = 0 /\ open =>
          \E i \in 1..N : BodyLen(sent[i]) > maxFrameLen
    BY DEF FramesInv, FailureHasCause
  <2>2. ASSUME \E i \in 1..N : BodyLen(sent[i]) > maxFrameLen
        PROVE  \E i \in 1..Len(sent') : BodyLen(sent'[i]) > maxFrameLen
    BY <1>3, <2>2
  <2>3. corrupted # 0 => corrupted > 0
    BY <1>0 DEF Types, TypeOK
  <2> QED BY <1>2, <2>1, <2>2, <2>3 DEF FailureHasCause
<1> QED BY <1>5, <1>6, <1>7, <1>8 DEF FramesInv

(* The places of a state are numbers. *)
LEMMA Numbers ==
  ASSUME Types, NEW base, Laid(sent, base)
  PROVE  /\ Len(sent) \in Nat /\ Len(got) \in Nat /\ Len(wire) \in Nat
         /\ delivered \in Nat /\ delivered <= Len(sent) /\ delivered + 1 \in Nat
         /\ need \in Nat /\ need > 0 /\ Len(got) <= need
         /\ Behind \in Nat /\ base[delivered + 1] \in Nat
         /\ base[delivered + 1] + Behind \in Nat
         /\ base[delivered + 1] + Behind + Len(got) \in Nat
<1>1. Len(sent) \in Nat /\ Len(got) \in Nat /\ Len(wire) \in Nat
  BY LenProperties DEF Types
<1>2. /\ delivered \in Nat /\ delivered <= Len(sent) /\ delivered + 1 \in Nat
      /\ need \in Nat /\ need > 0 /\ Len(got) <= need
  BY <1>1 DEF Types, TypeOK
<1>3. Behind \in Nat
  BY DEF Behind
<1>4. base[delivered + 1] \in Nat
  BY <1>2 DEF Laid
<1>5. base[delivered + 1] + Behind \in Nat
  BY <1>3, <1>4
<1>6. base[delivered + 1] + Behind + Len(got) \in Nat
  BY <1>1, <1>5
<1> QED BY <1>1, <1>2, <1>3, <1>4, <1>5, <1>6

LEMMA ReadKeepsInvariant ==
  ASSUME FramesInv, Read
  PROVE  FramesInv'
<1>0. Types
  BY DEF FramesInv
<1>1. /\ UNCHANGED <<sent, open, part, need, delivered, corrupted>>
      /\ part # "failed"
  BY DEF Read
<1>2. PICK k \in 1..Len(wire) :
        /\ k <= need - Len(got)
        /\ got' = got \o SubSeq(wire, 1, k)
        /\ wire' = SubSeq(wire, k + 1, Len(wire))
  BY DEF Read
<1>3. PICK base : Placed(base)
  BY <1>1 DEF FramesInv, Stream
<1>4. PICK a \in Seq(Bytes) :
        /\ a = SubSeq(wire, 1, k) /\ Len(a) = k
        /\ \A m \in 1..k : a[m] = wire[m]
  BY <1>0, Split DEF Types
<1>5. /\ wire' \in Seq(Bytes) /\ Len(wire') = Len(wire) - k
      /\ \A m \in 1..(Len(wire) - k) : wire'[m] = wire[k + m]
  BY <1>0, <1>2, Split DEF Types
<1>6. /\ got' = got \o a /\ got' \in Seq(Bytes) /\ Len(got') = Len(got) + k
      /\ \A m \in 1..Len(got) : got'[m] = got[m]
      /\ \A m \in 1..k : got'[Len(got) + m] = a[m]
  BY <1>0, <1>2, <1>4, Concatenated DEF Types
<1>7. /\ Len(got) \in Nat /\ Len(wire) \in Nat /\ k \in Nat /\ need \in Nat
      /\ base[delivered + 1] + Behind \in Nat
      /\ base[delivered + 1] + Behind + Len(got) \in Nat
  BY <1>0, <1>3, Numbers DEF Placed
<1>8. Types'
  <2>1. Len(got') <= need
    BY <1>2, <1>6, <1>7
  <2> QED BY <1>0, <1>1, <1>5, <1>6, <2>1 DEF Types, TypeOK
<1>9. Stream'
  <2> DEFINE c == base[delivered + 1] + Behind
  <2>1. /\ Follow(sent, base, got, c)
        /\ Follow(sent, base, wire, c + Len(got))
        /\ c \in Nat /\ c + Len(got) \in Nat
        /\ Behind' = Behind /\ base[delivered' + 1] = base[delivered + 1]
    BY <1>1, <1>3, <1>7 DEF Placed, Behind
  <2>2. open => c + Len(got) + Len(wire) = base[Len(sent) + 1]
    BY <1>3 DEF Placed
  <2>3. c' = c
    BY <1>1 DEF Behind
  <2> HIDE DEF c
  <2>4. /\ Follow(sent, base, a, c + Len(got))
        /\ Follow(sent, base, wire', c + Len(got) + k)
    BY <1>0, <1>2, <1>4, <2>1, FollowSplit DEF Types
  <2>5. Follow(sent, base, got', c)
    BY <1>0, <1>6, <2>1, <2>4, FollowConcat DEF Types
  <2>6. c + Len(got) + k = c + Len(got')
    BY <1>6, <1>7, <2>1
  <2>7. c + Len(got') + Len(wire') = c + Len(got) + Len(wire)
    BY <1>5, <1>6, <1>7, <2>1
  <2>8. /\ Laid(sent', base)
        /\ part' = "body" => delivered' < Len(sent')
        /\ Follow(sent', base, got', c)
        /\ Follow(sent', base, wire', c + Len(got'))
        /\ open' => c + Len(got') + Len(wire') = base[Len(sent') + 1]
    BY <1>1, <1>3, <2>2, <2>4, <2>5, <2>6, <2>7 DEF Placed
  <2>9. c = base[delivered' + 1] + Behind'
    BY <2>1 DEF c
  <2>10. \E b : Placed(b)'
    BY <2>8, <2>9 DEF Placed
  <2> QED BY <2>10 DEF Stream
<1>10. Unchanged'
  <2> SUFFICES ASSUME corrupted = 0
               PROVE  /\ \A m \in 1..Len(wire') : wire'[m].intact
                      /\ \A m \in 1..Len(got') : got'[m].intact
                      /\ part = "body" => need = BodyLen(sent[delivered + 1])
    BY <1>1 DEF Unchanged
  <2>1. /\ \A m \in 1..Len(wire) : wire[m].intact
        /\ \A m \in 1..Len(got) : got[m].intact
        /\ part = "body" => need = BodyLen(sent[delivered + 1])
    BY <1>1 DEF FramesInv, Unchanged
  <2>2. ASSUME NEW m \in 1..Len(wire') PROVE wire'[m].intact
    <3>1. m \in 1..(Len(wire) - k) /\ k + m \in 1..Len(wire)
      BY <1>5, <1>7
    <3> QED BY <1>5, <2>1, <3>1
  <2>3. ASSUME NEW m \in 1..Len(got') PROVE got'[m].intact
    <3>1. CASE m \in 1..Len(got)
      BY <1>6, <2>1, <3>1
    <3>2. CASE m \notin 1..Len(got)
      <4>1. /\ m - Len(got) \in 1..k /\ m = Len(got) + (m - Len(got))
            /\ m - Len(got) \in 1..Len(wire)
        BY <1>2, <1>6, <1>7, <3>2
      <4>2. got'[m] = wire[m - Len(got)]
        BY <1>4, <1>6, <4>1
      <4> QED BY <2>1, <4>1, <4>2
    <3> QED BY <3>1, <3>2
  <2> QED BY <2>1, <2>2, <2>3
<1>11. FailureHasCause'
  BY <1>1 DEF FailureHasCause
<1> QED BY <1>8, <1>9, <1>10, <1>11 DEF FramesInv

LEMMA CloseKeepsInvariant ==
  ASSUME FramesInv, CloseWriter
  PROVE  FramesInv'
<1>1. UNCHANGED <<sent, wire, part, got, need, delivered, corrupted>> /\ open' = FALSE
  BY DEF CloseWriter
<1>2. Types'
  <2>1. open' \in BOOLEAN
    BY <1>1
  <2> QED BY <1>1, <2>1 DEF FramesInv, Types, TypeOK
<1>3. ASSUME NEW base, Placed(base) PROVE Placed(base)'
  BY <1>1, <1>3 DEF Placed, Behind
<1>4. Stream' /\ Unchanged' /\ FailureHasCause'
  BY <1>1, <1>3 DEF FramesInv, Stream, Unchanged, FailureHasCause
<1> QED BY <1>2, <1>4 DEF FramesInv

LEMMA CorruptKeepsInvariant ==
  ASSUME FramesInv, CorruptByte
  PROVE  FramesInv'
<1>0. Types
  BY DEF FramesInv
<1>1. /\ UNCHANGED <<sent, open, part, got, need, delivered>>
      /\ corrupted' = corrupted + 1 /\ corrupted < MaxCorrupted
  BY DEF CorruptByte
<1>2. PICK k \in 1..Len(wire) : wire' = [wire EXCEPT ![k].intact = FALSE]
  BY DEF CorruptByte
<1>3. /\ wire' \in Seq(Bytes) /\ Len(wire') = Len(wire)
      /\ \A j \in 1..Len(wire) : wire'[j].frame = wire[j].frame /\ wire'[j].pos = wire[j].pos
  <2>1. /\ wire \in Seq(Bytes) /\ Len(wire) \in Nat /\ DOMAIN wire = 1..Len(wire)
        /\ \A j \in 1..Len(wire) : wire[j] \in Bytes
    BY <1>0, LenProperties, ElementOfSeq DEF Types
  <2>2. wire' = [j \in 1..Len(wire) |->
                   IF j = k THEN [wire[j] EXCEPT !.intact = FALSE] ELSE wire[j]]
    BY <1>2, <2>1
  <2>3. \A b \in Bytes : /\ [b EXCEPT !.intact = FALSE] \in Bytes
                         /\ [b EXCEPT !.intact = FALSE].frame = b.frame
                         /\ [b EXCEPT !.intact = FALSE].pos = b.pos
    BY DEF Bytes
  <2>4. \A j \in 1..Len(wire) : /\ wire'[j] \in Bytes
                                /\ wire'[j].frame = wire[j].frame
                                /\ wire'[j].pos = wire[j].pos
    BY <2>1, <2>2, <2>3
  <2>5. wire' = [j \in 1..Len(wire) |-> wire'[j]]
    BY <2>2
  <2> QED BY <2>1, <2>4, <2>5
<1>4. corrupted \in Nat /\ corrupted' \in 0..MaxCorrupted /\ corrupted' # 0 /\ corrupted' > 0
  BY <1>0, <1>1 DEF Types, TypeOK
<1>5. Types'
  BY <1>0, <1>1, <1>3, <1>4 DEF Types, TypeOK
<1>6. ASSUME NEW base, Placed(base) PROVE Placed(base)'
  <2>1. Follow(sent, base, wire', base[delivered + 1] + Behind + Len(got))
    BY <1>3, <1>6 DEF Placed, Follow
  <2> QED BY <1>1, <1>3, <1>6, <2>1 DEF Placed, Behind
<1>7. Stream' /\ Unchanged' /\ FailureHasCause'
  BY <1>1, <1>4, <1>6 DEF FramesInv, Stream, Unchanged, FailureHasCause
<1> QED BY <1>5, <1>7 DEF FramesInv

(* What has been collected is the next frame, from its first byte or from
   behind its header on. *)
LEMMA InPlace ==
  ASSUME Types, NEW base, Placed(base), NEW k \in 1..Len(got),
         delivered < Len(sent), Behind + k <= FrameLen(sent, delivered + 1)
  PROVE  got[k].frame = delivered + 1 /\ got[k].pos = Behind + k
<1>1. /\ Len(sent) \in Nat /\ Len(got) \in Nat /\ delivered \in Nat
      /\ Behind \in Nat /\ base[delivered + 1] \in Nat
  BY Numbers DEF Placed
<1>2. delivered + 1 \in 1..Len(sent) /\ k \in Nat \ {0} /\ Behind + k \in Nat \ {0}
  BY <1>1
<1>3. /\ got[k] \in Bytes /\ got[k].pos \in Nat \ {0}
      /\ got[k].frame \in 1..Len(sent)
      /\ got[k].pos <= FrameLen(sent, got[k].frame)
      /\ base[got[k].frame] + got[k].pos = (base[delivered + 1] + Behind) + k
  <2>1. got[k] \in Bytes
    BY ElementOfSeq DEF Types
  <2>2. got[k].pos \in Nat \ {0}
    BY <2>1 DEF Bytes
  <2> QED BY <2>1, <2>2 DEF Placed, Follow
<1>4. (base[delivered + 1] + Behind) + k = base[delivered + 1] + (Behind + k)
  BY <1>1
<1>5. PICK f, q : f = got[k].frame /\ q = got[k].pos
  OBVIOUS
<1>6. PICK i, p : i = delivered + 1 /\ p = Behind + k
  OBVIOUS
<1>7. /\ sent \in Seq(Nat) /\ Laid(sent, base)
      /\ f \in 1..Len(sent) /\ q \in Nat \ {0} /\ q <= FrameLen(sent, f)
      /\ i \in 1..Len(sent) /\ p \in Nat \ {0} /\ p <= FrameLen(sent, i)
      /\ base[f] + q = base[i] + p
  BY <1>2, <1>3, <1>4, <1>5, <1>6 DEF Placed, Types
<1>8. f = i /\ q = p
  BY <1>7, AddressDetermines
<1> QED BY <1>5, <1>6, <1>8

(* There is no byte behind the last frame. *)
LEMMA WithinSent ==
  ASSUME Types, NEW base, Placed(base), Len(got) > 0
  PROVE  delivered < Len(sent)
<1>1. /\ Len(sent) \in Nat /\ Len(got) \in Nat /\ delivered \in Nat /\ delivered <= Len(sent)
      /\ Behind \in Nat /\ base[delivered + 1] \in Nat
  BY Numbers DEF Placed
<1> SUFFICES ASSUME delivered = Len(sent) PROVE FALSE
  BY <1>1
<1>2. PICK f, q : f = got[1].frame /\ q = got[1].pos
  OBVIOUS
<1>3. /\ f \in 1..Len(sent) /\ q <= FrameLen(sent, f)
      /\ base[f] + q = base[delivered + 1] + Behind + 1
  BY <1>1, <1>2 DEF Placed, Follow
<1>4. base[f] + FrameLen(sent, f) <= base[delivered + 1]
  <2>1. delivered + 1 \in 1..(Len(sent) + 1) /\ f < delivered + 1
    BY <1>1, <1>3
  <2> QED BY <1>3, <2>1 DEF Placed, Laid
<1>5. base[f] \in Nat /\ FrameLen(sent, f) \in Nat
  <2>1. f \in Nat
    BY <1>1, <1>3
  <2> QED BY <1>3, <2>1, Lengthy DEF Placed, Laid, Types
<1>6. q \in Nat
  <2>1. got[1] \in Bytes
    BY <1>1, ElementOfSeq DEF Types
  <2> QED BY <1>2, <2>1 DEF Bytes
<1> QED BY <1>1, <1>3, <1>4, <1>5, <1>6

(* An intact header is read for what it is. *)
LEMMA HeaderIsTrue ==
  ASSUME FramesInv, part = "header", Complete, corrupted = 0
  PROVE  delivered < Len(sent) /\ Lengths(got) = {BodyLen(sent[delivered + 1])}
<1>0. Types
  BY DEF FramesInv
<1>1. PICK base : Placed(base)
  BY DEF FramesInv, Stream
<1>2. Len(got) = HeaderLen /\ Behind = 0 /\ Len(sent) \in Nat /\ delivered \in Nat
  BY <1>0, <1>1, Numbers DEF Placed, Types, Complete, Behind
<1>3. delivered < Len(sent) /\ delivered + 1 \in 1..Len(sent)
  BY <1>0, <1>1, <1>2, WithinSent
<1>4. ASSUME NEW k \in 1..HeaderLen
      PROVE  got[k] = Byte(delivered + 1, k)
  <2>1. FrameLen(sent, delivered + 1) \in Nat /\ FrameLen(sent, delivered + 1) > HeaderLen
    BY <1>0, <1>3, Lengthy DEF Types
  <2>2. Behind + k = k /\ k <= FrameLen(sent, delivered + 1)
    BY <1>2, <2>1
  <2>3. got[k].frame = delivered + 1 /\ got[k].pos = k
    BY <1>0, <1>1, <1>2, <1>3, <2>2, InPlace
  <2>4. got[k] \in Bytes /\ got[k].intact
    BY <1>0, <1>2, ElementOfSeq DEF Types, FramesInv, Unchanged
  <2>5. got[k] = [frame |-> got[k].frame, pos |-> got[k].pos, intact |-> got[k].intact]
    BY <2>4 DEF Bytes
  <2>6. got[k].intact = TRUE
    BY <2>4 DEF Bytes
  <2> QED BY <2>3, <2>5, <2>6 DEF Byte
<1>5. got = [k \in 1..HeaderLen |-> Byte(delivered + 1, k)]
  <2>1. got = [k \in 1..Len(got) |-> got[k]]
    BY <1>0 DEF Types
  <2> QED BY <1>2, <1>4, <2>1
<1>6. got[1].frame = delivered + 1
  <2>1. 1 \in 1..HeaderLen
    OBVIOUS
  <2>2. got[1] = Byte(delivered + 1, 1)
    BY <1>4, <2>1
  <2> QED BY <2>2 DEF Byte
<1> QED BY <1>3, <1>5, <1>6 DEF Lengths

LEMMA HeaderKeepsInvariant ==
  ASSUME FramesInv, ReadHeader
  PROVE  FramesInv'
<1>0. Types
  BY DEF FramesInv
<1>1. /\ UNCHANGED <<sent, wire, open, delivered, corrupted>>
      /\ part = "header" /\ Complete /\ got' = <<>>
  BY DEF ReadHeader
<1>2. PICK n \in Lengths(got) :
        IF InBounds(n) THEN part' = "body" /\ need' = n
        ELSE part' = "failed" /\ UNCHANGED need
  BY DEF ReadHeader
<1>3. PICK base : Placed(base)
  BY <1>1 DEF FramesInv, Stream
<1>4. /\ need = HeaderLen /\ Len(got) = HeaderLen
      /\ Len(sent) \in Nat /\ delivered \in Nat /\ delivered <= Len(sent)
      /\ base[delivered + 1] \in Nat
  BY <1>0, <1>1, <1>3, Numbers DEF Placed, Types, Complete
<1>5. delivered < Len(sent) /\ delivered + 1 \in 1..Len(sent)
  BY <1>0, <1>3, <1>4, WithinSent
<1>6. n \in Nat
  <2>1. got[1].frame \in 1..Len(sent)
    BY <1>3, <1>4 DEF Placed, Follow
  <2>2. BodyLen(sent[got[1].frame]) \in Nat
    BY <1>0, <2>1, Lengthy DEF Types
  <2>3. n \in {BodyLen(sent[got[1].frame])} \/ n \in 0..(maxFrameLen + 1)
    BY DEF Lengths
  <2> QED BY <2>2, <2>3
<1>7. Types'
  <2>1. got' \in Seq(Bytes) /\ Len(got') = 0
    BY <1>1, Empty
  <2>2. /\ part' \in {"header", "body", "failed"} /\ part' # "header"
        /\ need' \in {HeaderLen} \cup NonceSize..maxFrameLen /\ 0 <= need'
    BY <1>2, <1>4, <1>6 DEF InBounds
  <2> QED BY <1>0, <1>1, <2>1, <2>2 DEF Types, TypeOK
<1>8. Stream'
  <2> SUFFICES ASSUME part' = "body" PROVE Placed(base)'
    BY <1>2 DEF Stream
  <2>1. Behind = 0 /\ Behind' = HeaderLen /\ Len(got') = 0
    BY <1>1, Empty DEF Behind
  <2>2. base[delivered + 1] + Behind + Len(got) = base[delivered + 1] + Behind'
    BY <1>4, <2>1
  <2>3. base[delivered + 1] + Behind' + Len(got') = base[delivered + 1] + Behind'
    BY <1>4, <2>1
  <2>4. Follow(sent, base, got', base[delivered + 1] + Behind')
    BY <1>1, Empty
  <2>5. /\ Laid(sent, base)
        /\ Follow(sent, base, wire, base[delivered + 1] + Behind' + Len(got'))
        /\ open => base[delivered + 1] + Behind' + Len(got') + Len(wire) = base[Len(sent) + 1]
    BY <1>3, <2>2, <2>3 DEF Placed
  <2> QED BY <1>1, <1>5, <2>4, <2>5 DEF Placed
<1>9. corrupted = 0 => n = BodyLen(sent[delivered + 1])
  BY <1>1, HeaderIsTrue
<1>10. Unchanged'
  <2> SUFFICES ASSUME part' = "body", corrupted = 0
               PROVE  /\ \A k \in 1..Len(wire) : wire[k].intact
                      /\ \A k \in 1..Len(got') : got'[k].intact
                      /\ need' = BodyLen(sent[delivered + 1])
    BY <1>1, <1>2 DEF Unchanged
  <2>1. \A k \in 1..Len(wire) : wire[k].intact
    BY <1>1 DEF FramesInv, Unchanged
  <2>2. Len(got') = 0 /\ 1..0 = {}
    BY <1>1, Empty
  <2> QED BY <1>2, <1>9, <2>1, <2>2
<1>11. FailureHasCause'
  <2> SUFFICES ASSUME part' = "failed", corrupted = 0
               PROVE  \E i \in 1..Len(sent) : BodyLen(sent[i]) > maxFrameLen
    <3>1. corrupted # 0 => corrupted > 0
      BY <1>0 DEF Types, TypeOK
    <3> QED BY <1>1, <3>1 DEF FailureHasCause
  <2>1. ~InBounds(n)
    BY <1>2
  <2>2. BodyLen(sent[delivered + 1]) >= NonceSize
    BY <1>0, <1>5, Lengthy DEF Types
  <2>3. BodyLen(sent[delivered + 1]) > maxFrameLen
    BY <1>6, <1>9, <2>1, <2>2 DEF InBounds
  <2> QED BY <1>5, <2>3
<1> QED BY <1>7, <1>8, <1>10, <1>11 DEF FramesInv

(* The body that opens is the next frame's; without a changed byte it opens. *)
LEMMA BodyIsNext ==
  ASSUME FramesInv, part = "body", Complete
  PROVE  /\ delivered < Len(sent)
         /\ got # <<>> /\ Opens(got, got[1].frame) =>
              got[1].frame = delivered + 1 /\ Len(got) = BodyLen(sent[delivered + 1])
         /\ corrupted = 0 => got # <<>> /\ Opens(got, got[1].frame)
<1>0. Types
  BY DEF FramesInv
<1>1. PICK base : Placed(base)
  BY DEF FramesInv, Stream
<1>2. /\ Len(sent) \in Nat /\ Len(got) \in Nat /\ delivered \in Nat
      /\ Len(got) = need /\ need > 0 /\ Behind = HeaderLen
  BY <1>0, <1>1, Numbers DEF Placed, Complete, Behind
<1>3. delivered < Len(sent) /\ delivered + 1 \in 1..Len(sent)
  BY <1>1, <1>2 DEF Placed
<1>4. /\ BodyLen(sent[delivered + 1]) \in Nat /\ BodyLen(sent[delivered + 1]) >= NonceSize
      /\ FrameLen(sent, delivered + 1) = HeaderLen + BodyLen(sent[delivered + 1])
  BY <1>0, <1>3, Lengthy DEF Types
<1>5. 1 \in 1..Len(got) /\ got # <<>>
  BY <1>2, Empty
<1>6. got[1].frame = delivered + 1
  <2>1. Behind + 1 <= FrameLen(sent, delivered + 1)
    BY <1>2, <1>4
  <2> QED BY <1>0, <1>1, <1>3, <1>5, <2>1, InPlace
<1>7. ASSUME Opens(got, got[1].frame)
      PROVE  Len(got) = BodyLen(sent[delivered + 1])
  <2>1. got = [k \in 1..BodyLen(sent[delivered + 1]) |-> Byte(delivered + 1, HeaderLen + k)]
    BY <1>6, <1>7 DEF Opens
  <2> QED BY <1>4, <2>1
<1>8. ASSUME corrupted = 0
      PROVE  Opens(got, got[1].frame)
  <2>1. Len(got) = BodyLen(sent[delivered + 1])
    BY <1>2, <1>8 DEF FramesInv, Unchanged
  <2>2. ASSUME NEW k \in 1..Len(got)
        PROVE  got[k] = Byte(delivered + 1, HeaderLen + k)
    <3>1. Behind + k <= FrameLen(sent, delivered + 1)
      BY <1>2, <1>4, <2>1
    <3>2. got[k].frame = delivered + 1 /\ got[k].pos = HeaderLen + k
      BY <1>0, <1>1, <1>2, <1>3, <3>1, InPlace
    <3>3. got[k] \in Bytes /\ got[k].intact
      BY <1>0, <1>8, ElementOfSeq DEF Types, FramesInv, Unchanged
    <3>4. got[k] = [frame |-> got[k].frame, pos |-> got[k].pos, intact |-> got[k].intact]
      BY <3>3 DEF Bytes
    <3>5. got[k].intact = TRUE
      BY <3>3 DEF Bytes
    <3> QED BY <3>2, <3>4, <3>5 DEF Byte
  <2>3. got = [k \in 1..Len(got) |-> got[k]]
    BY <1>0 DEF Types
  <2>4. got = [k \in 1..BodyLen(sent[delivered + 1]) |-> Byte(delivered + 1, HeaderLen + k)]
    BY <2>1, <2>2, <2>3
  <2> QED BY <1>3, <1>6, <2>4 DEF Opens
<1> QED BY <1>3, <1>5, <1>6, <1>7, <1>8

LEMMA BodyKeepsInvariant ==
  ASSUME FramesInv, ReadBody
  PROVE  FramesInv'
<1>0. Types
  BY DEF FramesInv
<1>1. /\ UNCHANGED <<sent, wire, open, corrupted>> /\ got' = <<>>
      /\ part = "body" /\ Complete
  BY DEF ReadBody
<1>2. PICK base : Placed(base)
  BY <1>1 DEF FramesInv, Stream
<1>3. /\ Len(sent) \in Nat /\ Len(got) \in Nat /\ Len(wire) \in Nat /\ delivered \in Nat
      /\ delivered + 1 \in Nat /\ base[delivered + 1] \in Nat /\ need \in Nat
  BY <1>0, <1>2, Numbers DEF Placed
<1>4. delivered < Len(sent) /\ delivered + 1 \in 1..Len(sent)
  BY <1>1, <1>3, BodyIsNext
<1>5. got' \in Seq(Bytes) /\ Len(got') = 0 /\ 1..0 = {}
  BY <1>1, Empty
<1>6. CASE got # <<>> /\ Opens(got, got[1].frame)
  <2>1. /\ delivered' = delivered + 1 /\ part' = "header" /\ need' = HeaderLen
        /\ Len(got) = BodyLen(sent[delivered + 1])
    BY <1>1, <1>6, BodyIsNext DEF ReadBody
  <2>2. Types'
    <3>1. delivered' \in 0..Len(sent') /\ 0 <= need'
      BY <1>1, <1>3, <1>4, <2>1
    <3> QED BY <1>0, <1>1, <1>5, <2>1, <3>1 DEF Types, TypeOK
  <2>3. Placed(base)'
    <3>1. /\ Behind = HeaderLen /\ Behind' = 0 /\ HeaderLen \in Nat
      BY <1>1, <2>1 DEF Behind
    <3>2. base[(delivered + 1) + 1] = base[delivered + 1] + (HeaderLen + Len(got))
      BY <1>2, <1>4, <2>1 DEF Placed, Laid, FrameLen
    <3>3. base[delivered' + 1] + Behind' + Len(got') = base[delivered + 1] + Behind + Len(got)
      BY <1>3, <1>5, <2>1, <3>1, <3>2
    <3>4. Follow(sent, base, got', base[delivered' + 1] + Behind')
      BY <1>1, Empty
    <3> QED BY <1>1, <1>2, <2>1, <3>3, <3>4 DEF Placed
  <2>4. Unchanged' /\ FailureHasCause'
    BY <1>1, <1>5, <2>1 DEF FramesInv, Unchanged, FailureHasCause
  <2> QED BY <2>2, <2>3, <2>4 DEF FramesInv, Stream
<1>7. CASE ~(got # <<>> /\ Opens(got, got[1].frame))
  <2>1. part' = "failed" /\ UNCHANGED <<delivered, need>>
    BY <1>7 DEF ReadBody
  <2>2. corrupted > 0
    <3>1. corrupted # 0
      BY <1>1, <1>7, BodyIsNext
    <3> QED BY <1>0, <3>1 DEF Types, TypeOK
  <2>3. Types'
    BY <1>0, <1>1, <1>3, <1>5, <2>1 DEF Types, TypeOK
  <2> QED BY <1>1, <2>1, <2>2, <2>3 DEF FramesInv, Stream, Unchanged, FailureHasCause
<1> QED BY <1>6, <1>7

LEMMA RestKeepsInvariant ==
  ASSUME FramesInv, StreamEnds \/ Failed \/ UNCHANGED vars
  PROVE  FramesInv'
<1>1. CASE StreamEnds
  <2>1. /\ UNCHANGED <<sent, wire, open, got, need, delivered, corrupted>>
        /\ part' = "failed" /\ ~open
    BY <1>1 DEF StreamEnds
  <2> QED BY <2>1 DEF FramesInv, Types, TypeOK, Stream, Unchanged, FailureHasCause
<1>2. CASE Failed \/ UNCHANGED vars
  <2>1. UNCHANGED vars
    BY <1>2 DEF Failed
  <2>2. ASSUME NEW base, Placed(base) PROVE Placed(base)'
    BY <2>1, <2>2 DEF vars, Placed, Behind
  <2> QED BY <2>1, <2>2 DEF vars, FramesInv, Types, TypeOK, Stream, Unchanged, FailureHasCause
<1> QED BY <1>1, <1>2

LEMMA FramesInvariant == Spec => []FramesInv
<1>1. FramesInv /\ [Next]_vars => FramesInv'
  <2> SUFFICES ASSUME FramesInv, [Next]_vars PROVE FramesInv'
    OBVIOUS
  <2>1. CASE WriteFrame
    BY <2>1, WriteKeepsInvariant
  <2>2. CASE CloseWriter
    BY <2>2, CloseKeepsInvariant
  <2>3. CASE CorruptByte
    BY <2>3, CorruptKeepsInvariant
  <2>4. CASE Read
    BY <2>4, ReadKeepsInvariant
  <2>5. CASE ReadHeader
    BY <2>5, HeaderKeepsInvariant
  <2>6. CASE ReadBody
    BY <2>6, BodyKeepsInvariant
  <2>7. CASE StreamEnds \/ Failed \/ UNCHANGED vars
    BY <2>7, RestKeepsInvariant
  <2> QED BY <2>1, <2>2, <2>3, <2>4, <2>5, <2>6, <2>7 DEF Next
<1> QED BY <1>1, Initially, PTL DEF Spec

-----------------------------------------------------------------------------

(* What ReadFrame has collected never exceeds what it needs, and what it needs
   is a header or a body of an acceptable length (crypto.go:89-111). *)
THEOREM TypeCorrect == Spec => []TypeOK
<1>1. FramesInv => TypeOK
  BY DEF FramesInv, Types
<1> QED BY <1>1, FramesInvariant, PTL

(* ReadFrame does not fail on its own account: not because the stream was cut
   into other pieces than it was written in (crypto.go:91-111). *)
THEOREM FailureExplained == Spec => []FailureHasCause
<1>1. FramesInv => FailureHasCause
  BY DEF FramesInv
<1> QED BY <1>1, FramesInvariant, PTL

(* What ReadFrame returns are the frames WriteFrame was given, each once, in
   order and none left out (crypto.go:58-111). *)
THEOREM ReaderImplementsChannel == Spec => ImplementsChannel
<1>1. Init => Channel!Init
  BY DEF Init, Channel!Init
<1>2. FramesInv /\ [Next]_vars => [Channel!Next]_(Channel!vars)
  <2> SUFFICES ASSUME FramesInv, [Next]_vars PROVE [Channel!Next]_(Channel!vars)
    OBVIOUS
  <2> USE DEF Channel!Next, Channel!vars
  <2>1. CASE WriteFrame
    BY <2>1 DEF WriteFrame, Channel!Send
  <2>2. CASE ReadBody
    <3>1. CASE got # <<>> /\ Opens(got, got[1].frame)
      BY <2>2, <3>1, BodyIsNext DEF ReadBody, Channel!Deliver
    <3>2. CASE ~(got # <<>> /\ Opens(got, got[1].frame))
      BY <2>2, <3>2 DEF ReadBody
    <3> QED BY <3>1, <3>2
  <2>3. CASE CloseWriter \/ CorruptByte \/ Read \/ ReadHeader \/ StreamEnds \/ Failed
    BY <2>3 DEF CloseWriter, CorruptByte, Read, ReadHeader, StreamEnds, Failed, vars
  <2>4. CASE UNCHANGED vars
    BY <2>4 DEF vars
  <2> QED BY <2>1, <2>2, <2>3, <2>4 DEF Next
<1> QED BY <1>1, <1>2, FramesInvariant, PTL DEF Spec, ImplementsChannel, Channel!Spec

===============================================================================
