------------------------- MODULE GlazeCodec_proofs --------------------------
(***************************************************************************)
(* What the encoder of glaze_meta.h writes, both decoders read back: for   *)
(* every base, every table entry, every message and every truncation.  The *)
(* proof says where each field and each string of a list lies in the       *)
(* message (Here, ItemHere); the invariant of the Dart reader is that its  *)
(* offset is there, and that what it has stored is what was sent.          *)
(***************************************************************************)
EXTENDS GlazeCodec, LoopLemmas, FiniteSetTheorems, TLAPS

-----------------------------------------------------------------------------
(* Numbers: written by repeated division, read by repeated multiplication. *)

(* What is known of the constants.                                         *)
LEMMA WordFacts ==
  /\ Base \in Nat /\ Base >= 2 /\ 0 \in Byte /\ 1 \in Byte
  /\ Word \in Nat /\ DoubleWord \in Nat
<1>1. Base \in Nat /\ Base >= 2 /\ 0 \in Byte /\ 1 \in Byte
  BY CodecAssumption DEF Byte
<1>2. \A n \in Nat : Base * n \in Nat
  BY <1>1
<1>3. Word \in Nat
  BY <1>1, <1>2 DEF Word
<1> HIDE DEF Word
<1>4. DoubleWord \in Nat
  BY <1>2, <1>3 DEF DoubleWord
<1> QED
  BY <1>1, <1>3, <1>4 DEF Word

(* One digit less.                                                         *)
LEMMA Division ==
  ASSUME NEW v \in Nat
  PROVE  /\ v \div Base \in Nat /\ v % Base \in Byte
         /\ v = (v % Base) + Base * (v \div Base)
         /\ \A limit \in Nat : v < Base * limit => v \div Base < limit
<1>1. v \div Base \in Nat /\ v % Base \in 0..(Base - 1) /\ v = (v % Base) + Base * (v \div Base)
  BY WordFacts
<1>2. ASSUME NEW limit \in Nat, v < Base * limit, NEW q \in Nat, q = v \div Base
      PROVE  q < limit
  <2> SUFFICES ASSUME q >= limit
               PROVE  FALSE
    BY <1>2
  <2>1. Base * q >= Base * limit
    BY WordFacts
  <2>2. v >= Base * q
    BY <1>1, <1>2, WordFacts
  <2> QED
    BY <1>2, <2>1, <2>2, WordFacts
<1> QED
  BY <1>1, <1>2 DEF Byte

(* What is left of a number after k digits.                                *)
IsRest(r, v, width) ==
  /\ r \in [0..width -> Nat]
  /\ r[0] = v
  /\ \A k \in 1..width : r[k] = r[k - 1] \div Base

(* LittleEndian writes the remainders of repeated division: the recursion  *)
(* that defines it has a solution.                                         *)
LEMMA DigitsOf ==
  ASSUME NEW v \in Nat, NEW width \in Nat
  PROVE  \E r : IsRest(r, v, width) /\ LittleEndian(v, width) = [k \in 1..width |-> r[k - 1] % Base]
<1> DEFINE step == [p \in Nat \X Nat |-> p[1] \div Base]
           IsFrom(r) == r = [k \in 0..width |-> IF k = 0 THEN v ELSE r[k - 1] \div Base]
           rest == CHOOSE r : IsFrom(r)
<1>1. PICK f \in [0..width -> Nat] : Loop(f, v, step, width)
  <2>1. step \in [Nat \X Nat -> Nat]
    BY Division
  <2> HIDE DEF step
  <2> QED
    BY <2>1, LoopExists
<1>2. IsRest(f, v, width)
  <2>1. \A k \in 1..width : k \in Nat /\ k - 1 \in 0..width /\ f[k - 1] \in Nat
    BY <1>1
  <2> QED
    BY <1>1, <2>1 DEF Loop, IsRest
<1>3. IsFrom(f)
  BY <1>1, <1>2 DEF IsRest
<1>4. IsFrom(rest)
  BY <1>3
<1>5. LittleEndian(v, width) = [k \in 1..width |-> rest[k - 1] % Base]
  BY DEF LittleEndian
<1> HIDE DEF rest
<1>6. IsRest(rest, v, width)
  <2>1. rest[0] = v /\ DOMAIN rest = 0..width /\ \A k \in 1..width : rest[k] = rest[k - 1] \div Base
    BY <1>4
  <2> DEFINE S == {k \in Nat : k <= width => rest[k] \in Nat}
  <2>2. 0 \in S
    BY <2>1
  <2>3. ASSUME NEW k \in Nat, k \in S
        PROVE  k + 1 \in S
    <3> SUFFICES ASSUME k + 1 <= width
                 PROVE  rest[k + 1] \in Nat
      OBVIOUS
    <3>1. rest[k] \in Nat /\ k + 1 \in 1..width
      BY <2>3
    <3>2. rest[k + 1] = rest[k] \div Base
      BY <2>1, <3>1
    <3> QED
      BY <3>1, <3>2, Division
  <2> HIDE DEF S
  <2>4. Nat \subseteq S
    BY <2>2, <2>3, NatSetInduction
  <2>5. \A k \in 0..width : rest[k] \in Nat
    BY <2>4 DEF S
  <2>6. rest = [k \in 0..width |-> rest[k]]
    BY <1>4
  <2> QED
    BY <2>1, <2>5, <2>6 DEF IsRest
<1> QED
  BY <1>5, <1>6

(* What the bytes from k on stand for.                                     *)
IsSum(f, bytes, at, width) ==
  /\ f \in [0..width -> Nat]
  /\ f[width] = 0
  /\ \A k \in 0..(width - 1) : f[k] = bytes[at + k + 1] + Base * f[k + 1]

(* NumberIn sums the bytes up from the last to the first: its recursion    *)
(* has a solution too.                                                     *)
LEMMA NumberOf ==
  ASSUME NEW bytes, NEW at \in Nat, NEW width \in Nat,
         \A k \in 0..(width - 1) : bytes[at + k + 1] \in Nat
  PROVE  \E f : IsSum(f, bytes, at, width) /\ NumberIn(bytes, at, width) = f[0]
<1> DEFINE step == [p \in Nat \X Nat |->
                      IF p[2] \in 1..width THEN bytes[at + (width - p[2]) + 1] + Base * p[1] ELSE 0]
           IsFrom(f) == f = [k \in 0..width |->
                               IF k = width THEN 0 ELSE bytes[at + k + 1] + Base * f[k + 1]]
           from == CHOOSE f : IsFrom(f)
<1>1. PICK g \in [0..width -> Nat] : Loop(g, 0, step, width)
  <2>1. step \in [Nat \X Nat -> Nat]
    <3>1. ASSUME NEW p \in Nat \X Nat, p[2] \in 1..width
          PROVE  bytes[at + (width - p[2]) + 1] + Base * p[1] \in Nat
      <4>1. width - p[2] \in 0..(width - 1)
        BY <3>1
      <4>2. Base * p[1] \in Nat
        BY WordFacts
      <4> QED
        BY <4>1, <4>2
    <3> QED
      BY <3>1
  <2> HIDE DEF step
  <2> QED
    BY <2>1, LoopExists
<1> DEFINE f == [k \in 0..width |-> g[width - k]]
<1>2. f \in [0..width -> Nat] /\ f[width] = 0
  BY <1>1 DEF Loop
<1>3. ASSUME NEW k \in 0..(width - 1)
      PROVE  f[k] = bytes[at + k + 1] + Base * f[k + 1]
  <2> DEFINE i == width - k
  <2>1. i \in 1..width /\ i - 1 \in 0..width /\ width - i = k
    OBVIOUS
  <2>2. g[i] = step[<<g[i - 1], i>>]
    BY <1>1, <2>1 DEF Loop
  <2>3. <<g[i - 1], i>> \in Nat \X Nat
    BY <1>1, <2>1
  <2> HIDE DEF i
  <2>4. g[i] = bytes[at + k + 1] + Base * g[i - 1]
    BY <2>1, <2>2, <2>3
  <2>5. f[k] = g[i] /\ f[k + 1] = g[i - 1]
    BY DEF i
  <2> QED
    BY <2>4, <2>5
<1> HIDE DEF f
<1>4. IsFrom(f)
  BY <1>2, <1>3
<1>5. IsFrom(from)
  BY <1>4
<1>6. NumberIn(bytes, at, width) = from[0]
  BY DEF NumberIn
<1> HIDE DEF from
<1>7. IsSum(from, bytes, at, width)
  <2>1. from[width] = 0 /\ \A k \in 0..(width - 1) : from[k] = bytes[at + k + 1] + Base * from[k + 1]
    BY <1>5
  <2> DEFINE S == {k \in Nat : k <= width => from[width - k] \in Nat}
  <2>2. 0 \in S
    BY <2>1
  <2>3. ASSUME NEW k \in Nat, k \in S
        PROVE  k + 1 \in S
    <3> SUFFICES ASSUME k + 1 <= width
                 PROVE  from[width - (k + 1)] \in Nat
      OBVIOUS
    <3> DEFINE j == width - (k + 1)
    <3>1. from[j + 1] \in Nat /\ j \in 0..(width - 1)
      BY <2>3
    <3> HIDE DEF j
    <3>2. from[j] = bytes[at + j + 1] + Base * from[j + 1]
      BY <2>1, <3>1
    <3>3. Base * from[j + 1] \in Nat /\ bytes[at + j + 1] \in Nat
      BY <3>1, WordFacts
    <3>4. from[j] \in Nat
      BY <3>2, <3>3
    <3> QED
      BY <3>4 DEF j
  <2> HIDE DEF S
  <2>4. Nat \subseteq S
    BY <2>2, <2>3, NatSetInduction
  <2>5. ASSUME NEW k \in 0..width
        PROVE  from[k] \in Nat
    <3>1. width - k \in S /\ width - (width - k) = k
      BY <2>4
    <3> QED
      BY <3>1 DEF S
  <2>6. from = [k \in 0..width |-> from[k]]
    BY <1>5
  <2> QED
    BY <2>1, <2>5, <2>6 DEF IsSum
<1> QED
  BY <1>6, <1>7

(* A number is written as bytes, as many as its width.                     *)
LEMMA DigitsAreBytes ==
  ASSUME NEW v \in Nat, NEW width \in Nat
  PROVE  LittleEndian(v, width) \in Seq(Byte) /\ Len(LittleEndian(v, width)) = width
<1>1. PICK r : IsRest(r, v, width) /\ LittleEndian(v, width) = [k \in 1..width |-> r[k - 1] % Base]
  BY DigitsOf
<1>2. \A k \in 1..width : r[k - 1] % Base \in Byte
  <2>1. \A k \in 1..width : r[k - 1] \in Nat
    BY <1>1 DEF IsRest
  <2> QED
    BY <2>1, Division
<1> QED
  BY <1>1, <1>2

(* Four bytes are enough for a u32, eight for a u64.                       *)
LEMMA NothingRests ==
  ASSUME NEW v \in Nat, NEW width, (width = 4 /\ v < Word) \/ (width = 8 /\ v < DoubleWord),
         NEW r, IsRest(r, v, width)
  PROVE  r[width] = 0
<1> DEFINE B == Base
<1>1. ASSUME NEW k \in 1..width, NEW limit \in Nat, r[k - 1] < Base * limit
      PROVE  r[k] < limit
  <2>1. r[k - 1] \in Nat /\ r[k] = r[k - 1] \div Base
    BY DEF IsRest
  <2> QED
    BY <1>1, <2>1, Division
<1>2. /\ Base \in Nat /\ Base * Base \in Nat /\ Base * (Base * Base) \in Nat
      /\ Word \in Nat /\ Base * Word \in Nat /\ Base * (Base * Word) \in Nat
      /\ Base * (Base * (Base * Word)) \in Nat
  <2>1. \A n \in Nat : Base * n \in Nat
    BY WordFacts
  <2> QED
    BY <2>1, WordFacts
<1>3. ASSUME NEW j \in Nat, j + 4 = width, r[j] < Word
      PROVE  r[width] = 0
  <2>1. r[j] < Base * (Base * (Base * Base)) /\ {j + 1, j + 2, j + 3, j + 4} \subseteq 1..width
    BY <1>3 DEF Word
  <2>2. r[j + 1] < Base * (Base * Base)
    BY <1>1, <1>2, <2>1
  <2>3. r[j + 2] < Base * Base
    BY <1>1, <1>2, <2>1, <2>2
  <2>4. r[j + 3] < Base
    BY <1>1, <1>2, <2>1, <2>3
  <2>5. r[j + 3] < Base * 1
    BY <2>4, <1>2
  <2>6. r[j + 4] < 1
    BY <1>1, <2>1, <2>5
  <2>7. r[width] \in Nat
    BY <1>3 DEF IsRest
  <2> QED
    BY <1>3, <2>6, <2>7
<1>4. CASE width = 4 /\ v < Word
  BY <1>3, <1>4 DEF IsRest
<1>5. CASE width = 8 /\ v < DoubleWord
  <2>1. r[0] < Base * (Base * (Base * (Base * Word)))
    BY <1>5 DEF IsRest, DoubleWord
  <2>2. r[1] < Base * (Base * (Base * Word))
    BY <1>1, <1>2, <1>5, <2>1
  <2>3. r[2] < Base * (Base * Word)
    BY <1>1, <1>2, <1>5, <2>2
  <2>4. r[3] < Base * Word
    BY <1>1, <1>2, <1>5, <2>3
  <2>5. r[4] < Word
    BY <1>1, <1>2, <1>5, <2>4
  <2> QED
    BY <1>3, <1>5, <2>5
<1> QED
  BY <1>4, <1>5

(* A number that is written is read back, wherever its bytes lie.          *)
LEMMA NumberSurvives ==
  ASSUME NEW v \in Nat, NEW width, (width = 4 /\ v < Word) \/ (width = 8 /\ v < DoubleWord),
         NEW bytes, NEW at \in Nat,
         \A k \in 1..width : bytes[at + k] = LittleEndian(v, width)[k]
  PROVE  NumberIn(bytes, at, width) = v
<1>1. PICK r : IsRest(r, v, width) /\ LittleEndian(v, width) = [k \in 1..width |-> r[k - 1] % Base]
  BY DigitsOf
<1>2. r[width] = 0
  BY <1>1, NothingRests
<1>3. width \in Nat /\ \A k \in 0..width : r[k] \in Nat
  BY <1>1 DEF IsRest
<1>4. ASSUME NEW k \in 0..(width - 1)
      PROVE  /\ bytes[at + k + 1] \in Nat
             /\ r[k] = bytes[at + k + 1] + Base * r[k + 1]
  <2>1. k + 1 \in 1..width /\ at + (k + 1) = at + k + 1 /\ k + 1 - 1 = k
    BY <1>3
  <2>2. bytes[at + k + 1] = r[k] % Base
    BY <1>1, <2>1
  <2>3. r[k + 1] = r[k] \div Base
    BY <1>1, <2>1 DEF IsRest
  <2>4. r[k] \in Nat
    BY <1>3
  <2> QED
    BY <2>2, <2>3, <2>4, Division DEF Byte
<1>5. PICK f : IsSum(f, bytes, at, width) /\ NumberIn(bytes, at, width) = f[0]
  <2>1. \A k \in 0..(width - 1) : bytes[at + k + 1] \in Nat
    BY <1>4
  <2> QED
    BY <1>3, <2>1, NumberOf
<1> DEFINE S == {j \in Nat : j <= width => f[width - j] = r[width - j]}
<1>6. 0 \in S
  BY <1>2, <1>3, <1>5 DEF IsSum
<1>7. ASSUME NEW j \in Nat, j \in S
      PROVE  j + 1 \in S
  <2> SUFFICES ASSUME j + 1 <= width
               PROVE  f[width - (j + 1)] = r[width - (j + 1)]
    OBVIOUS
  <2> DEFINE k == width - (j + 1)
  <2>1. k \in 0..(width - 1) /\ k + 1 = width - j
    BY <1>3
  <2>2. f[k + 1] = r[k + 1]
    BY <1>7, <2>1
  <2> HIDE DEF k
  <2>3. f[k] = r[k]
    BY <1>4, <1>5, <2>1, <2>2 DEF IsSum
  <2> QED
    BY <2>3 DEF k
<1> HIDE DEF S
<1>8. width \in S
  BY <1>3, <1>6, <1>7, NatSetInduction
<1> QED
  BY <1>1, <1>3, <1>5, <1>8 DEF S, IsRest

-----------------------------------------------------------------------------
(* Sequences joined: where each of them lies in the whole.                 *)

(* f[i] is what the first i of n sequences are together.                   *)
Laid(f, ss, n) ==
  /\ f \in [0..n -> Seq(Byte)]
  /\ f[0] = <<>>
  /\ \A i \in 1..n : f[i] = f[i - 1] \o ss[i]

Layout(ss) == CHOOSE f : Laid(f, ss, Len(ss))

(* Where the i-th of them ends.                                            *)
End(ss, i) == Len(Layout(ss)[i])

(* The recursion that lays sequences out has a solution.                   *)
LEMMA LayoutExists ==
  ASSUME NEW n \in Nat, NEW ss \in [1..n -> Seq(Byte)]
  PROVE  \E f : Laid(f, ss, n)
<1> DEFINE D == Seq(Byte)
           step == [p \in D \X Nat |-> IF p[2] \in 1..n THEN p[1] \o ss[p[2]] ELSE <<>>]
<1>1. step \in [D \X Nat -> D] /\ <<>> \in D
  <2>1. ASSUME NEW p \in D \X Nat, p[2] \in 1..n
        PROVE  p[1] \o ss[p[2]] \in D
    <3>1. p[1] \in Seq(Byte) /\ ss[p[2]] \in Seq(Byte)
      BY <2>1
    <3> QED
      BY <3>1
  <2>2. <<>> \in D
    OBVIOUS
  <2> HIDE DEF D
  <2>3. step \in [D \X Nat -> D]
    BY <2>1, <2>2
  <2> QED
    BY <2>2, <2>3
<1> HIDE DEF step, D
<1>2. PICK f \in [0..n -> D] : Loop(f, <<>>, step, n)
  BY <1>1, LoopExists
<1>3. ASSUME NEW i \in 1..n
      PROVE  f[i] = f[i - 1] \o ss[i]
  <2>1. f[i] = step[<<f[i - 1], i>>]
    BY <1>2 DEF Loop
  <2>2. f[i - 1] \in D /\ i \in Nat
    BY <1>2
  <2>3. <<f[i - 1], i>> \in D \X Nat
    BY <2>2
  <2> QED
    BY <2>1, <2>3 DEF step
<1>4. Laid(f, ss, n)
  BY <1>2, <1>3 DEF Laid, Loop, D
<1> QED
  BY <1>4

(* The first sequence lies alone.                                          *)
LEMMA FirstLaid ==
  ASSUME NEW n \in Nat, 1 \in 1..n, NEW ss \in [1..n -> Seq(Byte)], NEW f, Laid(f, ss, n)
  PROVE  f[1] = ss[1]
<1>1. f[1] = f[0] \o ss[1]
  <2>1. PICK i \in 1..n : i = 1
    OBVIOUS
  <2>2. f[i] = f[i - 1] \o ss[i]
    BY DEF Laid
  <2>3. i - 1 = 0
    BY <2>1
  <2> QED
    BY <2>1, <2>2, <2>3
<1> QED
  BY <1>1 DEF Laid

(* FlattenSeq of the community modules, which joins the last sequence to   *)
(* the rest, is the last step of that layout.                              *)
LEMMA FlattenIsLayout ==
  ASSUME NEW n \in Nat, NEW ss \in [1..n -> Seq(Byte)], Len(ss) = n,
         NEW lay, Laid(lay, ss, n)
  PROVE  FlattenSeq(ss) = lay[n]
<1> DEFINE IsFrom(f) == f = [i \in 1..n |-> IF i = 1 THEN ss[i] ELSE f[i - 1] \o ss[i]]
           flatten == CHOOSE f : IsFrom(f)
           g == [i \in 1..n |-> lay[i]]
<1>1. CASE n = 0
  <2>1. FlattenSeq(ss) = ss
    BY <1>1 DEF FlattenSeq
  <2>2. ss = <<>>
    BY <1>1
  <2> QED
    BY <1>1, <2>1, <2>2 DEF Laid
<1>2. CASE n # 0
  <2>1. 1 \in 1..n /\ lay[1] = ss[1]
    BY <1>2, FirstLaid
  <2>2. ASSUME NEW i \in 1..n
        PROVE  g[i] = IF i = 1 THEN ss[i] ELSE g[i - 1] \o ss[i]
    <3>1. CASE i = 1
      BY <2>1, <3>1
    <3>2. CASE i # 1
      <4>1. i - 1 \in 1..n
        BY <3>2
      <4>2. lay[i] = lay[i - 1] \o ss[i]
        BY DEF Laid
      <4> QED
        BY <3>2, <4>1, <4>2
    <3> QED
      BY <3>1, <3>2
  <2>3. IsFrom(g)
    <3>1. g = [i \in 1..n |-> g[i]]
      OBVIOUS
    <3> HIDE DEF g
    <3> QED
      BY <2>2, <3>1
  <2> HIDE DEF g
  <2>4. IsFrom(flatten)
    BY <2>3
  <2>5. FlattenSeq(ss) = flatten[n]
    BY <1>2 DEF FlattenSeq
  <2> HIDE DEF flatten
  <2> DEFINE S == {k \in Nat : k + 1 <= n => flatten[k + 1] = lay[k + 1]}
  <2>6. 0 \in S
    <3>1. flatten[1] = ss[1] /\ 0 + 1 = 1
      BY <2>1, <2>4
    <3> QED
      BY <2>1, <3>1
  <2>7. ASSUME NEW k \in Nat, k \in S
        PROVE  k + 1 \in S
    <3> SUFFICES ASSUME k + 2 <= n
                 PROVE  flatten[k + 2] = lay[k + 2]
      OBVIOUS
    <3>1. PICK i \in 1..n : i = k + 2
      OBVIOUS
    <3>2. flatten[i - 1] = lay[i - 1] /\ i # 1
      BY <2>7, <3>1
    <3>3. flatten[i] = flatten[i - 1] \o ss[i]
      BY <2>4, <3>2
    <3>4. lay[i] = lay[i - 1] \o ss[i]
      BY DEF Laid
    <3> QED
      BY <3>1, <3>2, <3>3, <3>4
  <2> HIDE DEF S
  <2>8. n - 1 \in S
    <3>1. n - 1 \in Nat
      BY <1>2
    <3>2. Nat \subseteq S
      BY <2>6, <2>7, NatSetInduction
    <3> QED
      BY <3>1, <3>2
  <2>9. flatten[n] = lay[n]
    BY <2>8 DEF S
  <2> QED
    BY <2>5, <2>9
<1> QED
  BY <1>1, <1>2

(* What the prover knows of two joined sequences, as one fact.             *)
LEMMA Concatenation ==
  ASSUME NEW s \in Seq(Byte), NEW t \in Seq(Byte), NEW both, both = s \o t
  PROVE  /\ both \in Seq(Byte)
         /\ Len(both) = Len(s) + Len(t) /\ Len(s) \in Nat /\ Len(t) \in Nat
         /\ \A k \in 1..Len(s) : both[k] = s[k]
         /\ \A k \in 1..Len(t) : both[Len(s) + k] = t[k]
OBVIOUS

(* The first i are a prefix of all.                                        *)
LEMMA LaidGrows ==
  ASSUME NEW n \in Nat, NEW ss \in [1..n -> Seq(Byte)], NEW lay, Laid(lay, ss, n), NEW i \in 0..n
  PROVE  /\ lay[i] \in Seq(Byte) /\ Len(lay[i]) \in Nat
         /\ Len(lay[i]) <= Len(lay[n])
         /\ \A k \in 1..Len(lay[i]) : lay[n][k] = lay[i][k]
<1> DEFINE Extends(j) ==
             Len(lay[i]) <= Len(lay[j]) /\ \A k \in 1..Len(lay[i]) : lay[j][k] = lay[i][k]
           S == {d \in Nat : i + d <= n => Extends(i + d)}
<1>1. lay[i] \in Seq(Byte) /\ Len(lay[i]) \in Nat
  BY DEF Laid
<1>2. 0 \in S
  BY <1>1
<1>3. ASSUME NEW d \in Nat, d \in S
      PROVE  d + 1 \in S
  <2> SUFFICES ASSUME i + (d + 1) <= n
               PROVE  Extends(i + (d + 1))
    OBVIOUS
  <2>1. PICK j \in 1..n : j = i + (d + 1)
    OBVIOUS
  <2>2. j - 1 = i + d
    BY <2>1
  <2>3. Extends(j - 1)
    BY <1>3, <2>1, <2>2
  <2>a. PICK all, before, part : all = lay[j] /\ before = lay[j - 1] /\ part = ss[j]
    OBVIOUS
  <2>b. before \in Seq(Byte) /\ part \in Seq(Byte) /\ all = before \o part
    <3>1. lay[j - 1] \in Seq(Byte) /\ ss[j] \in Seq(Byte)
      <4>1. lay \in [0..n -> Seq(Byte)] /\ ss \in [1..n -> Seq(Byte)]
        BY DEF Laid
      <4>2. PICK p \in 0..n : p = j - 1
        OBVIOUS
      <4>3. lay[p] \in Seq(Byte)
        BY <4>1
      <4>4. ss[j] \in Seq(Byte)
        BY <4>1
      <4> QED
        BY <4>2, <4>3, <4>4
    <3>2. lay[j] = lay[j - 1] \o ss[j]
      <4>1. \A k \in 1..n : lay[k] = lay[k - 1] \o ss[k]
        BY Zenon DEF Laid
      <4> QED
        BY <4>1, Zenon
    <3> QED
      BY <2>a, <3>1, <3>2
  <2>4. /\ Len(all) = Len(before) + Len(part)
        /\ Len(before) \in Nat /\ Len(part) \in Nat
        /\ \A k \in 1..Len(before) : all[k] = before[k]
    BY <2>b, Concatenation
  <2>5. Len(lay[i]) <= Len(before) /\ \A k \in 1..Len(lay[i]) : before[k] = lay[i][k]
    BY <2>3, <2>a
  <2>6. Len(lay[i]) <= Len(all)
    BY <1>1, <2>4, <2>5
  <2>7. ASSUME NEW k \in 1..Len(lay[i])
        PROVE  all[k] = lay[i][k]
    <3>1. k \in 1..Len(before)
      BY <1>1, <2>4, <2>5
    <3> QED
      BY <2>4, <2>5, <3>1
  <2> QED
    BY <2>1, <2>6, <2>7, <2>a
<1> HIDE DEF S, Extends
<1>4. n - i \in S /\ i + (n - i) = n
  <2>1. n - i \in Nat /\ i + (n - i) = n
    OBVIOUS
  <2>2. Nat \subseteq S
    BY <1>2, <1>3, NatSetInduction
  <2> QED
    BY <2>1, <2>2
<1>5. Extends(n)
  BY <1>4 DEF S
<1> QED
  BY <1>1, <1>5 DEF Extends

(* Where the i-th part starts.                                             *)
Begin(ss, i) == End(ss, i - 1)

(* Every part lies in the whole from where the one before it ends.         *)
LEMMA PartsInPlace ==
  ASSUME NEW ss \in Seq(Seq(Byte))
  PROVE  /\ FlattenSeq(ss) \in Seq(Byte)
         /\ End(ss, Len(ss)) = Len(FlattenSeq(ss))
         /\ End(ss, 0) = 0
         /\ \A i \in 0..Len(ss) : End(ss, i) \in Nat /\ End(ss, i) <= Len(FlattenSeq(ss))
         /\ \A i \in 1..Len(ss) :
              /\ Begin(ss, i) \in Nat
              /\ End(ss, i) = Begin(ss, i) + Len(ss[i])
              /\ \A k \in 1..Len(ss[i]) : FlattenSeq(ss)[Begin(ss, i) + k] = ss[i][k]
<1>1. PICK n \in Nat : n = Len(ss) /\ ss \in [1..n -> Seq(Byte)]
  OBVIOUS
<1>2. PICK lay : lay = Layout(ss)
  OBVIOUS
<1>3. ss \in [1..n -> Seq(Byte)] /\ Laid(lay, ss, n)
  BY <1>1, <1>2, LayoutExists DEF Layout
<1>4. FlattenSeq(ss) = lay[n]
  BY <1>1, <1>3, FlattenIsLayout
<1>5. \A i : End(ss, i) = Len(lay[i])
  BY <1>2 DEF End
<1>6. \A i \in 0..n : /\ lay[i] \in Seq(Byte) /\ Len(lay[i]) \in Nat
                      /\ Len(lay[i]) <= Len(lay[n])
  BY <1>3, LaidGrows
<1>7. ASSUME NEW i \in 1..n
      PROVE  /\ Begin(ss, i) \in Nat
             /\ End(ss, i) = Begin(ss, i) + Len(ss[i])
             /\ \A k \in 1..Len(ss[i]) : lay[n][Begin(ss, i) + k] = ss[i][k]
  <2>a. PICK all, before, part : all = lay[i] /\ before = lay[i - 1] /\ part = ss[i]
    OBVIOUS
  <2>b. before \in Seq(Byte) /\ part \in Seq(Byte) /\ all = before \o part
    <3>1. lay[i - 1] \in Seq(Byte) /\ ss[i] \in Seq(Byte)
      <4>1. lay \in [0..n -> Seq(Byte)] /\ ss \in [1..n -> Seq(Byte)]
        BY <1>3 DEF Laid
      <4>2. PICK p \in 0..n : p = i - 1
        OBVIOUS
      <4>3. lay[p] \in Seq(Byte)
        BY <4>1
      <4>4. ss[i] \in Seq(Byte)
        BY <4>1
      <4> QED
        BY <4>2, <4>3, <4>4
    <3>2. lay[i] = lay[i - 1] \o ss[i]
      <4>1. \A k \in 1..n : lay[k] = lay[k - 1] \o ss[k]
        BY <1>3, Zenon DEF Laid
      <4> QED
        BY <4>1, Zenon
    <3> QED
      BY <2>a, <3>1, <3>2
  <2>1. Begin(ss, i) = Len(before) /\ End(ss, i) = Len(all)
    BY <1>5, <2>a DEF Begin
  <2>2. /\ Len(all) = Len(before) + Len(part)
        /\ Len(before) \in Nat /\ Len(part) \in Nat
        /\ \A k \in 1..Len(part) : all[Len(before) + k] = part[k]
    BY <2>b, Concatenation
  <2>3. \A k \in 1..Len(all) : lay[n][k] = all[k]
    <3>1. i \in 0..n
      OBVIOUS
    <3>2. \A k \in 1..Len(lay[i]) : lay[n][k] = lay[i][k]
      BY <1>3, <3>1, LaidGrows
    <3> QED
      BY <2>a, <3>2
  <2>4. ASSUME NEW k \in 1..Len(part)
        PROVE  lay[n][Len(before) + k] = part[k]
    <3>1. Len(before) + k \in 1..Len(all)
      BY <2>2
    <3> QED
      BY <2>2, <2>3, <3>1
  <2> QED
    BY <2>1, <2>2, <2>4, <2>a
<1>8. lay[0] = <<>> /\ n \in 0..n
  BY <1>3 DEF Laid
<1>9. /\ End(ss, n) = Len(lay[n])
      /\ End(ss, 0) = 0
  BY <1>5, <1>8
<1>10. \A i \in 0..n : End(ss, i) \in Nat /\ End(ss, i) <= Len(lay[n])
  BY <1>5, <1>6
<1>11. lay[n] \in Seq(Byte)
  BY <1>6, <1>8
<1> QED
  BY <1>1, <1>4, <1>7, <1>9, <1>10, <1>11

-----------------------------------------------------------------------------
(* The tables of fields, written by hand on both sides.                    *)

Types == {"u32", "u64", "bool", "str", "list"}

(* One table of fields: the types are known, no name comes twice, and the  *)
(* fields that a constructor converts have the type it converts from.      *)
HasTypes(fields) ==
  Len(fields) \in Nat /\ DOMAIN fields = 1..Len(fields) /\ \A i \in DOMAIN fields : fields[i][2] \in Types

HasNames(fields) == \A i, j \in DOMAIN fields : fields[i][1] = fields[j][1] => i = j

Converted(fields) ==
  \A i \in DOMAIN fields : /\ fields[i][1] \in {"info", "status"} => fields[i][2] = "u32"
                           /\ fields[i][1] = "packageId" => fields[i][2] = "str"

IsTable(fields) == HasTypes(fields) /\ HasNames(fields) /\ Converted(fields)

(* The kinds of messages, one by one.                                      *)
LEMMA KindsAre ==
  Kinds = {"Package", "Progress", "Details", "UpdateDetail", "RepoDetail", "Files", "ErrorCode",
           "Message", "EulaRequired", "RepoSigRequired", "RequireRestart", "ManagerProps",
           "Finished"}
BY DEF Kinds, ContentFields, NoticeFields

(* The two sides list the same fields in the same order.                   *)
LEMMA TablesMatch ==
  ASSUME NEW kind \in Kinds
  PROVE  NativeFields[kind] = DartFields[kind] /\ IsTable(NativeFields[kind])
<1> USE DEF U32, U64, Bool, Str, List, Types
<1>1. CASE kind = "Package"
  <2>1. NativeFields[kind] = DartFields[kind]
    BY <1>1 DEF NativeFields, DartFields, ContentFields
  <2> DEFINE fields == DartFields["Package"]
  <2>2. HasTypes(fields)
    BY DEF DartFields, HasTypes
  <2>3. HasNames(fields)
    BY DEF DartFields, HasNames
  <2>4. Converted(fields)
    BY DEF DartFields, Converted
  <2> HIDE DEF fields
  <2>5. IsTable(fields)
    BY <2>2, <2>3, <2>4 DEF IsTable
  <2> QED
    BY <1>1, <2>1, <2>5 DEF fields
<1>2. CASE kind = "Progress"
  <2>1. NativeFields[kind] = DartFields[kind]
    BY <1>2 DEF NativeFields, DartFields, ContentFields
  <2> DEFINE fields == DartFields["Progress"]
  <2>2. HasTypes(fields)
    BY DEF DartFields, HasTypes
  <2>3. HasNames(fields)
    BY DEF DartFields, HasNames
  <2>4. Converted(fields)
    BY DEF DartFields, Converted
  <2> HIDE DEF fields
  <2>5. IsTable(fields)
    BY <2>2, <2>3, <2>4 DEF IsTable
  <2> QED
    BY <1>2, <2>1, <2>5 DEF fields
<1>3. CASE kind = "Details"
  <2>1. NativeFields[kind] = DartFields[kind]
    BY <1>3 DEF NativeFields, DartFields, ContentFields
  <2> DEFINE fields == DartFields["Details"]
  <2>2. HasTypes(fields)
    BY DEF DartFields, HasTypes
  <2>3. HasNames(fields)
    BY DEF DartFields, HasNames
  <2>4. Converted(fields)
    BY DEF DartFields, Converted
  <2> HIDE DEF fields
  <2>5. IsTable(fields)
    BY <2>2, <2>3, <2>4 DEF IsTable
  <2> QED
    BY <1>3, <2>1, <2>5 DEF fields
<1>4. CASE kind = "UpdateDetail"
  <2>1. NativeFields[kind] = DartFields[kind]
    BY <1>4 DEF NativeFields, DartFields, ContentFields
  <2> DEFINE fields == DartFields["UpdateDetail"]
  <2>2. HasTypes(fields)
    BY DEF DartFields, HasTypes
  <2>3. HasNames(fields)
    BY DEF DartFields, HasNames
  <2>4. Converted(fields)
    BY DEF DartFields, Converted
  <2> HIDE DEF fields
  <2>5. IsTable(fields)
    BY <2>2, <2>3, <2>4 DEF IsTable
  <2> QED
    BY <1>4, <2>1, <2>5 DEF fields
<1>5. CASE kind = "RepoDetail"
  <2>1. NativeFields[kind] = DartFields[kind]
    BY <1>5 DEF NativeFields, DartFields, ContentFields
  <2> DEFINE fields == DartFields["RepoDetail"]
  <2>2. HasTypes(fields)
    BY DEF DartFields, HasTypes
  <2>3. HasNames(fields)
    BY DEF DartFields, HasNames
  <2>4. Converted(fields)
    BY DEF DartFields, Converted
  <2> HIDE DEF fields
  <2>5. IsTable(fields)
    BY <2>2, <2>3, <2>4 DEF IsTable
  <2> QED
    BY <1>5, <2>1, <2>5 DEF fields
<1>6. CASE kind = "Files"
  <2>1. NativeFields[kind] = DartFields[kind]
    BY <1>6 DEF NativeFields, DartFields, ContentFields
  <2> DEFINE fields == DartFields["Files"]
  <2>2. HasTypes(fields)
    BY DEF DartFields, HasTypes
  <2>3. HasNames(fields)
    BY DEF DartFields, HasNames
  <2>4. Converted(fields)
    BY DEF DartFields, Converted
  <2> HIDE DEF fields
  <2>5. IsTable(fields)
    BY <2>2, <2>3, <2>4 DEF IsTable
  <2> QED
    BY <1>6, <2>1, <2>5 DEF fields
<1>7. CASE kind = "ErrorCode"
  <2>1. NativeFields[kind] = DartFields[kind]
    BY <1>7 DEF NativeFields, DartFields, ContentFields, NoticeFields
  <2> DEFINE fields == DartFields["ErrorCode"]
  <2>2. HasTypes(fields)
    BY DEF DartFields, HasTypes
  <2>3. HasNames(fields)
    BY DEF DartFields, HasNames
  <2>4. Converted(fields)
    BY DEF DartFields, Converted
  <2> HIDE DEF fields
  <2>5. IsTable(fields)
    BY <2>2, <2>3, <2>4 DEF IsTable
  <2> QED
    BY <1>7, <2>1, <2>5 DEF fields
<1>8. CASE kind = "Message"
  <2>1. NativeFields[kind] = DartFields[kind]
    BY <1>8 DEF NativeFields, DartFields, ContentFields, NoticeFields
  <2> DEFINE fields == DartFields["Message"]
  <2>2. HasTypes(fields)
    BY DEF DartFields, HasTypes
  <2>3. HasNames(fields)
    BY DEF DartFields, HasNames
  <2>4. Converted(fields)
    BY DEF DartFields, Converted
  <2> HIDE DEF fields
  <2>5. IsTable(fields)
    BY <2>2, <2>3, <2>4 DEF IsTable
  <2> QED
    BY <1>8, <2>1, <2>5 DEF fields
<1>9. CASE kind = "EulaRequired"
  <2>1. NativeFields[kind] = DartFields[kind]
    BY <1>9 DEF NativeFields, DartFields, ContentFields, NoticeFields
  <2> DEFINE fields == DartFields["EulaRequired"]
  <2>2. HasTypes(fields)
    BY DEF DartFields, HasTypes
  <2>3. HasNames(fields)
    BY DEF DartFields, HasNames
  <2>4. Converted(fields)
    BY DEF DartFields, Converted
  <2> HIDE DEF fields
  <2>5. IsTable(fields)
    BY <2>2, <2>3, <2>4 DEF IsTable
  <2> QED
    BY <1>9, <2>1, <2>5 DEF fields
<1>10. CASE kind = "RepoSigRequired"
  <2>1. NativeFields[kind] = DartFields[kind]
    BY <1>10 DEF NativeFields, DartFields, ContentFields, NoticeFields
  <2> DEFINE fields == DartFields["RepoSigRequired"]
  <2>2. HasTypes(fields)
    BY DEF DartFields, HasTypes
  <2>3. HasNames(fields)
    BY DEF DartFields, HasNames
  <2>4. Converted(fields)
    BY DEF DartFields, Converted
  <2> HIDE DEF fields
  <2>5. IsTable(fields)
    BY <2>2, <2>3, <2>4 DEF IsTable
  <2> QED
    BY <1>10, <2>1, <2>5 DEF fields
<1>11. CASE kind = "RequireRestart"
  <2>1. NativeFields[kind] = DartFields[kind]
    BY <1>11 DEF NativeFields, DartFields, ContentFields, NoticeFields
  <2> DEFINE fields == DartFields["RequireRestart"]
  <2>2. HasTypes(fields)
    BY DEF DartFields, HasTypes
  <2>3. HasNames(fields)
    BY DEF DartFields, HasNames
  <2>4. Converted(fields)
    BY DEF DartFields, Converted
  <2> HIDE DEF fields
  <2>5. IsTable(fields)
    BY <2>2, <2>3, <2>4 DEF IsTable
  <2> QED
    BY <1>11, <2>1, <2>5 DEF fields
<1>12. CASE kind = "ManagerProps"
  <2>1. NativeFields[kind] = DartFields[kind]
    BY <1>12 DEF NativeFields, DartFields, ContentFields, NoticeFields, PropertyFields
  <2> DEFINE fields == DartFields["ManagerProps"]
  <2>2. HasTypes(fields)
    BY DEF DartFields, HasTypes
  <2>3. HasNames(fields)
    BY DEF DartFields, HasNames
  <2>4. Converted(fields)
    BY DEF DartFields, Converted
  <2> HIDE DEF fields
  <2>5. IsTable(fields)
    BY <2>2, <2>3, <2>4 DEF IsTable
  <2> QED
    BY <1>12, <2>1, <2>5 DEF fields
<1>13. CASE kind = "Finished"
  <2>1. NativeFields[kind] = DartFields[kind]
    BY <1>13 DEF NativeFields, DartFields, ContentFields, NoticeFields, FinishedFields
  <2> DEFINE fields == DartFields["Finished"]
  <2>2. HasTypes(fields)
    BY DEF DartFields, HasTypes
  <2>3. HasNames(fields)
    BY DEF DartFields, HasNames
  <2>4. Converted(fields)
    BY DEF DartFields, Converted
  <2> HIDE DEF fields
  <2>5. IsTable(fields)
    BY <2>2, <2>3, <2>4 DEF IsTable
  <2> QED
    BY <1>13, <2>1, <2>5 DEF fields
<1> QED
  BY <1>1, <1>2, <1>3, <1>4, <1>5, <1>6, <1>7, <1>8, <1>9, <1>10, <1>11, <1>12, <1>13, KindsAre

-----------------------------------------------------------------------------
(* Strings, lists and fields, where the encoder places them.               *)

(* The bytes of a part lie in others, behind the first at of them.         *)
Placed(bytes, at, part) == \A k \in 1..Len(part) : bytes[at + k] = part[k]

(* Two joined parts are placed one behind the other.                       *)
LEMMA PlacedTogether ==
  ASSUME NEW bytes, NEW at \in Nat, NEW s \in Seq(Byte), NEW t \in Seq(Byte),
         Placed(bytes, at, s \o t)
  PROVE  /\ Len(s \o t) = Len(s) + Len(t)
         /\ Placed(bytes, at, s)
         /\ Placed(bytes, at + Len(s), t)
<1>1. PICK both : both = s \o t
  OBVIOUS
<1>2. /\ Len(both) = Len(s) + Len(t) /\ Len(s) \in Nat /\ Len(t) \in Nat
      /\ \A k \in 1..Len(s) : both[k] = s[k]
      /\ \A k \in 1..Len(t) : both[Len(s) + k] = t[k]
  BY <1>1, Concatenation
<1>3. \A k \in 1..Len(both) : bytes[at + k] = both[k]
  BY <1>1 DEF Placed
<1>4. ASSUME NEW k \in 1..Len(s)
      PROVE  bytes[at + k] = s[k]
  <2>1. k \in 1..Len(both)
    BY <1>2
  <2> QED
    BY <1>2, <1>3, <2>1
<1>5. ASSUME NEW k \in 1..Len(t)
      PROVE  bytes[at + Len(s) + k] = t[k]
  <2>1. PICK j : j = Len(s) + k
    OBVIOUS
  <2>2. j \in 1..Len(both) /\ at + j = at + Len(s) + k
    BY <1>2, <2>1
  <2>3. bytes[at + j] = both[j]
    BY <1>3, <2>2
  <2>4. both[j] = t[k]
    BY <1>2, <2>1
  <2> QED
    BY <2>2, <2>3, <2>4
<1> QED
  BY <1>1, <1>2, <1>4, <1>5 DEF Placed

(* A number is read back from where it was placed.                         *)
LEMMA NumberPlaced ==
  ASSUME NEW v \in Nat, NEW width, (width = 4 /\ v < Word) \/ (width = 8 /\ v < DoubleWord),
         NEW bytes, NEW at \in Nat, Placed(bytes, at, LittleEndian(v, width))
  PROVE  NumberIn(bytes, at, width) = v
<1>1. Len(LittleEndian(v, width)) = width
  BY DigitsAreBytes
<1>2. \A k \in 1..width : bytes[at + k] = LittleEndian(v, width)[k]
  BY <1>1 DEF Placed
<1> QED
  BY <1>2, NumberSurvives

(* What EncodeString writes: bytes, four for the length and then the       *)
(* string's own.                                                           *)
LEMMA StringEncoded ==
  ASSUME NEW s, IsString(s)
  PROVE  /\ EncodeString(s) \in Seq(Byte) /\ Len(EncodeString(s)) = 4 + Len(s)
         /\ Len(s) \in Nat /\ Len(s) < Word /\ s \in Seq(Byte)
         /\ LittleEndian(Len(s), 4) \in Seq(Byte) /\ Len(LittleEndian(Len(s), 4)) = 4
<1>1. Len(s) \in Nat /\ s \in Seq(Byte) /\ Len(s) < Word
  BY DEF IsString
<1>2. LittleEndian(Len(s), 4) \in Seq(Byte) /\ Len(LittleEndian(Len(s), 4)) = 4
  BY <1>1, DigitsAreBytes
<1>3. PICK length4, both : length4 = LittleEndian(Len(s), 4) /\ both = length4 \o s
  OBVIOUS
<1>4. both \in Seq(Byte) /\ Len(both) = Len(length4) + Len(s)
  <2>1. length4 \in Seq(Byte)
    BY <1>2, <1>3
  <2> QED
    BY <1>1, <1>3, <2>1, Concatenation
<1>5. EncodeString(s) = both
  BY <1>3 DEF EncodeString
<1> QED
  BY <1>1, <1>2, <1>3, <1>4, <1>5

(* A string is read back from where it was placed.                         *)
LEMMA StringPlaced ==
  ASSUME NEW s, IsString(s), NEW bytes \in Seq(Byte), NEW at \in Nat,
         Placed(bytes, at, EncodeString(s)), at + 4 + Len(s) <= Len(bytes)
  PROVE  /\ NumberIn(bytes, at, 4) = Len(s)
         /\ SubSeq(bytes, at + 5, at + 4 + Len(s)) = s
<1>1. /\ Len(s) \in Nat /\ Len(s) < Word /\ s \in Seq(Byte)
      /\ LittleEndian(Len(s), 4) \in Seq(Byte) /\ Len(LittleEndian(Len(s), 4)) = 4
  BY StringEncoded
<1>2. Placed(bytes, at, LittleEndian(Len(s), 4)) /\ Placed(bytes, at + 4, s)
  <2>1. PICK length4 : length4 = LittleEndian(Len(s), 4)
    OBVIOUS
  <2>2. length4 \in Seq(Byte) /\ Len(length4) = 4
    BY <1>1, <2>1
  <2>3. Placed(bytes, at, length4 \o s)
    BY <2>1 DEF EncodeString
  <2>4. Placed(bytes, at, length4) /\ Placed(bytes, at + Len(length4), s)
    BY <1>1, <2>2, <2>3, PlacedTogether
  <2> QED
    BY <2>1, <2>2, <2>4
<1>3. NumberIn(bytes, at, 4) = Len(s)
  BY <1>1, <1>2, NumberPlaced
<1>4. SubSeq(bytes, at + 5, at + 4 + Len(s)) = s
  <2>1. PICK n \in Nat : n = Len(s)
    BY <1>1
  <2>2. PICK cut : cut = SubSeq(bytes, at + 5, at + 4 + n)
    OBVIOUS
  <2>3. at + 4 + n <= Len(bytes)
    BY <2>1
  <2>4. cut \in Seq(Byte) /\ Len(cut) = n /\ \A k \in 1..n : cut[k] = bytes[at + 4 + k]
    <3>1. cut = [k \in 1..n |-> bytes[at + 4 + k]]
      BY <2>2, <2>3
    <3>2. \A k \in 1..n : bytes[at + 4 + k] \in Byte
      <4>1. ASSUME NEW k \in 1..n
            PROVE  bytes[at + 4 + k] \in Byte
        <5>1. PICK j \in 1..Len(bytes) : j = at + 4 + k
          BY <2>3
        <5>2. bytes[j] \in Byte
          OBVIOUS
        <5> QED
          BY <5>1, <5>2
      <4> QED
        BY <4>1
    <3> QED
      BY <3>1, <3>2
  <2>5. \A k \in 1..n : bytes[at + 4 + k] = s[k]
    BY <1>2, <2>1 DEF Placed
  <2>6. cut = s
    <3>1. s = [k \in 1..n |-> s[k]]
      BY <1>1, <2>1
    <3>2. cut = [k \in 1..n |-> cut[k]]
      BY <2>4
    <3>3. \A k \in 1..n : cut[k] = s[k]
      BY <2>4, <2>5
    <3> QED
      BY <3>1, <3>2, <3>3
  <2> QED
    BY <2>1, <2>2, <2>6
<1> QED
  BY <1>3, <1>4

Strings(v) == [i \in DOMAIN v |-> EncodeString(v[i])]

(* What EncodeField writes for a list: four bytes for the count and then   *)
(* the strings.                                                            *)
LEMMA ListEncoded ==
  ASSUME NEW v, HasType("list", v)
  PROVE  /\ Strings(v) \in Seq(Seq(Byte)) /\ Len(Strings(v)) = Len(v)
         /\ Len(v) \in Nat /\ Len(v) < Word
         /\ EncodeField("list", v) = LittleEndian(Len(v), 4) \o FlattenSeq(Strings(v))
         /\ LittleEndian(Len(v), 4) \in Seq(Byte) /\ Len(LittleEndian(Len(v), 4)) = 4
         /\ FlattenSeq(Strings(v)) \in Seq(Byte)
         /\ EncodeField("list", v) \in Seq(Byte)
         /\ Len(EncodeField("list", v)) = 4 + Len(FlattenSeq(Strings(v)))
<1>1. v \in Seq(Seq(Byte)) /\ Len(v) < Word /\ \A i \in DOMAIN v : IsString(v[i])
  BY DEF HasType
<1>2. PICK n \in Nat : n = Len(v) /\ DOMAIN v = 1..n
  BY <1>1
<1>3. PICK ss : ss = Strings(v)
  OBVIOUS
<1>4. \A i \in 1..n : EncodeString(v[i]) \in Seq(Byte)
  BY <1>1, <1>2, StringEncoded
<1>5. ss \in Seq(Seq(Byte)) /\ Len(ss) = n
  <2>1. ss = [i \in 1..n |-> EncodeString(v[i])]
    BY <1>2, <1>3 DEF Strings
  <2> QED
    BY <1>4, <2>1
<1>6. FlattenSeq(ss) \in Seq(Byte)
  BY <1>5, PartsInPlace
<1>7. PICK head, tail : head = LittleEndian(n, 4) /\ tail = FlattenSeq(ss)
  OBVIOUS
<1>8. head \in Seq(Byte) /\ Len(head) = 4
  BY <1>7, DigitsAreBytes
<1>9. EncodeField("list", v) = head \o tail
  BY <1>2, <1>3, <1>7 DEF EncodeField, Strings
<1>10. head \o tail \in Seq(Byte) /\ Len(head \o tail) = Len(head) + Len(tail)
  BY <1>6, <1>7, <1>8, Concatenation
<1> QED
  BY <1>1, <1>2, <1>3, <1>5, <1>6, <1>7, <1>8, <1>9, <1>10

(* The count of a list, and its strings, are where the list was placed.    *)
LEMMA ListPlaced ==
  ASSUME NEW v, HasType("list", v), NEW bytes, NEW at \in Nat,
         Placed(bytes, at, EncodeField("list", v))
  PROVE  /\ NumberIn(bytes, at, 4) = Len(v)
         /\ Placed(bytes, at + 4, FlattenSeq(Strings(v)))
<1>1. PICK head, tail : head = LittleEndian(Len(v), 4) /\ tail = FlattenSeq(Strings(v))
  OBVIOUS
<1>2. head \in Seq(Byte) /\ Len(head) = 4 /\ tail \in Seq(Byte) /\ Len(v) \in Nat /\ Len(v) < Word
  BY <1>1, ListEncoded
<1>3. Placed(bytes, at, head \o tail)
  BY <1>1, ListEncoded
<1>4. Placed(bytes, at, head) /\ Placed(bytes, at + Len(head), tail)
  BY <1>2, <1>3, PlacedTogether
<1>5. NumberIn(bytes, at, 4) = Len(v)
  BY <1>1, <1>2, <1>4, NumberPlaced
<1> QED
  BY <1>1, <1>2, <1>4, <1>5

(* A part of a whole that lies somewhere lies there too.                   *)
LEMMA PartPlaced ==
  ASSUME NEW ss \in Seq(Seq(Byte)), NEW bytes, NEW at \in Nat, Placed(bytes, at, FlattenSeq(ss)),
         NEW i \in 1..Len(ss), NEW part, part = ss[i]
  PROVE  /\ Begin(ss, i) \in Nat
         /\ Placed(bytes, at + Begin(ss, i), part)
         /\ End(ss, i) = Begin(ss, i) + Len(part)
         /\ End(ss, i) <= Len(FlattenSeq(ss))
<1>1. PICK all, b : all = FlattenSeq(ss) /\ b = Begin(ss, i)
  OBVIOUS
<1>2. all \in Seq(Byte) /\ Len(all) \in Nat /\ Len(ss) \in Nat /\ part \in Seq(Byte) /\ Len(part) \in Nat
  BY <1>1, PartsInPlace
<1>3. /\ b \in Nat /\ End(ss, i) = b + Len(part)
      /\ \A k \in 1..Len(part) : all[b + k] = part[k]
  <2>1. /\ Begin(ss, i) \in Nat
        /\ End(ss, i) = Begin(ss, i) + Len(ss[i])
        /\ \A k \in 1..Len(ss[i]) : FlattenSeq(ss)[Begin(ss, i) + k] = ss[i][k]
    BY PartsInPlace
  <2> QED
    BY <1>1, <2>1
<1>4. End(ss, i) <= Len(all)
  <2>1. i \in 0..Len(ss)
    BY <1>2
  <2> QED
    BY <1>1, <2>1, PartsInPlace
<1>5. ASSUME NEW k \in 1..Len(part)
      PROVE  bytes[at + b + k] = part[k]
  <2>1. PICK j : j = b + k
    OBVIOUS
  <2>2. j \in 1..Len(all) /\ at + j = at + b + k
    BY <1>2, <1>3, <1>4, <2>1
  <2>3. bytes[at + j] = all[j]
    BY <1>1, <2>2 DEF Placed
  <2> QED
    BY <1>3, <2>1, <2>2, <2>3
<1> QED
  BY <1>1, <1>3, <1>4, <1>5 DEF Placed

(* A string of a list, where the list is.                                  *)
LEMMA ItemPlaced ==
  ASSUME NEW v, HasType("list", v), NEW bytes \in Seq(Byte), NEW at \in Nat,
         Placed(bytes, at, EncodeField("list", v)),
         at + Len(EncodeField("list", v)) <= Len(bytes),
         NEW i \in 1..Len(v), NEW b, b = at + 4 + Begin(Strings(v), i)
  PROVE  /\ b \in Nat
         /\ NumberIn(bytes, b, 4) = Len(v[i]) /\ Len(v[i]) \in Nat
         /\ SubSeq(bytes, b + 5, b + 4 + Len(v[i])) = v[i]
         /\ at + 4 + End(Strings(v), i) = b + 4 + Len(v[i])
         /\ b + 4 + Len(v[i]) <= at + Len(EncodeField("list", v))
<1>1. PICK ss, s, all : ss = Strings(v) /\ s = v[i] /\ all = FlattenSeq(ss)
  OBVIOUS
<1>2. /\ ss \in Seq(Seq(Byte)) /\ Len(ss) = Len(v) /\ Len(v) \in Nat
      /\ Len(EncodeField("list", v)) = 4 + Len(all)
      /\ Placed(bytes, at + 4, all)
  BY <1>1, ListEncoded, ListPlaced
<1>3. IsString(s) /\ ss[i] = EncodeString(s)
  <2>1. i \in DOMAIN v
    BY DEF HasType
  <2>2. IsString(v[i]) /\ Strings(v)[i] = EncodeString(v[i])
    BY <2>1 DEF HasType, Strings
  <2> QED
    BY <1>1, <2>2
<1>4. /\ EncodeString(s) \in Seq(Byte) /\ Len(EncodeString(s)) = 4 + Len(s) /\ Len(s) \in Nat
  BY <1>3, StringEncoded
<1>5. /\ Begin(ss, i) \in Nat
      /\ Placed(bytes, at + 4 + Begin(ss, i), EncodeString(s))
      /\ End(ss, i) = Begin(ss, i) + Len(EncodeString(s))
      /\ End(ss, i) <= Len(all)
  <2>1. i \in 1..Len(ss) /\ at + 4 \in Nat
    BY <1>2
  <2>2. Placed(bytes, at + 4, FlattenSeq(ss))
    BY <1>1, <1>2
  <2> QED
    BY <1>1, <1>2, <1>3, <2>1, <2>2, PartPlaced
<1>6. b = at + 4 + Begin(ss, i) /\ b \in Nat
  <2>1. at + 4 + Begin(ss, i) \in Nat
    BY <1>5
  <2> QED
    BY <1>1, <2>1
<1>7. Len(all) \in Nat /\ Len(bytes) \in Nat
  BY <1>1, <1>2, PartsInPlace
<1>8. /\ at + 4 + End(ss, i) = b + 4 + Len(s)
      /\ b + 4 + Len(s) <= at + Len(EncodeField("list", v))
      /\ b + 4 + Len(s) <= Len(bytes)
  <2>1. PICK begin \in Nat, n \in Nat, m \in Nat, l \in Nat :
          begin = Begin(ss, i) /\ n = Len(s) /\ m = Len(all) /\ l = Len(bytes)
    BY <1>4, <1>5, <1>7
  <2>a. PICK end, whole : end = End(ss, i) /\ whole = Len(EncodeField("list", v))
    OBVIOUS
  <2>2. end = begin + (4 + n) /\ end <= m /\ whole = 4 + m /\ b = at + 4 + begin /\ at + whole <= l
    BY <1>2, <1>4, <1>5, <1>6, <2>1, <2>a
  <2>3. at + 4 + end = b + 4 + n /\ b + 4 + n <= at + whole /\ b + 4 + n <= l
    BY <2>2
  <2> QED
    BY <2>1, <2>3, <2>a
<1>9. NumberIn(bytes, b, 4) = Len(s) /\ SubSeq(bytes, b + 5, b + 4 + Len(s)) = s
  BY <1>3, <1>5, <1>6, <1>8, StringPlaced
<1> QED
  BY <1>1, <1>4, <1>6, <1>8, <1>9

(* What EncodeField writes for each type.                                  *)
LEMMA FieldEncoded ==
  ASSUME NEW type \in Types, NEW v, HasType(type, v)
  PROVE  /\ EncodeField(type, v) \in Seq(Byte)
         /\ type = "u32" => EncodeField(type, v) = LittleEndian(v, 4) /\ v \in Nat /\ v < Word
         /\ type = "u64" => EncodeField(type, v) = LittleEndian(v, 8) /\ v \in Nat /\ v < DoubleWord
         /\ type = "bool" => EncodeField(type, v) = <<IF v THEN 1 ELSE 0>> /\ v \in BOOLEAN
         /\ type = "str" => EncodeField(type, v) = EncodeString(v) /\ IsString(v)
<1>1. CASE type = "u32"
  <2>1. v \in Nat /\ v < Word
    BY <1>1, WordFacts DEF HasType
  <2>2. EncodeField(type, v) = LittleEndian(v, 4)
    BY <1>1 DEF EncodeField
  <2> QED
    BY <1>1, <2>1, <2>2, DigitsAreBytes
<1>2. CASE type = "u64"
  <2>1. v \in Nat /\ v < DoubleWord
    BY <1>2, WordFacts DEF HasType
  <2>2. EncodeField(type, v) = LittleEndian(v, 8)
    BY <1>2 DEF EncodeField
  <2> QED
    BY <1>2, <2>1, <2>2, DigitsAreBytes
<1>3. CASE type = "bool"
  <2>1. EncodeField(type, v) = <<IF v THEN 1 ELSE 0>>
    BY <1>3 DEF EncodeField
  <2>2. <<IF v THEN 1 ELSE 0>> \in Seq(Byte)
    BY WordFacts
  <2> QED
    BY <1>3, <2>1, <2>2 DEF HasType
<1>4. CASE type = "str"
  <2>1. EncodeField(type, v) = EncodeString(v) /\ IsString(v)
    BY <1>4 DEF EncodeField, HasType
  <2> QED
    BY <1>4, <2>1, StringEncoded
<1>5. CASE type = "list"
  BY <1>5, ListEncoded
<1> QED
  BY <1>1, <1>2, <1>3, <1>4, <1>5 DEF Types

(* The name, the type and the value of the i-th field of what is sent.     *)
NameOf(in, i) == NativeFields[in.kind][i][1]
TypeOf(in, i) == NativeFields[in.kind][i][2]
Value(in, i)  == in.sent[NameOf(in, i)]
Count(in)     == Len(NativeFields[in.kind])

(* Each field of an input has the type that its table gives it.            *)
LEMMA FieldTyped ==
  ASSUME NEW in \in Inputs, NEW i \in 1..Count(in)
  PROVE  TypeOf(in, i) \in Types /\ HasType(TypeOf(in, i), Value(in, i))
<1>1. in.kind \in Kinds
  BY InputsAssumption
<1>2. HasTypes(NativeFields[in.kind])
  BY <1>1, TablesMatch DEF IsTable
<1>3. i \in DOMAIN NativeFields[in.kind]
  BY <1>2 DEF HasTypes, Count
<1>4. TypeOf(in, i) \in Types
  BY <1>2, <1>3 DEF HasTypes, TypeOf
<1>5. HasType(TypeOf(in, i), Value(in, i))
  BY <1>3, InputsAssumption DEF TypeOf, Value, NameOf
<1> QED
  BY <1>4, <1>5

(* Where a field begins in its message.                                    *)
FieldAt(in, i) == 1 + Begin(EncodedFields(in), i)

(* A message is the discriminator and the fields' bytes behind it.         *)
LEMMA MessageEncoded ==
  ASSUME NEW in \in Inputs
  PROVE  /\ EncodedFields(in) \in Seq(Seq(Byte))
         /\ Len(EncodedFields(in)) = Count(in) /\ Count(in) \in Nat
         /\ \A i \in 1..Count(in) : EncodedFields(in)[i] = EncodeField(TypeOf(in, i), Value(in, i))
         /\ Encode(in) \in Seq(Byte)
         /\ Len(Encode(in)) = 1 + Len(FlattenSeq(EncodedFields(in)))
         /\ FlattenSeq(EncodedFields(in)) \in Seq(Byte)
<1>1. PICK n : n = Count(in)
  OBVIOUS
<1>2. HasTypes(NativeFields[in.kind])
  BY TablesMatch, InputsAssumption DEF IsTable
<1>3. n \in Nat /\ DOMAIN NativeFields[in.kind] = 1..n
  BY <1>1, <1>2 DEF HasTypes, Count
<1>4. PICK ss : ss = EncodedFields(in)
  OBVIOUS
<1>5. ss = [i \in 1..n |-> EncodeField(TypeOf(in, i), Value(in, i))]
  BY <1>3, <1>4 DEF EncodedFields, TypeOf, Value, NameOf
<1>6. \A i \in 1..n : EncodeField(TypeOf(in, i), Value(in, i)) \in Seq(Byte)
  BY <1>1, FieldTyped, FieldEncoded
<1>7. ss \in Seq(Seq(Byte)) /\ Len(ss) = n
  BY <1>3, <1>5, <1>6
<1>8. \A i \in 1..n : ss[i] = EncodeField(TypeOf(in, i), Value(in, i))
  BY <1>5
<1>9. PICK first, rest : first = <<0>> /\ rest = FlattenSeq(ss)
  OBVIOUS
<1>10. first \in Seq(Byte) /\ Len(first) = 1 /\ rest \in Seq(Byte)
  BY <1>7, <1>9, WordFacts, PartsInPlace
<1>11. first \o rest \in Seq(Byte) /\ Len(first \o rest) = Len(first) + Len(rest)
  BY <1>10, Concatenation
<1>12. Encode(in) = first \o rest
  BY <1>4, <1>9 DEF Encode
<1> QED
  BY <1>1, <1>3, <1>4, <1>7, <1>8, <1>9, <1>10, <1>11, <1>12

(* A field of a message is placed where FieldAt says, and the next behind  *)
(* it.                                                                     *)
LEMMA FieldPlaced ==
  ASSUME NEW in \in Inputs, NEW bytes, NEW at \in Nat, Placed(bytes, at, Encode(in)),
         NEW i \in 1..Count(in), NEW part, part = EncodeField(TypeOf(in, i), Value(in, i))
  PROVE  /\ FieldAt(in, i) \in Nat
         /\ Placed(bytes, at + FieldAt(in, i), part)
         /\ FieldAt(in, i + 1) = FieldAt(in, i) + Len(part)
         /\ FieldAt(in, i) + Len(part) <= Len(Encode(in))
<1>1. PICK ss, rest : ss = EncodedFields(in) /\ rest = FlattenSeq(ss)
  OBVIOUS
<1>2. /\ ss \in Seq(Seq(Byte)) /\ i \in 1..Len(ss) /\ part = ss[i]
      /\ rest \in Seq(Byte) /\ Len(Encode(in)) = 1 + Len(rest)
  BY <1>1, MessageEncoded
<1>3. Placed(bytes, at + 1, rest)
  <2>1. PICK first : first = <<0>>
    OBVIOUS
  <2>2. first \in Seq(Byte) /\ Len(first) = 1
    BY <2>1, WordFacts
  <2>3. Placed(bytes, at, first \o rest)
    BY <1>1, <2>1 DEF Encode
  <2>4. Placed(bytes, at + Len(first), rest)
    BY <1>2, <2>2, <2>3, PlacedTogether
  <2> QED
    BY <2>2, <2>4
<1>4. /\ Begin(ss, i) \in Nat
      /\ Placed(bytes, at + 1 + Begin(ss, i), part)
      /\ End(ss, i) = Begin(ss, i) + Len(part)
      /\ End(ss, i) <= Len(rest)
  <2>1. at + 1 \in Nat /\ Placed(bytes, at + 1, FlattenSeq(ss))
    BY <1>1, <1>3
  <2> QED
    BY <1>1, <1>2, <2>1, PartPlaced
<1>5. part \in Seq(Byte) /\ Len(part) \in Nat /\ Len(rest) \in Nat
  BY <1>2
<1>6. Begin(ss, i + 1) = End(ss, i)
  <2>1. i + 1 - 1 = i
    BY <1>2
  <2> QED
    BY <2>1 DEF Begin
<1>7. PICK b \in Nat : b = Begin(ss, i)
  BY <1>4
<1>8. FieldAt(in, i) = 1 + b /\ FieldAt(in, i + 1) = 1 + End(ss, i)
  BY <1>1, <1>6, <1>7 DEF FieldAt
<1>9. at + 1 + b = at + (1 + b)
  OBVIOUS
<1>10. Placed(bytes, at + (1 + b), part)
  BY <1>4, <1>7, <1>9
<1>11. 1 + End(ss, i) = 1 + b + Len(part) /\ 1 + b + Len(part) <= Len(Encode(in))
  BY <1>2, <1>4, <1>5, <1>7
<1> QED
  BY <1>8, <1>10, <1>11

(* The first field is behind the discriminator, the last ends with the     *)
(* message.                                                                *)
LEMMA FirstAndLastField ==
  ASSUME NEW in \in Inputs
  PROVE  FieldAt(in, 1) = 1 /\ FieldAt(in, Count(in) + 1) = Len(Encode(in))
<1>1. PICK ss, n : ss = EncodedFields(in) /\ n = Count(in)
  OBVIOUS
<1>2. ss \in Seq(Seq(Byte)) /\ Len(ss) = n /\ n \in Nat /\ Len(Encode(in)) = 1 + Len(FlattenSeq(ss))
  BY <1>1, MessageEncoded
<1>3. End(ss, 0) = 0 /\ End(ss, n) = Len(FlattenSeq(ss))
  BY <1>2, PartsInPlace
<1>4. Begin(ss, 1) = 0 /\ Begin(ss, n + 1) = End(ss, n)
  <2>1. ASSUME NEW k \in Nat, NEW j, j = k + 1
        PROVE  Begin(ss, j) = End(ss, k)
    <3>1. j - 1 = k
      BY <2>1
    <3> QED
      BY <3>1 DEF Begin
  <2>2. PICK j : j = 1
    OBVIOUS
  <2>3. j = 0 + 1
    BY <2>2
  <2> QED
    BY <1>2, <1>3, <2>1, <2>2, <2>3
<1> QED
  BY <1>1, <1>2, <1>3, <1>4 DEF FieldAt

-----------------------------------------------------------------------------
(* The reader's view of them.                                              *)

(* The message lies in the buffer, from where the view starts, and the     *)
(* view is no longer than it.                                              *)
MessageHere ==
  /\ input \in Inputs
  /\ start \in Nat
  /\ buffer \in Seq(Byte)
  /\ Placed(buffer, start, Encode(input))
  /\ Len(buffer) = start + Len(Encode(input))
  /\ length \in 1..Len(Encode(input))

Here(i) == FieldAt(input, i)

(* Where a field is in the reader's buffer.                                *)
LEMMA FieldHere ==
  ASSUME MessageHere, NEW i \in 1..Count(input)
  PROVE  /\ TypeOf(input, i) \in Types /\ HasType(TypeOf(input, i), Value(input, i))
         /\ Here(i) \in Nat /\ start + Here(i) \in Nat
         /\ Placed(buffer, start + Here(i), EncodeField(TypeOf(input, i), Value(input, i)))
         /\ Here(i + 1) = Here(i) + Len(EncodeField(TypeOf(input, i), Value(input, i)))
         /\ Here(i + 1) <= Len(Encode(input))
         /\ Len(EncodeField(TypeOf(input, i), Value(input, i))) \in Nat
         /\ start + Here(i) + Len(EncodeField(TypeOf(input, i), Value(input, i))) <= Len(buffer)
<1>1. PICK part : part = EncodeField(TypeOf(input, i), Value(input, i))
  OBVIOUS
<1>2. TypeOf(input, i) \in Types /\ HasType(TypeOf(input, i), Value(input, i))
  BY FieldTyped DEF MessageHere
<1>3. part \in Seq(Byte) /\ Len(part) \in Nat
  <2>1. part \in Seq(Byte)
    BY <1>1, <1>2, FieldEncoded
  <2> QED
    BY <2>1
<1>4. /\ Here(i) \in Nat
      /\ Placed(buffer, start + Here(i), part)
      /\ Here(i + 1) = Here(i) + Len(part)
      /\ Here(i) + Len(part) <= Len(Encode(input))
  BY <1>1, FieldPlaced DEF MessageHere, Here
<1>5. start \in Nat /\ Len(Encode(input)) \in Nat /\ Len(buffer) = start + Len(Encode(input))
  <2>1. Encode(input) \in Seq(Byte)
    BY MessageEncoded DEF MessageHere
  <2> QED
    BY <2>1 DEF MessageHere
<1>6. start + Here(i) + Len(part) <= Len(buffer)
  BY <1>3, <1>4, <1>5
<1> QED
  BY <1>1, <1>2, <1>3, <1>4, <1>5, <1>6

(* UintAt finds the number that was sent.                                  *)
LEMMA NumberHere ==
  ASSUME MessageHere, NEW i \in 1..Count(input)
  PROVE  /\ TypeOf(input, i) = "u32" =>
              /\ UintAt(Here(i), 4) = Value(input, i)
              /\ Here(i + 1) = Here(i) + 4
         /\ TypeOf(input, i) = "u64" =>
              /\ UintAt(Here(i), 8) = Value(input, i)
              /\ Here(i + 1) = Here(i) + 8
<1>1. PICK at, v, type : at = start + Here(i) /\ v = Value(input, i) /\ type = TypeOf(input, i)
  OBVIOUS
<1>2. /\ type \in Types /\ HasType(type, v) /\ at \in Nat
      /\ Placed(buffer, at, EncodeField(type, v))
      /\ Here(i + 1) = Here(i) + Len(EncodeField(type, v))
  BY <1>1, FieldHere
<1>3. ASSUME type = "u32"
      PROVE  NumberIn(buffer, at, 4) = v /\ Here(i + 1) = Here(i) + 4
  <2>1. EncodeField(type, v) = LittleEndian(v, 4) /\ v \in Nat /\ v < Word
    BY <1>2, <1>3, FieldEncoded
  <2>2. Len(LittleEndian(v, 4)) = 4
    BY <2>1, DigitsAreBytes
  <2>3. Placed(buffer, at, LittleEndian(v, 4))
    BY <1>2, <2>1
  <2>4. NumberIn(buffer, at, 4) = v
    BY <1>2, <2>1, <2>3, NumberPlaced
  <2> QED
    BY <1>2, <2>1, <2>2, <2>4
<1>4. ASSUME type = "u64"
      PROVE  NumberIn(buffer, at, 8) = v /\ Here(i + 1) = Here(i) + 8
  <2>1. EncodeField(type, v) = LittleEndian(v, 8) /\ v \in Nat /\ v < DoubleWord
    BY <1>2, <1>4, FieldEncoded
  <2>2. Len(LittleEndian(v, 8)) = 8
    BY <2>1, DigitsAreBytes
  <2>3. Placed(buffer, at, LittleEndian(v, 8))
    BY <1>2, <2>1
  <2>4. NumberIn(buffer, at, 8) = v
    BY <1>2, <2>1, <2>3, NumberPlaced
  <2> QED
    BY <1>2, <2>1, <2>2, <2>4
<1> QED
  BY <1>1, <1>3, <1>4 DEF UintAt

(* ByteAt finds the flag that was sent.                                    *)
LEMMA BoolHere ==
  ASSUME MessageHere, NEW i \in 1..Count(input), TypeOf(input, i) = "bool"
  PROVE  (ByteAt(Here(i)) # 0) = Value(input, i) /\ Here(i + 1) = Here(i) + 1
<1>1. PICK at, v, part : /\ at = start + Here(i) /\ v = Value(input, i)
                         /\ part = EncodeField(TypeOf(input, i), v)
  OBVIOUS
<1>2. /\ HasType("bool", v) /\ Placed(buffer, at, part) /\ Here(i + 1) = Here(i) + Len(part)
  BY <1>1, FieldHere
<1>3. part = <<IF v THEN 1 ELSE 0>> /\ v \in BOOLEAN
  BY <1>1, <1>2, FieldEncoded DEF Types
<1>4. buffer[at + 1] = part[1] /\ Len(part) = 1
  <2>1. Len(part) = 1
    BY <1>3
  <2> QED
    BY <1>2, <2>1 DEF Placed
<1>5. (buffer[at + 1] # 0) = v
  BY <1>3, <1>4
<1> QED
  BY <1>1, <1>2, <1>4, <1>5 DEF ByteAt

(* UintAt and StringAt find the string that was sent.                      *)
LEMMA StringHere ==
  ASSUME MessageHere, NEW i \in 1..Count(input), TypeOf(input, i) = "str"
  PROVE  /\ UintAt(Here(i), 4) = Len(Value(input, i)) /\ Len(Value(input, i)) \in Nat
         /\ StringAt(Here(i)) = Value(input, i)
         /\ Here(i + 1) = Here(i) + 4 + Len(Value(input, i))
<1>1. PICK at, v, part : /\ at = start + Here(i) /\ v = Value(input, i)
                         /\ part = EncodeField(TypeOf(input, i), v)
  OBVIOUS
<1>2. /\ HasType("str", v) /\ Placed(buffer, at, part) /\ Here(i + 1) = Here(i) + Len(part)
      /\ at \in Nat /\ at + Len(part) <= Len(buffer) /\ Here(i) \in Nat
  BY <1>1, FieldHere
<1>3. part = EncodeString(v) /\ IsString(v)
  BY <1>1, <1>2, FieldEncoded DEF Types
<1>4. Len(part) = 4 + Len(v) /\ Len(v) \in Nat
  BY <1>3, StringEncoded
<1>5. at + 4 + Len(v) <= Len(buffer) /\ buffer \in Seq(Byte)
  <2>1. Len(buffer) \in Nat /\ buffer \in Seq(Byte)
    BY DEF MessageHere
  <2> QED
    BY <1>2, <1>4, <2>1
<1>6. NumberIn(buffer, at, 4) = Len(v) /\ SubSeq(buffer, at + 5, at + 4 + Len(v)) = v
  BY <1>2, <1>3, <1>5, StringPlaced
<1>7. UintAt(Here(i), 4) = Len(v)
  BY <1>1, <1>6 DEF UintAt
<1>8. StringAt(Here(i)) = v
  BY <1>1, <1>6, <1>7 DEF StringAt
<1>9. Here(i + 1) = Here(i) + 4 + Len(v)
  BY <1>2, <1>4
<1> QED
  BY <1>1, <1>4, <1>7, <1>8, <1>9

(* Where the i-th field's list has its k-th string.                        *)
ItemHere(i, k) == Here(i) + 4 + Begin(Strings(Value(input, i)), k)

(* UintAt finds the count of the list that was sent, and its strings lie   *)
(* between this field and the next.                                        *)
LEMMA ListHere ==
  ASSUME MessageHere, NEW i \in 1..Count(input), TypeOf(input, i) = "list"
  PROVE  /\ HasType("list", Value(input, i)) /\ Len(Value(input, i)) \in Nat
         /\ UintAt(Here(i), 4) = Len(Value(input, i))
         /\ Here(i) + 4 <= Here(i + 1)
         /\ ItemHere(i, 1) = Here(i) + 4
         /\ ItemHere(i, Len(Value(input, i)) + 1) = Here(i + 1)
<1>1. PICK at, v, part, ss, n :
        /\ at = start + Here(i) /\ v = Value(input, i)
        /\ part = EncodeField(TypeOf(input, i), v) /\ ss = Strings(v) /\ n = Len(v)
  OBVIOUS
<1>2. /\ HasType("list", v) /\ Placed(buffer, at, part) /\ Here(i + 1) = Here(i) + Len(part)
      /\ at \in Nat /\ Here(i) \in Nat
  BY <1>1, FieldHere
<1>3. /\ ss \in Seq(Seq(Byte)) /\ Len(ss) = n /\ n \in Nat
      /\ Len(part) = 4 + Len(FlattenSeq(ss)) /\ FlattenSeq(ss) \in Seq(Byte)
  BY <1>1, <1>2, ListEncoded
<1>4. NumberIn(buffer, at, 4) = n
  BY <1>1, <1>2, ListPlaced
<1>5. Begin(ss, 1) = 0 /\ Begin(ss, n + 1) = Len(FlattenSeq(ss))
  <2>1. ASSUME NEW k \in Nat, NEW j, j = k + 1
        PROVE  Begin(ss, j) = End(ss, k)
    <3>1. j - 1 = k
      BY <2>1
    <3> QED
      BY <3>1 DEF Begin
  <2>2. PICK j : j = 1
    OBVIOUS
  <2>3. j = 0 + 1
    BY <2>2
  <2>4. End(ss, 0) = 0 /\ End(ss, n) = Len(FlattenSeq(ss))
    BY <1>3, PartsInPlace
  <2> QED
    BY <1>3, <2>1, <2>2, <2>3, <2>4
<1>6. PICK m \in Nat : m = Len(FlattenSeq(ss))
  BY <1>3
<1>7. ItemHere(i, 1) = Here(i) + 4 /\ ItemHere(i, n + 1) = Here(i + 1) /\ Here(i) + 4 <= Here(i + 1)
  <2>1. ItemHere(i, 1) = Here(i) + 4 + 0 /\ ItemHere(i, n + 1) = Here(i) + 4 + m
    BY <1>1, <1>5, <1>6 DEF ItemHere
  <2>2. Here(i + 1) = Here(i) + (4 + m)
    BY <1>2, <1>3, <1>6
  <2> QED
    BY <1>2, <2>1, <2>2
<1> QED
  BY <1>1, <1>2, <1>3, <1>4, <1>7 DEF UintAt

(* ItemPlaced, for the buffer of the reader.                               *)
LEMMA ItemInBuffer ==
  ASSUME NEW v, HasType("list", v), buffer \in Seq(Byte), NEW at \in Nat,
         Placed(buffer, at, EncodeField("list", v)),
         at + Len(EncodeField("list", v)) <= Len(buffer),
         NEW j \in 1..Len(v), NEW b, b = at + 4 + Begin(Strings(v), j)
  PROVE  /\ b \in Nat
         /\ NumberIn(buffer, b, 4) = Len(v[j]) /\ Len(v[j]) \in Nat
         /\ SubSeq(buffer, b + 5, b + 4 + Len(v[j])) = v[j]
         /\ at + 4 + End(Strings(v), j) = b + 4 + Len(v[j])
         /\ b + 4 + Len(v[j]) <= at + Len(EncodeField("list", v))
<1>1. b \in Nat /\ NumberIn(buffer, b, 4) = Len(v[j]) /\ Len(v[j]) \in Nat
  BY ItemPlaced
<1>2. SubSeq(buffer, b + 5, b + 4 + Len(v[j])) = v[j]
  BY ItemPlaced
<1>3. at + 4 + End(Strings(v), j) = b + 4 + Len(v[j])
  BY ItemPlaced
<1>4. b + 4 + Len(v[j]) <= at + Len(EncodeField("list", v))
  BY ItemPlaced
<1> QED
  BY <1>1, <1>2, <1>3, <1>4

(* UintAt and StringAt find each string of a list.                         *)
LEMMA ItemIsHere ==
  ASSUME MessageHere, NEW i \in 1..Count(input), TypeOf(input, i) = "list",
         NEW k \in 1..Len(Value(input, i))
  PROVE  /\ ItemHere(i, k) \in Nat
         /\ UintAt(ItemHere(i, k), 4) = Len(Value(input, i)[k]) /\ Len(Value(input, i)[k]) \in Nat
         /\ StringAt(ItemHere(i, k)) = Value(input, i)[k]
         /\ ItemHere(i, k + 1) = ItemHere(i, k) + 4 + Len(Value(input, i)[k])
         /\ ItemHere(i, k + 1) <= Here(i + 1)
<1>1. PICK at, v, part, ss, s :
        /\ at = start + Here(i) /\ v = Value(input, i)
        /\ part = EncodeField("list", v) /\ ss = Strings(v) /\ s = v[k]
  OBVIOUS
<1>2. /\ HasType("list", v) /\ Placed(buffer, at, part) /\ Here(i + 1) = Here(i) + Len(part)
      /\ at \in Nat /\ Here(i) \in Nat /\ at + Len(part) <= Len(buffer) /\ Len(part) \in Nat
  BY <1>1, FieldHere
<1>3. buffer \in Seq(Byte) /\ start \in Nat
  BY DEF MessageHere
<1>4. PICK b : b = at + 4 + Begin(ss, k)
  OBVIOUS
<1>5. /\ b \in Nat
      /\ NumberIn(buffer, b, 4) = Len(s) /\ Len(s) \in Nat
      /\ SubSeq(buffer, b + 5, b + 4 + Len(s)) = s
      /\ at + 4 + End(ss, k) = b + 4 + Len(s)
      /\ b + 4 + Len(s) <= at + Len(part)
  <2>1. k \in 1..Len(v)
    BY <1>1
  <2>2. Placed(buffer, at, EncodeField("list", v)) /\ at + Len(EncodeField("list", v)) <= Len(buffer)
    BY <1>1, <1>2
  <2>3. b = at + 4 + Begin(Strings(v), k)
    BY <1>1, <1>4
  <2>4. HasType("list", v) /\ at \in Nat /\ buffer \in Seq(Byte)
    BY <1>2, <1>3
  <2>5. /\ b \in Nat
        /\ NumberIn(buffer, b, 4) = Len(v[k]) /\ Len(v[k]) \in Nat
        /\ SubSeq(buffer, b + 5, b + 4 + Len(v[k])) = v[k]
        /\ at + 4 + End(Strings(v), k) = b + 4 + Len(v[k])
        /\ b + 4 + Len(v[k]) <= at + Len(EncodeField("list", v))
    BY <2>1, <2>2, <2>3, <2>4, ItemInBuffer
  <2> QED
    BY <1>1, <2>5
<1>6. Begin(ss, k) \in Nat /\ End(ss, k) = Begin(ss, k + 1) /\ End(ss, k) \in Nat /\ k \in Nat
  <2>1. ss \in Seq(Seq(Byte)) /\ k \in 1..Len(ss) /\ Len(ss) \in Nat
    BY <1>1, <1>2, ListEncoded
  <2>2. k \in Nat /\ k + 1 - 1 = k /\ k \in 0..Len(ss)
    BY <2>1
  <2>3. Begin(ss, k) \in Nat /\ End(ss, k) \in Nat
    BY <2>1, <2>2, PartsInPlace
  <2> QED
    BY <2>2, <2>3 DEF Begin
<1>7. PICK x \in Nat, y \in Nat, n \in Nat, h \in Nat, m \in Nat :
        x = Begin(ss, k) /\ y = End(ss, k) /\ n = Len(s) /\ h = Here(i) /\ m = Len(part)
  BY <1>2, <1>5, <1>6
<1>8. ItemHere(i, k) = h + 4 + x /\ ItemHere(i, k + 1) = h + 4 + y
  BY <1>1, <1>6, <1>7 DEF ItemHere
<1>9. at = start + h /\ b = at + 4 + x /\ at + 4 + y = b + 4 + n /\ b + 4 + n <= at + m
  BY <1>1, <1>4, <1>5, <1>7
<1>10. PICK o \in Nat : o = h + 4 + x
  OBVIOUS
<1>11. b = start + o /\ h + 4 + y = o + 4 + n /\ h + 4 + y <= h + m
  BY <1>3, <1>9, <1>10
<1>12. UintAt(o, 4) = n
  BY <1>5, <1>7, <1>11 DEF UintAt
<1>13. StringAt(o) = s
  <2>1. SubSeq(buffer, start + o + 5, start + o + 4 + n) = s
    BY <1>5, <1>7, <1>11
  <2> QED
    BY <1>12, <2>1 DEF StringAt
<1>14. ItemHere(i, k) = o /\ ItemHere(i, k + 1) = o + 4 + n /\ ItemHere(i, k + 1) <= Here(i + 1)
  BY <1>2, <1>7, <1>8, <1>10, <1>11
<1> QED
  BY <1>1, <1>7, <1>10, <1>12, <1>13, <1>14

-----------------------------------------------------------------------------
(* The invariant of the reader.                                            *)

(* What a read makes of the i-th field, and what its constructor does.     *)
ReadValue(i) == IF TypeOf(input, i) = "u64" THEN Signed(Value(input, i)) ELSE Value(input, i)

Made(i) ==
  IF NameOf(input, i) = "packageId" /\ ParsesId THEN PackageId(Value(input, i))
  ELSE IF NameOf(input, i) \in DOMAIN Known THEN FromInt(NameOf(input, i), Value(input, i))
  ELSE ReadValue(i)

(* The inductive invariant of the reader.  Between two fields the offset   *)
(* is where the next one was written.                                      *)
ReaderTypes ==
  /\ offset \in Nat
  /\ field \in 1..(Count(input) + 1)
  /\ left \in Nat \cup {-1}
  /\ items \in Seq(Seq(Byte))
  /\ status \in {"reading", "decoded", "RangeError", "FormatException"}

BetweenFields == left = -1 => offset = Here(field)

(* Inside a list it is where the next string was written, and the strings  *)
(* read are the first of the list.                                         *)
InsideList ==
  left # -1 =>
    /\ field \in 1..Count(input)
    /\ TypeOf(input, field) = "list"
    /\ \E n \in 0..Len(Value(input, field)) :
         /\ left + n = Len(Value(input, field))
         /\ items = [k \in 1..n |-> Value(input, field)[k]]
         /\ offset = ItemHere(field, n + 1)

FieldsRead ==
  status # "decoded" =>
    \A i \in 1..Count(input) :
      i < field => NameOf(input, i) \in DOMAIN out /\ out[NameOf(input, i)] = ReadValue(i)

IdParses == ParsesId => IsPackageId(input.sent["packageId"])

(* How a decode ends: at the last byte, beyond the view, or with a package *)
(* id that does not parse.                                                 *)
Ended ==
  /\ status = "decoded" =>
       /\ left = -1 /\ field = Count(input) + 1 /\ IdParses
       /\ \A i \in 1..Count(input) : out[NameOf(input, i)] = Made(i)
  /\ status = "RangeError" => length < Len(Encode(input))
  /\ status = "FormatException" => ~IdParses

ReaderInv == MessageHere /\ ReaderTypes /\ BetweenFields /\ InsideList /\ FieldsRead /\ Ended

(* The decode functions read the fields of the table that the encoder      *)
(* writes.                                                                 *)
LEMMA FieldsAreTable ==
  ASSUME MessageHere
  PROVE  /\ Count(input) \in Nat /\ IsTable(NativeFields[input.kind])
         /\ DOMAIN NativeFields[input.kind] = 1..Count(input)
         /\ DartFields[input.kind] = NativeFields[input.kind]
<1>1. input.kind \in Kinds
  BY InputsAssumption DEF MessageHere
<1>2. DartFields[input.kind] = NativeFields[input.kind] /\ IsTable(NativeFields[input.kind])
  BY <1>1, TablesMatch
<1> QED
  BY <1>2 DEF IsTable, HasTypes, Count

(* The field that is read is one of the table.                             *)
LEMMA ReadingField ==
  ASSUME MessageHere, NEW type, Reading(type)
  PROVE  /\ field \in 1..Count(input) /\ TypeOf(input, field) = type
         /\ DartFields[input.kind][field][1] = NameOf(input, field)
         /\ status = "reading"
BY FieldsAreTable DEF Reading, TypeOf, NameOf

(* No two fields of a message have a name in common.                       *)
LEMMA NamesDiffer ==
  ASSUME MessageHere, NEW i \in 1..Count(input), NEW j \in 1..Count(input),
         NameOf(input, i) = NameOf(input, j)
  PROVE  i = j
BY FieldsAreTable DEF NameOf, IsTable, HasNames

(* The message stays where it is while it is read, and all that is said of *)
(* it.                                                                     *)
LEMMA MessageStays ==
  ASSUME MessageHere, UNCHANGED messageVars
  PROVE  /\ MessageHere'
         /\ \A i : /\ NameOf(input, i)' = NameOf(input, i) /\ TypeOf(input, i)' = TypeOf(input, i)
                   /\ Value(input, i)' = Value(input, i) /\ ReadValue(i)' = ReadValue(i)
                   /\ Made(i)' = Made(i) /\ Here(i)' = Here(i)
         /\ \A i, k : ItemHere(i, k)' = ItemHere(i, k)
         /\ Count(input)' = Count(input) /\ IdParses' = IdParses
         /\ Encode(input)' = Encode(input)
<1>1. input' = input /\ start' = start /\ buffer' = buffer /\ length' = length
  BY DEF messageVars
<1> QED
  BY <1>1 DEF MessageHere, NameOf, TypeOf, Value, ReadValue, Made, Here, ItemHere, IdParses, ParsesId,
     Count

(* The invariant holds of a new reader.                                    *)
LEMMA ReaderStarts ==
  ASSUME Init
  PROVE  ReaderInv
<1>1. input \in Inputs /\ start \in Nat
  BY CodecAssumption DEF Init
<1>2. PICK message, ones : message = Encode(input) /\ ones = [i \in 1..start |-> 1]
  OBVIOUS
<1>3. message \in Seq(Byte) /\ Len(message) \in Nat
  <2>1. message \in Seq(Byte)
    BY <1>1, <1>2, MessageEncoded
  <2> QED
    BY <2>1
<1>4. ones \in Seq(Byte) /\ Len(ones) = start
  BY <1>1, <1>2, WordFacts
<1>5. buffer = ones \o message
  BY <1>2 DEF Init
<1>6. /\ buffer \in Seq(Byte) /\ Len(buffer) = start + Len(message)
      /\ Placed(buffer, start, message)
  BY <1>3, <1>4, <1>5, Concatenation DEF Placed
<1>7. length \in 1..Len(message)
  <2>1. Len(buffer) - start = Len(message)
    BY <1>1, <1>3, <1>6
  <2> QED
    BY <2>1 DEF Init
<1>8. MessageHere
  BY <1>1, <1>2, <1>6, <1>7 DEF MessageHere
<1>9. Count(input) \in Nat /\ Here(1) = 1
  BY <1>1, FieldsAreTable, <1>8, FirstAndLastField DEF Here
<1>10. /\ offset = 1 /\ field = 1 /\ left = -1 /\ items = <<>> /\ status = "reading"
  BY DEF Init
<1>11. ReaderTypes
  BY <1>9, <1>10 DEF ReaderTypes
<1>12. BetweenFields /\ InsideList
  BY <1>9, <1>10 DEF BetweenFields, InsideList
<1>13. FieldsRead /\ Ended
  BY <1>9, <1>10 DEF FieldsRead, Ended
<1> QED
  BY <1>8, <1>11, <1>12, <1>13 DEF ReaderInv

-----------------------------------------------------------------------------
(* The steps of the reader.                                                *)

(* A field's value, read whole, is stored under its name.                  *)
LEMMA FieldStored ==
  ASSUME ReaderInv, NEW type, Reading(type), NEW value, NEW end, Store(value, end),
         value = ReadValue(field), end = Here(field + 1),
         left' = -1, items' \in Seq(Seq(Byte))
  PROVE  ReaderInv'
<1>1. MessageHere /\ ReaderTypes /\ FieldsRead
  BY DEF ReaderInv
<1>2. /\ field \in 1..Count(input) /\ DartFields[input.kind][field][1] = NameOf(input, field)
      /\ status = "reading"
  BY <1>1, ReadingField
<1>3. /\ out' = With(out, NameOf(input, field), value)
      /\ offset' = end /\ field' = field + 1 /\ status' = "reading" /\ UNCHANGED messageVars
  BY <1>2 DEF Store
<1>4. /\ MessageHere'
      /\ \A i : /\ NameOf(input, i)' = NameOf(input, i) /\ ReadValue(i)' = ReadValue(i)
                /\ Here(i)' = Here(i)
      /\ Count(input)' = Count(input) /\ Count(input) \in Nat
  BY <1>1, <1>3, MessageStays, FieldsAreTable
<1>5. end \in Nat
  <2>1. /\ Here(field + 1) = Here(field) + Len(EncodeField(TypeOf(input, field), Value(input, field)))
        /\ Here(field) \in Nat
        /\ Len(EncodeField(TypeOf(input, field), Value(input, field))) \in Nat
    BY <1>1, <1>2, FieldHere
  <2> QED
    BY <2>1
<1>6. ReaderTypes'
  <2>1. field + 1 \in 1..(Count(input) + 1)
    BY <1>2, <1>4
  <2> QED
    BY <1>3, <1>4, <1>5, <2>1 DEF ReaderTypes
<1>7. BetweenFields' /\ InsideList' /\ Ended'
  <2>1. BetweenFields'
    BY <1>3, <1>4 DEF BetweenFields
  <2>2. InsideList'
    BY DEF InsideList
  <2>3. Ended'
    BY <1>3 DEF Ended
  <2> QED
    BY <2>1, <2>2, <2>3
<1>8. FieldsRead'
  <2>1. ASSUME NEW i \in 1..Count(input), i < field + 1
        PROVE  NameOf(input, i) \in DOMAIN out' /\ out'[NameOf(input, i)] = ReadValue(i)
    <3>1. CASE i = field
      BY <1>3, <3>1 DEF With
    <3>2. CASE i # field
      <4>1. i < field
        BY <1>2, <2>1, <3>2
      <4>2. NameOf(input, i) \in DOMAIN out /\ out[NameOf(input, i)] = ReadValue(i)
        BY <1>1, <1>2, <4>1 DEF FieldsRead
      <4>3. NameOf(input, i) # NameOf(input, field)
        BY <1>1, <1>2, <3>2, NamesDiffer
      <4> QED
        BY <1>3, <4>2, <4>3 DEF With
    <3> QED
      BY <3>1, <3>2
  <2> QED
    BY <1>3, <1>4, <2>1 DEF FieldsRead
<1> QED
  BY <1>4, <1>6, <1>7, <1>8 DEF ReaderInv

(* Only a list is read in several steps.                                   *)
LEMMA NotInList ==
  ASSUME ReaderInv, NEW type, Reading(type), type # "list"
  PROVE  left = -1 /\ offset = Here(field) /\ items \in Seq(Seq(Byte))
BY ReadingField DEF ReaderInv, BetweenFields, InsideList, ReaderTypes

(* readUint32 keeps the invariant.                                         *)
LEMMA Uint32Read ==
  ASSUME ReaderInv, readUint32
  PROVE  ReaderInv'
<1>1. /\ Reading("u32") /\ Store(UintAt(offset, 4), offset + 4)
      /\ left' = left /\ items' = items
  BY DEF readUint32
<1>2. MessageHere /\ field \in 1..Count(input) /\ TypeOf(input, field) = "u32"
  BY <1>1, ReadingField DEF ReaderInv
<1>3. left = -1 /\ offset = Here(field) /\ items \in Seq(Seq(Byte))
  BY <1>1, NotInList
<1>4. UintAt(offset, 4) = ReadValue(field) /\ offset + 4 = Here(field + 1)
  BY <1>2, <1>3, NumberHere DEF ReadValue
<1> QED
  BY <1>1, <1>3, <1>4, FieldStored

(* readUint64 keeps the invariant.                                         *)
LEMMA Uint64Read ==
  ASSUME ReaderInv, readUint64
  PROVE  ReaderInv'
<1>1. /\ Reading("u64") /\ Store(Signed(UintAt(offset, 8)), offset + 8)
      /\ left' = left /\ items' = items
  BY DEF readUint64
<1>2. MessageHere /\ field \in 1..Count(input) /\ TypeOf(input, field) = "u64"
  BY <1>1, ReadingField DEF ReaderInv
<1>3. left = -1 /\ offset = Here(field) /\ items \in Seq(Seq(Byte))
  BY <1>1, NotInList
<1>4. Signed(UintAt(offset, 8)) = ReadValue(field) /\ offset + 8 = Here(field + 1)
  BY <1>2, <1>3, NumberHere DEF ReadValue
<1> QED
  BY <1>1, <1>3, <1>4, FieldStored

(* readBool keeps the invariant.                                           *)
LEMMA BoolRead ==
  ASSUME ReaderInv, readBool
  PROVE  ReaderInv'
<1>1. /\ Reading("bool") /\ Store(ByteAt(offset) # 0, offset + 1)
      /\ left' = left /\ items' = items
  BY DEF readBool
<1>2. MessageHere /\ field \in 1..Count(input) /\ TypeOf(input, field) = "bool"
  BY <1>1, ReadingField DEF ReaderInv
<1>3. left = -1 /\ offset = Here(field) /\ items \in Seq(Seq(Byte))
  BY <1>1, NotInList
<1>4. (ByteAt(offset) # 0) = ReadValue(field) /\ offset + 1 = Here(field + 1)
  BY <1>2, <1>3, BoolHere DEF ReadValue
<1> QED
  BY <1>1, <1>3, <1>4, FieldStored

(* readString keeps the invariant.                                         *)
LEMMA StringRead ==
  ASSUME ReaderInv, readString
  PROVE  ReaderInv'
<1>1. /\ Reading("str") /\ Store(StringAt(offset), offset + 4 + UintAt(offset, 4))
      /\ left' = left /\ items' = items
  BY DEF readString
<1>2. MessageHere /\ field \in 1..Count(input) /\ TypeOf(input, field) = "str"
  BY <1>1, ReadingField DEF ReaderInv
<1>3. left = -1 /\ offset = Here(field) /\ items \in Seq(Seq(Byte))
  BY <1>1, NotInList
<1>4. StringAt(offset) = ReadValue(field) /\ offset + 4 + UintAt(offset, 4) = Here(field + 1)
  BY <1>2, <1>3, StringHere DEF ReadValue
<1> QED
  BY <1>1, <1>3, <1>4, FieldStored

(* The reader is at the n-th of the strings of the list it reads.          *)
LEMMA InsideAt ==
  ASSUME ReaderInv, Reading("list"), left # -1
  PROVE  /\ MessageHere /\ field \in 1..Count(input) /\ TypeOf(input, field) = "list"
         /\ \E n \in 0..Len(Value(input, field)) :
              /\ left + n = Len(Value(input, field))
              /\ items = [k \in 1..n |-> Value(input, field)[k]]
              /\ offset = ItemHere(field, n + 1)
BY DEF ReaderInv, InsideList

(* The end of readStringList keeps the invariant.                          *)
LEMMA ListEnds ==
  ASSUME ReaderInv, ListRead
  PROVE  ReaderInv'
<1>1. Reading("list") /\ left = 0 /\ Store(items, offset) /\ left' = -1 /\ items' = items
  BY DEF ListRead
<1>2. PICK v : v = Value(input, field)
  OBVIOUS
<1>3. MessageHere /\ field \in 1..Count(input) /\ TypeOf(input, field) = "list"
  BY <1>1, InsideAt
<1>4. PICK n \in 0..Len(v) : /\ left + n = Len(v)
                             /\ items = [k \in 1..n |-> v[k]]
                             /\ offset = ItemHere(field, n + 1)
  BY <1>1, <1>2, InsideAt
<1>5. /\ HasType("list", v) /\ Len(v) \in Nat
      /\ ItemHere(field, Len(v) + 1) = Here(field + 1)
  BY <1>2, <1>3, ListHere
<1>6. n = Len(v)
  BY <1>1, <1>4, <1>5
<1>7. items = v
  <2>1. v \in Seq(Seq(Byte))
    BY <1>5 DEF HasType
  <2>2. v = [k \in 1..Len(v) |-> v[k]]
    BY <2>1
  <2> QED
    BY <1>4, <1>6, <2>2
<1>8. items = ReadValue(field) /\ offset = Here(field + 1)
  BY <1>2, <1>3, <1>4, <1>5, <1>6, <1>7 DEF ReadValue
<1>9. items \in Seq(Seq(Byte))
  BY DEF ReaderInv, ReaderTypes
<1> QED
  BY <1>1, <1>8, <1>9, FieldStored

(* A step inside a list keeps everything but the place in the list.        *)
LEMMA ListGoesOn ==
  ASSUME ReaderInv, Reading("list"), UNCHANGED <<messageVars, field, out, status>>,
         NEW n \in 0..Len(Value(input, field)),
         left' \in Nat, left' + n = Len(Value(input, field)),
         items' = [k \in 1..n |-> Value(input, field)[k]],
         offset' = ItemHere(field, n + 1), offset' \in Nat
  PROVE  ReaderInv'
<1>1. MessageHere /\ ReaderTypes /\ FieldsRead
  BY DEF ReaderInv
<1>2. /\ field \in 1..Count(input) /\ TypeOf(input, field) = "list" /\ status = "reading"
  BY <1>1, ReadingField
<1>3. field' = field /\ status' = "reading" /\ out' = out /\ UNCHANGED messageVars
  BY <1>2
<1>4. /\ MessageHere'
      /\ \A i : /\ NameOf(input, i)' = NameOf(input, i) /\ ReadValue(i)' = ReadValue(i)
                /\ Here(i)' = Here(i) /\ TypeOf(input, i)' = TypeOf(input, i)
                /\ Value(input, i)' = Value(input, i)
      /\ \A i, k : ItemHere(i, k)' = ItemHere(i, k)
      /\ Count(input)' = Count(input) /\ Count(input) \in Nat
  BY <1>1, <1>3, MessageStays, FieldsAreTable
<1>5. PICK v : v = Value(input, field)
  OBVIOUS
<1>6. v \in Seq(Seq(Byte))
  BY <1>1, <1>2, <1>5, ListHere DEF HasType
<1>7. items' \in Seq(Seq(Byte))
  <2>1. Len(v) \in Nat /\ n \in 0..Len(v) /\ items' = [k \in 1..n |-> v[k]]
    BY <1>5, <1>6
  <2>2. \A k \in 1..Len(v) : v[k] \in Seq(Byte)
    BY <1>6
  <2>3. n \in Nat /\ \A k \in 1..n : k \in 1..Len(v)
    BY <2>1
  <2>4. \A k \in 1..n : v[k] \in Seq(Byte)
    BY <2>2, <2>3
  <2>5. [k \in 1..n |-> v[k]] \in Seq(Seq(Byte))
    BY <2>3, <2>4
  <2> QED
    BY <2>1, <2>5
<1>8. ReaderTypes'
  BY <1>1, <1>3, <1>4, <1>7 DEF ReaderTypes
<1>9. BetweenFields' /\ Ended'
  <2>1. left' # -1
    OBVIOUS
  <2> QED
    BY <1>3, <2>1 DEF BetweenFields, Ended
<1>10. InsideList'
  <2>1. TypeOf(input, field)' = "list" /\ Value(input, field)' = Value(input, field)
    BY <1>2, <1>3, <1>4
  <2>2. ItemHere(field, n + 1)' = ItemHere(field, n + 1)
    BY <1>3, <1>4
  <2>3. \E m \in 0..Len(Value(input, field)') :
           /\ left' + m = Len(Value(input, field)')
           /\ items' = [k \in 1..m |-> Value(input, field)'[k]]
           /\ offset' = ItemHere(field, m + 1)'
    <3> WITNESS n \in 0..Len(Value(input, field)')
    <3> QED
      BY <2>1, <2>2
  <2> QED
    BY <1>2, <1>3, <1>4, <2>1, <2>3 DEF InsideList
<1>11. FieldsRead'
  BY <1>1, <1>2, <1>3, <1>4 DEF FieldsRead
<1> QED
  BY <1>4, <1>8, <1>9, <1>10, <1>11 DEF ReaderInv

(* The start of readStringList keeps the invariant.                        *)
LEMMA CountRead ==
  ASSUME ReaderInv, readCount
  PROVE  ReaderInv'
<1>1. /\ Reading("list") /\ left = -1 /\ left' = UintAt(offset, 4) /\ items' = <<>>
      /\ offset' = offset + 4 /\ UNCHANGED <<messageVars, field, out, status>>
  BY DEF readCount
<1>2. MessageHere /\ field \in 1..Count(input) /\ TypeOf(input, field) = "list"
  BY <1>1, ReadingField DEF ReaderInv
<1>3. PICK v : v = Value(input, field)
  OBVIOUS
<1>4. /\ Len(v) \in Nat /\ UintAt(Here(field), 4) = Len(v)
      /\ ItemHere(field, 1) = Here(field) + 4
  BY <1>2, <1>3, ListHere
<1>5. offset = Here(field) /\ offset \in Nat
  BY <1>1 DEF ReaderInv, BetweenFields, ReaderTypes
<1>6. PICK n \in 0..Len(v) : n = 0
  BY <1>4
<1>7. /\ left' \in Nat /\ left' + n = Len(v) /\ items' = [k \in 1..n |-> v[k]]
  BY <1>1, <1>4, <1>5, <1>6
<1>8. offset' = ItemHere(field, n + 1) /\ offset' \in Nat
  <2>1. n + 1 = 1
    BY <1>6
  <2> QED
    BY <1>1, <1>4, <1>5, <2>1
<1> QED
  BY <1>1, <1>3, <1>7, <1>8, ListGoesOn

(* Each string that readStringList reads keeps the invariant.              *)
LEMMA ItemRead ==
  ASSUME ReaderInv, readItem
  PROVE  ReaderInv'
<1>1. /\ Reading("list") /\ left > 0 /\ left' = left - 1
      /\ items' = Append(items, StringAt(offset))
      /\ offset' = offset + 4 + UintAt(offset, 4)
      /\ UNCHANGED <<messageVars, field, out, status>>
  BY DEF readItem
<1>2. left \in Nat /\ left # -1
  BY <1>1 DEF ReaderInv, ReaderTypes
<1>3. MessageHere /\ field \in 1..Count(input) /\ TypeOf(input, field) = "list"
  BY <1>1, <1>2, InsideAt
<1>4. PICK v : v = Value(input, field)
  OBVIOUS
<1>5. PICK n \in 0..Len(v) : /\ left + n = Len(v)
                             /\ items = [k \in 1..n |-> v[k]]
                             /\ offset = ItemHere(field, n + 1)
  BY <1>1, <1>2, <1>4, InsideAt
<1>6. HasType("list", v) /\ Len(v) \in Nat
  BY <1>3, <1>4, ListHere
<1>7. PICK m \in 1..Len(v) : m = n + 1
  BY <1>1, <1>2, <1>5, <1>6
<1>8. /\ ItemHere(field, m) \in Nat
      /\ UintAt(ItemHere(field, m), 4) = Len(v[m]) /\ Len(v[m]) \in Nat
      /\ StringAt(ItemHere(field, m)) = v[m]
      /\ ItemHere(field, m + 1) = ItemHere(field, m) + 4 + Len(v[m])
  BY <1>3, <1>4, <1>7, ItemIsHere
<1>9. offset' = ItemHere(field, m + 1) /\ offset' \in Nat
  BY <1>1, <1>5, <1>7, <1>8
<1>10. items' = [k \in 1..m |-> v[k]]
  <2>1. items' = Append(items, v[m])
    BY <1>1, <1>5, <1>7, <1>8
  <2>2. v \in Seq(Seq(Byte)) /\ n \in Nat
    BY <1>6 DEF HasType
  <2>3. \A k \in 1..m : v[k] \in Seq(Byte)
    BY <1>6, <1>7, <2>2
  <2>4. items \in Seq(Seq(Byte)) /\ Len(items) = n /\ v[m] \in Seq(Byte)
    BY <1>5, <1>7, <2>2, <2>3
  <2>5. items' \in Seq(Seq(Byte)) /\ Len(items') = m /\ \A k \in 1..m : items'[k] = v[k]
    BY <1>5, <1>7, <2>1, <2>2, <2>4
  <2> QED
    BY <2>5
<1>11. left' \in Nat /\ left' + m = Len(v) /\ m \in 0..Len(v)
  BY <1>1, <1>2, <1>5, <1>6, <1>7
<1> QED
  BY <1>1, <1>4, <1>9, <1>10, <1>11, ListGoesOn

(* A read that does not fit had its bytes cut off.                         *)
LEMMA OnlyCutOff ==
  ASSUME ReaderInv, Overrun
  PROVE  length < Len(Encode(input))
<1>1. MessageHere /\ length \in Nat /\ Len(Encode(input)) \in Nat
  <2>1. Encode(input) \in Seq(Byte) /\ MessageHere
    BY MessageEncoded DEF ReaderInv, MessageHere
  <2> QED
    BY <2>1 DEF MessageHere
<1>2. ASSUME NEW end, end \in Nat, end <= Len(Encode(input)), ~(end <= length)
      PROVE  length < Len(Encode(input))
  BY <1>1, <1>2
<1>3. ASSUME NEW type, Reading(type), type # "list"
      PROVE  /\ offset = Here(field) /\ field \in 1..Count(input) /\ TypeOf(input, field) = type
             /\ Here(field + 1) <= Len(Encode(input)) /\ Here(field) \in Nat
  BY <1>1, <1>3, NotInList, ReadingField, FieldHere
<1>4. CASE Reading("u32") /\ ~Fits(offset, 4)
  BY <1>1, <1>2, <1>3, <1>4, NumberHere DEF Fits
<1>5. CASE Reading("u64") /\ ~Fits(offset, 8)
  BY <1>1, <1>2, <1>3, <1>5, NumberHere DEF Fits
<1>6. CASE Reading("bool") /\ ~Fits(offset, 1)
  BY <1>1, <1>2, <1>3, <1>6, BoolHere DEF Fits
<1>7. CASE Reading("str") /\ ~StringFits(offset)
  <2>1. PICK n \in Nat : /\ n = UintAt(offset, 4)
                         /\ Here(field + 1) = offset + 4 + n
                         /\ offset \in Nat /\ Here(field + 1) <= Len(Encode(input))
    BY <1>1, <1>3, <1>7, StringHere
  <2>2. ~(offset + 4 <= length) \/ ~(offset + 4 + n <= length)
    BY <1>7, <2>1 DEF StringFits, Fits
  <2> QED
    BY <1>1, <2>1, <2>2
<1>8. CASE Reading("list") /\ left = -1 /\ ~Fits(offset, 4)
  <2>1. field \in 1..Count(input) /\ TypeOf(input, field) = "list"
    BY <1>1, <1>8, ReadingField
  <2>2. /\ offset = Here(field) /\ Here(field) \in Nat
        /\ Here(field) + 4 <= Here(field + 1) /\ Here(field + 1) <= Len(Encode(input))
    BY <1>1, <1>8, <2>1, ListHere, FieldHere DEF ReaderInv, BetweenFields
  <2>3. PICK next : next = Here(field + 1)
    OBVIOUS
  <2>4. next \in Nat
    <3>1. /\ Here(field + 1) = Here(field) + Len(EncodeField(TypeOf(input, field), Value(input, field)))
          /\ Len(EncodeField(TypeOf(input, field), Value(input, field))) \in Nat
      BY <1>1, <2>1, FieldHere
    <3> QED
      BY <2>2, <2>3, <3>1
  <2> QED
    BY <1>1, <1>8, <2>2, <2>3, <2>4 DEF Fits
<1>9. CASE Reading("list") /\ left > 0 /\ ~StringFits(offset)
  <2>1. left \in Nat /\ left # -1
    BY <1>9 DEF ReaderInv, ReaderTypes
  <2>2. field \in 1..Count(input) /\ TypeOf(input, field) = "list"
    BY <1>9, <2>1, InsideAt
  <2>3. PICK v : v = Value(input, field)
    OBVIOUS
  <2>4. PICK n \in 0..Len(v) : left + n = Len(v) /\ offset = ItemHere(field, n + 1)
    BY <1>9, <2>1, <2>3, InsideAt
  <2>5. Len(v) \in Nat
    BY <1>1, <2>2, <2>3, ListHere
  <2>6. PICK m \in 1..Len(v) : m = n + 1
    BY <1>9, <2>1, <2>4, <2>5
  <2>7. PICK k, next : /\ k \in Nat /\ k = Len(v[m]) /\ offset \in Nat /\ UintAt(offset, 4) = k
                               /\ next = ItemHere(field, m + 1) /\ next = offset + 4 + k
                               /\ next <= Here(field + 1)
    BY <1>1, <2>2, <2>3, <2>4, <2>6, ItemIsHere
  <2>8. PICK end \in Nat : end = Here(field + 1) /\ end <= Len(Encode(input))
    <3>1. /\ Here(field + 1) = Here(field) + Len(EncodeField(TypeOf(input, field), Value(input, field)))
          /\ Len(EncodeField(TypeOf(input, field), Value(input, field))) \in Nat
          /\ Here(field) \in Nat /\ Here(field + 1) <= Len(Encode(input))
      BY <1>1, <2>2, FieldHere
    <3> QED
      BY <3>1
  <2>9. ~(offset + 4 <= length) \/ ~(offset + 4 + k <= length)
    BY <1>9, <2>7 DEF StringFits, Fits
  <2>10. k \in Nat /\ offset \in Nat /\ offset + 4 + k <= end
    <3>1. k \in Nat /\ offset \in Nat /\ next = offset + 4 + k /\ next <= Here(field + 1)
      BY <2>7
    <3> QED
      BY <2>8, <3>1
  <2> QED
    BY <1>1, <2>8, <2>9, <2>10
<1> QED
  BY <1>4, <1>5, <1>6, <1>7, <1>8, <1>9 DEF Overrun

-----------------------------------------------------------------------------
(* The end of a decode function, and what follows for all of them.         *)

(* Where a package id is parsed it is a string, which is read as it is.    *)
LEMMA IdIsField ==
  ASSUME MessageHere, ParsesId
  PROVE  \E i \in 1..Count(input) :
           /\ NameOf(input, i) = "packageId" /\ TypeOf(input, i) = "str"
           /\ ReadValue(i) = input.sent["packageId"]
<1>1. input.kind \in {"Package", "Details"} /\ input.kind \in Kinds
  BY KindsAre DEF ParsesId
<1>2. \E i \in DOMAIN DartFields[input.kind] : DartFields[input.kind][i][1] = "packageId"
  <2>1. CASE input.kind = "Package"
    <3>1. 2 \in DOMAIN DartFields["Package"] /\ DartFields["Package"][2][1] = "packageId"
      BY DEF DartFields, U32, Str
    <3> QED
      BY <2>1, <3>1
  <2>2. CASE input.kind = "Details"
    <3>1. 1 \in DOMAIN DartFields["Details"] /\ DartFields["Details"][1][1] = "packageId"
      BY DEF DartFields, U64, Str
    <3> QED
      BY <2>2, <3>1
  <2> QED
    BY <1>1, <2>1, <2>2
<1>3. PICK i \in 1..Count(input) : NativeFields[input.kind][i][1] = "packageId"
  BY <1>2, FieldsAreTable
<1>4. NativeFields[input.kind][i][2] = "str"
  BY <1>3, FieldsAreTable DEF IsTable, Converted
<1> QED
  BY <1>3, <1>4 DEF NameOf, TypeOf, Value, ReadValue

(* When all fields are read the offset is at the end of the message.       *)
LEMMA AllFieldsRead ==
  ASSUME ReaderInv, AllRead
  PROVE  /\ MessageHere /\ field = Count(input) + 1 /\ left = -1
         /\ \A i \in 1..Count(input) :
              NameOf(input, i) \in DOMAIN out /\ out[NameOf(input, i)] = ReadValue(i)
         /\ ParsesId => out.packageId = input.sent["packageId"]
<1>1. MessageHere /\ ReaderTypes /\ InsideList /\ FieldsRead
  BY DEF ReaderInv
<1>2. Count(input) \in Nat /\ field = Count(input) + 1 /\ status = "reading"
  <2>1. Count(input) \in Nat /\ field > Count(input) /\ status = "reading"
    BY <1>1, FieldsAreTable DEF AllRead, Count
  <2> QED
    BY <1>1, <2>1 DEF ReaderTypes
<1>3. left = -1
  BY <1>1, <1>2 DEF InsideList
<1>4. \A i \in 1..Count(input) :
         NameOf(input, i) \in DOMAIN out /\ out[NameOf(input, i)] = ReadValue(i)
  BY <1>1, <1>2 DEF FieldsRead
<1>5. ParsesId => out.packageId = input.sent["packageId"]
  BY <1>1, <1>4, IdIsField
<1> QED
  BY <1>1, <1>2, <1>3, <1>4, <1>5

(* The end of a decode function keeps the invariant.                       *)
LEMMA Returned ==
  ASSUME ReaderInv, Return
  PROVE  ReaderInv'
<1>1. /\ AllRead /\ (ParsesId => IsPackageId(out.packageId))
      /\ out' = [name \in DOMAIN out |-> Constructed(name)] /\ status' = "decoded"
      /\ UNCHANGED messageVars
      /\ offset' = offset /\ field' = field /\ left' = left /\ items' = items
  BY DEF Return
<1>2. /\ MessageHere /\ field = Count(input) + 1 /\ left = -1
      /\ \A i \in 1..Count(input) :
           NameOf(input, i) \in DOMAIN out /\ out[NameOf(input, i)] = ReadValue(i)
      /\ IdParses
  BY <1>1, AllFieldsRead DEF IdParses
<1>3. /\ MessageHere'
      /\ \A i : /\ NameOf(input, i)' = NameOf(input, i) /\ Made(i)' = Made(i)
                /\ Here(i)' = Here(i)
      /\ Count(input)' = Count(input) /\ IdParses' = IdParses
  BY <1>1, <1>2, MessageStays
<1>4. ReaderTypes' /\ BetweenFields' /\ InsideList' /\ FieldsRead'
  <2>1. ReaderTypes /\ BetweenFields
    BY DEF ReaderInv
  <2>2. ReaderTypes'
    BY <1>1, <1>3, <2>1 DEF ReaderTypes
  <2>3. BetweenFields'
    BY <1>1, <1>3, <2>1 DEF BetweenFields
  <2>4. InsideList'
    BY <1>1, <1>2 DEF InsideList
  <2>5. FieldsRead'
    BY <1>1 DEF FieldsRead
  <2> QED
    BY <2>2, <2>3, <2>4, <2>5
<1>5. ASSUME NEW i \in 1..Count(input)
      PROVE  out'[NameOf(input, i)] = Made(i)
  <2>1. PICK name, v : name = NameOf(input, i) /\ v = Value(input, i)
    OBVIOUS
  <2>2. name \in DOMAIN out /\ out[name] = ReadValue(i) /\ out'[name] = Constructed(name)
    BY <1>1, <1>2, <2>1
  <2>3. name \in {"info", "status"} => TypeOf(input, i) = "u32"
    BY <1>2, <2>1, FieldsAreTable DEF IsTable, Converted, NameOf, TypeOf
  <2>4. name = "packageId" => TypeOf(input, i) = "str"
    BY <1>2, <2>1, FieldsAreTable DEF IsTable, Converted, NameOf, TypeOf
  <2>5. DOMAIN Known = {"info", "status"}
    BY DEF Known
  <2>6. (name = "packageId" \/ name \in DOMAIN Known) => out[name] = v
    BY <2>1, <2>2, <2>3, <2>4, <2>5 DEF ReadValue
  <2> QED
    BY <2>1, <2>2, <2>6 DEF Constructed, Made
<1>6. Ended'
  BY <1>1, <1>2, <1>3, <1>5 DEF Ended
<1> QED
  BY <1>3, <1>4, <1>6 DEF ReaderInv

(* A decode that throws leaves its reader where it is.                     *)
LEMMA Thrown ==
  ASSUME ReaderInv, status = "reading", UNCHANGED <<messageVars, offset, field, left, items, out>>,
         \/ status' = "RangeError" /\ length < Len(Encode(input))
         \/ status' = "FormatException" /\ ~IdParses
  PROVE  ReaderInv'
<1>1. MessageHere /\ ReaderTypes /\ BetweenFields /\ InsideList /\ FieldsRead
  BY DEF ReaderInv
<1>2. /\ UNCHANGED messageVars /\ offset' = offset /\ field' = field /\ left' = left
      /\ items' = items /\ out' = out /\ length' = length
  BY DEF messageVars
<1>3. /\ MessageHere'
      /\ \A i : /\ NameOf(input, i)' = NameOf(input, i) /\ ReadValue(i)' = ReadValue(i)
                /\ Here(i)' = Here(i) /\ TypeOf(input, i)' = TypeOf(input, i)
                /\ Value(input, i)' = Value(input, i)
      /\ \A i, k : ItemHere(i, k)' = ItemHere(i, k)
      /\ Count(input)' = Count(input) /\ IdParses' = IdParses
      /\ Encode(input)' = Encode(input)
  BY <1>1, <1>2, MessageStays
<1>4. ReaderTypes'
  BY <1>1, <1>2, <1>3 DEF ReaderTypes
<1>5. BetweenFields'
  BY <1>1, <1>2, <1>3 DEF BetweenFields
<1>6. InsideList'
  BY <1>1, <1>2, <1>3 DEF InsideList
<1>7. FieldsRead'
  BY <1>1, <1>2, <1>3 DEF FieldsRead
<1>8. Ended'
  BY <1>2, <1>3 DEF Ended
<1> QED
  BY <1>3, <1>4, <1>5, <1>6, <1>7, <1>8 DEF ReaderInv

(* A FormatException keeps the invariant.                                  *)
LEMMA Refused ==
  ASSUME ReaderInv, Malformed
  PROVE  ReaderInv'
<1>1. AllRead /\ ParsesId /\ ~IsPackageId(out.packageId)
  BY DEF Malformed
<1>2. ~IdParses
  BY <1>1, AllFieldsRead DEF IdParses
<1>3. status = "reading" /\ status' = "FormatException"
  BY DEF Malformed, AllRead
<1>4. UNCHANGED <<messageVars, offset, field, left, items, out>>
  BY DEF Malformed
<1> QED
  BY <1>2, <1>3, <1>4, Thrown

(* A RangeError keeps the invariant.                                       *)
LEMMA Overran ==
  ASSUME ReaderInv, Overrun
  PROVE  ReaderInv'
<1>1. length < Len(Encode(input))
  BY OnlyCutOff
<1>2. status = "reading" /\ status' = "RangeError"
  BY DEF Overrun, Reading
<1>3. UNCHANGED <<messageVars, offset, field, left, items, out>>
  BY DEF Overrun
<1> QED
  BY <1>1, <1>2, <1>3, Thrown

(* The invariant does not need the reader to move.                         *)
LEMMA ReaderStutters ==
  ASSUME ReaderInv, UNCHANGED vars
  PROVE  ReaderInv'
<1>1. MessageHere /\ ReaderTypes /\ BetweenFields /\ InsideList /\ FieldsRead /\ Ended
  BY DEF ReaderInv
<1>2. /\ UNCHANGED messageVars /\ offset' = offset /\ field' = field /\ left' = left
      /\ items' = items /\ out' = out /\ length' = length /\ status' = status
  BY DEF messageVars, vars
<1>3. /\ MessageHere'
      /\ \A i : /\ NameOf(input, i)' = NameOf(input, i) /\ ReadValue(i)' = ReadValue(i)
                /\ Here(i)' = Here(i) /\ TypeOf(input, i)' = TypeOf(input, i)
                /\ Value(input, i)' = Value(input, i) /\ Made(i)' = Made(i)
      /\ \A i, k : ItemHere(i, k)' = ItemHere(i, k)
      /\ Count(input)' = Count(input) /\ IdParses' = IdParses
      /\ Encode(input)' = Encode(input)
  BY <1>1, <1>2, MessageStays
<1>4. ReaderTypes'
  BY <1>1, <1>2, <1>3 DEF ReaderTypes
<1>5. BetweenFields'
  BY <1>1, <1>2, <1>3 DEF BetweenFields
<1>6. InsideList'
  BY <1>1, <1>2, <1>3 DEF InsideList
<1>7. FieldsRead'
  BY <1>1, <1>2, <1>3 DEF FieldsRead
<1>8. Ended'
  BY <1>1, <1>2, <1>3 DEF Ended
<1> QED
  BY <1>3, <1>4, <1>5, <1>6, <1>7, <1>8 DEF ReaderInv

(* Every step of the reader keeps the invariant.                           *)
LEMMA ReaderGoesOn ==
  ASSUME ReaderInv, [Next]_vars
  PROVE  ReaderInv'
<1>1. CASE readUint32
  BY <1>1, Uint32Read
<1>2. CASE readUint64
  BY <1>2, Uint64Read
<1>3. CASE readBool
  BY <1>3, BoolRead
<1>4. CASE readString
  BY <1>4, StringRead
<1>5. CASE readCount
  BY <1>5, CountRead
<1>6. CASE readItem
  BY <1>6, ItemRead
<1>7. CASE ListRead
  BY <1>7, ListEnds
<1>8. CASE Overrun
  BY <1>8, Overran
<1>9. CASE Return
  BY <1>9, Returned
<1>10. CASE Malformed
  BY <1>10, Refused
<1>11. CASE UNCHANGED vars
  BY <1>11, ReaderStutters
<1> QED
  BY <1>1, <1>2, <1>3, <1>4, <1>5, <1>6, <1>7, <1>8, <1>9, <1>10, <1>11 DEF Next

(* The invariant holds always.                                             *)
LEMMA ReaderIsWhereItShouldBe == Spec => []ReaderInv
<1>1. Init => ReaderInv
  BY ReaderStarts
<1>2. ReaderInv /\ [Next]_vars => ReaderInv'
  BY ReaderGoesOn
<1> QED
  BY <1>1, <1>2, PTL DEF Spec

(* The reader's state keeps its types.                                     *)
THEOREM ReaderTypeOK == Spec => []TypeOK
<1>1. ReaderInv => TypeOK
  BY FieldsAreTable DEF ReaderInv, ReaderTypes, TypeOK, Count
<1> QED
  BY <1>1, ReaderIsWhereItShouldBe, PTL

(* A whole message decodes to its last byte and a cut one throws.          *)
THEOREM TruncationThrows == Spec => []ThrowsOnTruncation
<1>1. ReaderInv => ThrowsOnTruncation
  <2> SUFFICES ASSUME ReaderInv
               PROVE  ThrowsOnTruncation
    OBVIOUS
  <2>1. /\ MessageHere /\ Encode(input) \in Seq(Byte) /\ start \in Nat
        /\ Len(buffer) = start + Len(Encode(input))
    BY MessageEncoded DEF ReaderInv, MessageHere
  <2>2. Len(buffer) - start = Len(Encode(input))
    BY <2>1
  <2>3. status = "decoded" => offset = Len(Encode(input))
    BY <2>1, FirstAndLastField DEF ReaderInv, MessageHere, Ended, BetweenFields, Here
  <2> QED
    BY <2>2, <2>3 DEF ReaderInv, Ended, ThrowsOnTruncation
<1> QED
  BY <1>1, ReaderIsWhereItShouldBe, PTL

(* Every value that was sent comes out under its name.                     *)
THEOREM ValuesArrive == Spec => []DecodesWhatWasSent
<1>1. ReaderInv => DecodesWhatWasSent
  <2> SUFFICES ASSUME ReaderInv, status = "decoded",
                      NEW i \in DOMAIN NativeFields[input.kind],
                      ~(NameOf(input, i) = "packageId" /\ ParsesId)
               PROVE  out[NameOf(input, i)] = Received(NameOf(input, i), TypeOf(input, i))
    BY DEF DecodesWhatWasSent, NameOf, TypeOf
  <2>1. MessageHere /\ i \in 1..Count(input)
    BY FieldsAreTable DEF ReaderInv
  <2>2. out[NameOf(input, i)] = Made(i)
    BY <2>1 DEF ReaderInv, Ended
  <2>3. NameOf(input, i) \in {"info", "status"} => TypeOf(input, i) = "u32"
    BY <2>1, FieldsAreTable DEF IsTable, Converted, NameOf, TypeOf
  <2>4. DOMAIN Known = {"info", "status"}
    BY DEF Known
  <2> QED
    BY <2>2, <2>3, <2>4 DEF Made, Received, ReadValue, FromInt, Value
<1> QED
  BY <1>1, ReaderIsWhereItShouldBe, PTL

-----------------------------------------------------------------------------
(* Package ids: what split(';') finds, and that it loses nothing.          *)

(* One more byte of an id, and the cuts there are.                         *)
AndCut(c, id, i) == IF id[i] = Semicolon THEN Append(c, i) ELSE c

(* f[i] is where the separators are among the first i bytes of an id.      *)
IsCuts(f, id, n) ==
  /\ f \in [0..n -> Seq(Nat)]
  /\ f[0] = <<0>>
  /\ \A i \in 1..n : f[i] = AndCut(f[i - 1], id, i)

(* The recursion that finds the separators has a solution.                 *)
LEMMA CutsOf ==
  ASSUME NEW id, NEW n \in Nat, n = Len(id)
  PROVE  \E f : IsCuts(f, id, n) /\ Cuts(id) = Append(f[n], n + 1)
<1> DEFINE D == Seq(Nat)
           step == [p \in D \X Nat |-> AndCut(p[1], id, p[2])]
           IsFrom(f) == f = [i \in 0..n |-> IF i = 0 THEN <<0>> ELSE AndCut(f[i - 1], id, i)]
           from == CHOOSE f : IsFrom(f)
<1>1. /\ \A c \in D : \A i \in Nat : AndCut(c, id, i) \in D
      /\ <<0>> \in D
  BY DEF AndCut
<1>2. Cuts(id) = Append(from[n], n + 1)
  BY DEF Cuts, AndCut
<1> HIDE DEF D
<1>3. PICK g \in [0..n -> D] : Loop(g, <<0>>, step, n)
  <2>1. step \in [D \X Nat -> D]
    BY <1>1
  <2> HIDE DEF step
  <2> QED
    BY <1>1, <2>1, LoopExists
<1>4. ASSUME NEW i \in 1..n
      PROVE  g[i] = AndCut(g[i - 1], id, i)
  <2>1. g[i] = step[<<g[i - 1], i>>]
    BY <1>3 DEF Loop
  <2>2. g[i - 1] \in D /\ i \in Nat
    BY <1>3
  <2>3. <<g[i - 1], i>> \in D \X Nat
    BY <2>2
  <2> QED
    BY <2>1, <2>3
<1> DEFINE first == <<0>>
<1>5. g[0] = first /\ g = [i \in 0..n |-> g[i]]
  BY <1>3 DEF Loop
<1> HIDE DEF first
<1>6. g = [i \in 0..n |-> IF i = 0 THEN first ELSE AndCut(g[i - 1], id, i)]
  <2>1. \A i \in 0..n : i = 0 \/ i \in 1..n
    OBVIOUS
  <2> QED
    BY <1>4, <1>5, <2>1
<1>7. IsFrom(g)
  BY <1>6 DEF first
<1>8. IsFrom(from)
  BY <1>7
<1> HIDE DEF from
<1>9. from = [i \in 0..n |-> IF i = 0 THEN first ELSE AndCut(from[i - 1], id, i)]
  BY <1>8 DEF first
<1>10. /\ from[0] = first
       /\ \A i \in 1..n : from[i] = AndCut(from[i - 1], id, i)
       /\ from = [i \in 0..n |-> from[i]]
  <2>1. 0 \in 0..n /\ \A i \in 1..n : i \in 0..n /\ i # 0
    OBVIOUS
  <2>2. from = [i \in 0..n |-> from[i]]
    BY <1>9
  <2> QED
    BY <1>9, <2>1, <2>2
<1> DEFINE S == {i \in Nat : i <= n => from[i] \in D}
<1>11. 0 \in S
  BY <1>1, <1>10 DEF first
<1>12. ASSUME NEW i \in Nat, i \in S
       PROVE  i + 1 \in S
  <2> SUFFICES ASSUME i + 1 <= n
               PROVE  from[i + 1] \in D
    OBVIOUS
  <2>1. PICK j \in 1..n : j = i + 1
    OBVIOUS
  <2>2. j - 1 = i /\ from[i] \in D /\ j \in Nat
    BY <1>12, <2>1
  <2>3. AndCut(from[i], id, j) \in D
    BY <1>1, <2>2
  <2> QED
    BY <1>10, <2>1, <2>2, <2>3
<1>13. \A i \in 0..n : from[i] \in D
  <2> HIDE DEF S
  <2>1. Nat \subseteq S
    BY <1>11, <1>12, NatSetInduction
  <2> QED
    BY <2>1 DEF S
<1>14. IsCuts(from, id, n)
  <2>1. from \in [0..n -> D]
    BY <1>10, <1>13
  <2> QED
    BY <1>10, <2>1 DEF IsCuts, D, first
<1> QED
  BY <1>2, <1>14

Separators(id, i) == {j \in 1..i : id[j] = Semicolon}

(* The cuts among the first i bytes: one before them, and the separators   *)
(* in their order.                                                         *)
Shaped(c, id, i) ==
  /\ c \in Seq(Nat) /\ Len(c) >= 1 /\ c[1] = 0
  /\ \A k \in 1..Len(c) : c[k] <= i
  /\ \A k \in 2..Len(c) : c[k] \in 1..i /\ id[c[k]] = Semicolon
  /\ \A k, l \in 1..Len(c) : k < l => c[k] < c[l]
  /\ IsFiniteSet(Separators(id, i))
  /\ Len(c) = 1 + Cardinality(Separators(id, i))

(* By induction on the bytes looked at, the cuts are the separators in     *)
(* order.                                                                  *)
LEMMA CutsShaped ==
  ASSUME NEW id, NEW n \in Nat, NEW f, IsCuts(f, id, n)
  PROVE  Shaped(f[n], id, n)
<1> DEFINE S == {i \in Nat : i <= n => Shaped(f[i], id, i)}
<1>1. 0 \in S
  <2>a. PICK c : c = <<0>>
    OBVIOUS
  <2>1. c = f[0] /\ c \in Seq(Nat) /\ Len(c) = 1 /\ c[1] = 0
    <3>1. c = f[0]
      BY <2>a DEF IsCuts
    <3>2. c \in Seq(Nat) /\ Len(c) = 1 /\ c[1] = 0
      BY <2>a
    <3> QED
      BY <3>1, <3>2
  <2>2. Separators(id, 0) = {}
    BY DEF Separators
  <2>3. IsFiniteSet(Separators(id, 0)) /\ Cardinality(Separators(id, 0)) = 0
    BY <2>2, FS_EmptySet
  <2>4. Shaped(c, id, 0)
    <3>1. /\ \A k \in 1..Len(c) : k = 1
          /\ \A k \in 2..Len(c) : FALSE
      BY <2>1
    <3> QED
      BY <2>1, <2>3, <3>1 DEF Shaped
  <2> QED
    BY <2>1, <2>4
<1>2. ASSUME NEW i \in Nat, i \in S
      PROVE  i + 1 \in S
  <2> SUFFICES ASSUME i + 1 <= n
               PROVE  Shaped(f[i + 1], id, i + 1)
    OBVIOUS
  <2>1. PICK j \in 1..n : j = i + 1
    OBVIOUS
  <2>2. j - 1 = i /\ Shaped(f[i], id, i)
    BY <1>2, <2>1
  <2>3. f[j] = IF id[j] = Semicolon THEN Append(f[i], j) ELSE f[i]
    BY <2>2 DEF IsCuts, AndCut
  <2>4. PICK c : c = f[i]
    OBVIOUS
  <2>5. /\ c \in Seq(Nat) /\ Len(c) \in Nat /\ Len(c) >= 1 /\ c[1] = 0
        /\ \A k \in 1..Len(c) : c[k] <= i
        /\ \A k \in 2..Len(c) : c[k] \in 1..i /\ id[c[k]] = Semicolon
        /\ \A k, l \in 1..Len(c) : k < l => c[k] < c[l]
    BY <2>2, <2>4 DEF Shaped
  <2>6. /\ IsFiniteSet(Separators(id, i))
        /\ Len(c) = 1 + Cardinality(Separators(id, i))
        /\ Cardinality(Separators(id, i)) \in Nat
    BY <2>2, <2>4, FS_CardinalityType DEF Shaped
  <2>7. CASE id[j] = Semicolon
    <3>1. PICK d : d = Append(c, j)
      OBVIOUS
    <3>2. /\ d \in Seq(Nat) /\ Len(d) = Len(c) + 1 /\ d[Len(c) + 1] = j
          /\ \A k \in 1..Len(c) : d[k] = c[k]
      BY <2>1, <2>5, <3>1
    <3>3. \A k \in 1..Len(d) : k \in 1..Len(c) \/ k = Len(c) + 1
      BY <2>5, <3>2
    <3>4. d[1] = 0 /\ Len(d) >= 1
      BY <2>5, <3>2
    <3>5. \A k \in 1..Len(d) : d[k] <= j
      <4>1. ASSUME NEW k \in 1..Len(c)
            PROVE  d[k] <= j
        <5>1. d[k] = c[k] /\ c[k] \in Nat /\ c[k] <= i
          BY <2>5, <3>2
        <5> QED
          BY <2>1, <5>1
      <4> QED
        BY <3>2, <3>3, <4>1
    <3>6. \A k \in 2..Len(d) : d[k] \in 1..j /\ id[d[k]] = Semicolon
      <4>1. ASSUME NEW k \in 2..Len(c)
            PROVE  d[k] \in 1..j /\ id[d[k]] = Semicolon
        <5>1. d[k] = c[k] /\ c[k] \in 1..i /\ id[c[k]] = Semicolon
          BY <2>5, <3>2
        <5> QED
          BY <2>1, <5>1
      <4>2. \A k \in 2..Len(d) : k \in 2..Len(c) \/ k = Len(c) + 1
        BY <2>5, <3>2
      <4> QED
        BY <2>7, <3>2, <4>1, <4>2
    <3>7. \A k, l \in 1..Len(d) : k < l => d[k] < d[l]
      <4>1. ASSUME NEW k \in 1..Len(d), NEW l \in 1..Len(d), k < l
            PROVE  d[k] < d[l]
        <5>1. k \in 1..Len(c)
          BY <2>5, <3>2, <4>1
        <5>2. CASE l \in 1..Len(c)
          BY <2>5, <3>2, <4>1, <5>1, <5>2
        <5>3. CASE l = Len(c) + 1
          <6>1. d[k] = c[k] /\ c[k] \in Nat /\ c[k] <= i /\ d[l] = j
            BY <2>5, <3>2, <5>1, <5>3
          <6> QED
            BY <2>1, <6>1
        <5> QED
          BY <3>3, <5>2, <5>3
      <4> QED
        BY <4>1
    <3>8. /\ IsFiniteSet(Separators(id, j))
          /\ Len(d) = 1 + Cardinality(Separators(id, j))
      <4>1. Separators(id, j) = Separators(id, i) \cup {j} /\ j \notin Separators(id, i)
        BY <2>1, <2>7 DEF Separators
      <4>2. /\ IsFiniteSet(Separators(id, j))
            /\ Cardinality(Separators(id, j)) = Cardinality(Separators(id, i)) + 1
        BY <2>6, <4>1, FS_AddElement
      <4> QED
        BY <2>6, <3>2, <4>2
    <3>9. Shaped(d, id, j)
      BY <3>2, <3>4, <3>5, <3>6, <3>7, <3>8 DEF Shaped
    <3> QED
      BY <2>1, <2>3, <2>4, <2>7, <3>1, <3>9
  <2>8. CASE id[j] # Semicolon
    <3>1. Separators(id, j) = Separators(id, i)
      BY <2>1, <2>8 DEF Separators
    <3>2. \A k \in 1..Len(c) : c[k] \in Nat /\ c[k] <= j
      BY <2>1, <2>5
    <3>3. \A k \in 2..Len(c) : c[k] \in 1..j
      BY <2>1, <2>5
    <3>4. Shaped(c, id, j)
      BY <2>5, <2>6, <3>1, <3>2, <3>3 DEF Shaped
    <3> QED
      BY <2>1, <2>3, <2>4, <2>8, <3>4
  <2> QED
    BY <2>7, <2>8
<1> HIDE DEF S
<1>3. Nat \subseteq S
  BY <1>1, <1>2, NatSetInduction
<1> QED
  BY <1>3 DEF S

(* Sequences with the same bytes are the same.                             *)
LEMMA SameSequence ==
  ASSUME NEW s \in Seq(Byte), NEW t \in Seq(Byte), NEW n \in Nat, Len(s) = n, Len(t) = n,
         \A k \in 1..n : s[k] = t[k]
  PROVE  s = t
<1>1. s = [k \in 1..n |-> s[k]] /\ t = [k \in 1..n |-> t[k]]
  OBVIOUS
<1> QED
  BY <1>1

(* The bytes of s behind the a-th, up to and with the b-th.                *)
Part(s, a, b) == SubSeq(s, a + 1, b)

(* The bytes of a part.                                                    *)
LEMMA PartIs ==
  ASSUME NEW s \in Seq(Byte), NEW a \in Nat, NEW b \in Nat, a <= b, b <= Len(s)
  PROVE  /\ Part(s, a, b) \in Seq(Byte)
         /\ Len(Part(s, a, b)) = b - a
         /\ \A k \in 1..(b - a) : Part(s, a, b)[k] = s[a + k]
<1>1. \A k \in (a + 1)..b : k \in 1..Len(s) /\ s[k] \in Byte
  OBVIOUS
<1>2. PICK p : p = Part(s, a, b)
  OBVIOUS
<1>3. p = SubSeq(s, a + 1, b)
  BY <1>2 DEF Part
<1>4. p \in Seq(Byte)
  BY <1>1, <1>3
<1>5. Len(p) = b - a
  BY <1>1, <1>3
<1>6. \A k \in 1..(b - a) : p[k] = s[a + k]
  BY <1>1, <1>3
<1> QED
  BY <1>2, <1>4, <1>5, <1>6

(* A part and the next are one part.                                       *)
LEMMA PartsJoin ==
  ASSUME NEW s \in Seq(Byte), NEW a \in Nat, NEW b \in Nat, a <= b, b <= Len(s),
         NEW first, first = Part(s, 0, a)
  PROVE  first \o Part(s, a, b) = Part(s, 0, b)
<1>1. PICK second, both, whole :
        second = Part(s, a, b) /\ both = first \o second /\ whole = Part(s, 0, b)
  OBVIOUS
<1>2. Len(s) \in Nat
  OBVIOUS
<1>3. first \in Seq(Byte) /\ Len(first) = a /\ \A k \in 1..a : first[k] = s[k]
  <2>1. PICK o \in Nat : o = 0 /\ a - o = a
    OBVIOUS
  <2>2. o <= a /\ a <= Len(s) /\ first = Part(s, o, a)
    BY <1>2, <2>1
  <2>a. o <= a /\ a <= Len(s)
    BY <2>2
  <2>b. /\ Part(s, o, a) \in Seq(Byte) /\ Len(Part(s, o, a)) = a - o
        /\ \A k \in 1..(a - o) : Part(s, o, a)[k] = s[o + k]
    BY <2>a, PartIs
  <2>3. /\ first \in Seq(Byte) /\ Len(first) = a - o
        /\ \A k \in 1..(a - o) : first[k] = s[o + k]
    BY <2>2, <2>b
  <2> QED
    BY <2>1, <2>3
<1>4. whole \in Seq(Byte) /\ Len(whole) = b /\ \A k \in 1..b : whole[k] = s[k]
  <2>1. PICK o \in Nat : o = 0 /\ b - o = b
    OBVIOUS
  <2>2. o <= b /\ whole = Part(s, o, b)
    BY <1>1, <2>1
  <2>3. /\ whole \in Seq(Byte) /\ Len(whole) = b - o
        /\ \A k \in 1..(b - o) : whole[k] = s[o + k]
    BY <2>2, PartIs
  <2> QED
    BY <2>1, <2>3
<1>5. second \in Seq(Byte) /\ Len(second) = b - a /\ \A k \in 1..(b - a) : second[k] = s[a + k]
  BY <1>1, PartIs
<1>6. /\ both \in Seq(Byte) /\ Len(both) = b
      /\ \A k \in 1..a : both[k] = first[k]
      /\ \A k \in 1..(b - a) : both[a + k] = second[k]
  BY <1>1, <1>3, <1>5, Concatenation
<1>7. ASSUME NEW k \in 1..b
      PROVE  both[k] = whole[k]
  <2>1. CASE k \in 1..a
    BY <1>3, <1>4, <1>6, <2>1
  <2>2. CASE k \notin 1..a
    <3>1. PICK j \in 1..(b - a) : a + j = k
      <4>1. k - a \in 1..(b - a) /\ a + (k - a) = k
        BY <2>2
      <4> QED
        BY <4>1
    <3>2. both[k] = second[j] /\ second[j] = s[k]
      BY <1>5, <1>6, <3>1
    <3> QED
      BY <1>4, <3>2
  <2> QED
    BY <2>1, <2>2
<1>8. both = whole
  BY <1>4, <1>6, <1>7, SameSequence
<1> QED
  BY <1>1, <1>8

(* A separator and then the part behind it, after the parts before.        *)
Joined(first, part) == first \o <<Semicolon>> \o part

(* A separator and the part behind it follow the parts before.             *)
LEMMA NextPart ==
  ASSUME NEW s \in Seq(Byte), NEW a \in Nat, NEW b \in Nat, a < b, b <= Len(s),
         NEW c, c = a + 1, s[c] = Semicolon, NEW first, first = Part(s, 0, a),
         NEW all, all = Joined(first, Part(s, c, b))
  PROVE  all = Part(s, 0, b)
<1>1. c \in Nat /\ a <= c /\ c <= b /\ c <= Len(s) /\ Len(s) \in Nat
  OBVIOUS
<1>2. Part(s, a, c) = <<Semicolon>>
  <2>1. PICK p, q : p = Part(s, a, c) /\ q = <<Semicolon>>
    OBVIOUS
  <2>2. /\ p \in Seq(Byte) /\ Len(p) = c - a
        /\ \A k \in 1..(c - a) : p[k] = s[a + k]
    BY <1>1, <2>1, PartIs
  <2>3. c - a = 1
    OBVIOUS
  <2>4. Len(p) = 1 /\ p[1] = Semicolon
    BY <2>2, <2>3
  <2>5. q \in Seq(Byte) /\ Len(q) = 1 /\ q[1] = Semicolon
    BY <2>1, CodecAssumption DEF Byte
  <2>6. p = q
    <3>1. PICK n \in Nat : n = 1
      OBVIOUS
    <3>2. Len(p) = n /\ Len(q) = n /\ \A k \in 1..n : p[k] = q[k]
      BY <2>4, <2>5, <3>1
    <3> QED
      BY <2>2, <2>5, <3>2, SameSequence
  <2> QED
    BY <2>1, <2>6
<1>3. first \o <<Semicolon>> = Part(s, 0, c)
  <2>1. first \o Part(s, a, c) = Part(s, 0, c)
    BY <1>1, PartsJoin
  <2> QED
    BY <1>2, <2>1
<1>4. PICK before : before = Part(s, 0, c) /\ before = first \o <<Semicolon>>
  BY <1>3
<1>5. before \o Part(s, c, b) = Part(s, 0, b)
  BY <1>1, <1>4, PartsJoin
<1> QED
  BY <1>4, <1>5 DEF Joined

(* The part that is the whole.                                             *)
LEMMA WholePart ==
  ASSUME NEW s \in Seq(Byte), NEW n \in Nat, n = Len(s)
  PROVE  Part(s, 0, n) = s
<1>1. PICK o \in Nat : o = 0 /\ n - o = n /\ o <= n /\ n <= Len(s)
  OBVIOUS
<1>a. PICK p : p = Part(s, o, n)
  OBVIOUS
<1>2. p \in Seq(Byte) /\ Len(p) = n - o /\ \A k \in 1..(n - o) : p[k] = s[o + k]
  <2>1. o <= n /\ n <= Len(s)
    BY <1>1
  <2> QED
    BY <1>a, <2>1, PartIs
<1>3. Len(p) = n /\ \A k \in 1..n : p[k] = s[k]
  BY <1>1, <1>2
<1>4. p = s
  BY <1>2, <1>3, SameSequence
<1> QED
  BY <1>1, <1>a, <1>4

(* An id is split in one part more than it has separators, and four parts  *)
(* are the whole of it.                                                    *)
LEMMA IdParts ==
  ASSUME NEW id \in Seq(Byte)
  PROVE  /\ IsPackageId(id) <=> Cardinality({i \in DOMAIN id : id[i] = Semicolon}) = 3
         /\ IsPackageId(id) => Raw(PackageId(id)) = id
<1>1. PICK n \in Nat : n = Len(id)
  OBVIOUS
<1>2. PICK f : IsCuts(f, id, n) /\ Cuts(id) = Append(f[n], n + 1)
  BY <1>1, CutsOf
<1>3. PICK c, d : c = f[n] /\ d = Cuts(id)
  OBVIOUS
<1>4. Shaped(c, id, n)
  BY <1>2, <1>3, CutsShaped
<1>5. /\ c \in Seq(Nat) /\ Len(c) \in Nat /\ c[1] = 0
      /\ \A k \in 2..Len(c) : c[k] \in 1..n /\ id[c[k]] = Semicolon
      /\ \A k, l \in 1..Len(c) : k < l => c[k] < c[l]
  BY <1>4 DEF Shaped
<1>6. d = Append(c, n + 1)
  BY <1>2, <1>3
<1>7. Len(d) = Len(c) + 1 /\ d[Len(c) + 1] = n + 1 /\ \A k \in 1..Len(c) : d[k] = c[k]
  BY <1>5, <1>6
<1>8. Len(Split(id)) = Len(c)
  <2>1. PICK m \in Nat : m = Len(d) - 1 /\ m = Len(c)
    BY <1>5, <1>7
  <2>2. Split(id) = [k \in 1..m |-> SubSeq(id, d[k] + 1, d[k + 1] - 1)]
    BY <1>3, <2>1 DEF Split
  <2> DEFINE F(k) == SubSeq(id, d[k] + 1, d[k + 1] - 1)
  <2>3. Split(id) = [k \in 1..m |-> F(k)]
    BY <2>2
  <2> HIDE DEF F
  <2>4. Len(Split(id)) = m
    BY <2>3
  <2> QED
    BY <2>1, <2>4
<1>9. IsPackageId(id) <=> Cardinality({i \in DOMAIN id : id[i] = Semicolon}) = 3
  <2>1. {i \in DOMAIN id : id[i] = Semicolon} = Separators(id, n)
    BY <1>1 DEF Separators
  <2>2. Len(c) = 1 + Cardinality(Separators(id, n)) /\ Cardinality(Separators(id, n)) \in Nat
    BY <1>4, FS_CardinalityType DEF Shaped
  <2>3. PICK k \in Nat : k = Cardinality(Separators(id, n)) /\ Len(c) = 1 + k
    BY <2>2
  <2>4. IsPackageId(id) <=> 1 + k = 4
    BY <1>8, <2>3 DEF IsPackageId
  <2>5. 1 + k = 4 <=> k = 3
    OBVIOUS
  <2> QED
    BY <2>1, <2>3, <2>4, <2>5
<1>10. ASSUME IsPackageId(id)
       PROVE  Raw(PackageId(id)) = id
  <2>1. Len(c) = 4
    BY <1>8, <1>10 DEF IsPackageId
  <2>2. PICK p, q, r : p = c[2] /\ q = c[3] /\ r = c[4]
    OBVIOUS
  <2>3. /\ p \in 1..n /\ q \in 1..n /\ r \in 1..n /\ p < q /\ q < r
        /\ id[p] = Semicolon /\ id[q] = Semicolon /\ id[r] = Semicolon
    <3>1. 2 \in 2..Len(c) /\ 3 \in 2..Len(c) /\ 4 \in 2..Len(c)
      BY <2>1
    <3>2. 2 \in 1..Len(c) /\ 3 \in 1..Len(c) /\ 4 \in 1..Len(c) /\ 2 < 3 /\ 3 < 4
      BY <2>1
    <3> QED
      BY <1>5, <2>2, <3>1, <3>2
  <2>4. PICK x \in Nat, y \in Nat, z \in Nat :
          /\ p = x + 1 /\ q = y + 1 /\ r = z + 1
          /\ x < y /\ y < z /\ z < n
    <3>1. /\ p - 1 \in Nat /\ q - 1 \in Nat /\ r - 1 \in Nat
          /\ p = (p - 1) + 1 /\ q = (q - 1) + 1 /\ r = (r - 1) + 1
          /\ p - 1 < q - 1 /\ q - 1 < r - 1 /\ r - 1 < n
      BY <2>3
    <3> QED
      BY <3>1
  <2>5. d[1] = 0 /\ d[2] = p /\ d[3] = q /\ d[4] = r /\ d[5] = n + 1 /\ Len(d) = 5
    BY <1>5, <1>7, <2>1, <2>2
  <2>6. /\ Split(id)[1] = Part(id, 0, x)
        /\ Split(id)[2] = Part(id, p, y)
        /\ Split(id)[3] = Part(id, q, z)
        /\ Split(id)[4] = Part(id, r, n)
    <3>1. ASSUME NEW k \in 1..4, NEW j, j = k + 1, NEW a, d[k] = a, NEW b \in Nat, d[j] = b + 1
          PROVE  Split(id)[k] = Part(id, a, b)
      <4>1. Len(d) - 1 = 4
        BY <2>5
      <4>2. Split(id) = [i \in 1..4 |-> SubSeq(id, d[i] + 1, d[i + 1] - 1)]
        BY <1>3, <4>1 DEF Split
      <4>3. Split(id)[k] = SubSeq(id, d[k] + 1, d[j] - 1)
        BY <3>1, <4>2
      <4>4. d[j] - 1 = b
        BY <3>1
      <4> QED
        BY <3>1, <4>3, <4>4 DEF Part
    <3>2. /\ 1 \in 1..4 /\ 2 \in 1..4 /\ 3 \in 1..4 /\ 4 \in 1..4
          /\ 2 = 1 + 1 /\ 3 = 2 + 1 /\ 4 = 3 + 1 /\ 5 = 4 + 1
      OBVIOUS
    <3>3. Split(id)[1] = Part(id, 0, x)
      BY <2>4, <2>5, <3>1, <3>2
    <3>4. Split(id)[2] = Part(id, p, y)
      BY <2>4, <2>5, <3>1, <3>2
    <3>5. Split(id)[3] = Part(id, q, z)
      BY <2>4, <2>5, <3>1, <3>2
    <3>6. Split(id)[4] = Part(id, r, n)
      BY <2>5, <3>1, <3>2
    <3> QED
      BY <3>3, <3>4, <3>5, <3>6
  <2>7. PICK one, two, three, four :
          /\ one = Part(id, 0, x)
          /\ two = Joined(one, Part(id, p, y))
          /\ three = Joined(two, Part(id, q, z))
          /\ four = Joined(three, Part(id, r, n))
    OBVIOUS
  <2>8. Raw(PackageId(id)) = four
    BY <2>6, <2>7 DEF Raw, PackageId, Joined
  <2>9. n = Len(id) /\ y <= Len(id) /\ z <= Len(id) /\ n <= Len(id)
    BY <1>1, <2>4
  <2>10. two = Part(id, 0, y)
    BY <2>3, <2>4, <2>7, <2>9, NextPart
  <2>11. three = Part(id, 0, z)
    BY <2>3, <2>4, <2>7, <2>9, <2>10, NextPart
  <2>12. four = Part(id, 0, n)
    BY <2>3, <2>4, <2>7, <2>9, <2>11, NextPart
  <2> QED
    BY <2>8, <2>9, <2>12, WholePart
<1> QED
  BY <1>9, <1>10

(* A package id survives its parsing.                                      *)
THEOREM PackageIdsAreWhole == Spec => []IdsAreWhole
<1>1. ReaderInv => IdsAreWhole
  <2> SUFFICES ASSUME ReaderInv, ParsesId
               PROVE  LET id == input.sent.packageId IN
                      /\ status = "decoded" => Raw(out.packageId) = id
                      /\ status = "FormatException" =>
                           Cardinality({i \in DOMAIN id : id[i] = Semicolon}) # 3
    BY DEF IdsAreWhole
  <2>1. MessageHere
    BY DEF ReaderInv
  <2>2. PICK i \in 1..Count(input) :
          /\ NameOf(input, i) = "packageId" /\ TypeOf(input, i) = "str"
          /\ ReadValue(i) = input.sent["packageId"]
    BY <2>1, IdIsField
  <2>3. PICK id : id = input.sent["packageId"]
    OBVIOUS
  <2>4. Value(input, i) = id
    BY <2>2, <2>3 DEF Value
  <2>5. id \in Seq(Byte)
    BY <2>1, <2>2, <2>4, FieldTyped DEF MessageHere, HasType, IsString
  <2>6. status = "decoded" => IsPackageId(id) /\ out["packageId"] = PackageId(id)
    <3>1. status = "decoded" => IdParses /\ out[NameOf(input, i)] = Made(i)
      BY DEF ReaderInv, Ended
    <3> QED
      BY <2>2, <2>3, <2>4, <3>1 DEF IdParses, Made
  <2>7. status = "FormatException" => ~IsPackageId(id)
    BY <2>3 DEF ReaderInv, Ended, IdParses
  <2>8. status = "decoded" => Raw(out.packageId) = id
    BY <2>5, <2>6, IdParts
  <2>9. status = "FormatException" => Cardinality({j \in DOMAIN id : id[j] = Semicolon}) # 3
    BY <2>5, <2>7, IdParts
  <2> QED
    BY <2>3, <2>8, <2>9
<1> QED
  BY <1>1, ReaderIsWhereItShouldBe, PTL

-----------------------------------------------------------------------------
(* The native decoder.                                                     *)

(* glz::decode reads a string where one is.                                *)
LEMMA StringDecoded ==
  ASSUME NEW s, NEW bytes, NEW at \in Nat, Len(s) \in Nat,
         NumberIn(bytes, at, 4) = Len(s), SubSeq(bytes, at + 5, at + 4 + Len(s)) = s
  PROVE  StringIn(bytes, at) = <<s, at + 4 + Len(s)>>
BY DEF StringIn

(* One more string of a list: p is the strings so far, and the offset.     *)
AndItem(p, bytes) ==
  LET next == StringIn(bytes, p[2]) IN <<Append(p[1], next[1]), next[2]>>

(* The first strings of a list and one more.                               *)
LEMMA FirstOnes ==
  ASSUME NEW v \in Seq(Seq(Byte)), NEW i \in Nat, NEW j, j = i + 1, j <= Len(v)
  PROVE  Append([k \in 1..i |-> v[k]], v[j]) = [k \in 1..j |-> v[k]]
<1>1. PICK s, t, x : s = [k \in 1..i |-> v[k]] /\ x = v[j] /\ t = Append(s, x)
  OBVIOUS
<1>2. j \in Nat /\ j \in 1..Len(v) /\ \A k \in 1..i : k \in 1..Len(v)
  OBVIOUS
<1>3. \A k \in 1..i : v[k] \in Seq(Byte)
  BY <1>2
<1>4. s \in Seq(Seq(Byte)) /\ Len(s) = i /\ x \in Seq(Byte)
  BY <1>1, <1>2, <1>3
<1>5. t \in Seq(Seq(Byte)) /\ Len(t) = j /\ t[j] = x /\ \A k \in 1..i : t[k] = s[k]
  BY <1>1, <1>4
<1>6. \A k \in 1..j : k = j \/ k \in 1..i
  OBVIOUS
<1>7. \A k \in 1..j : t[k] = v[k]
  BY <1>1, <1>5, <1>6
<1>8. t = [k \in 1..j |-> t[k]]
  BY <1>2, <1>5
<1> QED
  BY <1>1, <1>7, <1>8

(* The native decoder reads back the list that was placed.                 *)
LEMMA ListDecoded ==
  ASSUME NEW v, HasType("list", v), NEW bytes \in Seq(Byte), NEW at \in Nat,
         Placed(bytes, at, EncodeField("list", v)),
         at + Len(EncodeField("list", v)) <= Len(bytes)
  PROVE  ListIn(bytes, at) = <<v, at + Len(EncodeField("list", v))>>
<1>1. PICK ss, n : ss = Strings(v) /\ n = Len(v)
  OBVIOUS
<1>2. /\ v \in Seq(Seq(Byte)) /\ n \in Nat /\ ss \in Seq(Seq(Byte)) /\ Len(ss) = n
      /\ Len(EncodeField("list", v)) = 4 + Len(FlattenSeq(ss))
  BY <1>1, ListEncoded DEF HasType
<1>3. NumberIn(bytes, at, 4) = n
  BY <1>1, ListPlaced
<1>4. /\ End(ss, 0) = 0 /\ End(ss, n) = Len(FlattenSeq(ss)) /\ Len(FlattenSeq(ss)) \in Nat
      /\ \A i \in 0..n : End(ss, i) \in Nat
  BY <1>2, PartsInPlace
<1> DEFINE base == <<<<>>, at + 4>>
           IsFrom(f) == f = [i \in 0..n |-> IF i = 0 THEN base ELSE AndItem(f[i - 1], bytes)]
           from == CHOOSE f : IsFrom(f)
           Read(i) == <<[k \in 1..i |-> v[k]], at + 4 + End(ss, i)>>
           g == [i \in 0..n |-> Read(i)]
<1>5. ListIn(bytes, at) = from[n]
  BY <1>3 DEF ListIn, AndItem
<1>6. Read(0) = base
  <2>1. [k \in 1..0 |-> v[k]] = <<>>
    OBVIOUS
  <2>2. at + 4 + End(ss, 0) = at + 4
    BY <1>4
  <2> QED
    BY <2>1, <2>2
<1>7. ASSUME NEW i \in Nat, NEW j \in 1..n, j = i + 1
      PROVE  AndItem(Read(i), bytes) = Read(j)
  <2>1. PICK s, m, b : s = v[j] /\ m = Len(s) /\ b = at + 4 + Begin(ss, j)
    OBVIOUS
  <2>2. Begin(ss, j) = End(ss, i)
    <3>1. j - 1 = i
      BY <1>7
    <3> QED
      BY <3>1 DEF Begin
  <2>3. j \in 1..Len(v) /\ b = at + 4 + Begin(Strings(v), j)
    BY <1>1, <2>1
  <2>4. b \in Nat /\ NumberIn(bytes, b, 4) = Len(v[j]) /\ Len(v[j]) \in Nat
    <3>1. b \in Nat /\ Len(v[j]) \in Nat
      BY <2>3, ItemPlaced
    <3>2. NumberIn(bytes, b, 4) = Len(v[j])
      BY <2>3, ItemPlaced
    <3> QED
      BY <3>1, <3>2
  <2>5. SubSeq(bytes, b + 5, b + 4 + Len(v[j])) = v[j]
    BY <2>3, ItemPlaced, ZenonT(30)
  <2>6. at + 4 + End(Strings(v), j) = b + 4 + Len(v[j])
    BY <2>3, ItemPlaced
  <2>7. StringIn(bytes, b) = <<s, b + 4 + m>>
    BY <2>1, <2>4, <2>5, StringDecoded
  <2>8. b + 4 + m = at + 4 + End(ss, j)
    BY <1>1, <2>1, <2>6
  <2>9. Append([k \in 1..i |-> v[k]], s) = [k \in 1..j |-> v[k]]
    BY <1>1, <1>2, <1>7, <2>1, <2>3, FirstOnes
  <2>10. PICK firsts, more : firsts = [k \in 1..i |-> v[k]] /\ more = [k \in 1..j |-> v[k]]
    OBVIOUS
  <2>11. Read(i) = <<firsts, b>> /\ Read(j) = <<more, b + 4 + m>>
    BY <2>1, <2>2, <2>8, <2>10
  <2>12. Append(firsts, s) = more
    BY <2>9, <2>10
  <2> HIDE DEF Read
  <2> QED
    BY <2>7, <2>11, <2>12 DEF AndItem
<1> HIDE DEF Read, base
<1>8. g = [i \in 0..n |-> IF i = 0 THEN base ELSE AndItem(g[i - 1], bytes)]
  <2>1. ASSUME NEW j \in 1..n
        PROVE  g[j] = AndItem(g[j - 1], bytes)
    <3>1. PICK i \in 0..n : i = j - 1 /\ i \in Nat /\ j = i + 1 /\ j \in 0..n
      BY <1>2
    <3> QED
      BY <1>7, <3>1
  <2>2. g[0] = base /\ g = [i \in 0..n |-> g[i]]
    BY <1>2, <1>6
  <2>3. \A i \in 0..n : i = 0 \/ i \in 1..n
    BY <1>2
  <2> HIDE DEF g
  <2> QED
    BY <2>1, <2>2, <2>3
<1>9. IsFrom(from)
  <2> HIDE DEF g
  <2>1. IsFrom(g)
    BY <1>8
  <2> QED
    BY <2>1
<1> HIDE DEF from
<1>10. from[0] = base /\ \A j \in 1..n : from[j] = AndItem(from[j - 1], bytes)
  <2>1. 0 \in 0..n /\ \A j \in 1..n : j \in 0..n /\ j # 0
    BY <1>2
  <2> QED
    BY <1>9, <2>1
<1> HIDE DEF g
<1> DEFINE S == {i \in Nat : i <= n => from[i] = Read(i)}
<1>11. 0 \in S
  BY <1>6, <1>10
<1>12. ASSUME NEW i \in Nat, i \in S
       PROVE  i + 1 \in S
  <2> SUFFICES ASSUME i + 1 <= n
               PROVE  from[i + 1] = Read(i + 1)
    OBVIOUS
  <2>1. PICK j \in 1..n : j = i + 1
    BY <1>2
  <2>2. j - 1 = i /\ from[i] = Read(i)
    BY <1>2, <1>12, <2>1
  <2>3. from[j] = AndItem(Read(i), bytes)
    BY <1>10, <2>2
  <2>4. from[j] = Read(j)
    BY <1>7, <2>1, <2>3
  <2> QED
    BY <2>1, <2>4
<1> HIDE DEF S
<1>13. from[n] = Read(n)
  <2>1. Nat \subseteq S
    BY <1>11, <1>12, NatSetInduction
  <2> QED
    BY <1>2, <2>1 DEF S
<1>14. Read(n) = <<v, at + Len(EncodeField("list", v))>>
  <2>1. v = [k \in 1..n |-> v[k]]
    BY <1>1, <1>2
  <2>2. PICK m \in Nat : m = Len(FlattenSeq(ss)) /\ m = End(ss, n)
    BY <1>4
  <2>3. at + 4 + m = at + (4 + m)
    OBVIOUS
  <2> QED
    BY <1>2, <2>1, <2>2, <2>3 DEF Read
<1> QED
  BY <1>5, <1>13, <1>14

(* So it does any other field.                                             *)
LEMMA FieldDecoded ==
  ASSUME NEW type \in Types, NEW v, HasType(type, v), NEW bytes \in Seq(Byte), NEW at \in Nat,
         Placed(bytes, at, EncodeField(type, v)),
         at + Len(EncodeField(type, v)) <= Len(bytes)
  PROVE  DecodeField(type, bytes, at) = <<v, at + Len(EncodeField(type, v))>>
<1>1. CASE type = "u32"
  <2>1. EncodeField(type, v) = LittleEndian(v, 4) /\ v \in Nat /\ v < Word
    BY <1>1, FieldEncoded
  <2>2. Len(LittleEndian(v, 4)) = 4
    BY <2>1, DigitsAreBytes
  <2>3. NumberIn(bytes, at, 4) = v
    BY <2>1, NumberPlaced
  <2> QED
    BY <1>1, <2>1, <2>2, <2>3 DEF DecodeField
<1>2. CASE type = "u64"
  <2>1. EncodeField(type, v) = LittleEndian(v, 8) /\ v \in Nat /\ v < DoubleWord
    BY <1>2, FieldEncoded
  <2>2. Len(LittleEndian(v, 8)) = 8
    BY <2>1, DigitsAreBytes
  <2>3. NumberIn(bytes, at, 8) = v
    BY <2>1, NumberPlaced
  <2> QED
    BY <1>2, <2>1, <2>2, <2>3 DEF DecodeField
<1>3. CASE type = "bool"
  <2>1. PICK part : part = EncodeField(type, v)
    OBVIOUS
  <2>2. part = <<IF v THEN 1 ELSE 0>> /\ v \in BOOLEAN
    BY <1>3, <2>1, FieldEncoded
  <2>3. Len(part) = 1 /\ bytes[at + 1] = part[1]
    <3>1. Len(part) = 1
      BY <2>2
    <3> QED
      BY <2>1, <3>1 DEF Placed
  <2>4. (bytes[at + 1] # 0) = v
    BY <2>2, <2>3
  <2> QED
    BY <1>3, <2>1, <2>3, <2>4 DEF DecodeField
<1>4. CASE type = "str"
  <2>1. EncodeField(type, v) = EncodeString(v) /\ IsString(v)
    BY <1>4, FieldEncoded
  <2>2. Len(EncodeString(v)) = 4 + Len(v) /\ Len(v) \in Nat
    BY <2>1, StringEncoded
  <2>3. at + 4 + Len(v) <= Len(bytes) /\ at + 4 + Len(v) = at + Len(EncodeString(v))
    BY <2>1, <2>2
  <2>4. Placed(bytes, at, EncodeString(v))
    BY <2>1
  <2>5. NumberIn(bytes, at, 4) = Len(v) /\ SubSeq(bytes, at + 5, at + 4 + Len(v)) = v
    BY <2>1, <2>3, <2>4, StringPlaced
  <2>6. StringIn(bytes, at) = <<v, at + 4 + Len(v)>>
    BY <2>2, <2>5, StringDecoded
  <2> QED
    BY <1>4, <2>1, <2>3, <2>6 DEF DecodeField
<1>5. CASE type = "list"
  BY <1>5, ListDecoded DEF DecodeField
<1> QED
  BY <1>1, <1>2, <1>3, <1>4, <1>5 DEF Types

(* One more field of a struct: p is the record so far, and the offset.     *)
AndField(p, kind, bytes, i) ==
  LET next == DecodeField(NativeFields[kind][i][2], bytes, p[2])
  IN  <<With(p[1], NativeFields[kind][i][1], next[1]), next[2]>>

(* The first i fields of what is sent.                                     *)
FirstFields(in, i) == [name \in {NameOf(in, j) : j \in 1..i} |-> in.sent[name]]

(* At first no field is read.                                              *)
LEMMA NoFields ==
  ASSUME NEW in
  PROVE  FirstFields(in, 0) = <<>>
<1>1. {NameOf(in, j) : j \in 1..0} = {}
  OBVIOUS
<1>2. FirstFields(in, 0) = [name \in {} |-> in.sent[name]]
  BY <1>1 DEF FirstFields
<1>3. [name \in {} |-> in.sent[name]] = <<>>
  OBVIOUS
<1> QED
  BY <1>2, <1>3

(* The native decoder stores one more field of those sent.                 *)
LEMMA OneMoreField ==
  ASSUME NEW in, NEW i \in Nat, NEW j, j = i + 1
  PROVE  With(FirstFields(in, i), NameOf(in, j), Value(in, j)) = FirstFields(in, j)
<1>1. {NameOf(in, k) : k \in 1..j} = {NameOf(in, k) : k \in 1..i} \cup {NameOf(in, j)}
  <2>1. \A k : k \in 1..j <=> k \in 1..i \/ k = j
    OBVIOUS
  <2> QED
    BY <2>1
<1>2. DOMAIN FirstFields(in, i) = {NameOf(in, k) : k \in 1..i}
  BY DEF FirstFields
<1>3. \A name \in {NameOf(in, k) : k \in 1..i} : FirstFields(in, i)[name] = in.sent[name]
  BY DEF FirstFields
<1>4. Value(in, j) = in.sent[NameOf(in, j)]
  BY DEF Value
<1>5. PICK record, S, x : /\ record = FirstFields(in, i) /\ S = {NameOf(in, k) : k \in 1..i}
                          /\ x = NameOf(in, j)
  OBVIOUS
<1>6. With(record, x, Value(in, j)) = [name \in S \cup {x} |-> in.sent[name]]
  BY <1>2, <1>3, <1>4, <1>5 DEF With
<1>7. FirstFields(in, j) = [name \in S \cup {x} |-> in.sent[name]]
  BY <1>1, <1>5 DEF FirstFields
<1> QED
  BY <1>5, <1>6, <1>7

(* glz::decode reads back what glz::encode wrote, whatever is sent, and    *)
(* ends at the last byte.                                                  *)
THEOREM NativeRoundTrip ==
  ASSUME NEW in \in Inputs
  PROVE  Decode(in.kind, Encode(in)) = <<in.sent, Len(Encode(in))>>
<1>1. PICK n, bytes : n = Count(in) /\ bytes = Encode(in)
  OBVIOUS
<1>2. n \in Nat /\ n = Len(NativeFields[in.kind]) /\ bytes \in Seq(Byte) /\ Len(bytes) \in Nat
  <2>1. n \in Nat /\ bytes \in Seq(Byte)
    BY <1>1, MessageEncoded
  <2> QED
    BY <1>1, <2>1 DEF Count
<1>3. in.kind \in Kinds /\ in.sent = [name \in Names(in.kind) |-> in.sent[name]]
  BY InputsAssumption
<1>4. DOMAIN NativeFields[in.kind] = 1..n
  BY <1>1, <1>3, TablesMatch DEF IsTable, HasTypes, Count
<1> DEFINE base == <<<<>>, 1>>
           IsFrom(f) ==
             f = [i \in 0..n |-> IF i = 0 THEN base ELSE AndField(f[i - 1], in.kind, bytes, i)]
           from == CHOOSE f : IsFrom(f)
           Read(i) == <<FirstFields(in, i), FieldAt(in, i + 1)>>
           g == [i \in 0..n |-> Read(i)]
<1>5. Decode(in.kind, bytes) = from[n]
  BY <1>2 DEF Decode, AndField
<1>6. Read(0) = base
  <2>1. PICK j : j = 1
    OBVIOUS
  <2>2. 0 + 1 = 1 /\ FieldAt(in, 1) = 1
    BY FirstAndLastField
  <2> QED
    BY <2>2, NoFields
<1>7. ASSUME NEW i \in Nat, NEW j \in 1..n, j = i + 1
      PROVE  AndField(Read(i), in.kind, bytes, j) = Read(j)
  <2>1. PICK type, v, part, at :
          /\ type = TypeOf(in, j) /\ v = Value(in, j) /\ part = EncodeField(type, v)
          /\ at = FieldAt(in, j)
    OBVIOUS
  <2>2. type \in Types /\ HasType(type, v)
    BY <1>1, <2>1, FieldTyped
  <2>3. Placed(bytes, 0, bytes)
    <3>1. \A k \in 1..Len(bytes) : 0 + k = k
      BY <1>2
    <3> QED
      BY <3>1 DEF Placed
  <2>4. /\ at \in Nat /\ Placed(bytes, 0 + at, part)
        /\ FieldAt(in, j + 1) = at + Len(part) /\ at + Len(part) <= Len(bytes)
    BY <1>1, <2>1, <2>3, FieldPlaced
  <2>5. Placed(bytes, at, part)
    <3>1. 0 + at = at
      BY <2>4
    <3> QED
      BY <2>4, <3>1
  <2>6. DecodeField(type, bytes, at) = <<v, at + Len(part)>>
    BY <1>2, <2>1, <2>2, <2>4, <2>5, FieldDecoded
  <2>7. With(FirstFields(in, i), NameOf(in, j), v) = FirstFields(in, j)
    BY <1>7, <2>1, OneMoreField
  <2>8. PICK end : end = at + Len(part)
    OBVIOUS
  <2>9. Read(i) = <<FirstFields(in, i), at>> /\ Read(j) = <<FirstFields(in, j), end>>
    BY <1>7, <2>1, <2>4, <2>8
  <2> HIDE DEF Read
  <2> QED
    BY <2>1, <2>6, <2>7, <2>8, <2>9 DEF AndField, TypeOf, NameOf
<1> HIDE DEF Read, base
<1>8. g = [i \in 0..n |-> IF i = 0 THEN base ELSE AndField(g[i - 1], in.kind, bytes, i)]
  <2>1. ASSUME NEW j \in 1..n
        PROVE  g[j] = AndField(g[j - 1], in.kind, bytes, j)
    <3>1. PICK i \in 0..n : i = j - 1 /\ i \in Nat /\ j = i + 1 /\ j \in 0..n
      BY <1>2
    <3> QED
      BY <1>7, <3>1
  <2>2. g[0] = base /\ g = [i \in 0..n |-> g[i]]
    BY <1>2, <1>6
  <2>3. \A i \in 0..n : i = 0 \/ i \in 1..n
    BY <1>2
  <2> HIDE DEF g
  <2> QED
    BY <2>1, <2>2, <2>3
<1>9. IsFrom(from)
  <2> HIDE DEF g
  <2>1. IsFrom(g)
    BY <1>8
  <2> QED
    BY <2>1
<1> HIDE DEF from, g
<1>10. from[0] = base /\ \A j \in 1..n : from[j] = AndField(from[j - 1], in.kind, bytes, j)
  <2>1. 0 \in 0..n /\ \A j \in 1..n : j \in 0..n /\ j # 0
    BY <1>2
  <2> QED
    BY <1>9, <2>1
<1> DEFINE S == {i \in Nat : i <= n => from[i] = Read(i)}
<1>11. 0 \in S
  BY <1>6, <1>10
<1>12. ASSUME NEW i \in Nat, i \in S
       PROVE  i + 1 \in S
  <2> SUFFICES ASSUME i + 1 <= n
               PROVE  from[i + 1] = Read(i + 1)
    OBVIOUS
  <2>1. PICK j \in 1..n : j = i + 1
    BY <1>2
  <2>2. j - 1 = i /\ from[i] = Read(i)
    BY <1>2, <1>12, <2>1
  <2>3. from[j] = AndField(Read(i), in.kind, bytes, j)
    BY <1>10, <2>2
  <2>4. from[j] = Read(j)
    BY <1>7, <2>1, <2>3
  <2> QED
    BY <2>1, <2>4
<1> HIDE DEF S
<1>13. from[n] = Read(n)
  <2>1. Nat \subseteq S
    BY <1>11, <1>12, NatSetInduction
  <2> QED
    BY <1>2, <2>1 DEF S
<1>14. Read(n) = <<in.sent, Len(bytes)>>
  <2>1. FieldAt(in, n + 1) = Len(bytes)
    BY <1>1, FirstAndLastField
  <2>2. {NameOf(in, j) : j \in 1..n} = Names(in.kind)
    BY <1>4 DEF Names, NameOf
  <2>3. FirstFields(in, n) = in.sent
    BY <1>3, <2>2 DEF FirstFields
  <2> QED
    BY <2>1, <2>3 DEF Read
<1> QED
  BY <1>1, <1>5, <1>13, <1>14

(* No read leaves the view: each ends where its last _checkBounds said it  *)
(* may.                                                                    *)
THEOREM ReaderStaysInView == Spec => []NoOverread
<1>1. Init => NoOverread
  BY DEF Init, NoOverread
<1>2. NoOverread /\ [Next]_vars => NoOverread'
  <2> SUFFICES ASSUME NoOverread, [Next]_vars
               PROVE  NoOverread'
    OBVIOUS
  <2> USE DEF NoOverread, Fits, messageVars
  <2>1. CASE readUint32
    BY <2>1 DEF readUint32, Store
  <2>2. CASE readUint64
    BY <2>2 DEF readUint64, Store
  <2>3. CASE readBool
    BY <2>3 DEF readBool, Store
  <2>4. CASE readString
    BY <2>4 DEF readString, StringFits, Store
  <2>5. CASE readCount
    BY <2>5 DEF readCount
  <2>6. CASE readItem
    BY <2>6 DEF readItem, StringFits
  <2>7. CASE ListRead
    BY <2>7 DEF ListRead, Store
  <2>8. CASE Overrun \/ Return \/ Malformed \/ UNCHANGED vars
    BY <2>8 DEF Overrun, Return, Malformed, vars
  <2> QED
    BY <2>1, <2>2, <2>3, <2>4, <2>5, <2>6, <2>7, <2>8 DEF Next
<1> QED
  BY <1>1, <1>2, PTL DEF Spec

(* Where one decoder returns, the other one reads the same.                *)
THEOREM BothDecodersAgree == Spec => []DecodersAgree
<1>1. ReaderInv /\ NoOverread => DecodersAgree
  <2> SUFFICES ASSUME ReaderInv, NoOverread, status = "decoded"
               PROVE  Decode(input.kind, SubSeq(buffer, start + 1, start + length))
                        = <<input.sent, offset>>
    BY DEF DecodersAgree
  <2>1. PICK message : message = Encode(input)
    OBVIOUS
  <2>2. /\ input \in Inputs /\ start \in Nat /\ buffer \in Seq(Byte)
        /\ Placed(buffer, start, message) /\ Len(buffer) = start + Len(message)
        /\ length \in 1..Len(message) /\ message \in Seq(Byte) /\ Len(message) \in Nat
    <3>1. message \in Seq(Byte)
      BY <2>1, MessageEncoded DEF ReaderInv, MessageHere
    <3> QED
      BY <2>1, <3>1 DEF ReaderInv, MessageHere
  <2>3. offset = Len(message)
    BY <2>1, FirstAndLastField DEF ReaderInv, MessageHere, Ended, BetweenFields, Here
  <2>4. length = Len(message)
    BY <2>2, <2>3 DEF NoOverread
  <2>5. SubSeq(buffer, start + 1, start + length) = message
    <3>1. PICK n, end, view : /\ n \in Nat /\ end \in Nat /\ n = Len(message)
                              /\ end = start + n /\ view = Part(buffer, start, end)
      BY <2>2
    <3>2. start <= end /\ end <= Len(buffer) /\ end - start = n
      BY <2>2, <3>1
    <3>a. /\ Part(buffer, start, end) \in Seq(Byte)
          /\ Len(Part(buffer, start, end)) = end - start
          /\ \A k \in 1..(end - start) : Part(buffer, start, end)[k] = buffer[start + k]
      <4>1. start \in Nat /\ end \in Nat /\ start <= end /\ end <= Len(buffer)
        BY <2>2, <3>1, <3>2
      <4> QED
        BY <2>2, <4>1, PartIs
    <3>3. /\ view \in Seq(Byte) /\ Len(view) = end - start
          /\ \A k \in 1..(end - start) : view[k] = buffer[start + k]
      BY <3>1, <3>a
    <3>4. Len(view) = n /\ \A k \in 1..n : view[k] = message[k]
      BY <2>2, <3>1, <3>2, <3>3 DEF Placed
    <3>5. view = message
      BY <2>2, <3>1, <3>3, <3>4, SameSequence
    <3> QED
      BY <2>4, <3>1, <3>5 DEF Part
  <2> QED
    BY <2>1, <2>2, <2>3, <2>5, NativeRoundTrip
<1> QED
  BY <1>1, ReaderIsWhereItShouldBe, ReaderStaysInView, PTL
=============================================================================
