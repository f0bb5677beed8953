------------------------- MODULE FfiBoundary_proofs -------------------------
(***************************************************************************)
(* What FfiBoundary promises, for every text, list and bit field: a call   *)
(* of PkBindings leaves no native memory, the hints reach the daemon       *)
(* before the method, each argument arrives in its place and whole, and    *)
(* the codec keeps its promises when calls and messages share the thread.  *)
(* The argument is by CallInv: the call that is being made fixes what is   *)
(* in native memory, and the calls that have been made fix what is on the  *)
(* bus.                                                                    *)
(***************************************************************************)
EXTENDS FfiBoundary, GlazeCodec_proofs

-----------------------------------------------------------------------------
(* C strings.                                                              *)

(* A set of numbers that is not empty has a least one.                     *)
LEMMA LeastNumber ==
  ASSUME NEW S \in SUBSET Nat, S # {}
  PROVE  Min(S) \in S /\ \A y \in S : Min(S) <= y
<1>1. \E x \in S : \A y \in S : x <= y
  <2> SUFFICES ASSUME \A x \in S : \E y \in S : y < x
               PROVE  FALSE
    OBVIOUS
  <2> DEFINE T == {n \in Nat : \A m \in 0..n : m \notin S}
  <2>1. 0 \in T
    OBVIOUS
  <2>2. ASSUME NEW n \in Nat, n \in T
        PROVE  n + 1 \in T
    <3>1. n + 1 \notin S
      BY <2>2
    <3>2. \A m \in 0..n : m \notin S
      BY <2>2
    <3>3. \A m \in 0..(n + 1) : m \in 0..n \/ m = n + 1
      OBVIOUS
    <3> QED
      BY <3>1, <3>2, <3>3
  <2> HIDE DEF T
  <2>3. Nat \subseteq T
    BY <2>1, <2>2, NatSetInduction
  <2>4. \A n \in S : n \in Nat /\ n \in T
    BY <2>3
  <2>5. \A n \in S : n \notin S
    BY <2>4 DEF T
  <2> QED
    BY <2>5
<1> QED
  BY <1>1 DEF Min

(* A text that is written with its zero is read back as far as its first.  *)
LEMMA TextSurvives ==
  ASSUME NEW t \in Seq(Chars)
  PROVE  CText(NativeUtf8(t)) = UpToNul(t)
<1> DEFINE block == Append(t, Nul)
           zeros == {i \in 1..Len(block) : block[i] = Nul}
           first == Min(zeros)
           cut == SubSeq(t, 1, first - 1)
           Cut(u) == /\ Nul \notin Range(u)
                     /\ Len(u) < Len(t) => t[Len(u) + 1] = Nul
<1>1. zeros \subseteq Nat /\ Len(t) + 1 \in zeros
  OBVIOUS
<1>2. first \in zeros /\ \A i \in zeros : first <= i
  <2> HIDE DEF zeros
  <2> QED
    BY <1>1, LeastNumber
<1>3. first \in 1..(Len(t) + 1)
  <2>1. first \in Nat /\ first <= Len(t) + 1
    BY <1>1, <1>2
  <2>2. first # 0
    <3>1. 0 \notin zeros
      OBVIOUS
    <3> HIDE DEF zeros
    <3> QED
      BY <1>2, <3>1
  <2> HIDE DEF first
  <2> QED
    BY <2>1, <2>2
<1>4. CText(NativeUtf8(t)) = SubSeq(block, 1, first - 1)
  BY <1>1 DEF CText, NativeUtf8, SelectInSeq
<1> HIDE DEF first
<1>5. SubSeq(block, 1, first - 1) = cut
  <2>1. \A i \in 1..(first - 1) : i \in 1..Len(t) /\ block[i] = t[i]
    BY <1>3
  <2>2. block \in Seq(Chars \cup {Nul}) /\ t \in Seq(Chars \cup {Nul}) /\ Len(block) = Len(t) + 1
    OBVIOUS
  <2> HIDE DEF block
  <2>3. first - 1 \in 0..Len(t)
    BY <1>3
  <2> QED
    BY <2>1, <2>2, <2>3
<1>6. cut \in Prefixes(t) /\ Cut(cut)
  <2>1. Len(cut) = first - 1 /\ \A i \in 1..(first - 1) : cut[i] = t[i]
    BY <1>3
  <2>2. \A i \in 1..(first - 1) : t[i] # Nul
    <3>1. ASSUME NEW i \in 1..(first - 1), t[i] = Nul
          PROVE  FALSE
      <4>1. i \in zeros
        BY <1>3, <3>1
      <4> QED
        BY <1>2, <1>3, <4>1
    <3> QED
      BY <3>1
  <2>3. cut \in Prefixes(t)
    BY <1>3 DEF Prefixes
  <2>4. Nul \notin Range(cut)
    <3>1. DOMAIN cut = 1..(first - 1)
      BY <1>3
    <3> HIDE DEF cut
    <3> QED
      BY <2>1, <2>2, <3>1 DEF Range
  <2>5. Len(cut) < Len(t) => t[Len(cut) + 1] = Nul
    BY <1>2, <1>3, <2>1
  <2> QED
    BY <2>3, <2>4, <2>5
<1>7. ASSUME NEW u \in Prefixes(t), Cut(u)
      PROVE  u = cut
  <2>1. PICK l \in 0..Len(t) : u = SubSeq(t, 1, l)
    BY DEF Prefixes
  <2>2. Len(u) = l /\ \A i \in 1..l : u[i] = t[i]
    BY <2>1
  <2>3. l >= first - 1
    <3> SUFFICES ASSUME l < first - 1
                 PROVE  FALSE
      BY <1>3, <2>1
    <3>1. l + 1 \in zeros
      BY <1>3, <1>7, <2>2
    <3> QED
      BY <1>2, <1>3, <3>1
  <2>4. l <= first - 1
    <3> SUFFICES ASSUME l >= first
                 PROVE  FALSE
      BY <1>3, <2>1
    <3>1. u[first] = Nul /\ first \in DOMAIN u
      BY <1>2, <1>3, <2>1, <2>2
    <3> QED
      BY <1>7, <3>1 DEF Range
  <2> QED
    BY <1>3, <2>1, <2>3, <2>4
<1> HIDE DEF cut
<1>8. UpToNul(t) = cut
  <2>1. UpToNul(t) \in Prefixes(t) /\ Cut(UpToNul(t))
    BY <1>6 DEF UpToNul
  <2> QED
    BY <1>7, <2>1
<1> QED
  BY <1>4, <1>5, <1>8

-----------------------------------------------------------------------------
(* Bit fields.                                                             *)

(* A sequence of numbers that halves itself is what shifting gives.        *)
LEMMA Shifting ==
  ASSUME NEW k \in Nat, NEW h, h[0] \in Nat, \A i \in 1..k : h[i] = h[i - 1] \div 2
  PROVE  HasBit(h[0], k) <=> h[k] % 2 = 1
<1> DEFINE n == h[0]
           IsShifted(f) == f = [i \in 0..k |-> IF i = 0 THEN n ELSE f[i - 1] \div 2]
           shifted == CHOOSE f : IsShifted(f)
           g == [i \in 0..k |-> h[i]]
<1>1. IsShifted(g)
  <2>1. \A i \in 0..k : i # 0 => i \in 1..k /\ i - 1 \in 0..k
    OBVIOUS
  <2> QED
    BY <2>1
<1>2. IsShifted(shifted)
  <2> HIDE DEF g, IsShifted
  <2> QED
    BY <1>1
<1>3. HasBit(n, k) <=> shifted[k] % 2 = 1
  BY DEF HasBit
<1> HIDE DEF shifted
<1> DEFINE S == {i \in Nat : i <= k => shifted[i] = h[i]}
<1>4. 0 \in S
  BY <1>2
<1>5. ASSUME NEW i \in Nat, i \in S
      PROVE  i + 1 \in S
  <2> SUFFICES ASSUME i + 1 <= k
               PROVE  shifted[i + 1] = h[i + 1]
    OBVIOUS
  <2>1. shifted[i + 1] = shifted[i] \div 2
    BY <1>2
  <2>2. h[i + 1] = h[i] \div 2
    <3>1. i + 1 \in 1..k /\ (i + 1) - 1 = i
      OBVIOUS
    <3> QED
      BY <3>1
  <2>3. shifted[i] = h[i]
    BY <1>5
  <2> QED
    BY <2>1, <2>2, <2>3
<1> HIDE DEF S
<1>6. Nat \subseteq S
  BY <1>4, <1>5, NatSetInduction
<1>7. shifted[k] = h[k]
  BY <1>6 DEF S
<1> QED
  BY <1>3, <1>7

(* Bit is the function its recursion describes.                            *)
LEMMA BitRecursion ==
  /\ Bit[0] = 1
  /\ \A k \in 1..30 : Bit[k] = 2 * Bit[k - 1]
<1> DEFINE turn == [p \in Nat \X Nat |-> 2 * p[1]]
           IsBit(f) == f = [k \in 0..30 |-> IF k = 0 THEN 1 ELSE 2 * f[k - 1]]
<1>1. PICK g \in [0..30 -> Nat] : Loop(g, 1, turn, 30)
  <2>1. turn \in [Nat \X Nat -> Nat]
    OBVIOUS
  <2> HIDE DEF turn
  <2> QED
    BY <2>1, LoopExists
<1>2. IsBit(g)
  <2>1. ASSUME NEW k \in 1..30
        PROVE  g[k] = 2 * g[k - 1]
    <3>1. <<g[k - 1], k>> \in Nat \X Nat
      OBVIOUS
    <3>2. turn[<<g[k - 1], k>>] = 2 * g[k - 1]
      BY <3>1
    <3> QED
      BY <1>1, <3>2 DEF Loop
  <2>2. g[0] = 1
    BY <1>1 DEF Loop
  <2> QED
    BY <2>1, <2>2
<1>3. IsBit(Bit)
  <2>1. Bit = CHOOSE f : IsBit(f)
    BY DEF Bit
  <2> HIDE DEF IsBit
  <2> QED
    BY <1>2, <2>1
<1> QED
  BY <1>3

(* No bit is zero.                                                         *)
LEMMA BitType == \A k \in 0..30 : Bit[k] \in Nat \ {0}
<1> DEFINE S == {k \in Nat : k <= 30 => Bit[k] \in Nat \ {0}}
<1>1. 0 \in S
  BY BitRecursion
<1>2. ASSUME NEW k \in Nat, k \in S
      PROVE  k + 1 \in S
  <2> SUFFICES ASSUME k + 1 <= 30
               PROVE  Bit[k + 1] \in Nat \ {0}
    OBVIOUS
  <2>1. Bit[k + 1] = 2 * Bit[k]
    <3>1. k + 1 \in 1..30 /\ (k + 1) - 1 = k
      OBVIOUS
    <3> QED
      BY <3>1, BitRecursion
  <2> QED
    BY <1>2, <2>1
<1> HIDE DEF S
<1>3. Nat \subseteq S
  BY <1>1, <1>2, NatSetInduction
<1> QED
  BY <1>3 DEF S

(* Zero has no bit.                                                        *)
LEMMA BitsOfZero == \A k \in 0..30 : ~HasBit(0, k)
<1> SUFFICES ASSUME NEW k \in 0..30
             PROVE  ~HasBit(0, k)
  OBVIOUS
<1> DEFINE h == [i \in 0..k |-> 0]
<1>1. h[0] = 0 /\ h[k] = 0 /\ \A i \in 1..k : h[i] = h[i - 1] \div 2
  OBVIOUS
<1> HIDE DEF h
<1>2. HasBit(h[0], k) <=> h[k] % 2 = 1
  BY <1>1, Shifting
<1> QED
  BY <1>1, <1>2

(* 1 << m has the bit m and no other.                                      *)
LEMMA BitsOfBit == \A m \in 0..30, j \in 0..30 : HasBit(Bit[m], j) <=> j = m
<1> SUFFICES ASSUME NEW m \in 0..30, NEW j \in 0..30
             PROVE  HasBit(Bit[m], j) <=> j = m
  OBVIOUS
<1> DEFINE h == [i \in 0..j |-> IF i <= m THEN Bit[m - i] ELSE 0]
<1>1. h[0] = Bit[m] /\ Bit[m] \in Nat
  <2>1. m - 0 = m /\ 0 <= m
    OBVIOUS
  <2>2. h[0] = Bit[m - 0]
    OBVIOUS
  <2> HIDE DEF h
  <2> QED
    BY <2>1, <2>2, BitType
<1>2. ASSUME NEW i \in 1..j
      PROVE  h[i] = h[i - 1] \div 2
  <2>1. CASE i <= m
    <3>1. PICK p \in 1..30 : p = m - (i - 1)
      BY <2>1
    <3>2. h[i] = Bit[p - 1] /\ h[i - 1] = Bit[p]
      BY <2>1, <3>1
    <3>3. Bit[p - 1] \in Nat /\ Bit[p] = 2 * Bit[p - 1]
      BY BitType, BitRecursion
    <3> HIDE DEF h
    <3> QED
      BY <3>2, <3>3
  <2>2. CASE i = m + 1
    <3>1. h[i] = 0 /\ h[i - 1] = Bit[0]
      BY <2>2
    <3> HIDE DEF h
    <3> QED
      BY <3>1, BitRecursion
  <2>3. CASE i > m + 1
    <3>1. h[i] = 0 /\ h[i - 1] = 0
      BY <2>3
    <3> HIDE DEF h
    <3> QED
      BY <3>1
  <2> QED
    BY <2>1, <2>2, <2>3
<1>3. h[j] % 2 = 1 <=> j = m
  <2>1. CASE j = m
    <3>1. m - j = 0 /\ h[j] = Bit[m - j]
      BY <2>1
    <3> HIDE DEF h
    <3> QED
      BY <2>1, <3>1, BitRecursion
  <2>2. CASE j < m
    <3>1. PICK p \in 1..30 : p = m - j
      BY <2>2
    <3>2. h[j] = Bit[p]
      BY <2>2, <3>1
    <3>3. Bit[p - 1] \in Nat /\ Bit[p] = 2 * Bit[p - 1]
      BY BitType, BitRecursion
    <3>4. \A x \in Nat : (2 * x) % 2 = 0
      OBVIOUS
    <3> HIDE DEF h
    <3> QED
      BY <2>2, <3>2, <3>3, <3>4
  <2>3. CASE j > m
    <3>1. h[j] = 0
      BY <2>3
    <3> QED
      BY <2>3, <3>1
  <2> QED
    BY <2>1, <2>2, <2>3
<1> HIDE DEF h
<1>4. HasBit(h[0], j) <=> h[j] % 2 = 1
  BY <1>1, <1>2, Shifting
<1> QED
  BY <1>1, <1>3, <1>4

(* a | b has the bits of both.                                             *)
LEMMA BitsOfOr ==
  ASSUME NEW a, NEW b
  PROVE  /\ BitOr(a, b) \in Nat
         /\ \A k \in 0..30 : HasBit(BitOr(a, b), k) <=> HasBit(a, k) \/ HasBit(b, k)
<1> DEFINE Has(k) == IF HasBit(a, k) \/ HasBit(b, k) THEN 1 ELSE 0
<1>0. \A k : Has(k) \in {0, 1} /\ (Has(k) = 1 <=> HasBit(a, k) \/ HasBit(b, k))
  OBVIOUS
<1> DEFINE IsFrom(f) == f = [k \in 0..31 |-> IF k = 31 THEN 0 ELSE Has(k) + 2 * f[k + 1]]
           from == CHOOSE f : IsFrom(f)
<1>1. BitOr(a, b) = from[0]
  BY DEF BitOr
<1> HIDE DEF Has
<1> DEFINE turn == [p \in Nat \X Nat |-> IF p[2] \in 1..31 THEN Has(31 - p[2]) + 2 * p[1] ELSE 0]
<1>2. PICK g \in [0..31 -> Nat] : Loop(g, 0, turn, 31)
  <2>1. turn \in [Nat \X Nat -> Nat]
    BY <1>0
  <2> HIDE DEF turn
  <2> QED
    BY <2>1, LoopExists
<1> DEFINE f == [k \in 0..31 |-> g[31 - k]]
<1>3. f \in [0..31 -> Nat] /\ f[31] = 0
  <2>1. g[0] = 0
    BY <1>2 DEF Loop
  <2>2. \A k \in 0..31 : 31 - k \in 0..31
    OBVIOUS
  <2>3. f[31] = g[0]
    OBVIOUS
  <2> HIDE DEF turn
  <2> QED
    BY <2>1, <2>2, <2>3
<1>4. ASSUME NEW k \in 0..30
      PROVE  f[k] = Has(k) + 2 * f[k + 1]
  <2>1. PICK i \in 1..31 : i = 31 - k
    OBVIOUS
  <2>2. <<g[i - 1], i>> \in Nat \X Nat
    BY <1>2
  <2>3. turn[<<g[i - 1], i>>] = Has(31 - i) + 2 * g[i - 1]
    BY <2>2
  <2>4. g[i] = turn[<<g[i - 1], i>>]
    BY <1>2 DEF Loop
  <2>5. f[k] = g[i] /\ f[k + 1] = g[i - 1] /\ 31 - i = k
    BY <2>1
  <2> QED
    BY <2>3, <2>4, <2>5
<1> HIDE DEF f
<1>5. IsFrom(f)
  BY <1>3, <1>4
<1>6. IsFrom(from)
  <2> HIDE DEF IsFrom
  <2> QED
    BY <1>5
<1> HIDE DEF from
<1>7. from[31] = 0 /\ \A k \in 0..30 : from[k] = Has(k) + 2 * from[k + 1]
  BY <1>6
<1> DEFINE S == {i \in Nat : i <= 31 => from[31 - i] \in Nat}
<1>8. 0 \in S
  BY <1>7
<1>9. ASSUME NEW i \in Nat, i \in S
      PROVE  i + 1 \in S
  <2> SUFFICES ASSUME i + 1 <= 31
               PROVE  from[31 - (i + 1)] \in Nat
    OBVIOUS
  <2>1. PICK k \in 0..30 : k = 31 - (i + 1)
    OBVIOUS
  <2>2. from[k + 1] \in Nat
    BY <1>9, <2>1
  <2>3. from[k] \in Nat
    BY <1>0, <1>7, <2>2
  <2> QED
    BY <2>1, <2>3
<1> HIDE DEF S
<1>10. \A k \in 0..31 : from[k] \in Nat
  <2>1. Nat \subseteq S
    BY <1>8, <1>9, NatSetInduction
  <2>2. \A k \in 0..31 : 31 - k \in S /\ 31 - (31 - k) = k
    BY <2>1
  <2> QED
    BY <2>2 DEF S
<1>11. ASSUME NEW k \in 0..30
       PROVE  HasBit(from[0], k) <=> HasBit(a, k) \/ HasBit(b, k)
  <2>1. ASSUME NEW i \in 1..k
        PROVE  from[i] = from[i - 1] \div 2
    <3>1. PICK p \in 0..30 : p = i - 1
      OBVIOUS
    <3>2. from[p] = Has(p) + 2 * from[p + 1] /\ Has(p) \in {0, 1} /\ from[p + 1] \in Nat
      BY <1>0, <1>7, <1>10
    <3>3. from[p + 1] = from[p] \div 2
      BY <3>2
    <3> QED
      BY <3>1, <3>3
  <2>2. HasBit(from[0], k) <=> from[k] % 2 = 1
    BY <1>10, <2>1, Shifting
  <2>3. from[k] = Has(k) + 2 * from[k + 1] /\ Has(k) \in {0, 1} /\ from[k + 1] \in Nat
    BY <1>0, <1>7, <1>10
  <2>4. from[k] % 2 = 1 <=> Has(k) = 1
    BY <2>3
  <2> QED
    BY <1>0, <2>2, <2>4
<1> QED
  BY <1>1, <1>10, <1>11

(* A bit field that is combined has the bits of its values and no others.  *)
LEMMA BitsOfCombine ==
  ASSUME NEW values \in Seq(Nat)
  PROVE  /\ Combine(values) \in Nat
         /\ \A k \in 0..30 :
              HasBit(Combine(values), k) <=> \E i \in 1..Len(values) : HasBit(values[i], k)
<1> DEFINE N == Len(values)
           turn == [p \in Nat \X Nat |-> IF p[2] \in 1..N THEN BitOr(p[1], values[p[2]]) ELSE 0]
           IsAcc(f) == f = [i \in 0..N |-> IF i = 0 THEN 0 ELSE BitOr(f[i - 1], values[i])]
           acc == CHOOSE f : IsAcc(f)
<1>1. Combine(values) = acc[N]
  BY DEF Combine
<1>2. N \in Nat
  OBVIOUS
<1>3. PICK g \in [0..N -> Nat] : Loop(g, 0, turn, N)
  <2>1. turn \in [Nat \X Nat -> Nat]
    BY BitsOfOr
  <2> HIDE DEF turn, N
  <2> QED
    BY <1>2, <2>1, LoopExists
<1>4. \A i \in 1..N : g[i] = BitOr(g[i - 1], values[i])
  <2> SUFFICES ASSUME NEW i \in 1..N
               PROVE  g[i] = BitOr(g[i - 1], values[i])
    OBVIOUS
  <2> HIDE DEF N
  <2>1. i - 1 \in 0..N /\ i \in Nat
    BY <1>2
  <2>2. <<g[i - 1], i>> \in Nat \X Nat
    BY <1>3, <2>1
  <2>3. turn[<<g[i - 1], i>>] = BitOr(g[i - 1], values[i])
    BY <2>2
  <2>4. g[i] = turn[<<g[i - 1], i>>]
    BY <1>3 DEF Loop
  <2> QED
    BY <2>3, <2>4
<1> HIDE DEF N
<1>5. IsAcc(g)
  BY <1>2, <1>3, <1>4 DEF Loop
<1>6. IsAcc(acc)
  <2> HIDE DEF IsAcc
  <2> QED
    BY <1>5
<1> HIDE DEF acc
<1> DEFINE Bits(i) == \A k \in 0..30 : HasBit(acc[i], k) <=> \E j \in 1..i : HasBit(values[j], k)
           S == {i \in Nat : i <= N => acc[i] \in Nat /\ Bits(i)}
<1>7. 0 \in S
  <2>1. acc[0] = 0
    BY <1>2, <1>6
  <2>2. \A j : j \notin 1..0
    OBVIOUS
  <2>3. Bits(0)
    BY <2>1, <2>2, BitsOfZero
  <2> HIDE DEF Bits
  <2> QED
    BY <2>1, <2>3
<1>8. ASSUME NEW i \in Nat, i \in S
      PROVE  i + 1 \in S
  <2> SUFFICES ASSUME i + 1 <= N
               PROVE  acc[i + 1] \in Nat /\ Bits(i + 1)
    OBVIOUS
  <2>1. acc[i + 1] = BitOr(acc[i], values[i + 1])
    BY <1>2, <1>6
  <2>2. Bits(i)
    <3> HIDE DEF Bits
    <3> QED
      BY <1>2, <1>8
  <2>3. acc[i + 1] \in Nat
    BY <2>1, BitsOfOr
  <2>4. ASSUME NEW k \in 0..30
        PROVE  HasBit(acc[i + 1], k) <=> \E j \in 1..(i + 1) : HasBit(values[j], k)
    <3>1. HasBit(acc[i + 1], k) <=> HasBit(acc[i], k) \/ HasBit(values[i + 1], k)
      BY <2>1, BitsOfOr
    <3>2. \A j : j \in 1..(i + 1) <=> j \in 1..i \/ j = i + 1
      OBVIOUS
    <3> QED
      BY <2>2, <3>1, <3>2
  <2> QED
    BY <2>3, <2>4
<1> HIDE DEF S
<1>9. N \in S
  BY <1>2, <1>7, <1>8, NatSetInduction
<1>10. acc[N] \in Nat /\ Bits(N)
  <2> HIDE DEF Bits
  <2> QED
    BY <1>2, <1>9 DEF S
<1> QED
  BY <1>1, <1>10 DEF N

(* A sequence over a set is one over any larger set.                       *)
LEMMA SubSequences ==
  ASSUME NEW S, NEW T, S \subseteq T, NEW s \in Seq(S)
  PROVE  s \in Seq(T)
<1>1. Len(s) \in Nat /\ s \in [1..Len(s) -> S]
  OBVIOUS
<1>2. s \in [1..Len(s) -> T]
  BY <1>1
<1> QED
  BY <1>1, <1>2

(* The values of one bit.                                                  *)
AllBits == {Bit[k] : k \in 0..30}

(* PkFilter.combine and PkTransactionFlag.combine: what the daemon reads   *)
(* in the field is what was listed.                                        *)
LEMMA CombineArrives ==
  ASSUME NEW values \in Seq({0} \cup AllBits)
  PROVE  BitValues(Combine(values)) = Range(values) \ {0}
<1> DEFINE numbers == {0} \cup AllBits
<1>0. /\ numbers \subseteq Nat
      /\ \A v \in numbers : v = 0 \/ \E m \in 0..30 : v = Bit[m]
  <2>1. \A v \in AllBits : \E m \in 0..30 : v = Bit[m]
    BY DEF AllBits
  <2> HIDE DEF AllBits
  <2>2. AllBits \subseteq Nat
    BY <2>1, BitType
  <2>3. numbers \subseteq Nat
    BY <2>2
  <2>4. \A v \in numbers : v = 0 \/ v \in AllBits
    OBVIOUS
  <2> HIDE DEF numbers
  <2> QED
    BY <2>1, <2>3, <2>4
<1> HIDE DEF numbers
<1>1. values \in Seq(numbers)
  BY DEF numbers
<1>2. /\ values \in Seq(Nat)
      /\ \A i \in DOMAIN values : values[i] = 0 \/ \E m \in 0..30 : values[i] = Bit[m]
  <2>1. \A i \in DOMAIN values : values[i] \in numbers
    BY <1>1
  <2>2. values \in Seq(Nat)
    <3>1. numbers \subseteq Nat
      BY <1>0
    <3> QED
      BY <1>1, <3>1, SubSequences
  <2> QED
    BY <1>0, <2>1, <2>2
<1>3. DOMAIN values = 1..Len(values)
  OBVIOUS
<1>4. ASSUME NEW k \in 0..30
      PROVE  HasBit(Combine(values), k) <=> \E i \in DOMAIN values : values[i] = Bit[k]
  <2>1. HasBit(Combine(values), k) <=> \E i \in DOMAIN values : HasBit(values[i], k)
    BY <1>2, <1>3, BitsOfCombine
  <2>2. \A i \in DOMAIN values : HasBit(values[i], k) <=> values[i] = Bit[k]
    <3> SUFFICES ASSUME NEW i \in DOMAIN values
                 PROVE  HasBit(values[i], k) <=> values[i] = Bit[k]
      OBVIOUS
    <3>1. CASE values[i] = 0
      BY <3>1, BitsOfZero, BitType
    <3>2. ASSUME NEW m \in 0..30, values[i] = Bit[m]
          PROVE  HasBit(values[i], k) <=> values[i] = Bit[k]
      <4>1. HasBit(Bit[m], k) <=> k = m
        BY BitsOfBit
      <4>2. Bit[m] = Bit[k] => k = m
        BY BitsOfBit
      <4> QED
        BY <3>2, <4>1, <4>2
    <3> QED
      BY <1>2, <3>1, <3>2
  <2> QED
    BY <2>1, <2>2, Zenon
<1>5. BitValues(Combine(values)) \subseteq Range(values) \ {0}
  BY <1>4, BitType DEF BitValues, Range
<1>6. Range(values) \ {0} \subseteq BitValues(Combine(values))
  <2> SUFFICES ASSUME NEW v \in Range(values), v # 0
               PROVE  v \in BitValues(Combine(values))
    OBVIOUS
  <2>1. PICK i \in DOMAIN values : v = values[i]
    BY DEF Range
  <2>2. PICK m \in 0..30 : v = Bit[m]
    BY <1>2, <2>1
  <2>3. HasBit(Combine(values), m)
    BY <1>4, <2>1, <2>2
  <2> QED
    BY <2>2, <2>3 DEF BitValues
<1> QED
  BY <1>5, <1>6

-----------------------------------------------------------------------------
(* The four tables of names.                                               *)

(* The method an operation calls.                                          *)
MethodOf(op) == IF op \in DOMAIN Simulations THEN Simulations[op] ELSE op

(* A name of the operation and the bridge's at its position.               *)
Meets(op, name, param) ==
  /\ name = "texts" => param \in ArrayParams
  /\ name = "text" => param \in (IF op \in Searches THEN ArrayParams ELSE TextParams)
  /\ name \notin {"text", "texts"} => param \notin ArrayParams \cup TextParams

(* The operation's table and the bridge's agree on each position: a list   *)
(* of texts meets an array, a text meets a text (or, for a search, the     *)
(* array of the one text), and anything else is passed as it is; and the   *)
(* interface of the daemon has the operation's names in their order.       *)
LEMMA TablesAgree ==
  ASSUME NEW op \in Operations
  PROVE  /\ MethodOf(op) \in Methods
         /\ Interface[MethodOf(op)] = Passes[op]
         /\ DOMAIN BridgeParams[MethodOf(op)] = DOMAIN Passes[op]
         /\ \A k \in DOMAIN Passes[op] : Meets(op, Passes[op][k], BridgeParams[MethodOf(op)][k])
<1> USE DEF MethodOf, Methods, Operations, Searches, Lists, Resolutions, Lookups, Relations,
            Changes, Simulations, Others
<1>1. MethodOf(op) \in Methods
  OBVIOUS
<1>2. Interface[MethodOf(op)] = Passes[op]
  BY DEF Interface, Passes
<1>3. DOMAIN BridgeParams[MethodOf(op)] = DOMAIN Passes[op]
  BY DEF BridgeParams, Passes
<1>4. ASSUME NEW k \in DOMAIN Passes[op]
      PROVE  Meets(op, Passes[op][k], BridgeParams[MethodOf(op)][k])
  <2>1. CASE op \in Searches
    <3>1. Passes[op] = <<"filters", "text">>
      BY <2>1 DEF Passes
    <3>2. BridgeParams[MethodOf(op)] = <<"filter", "values">>
      BY <2>1 DEF BridgeParams
    <3> QED
      BY <2>1, <3>1, <3>2 DEF Meets, ArrayParams, TextParams
  <2>2. CASE op \in Lists
    <3>1. Passes[op] = <<"filters">>
      BY <2>2 DEF Passes
    <3>2. BridgeParams[MethodOf(op)] = <<"filter">>
      BY <2>2 DEF BridgeParams
    <3> QED
      BY <2>2, <3>1, <3>2 DEF Meets, ArrayParams, TextParams
  <2>3. CASE op \in {"resolve"}
    <3>1. Passes[op] = <<"filters", "texts">>
      BY <2>3 DEF Passes
    <3>2. BridgeParams[MethodOf(op)] = <<"filter", "ids">>
      BY <2>3 DEF BridgeParams
    <3> QED
      BY <2>3, <3>1, <3>2 DEF Meets, ArrayParams, TextParams
  <2>4. CASE op \in {"whatProvides"}
    <3>1. Passes[op] = <<"filters", "texts">>
      BY <2>4 DEF Passes
    <3>2. BridgeParams[MethodOf(op)] = <<"filter", "values">>
      BY <2>4 DEF BridgeParams
    <3> QED
      BY <2>4, <3>1, <3>2 DEF Meets, ArrayParams, TextParams
  <2>5. CASE op \in Lookups
    <3>1. Passes[op] = <<"texts">>
      BY <2>5 DEF Passes
    <3>2. BridgeParams[MethodOf(op)] = <<"ids">>
      BY <2>5 DEF BridgeParams
    <3> QED
      BY <2>5, <3>1, <3>2 DEF Meets, ArrayParams, TextParams
  <2>6. CASE op \in Relations
    <3>1. Passes[op] = <<"filters", "texts", "recursive">>
      BY <2>6 DEF Passes
    <3>2. BridgeParams[MethodOf(op)] = <<"filter", "ids", "recursive">>
      BY <2>6 DEF BridgeParams
    <3> QED
      BY <2>6, <3>1, <3>2 DEF Meets, ArrayParams, TextParams
  <2>7. CASE op \in {"installPackages", "updatePackages", "simulateInstall", "simulateUpdate"}
    <3>1. Passes[op] = <<"flags", "texts">>
      BY <2>7 DEF Passes
    <3>2. BridgeParams[MethodOf(op)] = <<"flags", "ids">>
      BY <2>7 DEF BridgeParams
    <3> QED
      BY <2>7, <3>1, <3>2 DEF Meets, ArrayParams, TextParams
  <2>8. CASE op \in {"installFiles"}
    <3>1. Passes[op] = <<"flags", "texts">>
      BY <2>8 DEF Passes
    <3>2. BridgeParams[MethodOf(op)] = <<"flags", "paths">>
      BY <2>8 DEF BridgeParams
    <3> QED
      BY <2>8, <3>1, <3>2 DEF Meets, ArrayParams, TextParams
  <2>9. CASE op \in {"removePackages", "simulateRemove"}
    <3>1. Passes[op] = <<"flags", "texts", "allowDeps", "autoremove">>
      BY <2>9 DEF Passes
    <3>2. BridgeParams[MethodOf(op)] = <<"flags", "ids", "allow_deps", "autoremove">>
      BY <2>9 DEF BridgeParams
    <3> QED
      BY <2>9, <3>1, <3>2 DEF Meets, ArrayParams, TextParams
  <2>10. CASE op \in {"getDistroUpgrades"}
    <3>1. Passes[op] = <<>>
      BY <2>10 DEF Passes
    <3>2. BridgeParams[MethodOf(op)] = <<>>
      BY <2>10 DEF BridgeParams
    <3> QED
      BY <2>10, <3>1, <3>2 DEF Meets, ArrayParams, TextParams
  <2>11. CASE op \in {"refreshCache"}
    <3>1. Passes[op] = <<"force">>
      BY <2>11 DEF Passes
    <3>2. BridgeParams[MethodOf(op)] = <<"force">>
      BY <2>11 DEF BridgeParams
    <3> QED
      BY <2>11, <3>1, <3>2 DEF Meets, ArrayParams, TextParams
  <2>12. CASE op \in {"downloadPackages"}
    <3>1. Passes[op] = <<"storeInCache", "texts">>
      BY <2>12 DEF Passes
    <3>2. BridgeParams[MethodOf(op)] = <<"store_in_cache", "ids">>
      BY <2>12 DEF BridgeParams
    <3> QED
      BY <2>12, <3>1, <3>2 DEF Meets, ArrayParams, TextParams
  <2>13. CASE op \in {"repoEnable"}
    <3>1. Passes[op] = <<"text", "enabled">>
      BY <2>13 DEF Passes
    <3>2. BridgeParams[MethodOf(op)] = <<"repo_id", "enabled">>
      BY <2>13 DEF BridgeParams
    <3> QED
      BY <2>13, <3>1, <3>2 DEF Meets, ArrayParams, TextParams
  <2>14. CASE op \in {"acceptEula"}
    <3>1. Passes[op] = <<"text">>
      BY <2>14 DEF Passes
    <3>2. BridgeParams[MethodOf(op)] = <<"eula_id">>
      BY <2>14 DEF BridgeParams
    <3> QED
      BY <2>14, <3>1, <3>2 DEF Meets, ArrayParams, TextParams
  <2> QED
    BY <2>1, <2>2, <2>3, <2>4, <2>5, <2>6, <2>7, <2>8, <2>9, <2>10, <2>11, <2>12, <2>13, <2>14
<1> QED
  BY <1>1, <1>2, <1>3, <1>4

(* No function of the bridge names two parameters alike, and none has two  *)
(* arrays, or an array and a text.                                         *)
LEMMA ParamsAreDistinct ==
  ASSUME NEW fn \in DOMAIN BridgeParams, NEW i \in DOMAIN BridgeParams[fn],
         NEW j \in DOMAIN BridgeParams[fn]
  PROVE  /\ BridgeParams[fn][i] = BridgeParams[fn][j] => i = j
         /\ BridgeParams[fn][i] \in ArrayParams /\ BridgeParams[fn][j] \in ArrayParams \cup TextParams
              => i = j
<1> USE DEF BridgeParams, Methods, Searches, Lists, Resolutions, Lookups, Relations, Changes,
            Others, ArrayParams, TextParams
<1>1. BridgeParams[fn][i] = BridgeParams[fn][j] => i = j
  OBVIOUS
<1>2. BridgeParams[fn][i] \in ArrayParams /\ BridgeParams[fn][j] \in ArrayParams \cup TextParams
        => i = j
  OBVIOUS
<1> QED
  BY <1>1, <1>2

(* The parameters p in the order of the names.                             *)
Picked(p, names) == [k \in DOMAIN names |-> p[names[k]]]

(* Picked takes the fields of a short list of names in its order.          *)
LEMMA PickedTuples ==
  ASSUME NEW p
  PROVE  /\ Picked(p, <<>>) = <<>>
         /\ \A a : Picked(p, <<a>>) = <<p[a]>>
         /\ \A a, b : Picked(p, <<a, b>>) = <<p[a], p[b]>>
         /\ \A a, b, c : Picked(p, <<a, b, c>>) = <<p[a], p[b], p[c]>>
         /\ \A a, b, c, d : Picked(p, <<a, b, c, d>>) = <<p[a], p[b], p[c], p[d]>>
BY DEF Picked

(* Every method of PkTransactionBridge puts its parameters into the        *)
(* message in the order of its signature in pk_bridge.h.                   *)
LEMMA ArgumentsInOrder ==
  ASSUME NEW p
  PROVE  \A fn \in Methods : WithArguments(fn, p) = Picked(p, BridgeParams[fn])
<1> DEFINE Ordered(fn) == WithArguments(fn, p) = Picked(p, BridgeParams[fn])
<1> USE DEF Methods, Searches, Lists, Resolutions, Lookups, Relations, Changes, Others
<1>1. ASSUME NEW fn \in Searches \cup {"whatProvides"}
      PROVE  Ordered(fn)
  <2>1. BridgeParams[fn] = <<"filter", "values">>
    BY DEF BridgeParams
  <2>2. WithArguments(fn, p) = <<p["filter"], p["values"]>>
    BY DEF WithArguments
  <2> QED
    BY <2>1, <2>2, PickedTuples
<1>2. ASSUME NEW fn \in Lists
      PROVE  Ordered(fn)
  <2>1. BridgeParams[fn] = <<"filter">>
    BY DEF BridgeParams
  <2>2. WithArguments(fn, p) = <<p["filter"]>>
    BY DEF WithArguments
  <2> QED
    BY <2>1, <2>2, PickedTuples
<1>3. ASSUME NEW fn \in {"resolve"}
      PROVE  Ordered(fn)
  <2>1. BridgeParams[fn] = <<"filter", "ids">>
    BY DEF BridgeParams
  <2>2. WithArguments(fn, p) = <<p["filter"], p["ids"]>>
    BY DEF WithArguments
  <2> QED
    BY <2>1, <2>2, PickedTuples
<1>4. ASSUME NEW fn \in Lookups
      PROVE  Ordered(fn)
  <2>1. BridgeParams[fn] = <<"ids">>
    BY DEF BridgeParams
  <2>2. WithArguments(fn, p) = <<p["ids"]>>
    BY DEF WithArguments
  <2> QED
    BY <2>1, <2>2, PickedTuples
<1>5. ASSUME NEW fn \in Relations
      PROVE  Ordered(fn)
  <2>1. BridgeParams[fn] = <<"filter", "ids", "recursive">>
    BY DEF BridgeParams
  <2>2. WithArguments(fn, p) = <<p["filter"], p["ids"], p["recursive"]>>
    BY DEF WithArguments
  <2> QED
    BY <2>1, <2>2, PickedTuples
<1>6. ASSUME NEW fn \in {"installPackages", "updatePackages"}
      PROVE  Ordered(fn)
  <2>1. BridgeParams[fn] = <<"flags", "ids">>
    BY DEF BridgeParams
  <2>2. WithArguments(fn, p) = <<p["flags"], p["ids"]>>
    BY DEF WithArguments
  <2> QED
    BY <2>1, <2>2, PickedTuples
<1>7. ASSUME NEW fn \in {"installFiles"}
      PROVE  Ordered(fn)
  <2>1. BridgeParams[fn] = <<"flags", "paths">>
    BY DEF BridgeParams
  <2>2. WithArguments(fn, p) = <<p["flags"], p["paths"]>>
    BY DEF WithArguments
  <2> QED
    BY <2>1, <2>2, PickedTuples
<1>8. ASSUME NEW fn \in {"removePackages"}
      PROVE  Ordered(fn)
  <2>1. BridgeParams[fn] = <<"flags", "ids", "allow_deps", "autoremove">>
    BY DEF BridgeParams
  <2>2. WithArguments(fn, p) = <<p["flags"], p["ids"], p["allow_deps"], p["autoremove"]>>
    BY DEF WithArguments
  <2> QED
    BY <2>1, <2>2, PickedTuples
<1>9. ASSUME NEW fn \in {"getDistroUpgrades"}
      PROVE  Ordered(fn)
  <2>1. BridgeParams[fn] = <<>>
    BY DEF BridgeParams
  <2>2. WithArguments(fn, p) = <<>>
    BY DEF WithArguments
  <2> QED
    BY <2>1, <2>2, PickedTuples
<1>10. ASSUME NEW fn \in {"refreshCache"}
      PROVE  Ordered(fn)
  <2>1. BridgeParams[fn] = <<"force">>
    BY DEF BridgeParams
  <2>2. WithArguments(fn, p) = <<p["force"]>>
    BY DEF WithArguments
  <2> QED
    BY <2>1, <2>2, PickedTuples
<1>11. ASSUME NEW fn \in {"downloadPackages"}
      PROVE  Ordered(fn)
  <2>1. BridgeParams[fn] = <<"store_in_cache", "ids">>
    BY DEF BridgeParams
  <2>2. WithArguments(fn, p) = <<p["store_in_cache"], p["ids"]>>
    BY DEF WithArguments
  <2> QED
    BY <2>1, <2>2, PickedTuples
<1>12. ASSUME NEW fn \in {"repoEnable"}
      PROVE  Ordered(fn)
  <2>1. BridgeParams[fn] = <<"repo_id", "enabled">>
    BY DEF BridgeParams
  <2>2. WithArguments(fn, p) = <<p["repo_id"], p["enabled"]>>
    BY DEF WithArguments
  <2> QED
    BY <2>1, <2>2, PickedTuples
<1>13. ASSUME NEW fn \in {"acceptEula"}
      PROVE  Ordered(fn)
  <2>1. BridgeParams[fn] = <<"eula_id">>
    BY DEF BridgeParams
  <2>2. WithArguments(fn, p) = <<p["eula_id"]>>
    BY DEF WithArguments
  <2> QED
    BY <2>1, <2>2, PickedTuples
<1> QED
  BY <1>1, <1>2, <1>3, <1>4, <1>5, <1>6, <1>7, <1>8, <1>9, <1>10, <1>11, <1>12, <1>13 DEF Resolutions

-----------------------------------------------------------------------------
(* One call of PkBindings, in terms of what it is called with.             *)

(* An array where the bridge expects one, and a text where it does.        *)
WellPassed(m) ==
  /\ m.fn \in DOMAIN BridgeParams
  /\ \A k \in DOMAIN BridgeParams[m.fn] :
       /\ BridgeParams[m.fn][k] \in ArrayParams => m.passed[k] \in Seq(Seq(Chars))
       /\ BridgeParams[m.fn][k] \in TextParams => m.passed[k] \in Seq(Chars)

(* The native memory during the call.                                      *)
HeapOf(m) ==
  IF Pointers(m.fn, ArrayParams) # {}
  THEN StringArray(m.passed[CHOOSE k \in Pointers(m.fn, ArrayParams) : TRUE])
  ELSE [k \in Pointers(m.fn, TextParams) |-> NativeUtf8(m.passed[k])]

(* What the k-th parameter is bound to.                                    *)
Bound(m, k) ==
  IF BridgeParams[m.fn][k] \in ArrayParams
  THEN [i \in DOMAIN m.passed[k] |-> UpToNul(m.passed[k][i])]
  ELSE IF BridgeParams[m.fn][k] \in TextParams THEN UpToNul(m.passed[k])
  ELSE m.passed[k]

ParamsOf(m) ==
  [name \in Range(BridgeParams[m.fn]) |->
     Bound(m, Position(m.fn, name))]

(* The message of a call.                                                  *)
Sent(m) == [fn |-> m.fn, arguments |-> WithArguments(m.fn, ParamsOf(m))]

(* A function with an array has that array in native memory.               *)
LEMMA HeapOfArray ==
  ASSUME NEW m, WellPassed(m), NEW k \in DOMAIN BridgeParams[m.fn],
         BridgeParams[m.fn][k] \in ArrayParams
  PROVE  HeapOf(m) = StringArray(m.passed[k]) /\ m.passed[k] \in Seq(Seq(Chars))
<1>1. Pointers(m.fn, ArrayParams) = {k}
  BY ParamsAreDistinct DEF Pointers, WellPassed
<1> QED
  BY <1>1 DEF HeapOf, WellPassed

(* A function with a text has it in native memory.                         *)
LEMMA HeapOfText ==
  ASSUME NEW m, WellPassed(m), NEW k \in DOMAIN BridgeParams[m.fn],
         BridgeParams[m.fn][k] \in TextParams
  PROVE  k \in DOMAIN HeapOf(m) /\ HeapOf(m)[k] = NativeUtf8(m.passed[k])
<1>1. Pointers(m.fn, ArrayParams) = {}
  <2>1. BridgeParams[m.fn][k] \notin ArrayParams
    BY DEF ArrayParams, TextParams
  <2> QED
    BY <2>1, ParamsAreDistinct DEF Pointers, WellPassed
<1>2. k \in Pointers(m.fn, TextParams)
  BY DEF Pointers
<1> QED
  BY <1>1, <1>2 DEF HeapOf

(* _freeStringArray frees the texts, the array and nothing twice.          *)
LEMMA AllIsFreed ==
  ASSUME NEW m, WellPassed(m), Fn = m.fn, heap = HeapOf(m)
  PROVE  DOMAIN heap \ FreedBlocks = {}
<1>1. ASSUME NEW k \in Pointers(m.fn, ArrayParams)
      PROVE  DOMAIN heap \ FreedBlocks = {}
  <2> DEFINE texts == m.passed[k]
  <2>1. heap = StringArray(texts) /\ texts \in Seq(Seq(Chars))
    BY <1>1, HeapOfArray DEF Pointers
  <2> HIDE DEF texts
  <2>2. DOMAIN heap = 0..Len(texts) /\ heap[0] = [i \in DOMAIN texts |-> i]
    BY <2>1 DEF StringArray
  <2>3. Range(heap[0]) = 1..Len(texts)
    BY <2>1, <2>2 DEF Range
  <2>4. FreedBlocks = Range(heap[0]) \cup {0}
    BY <1>1 DEF FreedBlocks
  <2> QED
    BY <2>1, <2>2, <2>3, <2>4
<1>2. CASE Pointers(m.fn, ArrayParams) = {}
  BY <1>2 DEF HeapOf, FreedBlocks
<1> QED
  BY <1>1, <1>2

(* The copies that to_vec and std::string make are the texts that were     *)
(* passed, since nothing has been freed yet.                               *)
LEMMA CopyBinds ==
  ASSUME NEW m, WellPassed(m), todo # <<>>, Head(todo) = m, heap = HeapOf(m), Copy
  PROVE  params' = ParamsOf(m)
<1> DEFINE names == BridgeParams[m.fn]
           Copied(name) == IF name \in ArrayParams THEN ToVec
                           ELSE IF name \in TextParams THEN ReadText(Position(m.fn, name))
                           ELSE m.passed[Position(m.fn, name)]
<1>1. params' = [name \in Range(names) |-> Copied(name)]
  <2>1. Fn = m.fn
    BY DEF Fn
  <2> QED
    BY <2>1 DEF Copy
<1>2. ASSUME NEW name \in Range(names)
      PROVE  Copied(name) = Bound(m, Position(m.fn, name))
  <2> DEFINE k == Position(m.fn, name)
  <2>1. k \in DOMAIN names /\ names[k] = name
    BY DEF Range, Position
  <2> HIDE DEF k
  <2>2. CASE name \in ArrayParams
    <3> DEFINE texts == m.passed[k]
    <3>1. heap = StringArray(texts) /\ texts \in Seq(Seq(Chars))
      BY <2>1, <2>2, HeapOfArray
    <3> HIDE DEF texts
    <3>2. /\ DOMAIN heap = 0..Len(texts)
          /\ heap[0] = [i \in DOMAIN texts |-> i]
          /\ \A i \in DOMAIN texts : heap[i] = NativeUtf8(texts[i])
      BY <3>1 DEF StringArray
    <3>3. \A i \in DOMAIN texts : ReadText(i) = UpToNul(texts[i])
      BY <3>1, <3>2, TextSurvives DEF ReadText
    <3>4. ToVec = [i \in DOMAIN texts |-> UpToNul(texts[i])]
      BY <3>1, <3>2, <3>3 DEF ToVec
    <3> QED
      BY <2>1, <2>2, <3>4 DEF Bound, texts, k
  <2>3. CASE name \in TextParams
    <3>1. ReadText(k) = UpToNul(m.passed[k])
      BY <2>1, <2>3, HeapOfText, TextSurvives DEF ReadText, WellPassed
    <3>2. name \notin ArrayParams
      BY <2>3 DEF ArrayParams, TextParams
    <3> QED
      BY <2>1, <2>3, <3>1, <3>2 DEF Bound, k
  <2>4. CASE name \notin ArrayParams \cup TextParams
    BY <2>1, <2>4 DEF Bound, k
  <2> QED
    BY <2>2, <2>3, <2>4
<1> HIDE DEF Copied
<1> QED
  BY <1>1, <1>2 DEF ParamsOf

(* What reaches the bus is in the order of the bridge's parameters.        *)
LEMMA SentInOrder ==
  ASSUME NEW m, WellPassed(m), m.fn \in Methods
  PROVE  Sent(m).arguments = [k \in DOMAIN BridgeParams[m.fn] |-> Bound(m, k)]
<1> DEFINE names == BridgeParams[m.fn]
<1>1. ASSUME NEW k \in DOMAIN names
      PROVE  ParamsOf(m)[names[k]] = Bound(m, k)
  <2>1. names[k] \in Range(names)
    BY DEF Range
  <2>2. Position(m.fn, names[k]) = k
    BY ParamsAreDistinct DEF WellPassed, Position
  <2> QED
    BY <2>1, <2>2 DEF ParamsOf
<1>2. Sent(m).arguments = Picked(ParamsOf(m), names)
  BY ArgumentsInOrder DEF Sent
<1> HIDE DEF names
<1>3. Picked(ParamsOf(m), names) = [k \in DOMAIN names |-> Bound(m, k)]
  BY <1>1 DEF Picked
<1> QED
  BY <1>2, <1>3 DEF names

-----------------------------------------------------------------------------
(* The strengthening.  A caller passes texts; what is left to call, where  *)
(* the thread is, and what is in native memory and on the bus go together. *)

(* The arguments the operation takes are of the types of its signature.    *)
CallTyped ==
  /\ call.op \in Operations
  /\ \A k \in DOMAIN Passes[call.op] :
       /\ Passes[call.op][k] = "text" => call.args.text \in Seq(Chars)
       /\ Passes[call.op][k] = "texts" => call.args.texts \in Seq(Seq(Chars))
       /\ Passes[call.op][k] = "filters" => call.args.filters \in Seq(PkFilter)
       /\ Passes[call.op][k] = "flags" => call.args.flags \in Seq(PkTransactionFlag)

(* setHints has been called.                                               *)
Hinted(h) ==
  \/ bus = <<Sent(h)>>
  \/ bus = <<>> /\ "setHints" \in refused

(* So has the method.                                                      *)
Called(h, m) ==
  \/ bus = <<Sent(h), Sent(m)>>
  \/ bus = <<Sent(m)>> /\ "setHints" \in refused

(* What has been sent, by what is left to call.                            *)
Progress(h, m) ==
  \/ todo = <<h, m>> /\ IF step = "returned" THEN Hinted(h) ELSE bus = <<>>
  \/ todo = <<m>> /\ (Hinted(h) \/ (step = "returned" /\ Called(h, m)))
  \/ todo = <<>> /\ step = "dart" /\ (Hinted(h) \/ Called(h, m))

(* The inductive invariant.                                                *)
CallInv ==
  /\ CallTyped
  /\ step \in {"dart", "native", "calling", "returned"}
  /\ Progress(Hints(call), Method(call))
  /\ step = "dart" => DOMAIN heap = {}
  /\ step # "dart" => heap = HeapOf(Head(todo))
  /\ step = "calling" => params = ParamsOf(Head(todo))

(* setHints is called with a text where it expects one.                    *)
LEMMA HintsWellPassed == WellPassed(Hints(call)) /\ Hints(call).fn = "setHints"
<1>1. BridgeParams["setHints"] = <<"locale", "interactive">> /\ "setHints" \in DOMAIN BridgeParams
  BY DEF BridgeParams, Methods, Searches, Lists, Resolutions, Lookups, Relations, Changes, Others
<1>2. Locale \in Seq(Chars)
  BY CallAssumption
<1> QED
  BY <1>1, <1>2 DEF WellPassed, Hints, ArrayParams, TextParams

(* The message of setHints has the locale whole.                           *)
LEMMA SentHints ==
  Sent(Hints(call)) = [fn |-> "setHints", arguments |-> <<BuildHints(Locale, call.interactive)>>]
<1> DEFINE h == Hints(call)
           names == <<"locale", "interactive">>
<1>1. BridgeParams["setHints"] = names
  BY DEF BridgeParams, Methods, Searches, Lists, Resolutions, Lookups, Relations, Changes, Others
<1>2. h.fn = "setHints" /\ h.passed = <<Locale, call.interactive>>
  BY DEF Hints
<1> HIDE DEF h
<1>3. Position("setHints", "locale") = 1 /\ Position("setHints", "interactive") = 2
  BY <1>1 DEF Position
<1>4. UpToNul(Locale) = Locale
  <2>1. Locale \in Seq(Chars \ {Nul})
    BY CallAssumption
  <2>2. ASSUME NEW u \in Prefixes(Locale), Len(u) < Len(Locale) => Locale[Len(u) + 1] = Nul
        PROVE  u = Locale
    <3>1. PICK l \in 0..Len(Locale) : u = SubSeq(Locale, 1, l)
      BY DEF Prefixes
    <3>2. Len(u) = l
      BY <2>1, <3>1
    <3>3. l = Len(Locale)
      BY <2>1, <2>2, <3>2
    <3> QED
      BY <2>1, <3>1, <3>3
  <2>3. Locale \in Prefixes(Locale) /\ Nul \notin Range(Locale)
    <3>1. Locale = SubSeq(Locale, 1, Len(Locale)) /\ Len(Locale) \in 0..Len(Locale)
      BY <2>1
    <3>2. Locale \in Prefixes(Locale)
      BY <3>1 DEF Prefixes
    <3>3. \A i \in DOMAIN Locale : Locale[i] # Nul
      BY <2>1
    <3> QED
      BY <3>2, <3>3 DEF Range
  <2>4. /\ UpToNul(Locale) \in Prefixes(Locale)
        /\ Len(UpToNul(Locale)) < Len(Locale) => Locale[Len(UpToNul(Locale)) + 1] = Nul
    BY <2>3 DEF UpToNul
  <2> QED
    BY <2>2, <2>4
<1>5. Bound(h, 1) = Locale /\ Bound(h, 2) = call.interactive
  BY <1>1, <1>2, <1>4 DEF Bound, ArrayParams, TextParams
<1>6. ParamsOf(h)["locale"] = Locale /\ ParamsOf(h)["interactive"] = call.interactive
  <2>1. "locale" \in Range(BridgeParams["setHints"]) /\ "interactive" \in Range(BridgeParams["setHints"])
    BY <1>1 DEF Range
  <2> QED
    BY <1>2, <1>3, <1>5, <2>1 DEF ParamsOf
<1>7. WithArguments("setHints", ParamsOf(h)) = <<BuildHints(Locale, call.interactive)>>
  BY <1>6 DEF WithArguments, Searches, Lists, Lookups, Relations
<1> QED
  BY <1>2, <1>7 DEF Sent, h

(* So is the method of the operation, with what the operation passes.      *)
LEMMA MethodWellPassed ==
  ASSUME CallTyped
  PROVE  /\ WellPassed(Method(call))
         /\ Method(call).fn = MethodOf(call.op)
         /\ Method(call).fn \in Methods \ {"setHints"}
         /\ \A k \in DOMAIN Passes[call.op] :
              Method(call).passed[k] = Passed(call.op, call.args, Passes[call.op][k])
<1> DEFINE op == call.op
           m == Method(call)
<1>1. m.fn = MethodOf(op) /\ m.passed = [k \in DOMAIN Passes[op] |-> Passed(op, call.args, Passes[op][k])]
  BY DEF Method, MethodOf
<1> HIDE DEF m
<1>2. m.fn \in Methods /\ DOMAIN BridgeParams[m.fn] = DOMAIN Passes[op]
  BY <1>1, TablesAgree DEF CallTyped
<1>3. m.fn \in DOMAIN BridgeParams /\ "setHints" \notin Methods
  BY <1>2 DEF BridgeParams, Methods, Searches, Lists, Resolutions, Lookups, Relations, Changes, Others
<1>4. ASSUME NEW k \in DOMAIN Passes[op]
      PROVE  /\ BridgeParams[m.fn][k] \in ArrayParams => m.passed[k] \in Seq(Seq(Chars))
             /\ BridgeParams[m.fn][k] \in TextParams => m.passed[k] \in Seq(Chars)
  <2> DEFINE name == Passes[op][k]
             param == BridgeParams[m.fn][k]
  <2>1. Meets(op, name, param)
    BY <1>1, TablesAgree DEF CallTyped
  <2>2. m.passed[k] = Passed(op, call.args, name)
    BY <1>1
  <2> HIDE DEF name, param
  <2>3. CASE name = "texts"
    <3>1. Passed(op, call.args, name) = call.args.texts
      BY <2>3 DEF Passed
    <3>2. param \notin TextParams
      BY <2>1, <2>3 DEF Meets, ArrayParams, TextParams
    <3> QED
      BY <2>2, <2>3, <3>1, <3>2 DEF CallTyped, name, param
  <2>4. CASE name = "text" /\ op \in Searches
    <3>1. Passed(op, call.args, name) = <<call.args.text>>
      BY <2>4 DEF Passed
    <3>2. param \notin TextParams
      BY <2>1, <2>4 DEF Meets, ArrayParams, TextParams
    <3>3. call.args.text \in Seq(Chars)
      BY <2>4 DEF CallTyped, name
    <3>4. <<call.args.text>> \in Seq(Seq(Chars))
      BY <3>3
    <3> QED
      BY <2>2, <2>4, <3>1, <3>2, <3>4 DEF param
  <2>5. CASE name = "text" /\ op \notin Searches
    <3>1. Passed(op, call.args, name) = call.args.text
      BY <2>5 DEF Passed
    <3>2. param \notin ArrayParams
      BY <2>1, <2>5 DEF Meets, ArrayParams, TextParams
    <3> QED
      BY <2>2, <2>5, <3>1, <3>2 DEF CallTyped, name, param
  <2>6. CASE name \notin {"text", "texts"}
    BY <2>1, <2>6 DEF Meets, param
  <2> QED
    BY <2>3, <2>4, <2>5, <2>6
<1>5. WellPassed(m)
  BY <1>2, <1>3, <1>4 DEF WellPassed
<1> QED
  BY <1>1, <1>2, <1>3, <1>5 DEF m

(* CallInv holds before the first call, and when none is left.             *)
LEMMA CallInitInv == BoundaryInit => CallInv
<1>1. ASSUME CallInit
      PROVE  CallInv
  <2>1. PICK op \in Operations, filters \in FilterLists, flags \in FlagLists,
             texts \in TextLists, text \in Texts, b \in BOOLEAN, c \in BOOLEAN, d \in BOOLEAN :
          LET given == [filters |-> filters, flags |-> flags, texts |-> texts, text |-> text,
                        recursive |-> b, allowDeps |-> b, autoremove |-> c, force |-> b,
                        storeInCache |-> b, enabled |-> b]
          IN  call = [op |-> op, args |-> [name \in Range(Passes[op]) |-> given[name]],
                      interactive |-> d]
    BY <1>1 DEF CallInit
  <2>2. /\ call.op = op
        /\ \A name \in Range(Passes[op]) :
             /\ name = "text" => call.args[name] = text
             /\ name = "texts" => call.args[name] = texts
             /\ name = "filters" => call.args[name] = filters
             /\ name = "flags" => call.args[name] = flags
    BY <2>1
  <2>3. /\ text \in Seq(Chars) /\ texts \in Seq(Seq(Chars))
        /\ filters \in Seq(PkFilter) /\ flags \in Seq(PkTransactionFlag)
    BY CallAssumption
  <2>4. \A k \in DOMAIN Passes[op] : Passes[op][k] \in Range(Passes[op])
    BY DEF Range
  <2>5. CallTyped
    BY <2>2, <2>3, <2>4 DEF CallTyped
  <2> QED
    BY <1>1, <2>5 DEF CallInit, CallInv, Progress, StartQuery
<1>2. ASSUME call = [op |-> "getDistroUpgrades", args |-> <<>>, interactive |-> TRUE],
             refused = {"setHints", "getDistroUpgrades"},
             todo = <<>>, step = "dart", heap = <<>>, params = <<>>, bus = <<>>
      PROVE  CallInv
  <2>1. CallTyped
    <3>1. call.op \in Operations /\ Passes[call.op] = <<>>
      BY <1>2 DEF Passes, Operations, Methods, Searches, Lists, Resolutions, Lookups,
                  Relations, Changes, Simulations, Others
    <3> QED
      BY <3>1 DEF CallTyped
  <2> QED
    BY <1>2, <2>1 DEF CallInv, Progress, Hinted
<1> QED
  BY <1>1, <1>2 DEF BoundaryInit

(* The second message is put behind the first.                             *)
LEMMA AppendedPair ==
  ASSUME NEW a, NEW b
  PROVE  Append(<<a>>, b) = <<a, b>>
<1>1. <<a>> \in Seq({a, b}) /\ b \in {a, b}
  OBVIOUS
<1>2. Append(<<a>>, b) = [i \in 1..2 |-> IF i = 1 THEN a ELSE b]
  BY <1>1
<1>3. <<a, b>> = [i \in 1..2 |-> IF i = 1 THEN a ELSE b]
  OBVIOUS
<1> QED
  BY <1>2, <1>3

(* Every step of a call keeps CallInv, action by action.                   *)
LEMMA CallStep == CallInv /\ CallNext => CallInv'
<1> SUFFICES ASSUME CallInv, CallNext
             PROVE  CallInv'
  OBVIOUS
<1>1. PICK h, m : h = Hints(call) /\ m = Method(call)
  OBVIOUS
<1>2. /\ WellPassed(h) /\ h.fn = "setHints"
      /\ WellPassed(m) /\ m.fn # "setHints"
      /\ Progress(h, m)
  BY <1>1, HintsWellPassed, MethodWellPassed DEF CallInv
<1>3. Hints(call)' = h /\ Method(call)' = m /\ CallTyped'
  <2>1. call' = call
    BY DEF CallNext, Enter, Copy, CallMethod, CallRefused, Leave
  <2> QED
    BY <1>1, <2>1 DEF CallInv, CallTyped, Hints, Method
<1>4. todo # <<>> => Head(todo) \in {h, m}
  BY <1>2 DEF Progress
<1>5. todo = <<>> => step = "dart"
  BY <1>2 DEF Progress
<1> SUFFICES /\ step' \in {"dart", "native", "calling", "returned"}
             /\ Progress(h, m)'
             /\ step' = "dart" => DOMAIN heap' = {}
             /\ step' # "dart" => heap' = HeapOf(Head(todo'))
             /\ step' = "calling" => params' = ParamsOf(Head(todo'))
  BY <1>3 DEF CallInv
<1>6. CASE Enter
  <2>1. /\ todo # <<>> /\ step = "dart" /\ step' = "native"
        /\ todo' = todo /\ bus' = bus /\ refused' = refused
    BY <1>6 DEF Enter
  <2>2. heap' = HeapOf(Head(todo))
    BY <1>6 DEF Enter, HeapOf, Fn
  <2>3. Progress(h, m)'
    BY <1>2, <2>1 DEF Progress, Hinted, Called
  <2> QED
    BY <2>1, <2>2, <2>3
<1>7. CASE Copy
  <2>1. /\ todo # <<>> /\ step = "native" /\ step' = "calling"
        /\ todo' = todo /\ bus' = bus /\ refused' = refused /\ heap' = heap
    BY <1>5, <1>7 DEF Copy
  <2>2. heap = HeapOf(Head(todo))
    BY <2>1 DEF CallInv
  <2>3. params' = ParamsOf(Head(todo))
    BY <1>2, <1>4, <1>7, <2>1, <2>2, CopyBinds
  <2>4. Progress(h, m)'
    BY <1>2, <2>1 DEF Progress, Hinted, Called
  <2> QED
    BY <2>1, <2>2, <2>3, <2>4
<1>8. CASE CallMethod
  <2>1. /\ todo # <<>> /\ step = "calling" /\ step' = "returned"
        /\ todo' = todo /\ refused' = refused /\ heap' = heap
    BY <1>5, <1>8 DEF CallMethod
  <2>2. bus' = Append(bus, Sent(Head(todo)))
    BY <1>8, <2>1 DEF CallMethod, CallInv, Sent, Fn
  <2>3. Progress(h, m)'
    <3>1. CASE todo = <<h, m>> /\ bus = <<>>
      <4>1. bus' = <<Sent(h)>>
        BY <2>2, <3>1
      <4> QED
        BY <2>1, <3>1, <4>1 DEF Progress, Hinted
    <3>2. CASE todo = <<m>> /\ Hinted(h)
      <4>1. bus' = Append(bus, Sent(m))
        BY <2>2, <3>2
      <4>2. Called(h, m)'
        <5>1. PICK a, b : a = Sent(h) /\ b = Sent(m)
          OBVIOUS
        <5>2. CASE bus = <<a>>
          <6>1. bus' = Append(<<a>>, b)
            BY <4>1, <5>1, <5>2
          <6>2. Append(<<a>>, b) = <<a, b>>
            BY AppendedPair
          <6> QED
            BY <5>1, <6>1, <6>2 DEF Called
        <5>3. CASE bus = <<>> /\ "setHints" \in refused
          <6>1. bus' = <<b>>
            BY <4>1, <5>1, <5>3
          <6> QED
            BY <2>1, <5>1, <5>3, <6>1 DEF Called
        <5> QED
          BY <3>2, <5>1, <5>2, <5>3 DEF Hinted
      <4> QED
        BY <2>1, <3>2, <4>2 DEF Progress
    <3> QED
      BY <1>2, <2>1, <3>1, <3>2 DEF Progress
  <2>4. heap = HeapOf(Head(todo))
    BY <2>1 DEF CallInv
  <2> QED
    BY <2>1, <2>3, <2>4
<1>9. CASE CallRefused
  <2>1. /\ todo # <<>> /\ step = "calling" /\ step' = "returned" /\ bus' = bus
        /\ todo' = todo /\ refused' = refused \cup {Head(todo).fn} /\ heap' = heap
    BY <1>5, <1>9 DEF CallRefused, Fn
  <2>2. Progress(h, m)'
    <3>1. CASE todo = <<h, m>> /\ bus = <<>>
      <4>1. "setHints" \in refused'
        BY <1>2, <2>1, <3>1
      <4> QED
        BY <2>1, <3>1, <4>1 DEF Progress, Hinted
    <3>2. CASE todo = <<m>> /\ Hinted(h)
      <4>1. Hinted(h)'
        BY <2>1, <3>2 DEF Hinted
      <4> QED
        BY <2>1, <3>2, <4>1 DEF Progress
    <3> QED
      BY <1>2, <2>1, <3>1, <3>2 DEF Progress
  <2>3. heap = HeapOf(Head(todo))
    BY <2>1 DEF CallInv
  <2> QED
    BY <2>1, <2>2, <2>3
<1>10. CASE Leave
  <2>1. /\ todo # <<>> /\ step = "returned" /\ step' = "dart" /\ bus' = bus
        /\ todo' = Tail(todo) /\ refused' = refused
    BY <1>5, <1>10 DEF Leave
  <2>2. DOMAIN heap' = {}
    <3>1. DOMAIN heap \ FreedBlocks = {}
      BY <1>2, <1>4, <2>1, AllIsFreed DEF CallInv, Fn
    <3> QED
      BY <1>10, <3>1 DEF Leave, Restrict
  <2>3. Progress(h, m)'
    <3>1. CASE todo = <<h, m>> /\ Hinted(h)
      <4>1. todo' = <<m>> /\ Hinted(h)'
        BY <2>1, <3>1 DEF Hinted
      <4> QED
        BY <4>1 DEF Progress
    <3>2. CASE todo = <<m>> /\ (Hinted(h) \/ Called(h, m))
      <4>1. todo' = <<>> /\ (Hinted(h) \/ Called(h, m))'
        BY <2>1, <3>2 DEF Hinted, Called
      <4> QED
        BY <2>1, <4>1 DEF Progress
    <3> QED
      BY <1>2, <2>1, <3>1, <3>2 DEF Progress
  <2> QED
    BY <2>1, <2>2, <2>3
<1> QED
  BY <1>6, <1>7, <1>8, <1>9, <1>10 DEF CallNext

(* So that it always holds, whatever is read between the calls.            *)
LEMMA BoundaryCalls == BoundarySpec => []CallInv
<1>1. CallInv /\ [BoundaryNext]_boundaryVars => CallInv'
  <2>1. ASSUME CallInv, UNCHANGED callVars
        PROVE  CallInv'
    BY <2>1 DEF CallInv, callVars, CallTyped, Progress, Hinted, Called
  <2> QED
    BY <2>1, CallStep DEF BoundaryNext, boundaryVars
<1> QED
  BY <1>1, CallInitInv, PTL DEF BoundarySpec

(* After every call of PkBindings, and after one whose message the bus did *)
(* not take, _freeStringArray or free has returned all native memory.      *)
THEOREM CallsLeakNothing == BoundarySpec => []NothingLeaks
<1>1. CallInv => NothingLeaks
  BY DEF CallInv, NothingLeaks
<1> QED
  BY <1>1, BoundaryCalls, PTL

(* _startQuery: the daemon has the hints before the method, unless it      *)
(* refused them.                                                           *)
THEOREM HintsFirst == BoundarySpec => []HintsComeFirst
<1>1. ASSUME CallInv
      PROVE  HintsComeFirst
  <2> DEFINE h == Sent(Hints(call))
             m == Sent(Method(call))
  <2>1. /\ h.fn = "setHints"
        /\ h.arguments[1].interactive = call.interactive
        /\ h.arguments[1].locale = Locale
    BY SentHints DEF BuildHints
  <2>2. bus \in {<<>>, <<h>>, <<h, m>>} \/ "setHints" \in refused
    BY <1>1 DEF CallInv, Progress, Hinted, Called
  <2> HIDE DEF h, m
  <2>3. CASE bus = <<h, m>>
    BY <2>1, <2>3 DEF HintsComeFirst
  <2>4. CASE bus \in {<<>>, <<h>>} \/ "setHints" \in refused
    BY <2>1, <2>4 DEF HintsComeFirst
  <2> QED
    BY <2>2, <2>3, <2>4
<1> QED
  BY <1>1, BoundaryCalls, PTL

(* What an argument is when it arrives, by its name.                       *)
Arrived(c, name, v) ==
  /\ name = "text" =>
       v = IF c.op \in Searches THEN <<UpToNul(c.args.text)>> ELSE UpToNul(c.args.text)
  /\ name = "texts" => v = [i \in DOMAIN c.args.texts |-> UpToNul(c.args.texts[i])]
  /\ name \in {"recursive", "allowDeps", "autoremove", "force", "storeInCache", "enabled"} =>
       v = c.args[name]
  /\ name = "filters" => v = Combine(c.args.filters)
  /\ name = "flags" =>
       v = Combine(IF c.op \in DOMAIN Simulations THEN Append(c.args.flags, Simulate)
                                                  ELSE c.args.flags)

(* An argument is still what the operation was called with when the        *)
(* daemon has it, at each position.                                        *)
LEMMA MethodArrives ==
  ASSUME CallTyped, NEW k \in DOMAIN Passes[call.op]
  PROVE  Arrived(call, Passes[call.op][k], Sent(Method(call)).arguments[k])
<1> DEFINE op == call.op
           m == Method(call)
           name == Passes[op][k]
           param == BridgeParams[m.fn][k]
<1>1. /\ WellPassed(m) /\ m.fn = MethodOf(op) /\ m.fn \in Methods
      /\ m.passed[k] = Passed(op, call.args, name)
  BY MethodWellPassed
<1>2. op \in Operations /\ k \in DOMAIN Passes[op]
  BY DEF CallTyped
<1>3. k \in DOMAIN BridgeParams[m.fn] /\ Meets(op, name, param)
  BY <1>1, <1>2, TablesAgree
<1> HIDE DEF m
<1>4. Sent(m).arguments[k] = Bound(m, k)
  BY <1>1, <1>3, SentInOrder
<1> HIDE DEF name, param
<1>5. CASE name = "texts"
  <2>1. Passed(op, call.args, name) = call.args.texts
    BY <1>5 DEF Passed
  <2>2. Bound(m, k) = [i \in DOMAIN call.args.texts |-> UpToNul(call.args.texts[i])]
    BY <1>1, <1>3, <1>5, <2>1 DEF Bound, Meets, param
  <2> QED
    BY <1>4, <1>5, <2>2 DEF Arrived, m, name
<1>6. CASE name = "text" /\ op \in Searches
  <2>1. Passed(op, call.args, name) = <<call.args.text>>
    BY <1>6 DEF Passed
  <2>2. Bound(m, k) = [i \in DOMAIN m.passed[k] |-> UpToNul(m.passed[k][i])]
    BY <1>3, <1>6 DEF Bound, Meets, param
  <2>3. Bound(m, k) = <<UpToNul(call.args.text)>>
    BY <1>1, <2>1, <2>2
  <2> QED
    BY <1>4, <1>6, <2>3 DEF Arrived, m, name
<1>7. CASE name = "text" /\ op \notin Searches
  <2>1. Passed(op, call.args, name) = call.args.text
    BY <1>7 DEF Passed
  <2>2. param \in TextParams /\ param \notin ArrayParams
    BY <1>3, <1>7 DEF Meets, ArrayParams, TextParams
  <2>3. Bound(m, k) = UpToNul(call.args.text)
    BY <1>1, <2>1, <2>2 DEF Bound, param
  <2> QED
    BY <1>4, <1>7, <2>3 DEF Arrived, m, name
<1>8. CASE name \notin {"text", "texts"}
  <2>1. param \notin ArrayParams \cup TextParams
    BY <1>3, <1>8 DEF Meets
  <2>2. Bound(m, k) = Passed(op, call.args, name)
    BY <1>1, <2>1 DEF Bound, param
  <2>3. ASSUME name \in {"recursive", "allowDeps", "autoremove", "force", "storeInCache", "enabled"}
        PROVE  Passed(op, call.args, name) = call.args[name]
    BY <2>3 DEF Passed
  <2>4. name = "filters" => Passed(op, call.args, name) = Combine(call.args.filters)
    BY DEF Passed
  <2>5. ASSUME name = "flags"
        PROVE  Passed(op, call.args, name)
                 = Combine(IF op \in DOMAIN Simulations THEN Append(call.args.flags, Simulate)
                                                        ELSE call.args.flags)
    <3>1. CASE op \in DOMAIN Simulations
      BY <2>5, <3>1 DEF Passed
    <3>2. CASE op \notin DOMAIN Simulations
      BY <2>5, <3>2 DEF Passed
    <3> QED
      BY <3>1, <3>2
  <2> QED
    BY <1>4, <1>8, <2>2, <2>3, <2>4, <2>5 DEF Arrived, m, name
<1> QED
  BY <1>5, <1>6, <1>7, <1>8

(* What the daemon has been called with is what the operation was called   *)
(* with.                                                                   *)
LEMMA EachArrives ==
  ASSUME CallInv, NEW name, NEW v \in Arguments(name)
  PROVE  /\ Arrived(call, name, v)
         /\ \E k \in DOMAIN Passes[call.op] : Passes[call.op][k] = name
<1> DEFINE m == Method(call)
           s == Sent(m)
           names == Passes[call.op]
<1>1. CallTyped /\ call.op \in Operations
  BY DEF CallInv, CallTyped
<1>2. s.fn = MethodOf(call.op)
  BY <1>1, MethodWellPassed DEF Sent
<1>3. Interface[s.fn] = names
  BY <1>1, <1>2, TablesAgree
<1>4. Sent(Hints(call)).fn = "setHints"
  BY SentHints
<1>5. \A i \in DOMAIN bus : bus[i].fn # "setHints" => bus[i] = s
  BY <1>4 DEF CallInv, Progress, Hinted, Called
<1>6. \A k \in DOMAIN names : Arrived(call, names[k], s.arguments[k])
  BY <1>1, MethodArrives
<1> HIDE DEF names, s, m
<1>7. PICK i \in DOMAIN bus :
        /\ bus[i].fn # "setHints"
        /\ v \in {bus[i].arguments[k] :
                    k \in {j \in DOMAIN Interface[bus[i].fn] : Interface[bus[i].fn][j] = name}}
  BY DEF Arguments
<1>8. bus[i] = s
  BY <1>5, <1>7
<1>9. PICK k \in DOMAIN names : names[k] = name /\ v = s.arguments[k]
  BY <1>3, <1>7, <1>8
<1> QED
  BY <1>6, <1>9 DEF names

(* Every text, list and switch that an operation takes reaches the daemon  *)
(* where its interface expects it, and whole, whatever the operation and   *)
(* its arguments are.                                                      *)
THEOREM ArgumentsReachTheBus == BoundarySpec => []ArgumentsArrive
<1>1. ASSUME CallInv
      PROVE  ArgumentsArrive
  <2>1. \A name : \A v \in Arguments(name) : Arrived(call, name, v)
    BY <1>1, EachArrives
  <2> QED
    BY <2>1 DEF ArgumentsArrive, Arrived
<1> QED
  BY <1>1, BoundaryCalls, PTL

(* The values of both enums are bits, and of PkTransactionFlag none is 0.  *)
LEMMA EnumsAreBits ==
  /\ PkFilter \subseteq {0} \cup AllBits
  /\ PkTransactionFlag \subseteq AllBits
  /\ Simulate \in AllBits
  /\ 0 \notin AllBits
<1>1. 2..27 \subseteq 0..30 /\ 1..6 \subseteq 0..30 /\ 2 \in 0..30
  OBVIOUS
<1>2. 0 \notin AllBits
  BY BitType DEF AllBits
<1>3. PkFilter \subseteq {0} \cup AllBits
  BY <1>1 DEF PkFilter, AllBits
<1>4. PkTransactionFlag \subseteq AllBits
  BY <1>1 DEF PkTransactionFlag, AllBits
<1>5. Simulate \in AllBits
  BY <1>1 DEF Simulate, AllBits
<1> QED
  BY <1>2, <1>3, <1>4, <1>5

(* Flags without zero arrive as they were listed.                          *)
LEMMA FlagsArrive ==
  ASSUME NEW flags \in Seq(AllBits)
  PROVE  /\ BitValues(Combine(flags)) = Range(flags)
         /\ BitValues(Combine(Append(flags, Simulate))) = Range(flags) \cup {Simulate}
<1> DEFINE bits == {0} \cup AllBits
           added == Append(flags, Simulate)
<1>1. AllBits \subseteq bits /\ Simulate \in AllBits /\ 0 \notin AllBits
  BY EnumsAreBits
<1>2. \A values \in Seq(bits) : BitValues(Combine(values)) = Range(values) \ {0}
  BY CombineArrives
<1> HIDE DEF bits
<1>3. flags \in Seq(bits) /\ added \in Seq(bits)
  <2>1. added \in Seq(AllBits)
    BY <1>1
  <2>2. \A values \in Seq(AllBits) : values \in Seq(bits)
    BY <1>1, SubSequences
  <2> HIDE DEF added
  <2> QED
    BY <2>1, <2>2
<1>4. Range(flags) \subseteq AllBits
  <2>1. \A i \in DOMAIN flags : flags[i] \in AllBits
    OBVIOUS
  <2> QED
    BY <2>1 DEF Range
<1>5. Range(added) = Range(flags) \cup {Simulate}
  <2>1. /\ DOMAIN flags = 1..Len(flags)
        /\ DOMAIN added = 1..(Len(flags) + 1)
        /\ \A i \in 1..Len(flags) : added[i] = flags[i]
        /\ added[Len(flags) + 1] = Simulate
        /\ Len(flags) \in Nat
    BY <1>1
  <2> HIDE DEF added
  <2>2. \A i : i \in DOMAIN added <=> i \in DOMAIN flags \/ i = Len(flags) + 1
    BY <2>1
  <2>3. \A i \in DOMAIN flags : added[i] = flags[i]
    BY <2>1
  <2> QED
    BY <2>1, <2>2, <2>3, Zenon DEF Range
<1>6. 0 \notin Range(flags) /\ 0 \notin Range(flags) \cup {Simulate}
  BY <1>1, <1>4
<1> HIDE DEF added
<1>7. BitValues(Combine(flags)) = Range(flags) \ {0}
  BY <1>2, <1>3
<1>8. BitValues(Combine(added)) = Range(added) \ {0}
  BY <1>2, <1>3
<1>9. BitValues(Combine(flags)) = Range(flags)
  BY <1>6, <1>7
<1>10. BitValues(Combine(added)) = Range(flags) \cup {Simulate}
  BY <1>5, <1>6, <1>8
<1> QED
  BY <1>9, <1>10 DEF added

(* Whatever filters and flags are listed, in any order and any number of   *)
(* times, the daemon reads those and no others; and a simulate* operation  *)
(* never reaches it without Simulate.                                      *)
THEOREM BitsReachTheBus == BoundarySpec => []BitsArrive
<1>1. ASSUME CallInv
      PROVE  BitsArrive
  <2>1. CallTyped
    BY <1>1 DEF CallInv
  <2>2. ASSUME NEW v \in Arguments("filters")
        PROVE  BitValues(v) = Range(call.args.filters) \ {0}
    <3>1. v = Combine(call.args.filters)
      BY <1>1, EachArrives DEF Arrived
    <3>2. call.args.filters \in Seq(PkFilter)
      BY <1>1, <2>1, EachArrives DEF CallTyped
    <3>3. call.args.filters \in Seq({0} \cup AllBits)
      <4>1. \A values \in Seq(PkFilter) : values \in Seq({0} \cup AllBits)
        BY EnumsAreBits, SubSequences
      <4> QED
        BY <3>2, <4>1
    <3> QED
      BY <3>1, <3>3, CombineArrives
  <2>3. ASSUME NEW v \in Arguments("flags")
        PROVE  BitValues(v) = Range(call.args.flags) \cup
                                (IF call.op \in DOMAIN Simulations THEN {Simulate} ELSE {})
    <3> DEFINE flags == call.args.flags
    <3>1. v = Combine(IF call.op \in DOMAIN Simulations THEN Append(flags, Simulate) ELSE flags)
      BY <1>1, <2>3, EachArrives DEF Arrived
    <3>2. flags \in Seq(PkTransactionFlag)
      BY <1>1, <2>1, <2>3, EachArrives DEF CallTyped
    <3> HIDE DEF flags
    <3>3. flags \in Seq(AllBits)
      BY <3>2, EnumsAreBits, SubSequences
    <3>4. CASE call.op \in DOMAIN Simulations
      BY <3>1, <3>3, <3>4, FlagsArrive DEF flags
    <3>5. CASE call.op \notin DOMAIN Simulations
      BY <3>1, <3>3, <3>5, FlagsArrive DEF flags
    <3> QED
      BY <3>4, <3>5
  <2> QED
    BY <2>2, <2>3 DEF BitsArrive
<1> QED
  BY <1>1, BoundaryCalls, PTL

-----------------------------------------------------------------------------
(* Both directions together.                                               *)

(* The isolate's thread, which makes a call and then reads the messages,   *)
(* reads them as a reader does that makes no calls.                        *)
THEOREM ReaderIsUndisturbed == BoundarySpec => Spec
<1>1. BoundaryInit => Init
  BY DEF BoundaryInit
<1>2. [BoundaryNext]_boundaryVars => [Next]_vars
  BY DEF BoundaryNext, boundaryVars
<1> QED
  BY <1>1, <1>2, PTL DEF BoundarySpec, Spec

(* What the codec promises, it promises at the boundary.                   *)
THEOREM CodecAtTheBoundary ==
  BoundarySpec => [](/\ TypeOK /\ NoOverread /\ ThrowsOnTruncation
                     /\ DecodesWhatWasSent /\ IdsAreWhole /\ DecodersAgree)
BY ReaderIsUndisturbed, ReaderTypeOK, ReaderStaysInView, TruncationThrows, ValuesArrive,
   PackageIdsAreWhole, BothDecodersAgree, PTL

=============================================================================
