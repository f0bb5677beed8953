--------------------------- MODULE MCFfiBoundary ----------------------------
(* Small messages of every kind.  Two neighbours of one type get different *)
(* values, so that no two fields can be exchanged unseen.  One string has  *)
(* three separators, one has two; one is so long that its length has the   *)
(* top bit set.  The largest u32 is a value that no enum knows.            *)
EXTENDS FfiBoundary

MCBase == 3

Long == [i \in 1..41 |-> i % 2]

Samples == [
  u32  |-> <<1, Base^4 - 1, Base^2 + 1, 0>>,
  u64  |-> <<Base^4, Base^8 - 1, 3, Base^7 - 1>>,
  bool |-> <<TRUE, FALSE>>,
  str  |-> <<<<1, 2, 0, 2, 2, 1>>, <<>>, <<0, 2, 1, 2>>, Long, <<2, 2, 2, 2>>>>,
  list |-> <<<<<<1>>, <<>>>>, <<>>, <<<<0, 2>>>>, <<<<>>, <<1, 1>>, <<>>>>>>]

Sample(type, n) == Samples[type][(n % Len(Samples[type])) + 1]

Filled(kind, seed) ==
  LET fields == NativeFields[kind] IN
  [name \in {fields[i][1] : i \in DOMAIN fields} |->
     LET i == CHOOSE j \in DOMAIN fields : fields[j][1] = name
     IN  Sample(fields[i][2], seed + i)]

MCInputs == {[kind |-> kind, sent |-> Filled(kind, seed)] : kind \in Kinds, seed \in 0..4}

(* Texts with and without a zero, and none; repeated flags and filters,    *)
(* the lowest and the highest of each, and flags that include Simulate.    *)
MCLocale == <<1, 1>>

MCTexts == {<<>>, <<1>>, <<2, 0, 1>>}

MCTextLists == {<<>>, <<<<1>>>>, <<<<2, 0, 1>>, <<>>, <<1, 2>>>>}

MCFilterLists == {<<>>, <<0>>, <<Bit[2]>>, <<Bit[27], Bit[2], Bit[27]>>}

MCFlagLists == {<<>>, <<Bit[1]>>, <<Bit[1], Bit[2]>>, <<Bit[6], Bit[1], Bit[6]>>}

MCInput == [kind |-> "Finished", sent |-> Filled("Finished", 0)]
=============================================================================
