------------------------- MODULE InstallPlan_proofs -------------------------
(***************************************************************************)
(* A plan is of a whole, successful simulation, whatever the packages and  *)
(* however many, against any transaction that keeps its contract.          *)
(***************************************************************************)
EXTENDS InstallPlan, LoopLemmas, FiniteSetTheorems, TLAPS

(* The strengthening: once the stream is drained it stays drained, since a *)
(* transaction that has ended delivers nothing and keeps its result.       *)
CollectInv ==
  /\ ended => result # "pending"
  /\ phase # "packages" => ended /\ pkgs = events
  /\ phase = "returned" => result = "success"

LEMMA CollectInit == Init => CollectInv
BY DEF Init, Transaction!ContractInit, CollectInv

LEMMA CollectStep == CollectInv /\ [Next]_vars => CollectInv'
<1> SUFFICES ASSUME CollectInv, [Next]_vars
             PROVE  CollectInv'
  OBVIOUS
<1> USE DEF CollectInv, transactionVars, collectVars
<1>1. CASE CollectPlan
  <2>1. CASE NextPackage
    BY <2>1 DEF NextPackage
  <2>2. CASE StreamDone
    BY <2>2 DEF StreamDone
  <2>3. CASE ReturnPlan
    BY <2>3 DEF ReturnPlan
  <2>4. CASE ThrowError
    BY <2>4 DEF ThrowError
  <2> QED
    BY <1>1, <2>1, <2>2, <2>3, <2>4 DEF CollectPlan
<1>2. CASE TransactionStep
  <2>1. CASE Transaction!Deliver
    BY <1>2, <2>1 DEF TransactionStep, Transaction!Deliver
  <2>2. CASE Transaction!Complete
    BY <1>2, <2>2, PlanAssumption DEF TransactionStep, Transaction!Complete
  <2>3. CASE Transaction!End
    BY <1>2, <2>3 DEF TransactionStep, Transaction!End
  <2>4. CASE Transaction!Refuse
    BY <1>2, <2>4, PlanAssumption DEF TransactionStep, Transaction!Refuse
  <2> QED
    BY <1>2, <2>1, <2>2, <2>3, <2>4 DEF TransactionStep
<1>3. CASE UNCHANGED vars
  BY <1>3 DEF vars
<1> QED
  BY <1>1, <1>2, <1>3 DEF Next

(* A plan is only returned for a simulation that succeeded, and then it is *)
(* of all the packages that were delivered (PkClient._collectPlan).        *)
THEOREM PlanIsWhole == SafetySpec => []PlanOfWholeSuccess
<1>1. CollectInv => PlanOfWholeSuccess
  BY DEF CollectInv, PlanOfWholeSuccess
<1> QED
  BY <1>1, CollectInit, CollectStep, PTL DEF SafetySpec

-----------------------------------------------------------------------------
(* The loop of planFromPackages.                                           *)

Plans == [Categories -> Seq(Packages)]

(* How many of the first n packages are p.                                 *)
AmongFirst(s, n, p) == Cardinality({i \in 1..n : s[i] = p})

LEMMA CategoryType == \A p \in Packages : Category(p) \in Categories
BY DEF Category, Categories, Packages

LEMMA NoPlanType == NoPlan \in Plans
BY DEF NoPlan, Plans

LEMMA OccurrencesType ==
  ASSUME NEW list \in Seq(Packages), NEW p
  PROVE  /\ IsFiniteSet({i \in DOMAIN list : list[i] = p})
         /\ Occurrences(list, p) \in Nat
<1>1. IsFiniteSet(DOMAIN list)
  BY FS_Interval
<1>2. {i \in DOMAIN list : list[i] = p} \in SUBSET DOMAIN list
  OBVIOUS
<1> QED
  BY <1>1, <1>2, FS_Subset, FS_CardinalityType DEF Occurrences

(* Adding a package to a list adds one occurrence of it, and none of       *)
(* another.                                                                *)
LEMMA OccurrencesAppend ==
  ASSUME NEW list \in Seq(Packages), NEW q \in Packages, NEW p
  PROVE  Occurrences(Append(list, q), p) = Occurrences(list, p) + IF p = q THEN 1 ELSE 0
<1> DEFINE Old == {i \in DOMAIN list : list[i] = p}
           New == {i \in DOMAIN Append(list, q) : Append(list, q)[i] = p}
           last == Len(list) + 1
<1>1. IsFiniteSet(Old) /\ Cardinality(Old) \in Nat
  BY OccurrencesType DEF Occurrences
<1>0. Occurrences(list, p) = Cardinality(Old) /\ Occurrences(Append(list, q), p) = Cardinality(New)
  BY DEF Occurrences
<1>2. last \notin Old
  OBVIOUS
<1>3. CASE p = q
  <2>1. New = Old \cup {last}
    BY <1>3
  <2>2. Cardinality(Old \cup {last}) = Cardinality(Old) + 1
    <3> HIDE DEF Old, last
    <3> QED
      BY <1>1, <1>2, FS_AddElement
  <2> HIDE DEF Old, New, last
  <2> QED
    BY <1>0, <1>3, <2>1, <2>2
<1>4. CASE p # q
  <2>1. New = Old
    BY <1>4
  <2> HIDE DEF Old, New
  <2> QED
    BY <1>0, <1>1, <1>4, <2>1
<1> QED
  BY <1>3, <1>4

LEMMA AmongFirstNext ==
  ASSUME NEW s \in Seq(Packages), NEW n \in Nat, NEW p
  PROVE  AmongFirst(s, n + 1, p) = AmongFirst(s, n, p) + IF s[n + 1] = p THEN 1 ELSE 0
<1> DEFINE Old == {i \in 1..n : s[i] = p}
           New == {i \in 1..(n + 1) : s[i] = p}
<1>1. IsFiniteSet(1..n) /\ Old \in SUBSET (1..n)
  BY FS_Interval
<1>2. IsFiniteSet(Old) /\ Cardinality(Old) \in Nat
  BY <1>1, FS_Subset, FS_CardinalityType
<1>3. n + 1 \notin Old
  OBVIOUS
<1>0. AmongFirst(s, n, p) = Cardinality(Old) /\ AmongFirst(s, n + 1, p) = Cardinality(New)
  BY DEF AmongFirst
<1>4. CASE s[n + 1] = p
  <2>1. New = Old \cup {n + 1}
    BY <1>4
  <2>2. Cardinality(Old \cup {n + 1}) = Cardinality(Old) + 1
    <3> HIDE DEF Old
    <3> QED
      BY <1>2, <1>3, FS_AddElement
  <2> HIDE DEF Old, New
  <2> QED
    BY <1>0, <1>4, <2>1, <2>2
<1>5. CASE s[n + 1] # p
  <2>1. New = Old
    BY <1>5
  <2> HIDE DEF Old, New
  <2> QED
    BY <1>0, <1>2, <1>5, <2>1
<1> QED
  BY <1>4, <1>5

(* The lists after each turn of the loop.                                  *)
LEMMA PlanLoop ==
  ASSUME NEW s \in Seq(Packages)
  PROVE  \E after :
           /\ planFromPackages(s) = after[Len(s)]
           /\ after[0] = NoPlan
           /\ \A n \in 1..Len(s) :
                after[n] = [after[n - 1] EXCEPT ![Category(s[n])] = Append(@, s[n])]
<1> DEFINE N == Len(s)
           Turn(lists, n) == [lists EXCEPT ![Category(s[n])] = Append(@, s[n])]
           step == [x \in Plans \X Nat |-> IF x[2] \in 1..N THEN Turn(x[1], x[2]) ELSE NoPlan]
           Body(f) == [n \in 0..N |-> IF n = 0 THEN NoPlan ELSE Turn(f[n - 1], n)]
           after == CHOOSE f : f = Body(f)
<1>1. \A lists \in Plans, n \in 1..N : Turn(lists, n) \in Plans
  BY CategoryType DEF Plans
<1>2. step \in [Plans \X Nat -> Plans]
  BY <1>1, NoPlanType
<1>3. PICK g \in [0..N -> Plans] : Loop(g, NoPlan, step, N)
  <2>1. N \in Nat
    OBVIOUS
  <2> HIDE DEF step, N
  <2> QED
    BY <1>2, <2>1, NoPlanType, LoopExists
<1>4. g = Body(g)
  <2>1. ASSUME NEW i \in 1..N
        PROVE  step[<<g[i - 1], i>>] = Turn(g[i - 1], i)
    <3>1. g[i - 1] \in Plans
      OBVIOUS
    <3> HIDE DEF Turn
    <3> QED
      BY <3>1
  <2>2. g[0] = NoPlan /\ \A i \in 1..N : g[i] = Turn(g[i - 1], i)
    <3> HIDE DEF step, Turn
    <3> QED
      BY <1>3, <2>1 DEF Loop
  <2>3. N \in Nat
    OBVIOUS
  <2> HIDE DEF Turn, N
  <2> QED
    BY <2>2, <2>3
<1>5. after = Body(after)
  <2> HIDE DEF Body
  <2> QED
    BY <1>4
<1>6. planFromPackages(s) = after[N]
  BY DEF planFromPackages
<1>7. /\ after[0] = NoPlan
      /\ \A n \in 1..N : after[n] = Turn(after[n - 1], n)
  <2>1. N \in Nat
    OBVIOUS
  <2> HIDE DEF after, Turn, N
  <2> QED
    BY <1>5, <2>1
<1> HIDE DEF after
<1> QED
  BY <1>6, <1>7

LEMMA OccurrencesRange ==
  ASSUME NEW list \in Seq(Packages), NEW p
  PROVE  p \in Range(list) <=> Occurrences(list, p) # 0
<1>1. IsFiniteSet({i \in DOMAIN list : list[i] = p})
  BY OccurrencesType
<1>2. Occurrences(list, p) = 0 <=> {i \in DOMAIN list : list[i] = p} = {}
  BY <1>1, FS_EmptySet, Zenon DEF Occurrences
<1> QED
  BY <1>2 DEF Range

LEMMA OccurrencesNone == \A p : Occurrences(<<>>, p) = 0
<1>1. \A p : {i \in DOMAIN <<>> : <<>>[i] = p} = {}
  OBVIOUS
<1> QED
  BY <1>1, FS_EmptySet DEF Occurrences

(* After n turns each list has the packages of its category among the      *)
(* first n, as often as they occur there, and no others.                   *)
LEMMA PlanCounts ==
  ASSUME NEW s \in Seq(Packages)
  PROVE  /\ planFromPackages(s) \in Plans
         /\ \A c \in Categories, p \in Packages :
              Occurrences(planFromPackages(s)[c], p) =
                IF Category(p) = c THEN Occurrences(s, p) ELSE 0
<1> DEFINE N == Len(s)
<1>1. PICK after :
        /\ planFromPackages(s) = after[N]
        /\ after[0] = NoPlan
        /\ \A n \in 1..N : after[n] = [after[n - 1] EXCEPT ![Category(s[n])] = Append(@, s[n])]
  BY PlanLoop
<1> DEFINE Counted(n) ==
             /\ after[n] \in Plans
             /\ \A c \in Categories, p \in Packages :
                  Occurrences(after[n][c], p) =
                    IF Category(p) = c THEN AmongFirst(s, n, p) ELSE 0
           S == {n \in Nat : n <= N => Counted(n)}
<1>2. 0 \in S
  <2>1. \A p : AmongFirst(s, 0, p) = 0
    <3>1. \A p : {i \in 1..0 : s[i] = p} = {}
      OBVIOUS
    <3> QED
      BY <3>1, FS_EmptySet DEF AmongFirst
  <2>2. \A c \in Categories : after[0][c] = <<>>
    BY <1>1 DEF NoPlan
  <2>3. Counted(0)
    BY <1>1, <2>1, <2>2, NoPlanType, OccurrencesNone
  <2> QED
    BY <2>3
<1>3. ASSUME NEW n \in Nat, n \in S
      PROVE  n + 1 \in S
  <2> SUFFICES ASSUME n + 1 <= N
               PROVE  Counted(n + 1)
    OBVIOUS
  <2> DEFINE q == s[n + 1]
             old == after[n]
             new == after[n + 1]
  <2>1. Counted(n)
    BY <1>3
  <2>2. q \in Packages /\ Category(q) \in Categories
    BY CategoryType
  <2>3. new = [old EXCEPT ![Category(q)] = Append(@, q)]
    <3>1. n + 1 \in 1..N /\ (n + 1) - 1 = n
      OBVIOUS
    <3> QED
      BY <1>1, <3>1
  <2> HIDE DEF q, old, new
  <2>4. new \in Plans
    BY <2>1, <2>2, <2>3 DEF Plans, old
  <2>5. ASSUME NEW c \in Categories, NEW p \in Packages
        PROVE  Occurrences(new[c], p) = IF Category(p) = c THEN AmongFirst(s, n + 1, p) ELSE 0
    <3>1. AmongFirst(s, n + 1, p) = AmongFirst(s, n, p) + IF q = p THEN 1 ELSE 0
      BY AmongFirstNext DEF q
    <3>2. Occurrences(old[c], p) = IF Category(p) = c THEN AmongFirst(s, n, p) ELSE 0
      BY <2>1 DEF old
    <3>3. old[c] \in Seq(Packages) /\ old \in Plans
      BY <2>1 DEF Plans, old
    <3>4. Occurrences(old[c], p) \in Nat /\ AmongFirst(s, n, p) \in Nat
      <4>1. IsFiniteSet(1..n) /\ {i \in 1..n : s[i] = p} \in SUBSET (1..n)
        BY FS_Interval
      <4> QED
        BY <3>3, <4>1, OccurrencesType, FS_Subset, FS_CardinalityType DEF AmongFirst
    <3>5. CASE c = Category(q)
      <4>1. new[c] = Append(old[c], q)
        BY <2>3, <3>3, <3>5 DEF Plans
      <4>2. Occurrences(new[c], p) = Occurrences(old[c], p) + IF p = q THEN 1 ELSE 0
        BY <2>2, <3>3, <4>1, OccurrencesAppend
      <4> QED
        BY <3>1, <3>2, <3>4, <3>5, <4>2
    <3>6. CASE c # Category(q)
      <4>1. new[c] = old[c]
        BY <2>3, <3>3, <3>6 DEF Plans
      <4> QED
        BY <3>1, <3>2, <3>4, <3>6, <4>1
    <3> QED
      BY <3>5, <3>6
  <2> QED
    BY <2>4, <2>5 DEF new
<1> HIDE DEF S
<1>4. N \in S
  BY <1>2, <1>3, NatSetInduction
<1>5. Counted(N)
  BY <1>4 DEF S
<1>6. \A p : AmongFirst(s, N, p) = Occurrences(s, p)
  <2>1. DOMAIN s = 1..N
    OBVIOUS
  <2> QED
    BY <2>1, Zenon DEF AmongFirst, Occurrences
<1> QED
  BY <1>1, <1>5, <1>6

-----------------------------------------------------------------------------
(* The strengthening for what a plan holds: it is made of what the         *)
(* collector has, which are packages.                                      *)
SortedInv ==
  /\ events \in Seq(Packages)
  /\ pkgs \in Seq(Packages)
  /\ phase \in {"packages", "result", "returned", "threw"}
  /\ plan \in Plans
  /\ phase = "returned" => plan = planFromPackages(pkgs)

LEMMA SortedInit == Init => SortedInv
BY NoPlanType DEF Init, Transaction!ContractInit, SortedInv

LEMMA SortedStep == SortedInv /\ [Next]_vars => SortedInv'
<1> SUFFICES ASSUME SortedInv, [Next]_vars
             PROVE  SortedInv'
  OBVIOUS
<1> USE DEF SortedInv, transactionVars, collectVars
<1>1. CASE CollectPlan
  <2>1. CASE NextPackage
    BY <2>1 DEF NextPackage
  <2>2. CASE StreamDone
    BY <2>2 DEF StreamDone
  <2>3. CASE ReturnPlan
    BY <2>3, PlanCounts DEF ReturnPlan
  <2>4. CASE ThrowError
    BY <2>4 DEF ThrowError
  <2> QED
    BY <1>1, <2>1, <2>2, <2>3, <2>4 DEF CollectPlan
<1>2. CASE TransactionStep
  <2>1. CASE Transaction!Deliver
    BY <1>2, <2>1 DEF TransactionStep, Transaction!Deliver
  <2>2. CASE Transaction!Complete
    BY <1>2, <2>2 DEF TransactionStep, Transaction!Complete
  <2>3. CASE Transaction!End
    BY <1>2, <2>3 DEF TransactionStep, Transaction!End
  <2>4. CASE Transaction!Refuse
    BY <1>2, <2>4 DEF TransactionStep, Transaction!Refuse
  <2> QED
    BY <1>2, <2>1, <2>2, <2>3, <2>4 DEF TransactionStep
<1>3. CASE UNCHANGED vars
  BY <1>3 DEF vars
<1> QED
  BY <1>1, <1>2, <1>3 DEF Next

(* Every variable of the collector has its type: planFromPackages always   *)
(* returns its six lists.                                                  *)
THEOREM CollectorTypes == SafetySpec => []TypeOK
<1>1. SortedInv => TypeOK
  BY DEF SortedInv, TypeOK, Plans
<1> QED
  BY <1>1, SortedInit, SortedStep, PTL DEF SafetySpec

(* Each package the transaction delivered is in one list of the plan, as   *)
(* often as it was delivered, and in no other list.                        *)
THEOREM PlanLosesNothing == SafetySpec => []PlanAccountsForAll
<1>1. ASSUME SortedInv, CollectInv
      PROVE  PlanAccountsForAll
  <2> SUFFICES ASSUME phase = "returned", NEW p \in Packages
               PROVE  \E c \in Categories :
                        /\ Occurrences(plan[c], p) = Occurrences(events, p)
                        /\ \A d \in Categories \ {c} : p \notin Range(plan[d])
    BY DEF PlanAccountsForAll
  <2>1. plan = planFromPackages(events) /\ events \in Seq(Packages) /\ plan \in Plans
    BY <1>1 DEF SortedInv, CollectInv
  <2>2. Category(p) \in Categories
    BY CategoryType
  <2>3. Occurrences(plan[Category(p)], p) = Occurrences(events, p)
    BY <2>1, <2>2, PlanCounts
  <2>4. ASSUME NEW d \in Categories \ {Category(p)}
        PROVE  p \notin Range(plan[d])
    <3>1. Occurrences(plan[d], p) = 0
      BY <2>1, PlanCounts
    <3>2. plan[d] \in Seq(Packages)
      BY <2>1 DEF Plans
    <3> QED
      BY <3>1, <3>2, OccurrencesRange
  <2> QED
    BY <2>2, <2>3, <2>4
<1> QED
  BY <1>1, CollectInit, CollectStep, SortedInit, SortedStep, PTL DEF SafetySpec

(* What two lists hold, one after the other.                               *)
LEMMA RangeConcat ==
  ASSUME NEW S, NEW s \in Seq(S), NEW t \in Seq(S)
  PROVE  s \o t \in Seq(S) /\ Range(s \o t) = Range(s) \cup Range(t)
<1> DEFINE st == s \o t
<1>0. \A r \in Seq(S) : \A x : x \in Range(r) <=> \E i \in 1..Len(r) : x = r[i]
  BY DEF Range
<1>1. st \in Seq(S) /\ Len(st) = Len(s) + Len(t)
  OBVIOUS
<1>2. \A i \in 1..Len(s) : st[i] = s[i]
  OBVIOUS
<1>3. \A i \in 1..Len(t) : i + Len(s) \in 1..Len(st) /\ st[i + Len(s)] = t[i]
  OBVIOUS
<1>4. ASSUME NEW i \in 1..Len(st)
      PROVE  st[i] \in Range(s) \cup Range(t)
  <2>1. CASE i \in 1..Len(s)
    <3> HIDE DEF st
    <3> QED
      BY <1>0, <1>2, <2>1
  <2>2. CASE i \notin 1..Len(s)
    <3>1. i - Len(s) \in 1..Len(t) /\ i = (i - Len(s)) + Len(s)
      BY <1>1, <2>2
    <3> HIDE DEF st
    <3> QED
      BY <1>0, <1>3, <3>1
  <2> QED
    BY <2>1, <2>2
<1> HIDE DEF st
<1>5. Range(s) \subseteq Range(st) /\ Range(t) \subseteq Range(st)
  <2>1. ASSUME NEW x \in Range(s)
        PROVE  x \in Range(st)
    <3>1. PICK i \in 1..Len(s) : x = s[i]
      BY <1>0
    <3>2. i \in 1..Len(st) /\ x = st[i]
      BY <1>1, <1>2, <3>1
    <3> QED
      BY <1>0, <1>1, <3>2
  <2>2. ASSUME NEW x \in Range(t)
        PROVE  x \in Range(st)
    <3>1. PICK i \in 1..Len(t) : x = t[i]
      BY <1>0
    <3>2. i + Len(s) \in 1..Len(st) /\ x = st[i + Len(s)]
      BY <1>3, <3>1
    <3> QED
      BY <1>0, <1>1, <3>2
  <2> QED
    BY <2>1, <2>2
<1>6. Range(st) \subseteq Range(s) \cup Range(t)
  BY <1>0, <1>1, <1>4
<1> QED
  BY <1>1, <1>5, <1>6 DEF st

(* The ids that PkInstallPlan.allIds names are those of the packages that  *)
(* stay or come, never of one that is removed or obsoleted.                *)
THEOREM RemovalsStayOut == SafetySpec => []RemovalsAreNotInstalled
<1>1. ASSUME SortedInv, CollectInv
      PROVE  RemovalsAreNotInstalled
  <2> SUFFICES ASSUME phase = "returned"
               PROVE  Range(allIds(plan)) =
                        {p.id : p \in {q \in Range(events) : q.info \notin {"removing", "obsoleting"}}}
    BY DEF RemovalsAreNotInstalled
  <2> DEFINE Staying == {"installing", "updating", "reinstalling", "downgrading"}
             kept == plan.installing \o plan.updating \o plan.reinstalling \o plan.downgrading
  <2>1. plan = planFromPackages(events) /\ events \in Seq(Packages) /\ plan \in Plans
    BY <1>1 DEF SortedInv, CollectInv
  <2>2. \A c \in Categories : plan[c] \in Seq(Packages)
    BY <2>1 DEF Plans
  <2>3. ASSUME NEW c \in Categories
        PROVE  Range(plan[c]) = {p \in Range(events) : Category(p) = c}
    <3>1. Range(plan[c]) \subseteq Packages /\ Range(events) \subseteq Packages
      BY <2>1, <2>2 DEF Range
    <3>2. \A p \in Packages : p \in Range(plan[c]) <=> p \in Range(events) /\ Category(p) = c
      BY <2>1, <2>2, PlanCounts, OccurrencesRange
    <3> QED
      BY <3>1, <3>2
  <2>4. Staying \subseteq Categories
    BY DEF Categories
  <2>5. kept \in Seq(Packages) /\ Range(kept) = UNION {Range(plan[c]) : c \in Staying}
    <3> DEFINE two == plan.installing \o plan.updating
               three == two \o plan.reinstalling
    <3>1. two \in Seq(Packages) /\ Range(two) = Range(plan.installing) \cup Range(plan.updating)
      BY <2>2, <2>4, RangeConcat
    <3>2. three \in Seq(Packages) /\ Range(three) = Range(two) \cup Range(plan.reinstalling)
      <4> HIDE DEF two
      <4> QED
        BY <2>2, <2>4, <3>1, RangeConcat
    <3>3. kept \in Seq(Packages) /\ Range(kept) = Range(three) \cup Range(plan.downgrading)
      <4> HIDE DEF three
      <4>1. kept = three \o plan.downgrading
        BY DEF three
      <4> HIDE DEF kept
      <4> QED
        BY <2>2, <2>4, <3>2, <4>1, RangeConcat
    <3> HIDE DEF two, three, kept
    <3> QED
      BY <3>1, <3>2, <3>3
  <2>6. \A p \in Packages :
          Category(p) \in Staying <=> p.info \notin {"removing", "obsoleting"}
    BY DEF Category, Categories
  <2>7. Range(kept) = {q \in Range(events) : q.info \notin {"removing", "obsoleting"}}
    <3>1. Range(events) \subseteq Packages
      BY <2>1 DEF Range
    <3> HIDE DEF kept
    <3> QED
      BY <2>3, <2>4, <2>5, <2>6, <3>1
  <2>8. allIds(plan) = [i \in DOMAIN kept |-> kept[i].id]
    BY DEF allIds
  <2>9. Range(allIds(plan)) = {p.id : p \in Range(kept)}
    <3> HIDE DEF kept
    <3> QED
      BY <2>8 DEF Range
  <2> HIDE DEF kept
  <2> QED
    BY <2>7, <2>9
<1> QED
  BY <1>1, CollectInit, CollectStep, SortedInit, SortedStep, PTL DEF SafetySpec
=============================================================================
