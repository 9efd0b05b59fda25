--------------------------------- MODULE Lists ---------------------------------
(***************************************************************************)
(* Array.prototype.filter and Rust's retain, as a function of the set of   *)
(* the elements that stay, with what is proved of it once for every        *)
(* component that filters a list.  It is SelectSeq, which takes a          *)
(* predicate in place of the set and of which the provers know nothing.    *)
(* Lists joined, FlattenSeq, follow it.                                    *)
(***************************************************************************)
EXTENDS Naturals, SequencesExt, WellFoundedInduction, TLAPS

Filtered(list, Good) ==
  LET kept[i \in 0 .. Len(list)] ==
        IF i = 0 THEN <<>>
        ELSE IF list[i] \in Good THEN Append(kept[i - 1], list[i]) ELSE kept[i - 1]
  IN kept[Len(list)]

-----------------------------------------------------------------------------
(* Induction over the natural numbers, for a set in place of a predicate.  *)
LEMMA SetInduction ==
  ASSUME NEW S, 0 \in S, \A n \in Nat : n \in S => n + 1 \in S
  PROVE  Nat \subseteq S
<1> DEFINE T == {n \in Nat : n \notin S}
<1>1. SUFFICES ASSUME T # {} PROVE FALSE
  OBVIOUS
<1>2. \E x \in T : \A y \in T : <<y, x>> \notin OpToRel(<, Nat)
  <2>1. T \subseteq Nat
    OBVIOUS
  <2> HIDE DEF T
  <2> QED BY <1>1, <2>1, NatLessThanWellFounded, WFMin
<1>3. PICK x \in T : \A y \in T : <<y, x>> \notin OpToRel(<, Nat)
  BY <1>2
<1>4. x - 1 \in Nat /\ x - 1 \in T /\ x - 1 < x
  OBVIOUS
<1>5. <<x - 1, x>> \in OpToRel(<, Nat)
  BY <1>4 DEF OpToRel
<1> QED BY <1>3, <1>4, <1>5

(* Over an interval from 0.                                                *)
LEMMA IntervalInduction ==
  ASSUME NEW n \in Nat, NEW S, 0 \in S,
         \A i \in 0 .. n - 1 : i \in S => i + 1 \in S
  PROVE  0 .. n \subseteq S
<1> DEFINE T == S \cup {i \in Nat : i > n}
<1>1. 0 \in T /\ \A i \in Nat : i \in T => i + 1 \in T
  OBVIOUS
<1>2. Nat \subseteq T
  <2> HIDE DEF T
  <2> QED BY <1>1, SetInduction
<1> QED BY <1>2

(* A set of natural numbers that is not empty has a least member.          *)
LEMMA LeastExists ==
  ASSUME NEW T \in SUBSET Nat, T # {}
  PROVE  \E i \in T : \A j \in T : i <= j
<1>1. PICK x \in T : \A y \in T : <<y, x>> \notin OpToRel(<, Nat)
  BY NatLessThanWellFounded, WFMin
<1>2. ASSUME NEW y \in T PROVE x <= y
  <2>1. ~(y < x)
    BY <1>1 DEF OpToRel
  <2> QED BY <2>1
<1> QED BY <1>2

(* A function of 0 .. n may be defined by its value at 0 and, after that,   *)
(* from its value one place before.                                        *)
Steps(next, n, S) == next \in [1 .. n -> [S -> S]]

Run(f, n, S, start, next) ==
  f \in [0 .. n -> S] /\ f[0] = start /\ \A i \in 1 .. n : f[i] = next[i][f[i - 1]]

LEMMA Recursion ==
  ASSUME NEW n \in Nat, NEW S, NEW start \in S, NEW next, Steps(next, n, S)
  PROVE  \E f : Run(f, n, S, start, next)
<1> USE DEF Steps
<1> DEFINE Solves(f, m) ==
             f[0] = start /\ \A i \in 1 .. m : f[i] = next[i][f[i - 1]]
           Good == {m \in 0 .. n : \E f \in [0 .. m -> S] : Solves(f, m)}
<1>1. 0 \in Good
  <2> DEFINE f == [i \in 0 .. 0 |-> start]
  <2>1. f \in [0 .. 0 -> S] /\ Solves(f, 0)
    OBVIOUS
  <2> HIDE DEF f
  <2> QED BY <2>1
<1>2. ASSUME NEW m \in 0 .. n - 1, m \in Good PROVE m + 1 \in Good
  <2>1. PICK f \in [0 .. m -> S] : Solves(f, m)
    BY <1>2
  <2> DEFINE new == next[m + 1][f[m]]
             g   == [i \in 0 .. m + 1 |-> IF i = m + 1 THEN new ELSE f[i]]
  <2>2. m \in Nat /\ m + 1 \in 1 .. n /\ m + 1 \in 0 .. n /\ m + 1 - 1 = m
    OBVIOUS
  <2>3. f[m] \in S /\ new \in S
    BY <2>2
  <2>4. g \in [0 .. m + 1 -> S]
    <3> HIDE DEF new
    <3>1. \A i \in 0 .. m + 1 : i # m + 1 => i \in 0 .. m
      BY <2>2
    <3> QED BY <2>1, <2>3, <3>1
  <2>5. g[m + 1] = new /\ \A i \in 0 .. m : g[i] = f[i]
    <3> HIDE DEF new
    <3> QED BY <2>2
  <2> HIDE DEF g
  <2>6. g[0] = start
    BY <2>1, <2>2, <2>5
  <2>7. ASSUME NEW i \in 1 .. m + 1 PROVE g[i] = next[i][g[i - 1]]
    <3>1. CASE i = m + 1
      <4>1. g[i - 1] = f[m]
        BY <2>2, <2>5, <3>1
      <4> QED BY <2>5, <3>1, <4>1
    <3>2. CASE i # m + 1
      <4>1. i \in 1 .. m /\ i \in 0 .. m /\ i - 1 \in 0 .. m
        BY <2>2, <3>2
      <4>2. g[i] = f[i] /\ g[i - 1] = f[i - 1]
        BY <2>5, <4>1
      <4> QED BY <2>1, <4>1, <4>2
    <3> QED BY <3>1, <3>2
  <2> QED BY <2>2, <2>4, <2>6, <2>7
<1>3. \A m \in 0 .. n - 1 : m \in Good => m + 1 \in Good
  BY <1>2
<1>4. 0 .. n \subseteq Good
  <2> HIDE DEF Good
  <2> QED BY <1>1, <1>3, IntervalInduction
<1>5. n \in Good
  BY <1>4
<1>6. PICK f \in [0 .. n -> S] : Solves(f, n)
  BY <1>5
<1> QED BY <1>6 DEF Run

-----------------------------------------------------------------------------
(* The recursion of Filtered has a solution, and Filtered is one of them.  *)
Keeps(kept, list, Good) ==
  kept = [i \in 0 .. Len(list) |->
            IF i = 0 THEN <<>>
            ELSE IF list[i] \in Good THEN Append(kept[i - 1], list[i]) ELSE kept[i - 1]]

LEMMA FilteredRecursion ==
  ASSUME NEW V, NEW list \in Seq(V), NEW Good
  PROVE  \E kept : Keeps(kept, list, Good) /\ Filtered(list, Good) = kept[Len(list)]
<1> DEFINE n    == Len(list)
           next == [i \in 1 .. n |-> [kept \in Seq(V) |->
                      IF list[i] \in Good THEN Append(kept, list[i]) ELSE kept]]
<1>1. n \in Nat /\ <<>> \in Seq(V) /\ next \in [1 .. n -> [Seq(V) -> Seq(V)]]
  OBVIOUS
<1>2. Steps(next, n, Seq(V))
  BY <1>1 DEF Steps
<1>3. PICK f : Run(f, n, Seq(V), <<>>, next)
  <2> HIDE DEF n, next
  <2> QED BY <1>1, <1>2, Recursion
<1>4. ASSUME NEW i \in 0 .. n
      PROVE  f[i] = IF i = 0 THEN <<>>
                    ELSE IF list[i] \in Good THEN Append(f[i - 1], list[i]) ELSE f[i - 1]
  <2>1. i # 0 => i \in 1 .. n /\ i - 1 \in 0 .. n
    BY <1>1
  <2> QED BY <1>3, <2>1 DEF Run
<1>5. Keeps(f, list, Good)
  BY <1>3, <1>4 DEF Keeps, Run
<1> DEFINE it == CHOOSE kept : Keeps(kept, list, Good)
<1>6. Keeps(it, list, Good)
  BY <1>5
<1>7. Filtered(list, Good) = it[n]
  BY DEF Filtered, Keeps
<1> QED BY <1>6, <1>7

(* What stays is the list at some increasing places: all those whose       *)
(* element is to stay.                                                     *)
KeptAt(at, result, list, Good, m) ==
  /\ Len(result) <= m /\ at \in [1 .. Len(result) -> 1 .. m]
  /\ \A i \in 1 .. Len(result) : result[i] = list[at[i]] /\ list[at[i]] \in Good
  /\ \A i, j \in 1 .. Len(result) : i < j => at[i] < at[j]
  /\ \A k \in 1 .. m : list[k] \in Good => \E i \in 1 .. Len(result) : at[i] = k

LEMMA FilteredPlaces ==
  ASSUME NEW V, NEW list \in Seq(V), NEW Good
  PROVE  /\ Filtered(list, Good) \in Seq(V)
         /\ \E at : KeptAt(at, Filtered(list, Good), list, Good, Len(list))
<1> DEFINE n == Len(list)
<1>1. PICK kept : Keeps(kept, list, Good) /\ Filtered(list, Good) = kept[n]
  BY FilteredRecursion
<1>2. n \in Nat
  OBVIOUS
<1> DEFINE S == {m \in 0 .. n : /\ kept[m] \in Seq(V)
                                /\ \E at : KeptAt(at, kept[m], list, Good, m)}
<1>3. 0 \in S
  <2>1. kept[0] = <<>>
    BY <1>1, <1>2 DEF Keeps
  <2>2. KeptAt([i \in 1 .. 0 |-> 0], <<>>, list, Good, 0)
    BY DEF KeptAt
  <2>3. kept[0] \in Seq(V) /\ \E at : KeptAt(at, kept[0], list, Good, 0)
    BY <2>1, <2>2
  <2> QED BY <2>3, <1>2
<1>4. ASSUME NEW m \in 0 .. n - 1, m \in S PROVE m + 1 \in S
  <2>1. kept[m] \in Seq(V)
    BY <1>4
  <2>2. PICK at : KeptAt(at, kept[m], list, Good, m)
    BY <1>4
  <2>4. /\ m + 1 \in 1 .. n /\ m + 1 \in 0 .. n /\ m + 1 # 0 /\ (m + 1) - 1 = m
        /\ m \in Nat /\ list[m + 1] \in V
    BY <1>2
  <2>3. kept[m + 1] = IF list[m + 1] \in Good THEN Append(kept[m], list[m + 1]) ELSE kept[m]
    <3> HIDE DEF n
    <3>1. kept[m + 1] = IF list[m + 1] \in Good THEN Append(kept[(m + 1) - 1], list[m + 1])
                                                 ELSE kept[(m + 1) - 1]
      BY <1>1, <2>4 DEF Keeps, n
    <3> QED BY <3>1, <2>4
  <2>5. CASE list[m + 1] \in Good
    <3> DEFINE new == Append(kept[m], list[m + 1])
               l   == Len(kept[m])
               to  == [i \in 1 .. l + 1 |-> IF i = l + 1 THEN m + 1 ELSE at[i]]
    <3>1. new \in Seq(V) /\ Len(new) = l + 1 /\ l \in Nat
      BY <2>1, <2>4
    <3>2. ASSUME NEW i \in 1 .. l
          PROVE  new[i] = kept[m][i] /\ to[i] = at[i] /\ at[i] \in 1 .. m
      <4>1. i # l + 1 /\ i \in 1 .. l + 1
        BY <3>1
      <4>2. at[i] \in 1 .. m
        BY <2>2 DEF KeptAt
      <4> QED BY <2>1, <4>1, <4>2
    <3>9. /\ l = Len(kept[m]) /\ l <= m
          /\ at \in [1 .. l -> 1 .. m]
          /\ \A i \in 1 .. l : kept[m][i] = list[at[i]] /\ list[at[i]] \in Good
          /\ \A i, j \in 1 .. l : i < j => at[i] < at[j]
          /\ \A k \in 1 .. m : list[k] \in Good => \E i \in 1 .. l : at[i] = k
      BY <2>2 DEF KeptAt
    <3>10. to = [i \in 1 .. l + 1 |-> to[i]]
      OBVIOUS
    <3>3. new[l + 1] = list[m + 1] /\ to[l + 1] = m + 1
      BY <2>1, <3>1
    <3> HIDE DEF new, l, to
    <3>4. to \in [1 .. l + 1 -> 1 .. m + 1]
      <4>1. \A i \in 1 .. l + 1 : to[i] \in 1 .. m + 1
        BY <3>1, <3>2, <3>3, <2>4
      <4> QED BY <4>1, <3>10
    <3>5. \A i \in 1 .. l + 1 : new[i] = list[to[i]] /\ list[to[i]] \in Good
      <4> TAKE i \in 1 .. l + 1
      <4>1. CASE i = l + 1
        BY <4>1, <2>5, <3>3
      <4>2. CASE i # l + 1
        <5>1. i \in 1 .. l
          BY <4>2, <3>1
        <5> QED BY <5>1, <3>2, <3>9
      <4> QED BY <4>1, <4>2
    <3>6. \A i, j \in 1 .. l + 1 : i < j => to[i] < to[j]
      <4> SUFFICES ASSUME NEW i \in 1 .. l + 1, NEW j \in 1 .. l + 1, i < j
                   PROVE  to[i] < to[j]
        OBVIOUS
      <4>1. CASE j = l + 1
        BY <4>1, <3>1, <3>2, <3>3, <2>4
      <4>2. CASE j # l + 1
        <5>1. i \in 1 .. l /\ j \in 1 .. l
          BY <4>2, <3>1
        <5> QED BY <5>1, <3>2, <3>9
      <4> QED BY <4>1, <4>2
    <3>7. ASSUME NEW k \in 1 .. m + 1, list[k] \in Good
          PROVE  \E i \in 1 .. l + 1 : to[i] = k
      <4>1. CASE k = m + 1
        BY <4>1, <3>1, <3>3
      <4>2. CASE k # m + 1
        <5>1. PICK i \in 1 .. l : at[i] = k
          <6>1. k \in 1 .. m
            BY <4>2, <2>4
          <6> QED BY <6>1, <3>7, <3>9
        <5> QED BY <5>1, <3>1, <3>2
      <4> QED BY <4>1, <4>2
    <3>8. KeptAt(to, new, list, Good, m + 1)
      BY <2>4, <3>1, <3>4, <3>5, <3>6, <3>7, <3>9 DEF KeptAt
    <3>11. kept[m + 1] = new
      BY <2>3, <2>5 DEF new
    <3> QED BY <2>4, <3>1, <3>8, <3>11
  <2>6. CASE list[m + 1] \notin Good
    <3>1. KeptAt(at, kept[m], list, Good, m + 1)
      BY <2>2, <2>6, <1>2 DEF KeptAt
    <3> QED BY <2>1, <2>3, <2>4, <2>6, <3>1
  <2> QED BY <2>5, <2>6
<1>5. n \in S
  <2>1. \A m \in 0 .. n - 1 : m \in S => m + 1 \in S
    BY <1>4
  <2> HIDE DEF S, n
  <2>2. 0 .. n \subseteq S
    BY <1>2, <1>3, <2>1, IntervalInduction
  <2> QED BY <1>2, <2>2
<1> QED BY <1>1, <1>5

(* What the components use of it.                                          *)
LEMMA FilteredMembers ==
  ASSUME NEW V, NEW list \in Seq(V), NEW Good
  PROVE  ToSet(Filtered(list, Good)) = ToSet(list) \cap Good
<1> DEFINE r == Filtered(list, Good)
<1>1. r \in Seq(V)
  BY FilteredPlaces
<1>2. PICK at : KeptAt(at, r, list, Good, Len(list))
  BY FilteredPlaces
<1> HIDE DEF r
<1>3. ASSUME NEW i \in 1 .. Len(r) PROVE r[i] \in ToSet(list) \cap Good
  <2>1. at[i] \in 1 .. Len(list) /\ r[i] = list[at[i]] /\ r[i] \in Good
    BY <1>2 DEF KeptAt
  <2> QED BY <2>1 DEF ToSet
<1>4. ASSUME NEW k \in 1 .. Len(list), list[k] \in Good PROVE list[k] \in ToSet(r)
  <2>1. PICK i \in 1 .. Len(r) : at[i] = k
    BY <1>2, <1>4 DEF KeptAt
  <2>2. r[i] = list[k]
    BY <1>2, <2>1 DEF KeptAt
  <2> QED BY <1>1, <2>2 DEF ToSet
<1>5. DOMAIN r = 1 .. Len(r) /\ DOMAIN list = 1 .. Len(list)
  BY <1>1
<1>6. ToSet(r) = ToSet(list) \cap Good
  BY <1>3, <1>4, <1>5 DEF ToSet
<1> QED BY <1>6 DEF r

LEMMA FilteredType ==
  ASSUME NEW V, NEW list \in Seq(V), NEW Good
  PROVE  Filtered(list, Good) \in Seq(V) /\ Len(Filtered(list, Good)) <= Len(list)
<1> DEFINE r == Filtered(list, Good)
<1>1. r \in Seq(V) /\ \E at : KeptAt(at, r, list, Good, Len(list))
  BY FilteredPlaces
<1> HIDE DEF r
<1>2. Len(r) <= Len(list)
  BY <1>1 DEF KeptAt
<1> QED BY <1>1, <1>2 DEF r

LEMMA FilteredDistinct ==
  ASSUME NEW V, NEW list \in Seq(V), NEW Good, IsInjective(list)
  PROVE  IsInjective(Filtered(list, Good))
<1> DEFINE r == Filtered(list, Good)
<1>1. r \in Seq(V)
  BY FilteredPlaces
<1>2. PICK at : KeptAt(at, r, list, Good, Len(list))
  BY FilteredPlaces
<1> HIDE DEF r
<1>3. ASSUME NEW i \in 1 .. Len(r), NEW j \in 1 .. Len(r), r[i] = r[j] PROVE i = j
  <2>1. /\ at[i] \in 1 .. Len(list) /\ at[j] \in 1 .. Len(list)
        /\ r[i] = list[at[i]] /\ r[j] = list[at[j]]
    BY <1>2 DEF KeptAt
  <2>2. at[i] = at[j]
    <3>1. \A k, l \in 1 .. Len(list) : list[k] = list[l] => k = l
      BY DEF IsInjective
    <3> QED BY <1>3, <2>1, <3>1
  <2>3. i < j => at[i] < at[j]
    BY <1>2 DEF KeptAt
  <2>4. j < i => at[j] < at[i]
    BY <1>2 DEF KeptAt
  <2> QED BY <1>1, <2>1, <2>2, <2>3, <2>4
<1>4. IsInjective(r)
  BY <1>1, <1>3 DEF IsInjective
<1> QED BY <1>4 DEF r

LEMMA FilteredAll ==
  ASSUME NEW V, NEW list \in Seq(V), NEW Good, ToSet(list) \subseteq Good
  PROVE  Filtered(list, Good) = list
<1> DEFINE n == Len(list)
<1>1. PICK kept : Keeps(kept, list, Good) /\ Filtered(list, Good) = kept[n]
  BY FilteredRecursion
<1>2. n \in Nat /\ \A i \in 1 .. n : list[i] \in Good /\ list[i] \in V
  BY DEF ToSet
<1> DEFINE S == {m \in 0 .. n : /\ kept[m] \in Seq(V) /\ Len(kept[m]) = m
                                /\ \A i \in 1 .. m : kept[m][i] = list[i]}
<1>3. 0 \in S
  <2>1. kept[0] = <<>>
    BY <1>1, <1>2 DEF Keeps
  <2>2. kept[0] \in Seq(V) /\ Len(kept[0]) = 0
    BY <2>1
  <2> QED BY <1>2, <2>2
<1>4. ASSUME NEW m \in 0 .. n - 1, m \in S PROVE m + 1 \in S
  <2>1. m \in Nat /\ m + 1 \in 1 .. n /\ m + 1 \in 0 .. n /\ m + 1 # 0 /\ m + 1 - 1 = m
    BY <1>2
  <2>2. kept[m + 1] = Append(kept[m], list[m + 1])
    <3> HIDE DEF S, n
    <3>1. kept[m + 1] = IF list[m + 1] \in Good THEN Append(kept[(m + 1) - 1], list[m + 1])
                                                 ELSE kept[(m + 1) - 1]
      BY <1>1, <2>1 DEF Keeps, n
    <3> QED BY <1>2, <2>1, <3>1
  <2>3. kept[m] \in Seq(V) /\ Len(kept[m]) = m /\ \A i \in 1 .. m : kept[m][i] = list[i]
    BY <1>4
  <2>4. kept[m + 1] \in Seq(V) /\ Len(kept[m + 1]) = m + 1
    BY <1>2, <2>1, <2>2, <2>3
  <2>5. ASSUME NEW i \in 1 .. m + 1 PROVE kept[m + 1][i] = list[i]
    <3>1. CASE i = m + 1
      BY <1>2, <2>1, <2>2, <2>3, <3>1
    <3>2. CASE i # m + 1
      <4>1. i \in 1 .. m
        BY <2>1, <3>2
      <4> QED BY <1>2, <2>1, <2>2, <2>3, <4>1
    <3> QED BY <3>1, <3>2
  <2> QED BY <2>1, <2>4, <2>5
<1>5. n \in S
  <2>1. \A m \in 0 .. n - 1 : m \in S => m + 1 \in S
    BY <1>4
  <2> HIDE DEF S, n
  <2>2. 0 .. n \subseteq S
    BY <1>2, <1>3, <2>1, IntervalInduction
  <2> QED BY <1>2, <2>2
<1>6. kept[n] \in Seq(V) /\ Len(kept[n]) = Len(list) /\ \A i \in 1 .. n : kept[n][i] = list[i]
  BY <1>5
<1>7. kept[n] = list
  BY <1>6
<1> QED BY <1>1, <1>7

(* One more element.                                                       *)
LEMMA AppendMembers ==
  ASSUME NEW V, NEW list \in Seq(V), NEW e \in V
  PROVE  /\ Append(list, e) \in Seq(V) /\ Len(Append(list, e)) = Len(list) + 1
         /\ ToSet(Append(list, e)) = ToSet(list) \cup {e}
<1> DEFINE n == Len(list)
           l == Append(list, e)
<1>1. /\ n \in Nat /\ l \in Seq(V) /\ Len(l) = n + 1 /\ l[n + 1] = e
      /\ \A i \in 1 .. n : l[i] = list[i]
  OBVIOUS
<1>2. DOMAIN list = 1 .. n /\ DOMAIN l = 1 .. n + 1
  <2> HIDE DEF l
  <2> QED BY <1>1
<1> HIDE DEF n, l
<1>3. ToSet(l) \subseteq ToSet(list) \cup {e}
  <2>1. ASSUME NEW i \in 1 .. n + 1 PROVE l[i] \in ToSet(list) \cup {e}
    <3>1. CASE i = n + 1
      BY <1>1, <3>1
    <3>2. CASE i # n + 1
      <4>1. i \in 1 .. n
        BY <1>1, <3>2
      <4> QED BY <1>1, <1>2, <4>1 DEF ToSet
    <3> QED BY <3>1, <3>2
  <2> QED BY <1>2, <2>1 DEF ToSet
<1>4. ToSet(list) \cup {e} \subseteq ToSet(l)
  <2>1. n + 1 \in 1 .. n + 1 /\ \A i \in 1 .. n : i \in 1 .. n + 1
    BY <1>1
  <2> QED BY <1>1, <1>2, <2>1 DEF ToSet
<1> QED BY <1>1, <1>3, <1>4 DEF n, l

-----------------------------------------------------------------------------
(* Two lists without repetitions that share nothing make one without.      *)
LEMMA JoinFacts ==
  ASSUME NEW V, NEW p \in Seq(V), NEW q \in Seq(V)
  PROVE  /\ p \o q \in Seq(V) /\ ToSet(p \o q) = ToSet(p) \cup ToSet(q)
         /\ IsInjective(p) /\ IsInjective(q) /\ ToSet(p) \cap ToSet(q) = {}
              => IsInjective(p \o q)
<1> DEFINE l == p \o q
           m == Len(p)
           n == Len(q)
<1>1. /\ l \in Seq(V) /\ m \in Nat /\ n \in Nat
      /\ DOMAIN p = 1 .. m /\ DOMAIN q = 1 .. n /\ DOMAIN l = 1 .. m + n
      /\ \A i \in 1 .. m + n : l[i] = IF i <= m THEN p[i] ELSE q[i - m]
  OBVIOUS
<1> HIDE DEF l, m, n
<1>2. \A i \in 1 .. m : i \in 1 .. m + n /\ l[i] = p[i]
  BY <1>1
<1>3. ASSUME NEW i \in 1 .. n PROVE i + m \in 1 .. m + n /\ l[i + m] = q[i]
  <2>1. i + m \in 1 .. m + n /\ ~(i + m <= m) /\ i + m - m = i
    BY <1>1
  <2> QED BY <1>1, <2>1
<1>4. \A i \in 1 .. m + n : i \in 1 .. m \/ (i - m \in 1 .. n /\ l[i] = q[i - m])
  BY <1>1
<1>5. ToSet(l) = ToSet(p) \cup ToSet(q)
  <2>1. ToSet(p) \subseteq ToSet(l)
    BY <1>1, <1>2 DEF ToSet
  <2>2. ToSet(q) \subseteq ToSet(l)
    BY <1>1, <1>3 DEF ToSet
  <2>3. ASSUME NEW i \in 1 .. m + n PROVE l[i] \in ToSet(p) \cup ToSet(q)
    BY <1>1, <1>2, <1>4 DEF ToSet
  <2> QED BY <1>1, <2>1, <2>2, <2>3 DEF ToSet
<1>6. ASSUME IsInjective(p), IsInjective(q), ToSet(p) \cap ToSet(q) = {}
      PROVE  IsInjective(l)
  <2>1. \A i \in 1 .. m, j \in 1 .. n : p[i] # q[j]
    BY <1>1, <1>6 DEF ToSet
  <2> SUFFICES ASSUME NEW i \in 1 .. m + n, NEW j \in 1 .. m + n, l[i] = l[j] PROVE i = j
    BY <1>1 DEF IsInjective
  <2>2. CASE i \in 1 .. m /\ j \in 1 .. m
    BY <1>1, <1>2, <1>6, <2>2 DEF IsInjective
  <2>3. CASE i \in 1 .. m /\ j \notin 1 .. m
    BY <1>2, <1>4, <2>1, <2>3
  <2>4. CASE i \notin 1 .. m /\ j \in 1 .. m
    BY <1>2, <1>4, <2>1, <2>4
  <2>5. CASE i \notin 1 .. m /\ j \notin 1 .. m
    <3>1. i - m \in 1 .. n /\ j - m \in 1 .. n /\ q[i - m] = q[j - m]
      BY <1>4, <2>5
    <3>2. i - m = j - m
      BY <1>1, <1>6, <3>1 DEF IsInjective
    <3> QED BY <1>1, <3>2
  <2> QED BY <2>2, <2>3, <2>4, <2>5
<1> QED BY <1>1, <1>5, <1>6 DEF l

-----------------------------------------------------------------------------
(* Lists joined one after the other: FlattenSeq by its partial sums, which *)
(* its definition gives from the first list on.                            *)
Joins(sums, lists) ==
  /\ sums[0] = <<>> /\ \A i \in 1 .. Len(lists) : sums[i] = sums[i - 1] \o lists[i]

LEMMA FlattenSums ==
  ASSUME NEW V, NEW lists \in Seq(Seq(V))
  PROVE  \E sums \in [0 .. Len(lists) -> Seq(V)] :
           Joins(sums, lists) /\ FlattenSeq(lists) = sums[Len(lists)]
<1> DEFINE n    == Len(lists)
           next == [i \in 1 .. n |-> [s \in Seq(V) |-> s \o lists[i]]]
<1>1. n \in Nat /\ <<>> \in Seq(V) /\ \A i \in 1 .. n : lists[i] \in Seq(V)
  OBVIOUS
<1>2. Steps(next, n, Seq(V))
  BY <1>1 DEF Steps
<1>3. PICK g : Run(g, n, Seq(V), <<>>, next)
  <2> HIDE DEF n, next
  <2> QED BY <1>1, <1>2, Recursion
<1>4. g \in [0 .. n -> Seq(V)] /\ g[0] = <<>> /\ \A i \in 1 .. n : g[i] = g[i - 1] \o lists[i]
  <2>1. ASSUME NEW i \in 1 .. n PROVE g[i] = g[i - 1] \o lists[i]
    <3>1. i - 1 \in 0 .. n
      BY <1>1
    <3>2. g[i - 1] \in Seq(V) /\ g[i] = next[i][g[i - 1]]
      <4> HIDE DEF next, n
      <4> QED BY <1>3, <3>1 DEF Run
    <3>3. next[i][g[i - 1]] = g[i - 1] \o lists[i]
      BY <3>2
    <3> QED BY <3>2, <3>3
  <2> QED BY <1>3, <2>1 DEF Run
<1>5. CASE n = 0
  <2>1. lists = <<>>
    BY <1>5
  <2>2. FlattenSeq(lists) = lists
    BY <1>5 DEF FlattenSeq
  <2> QED BY <1>4, <1>5, <2>1, <2>2 DEF Joins
<1>6. CASE n # 0
  <2> DEFINE F(f) == f = [i \in 1 .. n |-> IF i = 1 THEN lists[i] ELSE f[i - 1] \o lists[i]]
             f0   == [i \in 1 .. n |-> g[i]]
             it   == CHOOSE f : F(f)
  <2>1. F(f0)
    <3>1. ASSUME NEW i \in 1 .. n
          PROVE  g[i] = IF i = 1 THEN lists[i] ELSE f0[i - 1] \o lists[i]
      <4>1. CASE i = 1
        <5>1. 1 \in 1 .. n /\ lists[1] \in Seq(V)
          BY <1>1, <4>1
        <5>2. g[1] = <<>> \o lists[1]
          <6>1. g[1] = g[1 - 1] \o lists[1] /\ g[0] = <<>>
            BY <1>4, <5>1
          <6>2. 1 - 1 = 0
            OBVIOUS
          <6> HIDE DEF n, next, f0, it
          <6> QED BY <6>1, <6>2
        <5>3. g[1] = lists[1]
          BY <5>1, <5>2
        <5> QED BY <4>1, <5>3
      <4>2. CASE i # 1
        <5>1. i - 1 \in 1 .. n
          BY <1>1, <4>2
        <5> QED BY <1>4, <4>2, <5>1
      <4> QED BY <4>1, <4>2
    <3> QED BY <3>1
  <2>2. F(it)
    BY <2>1
  <2>3. FlattenSeq(lists) = it[n]
    BY <1>6 DEF FlattenSeq
  <2> DEFINE sums == [i \in 0 .. n |-> IF i = 0 THEN <<>> ELSE it[i]]
  <2> HIDE DEF it
  <2>4. \A i \in 1 .. n : sums[i] = sums[i - 1] \o lists[i]
    <3> TAKE i \in 1 .. n
    <3>1. CASE i = 1
      <4>1. it[1] = lists[1] /\ sums[1] = it[1] /\ sums[0] = <<>> /\ lists[1] \in Seq(V)
        BY <1>1, <2>2, <3>1
      <4>2. <<>> \o lists[1] = lists[1]
        BY <4>1
      <4>3. sums[1] = sums[0] \o lists[1]
        <5> HIDE DEF sums
        <5> QED BY <4>1, <4>2
      <4>4. i - 1 = 0
        BY <3>1
      <4> HIDE DEF sums
      <4> QED BY <3>1, <4>3, <4>4
    <3>2. CASE i # 1
      <4>1. i - 1 \in 1 .. n /\ i - 1 # 0 /\ i # 0
        BY <1>1, <3>2
      <4>2. it[i] = it[i - 1] \o lists[i]
        BY <2>2, <3>2
      <4>3. sums[i] = it[i] /\ sums[i - 1] = it[i - 1]
        BY <4>1
      <4> HIDE DEF sums
      <4> QED BY <4>2, <4>3
    <3> QED BY <3>1, <3>2
  <2>5. \A i \in 0 .. n : sums[i] \in Seq(V)
    <3> DEFINE S == {i \in 0 .. n : sums[i] \in Seq(V)}
    <3>1. 0 \in S
      BY <1>1
    <3>2. ASSUME NEW i \in 0 .. n - 1, i \in S PROVE i + 1 \in S
      <4>1. i + 1 \in 1 .. n /\ (i + 1) - 1 = i /\ i + 1 \in 0 .. n
        BY <1>1
      <4> HIDE DEF sums
      <4>2. sums[i + 1] = sums[i] \o lists[i + 1]
        BY <2>4, <4>1
      <4>3. sums[i] \in Seq(V) /\ lists[i + 1] \in Seq(V)
        BY <1>1, <3>2, <4>1
      <4>4. sums[i + 1] \in Seq(V)
        BY <4>2, <4>3
      <4> QED BY <4>1, <4>4
    <3>3. \A i \in 0 .. n - 1 : i \in S => i + 1 \in S
      BY <3>2
    <3> HIDE DEF S
    <3>4. 0 .. n \subseteq S
      BY <1>1, <3>1, <3>3, IntervalInduction
    <3> QED BY <3>4 DEF S
  <2>6. sums \in [0 .. n -> Seq(V)] /\ sums[0] = <<>> /\ sums[n] = it[n]
    BY <1>1, <1>6, <2>5
  <2> HIDE DEF sums
  <2> QED BY <2>3, <2>4, <2>6 DEF Joins
<1> QED BY <1>5, <1>6

(* It has the members of all the lists.                                    *)
LEMMA FlattenMembers ==
  ASSUME NEW V, NEW lists \in Seq(Seq(V))
  PROVE  /\ FlattenSeq(lists) \in Seq(V)
         /\ ToSet(FlattenSeq(lists)) = UNION {ToSet(lists[i]) : i \in DOMAIN lists}
<1> DEFINE n == Len(lists)
<1>1. PICK sums \in [0 .. n -> Seq(V)] :
        Joins(sums, lists) /\ FlattenSeq(lists) = sums[n]
  BY FlattenSums
<1>2. n \in Nat /\ DOMAIN lists = 1 .. n /\ \A i \in 1 .. n : lists[i] \in Seq(V)
  OBVIOUS
<1> HIDE DEF n
<1> DEFINE S == {m \in 0 .. n : ToSet(sums[m]) = UNION {ToSet(lists[i]) : i \in 1 .. m}}
<1>3. 0 \in S
  <2>1. sums[0] = <<>> /\ ToSet(<<>>) = {}
    BY <1>1 DEF Joins, ToSet
  <2> QED BY <1>2, <2>1
<1>4. ASSUME NEW m \in 0 .. n - 1, m \in S PROVE m + 1 \in S
  <2>1. m + 1 \in 1 .. n /\ (m + 1) - 1 = m /\ m + 1 \in 0 .. n /\ m \in 0 .. n
    BY <1>2
  <2>2. sums[m + 1] = sums[m] \o lists[m + 1]
    BY <1>1, <1>2, <2>1, n = Len(lists) DEF Joins, n
  <2>3. sums[m] \in Seq(V) /\ lists[m + 1] \in Seq(V)
    BY <1>2, <2>1
  <2>4. ToSet(sums[m + 1]) = ToSet(sums[m]) \cup ToSet(lists[m + 1])
    BY <2>2, <2>3, JoinFacts
  <2>5. 1 .. m + 1 = 1 .. m \cup {m + 1}
    BY <2>1
  <2>6. UNION {ToSet(lists[i]) : i \in 1 .. m + 1}
          = (UNION {ToSet(lists[i]) : i \in 1 .. m}) \cup ToSet(lists[m + 1])
    <3> DEFINE I == 1 .. m
               J == 1 .. m + 1
    <3>1. J = I \cup {m + 1}
      BY <2>5
    <3> HIDE DEF I, J
    <3>2. UNION {ToSet(lists[i]) : i \in J}
            = (UNION {ToSet(lists[i]) : i \in I}) \cup ToSet(lists[m + 1])
      BY <3>1, Zenon
    <3> QED BY <3>2 DEF I, J
  <2> QED BY <1>4, <2>1, <2>4, <2>6
<1>5. \A m \in 0 .. n - 1 : m \in S => m + 1 \in S
  BY <1>4
<1> HIDE DEF S
<1>6. 0 .. n \subseteq S
  BY <1>2, <1>3, <1>5, IntervalInduction
<1>7. n \in S
  BY <1>2, <1>6
<1> QED BY <1>1, <1>2, <1>7 DEF S

(* One list more is joined at the end.                                     *)
LEMMA FlattenAppend ==
  ASSUME NEW V, NEW lists \in Seq(Seq(V)), NEW l \in Seq(V)
  PROVE  FlattenSeq(Append(lists, l)) = FlattenSeq(lists) \o l
<1> DEFINE n == Len(lists)
           more == Append(lists, l)
<1>1. n \in Nat
  OBVIOUS
<1>2. /\ more \in Seq(Seq(V)) /\ Len(more) = n + 1 /\ more[n + 1] = l
      /\ \A i \in 1 .. n : more[i] = lists[i]
  OBVIOUS
<1> HIDE DEF more
<1>3. PICK s \in [0 .. n -> Seq(V)] : Joins(s, lists) /\ FlattenSeq(lists) = s[n]
  BY FlattenSums
<1>4. PICK t : Joins(t, more) /\ FlattenSeq(more) = t[n + 1]
  BY <1>2, FlattenSums
<1> DEFINE S == {i \in 0 .. n : s[i] = t[i]}
<1>5. 0 \in S
  BY <1>1, <1>3, <1>4 DEF Joins
<1>6. ASSUME NEW i \in 0 .. n - 1, i \in S PROVE i + 1 \in S
  <2>1. i + 1 \in 1 .. n /\ i + 1 \in 1 .. n + 1 /\ (i + 1) - 1 = i /\ i + 1 \in 0 .. n
    BY <1>1
  <2>2. s[i + 1] = s[i] \o lists[i + 1]
    BY <1>3, <2>1 DEF Joins
  <2>3. t[i + 1] = t[i] \o more[i + 1]
    BY <1>2, <1>4, <2>1 DEF Joins
  <2> QED BY <1>2, <1>6, <2>1, <2>2, <2>3
<1>7. \A i \in 0 .. n - 1 : i \in S => i + 1 \in S
  BY <1>6
<1> HIDE DEF S
<1>8. 0 .. n \subseteq S
  BY <1>1, <1>5, <1>7, IntervalInduction
<1>9. s[n] = t[n]
  <2>1. n \in S
    BY <1>1, <1>8
  <2> QED BY <2>1 DEF S
<1>10. t[n + 1] = t[n] \o l
  <2>1. n + 1 \in 1 .. n + 1 /\ (n + 1) - 1 = n
    BY <1>1
  <2>2. t[n + 1] = t[(n + 1) - 1] \o more[n + 1]
    BY <1>2, <1>4, <2>1 DEF Joins
  <2> QED BY <1>2, <2>1, <2>2
<1> QED BY <1>3, <1>4, <1>9, <1>10 DEF more
=============================================================================
