---------------------------- MODULE ListTheorems ----------------------------
(***************************************************************************)
(* What the list commands do to membership and number of occurrences:      *)
(* Append (LPUSH, a channel send), Tail (BRPOP, a channel receive) and a   *)
(* push on the front (RPUSH); how finite sets are counted; induction over  *)
(* the natural numbers, for a set of them; and lists without repetition.   *)
(***************************************************************************)
EXTENDS Lists, FiniteSetTheorems, NaturalsInduction, WellFoundedInduction, TLAPS

(* A push on the front keeps a list of S a list of S.                      *)
LEMMA FrontType ==
  ASSUME NEW S, NEW x \in S, NEW q \in Seq(S)
  PROVE  <<x>> \o q \in Seq(S)
  OBVIOUS

(* A pop takes an element of S and leaves a list of S.                     *)
LEMMA PopType ==
  ASSUME NEW S, NEW q \in Seq(S), q # <<>>
  PROVE  Head(q) \in S /\ Tail(q) \in Seq(S)
  OBVIOUS

(* What a list contains after Append.                                      *)
LEMMA InAppend ==
  ASSUME NEW S, NEW q \in Seq(S), NEW x \in S, NEW m
  PROVE  In(m, Append(q, x)) <=> In(m, q) \/ m = x
  BY DEF In

(* What a list contains after a push on the front.                         *)
LEMMA InFront ==
  ASSUME NEW S, NEW q \in Seq(S), NEW x \in S, NEW m
  PROVE  In(m, <<x>> \o q) <=> In(m, q) \/ m = x
<1> DEFINE r == <<x>> \o q
<1>1. Len(r) = Len(q) + 1 /\ r[1] = x /\ \A k \in 1..Len(q) : r[k + 1] = q[k]
  OBVIOUS
<1>2. \A k \in 1..Len(r) : k = 1 \/ (k - 1 \in 1..Len(q) /\ r[k] = q[k - 1])
  BY <1>1
<1>3. Len(q) \in Nat
  OBVIOUS
<1> HIDE DEF r
<1>4. ASSUME In(m, q) PROVE In(m, r)
  BY <1>1, <1>3, <1>4 DEF In
<1>5. m = x => In(m, r)
  BY <1>1, <1>3 DEF In
<1>6. ASSUME In(m, r) PROVE In(m, q) \/ m = x
  BY <1>1, <1>2, <1>3, <1>6 DEF In
<1> QED BY <1>4, <1>5, <1>6 DEF r

(* A pop removes nothing but the head.                                     *)
LEMMA InPop ==
  ASSUME NEW S, NEW q \in Seq(S), q # <<>>, NEW m
  PROVE  In(m, q) => In(m, Tail(q)) \/ m = Head(q)
<1>1. /\ Len(Tail(q)) = Len(q) - 1 /\ Len(q) \in Nat /\ Len(q) > 0
      /\ \A k \in 1..Len(q) - 1 : Tail(q)[k] = q[k + 1]
      /\ Head(q) = q[1]
  OBVIOUS
<1> HAVE In(m, q)
<1> PICK k \in 1..Len(q) : q[k] = m
  BY DEF In
<1>2. CASE k = 1
  BY <1>1, <1>2
<1>3. CASE k # 1
  <2>1. k - 1 \in 1..Len(Tail(q)) /\ Tail(q)[k - 1] = q[k]
    BY <1>1, <1>3
  <2> QED BY <2>1 DEF In
<1> QED BY <1>2, <1>3

(* The head and what a pop leaves were in the list.                        *)
LEMMA InPopOnly ==
  ASSUME NEW S, NEW q \in Seq(S), q # <<>>, NEW m
  PROVE  In(m, Tail(q)) \/ m = Head(q) => In(m, q)
<1>1. /\ Len(Tail(q)) = Len(q) - 1 /\ Len(q) \in Nat /\ Len(q) > 0
      /\ \A k \in 1..Len(q) - 1 : Tail(q)[k] = q[k + 1]
      /\ Head(q) = q[1]
  OBVIOUS
<1>2. CASE m = Head(q)
  BY <1>1, <1>2 DEF In
<1>3. CASE In(m, Tail(q))
  <2> PICK k \in 1..Len(Tail(q)) : Tail(q)[k] = m
    BY <1>3 DEF In
  <2>1. k + 1 \in 1..Len(q) /\ q[k + 1] = m
    BY <1>1
  <2> QED BY <2>1 DEF In
<1> QED BY <1>2, <1>3

(* A list of some of S is a list of S, and its elements are in S.          *)
LEMMA ListOf ==
  ASSUME NEW S, NEW q \in Seq(S), NEW T, S \subseteq T
  PROVE  q \in Seq(T) /\ \A m : In(m, q) => m \in S
  BY DEF In

(* The empty list is a list of anything.                                   *)
LEMMA EmptyList == ASSUME NEW S PROVE <<>> \in Seq(S)
  OBVIOUS

(* A list is finite, and so is what is counted in it.                      *)
LEMMA OccurrencesType ==
  ASSUME NEW S, NEW q \in Seq(S), NEW m
  PROVE  IsFiniteSet({k \in 1..Len(q) : q[k] = m}) /\ Occurrences(m, q) \in Nat
<1>1. IsFiniteSet(1..Len(q))
  BY FS_Interval
<1>2. IsFiniteSet({k \in 1..Len(q) : q[k] = m})
  BY <1>1, FS_Subset
<1> QED BY <1>2, FS_CardinalityType DEF Occurrences

(* What is not in a list occurs no time in it.                             *)
LEMMA NoOccurrence ==
  ASSUME NEW S, NEW q \in Seq(S), NEW m, ~In(m, q)
  PROVE  Occurrences(m, q) = 0
<1>1. {k \in 1..Len(q) : q[k] = m} = {}
  BY DEF In
<1> QED BY <1>1, FS_EmptySet DEF Occurrences

(* What is in a list occurs in it.                                         *)
LEMMA SomeOccurrence ==
  ASSUME NEW S, NEW q \in Seq(S), NEW m, In(m, q)
  PROVE  Occurrences(m, q) >= 1
<1> DEFINE T == {k \in 1..Len(q) : q[k] = m}
<1>1. IsFiniteSet(T) /\ T # {}
  BY OccurrencesType DEF In
<1>2. Cardinality(T) \in Nat /\ Cardinality(T) # 0
  BY <1>1, FS_CardinalityType, FS_EmptySet
<1> QED BY <1>2 DEF Occurrences

(* Append adds one occurrence, of the value appended.                      *)
LEMMA OccurrencesAppend ==
  ASSUME NEW S, NEW q \in Seq(S), NEW x \in S, NEW m
  PROVE  Occurrences(m, Append(q, x)) = Occurrences(m, q) + (IF m = x THEN 1 ELSE 0)
<1> DEFINE r == Append(q, x)
           T == {k \in 1..Len(q) : q[k] = m}
           U == {k \in 1..Len(r) : r[k] = m}
<1>1. IsFiniteSet(T) /\ Occurrences(m, q) \in Nat
  BY OccurrencesType
<1>2. /\ Len(q) \in Nat /\ Len(r) = Len(q) + 1 /\ r[Len(q) + 1] = x
      /\ \A k \in 1..Len(q) : r[k] = q[k]
  OBVIOUS
<1> HIDE DEF r
<1>3. CASE m = x
  <2>1. U = T \cup {Len(q) + 1} /\ Len(q) + 1 \notin T
    BY <1>2, <1>3
  <2>2. Cardinality(U) = Cardinality(T) + 1
    BY <1>1, <2>1, FS_AddElement
  <2> QED BY <1>1, <1>3, <2>2 DEF Occurrences, r
<1>4. CASE m # x
  <2>1. U = T
    BY <1>2, <1>4
  <2>2. Occurrences(m, r) = Occurrences(m, q)
    BY <2>1 DEF Occurrences
  <2> QED BY <1>1, <1>4, <2>2 DEF r
<1> QED BY <1>3, <1>4

(* So does a push on the front, which shifts the others by one.            *)
LEMMA OccurrencesFront ==
  ASSUME NEW S, NEW q \in Seq(S), NEW x \in S, NEW m
  PROVE  Occurrences(m, <<x>> \o q) = Occurrences(m, q) + (IF m = x THEN 1 ELSE 0)
<1> DEFINE r == <<x>> \o q
           T == {k \in 1..Len(q) : q[k] = m}
           U == {k \in 2..Len(r) : r[k] = m}
           V == {k \in 1..Len(r) : r[k] = m}
           f == [k \in T |-> k + 1]
<1>1. IsFiniteSet(T) /\ Occurrences(m, q) \in Nat
  BY OccurrencesType
<1>2. /\ Len(q) \in Nat /\ Len(r) = Len(q) + 1 /\ r[1] = x
      /\ \A k \in 1..Len(q) : r[k + 1] = q[k]
  OBVIOUS
<1> HIDE DEF r
<1>3. \A k \in T : k + 1 \in U
  BY <1>2
<1>4. \A j \in U : j - 1 \in T /\ j = (j - 1) + 1
  BY <1>2
<1>5. f \in [T -> U] /\ (\A a, b \in T : f[a] = f[b] => a = b)
  BY <1>3
<1>6. \A j \in U : \E k \in T : f[k] = j
  BY <1>4
<1>7. f \in Bijection(T, U)
  BY <1>5, <1>6 DEF Bijection, Injection, Surjection, IsInjective
<1>8. ExistsBijection(T, U)
  BY <1>7 DEF ExistsBijection
<1>9. IsFiniteSet(U) /\ Cardinality(U) = Cardinality(T)
  BY <1>1, <1>8, FS_Bijection
<1>10. CASE m = x
  <2>1. V = U \cup {1} /\ 1 \notin U
    BY <1>2, <1>10
  <2>2. Cardinality(V) = Cardinality(U) + 1
    BY <1>9, <2>1, FS_AddElement
  <2> QED BY <1>1, <1>9, <1>10, <2>2 DEF Occurrences, r
<1>11. CASE m # x
  <2>1. V = U
    BY <1>2, <1>11
  <2>2. Occurrences(m, r) = Occurrences(m, q)
    BY <1>9, <2>1 DEF Occurrences
  <2> QED BY <1>1, <1>11, <2>2 DEF r
<1> QED BY <1>10, <1>11

(* A pop takes one occurrence away, that of the head.                      *)
LEMMA OccurrencesPop ==
  ASSUME NEW S, NEW q \in Seq(S), q # <<>>, NEW m
  PROVE  Occurrences(m, q) = Occurrences(m, Tail(q)) + (IF m = Head(q) THEN 1 ELSE 0)
<1>1. Head(q) \in S /\ Tail(q) \in Seq(S)
  BY PopType
<1>2. q = <<Head(q)>> \o Tail(q)
  OBVIOUS
<1>3. PICK x \in S, t \in Seq(S) : x = Head(q) /\ t = Tail(q)
  BY <1>1
<1>4. Occurrences(m, <<x>> \o t) = Occurrences(m, t) + (IF m = x THEN 1 ELSE 0)
  BY OccurrencesFront
<1> QED BY <1>2, <1>3, <1>4

-----------------------------------------------------------------------------
(* Subsets, and sets with one element more or less.                        *)
LEMMA Fewer ==
  ASSUME NEW S, IsFiniteSet(S), NEW T, T \subseteq S
  PROVE  Cardinality(T) <= Cardinality(S)
  BY FS_Subset

LEMMA OneMore ==
  ASSUME NEW S, IsFiniteSet(S), NEW T, NEW x, T \subseteq S \cup {x}
  PROVE  Cardinality(T) <= Cardinality(S) + 1
<1>1. IsFiniteSet(S \cup {x}) /\ Cardinality(S) \in Nat
  BY FS_AddElement, FS_CardinalityType
<1>2. IsFiniteSet(T) /\ Cardinality(T) <= Cardinality(S \cup {x})
  BY <1>1, FS_Subset
<1>3. Cardinality(S \cup {x}) \in {Cardinality(S), Cardinality(S) + 1}
  BY FS_AddElement
<1>4. Cardinality(T) \in Nat
  BY <1>2, FS_CardinalityType
<1> QED BY <1>1, <1>2, <1>3, <1>4

LEMMA OneLess ==
  ASSUME NEW S, IsFiniteSet(S), NEW T, NEW x \in S, T \subseteq S \ {x}
  PROVE  Cardinality(T) + 1 <= Cardinality(S)
<1>1. /\ IsFiniteSet(S \ {x}) /\ Cardinality(S \ {x}) = Cardinality(S) - 1
      /\ Cardinality(S) \in Nat
  BY FS_RemoveElement, FS_CardinalityType
<1>2. IsFiniteSet(T) /\ Cardinality(T) <= Cardinality(S \ {x})
  BY <1>1, FS_Subset
<1>3. Cardinality(T) \in Nat
  BY <1>2, FS_CardinalityType
<1> QED BY <1>1, <1>2, <1>3

-----------------------------------------------------------------------------
(* A set of natural numbers has a least element.                           *)
LEMMA Least ==
  ASSUME NEW S, S \subseteq Nat, S # {}
  PROVE  \E n \in S : \A k \in S : n <= k
<1> DEFINE R == OpToRel(<, Nat)
<1>1. IsWellFoundedOn(R, Nat)
  BY NatLessThanWellFounded
<1>2. \A x, y \in Nat : y < x => <<y, x>> \in R
  BY DEF OpToRel
<1> HIDE DEF R
<1>3. PICK n \in S : \A y \in S : ~(<<y, n>> \in R)
  BY <1>1, WFMin
<1>4. ASSUME NEW k \in S PROVE n <= k
  <2>1. n \in Nat /\ k \in Nat
    OBVIOUS
  <2>2. ~(k < n)
    BY <1>2, <1>3, <2>1
  <2> QED BY <2>1, <2>2
<1> QED BY <1>4

(* Induction: a set that has 0 and with every number its successor has all *)
(* of them.                                                                *)
LEMMA AllNat ==
  ASSUME NEW S, 0 \in S, \A n \in Nat : n \in S => n + 1 \in S
  PROVE  Nat \subseteq S
<1> SUFFICES ASSUME Nat \ S # {} PROVE FALSE
  OBVIOUS
<1>1. PICK n \in Nat \ S : \A k \in Nat \ S : n <= k
  BY Least
<1>2. n # 0 /\ n - 1 \in Nat
  BY <1>1
<1>3. n - 1 \in S
  BY <1>1, <1>2
<1> QED BY <1>1, <1>2, <1>3

(* A bounded set of natural numbers has a greatest element.                *)
LEMMA Greatest ==
  ASSUME NEW b \in Nat, NEW S, S \subseteq 0..b, S # {}
  PROVE  \E n \in S : \A k \in S : n >= k
<1> DEFINE U == {u \in Nat : \A k \in S : u >= k}
<1>1. b \in U
  OBVIOUS
<1>2. PICK u \in U : \A v \in U : u <= v
  BY <1>1, Least
<1>3. SUFFICES ASSUME u \notin S PROVE FALSE
  BY <1>2
<1>4. PICK s \in S : s \in Nat /\ s < u
  <2>1. PICK s \in S : TRUE
    OBVIOUS
  <2>2. s \in 0..b /\ u \in Nat /\ u >= s /\ u # s
    BY <1>2, <1>3
  <2>3. s \in Nat /\ s < u
    BY <2>2
  <2> QED BY <2>3
<1>5. u - 1 \in U
  <2>1. ASSUME NEW k \in S PROVE u - 1 >= k
    BY <1>2, <1>3
  <2> QED BY <1>4, <2>1
<1> QED BY <1>2, <1>5

(* Every finite set of natural numbers can be listed in increasing order.  *)
LEMMA CanBeListed ==
  ASSUME NEW b \in Nat, NEW S, S \subseteq 0..b
  PROVE  \E o \in [1..Cardinality(S) -> S] : Increasing(o)
<1> DEFINE N == {n \in Nat : \A T \in SUBSET (0..b) : Cardinality(T) = n =>
                                \E o \in [1..n -> T] : Increasing(o)}
<1>1. \A T \in SUBSET (0..b) : IsFiniteSet(T) /\ Cardinality(T) \in Nat
  <2>1. IsFiniteSet(0..b)
    BY FS_Interval
  <2> QED BY <2>1, FS_Subset, FS_CardinalityType
<1>2. 0 \in N
  <2>1. ASSUME NEW T PROVE [i \in {} |-> 0] \in [1..0 -> T] /\ Increasing([i \in {} |-> 0])
    BY DEF Increasing
  <2> QED BY <2>1
<1>3. ASSUME NEW n \in N PROVE n + 1 \in N
  <2> SUFFICES ASSUME NEW T \in SUBSET (0..b), Cardinality(T) = n + 1
               PROVE  \E o \in [1..n + 1 -> T] : Increasing(o)
    OBVIOUS
  <2>1. T # {}
    BY FS_EmptySet
  <2>2. PICK x \in T : \A k \in T : x >= k
    BY <2>1, Greatest
  <2>3. Cardinality(T \ {x}) = n
    <3>1. Cardinality(T \ {x}) = Cardinality(T) - 1
      BY <1>1, FS_RemoveElement
    <3> QED BY <3>1
  <2>4. PICK o \in [1..n -> T \ {x}] : Increasing(o)
    BY <2>3
  <2> DEFINE p == [i \in 1..n + 1 |-> IF i = n + 1 THEN x ELSE o[i]]
  <2>5. p \in [1..n + 1 -> T]
    BY <2>4
  <2>6. ASSUME NEW i \in 1..n PROVE o[i] \in Nat /\ o[i] < x
    <3>1. o[i] \in T /\ o[i] # x
      BY <2>4
    <3>2. o[i] \in 0..b /\ x \in 0..b /\ x >= o[i]
      BY <2>2, <3>1
    <3> QED BY <3>1, <3>2
  <2>7. Increasing(p)
    <3> SUFFICES ASSUME NEW i \in 1..n + 1, NEW j \in 1..n + 1, i < j PROVE p[i] < p[j]
      BY <2>5 DEF Increasing
    <3>1. i \in 1..n /\ p[i] = o[i]
      OBVIOUS
    <3>2. CASE j = n + 1
      BY <2>6, <3>1, <3>2
    <3>3. CASE j # n + 1
      <4>1. j \in 1..n /\ p[j] = o[j]
        BY <3>3
      <4> QED BY <2>4, <3>1, <4>1 DEF Increasing
    <3> QED BY <3>2, <3>3
  <2> QED BY <2>5, <2>7
<1>4. Nat \subseteq N
  BY <1>2, <1>3, AllNat
<1> QED BY <1>1, <1>4

-----------------------------------------------------------------------------
(* Lists in which no member of T stands twice.                             *)

NoRepeats(T, q) == \A i, j \in 1..Len(q) : q[i] = q[j] /\ q[i] \in T => i = j

(* An empty list has no repetition.                                        *)
LEMMA NoRepeatsEmpty == (\A T : NoRepeats(T, <<>>)) /\ \A m : ~In(m, <<>>)
  BY DEF NoRepeats, In

(* What is appended must not be there yet.                                 *)
LEMMA NoRepeatsAppend ==
  ASSUME NEW S, NEW T, NEW q \in Seq(S), NEW x \in S, NoRepeats(T, q), x \in T => ~In(x, q)
  PROVE  NoRepeats(T, Append(q, x))
<1> DEFINE r == Append(q, x)
<1>1. /\ Len(r) = Len(q) + 1 /\ Len(q) \in Nat /\ r[Len(q) + 1] = x
      /\ \A i \in 1..Len(q) : r[i] = q[i]
  OBVIOUS
<1> HIDE DEF r
<1> SUFFICES ASSUME NEW i \in 1..Len(r), NEW j \in 1..Len(r), r[i] = r[j], r[i] \in T
             PROVE  i = j
  BY DEF NoRepeats, r
<1>2. CASE i <= Len(q) /\ j <= Len(q)
  BY <1>1, <1>2 DEF NoRepeats
<1>3. CASE i = Len(q) + 1 \/ j = Len(q) + 1
  BY <1>1, <1>3 DEF In
<1> QED BY <1>1, <1>2, <1>3

(* Nor may what is pushed on the front.                                    *)
LEMMA NoRepeatsFront ==
  ASSUME NEW S, NEW T, NEW q \in Seq(S), NEW x \in S, NoRepeats(T, q), x \in T => ~In(x, q)
  PROVE  NoRepeats(T, <<x>> \o q)
<1> DEFINE r == <<x>> \o q
<1>1. /\ Len(r) = Len(q) + 1 /\ Len(q) \in Nat /\ r[1] = x
      /\ \A i \in 1..Len(r) : i # 1 => i - 1 \in 1..Len(q) /\ r[i] = q[i - 1]
  OBVIOUS
<1> HIDE DEF r
<1> SUFFICES ASSUME NEW i \in 1..Len(r), NEW j \in 1..Len(r), r[i] = r[j], r[i] \in T
             PROVE  i = j
  BY DEF NoRepeats, r
<1>2. CASE i # 1 /\ j # 1
  <2>1. i - 1 = j - 1
    BY <1>1, <1>2 DEF NoRepeats
  <2> QED BY <2>1
<1>3. CASE i = 1 \/ j = 1
  BY <1>1, <1>3 DEF In
<1> QED BY <1>2, <1>3

(* A pop takes the only one of its kind.                                   *)
LEMMA NoRepeatsPop ==
  ASSUME NEW S, NEW T, NEW q \in Seq(S), q # <<>>, NoRepeats(T, q)
  PROVE  NoRepeats(T, Tail(q)) /\ (Head(q) \in T => ~In(Head(q), Tail(q)))
<1> DEFINE r == Tail(q)
<1>1. /\ Len(r) = Len(q) - 1 /\ Len(q) \in Nat /\ Len(q) > 0 /\ Head(q) = q[1]
      /\ \A i \in 1..Len(q) - 1 : r[i] = q[i + 1]
  OBVIOUS
<1> HIDE DEF r
<1>2. ASSUME NEW i \in 1..Len(r), NEW j \in 1..Len(r), r[i] = r[j], r[i] \in T
      PROVE  i = j
  <2>1. i + 1 \in 1..Len(q) /\ j + 1 \in 1..Len(q) /\ q[i + 1] = q[j + 1] /\ q[i + 1] \in T
    BY <1>1, <1>2
  <2> QED BY <2>1 DEF NoRepeats
<1>3. ASSUME Head(q) \in T, In(Head(q), r) PROVE FALSE
  <2>1. PICK k \in 1..Len(r) : r[k] = Head(q)
    BY <1>3 DEF In
  <2>2. k + 1 \in 1..Len(q) /\ 1 \in 1..Len(q) /\ q[k + 1] = q[1] /\ q[1] \in T
    BY <1>1, <1>3, <2>1
  <2> QED BY <2>2 DEF NoRepeats
<1> QED BY <1>2, <1>3 DEF NoRepeats, r

=============================================================================
