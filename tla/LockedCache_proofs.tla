------------------------- MODULE LockedCache_proofs -------------------------
(***************************************************************************)
(* What holds of LockedCache for any threads, keys, values, weights and    *)
(* limits.                                                                 *)
(***************************************************************************)
EXTENDS LockedCache, FiniteSetTheorems, SequenceTheorems, TLAPS

-----------------------------------------------------------------------------
(* The recency list *)

Distinct(s) == \A i, j \in DOMAIN s : s[i] = s[j] => i = j
Has(s, k) == \E i \in DOMAIN s : s[i] = k

(* move_to_end permutes the list and puts k last. *)
LEMMA ToEndProperties ==
    ASSUME NEW S, NEW s \in Seq(S), NEW k \in S, Distinct(s), Has(s, k)
    PROVE  /\ ToEnd(s, k) \in Seq(S)
           /\ Len(ToEnd(s, k)) = Len(s)
           /\ Len(s) > 0
           /\ ToEnd(s, k)[Len(s)] = k
           /\ Distinct(ToEnd(s, k))
           /\ \A x : Has(ToEnd(s, k), x) <=> Has(s, x)
<1> DEFINE p == Position(s, k)
           n == Len(s)
           r == ToEnd(s, k)
<1>1. p \in 1..n /\ s[p] = k
  BY DEF Has, Position
<1>2. n \in Nat /\ n > 0 /\ DOMAIN s = 1..n
  BY <1>1
<1>3. r = [i \in 1..n |-> IF i < p THEN s[i] ELSE IF i = n THEN k ELSE s[i +
        1]]
  BY DEF ToEnd
<1> HIDE DEF p, n, r
<1>4. \A i \in 1..n : r[i] \in S
  <2>1. \A i \in 1..n : s[i] \in S
    BY <1>2
  <2> QED
    BY <2>1, <1>1, <1>2, <1>3
<1>5. r \in Seq(S)
  <2>1. r = [i \in 1..n |-> r[i]]
    BY <1>3
  <2>2. r \in [1..n -> S]
    BY <2>1, <1>4, Zenon
  <2> QED
    BY <2>2, <1>2, SeqDef
<1>6. Len(r) = n /\ DOMAIN r = 1..n
  BY <1>2, <1>3, <1>5
<1>7. r[n] = k
  BY <1>1, <1>2, <1>3
<1>8. ASSUME NEW i \in 1..n, NEW j \in 1..n, r[i] = r[j] PROVE i = j
  <2> DEFINE from(m) == IF m < p THEN m ELSE IF m = n THEN p ELSE m + 1
  <2>1. \A m \in 1..n : from(m) \in 1..n /\ r[m] = s[from(m)]
    BY <1>1, <1>2, <1>3
  <2>2. from(i) \in 1..n /\ from(j) \in 1..n /\ s[from(i)] = s[from(j)]
    BY <2>1, <1>8
  <2>3. from(i) = from(j)
    <3> HIDE DEF from
    <3> QED BY <2>2, <1>2 DEF Distinct
  <2> QED
    BY <2>3, <1>1, <1>2
<1>9. ASSUME NEW x, Has(r, x) PROVE Has(s, x)
  BY <1>1, <1>2, <1>3, <1>6, <1>9 DEF Has
<1>10. ASSUME NEW x, Has(s, x) PROVE Has(r, x)
  <2>1. PICK i \in 1..n : s[i] = x
    BY <1>2, <1>10 DEF Has
  <2>2. CASE i < p
    BY <2>1, <2>2, <1>1, <1>2, <1>3, <1>6 DEF Has
  <2>3. CASE i = p
    BY <2>1, <2>3, <1>1, <1>2, <1>7, <1>6 DEF Has
  <2>4. CASE i > p
    <3>1. i - 1 \in 1..n /\ r[i - 1] = x
      BY <2>1, <2>4, <1>1, <1>2, <1>3
    <3> QED
      BY <3>1, <1>6 DEF Has
  <2> QED
    BY <2>1, <2>2, <2>3, <2>4, <1>1
<1> QED
  BY <1>2, <1>5, <1>6, <1>7, <1>8, <1>9, <1>10 DEF Distinct, n, r

(* Storing k leaves every other entry where it was and k last. *)
LEMMA PlacedProperties ==
    ASSUME NEW S, NEW s \in Seq(S), NEW k \in S, Distinct(s)
    PROVE  /\ Placed(s, k) \in Seq(S)
           /\ Len(Placed(s, k)) > 0
           /\ Placed(s, k)[Len(Placed(s, k))] = k
           /\ Distinct(Placed(s, k))
           /\ \A x : Has(Placed(s, k), x) <=> (Has(s, x) \/ x = k)
<1>1. CASE Has(s, k)
  <2>1. Placed(s, k) = ToEnd(s, k)
    BY <1>1 DEF Has, Placed
  <2> QED
    BY <2>1, <1>1, ToEndProperties
<1>2. CASE ~Has(s, k)
  <2>1. Placed(s, k) = Append(s, k)
    BY <1>2 DEF Has, Placed
  <2> QED
    BY <2>1, <1>2 DEF Has, Distinct
<1> QED
  BY <1>1, <1>2

(* Popping the oldest of several entries removes that one and no other. *)
LEMMA TailProperties ==
    ASSUME NEW S, NEW s \in Seq(S), Distinct(s), Len(s) > 1
    PROVE  /\ Head(s) \in S
           /\ Tail(s) \in Seq(S)
           /\ Len(Tail(s)) > 0
           /\ Tail(s)[Len(Tail(s))] = s[Len(s)]
           /\ Head(s) # s[Len(s)]
           /\ Has(s, Head(s))
           /\ Distinct(Tail(s))
           /\ \A x : Has(Tail(s), x) <=> (Has(s, x) /\ x # Head(s))
<1>1. /\ Tail(s) \in Seq(S)
      /\ Len(Tail(s)) = Len(s) - 1
      /\ \A i \in 1..Len(s) - 1 : Tail(s)[i] = s[i + 1]
      /\ Head(s) = s[1]
  OBVIOUS
<1>2. ASSUME NEW x, Has(s, x), x # Head(s) PROVE Has(Tail(s), x)
  <2>1. PICK i \in 1..Len(s) : s[i] = x
    BY <1>2 DEF Has
  <2>2. i # 1
    BY <2>1, <1>1, <1>2
  <2>3. i - 1 \in 1..Len(s) - 1 /\ Tail(s)[i - 1] = x
    BY <2>1, <2>2, <1>1
  <2>4. i - 1 \in DOMAIN Tail(s)
    BY <2>3, <1>1
  <2> QED
    BY <2>3, <2>4 DEF Has
<1>3. ASSUME NEW x, Has(Tail(s), x) PROVE Has(s, x) /\ x # Head(s)
  <2>1. PICK i \in 1..Len(s) - 1 : s[i + 1] = x
    BY <1>1, <1>3 DEF Has
  <2> QED
    BY <2>1, <1>1 DEF Has, Distinct
<1> QED
  BY <1>1, <1>2, <1>3 DEF Has, Distinct

-----------------------------------------------------------------------------
(* Sums *)

(* Numbers have a least one among them. *)
LEMMA LeastExists ==
    ASSUME NEW T \in SUBSET Nat, T # {}
    PROVE  \E x \in T : \A y \in T : x <= y
<1>1. PICK R : /\ IsWellFoundedOn(R, Nat)
               /\ \A x, y \in Nat : y < x => <<y, x>> \in R
  <2> DEFINE R == OpToRel(<, Nat)
  <2>1. IsWellFoundedOn(R, Nat)
    BY NatLessThanWellFounded
  <2>2. \A x, y \in Nat : y < x => <<y, x>> \in R
    BY DEF OpToRel
  <2> QED
    BY <2>1, <2>2, Zenon
<1>2. PICK x \in T : \A y \in T : <<y, x>> \notin R
  BY <1>1, WFMin
<1>3. ASSUME NEW y \in T PROVE x <= y
  <2>1. x \in Nat /\ y \in Nat
    OBVIOUS
  <2>2. ~(y < x)
    BY <1>1, <1>2, <2>1, Zenon
  <2> QED
    BY <2>1, <2>2
<1> QED
  BY <1>3

(* Induction over a size: what is good when all that is smaller is, is good. *)
LEMMA SizeInduction ==
    ASSUME NEW D, NEW size \in [D -> Nat], NEW good,
           \A d \in D : (\A c \in D : size[c] < size[d] => c \in good) => d \in good
    PROVE  D \subseteq good
<1> SUFFICES ASSUME ~(D \subseteq good) PROVE FALSE
  OBVIOUS
<1> DEFINE sizes == {size[d] : d \in D \ good}
<1>1. sizes \in SUBSET Nat /\ sizes # {}
  OBVIOUS
<1>2. PICK k \in sizes : \A l \in sizes : k <= l
  <2> HIDE DEF sizes
  <2> QED
    BY <1>1, LeastExists
<1>3. PICK d \in D \ good : size[d] = k
  OBVIOUS
<1>4. ASSUME NEW c \in D, size[c] < size[d] PROVE c \in good
  <2> SUFFICES ASSUME c \notin good PROVE FALSE
    OBVIOUS
  <2>1. size[c] \in sizes
    OBVIOUS
  <2> HIDE DEF sizes
  <2>2. k <= size[c] /\ size[c] < k
    BY <1>2, <1>3, <1>4, <2>1
  <2>3. k \in Nat /\ size[c] \in Nat
    BY <1>1
  <2> QED
    BY <2>2, <2>3
<1> QED
  BY <1>3, <1>4

(* A function may be defined by recursion towards smaller arguments. *)
Recursive(D, V, n, size, base, stop, left, right, step) ==
    /\ n \in Nat /\ size \in [D -> 0..n] /\ base \in V
    /\ left \in [D -> D] /\ right \in [D -> D] /\ step \in [D \X V \X V -> V]
    /\ \A d \in D \ stop : size[left[d]] < size[d] /\ size[right[d]] < size[d]

Solution(f, D, base, stop, left, right, step) ==
    \A d \in D : f[d] = IF d \in stop THEN base
                       ELSE step[<<d, f[left[d]], f[right[d]]>>]

LEMMA RecursionExists ==
    ASSUME NEW D, NEW V, NEW n, NEW size, NEW base, NEW stop, NEW left,
           NEW right, NEW step,
           Recursive(D, V, n, size, base, stop, left, right, step)
    PROVE  \E f \in [D -> V] : Solution(f, D, base, stop, left, right, step)
<1> USE DEF Recursive
<1> DEFINE E(f, d) == IF d \in stop THEN base
                      ELSE step[<<d, f[left[d]], f[right[d]]>>]
           Solved == {k \in Nat : \E f \in [D -> V] : \A d \in D :
                                     size[d] < k => f[d] = E(f, d)}
<1>1. 0 \in Solved
  <2> DEFINE f == [d \in D |-> base]
  <2>1. f \in [D -> V]
    OBVIOUS
  <2>2. \A d \in D : ~(size[d] < 0)
    OBVIOUS
  <2> QED
    BY <2>1, <2>2
<1>2. ASSUME NEW k \in Nat, k \in Solved PROVE k + 1 \in Solved
  <2>1. PICK f \in [D -> V] : \A d \in D : size[d] < k => f[d] = E(f, d)
    BY <1>2
  <2> DEFINE g == [d \in D |-> E(f, d)]
  <2>2. \A d \in D : E(f, d) \in V
    OBVIOUS
  <2>3. g \in [D -> V]
    BY <2>2
  <2>4. ASSUME NEW d \in D, size[d] < k + 1, d \notin stop
        PROVE  g[left[d]] = f[left[d]] /\ g[right[d]] = f[right[d]]
    <3>1. /\ left[d] \in D /\ right[d] \in D
          /\ size[left[d]] < k /\ size[right[d]] < k
      BY <2>4
    <3> QED
      BY <2>1, <3>1
  <2>5. \A d \in D : size[d] < k + 1 => g[d] = E(g, d)
    BY <2>4
  <2> HIDE DEF g
  <2> QED
    BY <2>3, <2>5
<1>3. Nat \subseteq Solved
  <2> DEFINE T == Nat \ Solved
  <2> SUFFICES ASSUME T # {} PROVE FALSE
    OBVIOUS
  <2> HIDE DEF Solved
  <2>1. PICK k \in T : \A l \in T : k <= l
    BY LeastExists
  <2>2. k \in Nat /\ k # 0 /\ k \notin Solved
    BY <1>1
  <2>3. k - 1 \in Nat /\ k = (k - 1) + 1 /\ ~(k <= k - 1)
    BY <2>2
  <2>4. k - 1 \in Solved
    BY <2>1, <2>3
  <2> QED
    BY <1>2, <2>2, <2>3, <2>4
<1>4. n + 1 \in Solved
  <2> HIDE DEF Solved
  <2> QED
    BY <1>3
<1>5. PICK f \in [D -> V] : \A d \in D : size[d] < n + 1 => f[d] = E(f, d)
  BY <1>4
<1>6. \A d \in D : size[d] < n + 1
  OBVIOUS
<1> QED
  BY <1>5, <1>6 DEF Solution

(* f has the sum of w over every part of S. *)
SumsUp(f, w, S) ==
    /\ f \in [SUBSET S -> Nat]
    /\ \A s \in SUBSET S :
          f[s] = IF s = {} THEN 0
                 ELSE LET x == CHOOSE x \in s : TRUE IN w[x] + f[s \ {x}]

(* The sum is a solution of its recursive equation. *)
LEMMA SumEquation ==
    ASSUME NEW K, NEW w \in [K -> Nat], NEW S \in SUBSET K, IsFiniteSet(S)
    PROVE  \E f : SumsUp(f, w, S) /\ Sum(w, S) = f[S]
<1> DEFINE D == SUBSET S
           n == Cardinality(S)
           one(s) == CHOOSE x \in s : TRUE
           size == [s \in D |-> Cardinality(s)]
           left == [s \in D |-> s \ {one(s)}]
           step == [x \in D \X Nat \X Nat |->
                       IF x[1] = {} THEN 0 ELSE w[one(x[1])] + x[2]]
           Body(f) == [s \in D |-> IF s = {} THEN 0
                                   ELSE w[one(s)] + f[s \ {one(s)}]]
           sum == CHOOSE f : f = Body(f)
<1>1. \A s \in D : s # {} => one(s) \in s /\ one(s) \in S
  OBVIOUS
<1>2. Sum(w, S) = sum[S]
  BY DEF Sum, MapThenSumSet, MapThenFoldSet
<1>3. \A s \in D : Cardinality(s) \in 0..n
  BY FS_Subset, FS_CardinalityType
<1>4. \A s \in D \ {{}} : Cardinality(s \ {one(s)}) < Cardinality(s)
  <2> SUFFICES ASSUME NEW s \in D \ {{}}
               PROVE  Cardinality(s \ {one(s)}) < Cardinality(s)
    OBVIOUS
  <2>1. IsFiniteSet(s) /\ one(s) \in s /\ Cardinality(s) \in Nat
    BY <1>1, <1>3, FS_Subset
  <2>2. \A x \in s : Cardinality(s \ {x}) = Cardinality(s) - 1
    BY <2>1, FS_RemoveElement
  <2> HIDE DEF one
  <2> QED
    BY <2>1, <2>2
<1>5. Recursive(D, Nat, n, size, 0, {{}}, left, left, step)
  <2>1. n \in Nat
    BY FS_CardinalityType
  <2>2. size \in [D -> 0..n] /\ left \in [D -> D]
    BY <1>3
  <2>3. step \in [D \X Nat \X Nat -> Nat]
    <3>1. \A x \in D \X Nat \X Nat :
             x[1] = {} \/ (w[one(x[1])] \in Nat /\ x[2] \in Nat)
      BY <1>1
    <3> HIDE DEF one
    <3> QED
      BY <3>1
  <2>4. \A s \in D \ {{}} : size[left[s]] < size[s]
    BY <1>4
  <2> HIDE DEF n, size, left, step
  <2> QED
    BY <2>1, <2>2, <2>3, <2>4 DEF Recursive
<1>6. PICK f \in [D -> Nat] : Solution(f, D, 0, {{}}, left, left, step)
  <2> HIDE DEF n, size, left, step
  <2> QED
    BY <1>5, RecursionExists
<1>7. f = Body(f)
  <2>1. \A s \in D : f[s] = Body(f)[s]
    <3> SUFFICES ASSUME NEW s \in D PROVE f[s] = Body(f)[s]
      OBVIOUS
    <3>1. CASE s = {}
      BY <1>6, <3>1 DEF Solution
    <3>2. CASE s # {}
      <4>1. f[s] = step[<<s, f[left[s]], f[left[s]]>>]
        <5> HIDE DEF step, left
        <5> QED
          BY <1>6, <3>2 DEF Solution
      <4>2. left[s] = s \ {one(s)} /\ left[s] \in D /\ f[left[s]] \in Nat
        OBVIOUS
      <4> HIDE DEF one
      <4> QED
        BY <3>2, <4>1, <4>2
    <3> QED
      BY <3>1, <3>2
  <2>2. f = [s \in D |-> f[s]] /\ Body(f) = [s \in D |-> Body(f)[s]]
    OBVIOUS
  <2> HIDE DEF Body
  <2> QED
    BY <2>1, <2>2
<1>8. sum = Body(sum)
  <2> HIDE DEF Body
  <2> QED
    BY <1>7
<1>9. \A s \in D : sum[s] = IF s = {} THEN 0
                           ELSE w[one(s)] + sum[s \ {one(s)}]
  <2>1. \A s \in D : Body(sum)[s] = IF s = {} THEN 0
                                    ELSE w[one(s)] + sum[s \ {one(s)}]
    <3> HIDE DEF sum
    <3> QED
      OBVIOUS
  <2> HIDE DEF Body, sum
  <2> QED
    BY <1>8, <2>1
<1>10. \A s \in D : sum[s] \in Nat
  <2> DEFINE good == {s \in D : sum[s] \in Nat}
  <2>1. \A s \in D : (\A c \in D : size[c] < size[s] => c \in good) => s \in good
    <3> SUFFICES ASSUME NEW s \in D,
                        \A c \in D : size[c] < size[s] => c \in good
                 PROVE  s \in good
      OBVIOUS
    <3>1. CASE s = {}
      <4> HIDE DEF sum
      <4> QED
        BY <1>9, <3>1
    <3>2. CASE s # {}
      <4>1. size[s \ {one(s)}] < size[s]
        BY <1>4, <3>2
      <4>2. sum[s \ {one(s)}] \in Nat
        BY <4>1
      <4>3. w[one(s)] \in Nat /\ sum[s] = w[one(s)] + sum[s \ {one(s)}]
        BY <1>1, <1>9, <3>2
      <4>4. sum[s] \in Nat
        <5> HIDE DEF sum, one
        <5> QED
          BY <4>2, <4>3
      <4> HIDE DEF sum, D
      <4> QED
        BY <4>4
    <3> QED
      BY <3>1, <3>2
  <2>2. size \in [D -> Nat]
    BY <1>3
  <2>3. D \subseteq good
    <3> HIDE DEF D, size, good
    <3> QED
      BY <2>1, <2>2, SizeInduction
  <2> QED
    BY <2>3
<1>11. sum \in [D -> Nat]
  <2>1. DOMAIN sum = D /\ sum = [s \in D |-> sum[s]]
    <3>1. Body(sum) = [s \in D |-> Body(sum)[s]] /\ DOMAIN Body(sum) = D
      OBVIOUS
    <3> HIDE DEF Body, sum
    <3> QED
      BY <1>8, <3>1
  <2> HIDE DEF sum
  <2> QED
    BY <1>10, <2>1
<1> HIDE DEF sum
<1> QED
  BY <1>2, <1>9, <1>11 DEF SumsUp

(* A sum is that of the same terms, whatever they are terms of. *)
LEMMA SumsAgree ==
    ASSUME NEW S, NEW T \in SUBSET S, IsFiniteSet(T), NEW w, NEW v,
           \A x \in T : w[x] = v[x],
           NEW f, SumsUp(f, w, S), NEW g, SumsUp(g, v, T)
    PROVE  f[T] = g[T]
<1> DEFINE D == SUBSET T
           size == [s \in D |-> Cardinality(s)]
           good == {s \in D : f[s] = g[s]}
           one(s) == CHOOSE x \in s : TRUE
<1>1. size \in [D -> Nat]
  BY FS_Subset, FS_CardinalityType
<1>2. ASSUME NEW s \in D, \A c \in D : size[c] < size[s] => c \in good
      PROVE  s \in good
  <2>1. CASE s = {}
    BY <2>1 DEF SumsUp
  <2>2. CASE s # {}
    <3>1. one(s) \in s
      BY <2>2
    <3>2. \A x \in s : s \ {x} \in D /\ size[s \ {x}] < size[s]
      <4>1. IsFiniteSet(s)
        BY FS_Subset
      <4>2. \A x \in s : Cardinality(s \ {x}) = Cardinality(s) - 1
        BY <4>1, FS_RemoveElement
      <4> QED
        BY <4>2, <1>1
    <3>3. f[s \ {one(s)}] = g[s \ {one(s)}]
      BY <1>2, <3>1, <3>2
    <3>4. /\ f[s] = w[one(s)] + f[s \ {one(s)}]
          /\ g[s] = v[one(s)] + g[s \ {one(s)}]
      BY <2>2 DEF SumsUp
    <3>5. w[one(s)] = v[one(s)]
      BY <3>1
    <3>6. f[s] = g[s]
      <4> HIDE DEF one
      <4> QED
        BY <3>3, <3>4, <3>5
    <3> QED
      BY <3>6
  <2> QED
    BY <2>1, <2>2
<1>3. \A s \in D : (\A c \in D : size[c] < size[s] => c \in good) => s \in good
  <2> HIDE DEF D, size, good
  <2> QED
    BY <1>2
<1>4. D \subseteq good
  <2> HIDE DEF D, size, good
  <2> QED
    BY <1>1, <1>3, SizeInduction
<1> QED
  BY <1>4

(* Any term may be taken out of a sum first. *)
LEMMA SumsSplit ==
    ASSUME NEW K, NEW w \in [K -> Nat], NEW S \in SUBSET K, IsFiniteSet(S),
           NEW f, SumsUp(f, w, S), NEW k \in S
    PROVE  f[S] = w[k] + f[S \ {k}]
<1> DEFINE D == SUBSET S
           size == [s \in D |-> Cardinality(s)]
           good == {s \in D : \A x \in s : f[s] = w[x] + f[s \ {x}]}
           one(s) == CHOOSE x \in s : TRUE
<1>1. size \in [D -> Nat]
  BY FS_Subset, FS_CardinalityType
<1>2. ASSUME NEW s \in D, \A c \in D : size[c] < size[s] => c \in good
      PROVE  s \in good
  <2> SUFFICES ASSUME NEW x \in s PROVE f[s] = w[x] + f[s \ {x}]
    OBVIOUS
  <2>1. PICK y \in s : f[s] = w[y] + f[s \ {y}]
    BY DEF SumsUp
  <2>2. \A z \in s : s \ {z} \in D /\ s \ {z} \in good
    <3>1. IsFiniteSet(s)
      BY FS_Subset
    <3>2. \A z \in s : Cardinality(s \ {z}) = Cardinality(s) - 1
      BY <3>1, FS_RemoveElement
    <3>3. \A z \in s : s \ {z} \in D /\ size[s \ {z}] < size[s]
      BY <3>2, <1>1
    <3> HIDE DEF good, size
    <3> QED
      BY <3>3, <1>2
  <2>3. CASE x = y
    BY <2>1, <2>3
  <2>4. CASE x # y
    <3>1. x \in s \ {y} /\ y \in s \ {x}
      BY <2>4
    <3>2. /\ f[s \ {y}] = w[x] + f[(s \ {y}) \ {x}]
          /\ f[s \ {x}] = w[y] + f[(s \ {x}) \ {y}]
      BY <2>2, <3>1
    <3>3. (s \ {y}) \ {x} = (s \ {x}) \ {y} /\ (s \ {y}) \ {x} \in D
      OBVIOUS
    <3>4. f[(s \ {y}) \ {x}] \in Nat /\ w[x] \in Nat /\ w[y] \in Nat
      BY <3>3 DEF SumsUp
    <3> DEFINE rest == f[(s \ {y}) \ {x}]
    <3>5. /\ f[s] = w[y] + f[s \ {y}]
          /\ f[s \ {y}] = w[x] + rest
          /\ f[s \ {x}] = w[y] + rest
          /\ rest \in Nat
      BY <2>1, <3>2, <3>3, <3>4
    <3> HIDE DEF rest
    <3>6. f[s] = w[y] + (w[x] + rest) /\ w[x] + f[s \ {x}] = w[x] + (w[y] + rest)
      BY <3>5
    <3> QED
      BY <3>4, <3>5, <3>6
  <2> QED
    BY <2>3, <2>4
<1>3. \A s \in D : (\A c \in D : size[c] < size[s] => c \in good) => s \in good
  <2> HIDE DEF D, size, good
  <2> QED
    BY <1>2
<1>4. D \subseteq good
  <2> HIDE DEF D, size, good
  <2> QED
    BY <1>1, <1>3, SizeInduction
<1> QED
  BY <1>4

(* What the sum is made of. *)
Additive(w, S) ==
    /\ Sum(w, S) \in Nat
    /\ S = {} => Sum(w, S) = 0
    /\ \A k \in S : Sum(w, S) = w[k] + Sum(w, S \ {k})

LEMMA SumProperties ==
    ASSUME NEW K, NEW w \in [K -> Nat], NEW S \in SUBSET K, IsFiniteSet(S)
    PROVE  Additive(w, S)
<1>1. PICK f : SumsUp(f, w, S) /\ Sum(w, S) = f[S]
  BY SumEquation
<1>2. Sum(w, S) \in Nat /\ (S = {} => Sum(w, S) = 0)
  BY <1>1 DEF SumsUp
<1>3. ASSUME NEW k \in S PROVE Sum(w, S) = w[k] + Sum(w, S \ {k})
  <2> DEFINE T == S \ {k}
  <2>1. T \in SUBSET S /\ T \in SUBSET K /\ IsFiniteSet(T)
    BY FS_Subset
  <2> HIDE DEF T
  <2>2. PICK g : SumsUp(g, w, T) /\ Sum(w, T) = g[T]
    BY <2>1, SumEquation
  <2>3. f[T] = g[T]
    BY <1>1, <2>1, <2>2, SumsAgree
  <2>4. f[S] = w[k] + f[T]
    BY <1>1, SumsSplit DEF T
  <2> QED
    BY <1>1, <2>2, <2>3, <2>4 DEF T
<1> QED
  BY <1>2, <1>3 DEF Additive

(* Only the terms matter. *)
LEMMA SumOfTerms ==
    ASSUME NEW K, NEW w \in [K -> Nat], NEW v \in [K -> Nat],
           NEW S \in SUBSET K, IsFiniteSet(S), \A x \in S : v[x] = w[x]
    PROVE  Sum(v, S) = Sum(w, S)
<1>1. PICK f : SumsUp(f, w, S) /\ Sum(w, S) = f[S]
  BY SumEquation
<1>2. PICK g : SumsUp(g, v, S) /\ Sum(v, S) = g[S]
  BY SumEquation
<1>3. g[S] = f[S]
  BY <1>1, <1>2, SumsAgree
<1> QED
  BY <1>1, <1>2, <1>3

(* One term of a sum replaced, or left out. *)
Adjusted(w, S, k, n) ==
    LET rest == Sum(w, S) - (IF k \in S THEN w[k] ELSE 0)
        v == [w EXCEPT ![k] = n]
    IN  Sum(v, S \cup {k}) = rest + n /\ Sum(v, S \ {k}) = rest

LEMMA SumChanged ==
    ASSUME NEW K, NEW w \in [K -> Nat], NEW S \in SUBSET K, IsFiniteSet(S),
           NEW k \in K, NEW n \in Nat
    PROVE  Adjusted(w, S, k, n)
<1> DEFINE v == [w EXCEPT ![k] = n]
           T == S \ {k}
           U == S \cup {k}
<1>1. v \in [K -> Nat] /\ v[k] = n /\ w[k] \in Nat
  OBVIOUS
<1>2. \A x \in T : v[x] = w[x]
  OBVIOUS
<1>3. /\ T \in SUBSET K /\ IsFiniteSet(T) /\ U \in SUBSET K /\ IsFiniteSet(U)
      /\ k \in U /\ U \ {k} = T
  BY FS_AddElement, FS_RemoveElement
<1> HIDE DEF v, T, U
<1>4. Additive(v, U) /\ Additive(w, T) /\ Additive(w, S)
  BY <1>1, <1>3, SumProperties
<1>5. Sum(v, T) = Sum(w, T)
  BY <1>1, <1>2, <1>3, SumOfTerms
<1>6. Sum(v, U) = n + Sum(w, T) /\ Sum(w, T) \in Nat
  BY <1>1, <1>3, <1>4, <1>5 DEF Additive
<1>7. CASE k \in S
  <2>1. Sum(w, S) = w[k] + Sum(w, T)
    BY <1>4, <1>7 DEF Additive, T
  <2> QED
    BY <1>1, <1>5, <1>6, <1>7, <2>1 DEF Adjusted, v, T, U
<1>8. CASE k \notin S
  <2>1. S = T
    BY <1>8 DEF T
  <2>2. Sum(w, S) = Sum(w, T)
    BY <2>1
  <2> QED
    BY <1>5, <1>6, <1>8, <2>2 DEF Adjusted, v, T, U
<1> QED
  BY <1>7, <1>8

-----------------------------------------------------------------------------
(* The inductive invariant *)

Ind == /\ TypeOK
       /\ OrderIsContent
       /\ OneBuilder
       /\ NoLostWakeup
       /\ Bounded
       /\ NewestKept

(* A read moves its entry to the end of the list. *)
LEMMA ReadEffect ==
    ASSUME TypeOK, OrderIsContent, NEW k \in Keys, Cached(k),
           order' = ToEnd(order, k)
    PROVE  /\ order' \in Seq(Keys)
           /\ Len(order') = Len(order)
           /\ order' # <<>>
           /\ order'[Len(order')] = k
           /\ Distinct(order')
           /\ \A x : Has(order', x) <=> Has(order, x)
<1>1. order \in Seq(Keys) /\ Distinct(order) /\ Has(order, k)
  BY DEF TypeOK, Types, OrderIsContent, Distinct, Has
<1> QED
  BY <1>1, ToEndProperties

(* A store puts its entry at the end and removes no other. *)
LEMMA StoreEffect ==
    ASSUME TypeOK, OrderIsContent, NEW t \in Threads, Store(t)
    PROVE  /\ key[t] \in Keys
           /\ hand[t] \in Values
           /\ order' \in Seq(Keys)
           /\ order' # <<>>
           /\ order'[Len(order')] = key[t]
           /\ Distinct(order')
           /\ \A x : Has(order', x) <=> Has(order, x) \/ x = key[t]
           /\ val' = [val EXCEPT ![key[t]] = hand[t]]
<1>1. key[t] \in Keys /\ hand[t] \in Values
  BY DEF TypeOK, Types, InScope, Store, Idle
<1>2. order \in Seq(Keys) /\ Distinct(order)
  BY DEF TypeOK, Types, OrderIsContent, Distinct
<1>3. order' = Placed(order, key[t]) /\ val' = [val EXCEPT ![key[t]] =
        hand[t]]
  BY DEF Store, Insert
<1> DEFINE k == key[t]
           s == order
<1>4. k \in Keys /\ s \in Seq(Keys) /\ Distinct(s)
  BY <1>1, <1>2
<1> HIDE DEF k, s
<1>5. /\ Placed(s, k) \in Seq(Keys)
      /\ Len(Placed(s, k)) > 0
      /\ Placed(s, k)[Len(Placed(s, k))] = k
      /\ Distinct(Placed(s, k))
      /\ \A x : Has(Placed(s, k), x) <=> Has(s, x) \/ x = k
  BY <1>4, PlacedProperties
<1>6. order' = Placed(s, k)
  BY <1>3 DEF s, k
<1> QED
  BY <1>1, <1>3, <1>5, <1>6 DEF s, k

(* The eviction loop takes the first entry, which is not the last. *)
LEMMA EvictEffect ==
    ASSUME TypeOK, OrderIsContent, NEW t \in Threads, Evict(t)
    PROVE  /\ Head(order) \in Keys
           /\ Has(order, Head(order))
           /\ order' \in Seq(Keys)
           /\ order # <<>> /\ order' # <<>>
           /\ order'[Len(order')] = order[Len(order)]
           /\ Head(order) # order[Len(order)]
           /\ Distinct(order')
           /\ \A x : Has(order', x) <=> Has(order, x) /\ x # Head(order)
<1>1. order \in Seq(Keys) /\ Distinct(order) /\ Len(order) > 1
  BY DEF TypeOK, Types, OrderIsContent, Distinct, Evict, OverLimit
<1>2. order' = Tail(order)
  BY DEF Evict, PopOldest
<1> QED
  BY <1>1, <1>2, TailProperties

(* Only StartBuild and Finish touch _inflight, each for its own key. *)
LEMMA OneBuilderStep ==
    ASSUME Ind, Next
    PROVE  OneBuilder'
<1> USE CacheConstants, Sentinels
        DEF Ind, TypeOK, Types, InScope, OneBuilder, Building, Storing, Idle,
     Waiting, Labels, store, flags, Goto, Return, CountCall, Free, Miss,
     Cached
<1>1. ASSUME NEW t \in Threads, Clear(t) PROVE OneBuilder'
  BY <1>1 DEF Clear
<1>2. ASSUME NEW t \in Threads, NEW k \in Keys, GetOrSet(t, k)
      PROVE  OneBuilder'
  BY <1>2 DEF GetOrSet
<1>3. ASSUME NEW t \in Threads, NEW k \in Keys, Get(t, k) PROVE OneBuilder'
  BY <1>3 DEF Get
<1>4. ASSUME NEW t \in Threads, NEW k \in Keys, NEW v \in Values, Set(t, k, v)
      PROVE  OneBuilder'
  BY <1>4 DEF Set
<1>5. ASSUME NEW t \in Threads, Hit(t) PROVE OneBuilder'
  BY <1>5 DEF Hit
<1>6. ASSUME NEW t \in Threads, JoinWait(t) PROVE OneBuilder'
  BY <1>6 DEF JoinWait
<1>7. ASSUME NEW t \in Threads, CancelledAtEntry(t) PROVE OneBuilder'
  BY <1>7 DEF CancelledAtEntry
<1>8. ASSUME NEW t \in Threads, StartBuild(t) PROVE OneBuilder'
  BY <1>8 DEF StartBuild
<1>9. ASSUME NEW t \in Threads, Wake(t) PROVE OneBuilder'
  BY <1>9 DEF Wake
<1>10. ASSUME NEW t \in Threads, TimeOut(t) PROVE OneBuilder'
  BY <1>10 DEF TimeOut
<1>11. ASSUME NEW t \in Threads, GiveUp(t) PROVE OneBuilder'
  BY <1>11 DEF GiveUp
<1>12. ASSUME NEW t \in Threads, KeepWaiting(t) PROVE OneBuilder'
  BY <1>12 DEF KeepWaiting
<1>13. ASSUME NEW t \in Threads, Store(t) PROVE OneBuilder'
  BY <1>13 DEF Store
<1>14. ASSUME NEW t \in Threads, SkipStore(t) PROVE OneBuilder'
  BY <1>14 DEF SkipStore
<1>15. ASSUME NEW t \in Threads, Evict(t) PROVE OneBuilder'
  BY <1>15 DEF Evict
<1>16. ASSUME NEW t \in Threads, Stored(t) PROVE OneBuilder'
  BY <1>16 DEF Stored
<1>17. ASSUME NEW t \in Threads, SetReturns(t) PROVE OneBuilder'
  BY <1>17 DEF SetReturns
<1>18. ASSUME NEW t \in Threads, Finish(t) PROVE OneBuilder'
  BY <1>18 DEF Finish
<1>19. ASSUME NEW t \in Threads, FactoryRaises(t) PROVE OneBuilder'
  BY <1>19 DEF FactoryRaises
<1>20. ASSUME NEW t \in Threads, NEW v \in Values, FactoryReturns(t, v)
       PROVE  OneBuilder'
  BY <1>20 DEF FactoryReturns
<1>21. ASSUME NEW t \in Threads, RequestStop(t) PROVE OneBuilder'
  BY <1>21 DEF RequestStop
<1> QED
  BY <1>1, <1>2, <1>3, <1>4, <1>5, <1>6, <1>7, <1>8, <1>9, <1>10, <1>11,
     <1>12, <1>13, <1>14, <1>15, <1>16, <1>17, <1>18, <1>19, <1>20, <1>21
     DEF Next, Enters, Proceed, Factory

(* A build ends by setting its Event for all who wait for it. *)
LEMMA NoLostWakeupStep ==
    ASSUME Ind, Next
    PROVE  NoLostWakeup'
<1> USE CacheConstants, Sentinels
        DEF Ind, TypeOK, Types, InScope, OneBuilder, NoLostWakeup, Building,
     Storing, Idle, Waiting, WaitersOn, store, flags, Goto, Return,
     CountCall, Free, Miss, Cached
<1>1. ASSUME NEW t \in Threads, Clear(t) PROVE NoLostWakeup'
  BY <1>1 DEF Clear
<1>2. ASSUME NEW t \in Threads, NEW k \in Keys, GetOrSet(t, k)
      PROVE  NoLostWakeup'
  BY <1>2 DEF GetOrSet
<1>3. ASSUME NEW t \in Threads, NEW k \in Keys, Get(t, k) PROVE NoLostWakeup'
  BY <1>3 DEF Get
<1>4. ASSUME NEW t \in Threads, NEW k \in Keys, NEW v \in Values, Set(t, k, v)
      PROVE  NoLostWakeup'
  BY <1>4 DEF Set
<1>5. ASSUME NEW t \in Threads, Hit(t) PROVE NoLostWakeup'
  BY <1>5 DEF Hit
<1>6. ASSUME NEW t \in Threads, JoinWait(t) PROVE NoLostWakeup'
  BY <1>6 DEF JoinWait
<1>7. ASSUME NEW t \in Threads, CancelledAtEntry(t) PROVE NoLostWakeup'
  BY <1>7 DEF CancelledAtEntry
<1>8. ASSUME NEW t \in Threads, StartBuild(t) PROVE NoLostWakeup'
  BY <1>8 DEF StartBuild
<1>9. ASSUME NEW t \in Threads, Wake(t) PROVE NoLostWakeup'
  BY <1>9 DEF Wake
<1>10. ASSUME NEW t \in Threads, TimeOut(t) PROVE NoLostWakeup'
  BY <1>10 DEF TimeOut
<1>11. ASSUME NEW t \in Threads, GiveUp(t) PROVE NoLostWakeup'
  BY <1>11 DEF GiveUp
<1>12. ASSUME NEW t \in Threads, KeepWaiting(t) PROVE NoLostWakeup'
  BY <1>12 DEF KeepWaiting
<1>13. ASSUME NEW t \in Threads, Store(t) PROVE NoLostWakeup'
  BY <1>13 DEF Store
<1>14. ASSUME NEW t \in Threads, SkipStore(t) PROVE NoLostWakeup'
  BY <1>14 DEF SkipStore
<1>15. ASSUME NEW t \in Threads, Evict(t) PROVE NoLostWakeup'
  BY <1>15 DEF Evict
<1>16. ASSUME NEW t \in Threads, Stored(t) PROVE NoLostWakeup'
  BY <1>16 DEF Stored
<1>17. ASSUME NEW t \in Threads, SetReturns(t) PROVE NoLostWakeup'
  BY <1>17 DEF SetReturns
<1>18. ASSUME NEW t \in Threads, Finish(t) PROVE NoLostWakeup'
  BY <1>18 DEF Finish
<1>19. ASSUME NEW t \in Threads, FactoryRaises(t) PROVE NoLostWakeup'
  BY <1>19 DEF FactoryRaises
<1>20. ASSUME NEW t \in Threads, NEW v \in Values, FactoryReturns(t, v)
       PROVE  NoLostWakeup'
  BY <1>20 DEF FactoryReturns
<1>21. ASSUME NEW t \in Threads, RequestStop(t) PROVE NoLostWakeup'
  BY <1>21 DEF RequestStop
<1> QED
  BY <1>1, <1>2, <1>3, <1>4, <1>5, <1>6, <1>7, <1>8, <1>9, <1>10, <1>11,
     <1>12, <1>13, <1>14, <1>15, <1>16, <1>17, <1>18, <1>19, <1>20, <1>21
     DEF Next, Enters, Proceed, Factory

(* The list and the dictionary are edited together. *)
LEMMA OrderStep ==
    ASSUME Ind, Next
    PROVE  OrderIsContent'
<1> USE CacheConstants, Sentinels
        DEF Ind, TypeOK, Types, InScope, OrderIsContent, Idle, store, flags,
     Goto, Return, CountCall, Free, Miss, Cached
<1>1. ASSUME NEW t \in Threads, Clear(t) PROVE OrderIsContent'
  BY <1>1 DEF Clear
<1>2. ASSUME NEW t \in Threads, NEW k \in Keys, GetOrSet(t, k)
      PROVE  OrderIsContent'
  BY <1>2 DEF GetOrSet
<1>3. ASSUME NEW t \in Threads, NEW k \in Keys, Get(t, k)
      PROVE  OrderIsContent'
  BY <1>3, ReadEffect DEF Get, Has, Distinct
<1>4. ASSUME NEW t \in Threads, NEW k \in Keys, NEW v \in Values, Set(t, k, v)
      PROVE  OrderIsContent'
  BY <1>4 DEF Set
<1>5. ASSUME NEW t \in Threads, Hit(t) PROVE OrderIsContent'
  BY <1>5, ReadEffect DEF Hit, Has, Distinct
<1>6. ASSUME NEW t \in Threads, JoinWait(t) PROVE OrderIsContent'
  BY <1>6 DEF JoinWait
<1>7. ASSUME NEW t \in Threads, CancelledAtEntry(t) PROVE OrderIsContent'
  BY <1>7 DEF CancelledAtEntry
<1>8. ASSUME NEW t \in Threads, StartBuild(t) PROVE OrderIsContent'
  BY <1>8 DEF StartBuild
<1>9. ASSUME NEW t \in Threads, Wake(t) PROVE OrderIsContent'
  BY <1>9 DEF Wake
<1>10. ASSUME NEW t \in Threads, TimeOut(t) PROVE OrderIsContent'
  BY <1>10 DEF TimeOut
<1>11. ASSUME NEW t \in Threads, GiveUp(t) PROVE OrderIsContent'
  BY <1>11 DEF GiveUp
<1>12. ASSUME NEW t \in Threads, KeepWaiting(t) PROVE OrderIsContent'
  BY <1>12 DEF KeepWaiting
<1>13. ASSUME NEW t \in Threads, Store(t) PROVE OrderIsContent'
  <2>1. /\ key[t] \in Keys /\ hand[t] \in Values
        /\ Distinct(order')
        /\ \A x : Has(order', x) <=> Has(order, x) \/ x = key[t]
        /\ val' = [val EXCEPT ![key[t]] = hand[t]]
    BY <1>13, StoreEffect
  <2>2. \A k \in Keys : Cached(k) <=> Has(order, k)
    BY DEF Has
  <2>3. \A k \in Keys : (val'[k] # NoValue) <=> Has(order', k)
    BY <2>1, <2>2
  <2> QED
    BY <2>1, <2>3 DEF Has, Distinct
<1>14. ASSUME NEW t \in Threads, SkipStore(t) PROVE OrderIsContent'
  BY <1>14 DEF SkipStore
<1>15. ASSUME NEW t \in Threads, Evict(t) PROVE OrderIsContent'
  <2>1. /\ Head(order) \in Keys
        /\ Distinct(order')
        /\ \A x : Has(order', x) <=> Has(order, x) /\ x # Head(order)
    BY <1>15, EvictEffect
  <2>2. \A k \in Keys : Cached(k) <=> Has(order, k)
    BY DEF Has
  <2>3. \A k \in Keys : (val'[k] # NoValue) <=> Has(order', k)
    BY <1>15, <2>1, <2>2 DEF Evict, PopOldest
  <2> QED
    BY <2>1, <2>3 DEF Has, Distinct
<1>16. ASSUME NEW t \in Threads, Stored(t) PROVE OrderIsContent'
  BY <1>16 DEF Stored
<1>17. ASSUME NEW t \in Threads, SetReturns(t) PROVE OrderIsContent'
  BY <1>17 DEF SetReturns
<1>18. ASSUME NEW t \in Threads, Finish(t) PROVE OrderIsContent'
  BY <1>18 DEF Finish
<1>19. ASSUME NEW t \in Threads, FactoryRaises(t) PROVE OrderIsContent'
  BY <1>19 DEF FactoryRaises
<1>20. ASSUME NEW t \in Threads, NEW v \in Values, FactoryReturns(t, v)
       PROVE  OrderIsContent'
  BY <1>20 DEF FactoryReturns
<1>21. ASSUME NEW t \in Threads, RequestStop(t) PROVE OrderIsContent'
  BY <1>21 DEF RequestStop
<1> QED
  BY <1>1, <1>2, <1>3, <1>4, <1>5, <1>6, <1>7, <1>8, <1>9, <1>10, <1>11,
     <1>12, <1>13, <1>14, <1>15, <1>16, <1>17, <1>18, <1>19, <1>20, <1>21
     DEF Next, Enters, Proceed, Factory

(* Each step keeps the types. *)
LEMMA TypesStep ==
    ASSUME Ind, Next
    PROVE  Types'
<1> USE CacheConstants, Sentinels
        DEF Ind, TypeOK, Types, InScope, Idle, Waiting, Labels, WaitersOn,
     store, flags, Goto, Return, CountCall, Free, Miss, Cached
<1>1. ASSUME NEW t \in Threads, Clear(t) PROVE Types'
  BY <1>1 DEF Clear
<1>2. ASSUME NEW t \in Threads, NEW k \in Keys, GetOrSet(t, k) PROVE Types'
  <2>1. calls' \in [Threads -> Nat]
    BY <1>2 DEF GetOrSet
  <2>2. /\ stoppable' \subseteq Threads /\ keepEmpty' \subseteq Threads
        /\ stopping' \subseteq stoppable'
    BY <1>2 DEF GetOrSet
  <2>3. key' \in [Threads -> Keys \cup {NoKey}] /\ pc' \in [Threads -> Labels]
    BY <1>2 DEF GetOrSet
  <2>4. UNCHANGED <<order, val, weights, total, inflight, lock, hand, awaits,
                    signalled>>
    BY <1>2 DEF GetOrSet
  <2> QED
    BY <2>1, <2>2, <2>3, <2>4
<1>3. ASSUME NEW t \in Threads, NEW k \in Keys, Get(t, k) PROVE Types'
  BY <1>3, ReadEffect DEF Get
<1>4. ASSUME NEW t \in Threads, NEW k \in Keys, NEW v \in Values, Set(t, k, v)
      PROVE  Types'
  <2>1. calls' \in [Threads -> Nat]
    BY <1>4 DEF Set
  <2> QED
    BY <1>4, <2>1 DEF Set
<1>5. ASSUME NEW t \in Threads, Hit(t) PROVE Types'
  BY <1>5, ReadEffect DEF Hit
<1>6. ASSUME NEW t \in Threads, JoinWait(t) PROVE Types'
  BY <1>6 DEF JoinWait
<1>7. ASSUME NEW t \in Threads, CancelledAtEntry(t) PROVE Types'
  BY <1>7 DEF CancelledAtEntry
<1>8. ASSUME NEW t \in Threads, StartBuild(t) PROVE Types'
  BY <1>8 DEF StartBuild
<1>9. ASSUME NEW t \in Threads, Wake(t) PROVE Types'
  BY <1>9 DEF Wake
<1>10. ASSUME NEW t \in Threads, TimeOut(t) PROVE Types'
  BY <1>10 DEF TimeOut
<1>11. ASSUME NEW t \in Threads, GiveUp(t) PROVE Types'
  BY <1>11 DEF GiveUp
<1>12. ASSUME NEW t \in Threads, KeepWaiting(t) PROVE Types'
  BY <1>12 DEF KeepWaiting
<1>13. ASSUME NEW t \in Threads, Store(t) PROVE Types'
  <2>1. /\ key[t] \in Keys /\ hand[t] \in Values
        /\ order' \in Seq(Keys)
        /\ val' = [val EXCEPT ![key[t]] = hand[t]]
    BY <1>13, StoreEffect
  <2>2. weights' \in [Keys -> Nat] /\ total' \in Int
    BY <1>13, <2>1 DEF Store, Insert
  <2>3. pc' \in [Threads -> Labels]
    BY <1>13 DEF Store
  <2> QED
    BY <1>13, <2>1, <2>2, <2>3 DEF Store
<1>14. ASSUME NEW t \in Threads, SkipStore(t) PROVE Types'
  BY <1>14 DEF SkipStore
<1>15. ASSUME NEW t \in Threads, Evict(t) PROVE Types'
  <2>1. Head(order) \in Keys /\ order' \in Seq(Keys)
    BY <1>15, EvictEffect
  <2>2. weights' \in [Keys -> Nat] /\ total' \in Int
    BY <1>15, <2>1 DEF Evict, PopOldest
  <2> QED
    BY <1>15, <2>1, <2>2 DEF Evict, PopOldest
<1>16. ASSUME NEW t \in Threads, Stored(t) PROVE Types'
  BY <1>16 DEF Stored
<1>17. ASSUME NEW t \in Threads, SetReturns(t) PROVE Types'
  BY <1>17 DEF SetReturns
<1>18. ASSUME NEW t \in Threads, Finish(t) PROVE Types'
  BY <1>18 DEF Finish
<1>19. ASSUME NEW t \in Threads, FactoryRaises(t) PROVE Types'
  BY <1>19 DEF FactoryRaises
<1>20. ASSUME NEW t \in Threads, NEW v \in Values, FactoryReturns(t, v)
       PROVE  Types'
  BY <1>20 DEF FactoryReturns
<1>21. ASSUME NEW t \in Threads, RequestStop(t) PROVE Types'
  BY <1>21 DEF RequestStop
<1> QED
  BY <1>1, <1>2, <1>3, <1>4, <1>5, <1>6, <1>7, <1>8, <1>9, <1>10, <1>11,
     <1>12, <1>13, <1>14, <1>15, <1>16, <1>17, <1>18, <1>19, <1>20, <1>21
     DEF Next, Enters, Proceed, Factory

(* Each step keeps the locals that are in scope. *)
LEMMA InScopeStep ==
    ASSUME Ind, Next
    PROVE  (\A u \in Threads : InScope(u))'
<1> USE CacheConstants, Sentinels
        DEF Ind, TypeOK, Types, InScope, Idle, Waiting, Storing, Labels,
     WaitersOn, store, flags, Goto, Return, CountCall, Free, Miss, Cached
<1>1. ASSUME NEW t \in Threads, Clear(t)
      PROVE  (\A u \in Threads : InScope(u))'
  BY <1>1 DEF Clear
<1>2. ASSUME NEW t \in Threads, NEW k \in Keys, GetOrSet(t, k)
      PROVE  (\A u \in Threads : InScope(u))'
  BY <1>2 DEF GetOrSet
<1>3. ASSUME NEW t \in Threads, NEW k \in Keys, Get(t, k)
      PROVE  (\A u \in Threads : InScope(u))'
  BY <1>3 DEF Get
<1>4. ASSUME NEW t \in Threads, NEW k \in Keys, NEW v \in Values, Set(t, k, v)
      PROVE  (\A u \in Threads : InScope(u))'
  BY <1>4 DEF Set
<1>5. ASSUME NEW t \in Threads, Hit(t) PROVE (\A u \in Threads : InScope(u))'
  BY <1>5 DEF Hit
<1>6. ASSUME NEW t \in Threads, JoinWait(t)
      PROVE  (\A u \in Threads : InScope(u))'
  BY <1>6 DEF JoinWait
<1>7. ASSUME NEW t \in Threads, CancelledAtEntry(t)
      PROVE  (\A u \in Threads : InScope(u))'
  BY <1>7 DEF CancelledAtEntry
<1>8. ASSUME NEW t \in Threads, StartBuild(t)
      PROVE  (\A u \in Threads : InScope(u))'
  BY <1>8 DEF StartBuild
<1>9. ASSUME NEW t \in Threads, Wake(t) PROVE (\A u \in Threads : InScope(u))'
  BY <1>9 DEF Wake
<1>10. ASSUME NEW t \in Threads, TimeOut(t)
       PROVE  (\A u \in Threads : InScope(u))'
  BY <1>10 DEF TimeOut
<1>11. ASSUME NEW t \in Threads, GiveUp(t)
       PROVE  (\A u \in Threads : InScope(u))'
  BY <1>11 DEF GiveUp
<1>12. ASSUME NEW t \in Threads, KeepWaiting(t)
       PROVE  (\A u \in Threads : InScope(u))'
  BY <1>12 DEF KeepWaiting
<1>13. ASSUME NEW t \in Threads, Store(t)
       PROVE  (\A u \in Threads : InScope(u))'
  BY <1>13 DEF Store
<1>14. ASSUME NEW t \in Threads, SkipStore(t)
       PROVE  (\A u \in Threads : InScope(u))'
  BY <1>14 DEF SkipStore
<1>15. ASSUME NEW t \in Threads, Evict(t)
       PROVE  (\A u \in Threads : InScope(u))'
  BY <1>15 DEF Evict
<1>16. ASSUME NEW t \in Threads, Stored(t)
       PROVE  (\A u \in Threads : InScope(u))'
  BY <1>16 DEF Stored
<1>17. ASSUME NEW t \in Threads, SetReturns(t)
       PROVE  (\A u \in Threads : InScope(u))'
  BY <1>17 DEF SetReturns
<1>18. ASSUME NEW t \in Threads, Finish(t)
       PROVE  (\A u \in Threads : InScope(u))'
  BY <1>18 DEF Finish
<1>19. ASSUME NEW t \in Threads, FactoryRaises(t)
       PROVE  (\A u \in Threads : InScope(u))'
  BY <1>19 DEF FactoryRaises
<1>20. ASSUME NEW t \in Threads, NEW v \in Values, FactoryReturns(t, v)
       PROVE  (\A u \in Threads : InScope(u))'
  BY <1>20 DEF FactoryReturns
<1>21. ASSUME NEW t \in Threads, RequestStop(t)
       PROVE  (\A u \in Threads : InScope(u))'
  BY <1>21 DEF RequestStop
<1> QED
  BY <1>1, <1>2, <1>3, <1>4, <1>5, <1>6, <1>7, <1>8, <1>9, <1>10, <1>11,
     <1>12, <1>13, <1>14, <1>15, <1>16, <1>17, <1>18, <1>19, <1>20, <1>21
     DEF Next, Enters, Proceed, Factory

(* _store gives the lock back within the limits, and only then. *)
LEMMA BoundedStep ==
    ASSUME Ind, Next
    PROVE  Bounded'
<1> USE CacheConstants, Sentinels
        DEF Ind, TypeOK, Types, InScope, Bounded, Idle, store, flags, Goto,
     Return, CountCall, Free, Miss, Cached
<1>1. ASSUME NEW t \in Threads, Clear(t) PROVE Bounded'
  BY <1>1 DEF Clear, OverLimit, TooMany, TooHeavy
<1>2. ASSUME NEW t \in Threads, NEW k \in Keys, GetOrSet(t, k) PROVE Bounded'
  BY <1>2 DEF GetOrSet, OverLimit, TooMany, TooHeavy
<1>3. ASSUME NEW t \in Threads, NEW k \in Keys, Get(t, k) PROVE Bounded'
  BY <1>3, ReadEffect DEF Get, OverLimit, TooMany, TooHeavy
<1>4. ASSUME NEW t \in Threads, NEW k \in Keys, NEW v \in Values, Set(t, k, v)
      PROVE  Bounded'
  BY <1>4 DEF Set, OverLimit, TooMany, TooHeavy
<1>5. ASSUME NEW t \in Threads, Hit(t) PROVE Bounded'
  BY <1>5, ReadEffect DEF Hit, OverLimit, TooMany, TooHeavy
<1>6. ASSUME NEW t \in Threads, JoinWait(t) PROVE Bounded'
  BY <1>6 DEF JoinWait, OverLimit, TooMany, TooHeavy
<1>7. ASSUME NEW t \in Threads, CancelledAtEntry(t) PROVE Bounded'
  BY <1>7 DEF CancelledAtEntry, OverLimit, TooMany, TooHeavy
<1>8. ASSUME NEW t \in Threads, StartBuild(t) PROVE Bounded'
  BY <1>8 DEF StartBuild, OverLimit, TooMany, TooHeavy
<1>9. ASSUME NEW t \in Threads, Wake(t) PROVE Bounded'
  BY <1>9 DEF Wake, OverLimit, TooMany, TooHeavy
<1>10. ASSUME NEW t \in Threads, TimeOut(t) PROVE Bounded'
  BY <1>10 DEF TimeOut, OverLimit, TooMany, TooHeavy
<1>11. ASSUME NEW t \in Threads, GiveUp(t) PROVE Bounded'
  BY <1>11 DEF GiveUp, OverLimit, TooMany, TooHeavy
<1>12. ASSUME NEW t \in Threads, KeepWaiting(t) PROVE Bounded'
  BY <1>12 DEF KeepWaiting, OverLimit, TooMany, TooHeavy
<1>13. ASSUME NEW t \in Threads, Store(t) PROVE Bounded'
  BY <1>13 DEF Store
<1>14. ASSUME NEW t \in Threads, SkipStore(t) PROVE Bounded'
  BY <1>14 DEF SkipStore, OverLimit, TooMany, TooHeavy
<1>15. ASSUME NEW t \in Threads, Evict(t) PROVE Bounded'
  BY <1>15 DEF Evict
<1>16. ASSUME NEW t \in Threads, Stored(t) PROVE Bounded'
  BY <1>16 DEF Stored, OverLimit, TooMany, TooHeavy
<1>17. ASSUME NEW t \in Threads, SetReturns(t) PROVE Bounded'
  BY <1>17 DEF SetReturns, OverLimit, TooMany, TooHeavy
<1>18. ASSUME NEW t \in Threads, Finish(t) PROVE Bounded'
  BY <1>18 DEF Finish, OverLimit, TooMany, TooHeavy
<1>19. ASSUME NEW t \in Threads, FactoryRaises(t) PROVE Bounded'
  BY <1>19 DEF FactoryRaises, OverLimit, TooMany, TooHeavy
<1>20. ASSUME NEW t \in Threads, NEW v \in Values, FactoryReturns(t, v)
       PROVE  Bounded'
  BY <1>20 DEF FactoryReturns, OverLimit, TooMany, TooHeavy
<1>21. ASSUME NEW t \in Threads, RequestStop(t) PROVE Bounded'
  BY <1>21 DEF RequestStop, OverLimit, TooMany, TooHeavy
<1> QED
  BY <1>1, <1>2, <1>3, <1>4, <1>5, <1>6, <1>7, <1>8, <1>9, <1>10, <1>11,
     <1>12, <1>13, <1>14, <1>15, <1>16, <1>17, <1>18, <1>19, <1>20, <1>21
     DEF Next, Enters, Proceed, Factory

(* Only the head of the list is popped, and only when it is not the last. *)
LEMMA NewestKeptStep ==
    ASSUME Ind, Next
    PROVE  NewestKept'
<1> USE CacheConstants, Sentinels
        DEF Ind, TypeOK, Types, InScope, NewestKept, Idle, Storing, store,
     flags, Goto, Return, CountCall, Free, Miss, Cached
<1>1. ASSUME NEW t \in Threads, Clear(t) PROVE NewestKept'
  BY <1>1 DEF Clear
<1>2. ASSUME NEW t \in Threads, NEW k \in Keys, GetOrSet(t, k)
      PROVE  NewestKept'
  BY <1>2 DEF GetOrSet
<1>3. ASSUME NEW t \in Threads, NEW k \in Keys, Get(t, k) PROVE NewestKept'
  BY <1>3 DEF Get
<1>4. ASSUME NEW t \in Threads, NEW k \in Keys, NEW v \in Values, Set(t, k, v)
      PROVE  NewestKept'
  BY <1>4 DEF Set
<1>5. ASSUME NEW t \in Threads, Hit(t) PROVE NewestKept'
  BY <1>5 DEF Hit
<1>6. ASSUME NEW t \in Threads, JoinWait(t) PROVE NewestKept'
  BY <1>6 DEF JoinWait
<1>7. ASSUME NEW t \in Threads, CancelledAtEntry(t) PROVE NewestKept'
  BY <1>7 DEF CancelledAtEntry
<1>8. ASSUME NEW t \in Threads, StartBuild(t) PROVE NewestKept'
  BY <1>8 DEF StartBuild
<1>9. ASSUME NEW t \in Threads, Wake(t) PROVE NewestKept'
  BY <1>9 DEF Wake
<1>10. ASSUME NEW t \in Threads, TimeOut(t) PROVE NewestKept'
  BY <1>10 DEF TimeOut
<1>11. ASSUME NEW t \in Threads, GiveUp(t) PROVE NewestKept'
  BY <1>11 DEF GiveUp
<1>12. ASSUME NEW t \in Threads, KeepWaiting(t) PROVE NewestKept'
  BY <1>12 DEF KeepWaiting
<1>13. ASSUME NEW t \in Threads, Store(t) PROVE NewestKept'
  <2>1. /\ key[t] \in Keys /\ hand[t] \in Values
        /\ order'[Len(order')] = key[t]
        /\ val' = [val EXCEPT ![key[t]] = hand[t]]
    BY <1>13, StoreEffect
  <2>2. pc' = [pc EXCEPT ![t] = "evict"] \/ pc' = [pc EXCEPT ![t] =
        "evictSet"]
    BY <1>13 DEF Store
  <2>3. \A u \in Threads : ~Storing(u)
    BY <1>13 DEF Store
  <2> QED
    BY <1>13, <2>1, <2>2, <2>3 DEF Store
<1>14. ASSUME NEW t \in Threads, SkipStore(t) PROVE NewestKept'
  BY <1>14 DEF SkipStore
<1>15. ASSUME NEW t \in Threads, Evict(t) PROVE NewestKept'
  BY <1>15, EvictEffect DEF Evict, PopOldest
<1>16. ASSUME NEW t \in Threads, Stored(t) PROVE NewestKept'
  BY <1>16 DEF Stored
<1>17. ASSUME NEW t \in Threads, SetReturns(t) PROVE NewestKept'
  BY <1>17 DEF SetReturns
<1>18. ASSUME NEW t \in Threads, Finish(t) PROVE NewestKept'
  BY <1>18 DEF Finish
<1>19. ASSUME NEW t \in Threads, FactoryRaises(t) PROVE NewestKept'
  BY <1>19 DEF FactoryRaises
<1>20. ASSUME NEW t \in Threads, NEW v \in Values, FactoryReturns(t, v)
       PROVE  NewestKept'
  BY <1>20 DEF FactoryReturns
<1>21. ASSUME NEW t \in Threads, RequestStop(t) PROVE NewestKept'
  BY <1>21 DEF RequestStop
<1> QED
  BY <1>1, <1>2, <1>3, <1>4, <1>5, <1>6, <1>7, <1>8, <1>9, <1>10, <1>11,
     <1>12, <1>13, <1>14, <1>15, <1>16, <1>17, <1>18, <1>19, <1>20, <1>21
     DEF Next, Enters, Proceed, Factory

(* An empty cache and idle threads satisfy it. *)
LEMMA InitInd == Init => Ind
<1> SUFFICES ASSUME Init PROVE Ind
  OBVIOUS
<1> USE CacheConstants, Sentinels DEF Init
<1>1. TypeOK
  BY DEF TypeOK, Types, InScope, Idle, Waiting, Storing, Labels
<1>2. OrderIsContent /\ Bounded
  BY DEF OrderIsContent, Cached, Bounded, OverLimit
<1>3. OneBuilder /\ NoLostWakeup /\ NewestKept
  BY DEF OneBuilder, NoLostWakeup, NewestKept, Building, Waiting, Storing
<1> QED
  BY <1>1, <1>2, <1>3 DEF Ind

(* It speaks of no variable that is not in vars. *)
LEMMA StutterInd == Ind /\ UNCHANGED vars => Ind'
<1> SUFFICES ASSUME Ind, UNCHANGED vars PROVE Ind'
  OBVIOUS
<1> USE DEF vars, store, flags, Ind
<1>1. TypeOK'
  BY DEF TypeOK, Types, InScope, Idle, Waiting, Storing
<1>2. OrderIsContent' /\ Bounded'
  BY DEF OrderIsContent, Cached, Bounded, Free, OverLimit, TooMany, TooHeavy
<1>3. OneBuilder' /\ NoLostWakeup' /\ NewestKept'
  BY DEF OneBuilder, NoLostWakeup, NewestKept, Building, Waiting, Storing,
         Cached
<1> QED
  BY <1>1, <1>2, <1>3

(* Every reachable state satisfies the inductive invariant. *)
THEOREM Invariance == Spec => []Ind
<1>1. Ind /\ [Next]_vars => Ind'
  <2>1. ASSUME Ind, Next PROVE Ind'
    BY <2>1, TypesStep, InScopeStep, OrderStep, OneBuilderStep,
       NoLostWakeupStep, BoundedStep, NewestKeptStep DEF Ind, TypeOK
  <2> QED
    BY <2>1, StutterInd
<1> QED
  BY <1>1, InitInd, PTL DEF Spec

-----------------------------------------------------------------------------
(* The total weight *)

(* The entries that are there. *)
Present(d) == {k \in Keys : d[k] # NoValue}

(* There are as many as the recency list has places, at most. *)
LEMMA PresentIsFinite ==
    ASSUME TypeOK, OrderIsContent
    PROVE  IsFiniteSet(Present(val)) /\ Present(val) \in SUBSET Keys
<1> DEFINE n == Len(order)
           S == Present(val)
<1>1. n \in Nat /\ DOMAIN order = 1..n /\ order \in Seq(Keys)
  BY DEF TypeOK, Types
<1>2. \A k \in S : \E i \in 1..n : order[i] = k
  BY <1>1 DEF OrderIsContent, Present, Cached
<1>3. \A i \in 1..n : order[i] \in S
  BY <1>1 DEF OrderIsContent, Present, Cached
<1>4. order \in [1..n -> S]
  BY <1>1, <1>3
<1>5. IsFiniteSet(1..n)
  BY <1>1, FS_Interval
<1> HIDE DEF n, S
<1>6. order \in Surjection(1..n, S)
  BY <1>2, <1>4 DEF Surjection
<1>7. IsFiniteSet(S)
  BY <1>5, <1>6, FS_Surjection
<1> QED
  BY <1>7 DEF S, Present

(* WeightAccounting of a dictionary d with weights w and total n. *)
Accounts(d, w, n) ==
    /\ n = Sum(w, Present(d))
    /\ \A k \in Keys : w[k] = IF d[k] # NoValue THEN Weight[d[k]] ELSE 0

(* Every edit of the dictionary adjusts the total by the same amount. *)
LEMMA AccountingStep ==
    ASSUME Ind, WeightAccounting, Next
    PROVE  WeightAccounting'
<1> USE CacheConstants, Sentinels DEF Ind
<1> DEFINE S == Present(val)
<1>1. /\ WeightAccounting <=> Accounts(val, weights, total)
      /\ WeightAccounting' <=> Accounts(val', weights', total')
  BY DEF WeightAccounting, Accounts, Present, Cached
<1>2. Accounts(val, weights, total)
  BY <1>1
<1>3. S \in SUBSET Keys /\ IsFiniteSet(S)
  BY PresentIsFinite
<1>4. weights \in [Keys -> Nat] /\ val \in [Keys -> Values \cup {NoValue}]
  BY DEF TypeOK, Types
<1>5. total = Sum(weights, S) /\ Sum(weights, S) \in Nat
  <2>1. Additive(weights, S)
    BY <1>3, <1>4, SumProperties
  <2> QED
    BY <1>2, <2>1 DEF Accounts, Additive
<1>6. ASSUME NEW k \in Keys, k \notin S PROVE weights[k] = 0
  BY <1>2, <1>6 DEF Accounts, Present
<1> HIDE DEF S
<1>7. CASE UNCHANGED <<val, weights, total>>
  BY <1>1, <1>2, <1>7
<1>8. ASSUME NEW t \in Threads, Clear(t) PROVE WeightAccounting'
  <2>1. Present(val') = {} /\ weights' \in [Keys -> Nat] /\ total' = 0
    BY <1>8 DEF Clear, Present
  <2>2. Additive(weights', {})
    BY <2>1, FS_EmptySet, SumProperties
  <2>3. \A k \in Keys : val'[k] = NoValue /\ weights'[k] = 0
    BY <1>8 DEF Clear
  <2> QED
    BY <1>1, <2>1, <2>2, <2>3 DEF Accounts, Additive
<1>9. ASSUME NEW t \in Threads, Store(t) PROVE WeightAccounting'
  <2> DEFINE k == key[t]
             v == hand[t]
             n == Weight[v]
  <2>1. k \in Keys /\ v \in Values /\ n \in Nat
    BY <1>9, StoreEffect
  <2>2. /\ val' = [val EXCEPT ![k] = v]
        /\ weights' = [weights EXCEPT ![k] = n]
        /\ total' = total - weights[k] + n
    BY <1>9 DEF Store, Insert
  <2>3. v # NoValue
    BY <2>1
  <2> HIDE DEF k, v, n
  <2>4. Present(val') = S \cup {k}
    BY <1>4, <2>1, <2>2, <2>3 DEF S, Present
  <2> DEFINE rest == Sum(weights, S) - (IF k \in S THEN weights[k] ELSE 0)
  <2>5. Sum(weights', S \cup {k}) = rest + n
    <3>1. Adjusted(weights, S, k, n)
      BY <1>3, <1>4, <2>1, SumChanged
    <3> QED
      BY <3>1, <2>2 DEF Adjusted
  <2>6. weights[k] \in Nat /\ (k \notin S => weights[k] = 0)
    BY <1>4, <1>6, <2>1
  <2>7. total' = Sum(weights', Present(val'))
    BY <1>5, <2>1, <2>2, <2>4, <2>5, <2>6
  <2>8. \A x \in Keys : weights'[x] = IF val'[x] # NoValue THEN Weight[val'[x]]
                                                           ELSE 0
    BY <1>2, <1>4, <2>1, <2>2, <2>3 DEF Accounts, n
  <2> QED
    BY <1>1, <2>7, <2>8 DEF Accounts
<1>10. ASSUME NEW t \in Threads, Evict(t) PROVE WeightAccounting'
  <2> DEFINE k == Head(order)
  <2>1. k \in Keys /\ val[k] # NoValue
    BY <1>10, EvictEffect DEF OrderIsContent, Cached, Has
  <2>2. /\ val' = [val EXCEPT ![k] = NoValue]
        /\ weights' = [weights EXCEPT ![k] = 0]
        /\ total' = total - weights[k]
    BY <1>10 DEF Evict, PopOldest
  <2> HIDE DEF k
  <2>3. k \in S /\ Present(val') = S \ {k}
    BY <1>4, <2>1, <2>2 DEF S, Present
  <2> DEFINE rest == Sum(weights, S) - (IF k \in S THEN weights[k] ELSE 0)
  <2>4. Sum(weights', S \ {k}) = rest
    <3>1. Adjusted(weights, S, k, 0)
      BY <1>3, <1>4, <2>1, SumChanged
    <3> QED
      BY <3>1, <2>2 DEF Adjusted
  <2>5. total' = Sum(weights', Present(val'))
    BY <1>5, <2>2, <2>3, <2>4
  <2>6. \A x \in Keys : weights'[x] = IF val'[x] # NoValue THEN Weight[val'[x]]
                                                           ELSE 0
    BY <1>2, <1>4, <2>1, <2>2 DEF Accounts
  <2> QED
    BY <1>1, <2>5, <2>6 DEF Accounts
<1>11. \/ \E t \in Threads : Clear(t) \/ Store(t) \/ Evict(t)
       \/ UNCHANGED <<val, weights, total>>
  BY DEF Next, Enters, Proceed, Factory, GetOrSet, Get, Set, Hit, JoinWait,
         CancelledAtEntry, StartBuild, Wake, TimeOut, GiveUp, KeepWaiting,
         FactoryReturns, FactoryRaises, SkipStore, Stored, SetReturns,
         Finish, RequestStop, store
<1> QED
  BY <1>7, <1>8, <1>9, <1>10, <1>11

-----------------------------------------------------------------------------
(* Results *)

(* The state of LockedCache is well formed after any number of calls. *)
THEOREM TypeCorrect == Spec => []TypeOK
  BY Invariance, PTL DEF Ind

(* The recency list and the dictionary never disagree, whoever edits them. *)
THEOREM ListAndDictionaryAgree == Spec => []OrderIsContent
  BY Invariance, PTL DEF Ind

(* No two threads ever build one key, for any number of threads. *)
THEOREM SingleBuild == Spec => []OneBuilder
  BY Invariance, PTL DEF Ind

(* A waiter whose Event is unset has a builder that will set it. *)
THEOREM WakeupsAreKept == Spec => []NoLostWakeup
  BY Invariance, PTL DEF Ind

(* The limits hold whenever the lock is free, whatever the weights. *)
THEOREM WithinLimits == Spec => []Bounded
  BY Invariance, PTL DEF Ind

(* However heavy the new entry is, eviction never reaches it. *)
THEOREM NewestSurvives == Spec => []NewestKept
  BY Invariance, PTL DEF Ind

(* The total is the weight of what is there, for any number of threads,
   keys and values, and whatever their weights. *)
THEOREM TotalIsExact == Spec => []WeightAccounting
<1>1. Init => WeightAccounting
  <2> SUFFICES ASSUME Init PROVE WeightAccounting
    OBVIOUS
  <2>1. Present(val) = {} /\ weights \in [Keys -> Nat] /\ total = 0
    BY DEF Init, Present
  <2>2. Additive(weights, {})
    BY <2>1, FS_EmptySet, SumProperties
  <2>3. total = Sum(weights, Present(val))
    BY <2>1, <2>2 DEF Additive
  <2>4. \A k \in Keys : val[k] = NoValue /\ weights[k] = 0
    BY DEF Init
  <2> QED
    BY <2>3, <2>4 DEF WeightAccounting, Present, Cached
<1>2. Ind /\ WeightAccounting /\ [Next]_vars => WeightAccounting'
  <2>1. CASE UNCHANGED vars
    BY <2>1 DEF WeightAccounting, Cached, vars, store
  <2> QED
    BY <2>1, AccountingStep
<1> QED
  BY <1>1, <1>2, Invariance, PTL DEF Spec

-----------------------------------------------------------------------------
(* Refinement *)

(* Each step of the cache is a step of the single-flight map, or none. *)
LEMMA StepRefines ==
    ASSUME Ind, [Next]_vars
    PROVE  [Abstract!Next]_(Abstract!vars)
<1> USE DEF Ind, Abstract!vars
<1>1. ASSUME NEW k \in Keys, Cached(k), order' = ToEnd(order, k),
             UNCHANGED <<val, inflight>>
      PROVE  Abstract!Next
  BY <1>1, ReadEffect DEF Abstract!Next, Abstract!Touch, Cached
<1>2. ASSUME NEW t \in Threads, NEW k \in Keys, Get(t, k) PROVE Abstract!Next
  BY <1>1, <1>2 DEF Get
<1>3. ASSUME NEW t \in Threads, Hit(t) PROVE Abstract!Next
  <2>1. key[t] \in Keys
    BY <1>3 DEF Hit, TypeOK, InScope, Idle
  <2> QED
    BY <1>1, <1>3, <2>1 DEF Hit
<1>4. ASSUME NEW t \in Threads, StartBuild(t) PROVE Abstract!Next
  <2>1. key[t] \in Keys
    BY <1>4 DEF StartBuild, Miss, TypeOK, InScope, Idle
  <2>2. Abstract!Claim(t, key[t])
    BY <1>4 DEF StartBuild, Miss, Cached, store, Abstract!Claim
  <2> QED
    BY <2>1, <2>2 DEF Abstract!Next
<1>5. ASSUME NEW t \in Threads, Finish(t) PROVE Abstract!Next
  <2>1. key[t] \in Keys /\ inflight[key[t]] = t
    BY <1>5 DEF Finish, TypeOK, InScope, Idle, OneBuilder, Building
  <2>2. Abstract!Release(key[t])
    BY <1>5, <2>1, Sentinels DEF Finish, store, Abstract!Release
  <2> QED
    BY <2>1, <2>2 DEF Abstract!Next
<1>6. ASSUME NEW t \in Threads, Store(t) PROVE Abstract!Next
  <2>1. Abstract!Put(key[t], hand[t])
    BY <1>6, StoreEffect DEF Store, Abstract!Put
  <2> QED
    BY <1>6, <2>1, StoreEffect DEF Abstract!Next
<1>7. ASSUME NEW t \in Threads, Evict(t) PROVE Abstract!Next
  <2>1. Head(order) \in Keys /\ val[Head(order)] # NoValue
    BY <1>7, EvictEffect DEF OrderIsContent, Cached, Has
  <2>2. Abstract!Drop(Head(order))
    BY <1>7, <2>1, EvictEffect DEF Evict, PopOldest, Abstract!Drop
  <2> QED
    BY <2>1, <2>2 DEF Abstract!Next
<1>8. ASSUME NEW t \in Threads, Clear(t) PROVE Abstract!Next
  BY <1>8 DEF Clear, Abstract!Next, Abstract!Forget
<1>9. ASSUME NEW t \in Threads, NEW k \in Keys, GetOrSet(t, k)
      PROVE  UNCHANGED Abstract!vars
  BY <1>9 DEF GetOrSet, store
<1>10. ASSUME NEW t \in Threads, NEW k \in Keys, NEW v \in Values, Set(t, k,
        v)
      PROVE  UNCHANGED Abstract!vars
  BY <1>10 DEF Set, store
<1>11. ASSUME NEW t \in Threads, JoinWait(t)
      PROVE  UNCHANGED Abstract!vars
  BY <1>11 DEF JoinWait, store
<1>12. ASSUME NEW t \in Threads, CancelledAtEntry(t)
      PROVE  UNCHANGED Abstract!vars
  BY <1>12 DEF CancelledAtEntry, store
<1>13. ASSUME NEW t \in Threads, Wake(t)
      PROVE  UNCHANGED Abstract!vars
  BY <1>13 DEF Wake, store
<1>14. ASSUME NEW t \in Threads, TimeOut(t)
      PROVE  UNCHANGED Abstract!vars
  BY <1>14 DEF TimeOut, store
<1>15. ASSUME NEW t \in Threads, GiveUp(t)
      PROVE  UNCHANGED Abstract!vars
  BY <1>15 DEF GiveUp, store
<1>16. ASSUME NEW t \in Threads, KeepWaiting(t)
      PROVE  UNCHANGED Abstract!vars
  BY <1>16 DEF KeepWaiting, store
<1>17. ASSUME NEW t \in Threads, SkipStore(t)
      PROVE  UNCHANGED Abstract!vars
  BY <1>17 DEF SkipStore, store
<1>18. ASSUME NEW t \in Threads, Stored(t)
      PROVE  UNCHANGED Abstract!vars
  BY <1>18 DEF Stored, store
<1>19. ASSUME NEW t \in Threads, SetReturns(t)
      PROVE  UNCHANGED Abstract!vars
  BY <1>19 DEF SetReturns, store
<1>20. ASSUME NEW t \in Threads, FactoryRaises(t)
      PROVE  UNCHANGED Abstract!vars
  BY <1>20 DEF FactoryRaises, store
<1>21. ASSUME NEW t \in Threads, NEW v \in Values, FactoryReturns(t, v)
      PROVE  UNCHANGED Abstract!vars
  BY <1>21 DEF FactoryReturns, store
<1>22. ASSUME NEW t \in Threads, RequestStop(t)
      PROVE  UNCHANGED Abstract!vars
  BY <1>22 DEF RequestStop, store
<1>23. CASE UNCHANGED vars
  BY <1>23 DEF vars, store
<1> QED
  BY <1>2, <1>3, <1>4, <1>5, <1>6, <1>7, <1>8, <1>9, <1>10, <1>11, <1>12,
     <1>13, <1>14, <1>15, <1>16, <1>17, <1>18, <1>19, <1>20, <1>21, <1>22,
     <1>23
     DEF Next, Enters, Proceed, Factory

(* LockedCache is a single-flight map that keeps the entry used last. *)
THEOREM Refinement == Spec => ImplementsSingleFlight
<1>1. Init => Abstract!Init
  BY DEF Init, Abstract!Init
<1> QED
  BY <1>1, StepRefines, Invariance, PTL
     DEF Spec, ImplementsSingleFlight, Abstract!Spec
=============================================================================
