--------------------------- MODULE Session_proofs ---------------------------
(***************************************************************************)
(* Proofs about EdgeVisit, PicBlocks and Session, for any visits, nodes,   *)
(* functions, answers and texts.                                           *)
(***************************************************************************)
EXTENDS Session, FiniteSetTheorems, WellFoundedInduction, TLAPS

(* Numbers have a least one among them. *)
LEMMA LeastExists ==
    ASSUME NEW T \in SUBSET Nat, T # {}
    PROVE  \E x \in T : \A y \in T : x <= y
<1>1. PICK R : /\ IsWellFoundedOn(R, Nat)
               /\ \A x, y \in Nat : y < x => <<y, x>> \in R
  <2> DEFINE R == OpToRel(<, Nat)
  <2>1. IsWellFoundedOn(R, Nat)
    BY NatLessThanWellFounded
  <2>2. \A x, y \in Nat : y < x => <<y, x>> \in R
    BY DEF OpToRel
  <2> QED
    BY <2>1, <2>2, Zenon
<1>2. PICK x \in T : \A y \in T : <<y, x>> \notin R
  BY <1>1, WFMin
<1>3. ASSUME NEW y \in T PROVE x <= y
  <2>1. x \in Nat /\ y \in Nat
    OBVIOUS
  <2>2. ~(y < x)
    BY <1>1, <1>2, <2>1, Zenon
  <2> QED
    BY <2>1, <2>2
<1> QED
  BY <1>3

(* ... and up to a bound a greatest. *)
LEMMA GreatestExists ==
    ASSUME NEW n \in Nat, NEW T \in SUBSET (1..n), T # {}
    PROVE  \E x \in T : \A y \in T : y <= x
<1> DEFINE U == {k \in Nat : \A y \in T : y <= k}
<1>1. n \in U
  OBVIOUS
<1>2. PICK k \in U : \A l \in U : k <= l
  BY <1>1, LeastExists
<1>3. k \in T
  <2> SUFFICES ASSUME k \notin T PROVE FALSE
    OBVIOUS
  <2>1. PICK y \in T : TRUE
    OBVIOUS
  <2>2. k \in Nat /\ y \in 1..n /\ y <= k
    BY <1>2
  <2>3. k - 1 \in Nat /\ \A z \in T : z <= k - 1
    BY <1>2, <2>2
  <2>4. k - 1 \in U
    BY <2>3
  <2> QED
    BY <1>2, <2>4, <2>3
<1> QED
  BY <1>2, <1>3

(* A sequence has finitely many places. *)
LEMMA PlacesAreFinite ==
    ASSUME NEW T, NEW s \in Seq(T)
    PROVE  IsFiniteSet(DOMAIN s)
<1>1. Len(s) \in Nat /\ DOMAIN s = 1..Len(s)
  OBVIOUS
<1> QED
  BY <1>1, FS_Interval

(* A finite set in a strict order: its elements are at different places, *)
LEMMA PlacesDiffer ==
    ASSUME NEW S, IsFiniteSet(S), NEW before,
           \A x \in S : before[x] \subseteq S /\ x \notin before[x],
           \A x, y, z \in S :
              x \in before[y] /\ y \in before[z] => x \in before[z]
    PROVE  /\ \A x \in S : Cardinality(before[x]) \in 0..(Cardinality(S) - 1)
           /\ \A x, y \in S : x \in before[y] =>
                 Cardinality(before[x]) < Cardinality(before[y])
<1> DEFINE n == Cardinality(S)
<1>1. n \in Nat
  BY FS_CardinalityType
<1>2. ASSUME NEW x \in S
      PROVE  IsFiniteSet(before[x]) /\ Cardinality(before[x]) \in 0..(n - 1)
  <2> DEFINE others == S \ {x}
             below == before[x]
  <2>1. IsFiniteSet(others) /\ Cardinality(others) = n - 1
    BY FS_RemoveElement
  <2>2. below \in SUBSET others
    OBVIOUS
  <2> HIDE DEF others, below, n
  <2>3. IsFiniteSet(below) /\ Cardinality(below) <= Cardinality(others)
    BY <2>1, <2>2, FS_Subset
  <2>4. Cardinality(below) \in Nat
    BY <2>3, FS_CardinalityType
  <2>5. Cardinality(below) \in 0..(n - 1)
    BY <1>1, <2>1, <2>3, <2>4
  <2> QED
    BY <2>3, <2>5 DEF below
<1>3. ASSUME NEW x \in S, NEW y \in S, x \in before[y]
      PROVE  Cardinality(before[x]) < Cardinality(before[y])
  <2> DEFINE low == before[x]
             high == before[y]
  <2>1. low \in SUBSET high /\ low # high
    BY <1>3
  <2>2. IsFiniteSet(high) /\ Cardinality(low) \in Nat /\ Cardinality(high) \in Nat
    <3>1. IsFiniteSet(low) /\ IsFiniteSet(high)
      BY <1>2
    <3> HIDE DEF low, high
    <3> QED
      BY <3>1, FS_CardinalityType
  <2> HIDE DEF low, high
  <2>3. Cardinality(low) <= Cardinality(high) /\ Cardinality(low) # Cardinality(high)
    BY <2>1, <2>2, FS_Subset
  <2>4. Cardinality(low) < Cardinality(high)
    BY <2>2, <2>3
  <2> QED
    BY <2>4 DEF low, high
<1> QED
  BY <1>2, <1>3

(* ... and every place is somebody's, *)
LEMMA EveryPlaceTaken ==
    ASSUME NEW S, IsFiniteSet(S), NEW before,
           \A x \in S : before[x] \subseteq S /\ x \notin before[x],
           \A x, y, z \in S :
              x \in before[y] /\ y \in before[z] => x \in before[z],
           \A x, y \in S : x # y => x \in before[y] \/ y \in before[x],
           NEW k \in 1..Cardinality(S)
    PROVE  \E x \in S : Cardinality(before[x]) + 1 = k
<1> DEFINE n == Cardinality(S)
           f == [x \in S |-> Cardinality(before[x]) + 1]
<1>1. n \in Nat
  BY FS_CardinalityType
<1>2. /\ \A x \in S : Cardinality(before[x]) \in 0..(n - 1)
      /\ \A x, y \in S : x \in before[y] =>
            Cardinality(before[x]) < Cardinality(before[y])
  BY PlacesDiffer
<1> HIDE DEF n
<1>3. f \in Injection(S, 1..n)
  <2>1. \A x \in S : f[x] = Cardinality(before[x]) + 1 /\ f[x] \in 1..n
    BY <1>1, <1>2
  <2>2. f \in [S -> 1..n]
    BY <2>1
  <2> HIDE DEF f
  <2>3. ASSUME NEW x \in S, NEW y \in S, x # y PROVE f[x] # f[y]
    BY <1>1, <1>2, <2>1, <2>3
  <2> QED
    BY <2>2, <2>3 DEF Injection, IsInjective
<1>4. IsFiniteSet(1..n) /\ Cardinality(1..n) = n
  BY <1>1, FS_Interval
<1>5. f \in Surjection(S, 1..n)
  <2> HIDE DEF f
  <2> QED
    BY <1>3, <1>4, FS_Injection DEF n
<1> QED
  BY <1>5 DEF Surjection, n

(* ... and so there is a first. *)
LEMMA FirstExists ==
    ASSUME NEW S, IsFiniteSet(S), S # {}, NEW before,
           \A x \in S : before[x] \subseteq S /\ x \notin before[x],
           \A x, y, z \in S :
              x \in before[y] /\ y \in before[z] => x \in before[z],
           \A x, y \in S : x # y => x \in before[y] \/ y \in before[x]
    PROVE  \E x \in S : before[x] = {}
<1>1. 1 \in 1..Cardinality(S)
  BY FS_CardinalityType, FS_EmptySet
<1>2. PICK x \in S : Cardinality(before[x]) + 1 = 1
  BY <1>1, EveryPlaceTaken
<1>3. before[x] \in SUBSET S
  OBVIOUS
<1>4. IsFiniteSet(before[x])
  BY <1>3, FS_Subset
<1>5. Cardinality(before[x]) = 0
  BY <1>2, <1>4, FS_CardinalityType
<1> QED
  BY <1>4, <1>5, FS_EmptySet

(* An answer's candidates of one function are in a strict order, *)
LEMMA AheadOrders ==
    ASSUME NEW s \in Seq(Candidate)
    PROVE  /\ \A i \in DOMAIN s : ~Ahead(s, i, i)
           /\ \A i, j, k \in DOMAIN s :
                 Ahead(s, i, j) /\ Ahead(s, j, k) => Ahead(s, i, k)
           /\ \A i, j \in DOMAIN s : i # j => Ahead(s, i, j) \/ Ahead(s, j, i)
<1>1. \A i \in DOMAIN s : /\ i \in Nat
                          /\ s[i].pichash \in BOOLEAN
                          /\ s[i].score \in Int /\ s[i].bytes \in Int
  <2> SUFFICES ASSUME NEW i \in DOMAIN s
               PROVE  /\ i \in Nat
                      /\ s[i].pichash \in BOOLEAN
                      /\ s[i].score \in Int /\ s[i].bytes \in Int
    OBVIOUS
  <2>1. i \in Nat /\ s[i] \in Candidate
    OBVIOUS
  <2> QED
    BY <2>1 DEF Candidate
<1>2. \A i \in DOMAIN s : ~Ahead(s, i, i)
  BY <1>1 DEF Ahead
<1>3. ASSUME NEW i \in DOMAIN s, NEW j \in DOMAIN s, NEW k \in DOMAIN s,
             Ahead(s, i, j), Ahead(s, j, k)
      PROVE  Ahead(s, i, k)
  BY <1>1, <1>3 DEF Ahead
<1>4. \A i, j \in DOMAIN s : i # j => Ahead(s, i, j) \/ Ahead(s, j, i)
  BY <1>1 DEF Ahead
<1> QED
  BY <1>2, <1>3, <1>4

(* ... and those of all functions in one of the functions first. *)
LEMMA EarlierOrders ==
    ASSUME NEW s \in Seq(Candidate)
    PROVE  LET A == Accepted(s, Params)
               E(i, j) == Earlier(s, Params, i, j)
           IN /\ \A i \in A : ~E(i, i)
              /\ \A i, j, k \in A : E(i, j) /\ E(j, k) => E(i, k)
              /\ \A i, j \in A : i # j => E(i, j) \/ E(j, i)
<1> DEFINE A == Accepted(s, Params)
           G(i) == Group(s, Params, i)
           E(i, j) == Earlier(s, Params, i, j)
           Alike(i, j) == s[i].source = s[j].source /\ Ahead(s, i, j)
           Before(i, j) == \E f \in G(i) : \A g \in G(j) : f < g
<1>1. A \subseteq DOMAIN s /\ A \subseteq Nat
  BY DEF Accepted
<1>2. \A i \in A : i \in G(i) /\ G(i) \in SUBSET Nat
  BY <1>1 DEF Group
<1>3. \A i, j \in A : s[i].source = s[j].source => G(i) = G(j)
  BY DEF Group
<1>4. \A i, j \in A : s[i].source # s[j].source => G(i) \cap G(j) = {}
  BY DEF Group
<1>5. \A i, j : E(i, j) <=> Alike(i, j) \/ Before(i, j)
  BY DEF Earlier
<1> HIDE DEF A, G, E
<1>6. ASSUME NEW i \in A PROVE ~E(i, i)
  BY <1>1, <1>2, <1>5, AheadOrders
<1>7. ASSUME NEW i \in A, NEW j \in A, NEW k \in A, E(i, j), E(j, k)
      PROVE  E(i, k)
  <2>1. CASE Alike(i, j) /\ Alike(j, k)
    BY <2>1, <1>1, <1>5, AheadOrders
  <2>2. CASE Alike(i, j) /\ Before(j, k)
    BY <2>2, <1>3, <1>5
  <2>3. CASE Before(i, j) /\ Alike(j, k)
    BY <2>3, <1>3, <1>5
  <2>4. CASE Before(i, j) /\ Before(j, k)
    <3>1. PICK f \in G(i) : \A g \in G(j) : f < g
      BY <2>4
    <3>2. PICK h \in G(j) : \A g \in G(k) : h < g
      BY <2>4
    <3>3. ASSUME NEW g \in G(k) PROVE f < g
      <4>1. f \in Nat /\ h \in Nat /\ g \in Nat
        BY <1>2
      <4>2. f < h /\ h < g
        BY <3>1, <3>2
      <4> QED
        BY <4>1, <4>2
    <3> QED
      BY <3>3, <1>5
  <2> QED
    BY <1>5, <1>7, <2>1, <2>2, <2>3, <2>4
<1>8. ASSUME NEW i \in A, NEW j \in A, i # j PROVE E(i, j) \/ E(j, i)
  <2>1. CASE s[i].source = s[j].source
    BY <2>1, <1>1, <1>5, <1>8, AheadOrders
  <2>2. CASE s[i].source # s[j].source
    <3>1. PICK f \in G(i) : \A x \in G(i) : f <= x
      BY <1>2, LeastExists
    <3>2. PICK h \in G(j) : \A x \in G(j) : h <= x
      BY <1>2, LeastExists
    <3>3. f \in Nat /\ h \in Nat /\ f # h
      BY <1>2, <1>4, <2>2
    <3>4. CASE f < h
      <4>1. ASSUME NEW x \in G(j) PROVE f < x
        BY <1>2, <3>2, <3>3, <3>4
      <4> QED
        BY <4>1, <1>5
    <3>5. CASE h < f
      <4>1. ASSUME NEW x \in G(i) PROVE h < x
        BY <1>2, <3>1, <3>3, <3>5
      <4> QED
        BY <4>1, <1>5
    <3> QED
      BY <3>3, <3>4, <3>5
  <2> QED
    BY <2>1, <2>2
<1> QED
  BY <1>6, <1>7, <1>8 DEF A, E

(* An answer is parsed to its kept candidates, each at its place. *)
LEMMA RankedIsKept ==
    ASSUME NEW s \in Seq(Candidate)
    PROVE  LET n == Cardinality(Kept(s, Params))
           IN /\ n \in Nat /\ DOMAIN Ranked(s, Params) = 1..n
              /\ \A r \in 1..n : Ranked(s, Params)[r] \in Kept(s, Params)
              /\ \A i \in Kept(s, Params) :
                    \E r \in 1..n : Ranked(s, Params)[r] = i
<1> DEFINE K == Kept(s, Params)
           n == Cardinality(K)
           before == [i \in K |-> {j \in K : Earlier(s, Params, j, i)}]
           Place(i) == Cardinality({j \in K : Earlier(s, Params, j, i)}) + 1
<1>1. K \in SUBSET (1..Len(s)) /\ K \subseteq Accepted(s, Params)
  BY DEF Kept, Accepted
<1>2. IsFiniteSet(K) /\ n \in Nat
  <2>1. IsFiniteSet(1..Len(s))
    BY FS_Interval
  <2> HIDE DEF K
  <2>2. IsFiniteSet(K)
    BY <2>1, <1>1, FS_Subset
  <2> QED
    BY <2>2, FS_CardinalityType
<1>3. \A i, j \in K : j \in before[i] <=> Earlier(s, Params, j, i)
  OBVIOUS
<1>4. \A i \in K : before[i] \subseteq K /\ Place(i) = Cardinality(before[i]) + 1
  OBVIOUS
<1>5. /\ \A i \in K : before[i] \subseteq K /\ i \notin before[i]
      /\ \A i, j, l \in K :
            i \in before[j] /\ j \in before[l] => i \in before[l]
      /\ \A i, j \in K : i # j => i \in before[j] \/ j \in before[i]
  <2> HIDE DEF K, before, Place
  <2> QED
    BY <1>1, <1>3, <1>4, EarlierOrders
<1>6. \A k \in 1..n : \E i \in K : Place(i) = k
  <2> HIDE DEF K, before, Place
  <2>1. \A k \in 1..n : \E i \in K : Cardinality(before[i]) + 1 = k
    BY <1>2, <1>5, EveryPlaceTaken
  <2> QED
    BY <1>4, <2>1
<1>7. /\ \A i \in K : Place(i) \in 1..n
      /\ \A i, j \in K : i # j => Place(i) # Place(j)
  <2> HIDE DEF K, before, Place, n
  <2>1. /\ \A i \in K : Cardinality(before[i]) \in 0..(n - 1)
        /\ \A i, j \in K : i \in before[j] =>
              Cardinality(before[i]) < Cardinality(before[j])
    BY <1>2, <1>5, PlacesDiffer DEF n
  <2> QED
    BY <1>2, <1>4, <1>5, <2>1
<1>8. Ranked(s, Params) = [r \in 1..n |-> CHOOSE i \in K : Place(i) = r]
  BY DEF Ranked
<1> HIDE DEF K, Place
<1>9. \A r \in 1..n : Ranked(s, Params)[r] \in K /\ Place(Ranked(s, Params)[r]) = r
  BY <1>6, <1>8
<1>10. \A i \in K : Place(i) \in 1..n /\ Ranked(s, Params)[Place(i)] = i
  BY <1>7, <1>9
<1> QED
  BY <1>2, <1>8, <1>9, <1>10 DEF K

(* The fields of a match. *)
Fields == {"source", "fid", "score", "pichash", "bytes", "candidates", "best",
           "second", "twins", "offset"}

(* An index leads from an address to an entity with it, or with it and the
   Thumb bit. *)
Leads(index, es) ==
    \A a \in DOMAIN index :
        a \in Nat /\ index[a] \in DOMAIN es /\ Even(es[index[a]]) = Even(a)

(* A match has the functions of a candidate of the answer. *)
LEMMA Parsed ==
    ASSUME NEW s \in Seq(Candidate)
    PROVE  LET ms == Parse(s, Params)
           IN /\ \E n \in Nat : DOMAIN ms = 1..n
              /\ \A r \in DOMAIN ms :
                    /\ DOMAIN ms[r] = Fields /\ ms[r].offset = None
                    /\ \E i \in DOMAIN s : /\ ms[r].source = s[i].source
                                           /\ ms[r].fid = s[i].fid
<1> DEFINE rank == Ranked(s, Params)
<1>1. /\ DOMAIN Parse(s, Params) = DOMAIN rank
      /\ \A r \in DOMAIN rank : Parse(s, Params)[r] = Selected(s, Params, rank[r])
  BY DEF Parse
<1>2. /\ \E n \in Nat : DOMAIN rank = 1..n
      /\ \A r \in DOMAIN rank : rank[r] \in DOMAIN s
  BY RankedIsKept DEF Kept, Accepted
<1>3. ASSUME NEW i PROVE LET m == Selected(s, Params, i)
                         IN /\ DOMAIN m = Fields /\ m.offset = None
                            /\ m.source = s[i].source /\ m.fid = s[i].fid
  BY DEF Selected, Fields
<1>4. ASSUME NEW r \in DOMAIN rank
      PROVE  LET m == Parse(s, Params)[r]
             IN /\ DOMAIN m = Fields /\ m.offset = None
                /\ \E i \in DOMAIN s : m.source = s[i].source /\ m.fid = s[i].fid
  <2> HIDE DEF rank
  <2>1. rank[r] \in DOMAIN s /\ Parse(s, Params)[r] = Selected(s, Params, rank[r])
    BY <1>1, <1>2
  <2> QED
    BY <1>3, <2>1
<1> HIDE DEF rank
<1> QED
  BY <1>1, <1>2, <1>4, Zenon

(* An offset goes to a match and changes nothing else of it. *)
LEMMA OffsetsAttached ==
    ASSUME NEW ms, NEW ts
    PROVE  LET new == WithOffsets(ms, ts)
           IN /\ DOMAIN new = DOMAIN ms
              /\ \A i \in DOMAIN ms :
                    DOMAIN ms[i] = Fields =>
                       /\ DOMAIN new[i] = Fields
                       /\ new[i].source = ms[i].source /\ new[i].fid = ms[i].fid
                       /\ new[i].offset # None =>
                             /\ ms[i].fid \in DOMAIN ts /\ ts[ms[i].fid] # None
                             /\ new[i].offset = ts[ms[i].fid].offset
  BY DEF WithOffsets, Fields

(* An address without the Thumb bit has none. *)
LEMMA EvenOnce ==
    ASSUME NEW a \in Int
    PROVE  /\ Even(a) \in Int /\ Even(Even(a)) = Even(a)
           /\ a \in Nat => Even(a) \in Nat
  BY DEF Even

(* A new index leads to the entities, *)
LEMMA IndexLeads ==
    ASSUME NEW es \in Seq(Nat)
    PROVE  Leads(IndexEntities(es), es)
<1> SUFFICES ASSUME NEW a \in DOMAIN IndexEntities(es)
             PROVE  LET i == IndexEntities(es)[a]
                    IN a \in Nat /\ i \in DOMAIN es /\ Even(es[i]) = Even(a)
  BY DEF Leads
<1> DEFINE at == {i \in DOMAIN es : a \in Aliases(es[i])}
<1>1. at # {} /\ at \in SUBSET Nat /\ IndexEntities(es)[a] = Min(at)
  BY DEF IndexEntities
<1>2. \E x \in at : \A y \in at : x <= y
  <2> HIDE DEF at
  <2> QED
    BY <1>1, LeastExists
<1>3. Min(at) \in at
  <2> HIDE DEF at
  <2> QED
    BY <1>2 DEF Min
<1>4. PICK i \in DOMAIN es : i = IndexEntities(es)[a] /\ a \in Aliases(es[i])
  BY <1>1, <1>3
<1>5. es[i] \in Nat
  OBVIOUS
<1>6. a \in Nat /\ Even(es[i]) = Even(a)
  BY <1>4, <1>5, EvenOnce DEF Aliases
<1> QED
  BY <1>4, <1>6

(* ... and so does what is looked up in it. *)
LEMMA LookupLeads ==
    ASSUME NEW index, NEW es, Leads(index, es), NEW a \in Int, Found(index, a)
    PROVE  /\ Lookup(index, a) \in DOMAIN es
           /\ Even(es[Lookup(index, a)]) = Even(a)
<1>1. PICK b \in Aliases(a) : b \in DOMAIN index /\ Lookup(index, a) = index[b]
  BY DEF Found, Lookup, Aliases
<1> QED
  BY <1>1, EvenOnce DEF Leads, Aliases

(* The offsets that the server has. *)
Served == {Target(f).offset : f \in {g \in Fids : Server[g] # None}}

Shaped ==
    /\ setup \in Setups
    /\ entities \in [Nodes -> Seq(Nat)]
    /\ DOMAIN offsets = Fids
    /\ DOMAIN lock = Nodes /\ DOMAIN pc = Visits
    /\ DOMAIN matches = Visits /\ DOMAIN targets = Visits
    /\ DOMAIN source = Visits /\ DOMAIN target = Visits
    /\ DOMAIN pairs = Visits /\ DOMAIN outcome = Visits

(* What FUNCTION_OFFSETS holds is the server's. *)
OffsetsServed ==
    \A f \in Fids : offsets[f] # None =>
        Server[f] # None /\ offsets[f] = Target(f)

(* A match whose function the server has not is never looked up. *)
MatchesServed ==
    \A v \in Visits :
        pc[v] \in {"source", "lock", "create"} =>
            \A i \in DOMAIN matches[v] :
                matches[v][i].offset \in Served \cup {None}

(* The lock of a node is held by the visit that creates entities in it. *)
LockIsHeld ==
    /\ \A n \in Nodes : lock[n] \in Visits \cup {None}
    /\ \A v \in Visits, n \in Nodes :
          lock[n] = v <=> pc[v] = "create" /\ n = From(v)

OffsetsOf(v) == {matches[v][i].offset : i \in DOMAIN matches[v]}

(* The index of a visit that creates entities is up to date: it lacks at most
   the even addresses of the entities the visit created itself. *)
IndexIsCurrent ==
    \A v \in Visits :
        pc[v] = "create" =>
            \A i \in DOMAIN entities[From(v)] :
                LET a == entities[From(v)][i]
                IN /\ a \in DOMAIN target[v]
                   /\ Even(a) \in DOMAIN target[v] \/ a \in OffsetsOf(v)

Ind == /\ Shaped /\ OffsetsServed /\ MatchesServed
       /\ LockIsHeld /\ IndexIsCurrent

-----------------------------------------------------------------------------
(* At first nobody is at work. *)
LEMMA InitInd == Init => Ind
  BY SetupConstants, VisitConstants
     DEF Init, Ind, Shaped, OffsetsServed, MatchesServed, LockIsHeld,
         IndexIsCurrent

-----------------------------------------------------------------------------
(* Who works on which node does not change. *)
LEMMA Ends ==
    ASSUME Shaped
    PROVE  \A v \in Visits : From(v) \in Nodes /\ To(v) \in Nodes
  BY SetupConstants DEF Shaped, From, To

(* Who writes what. *)
LEMMA Writers ==
    ASSUME Shaped, [Next]_vars
    PROVE  /\ setup' = setup
           /\ \/ \E v \in Visits : ReadAnswer(v) \/ AttachOffsets(v)
              \/ UNCHANGED <<matches, targets>>
           /\ \/ \E v \in Visits : IndexSource(v)
              \/ UNCHANGED source
           /\ \/ \E v \in Visits : CreateEntity(v)
              \/ UNCHANGED entities
           /\ \/ \E v \in Visits : IndexTarget(v) \/ CreateEntity(v)
              \/ UNCHANGED target
           /\ \/ \E v \in Visits : PairMatches(v) \/ AddResult(v)
              \/ UNCHANGED pairs
           /\ \/ \E v \in Visits : AddResult(v)
              \/ UNCHANGED results
           /\ \/ \E v \in Visits : PutLabels(v)
              \/ UNCHANGED labels
           /\ \/ \E v \in Visits : IndexTarget(v) \/ PairMatches(v)
              \/ /\ UNCHANGED lock
                 /\ \A u \in Visits : pc'[u] = "create" <=> pc[u] = "create"
<1> DEFINE Goal ==
           /\ setup' = setup
           /\ \/ \E v \in Visits : ReadAnswer(v) \/ AttachOffsets(v)
              \/ UNCHANGED <<matches, targets>>
           /\ \/ \E v \in Visits : IndexSource(v)
              \/ UNCHANGED source
           /\ \/ \E v \in Visits : CreateEntity(v)
              \/ UNCHANGED entities
           /\ \/ \E v \in Visits : IndexTarget(v) \/ CreateEntity(v)
              \/ UNCHANGED target
           /\ \/ \E v \in Visits : PairMatches(v) \/ AddResult(v)
              \/ UNCHANGED pairs
           /\ \/ \E v \in Visits : AddResult(v)
              \/ UNCHANGED results
           /\ \/ \E v \in Visits : PutLabels(v)
              \/ UNCHANGED labels
           /\ \/ \E v \in Visits : IndexTarget(v) \/ PairMatches(v)
              \/ /\ UNCHANGED lock
                 /\ \A u \in Visits : pc'[u] = "create" <=> pc[u] = "create"
<1>1. ASSUME NEW v \in Visits,
             \/ Stopped(v) \/ NothingScheduled(v) \/ ReadAnswer(v)
             \/ AllKnown(v) \/ FetchTargets(v) \/ FetchFails(v)
             \/ AttachOffsets(v)
      PROVE  Goal
  BY <1>1 DEF Shaped, Stopped, NothingScheduled, ReadAnswer, AllKnown,
              FetchTargets, FetchFails, AttachOffsets, Goto, End, shared, local
<1>2. ASSUME NEW v \in Visits,
             \/ IndexSource(v) \/ IndexTarget(v) \/ CreateEntity(v)
             \/ PairMatches(v)
      PROVE  Goal
  BY <1>2 DEF Shaped, IndexSource, IndexTarget, CreateEntity, PairMatches,
              Goto, shared, local
<1>3. ASSUME NEW v \in Visits, PutLabels(v) \/ AddResult(v) \/ Finish(v)
      PROVE  Goal
  BY <1>3 DEF Shaped, PutLabels, AddResult, Finish, Goto, End, shared, local
<1>4. ASSUME \/ \E v \in Visits : RequestStop(v)
             \/ \E f \in Fids : Evict(f)
             \/ UNCHANGED vars
      PROVE  Goal
  BY <1>4 DEF Shaped, RequestStop, Evict, vars, shared, local
<1> QED
  BY <1>1, <1>2, <1>3, <1>4 DEF Next, Visit

(* Every step keeps the types. *)
LEMMA ShapedStep == Ind /\ [Next]_vars => Shaped'
<1> SUFFICES ASSUME Ind, [Next]_vars PROVE Shaped'
  OBVIOUS
<1> USE Ends DEF Ind, Shaped, shared, local, Goto, End, Put
<1>1. ASSUME NEW v \in Visits, Stopped(v) PROVE Shaped'
  BY <1>1 DEF Stopped
<1>2. ASSUME NEW v \in Visits, NothingScheduled(v) PROVE Shaped'
  BY <1>2 DEF NothingScheduled
<1>3. ASSUME NEW v \in Visits, ReadAnswer(v) PROVE Shaped'
  BY <1>3 DEF ReadAnswer
<1>4. ASSUME NEW v \in Visits, AllKnown(v) PROVE Shaped'
  BY <1>4 DEF AllKnown
<1>5. ASSUME NEW v \in Visits, FetchTargets(v) PROVE Shaped'
  BY <1>5 DEF FetchTargets
<1>6. ASSUME NEW v \in Visits, FetchFails(v) PROVE Shaped'
  BY <1>6 DEF FetchFails
<1>7. ASSUME NEW v \in Visits, AttachOffsets(v) PROVE Shaped'
  BY <1>7 DEF AttachOffsets
<1>8. ASSUME NEW v \in Visits, IndexSource(v) PROVE Shaped'
  BY <1>8 DEF IndexSource
<1>9. ASSUME NEW v \in Visits, IndexTarget(v) PROVE Shaped'
  BY <1>9 DEF IndexTarget
<1>10. ASSUME NEW v \in Visits, CreateEntity(v) PROVE Shaped'
  <2>1. PICK i \in Unlisted(v) :
           /\ entities' = [entities EXCEPT ![From(v)] =
                             Append(entities[From(v)], matches[v][i].offset)]
           /\ DOMAIN target' = Visits
    BY <1>10 DEF CreateEntity
  <2>2. matches[v][i].offset \in Served
    BY <1>10, <2>1 DEF CreateEntity, Unlisted, MatchesServed
  <2>3. matches[v][i].offset \in Nat
    BY <2>2, OffsetsAreAddresses DEF Served
  <2> QED
    BY <1>10, <2>1, <2>3 DEF CreateEntity
<1>11. ASSUME NEW v \in Visits, PairMatches(v) PROVE Shaped'
  BY <1>11 DEF PairMatches
<1>12. ASSUME NEW v \in Visits, PutLabels(v) PROVE Shaped'
  BY <1>12 DEF PutLabels
<1>13. ASSUME NEW v \in Visits, AddResult(v) PROVE Shaped'
  BY <1>13 DEF AddResult
<1>14. ASSUME NEW v \in Visits, Finish(v) PROVE Shaped'
  BY <1>14 DEF Finish
<1>15. ASSUME NEW v \in Visits, RequestStop(v) PROVE Shaped'
  BY <1>15 DEF RequestStop
<1>16. ASSUME NEW f \in Fids, Evict(f) PROVE Shaped'
  BY <1>16 DEF Evict
<1>17. ASSUME UNCHANGED vars PROVE Shaped'
  BY <1>17 DEF vars
<1> QED
  BY <1>1, <1>2, <1>3, <1>4, <1>5, <1>6, <1>7, <1>8, <1>9, <1>10, <1>11,
     <1>12, <1>13, <1>14, <1>15, <1>16, <1>17 DEF Next, Visit

(* ... the cache, which only FetchTargets adds to, *)
LEMMA OffsetsStep == Ind /\ [Next]_vars => OffsetsServed'
<1> SUFFICES ASSUME Ind, [Next]_vars PROVE OffsetsServed'
  OBVIOUS
<1> USE DEF Ind, Shaped, OffsetsServed, Put
<1>1. ASSUME NEW v \in Visits, FetchTargets(v) PROVE OffsetsServed'
  BY <1>1 DEF FetchTargets
<1>2. ASSUME NEW f \in Fids, Evict(f) PROVE OffsetsServed'
  BY <1>2 DEF Evict
<1>3. ASSUME UNCHANGED offsets PROVE OffsetsServed'
  BY <1>3
<1> QED
  BY <1>1, <1>2, <1>3
     DEF Next, Visit, vars, shared, local, Stopped, NothingScheduled,
         ReadAnswer, AllKnown, FetchFails, AttachOffsets, IndexSource,
         IndexTarget, CreateEntity, PairMatches, PutLabels, AddResult, Finish,
         RequestStop

(* ... the matches of every visit, *)
LEMMA MatchesStep == Ind /\ [Next]_vars => MatchesServed'
<1> SUFFICES ASSUME Ind, [Next]_vars PROVE MatchesServed'
  OBVIOUS
<1> USE DEF Ind, Shaped, MatchesServed, Goto, End, Put, shared, local
<1>1. ASSUME NEW v \in Visits, AttachOffsets(v) PROVE MatchesServed'
  <2>1. /\ targets'[v] = [f \in Fids |->
                            IF f \in Asked(v) THEN offsets[f] ELSE None]
        /\ matches' = [matches EXCEPT ![v] =
                         WithOffsets(matches[v], targets'[v])]
        /\ pc' = [pc EXCEPT ![v] = "source"]
    BY <1>1 DEF AttachOffsets
  <2>2. ASSUME NEW i \in DOMAIN matches'[v]
        PROVE  matches'[v][i].offset \in Served \cup {None}
    <3> DEFINE f == matches[v][i].fid
               o == IF f \in DOMAIN targets'[v] /\ targets'[v][f] # None
                    THEN targets'[v][f].offset ELSE None
    <3>1. matches'[v][i].offset = o
      BY <2>1, <2>2 DEF WithOffsets
    <3>2. o \in Served \cup {None}
      BY <2>1 DEF Served, OffsetsServed
    <3> QED
      BY <3>1, <3>2
  <2> QED
    BY <2>1, <2>2
<1>2. ASSUME NEW v \in Visits, ReadAnswer(v) PROVE MatchesServed'
  BY <1>2 DEF ReadAnswer
<1>3. ASSUME NEW v \in Visits,
             \/ Stopped(v) \/ NothingScheduled(v) \/ AllKnown(v)
             \/ FetchTargets(v) \/ FetchFails(v)
      PROVE  MatchesServed'
  BY <1>3 DEF Stopped, NothingScheduled, AllKnown, FetchTargets, FetchFails
<1>4. ASSUME NEW v \in Visits,
             IndexSource(v) \/ IndexTarget(v) \/ CreateEntity(v)
      PROVE  MatchesServed'
  BY <1>4 DEF IndexSource, IndexTarget, CreateEntity
<1>5. ASSUME NEW v \in Visits,
             PairMatches(v) \/ PutLabels(v) \/ AddResult(v) \/ Finish(v)
      PROVE  MatchesServed'
  BY <1>5 DEF PairMatches, PutLabels, AddResult, Finish
<1>6. ASSUME \/ \E v \in Visits : RequestStop(v)
             \/ \E f \in Fids : Evict(f)
             \/ UNCHANGED vars
      PROVE  MatchesServed'
  BY <1>6 DEF RequestStop, Evict, vars
<1> QED
  BY <1>1, <1>2, <1>3, <1>4, <1>5, <1>6 DEF Next, Visit

(* ... and the lock of every node. *)
LEMMA LockStep == Ind /\ [Next]_vars => LockIsHeld'
<1> SUFFICES ASSUME Ind, [Next]_vars PROVE LockIsHeld'
  OBVIOUS
<1>1. /\ DOMAIN lock = Nodes /\ DOMAIN pc = Visits /\ LockIsHeld
      /\ setup' = setup /\ \A v \in Visits : From(v) \in Nodes
  BY Ends, Writers DEF Ind, Shaped
<1>2. ASSUME NEW v \in Visits, IndexTarget(v) PROVE LockIsHeld'
  <2>1. /\ lock[From(v)] = None /\ lock' = [lock EXCEPT ![From(v)] = v]
        /\ pc[v] = "lock" /\ pc' = [pc EXCEPT ![v] = "create"]
    BY <1>2 DEF IndexTarget, Goto, Put
  <2>2. \A u \in Visits, n \in Nodes :
           lock'[n] = u <=> pc'[u] = "create" /\ n = From(u)
    BY <1>1, <2>1, VisitConstants DEF LockIsHeld
  <2> QED
    BY <1>1, <2>1, <2>2 DEF LockIsHeld, From
<1>3. ASSUME NEW v \in Visits, PairMatches(v) PROVE LockIsHeld'
  <2>1. /\ pc[v] = "create" /\ lock' = [lock EXCEPT ![From(v)] = None]
        /\ pc' = [pc EXCEPT ![v] = "label"]
    BY <1>3 DEF PairMatches, Goto, Put
  <2>2. \A u \in Visits, n \in Nodes :
           lock'[n] = u <=> pc'[u] = "create" /\ n = From(u)
    BY <1>1, <2>1, VisitConstants DEF LockIsHeld
  <2> QED
    BY <1>1, <2>1, <2>2 DEF LockIsHeld, From
<1>4. ASSUME UNCHANGED lock,
             \A u \in Visits : pc'[u] = "create" <=> pc[u] = "create"
      PROVE  LockIsHeld'
  BY <1>1, <1>4 DEF LockIsHeld, From
<1> QED
  BY <1>2, <1>3, <1>4, Writers DEF Ind

-----------------------------------------------------------------------------
(* The index *)

(* A new index finds every entity under its address and the even one. *)
LEMMA IndexedAddresses ==
    ASSUME NEW es \in Seq(Nat), NEW i \in DOMAIN es
    PROVE  /\ es[i] \in DOMAIN IndexEntities(es)
           /\ Even(es[i]) \in DOMAIN IndexEntities(es)
  BY DEF IndexEntities, Aliases

(* What appending does to a list of entities. *)
LEMMA Appended ==
    ASSUME NEW es \in Seq(Nat), NEW a \in Nat
    PROVE  /\ DOMAIN Append(es, a) = DOMAIN es \cup {Len(es) + 1}
           /\ \A i \in DOMAIN es : Append(es, a)[i] = es[i]
           /\ Append(es, a)[Len(es) + 1] = a
           /\ Len(es) + 1 \notin DOMAIN es
  OBVIOUS

(* A visit that creates an entity: what it creates, and what the others have
   in hand. *)
LEMMA Created ==
    ASSUME Ind, NEW v \in Visits, CreateEntity(v)
    PROVE  \E a \in OffsetsOf(v) :
              /\ a \in Nat
              /\ ~Found(target[v], a) /\ HasFunction(From(v), a)
              /\ entities' = [entities EXCEPT ![From(v)] =
                                Append(entities[From(v)], a)]
              /\ target'[v] = [b \in DOMAIN target[v] \cup {a} |->
                                 IF b = a THEN Len(entities[From(v)]) + 1
                                 ELSE target[v][b]]
              /\ \A u \in Visits \ {v} : target'[u] = target[u]
              /\ setup' = setup /\ pc' = pc /\ pc[v] = "create"
              /\ matches' = matches
<1>1. PICK i \in Unlisted(v) :
         LET a == matches[v][i].offset
         IN /\ entities' = [entities EXCEPT ![From(v)] =
                              Append(entities[From(v)], a)]
            /\ target' = [target EXCEPT ![v] =
                            [b \in DOMAIN target[v] \cup {a} |->
                               IF b = a THEN Len(entities[From(v)]) + 1
                               ELSE target[v][b]]]
  BY DEF CreateEntity, Put
<1> DEFINE a == matches[v][i].offset
<1>2. a \in Served /\ ~Found(target[v], a) /\ HasFunction(From(v), a)
  BY <1>1 DEF CreateEntity, Unlisted, Ind, MatchesServed
<1>3. a \in Nat /\ a \in OffsetsOf(v)
  BY <1>1, <1>2, OffsetsAreAddresses DEF Served, Unlisted, OffsetsOf
<1>4. setup' = setup /\ pc' = pc /\ pc[v] = "create" /\ matches' = matches
  BY DEF CreateEntity
<1>5. /\ target'[v] = [b \in DOMAIN target[v] \cup {a} |->
                          IF b = a THEN Len(entities[From(v)]) + 1
                          ELSE target[v][b]]
      /\ \A u \in Visits \ {v} : target'[u] = target[u]
  BY <1>1 DEF Ind, Shaped
<1> QED
  BY <1>1, <1>2, <1>3, <1>4, <1>5

(* While a visit creates, nobody else adds to its node. *)
LEMMA IndexStep == Ind /\ [Next]_vars => IndexIsCurrent'
<1> SUFFICES ASSUME Ind, [Next]_vars PROVE IndexIsCurrent'
  OBVIOUS
<1>0. ASSUME setup' = setup,
             \A u \in Visits : pc'[u] = "create" =>
                 /\ pc[u] = "create" /\ target'[u] = target[u]
                 /\ entities'[From(u)] = entities[From(u)]
                 /\ matches'[u] = matches[u]
      PROVE  IndexIsCurrent'
  <2>1. \A u \in Visits : From(u)' = From(u)
    BY <1>0 DEF From
  <2>2. \A u \in Visits : pc'[u] = "create" => OffsetsOf(u)' = OffsetsOf(u)
    BY <1>0 DEF OffsetsOf
  <2> QED
    BY <1>0, <2>1, <2>2 DEF IndexIsCurrent, Ind
<1> USE Ends DEF Ind, Shaped, Goto, End, Put, shared, local
<1>1. ASSUME NEW v \in Visits, IndexTarget(v) PROVE IndexIsCurrent'
  <2>1. /\ entities' = entities /\ matches' = matches
        /\ target'[v] = IndexEntities(entities[From(v)])
        /\ \A u \in Visits \ {v} : target'[u] = target[u] /\ pc'[u] = pc[u]
    BY <1>1 DEF IndexTarget, From
  <2>2. \A i \in DOMAIN entities[From(v)] :
           /\ entities[From(v)][i] \in DOMAIN target'[v]
           /\ Even(entities[From(v)][i]) \in DOMAIN target'[v]
    BY <2>1, IndexedAddresses
  <2>3. \A u \in Visits : From(u)' = From(u) /\ OffsetsOf(u)' = OffsetsOf(u)
    BY <1>1 DEF IndexTarget, From, OffsetsOf
  <2>4. ASSUME NEW u \in Visits, pc'[u] = "create",
               NEW i \in DOMAIN entities'[From(u)]
        PROVE  LET b == entities'[From(u)][i]
               IN /\ b \in DOMAIN target'[u]
                  /\ Even(b) \in DOMAIN target'[u] \/ b \in OffsetsOf(u)
    <3>1. CASE u = v
      BY <2>1, <2>2, <2>4, <3>1
    <3>2. CASE u # v
      BY <2>1, <2>4, <3>2 DEF IndexIsCurrent
    <3> QED
      BY <3>1, <3>2
  <2> QED
    BY <2>3, <2>4 DEF IndexIsCurrent
<1>2. ASSUME NEW v \in Visits, CreateEntity(v) PROVE IndexIsCurrent'
  <2>1. PICK a \in OffsetsOf(v) :
           /\ a \in Nat
           /\ entities' = [entities EXCEPT ![From(v)] =
                             Append(entities[From(v)], a)]
           /\ DOMAIN target'[v] = DOMAIN target[v] \cup {a}
           /\ \A u \in Visits \ {v} : target'[u] = target[u]
           /\ setup' = setup /\ pc' = pc /\ pc[v] = "create"
           /\ matches' = matches
    BY <1>2, Created
  <2>2. \A u \in Visits : From(u)' = From(u) /\ OffsetsOf(u)' = OffsetsOf(u)
    BY <2>1 DEF From, OffsetsOf
  <2>3. ASSUME NEW u \in Visits \ {v}, pc'[u] = "create"
        PROVE  entities'[From(u)] = entities[From(u)]
    BY <2>1, <2>3 DEF LockIsHeld
  <2>4. \A i \in DOMAIN entities'[From(v)] :
           \/ /\ i \in DOMAIN entities[From(v)]
              /\ entities'[From(v)][i] = entities[From(v)][i]
           \/ entities'[From(v)][i] = a
    BY <2>1, Appended
  <2>5. ASSUME NEW u \in Visits, pc'[u] = "create",
               NEW i \in DOMAIN entities'[From(u)]
        PROVE  LET b == entities'[From(u)][i]
               IN /\ b \in DOMAIN target'[u]
                  /\ Even(b) \in DOMAIN target'[u] \/ b \in OffsetsOf(u)
    <3>1. CASE u = v
      BY <2>1, <2>4, <2>5, <3>1 DEF IndexIsCurrent
    <3>2. CASE u # v
      BY <2>1, <2>3, <2>5, <3>2 DEF IndexIsCurrent
    <3> QED
      BY <3>1, <3>2
  <2> QED
    BY <2>2, <2>5 DEF IndexIsCurrent
<1>3. ASSUME NEW v \in Visits,
             \/ Stopped(v) \/ NothingScheduled(v) \/ ReadAnswer(v)
             \/ AllKnown(v) \/ FetchTargets(v) \/ FetchFails(v)
             \/ AttachOffsets(v)
      PROVE  IndexIsCurrent'
  <2>1. /\ setup' = setup /\ entities' = entities /\ target' = target
        /\ \A u \in Visits \ {v} : pc'[u] = pc[u] /\ matches'[u] = matches[u]
        /\ pc'[v] # "create"
    BY <1>3 DEF Stopped, NothingScheduled, ReadAnswer, AllKnown, FetchTargets,
                FetchFails, AttachOffsets
  <2> QED
    BY <1>0, <2>1
<1>4. ASSUME NEW v \in Visits,
             \/ IndexSource(v) \/ PairMatches(v) \/ PutLabels(v)
             \/ AddResult(v) \/ Finish(v)
      PROVE  IndexIsCurrent'
  <2>1. /\ setup' = setup /\ entities' = entities /\ target' = target
        /\ matches' = matches
        /\ \A u \in Visits \ {v} : pc'[u] = pc[u]
        /\ pc'[v] # "create"
    BY <1>4 DEF IndexSource, PairMatches, PutLabels, AddResult, Finish
  <2> QED
    BY <1>0, <2>1
<1>5. ASSUME \/ \E v \in Visits : RequestStop(v)
             \/ \E f \in Fids : Evict(f)
             \/ UNCHANGED vars
      PROVE  IndexIsCurrent'
  <2>1. UNCHANGED <<setup, entities, target, matches, pc>>
    BY <1>5 DEF RequestStop, Evict, vars
  <2> QED
    BY <1>0, <2>1
<1> QED
  BY <1>1, <1>2, <1>3, <1>4, <1>5 DEF Next, Visit

(* The invariant that the theorems below rest on. *)
THEOREM Invariance == Spec => []Ind
<1>1. Ind /\ [Next]_vars => Ind'
  BY ShapedStep, OffsetsStep, MatchesStep, LockStep, IndexStep DEF Ind
<1> QED
  BY <1>1, InitInd, PTL DEF Spec

-----------------------------------------------------------------------------
(* One entity for a function *)

(* Addresses of one function differ in the Thumb bit at most. *)
LEMMA FunctionKeepsEven ==
    ASSUME NEW n \in Nodes, NEW a \in Nat, NEW b \in Nat,
           FunctionAt(n, a) = FunctionAt(n, b)
    PROVE  Even(a) = Even(b) /\ (a = b \/ a = Even(b) \/ b = Even(a))
  BY DEF FunctionAt, Even

-----------------------------------------------------------------------------
(* What a visit has in hand, for the theorems about its results *)

(* A match is of a candidate of the answer, and its offset is the one that the
   server has of its function. *)
Answered(s, m) ==
    /\ DOMAIN m = Fields
    /\ \E i \in DOMAIN s : m.source = s[i].source /\ m.fid = s[i].fid
    /\ m.offset # None =>
          Server[m.fid] # None /\ m.offset = Target(m.fid).offset

AllAnswered(s, ms, ts) ==
    /\ \E n \in Nat : DOMAIN ms = 1..n
    /\ \A i \in DOMAIN ms :
          Answered(s, ms[i]) /\ (ms[i].offset # None => ts[ms[i].fid] # None)
    /\ \A f \in Fids : ts[f] # None => Server[f] # None /\ ts[f] = Target(f)

MatchesAnswered ==
    \A v \in Visits : AllAnswered(setup.payload[v], matches[v], targets[v])

IndicesLead ==
    \A v \in Visits : /\ Leads(source[v], entities[To(v)])
                      /\ Leads(target[v], entities[From(v)])

(* An entity is listed where the view has a function. *)
EntitiesAreFunctions ==
    \A n \in Nodes : \A i \in DOMAIN entities[n] : HasFunction(n, entities[n][i])

(* Two entities, and a match of the addresses of both. *)
Links(s, v, p, es) ==
    /\ Answered(s.payload[v], p.match) /\ p.match.offset # None
    /\ p.source \in DOMAIN es[s.to[v]]
    /\ Even(es[s.to[v]][p.source]) = Even(p.match.source)
    /\ p.target \in DOMAIN es[s.from[v]]
    /\ Even(es[s.from[v]][p.target]) = Even(p.match.offset)

PairsLink ==
    \A v \in Visits :
        /\ \E n \in Nat : DOMAIN pairs[v] \subseteq 1..n
        /\ \A i \in DOMAIN pairs[v] : Links(setup, v, pairs[v][i], entities)

ResultsLink ==
    \A r \in results : r.visit \in Visits /\ Links(setup, r.visit, r, entities)

(* A label is of a function of the server at an address of the entity. *)
LabelsLink ==
    \A e \in DOMAIN labels :
        /\ e[1] \in Nodes /\ e[2] \in DOMAIN entities[e[1]]
        /\ \E f \in Fids :
              /\ Server[f] # None /\ labels[e] = Target(f).label
              /\ Even(entities[e[1]][e[2]]) = Even(Target(f).offset)

Linked == /\ MatchesAnswered /\ IndicesLead /\ EntitiesAreFunctions
          /\ PairsLink /\ ResultsLink /\ LabelsLink

-----------------------------------------------------------------------------
(* Nothing is in hand at first, and the listed entities are functions. *)
LEMMA InitLinked == Init => Linked
<1> SUFFICES ASSUME Init PROVE Linked
  OBVIOUS
<1>1. /\ \A v \in Visits : matches[v] = << >> /\ pairs[v] = << >>
      /\ \A v \in Visits : source[v] = << >> /\ target[v] = << >>
      /\ \A v \in Visits : \A f \in Fids : targets[v][f] = None
      /\ results = {} /\ labels = << >>
  BY DEF Init
<1>2. DOMAIN << >> = 1..0
  OBVIOUS
<1>3. EntitiesAreFunctions
  <2> SUFFICES ASSUME NEW n \in Nodes, NEW i \in DOMAIN entities[n]
               PROVE  HasFunction(n, entities[n][i])
    BY DEF EntitiesAreFunctions
  <2>1. entities[n] = setup.listed[n] /\ setup \in Setups
    BY DEF Init
  <2>2. entities[n][i] \in ToSet(setup.listed[n])
    BY <2>1 DEF ToSet
  <2> QED
    BY <2>1, <2>2, SetupConstants DEF HasFunction
<1>4. MatchesAnswered /\ PairsLink
  BY <1>1, <1>2 DEF MatchesAnswered, AllAnswered, PairsLink
<1>5. IndicesLead /\ ResultsLink /\ LabelsLink
  BY <1>1, <1>2 DEF IndicesLead, Leads, ResultsLink, LabelsLink
<1> QED
  BY <1>3, <1>4, <1>5 DEF Linked

(* Entities are only ever added, at the end. *)
LEMMA EntitiesGrow ==
    ASSUME Ind, [Next]_vars
    PROVE  \A n \in Nodes : \A i \in DOMAIN entities[n] :
              i \in DOMAIN entities'[n] /\ entities'[n][i] = entities[n][i]
<1>1. ASSUME NEW v \in Visits, CreateEntity(v),
             NEW n \in Nodes, NEW i \in DOMAIN entities[n]
      PROVE  i \in DOMAIN entities'[n] /\ entities'[n][i] = entities[n][i]
  <2>1. PICK a \in Nat :
           entities' = [entities EXCEPT ![From(v)] =
                          Append(entities[From(v)], a)]
    BY <1>1, Created
  <2>2. entities \in [Nodes -> Seq(Nat)] /\ From(v) \in Nodes
    BY Ends DEF Ind, Shaped
  <2>3. entities[From(v)] \in Seq(Nat)
    BY <2>2
  <2> QED
    BY <2>1, <2>2, <2>3, Appended
<1>2. ASSUME UNCHANGED entities
      PROVE  \A n \in Nodes : \A i \in DOMAIN entities[n] :
                i \in DOMAIN entities'[n] /\ entities'[n][i] = entities[n][i]
  BY <1>2
<1> QED
  BY <1>1, <1>2, Writers DEF Ind

(* An answer's candidates are functions of the server, at some address. *)
LEMMA AnswersTyped ==
    ASSUME Shaped
    PROVE  \A v \in Visits :
              /\ setup.payload[v] \in Seq(Candidate)
              /\ \A m : Answered(setup.payload[v], m) =>
                    /\ m.source \in Int /\ m.fid \in Fids
                    /\ m.offset # None => m.offset \in Nat
<1> SUFFICES ASSUME NEW v \in Visits
             PROVE  /\ setup.payload[v] \in Seq(Candidate)
                    /\ \A m : Answered(setup.payload[v], m) =>
                          /\ m.source \in Int /\ m.fid \in Fids
                          /\ m.offset # None => m.offset \in Nat
  OBVIOUS
<1>1. setup.payload[v] \in Seq(Candidate)
  BY SetupConstants DEF Shaped
<1>2. ASSUME NEW m, Answered(setup.payload[v], m)
      PROVE  /\ m.source \in Int /\ m.fid \in Fids
             /\ m.offset # None => m.offset \in Nat
  <2>1. PICK i \in DOMAIN setup.payload[v] :
           /\ m.source = setup.payload[v][i].source
           /\ m.fid = setup.payload[v][i].fid
    BY <1>2 DEF Answered
  <2>2. setup.payload[v][i] \in Candidate
    BY <1>1, <2>1
  <2>3. m.source \in Int /\ m.fid \in Fids
    BY <2>1, <2>2 DEF Candidate
  <2>4. m.offset # None => m.offset \in Nat
    BY <1>2, <2>3, OffsetsAreAddresses DEF Answered
  <2> QED
    BY <2>3, <2>4
<1> QED
  BY <1>1, <1>2

(* Matches are made of the answer, and get the server's offsets; *)
LEMMA AnsweredStep ==
    ASSUME Ind, MatchesAnswered, [Next]_vars PROVE MatchesAnswered'
<1>1. /\ setup' = setup /\ \A v \in Visits : setup.payload[v] \in Seq(Candidate)
      /\ DOMAIN matches = Visits /\ DOMAIN targets = Visits
      /\ DOMAIN offsets = Fids
  BY Writers, AnswersTyped DEF Ind, Shaped
<1>2. ASSUME NEW v \in Visits, NEW ms, NEW ts,
             matches' = [matches EXCEPT ![v] = ms],
             \A u \in Visits : targets'[u] = IF u = v THEN ts ELSE targets[u],
             AllAnswered(setup.payload[v], ms, ts)
      PROVE  MatchesAnswered'
  <2>1. \A u \in Visits :
           \/ u = v /\ matches'[u] = ms /\ targets'[u] = ts
           \/ matches'[u] = matches[u] /\ targets'[u] = targets[u]
    BY <1>1, <1>2
  <2>2. \A u \in Visits : AllAnswered(setup.payload[u], matches'[u], targets'[u])
    BY <1>2, <2>1 DEF MatchesAnswered
  <2> QED
    BY <1>1, <2>2 DEF MatchesAnswered
<1>3. ASSUME NEW v \in Visits, ReadAnswer(v) PROVE MatchesAnswered'
  <2> DEFINE ms == Parse(setup.payload[v], Params)
  <2>1. matches' = [matches EXCEPT ![v] = ms] /\ targets' = targets
    BY <1>3 DEF ReadAnswer, Put, local
  <2>2. /\ \E n \in Nat : DOMAIN ms = 1..n
        /\ \A i \in DOMAIN ms : /\ DOMAIN ms[i] = Fields /\ ms[i].offset = None
                                /\ \E j \in DOMAIN setup.payload[v] :
                                      /\ ms[i].source = setup.payload[v][j].source
                                      /\ ms[i].fid = setup.payload[v][j].fid
    BY <1>1, Parsed
  <2>3. \A f \in Fids : targets[v][f] # None =>
           Server[f] # None /\ targets[v][f] = Target(f)
    BY DEF MatchesAnswered, AllAnswered
  <2>4. \A u \in Visits :
           targets'[u] = IF u = v THEN targets[v] ELSE targets[u]
    BY <2>1
  <2> HIDE DEF ms
  <2>5. AllAnswered(setup.payload[v], ms, targets[v])
    BY <2>2, <2>3 DEF AllAnswered, Answered
  <2> QED
    BY <1>2, <2>1, <2>4, <2>5
<1>4. ASSUME NEW v \in Visits, AttachOffsets(v) PROVE MatchesAnswered'
  <2> DEFINE ts == [f \in Fids |-> IF f \in Asked(v) THEN offsets[f] ELSE None]
             ms == WithOffsets(matches[v], ts)
  <2>1. /\ \A u \in Visits : targets'[u] = IF u = v THEN ts ELSE targets[u]
        /\ targets'[v] = ts
    BY <1>1, <1>4 DEF AttachOffsets, Put
  <2>2. matches' = [matches EXCEPT ![v] = ms]
    BY <1>4, <2>1 DEF AttachOffsets, Put
  <2>3. \A f \in Fids : ts[f] # None => Server[f] # None /\ ts[f] = Target(f)
    BY DEF Ind, OffsetsServed
  <2>4. /\ DOMAIN ms = DOMAIN matches[v]
        /\ \A i \in DOMAIN ms :
              DOMAIN matches[v][i] = Fields =>
                 /\ DOMAIN ms[i] = Fields
                 /\ ms[i].source = matches[v][i].source
                 /\ ms[i].fid = matches[v][i].fid
                 /\ ms[i].offset # None =>
                       /\ matches[v][i].fid \in DOMAIN ts
                       /\ ts[matches[v][i].fid] # None
                       /\ ms[i].offset = ts[matches[v][i].fid].offset
    BY OffsetsAttached
  <2>5. DOMAIN ts = Fids
    OBVIOUS
  <2> HIDE DEF ts, ms
  <2>6. ASSUME NEW i \in DOMAIN ms
        PROVE  /\ Answered(setup.payload[v], ms[i])
               /\ ms[i].offset # None => ts[ms[i].fid] # None
    <3>1. Answered(setup.payload[v], matches[v][i])
      BY <2>4 DEF MatchesAnswered, AllAnswered
    <3> QED
      BY <2>3, <2>4, <2>5, <3>1 DEF Answered
  <2>7. \E n \in Nat : DOMAIN ms = 1..n
    BY <2>4 DEF MatchesAnswered, AllAnswered
  <2>8. AllAnswered(setup.payload[v], ms, ts)
    BY <2>3, <2>6, <2>7 DEF AllAnswered
  <2>9. \A u \in Visits : targets'[u] = IF u = v THEN ts ELSE targets[u]
    BY <2>1
  <2> QED
    BY <1>2, <2>2, <2>8, <2>9
<1>5. ASSUME UNCHANGED <<matches, targets>> PROVE MatchesAnswered'
  BY <1>1, <1>5 DEF MatchesAnswered
<1> QED
  BY <1>3, <1>4, <1>5, Writers DEF Ind

(* What led to an entity still does when the list has grown. *)
LEMMA StillLeads ==
    ASSUME NEW index, NEW es, NEW new, Leads(index, es),
           \A i \in DOMAIN es : i \in DOMAIN new /\ new[i] = es[i]
    PROVE  Leads(index, new)
  BY DEF Leads

(* ... every index leads to entities, *)
LEMMA IndicesStep == ASSUME Ind, IndicesLead, [Next]_vars PROVE IndicesLead'
<1>1. /\ setup' = setup
      /\ \A v \in Visits : /\ From(v) \in Nodes /\ To(v) \in Nodes
                           /\ From(v)' = From(v) /\ To(v)' = To(v)
      /\ entities \in [Nodes -> Seq(Nat)]
      /\ DOMAIN source = Visits /\ DOMAIN target = Visits
  BY Ends, Writers DEF Ind, Shaped, From, To
<1>2. \A v \in Visits : /\ Leads(source[v], entities'[To(v)])
                        /\ Leads(target[v], entities'[From(v)])
  BY <1>1, EntitiesGrow, StillLeads DEF IndicesLead
<1>3. ASSUME NEW v \in Visits PROVE Leads(source'[v], entities'[To(v)])
  <2>1. ASSUME NEW u \in Visits, IndexSource(u)
        PROVE  Leads(source'[v], entities'[To(v)])
    <3>1. /\ source' = [source EXCEPT ![u] = IndexEntities(entities[To(u)])]
          /\ entities' = entities
      BY <2>1 DEF IndexSource, Put, shared
    <3>2. Leads(IndexEntities(entities[To(u)]), entities[To(u)])
      BY <1>1, IndexLeads
    <3> QED
      BY <1>1, <1>2, <3>1, <3>2
  <2>2. ASSUME UNCHANGED source PROVE Leads(source'[v], entities'[To(v)])
    BY <1>2, <2>2
  <2> QED
    BY <2>1, <2>2, Writers DEF Ind
<1>4. ASSUME NEW v \in Visits PROVE Leads(target'[v], entities'[From(v)])
  <2>1. ASSUME NEW u \in Visits, IndexTarget(u)
        PROVE  Leads(target'[v], entities'[From(v)])
    <3>1. /\ target' = [target EXCEPT ![u] = IndexEntities(entities[From(u)])]
          /\ entities' = entities
      BY <2>1 DEF IndexTarget, Put
    <3>2. Leads(IndexEntities(entities[From(u)]), entities[From(u)])
      BY <1>1, IndexLeads
    <3> QED
      BY <1>1, <1>2, <3>1, <3>2
  <2>2. ASSUME NEW u \in Visits, CreateEntity(u)
        PROVE  Leads(target'[v], entities'[From(v)])
    <3> DEFINE es == entities[From(u)]
               new == entities'[From(u)]
    <3>1. PICK a \in Nat :
             /\ entities' = [entities EXCEPT ![From(u)] = Append(es, a)]
             /\ target'[u] = [b \in DOMAIN target[u] \cup {a} |->
                                IF b = a THEN Len(es) + 1 ELSE target[u][b]]
             /\ \A w \in Visits \ {u} : target'[w] = target[w]
      BY <2>2, Created
    <3>2. new = Append(es, a) /\ es \in Seq(Nat)
      BY <1>1, <3>1
    <3>3. Leads(target[u], new)
      BY <1>2
    <3>4. Len(es) + 1 \in DOMAIN new /\ new[Len(es) + 1] = a
      BY <3>2, Appended
    <3> HIDE DEF es, new
    <3>5. Leads(target'[u], new)
      BY <3>1, <3>3, <3>4 DEF Leads
    <3> QED
      BY <1>2, <3>1, <3>5 DEF new
  <2>3. ASSUME UNCHANGED target PROVE Leads(target'[v], entities'[From(v)])
    BY <1>2, <2>3
  <2> QED
    BY <2>1, <2>2, <2>3, Writers DEF Ind
<1> QED
  BY <1>1, <1>3, <1>4 DEF IndicesLead

(* ... entities are created where the view has a function, *)
LEMMA FunctionsStep ==
    ASSUME Ind, EntitiesAreFunctions, [Next]_vars PROVE EntitiesAreFunctions'
<1>1. ASSUME NEW v \in Visits, CreateEntity(v) PROVE EntitiesAreFunctions'
  <2>1. PICK a \in Nat :
           /\ HasFunction(From(v), a)
           /\ entities' = [entities EXCEPT ![From(v)] =
                             Append(entities[From(v)], a)]
    BY <1>1, Created
  <2>2. entities \in [Nodes -> Seq(Nat)] /\ From(v) \in Nodes
    BY Ends DEF Ind, Shaped
  <2>3. entities[From(v)] \in Seq(Nat)
    BY <2>2
  <2>4. ASSUME NEW n \in Nodes, NEW i \in DOMAIN entities'[n]
        PROVE  HasFunction(n, entities'[n][i])
    <3>1. CASE n = From(v)
      <4>1. entities'[n] = Append(entities[n], a) /\ entities[n] \in Seq(Nat)
        BY <2>1, <2>2, <3>1
      <4> QED
        BY <2>1, <2>4, <3>1, <4>1, Appended DEF EntitiesAreFunctions
    <3>2. CASE n # From(v)
      BY <2>1, <2>2, <2>4, <3>2 DEF EntitiesAreFunctions
    <3> QED
      BY <3>1, <3>2
  <2> QED
    BY <2>4 DEF EntitiesAreFunctions, HasFunction
<1>2. ASSUME UNCHANGED entities PROVE EntitiesAreFunctions'
  BY <1>2 DEF EntitiesAreFunctions, HasFunction
<1> QED
  BY <1>1, <1>2, Writers DEF Ind

(* Two entities are linked still when others have been added. *)
LEMMA StillLinks ==
    ASSUME NEW s, NEW v, NEW p, NEW es, NEW new, Links(s, v, p, es),
           s.from[v] \in Nodes, s.to[v] \in Nodes,
           \A n \in Nodes : \A i \in DOMAIN es[n] :
              i \in DOMAIN new[n] /\ new[n][i] = es[n][i]
    PROVE  Links(s, v, p, new)
  BY DEF Links

(* ... matches are paired with the entities of their functions, *)
LEMMA PairsStep ==
    ASSUME Ind, MatchesAnswered, IndicesLead, PairsLink, [Next]_vars
    PROVE  PairsLink'
<1>1. /\ setup' = setup /\ DOMAIN pairs = Visits
      /\ \A v \in Visits : /\ From(v) \in Nodes /\ To(v) \in Nodes
                           /\ From(v) = setup.from[v] /\ To(v) = setup.to[v]
  BY Ends, Writers DEF Ind, Shaped, From, To
<1>2. \A v \in Visits : \A i \in DOMAIN pairs[v] :
         Links(setup, v, pairs[v][i], entities')
  BY <1>1, EntitiesGrow, StillLinks DEF PairsLink
<1>3. ASSUME NEW v \in Visits, PairMatches(v) PROVE PairsLink'
  <2> DEFINE ps == Pairs(matches[v], source[v], target[v], setup.scheduled[v])
             ms == matches[v]
  <2>1. pairs' = [pairs EXCEPT ![v] = ps] /\ entities' = entities
    BY <1>3 DEF PairMatches, Put
  <2>2. \E n \in Nat : DOMAIN ms = 1..n
    BY DEF MatchesAnswered, AllAnswered
  <2>3. /\ DOMAIN ps \subseteq DOMAIN ms
        /\ \A i \in DOMAIN ps :
              /\ ms[i].offset # None
              /\ Found(source[v], ms[i].source) /\ Found(target[v], ms[i].offset)
              /\ ps[i] = [source |-> Lookup(source[v], ms[i].source),
                          target |-> Lookup(target[v], ms[i].offset),
                          match |-> ms[i]]
    BY DEF Pairs
  <2>4. ASSUME NEW i \in DOMAIN ps PROVE Links(setup, v, ps[i], entities)
    <3> HIDE DEF ps
    <3>1. Answered(setup.payload[v], ms[i])
      BY <2>3 DEF MatchesAnswered, AllAnswered
    <3>2. ms[i].source \in Int /\ ms[i].offset \in Int
      BY <2>3, <3>1, AnswersTyped DEF Ind
    <3>3. /\ Leads(source[v], entities[setup.to[v]])
          /\ Leads(target[v], entities[setup.from[v]])
      BY <1>1 DEF IndicesLead
    <3>4. /\ ps[i].source \in DOMAIN entities[setup.to[v]]
          /\ Even(entities[setup.to[v]][ps[i].source]) = Even(ms[i].source)
      BY <2>3, <3>2, <3>3, LookupLeads
    <3>5. /\ ps[i].target \in DOMAIN entities[setup.from[v]]
          /\ Even(entities[setup.from[v]][ps[i].target]) = Even(ms[i].offset)
      BY <2>3, <3>2, <3>3, LookupLeads
    <3> QED
      BY <2>3, <3>1, <3>4, <3>5 DEF Links
  <2>5. \E n \in Nat : DOMAIN ps \subseteq 1..n
    BY <2>2, <2>3
  <2> HIDE DEF ps, ms
  <2> QED
    BY <1>1, <1>2, <2>1, <2>4, <2>5 DEF PairsLink
<1>4. ASSUME NEW v \in Visits, AddResult(v) PROVE PairsLink'
  <2>1. PICK i \in DOMAIN pairs[v] :
           pairs' = [pairs EXCEPT ![v] =
                       [j \in DOMAIN pairs[v] \ {i} |-> pairs[v][j]]]
    BY <1>4 DEF AddResult, Put
  <2>2. \A u \in Visits : /\ DOMAIN pairs'[u] \subseteq DOMAIN pairs[u]
                          /\ \A j \in DOMAIN pairs'[u] : pairs'[u][j] = pairs[u][j]
    BY <1>1, <2>1
  <2> QED
    BY <1>1, <1>2, <2>2 DEF PairsLink
<1>5. ASSUME UNCHANGED pairs PROVE PairsLink'
  BY <1>1, <1>2, <1>5 DEF PairsLink
<1> QED
  BY <1>3, <1>4, <1>5, Writers DEF Ind

(* ... become results, *)
LEMMA ResultsStep ==
    ASSUME Ind, PairsLink, ResultsLink, [Next]_vars PROVE ResultsLink'
<1>1. /\ setup' = setup
      /\ \A v \in Visits : setup.from[v] \in Nodes /\ setup.to[v] \in Nodes
  BY Ends, Writers DEF Ind, From, To
<1>2. \A r \in results :
         r.visit \in Visits /\ Links(setup, r.visit, r, entities')
  BY <1>1, EntitiesGrow, StillLinks DEF ResultsLink
<1>3. ASSUME NEW v \in Visits, AddResult(v) PROVE ResultsLink'
  <2>1. PICK i \in DOMAIN pairs[v] :
           results' = results \cup {[visit |-> v, source |-> pairs[v][i].source,
                                     target |-> pairs[v][i].target,
                                     match |-> pairs[v][i].match]}
    BY <1>3 DEF AddResult
  <2> DEFINE r == [visit |-> v, source |-> pairs[v][i].source,
                   target |-> pairs[v][i].target, match |-> pairs[v][i].match]
  <2>2. /\ r.visit = v /\ r.source = pairs[v][i].source
        /\ r.target = pairs[v][i].target /\ r.match = pairs[v][i].match
    OBVIOUS
  <2>3. entities' = entities /\ Links(setup, v, pairs[v][i], entities)
    BY <1>3 DEF AddResult, PairsLink
  <2>4. results' = results \cup {r}
    BY <2>1
  <2> HIDE DEF r
  <2>5. Links(setup, v, r, entities')
    BY <2>2, <2>3 DEF Links
  <2> QED
    BY <1>1, <1>2, <2>2, <2>4, <2>5 DEF ResultsLink
<1>4. ASSUME UNCHANGED results PROVE ResultsLink'
  BY <1>1, <1>2, <1>4 DEF ResultsLink
<1> QED
  BY <1>3, <1>4, Writers DEF Ind

(* Of some matches of a visit, one is the last. *)
LEMMA LastExists ==
    ASSUME NEW n \in Nat, NEW at \in SUBSET (1..n), at # {}
    PROVE  (CHOOSE i \in at : \A j \in at : j <= i) \in at
  BY GreatestExists

(* The label at an offset is one of a function of the server that is there. *)
LEMMA LabelServed ==
    ASSUME Ind, MatchesAnswered, NEW v \in Visits, NEW a, a # None,
           LabelAt(v, a) # None
    PROVE  \E f \in Fids : /\ Server[f] # None /\ Target(f).offset = a
                           /\ LabelAt(v, a) = Target(f).label
<1> DEFINE at == {i \in DOMAIN matches[v] :
                     /\ matches[v][i].offset = a
                     /\ \A j \in 1..(i - 1) : matches[v][j].fid # matches[v][i].fid
                     /\ targets[v][matches[v][i].fid].label # None}
           last == CHOOSE i \in at : \A j \in at : j <= i
<1>1. at # {} /\ LabelAt(v, a) = targets[v][matches[v][last].fid].label
  BY DEF LabelAt
<1>2. PICK n \in Nat : at \subseteq 1..n
  BY DEF MatchesAnswered, AllAnswered
<1>3. last \in at
  <2> HIDE DEF at
  <2> QED
    BY <1>1, <1>2, LastExists
<1> DEFINE m == matches[v][last]
<1>4. /\ last \in DOMAIN matches[v] /\ m.offset = a
      /\ Answered(setup.payload[v], m) /\ targets[v][m.fid] # None
  BY <1>3 DEF MatchesAnswered, AllAnswered
<1> HIDE DEF m
<1>5. m.fid \in Fids
  BY <1>4, AnswersTyped DEF Ind
<1>6. /\ Server[m.fid] # None /\ targets[v][m.fid] = Target(m.fid)
      /\ Target(m.fid).offset = a
  BY <1>4, <1>5 DEF MatchesAnswered, AllAnswered, Answered
<1> QED
  BY <1>1, <1>5, <1>6 DEF m

(* ... and their entities get labels. *)
LEMMA LabelsStep ==
    ASSUME Ind, MatchesAnswered, PairsLink, LabelsLink, [Next]_vars
    PROVE  LabelsLink'
<1>1. \A n \in Nodes : \A i \in DOMAIN entities[n] :
         i \in DOMAIN entities'[n] /\ entities'[n][i] = entities[n][i]
  BY EntitiesGrow
<1>2. ASSUME NEW v \in Visits, PutLabels(v) PROVE LabelsLink'
  <2> DEFINE Labelled == {i \in DOMAIN pairs[v] :
                             LabelAt(v, pairs[v][i].match.offset) # None}
             Is(e) == {i \in Labelled : pairs[v][i].target = e[2]}
             LastOf(e) == CHOOSE i \in Is(e) : \A j \in Is(e) : j <= i
             new == [e \in {<<From(v), pairs[v][i].target>> : i \in Labelled} |->
                       LabelAt(v, pairs[v][LastOf(e)].match.offset)]
  <2>1. /\ labels' = [e \in DOMAIN labels \cup DOMAIN new |->
                        IF e \in DOMAIN new THEN new[e] ELSE labels[e]]
        /\ entities' = entities
    BY <1>2 DEF PutLabels
  <2>2. From(v) \in Nodes
    BY Ends DEF Ind
  <2>3. ASSUME NEW e \in DOMAIN new
        PROVE  /\ e[1] \in Nodes /\ e[2] \in DOMAIN entities[e[1]]
               /\ \E f \in Fids :
                     /\ Server[f] # None /\ new[e] = Target(f).label
                     /\ Even(entities[e[1]][e[2]]) = Even(Target(f).offset)
    <3>1. e[1] = From(v) /\ Is(e) # {}
      BY <2>3
    <3>2. PICK n \in Nat : Is(e) \subseteq 1..n
      BY DEF PairsLink
    <3> DEFINE is == Is(e)
               i == LastOf(e)
    <3>3. i \in is
      <4>1. is # {} /\ is \in SUBSET (1..n) /\ i = CHOOSE k \in is : \A j \in is : j <= k
        BY <3>1, <3>2
      <4> HIDE DEF is, i
      <4> QED
        BY <4>1, LastExists
    <3>4. /\ i \in DOMAIN pairs[v] /\ pairs[v][i].target = e[2]
          /\ LabelAt(v, pairs[v][i].match.offset) # None
          /\ new[e] = LabelAt(v, pairs[v][i].match.offset)
      BY <2>3, <3>3
    <3> HIDE DEF is, i, new
    <3>5. Links(setup, v, pairs[v][i], entities)
      BY <3>4 DEF PairsLink
    <3>6. PICK f \in Fids : /\ Server[f] # None
                            /\ Target(f).offset = pairs[v][i].match.offset
                            /\ new[e] = Target(f).label
      BY <3>4, <3>5, LabelServed DEF Links
    <3> QED
      BY <2>2, <3>1, <3>4, <3>5, <3>6 DEF Links, From
  <2>4. \A e \in DOMAIN labels' :
           \/ e \in DOMAIN new /\ labels'[e] = new[e]
           \/ e \in DOMAIN labels /\ labels'[e] = labels[e]
    BY <2>1
  <2> HIDE DEF new
  <2> QED
    BY <2>1, <2>3, <2>4 DEF LabelsLink
<1>3. ASSUME UNCHANGED labels PROVE LabelsLink'
  BY <1>1, <1>3 DEF LabelsLink
<1> QED
  BY <1>2, <1>3, Writers DEF Ind

(* The links hold whatever the visits do. *)
THEOREM Linking == Spec => []Linked
<1>1. Ind /\ Linked /\ [Next]_vars => Linked'
  BY AnsweredStep, IndicesStep, FunctionsStep, PairsStep, ResultsStep,
     LabelsStep DEF Linked
<1> QED
  BY <1>1, InitLinked, Invariance, PTL DEF Spec

-----------------------------------------------------------------------------
(* One entity for a function *)

(* An address that the index lacks is of a function that no entity has: an
   entity that shares its even address would be in the index under it, or is
   of the same answer and then has the same address. *)
LEMMA NewFunction ==
    ASSUME AnswersTellFunctions, Ind, Linked, NEW v \in Visits, pc[v] = "create",
           NEW k \in DOMAIN matches[v], NEW a, a = matches[v][k].offset,
           a \in Nat, ~Found(target[v], a), HasFunction(From(v), a),
           NEW i \in DOMAIN entities[From(v)]
    PROVE  FunctionAt(From(v), a) # FunctionAt(From(v), entities[From(v)][i])
<1> DEFINE n == From(v)
           b == entities[n][i]
<1> SUFFICES ASSUME FunctionAt(n, a) = FunctionAt(n, b) PROVE FALSE
  OBVIOUS
<1>1. n \in Nodes /\ b \in Nat /\ n = setup.from[v] /\ setup \in Setups
  BY Ends DEF Ind, Shaped, From
<1>2. /\ b \in DOMAIN target[v]
      /\ Even(b) \in DOMAIN target[v] \/ \E l \in DOMAIN matches[v] : b = matches[v][l].offset
  BY DEF Ind, IndexIsCurrent, OffsetsOf
<1>3. a \notin DOMAIN target[v] /\ Even(a) \notin DOMAIN target[v]
  BY DEF Found, Aliases
<1> HIDE DEF b, n
<1>4. Even(a) = Even(b)
  BY <1>1, FunctionKeepsEven
<1>5. PICK l \in DOMAIN matches[v] : b = matches[v][l].offset
  BY <1>2, <1>3, <1>4
<1>6. ASSUME NEW x \in DOMAIN matches[v], matches[v][x].offset \in Nat
      PROVE  \E y \in DOMAIN setup.payload[v] :
                LET f == setup.payload[v][y].fid
                IN Server[f] # None /\ matches[v][x].offset = Target(f).offset
  <2>1. Answered(setup.payload[v], matches[v][x])
    BY DEF Linked, MatchesAnswered, AllAnswered
  <2>2. matches[v][x].offset # None
    BY <1>6, NoneIsNoNumber
  <2> QED
    BY <2>1, <2>2 DEF Answered
<1>7. PICK x \in DOMAIN setup.payload[v] :
         LET f == setup.payload[v][x].fid
         IN Server[f] # None /\ a = Target(f).offset
  BY <1>6
<1>8. PICK y \in DOMAIN setup.payload[v] :
         LET f == setup.payload[v][y].fid
         IN Server[f] # None /\ b = Target(f).offset
  BY <1>1, <1>5, <1>6
<1>9. a = b
  BY <1>1, <1>7, <1>8 DEF AnswersTellFunctions, n
<1> QED
  BY <1>2, <1>3, <1>9

(* Every step keeps it. *)
LEMMA OneEntityStep ==
    ASSUME AnswersTellFunctions, Ind, Linked, OneEntityPerFunction, [Next]_vars
    PROVE  OneEntityPerFunction'
<1>1. ASSUME NEW v \in Visits, CreateEntity(v) PROVE OneEntityPerFunction'
  <2>1. PICK a \in OffsetsOf(v) :
           /\ a \in Nat /\ ~Found(target[v], a) /\ HasFunction(From(v), a)
           /\ entities' = [entities EXCEPT ![From(v)] =
                             Append(entities[From(v)], a)]
           /\ pc[v] = "create"
    BY <1>1, Created
  <2>2. From(v) \in Nodes /\ entities \in [Nodes -> Seq(Nat)]
    BY Ends DEF Ind, Shaped
  <2>3. ASSUME NEW n \in Nodes, NEW i \in DOMAIN entities'[n],
               NEW j \in DOMAIN entities'[n], i # j
        PROVE  FunctionAt(n, entities'[n][i]) # FunctionAt(n, entities'[n][j])
    <3>1. CASE n # From(v)
      BY <2>1, <2>2, <2>3, <3>1 DEF OneEntityPerFunction
    <3>2. CASE n = From(v)
      <4> DEFINE es == entities[From(v)]
      <4>1. /\ entities'[n] = Append(es, a)
            /\ es \in Seq(Nat)
        BY <2>1, <2>2, <3>2
      <4>2. \A k \in DOMAIN es : FunctionAt(n, a) # FunctionAt(n, es[k])
        BY <2>1, <3>2, NewFunction DEF OffsetsOf
      <4>3. \A k, l \in DOMAIN es :
               k # l => FunctionAt(n, es[k]) # FunctionAt(n, es[l])
        BY <3>2 DEF OneEntityPerFunction
      <4>4. a \in Nat
        BY <2>1
      <4> HIDE DEF es
      <4>5. /\ DOMAIN Append(es, a) = DOMAIN es \cup {Len(es) + 1}
            /\ \A k \in DOMAIN es : Append(es, a)[k] = es[k]
            /\ Append(es, a)[Len(es) + 1] = a
        BY <4>1, <4>4, Appended
      <4> QED
        BY <2>3, <4>1, <4>2, <4>3, <4>5
    <3> QED
      BY <3>1, <3>2
  <2> QED
    BY <2>3 DEF OneEntityPerFunction, FunctionAt
<1>2. ASSUME UNCHANGED entities PROVE OneEntityPerFunction'
  BY <1>2 DEF OneEntityPerFunction, FunctionAt
<1> QED
  BY <1>1, <1>2
     DEF Next, Visit, vars, shared, local, Stopped, NothingScheduled,
         ReadAnswer, AllKnown, FetchTargets, FetchFails, AttachOffsets,
         IndexSource, IndexTarget, PairMatches, PutLabels, AddResult, Finish,
         RequestStop, Evict

(* However many visits create entities in one node at once, and whatever the
   server answers each of them, no function of the node gets two: unless one
   answer matches it under two addresses. *)
THEOREM OneEntity ==
    ASSUME AnswersTellFunctions
    PROVE  Spec => []OneEntityPerFunction
<1>1. Init => OneEntityPerFunction
  BY SetupConstants
     DEF Init, OneEntityPerFunction, FunctionAt, ToSet, IsInjective
<1>2. Ind /\ Linked /\ OneEntityPerFunction /\ [Next]_vars => OneEntityPerFunction'
  BY OneEntityStep
<1> QED
  BY <1>1, <1>2, Invariance, Linking, PTL DEF Spec

-----------------------------------------------------------------------------
(* What results and labels name *)

(* If every address tells its function, the entity of an address, with the
   Thumb bit or without, is of the function of that address. *)
LEMMA TellsApart ==
    ASSUME NEW n \in Nodes, NEW a \in Nat, HasFunction(n, a),
           NEW b \in Int, Tells(n, b), Even(a) = Even(b)
    PROVE  FunctionAt(n, a) = FunctionAt(n, b)
<1>1. FunctionAt(n, a) \in Functions[n] /\ Even(FunctionAt(n, a)) = Even(a)
  BY EvenOnce DEF FunctionAt, HasFunction
<1> QED
  BY <1>1 DEF Tells

(* A link is between the functions that MCRIT matched. *)
LEMMA LinksName ==
    ASSUME AddressesTellFunctions, Ind, EntitiesAreFunctions,
           NEW v \in Visits, NEW p, Links(setup, v, p, entities)
    PROVE  /\ FunctionAt(To(v), entities[To(v)][p.source])
                 = FunctionAt(To(v), p.match.source)
           /\ FunctionAt(From(v), entities[From(v)][p.target])
                 = FunctionAt(From(v), Target(p.match.fid).offset)
           /\ Server[p.match.fid] # None /\ p.match.fid \in Fids
<1> DEFINE m == p.match
<1>1. /\ To(v) \in Nodes /\ From(v) \in Nodes /\ setup \in Setups
      /\ entities \in [Nodes -> Seq(Nat)]
      /\ To(v) = setup.to[v] /\ From(v) = setup.from[v]
  BY Ends DEF Ind, Shaped, To, From
<1>2. /\ m.source \in Int /\ m.fid \in Fids /\ m.offset \in Nat
      /\ Server[m.fid] # None /\ m.offset = Target(m.fid).offset
  BY AnswersTyped DEF Links, Answered, Ind
<1>3. Tells(To(v), m.source)
  BY <1>1 DEF AddressesTellFunctions, Links, Answered
<1>4. Tells(From(v), m.offset)
  BY <1>1, <1>2 DEF AddressesTellFunctions
<1>5. /\ entities[To(v)][p.source] \in Nat
      /\ HasFunction(To(v), entities[To(v)][p.source])
      /\ Even(entities[To(v)][p.source]) = Even(m.source)
  BY <1>1 DEF Links, EntitiesAreFunctions
<1>6. /\ entities[From(v)][p.target] \in Nat
      /\ HasFunction(From(v), entities[From(v)][p.target])
      /\ Even(entities[From(v)][p.target]) = Even(m.offset)
  BY <1>1 DEF Links, EntitiesAreFunctions
<1> HIDE DEF m
<1> QED
  BY <1>1, <1>2, <1>3, <1>4, <1>5, <1>6, TellsApart DEF m

(* Where every address tells its function, a result pairs the entities of the
   functions that MCRIT matched, and a label is one of the function it is put
   on, whatever other visits add to the entities and the offsets meanwhile. *)
THEOREM ResultsNameFunctions ==
    ASSUME AddressesTellFunctions
    PROVE  Spec => []ResultsNameTheirFunctions
<1>1. Ind /\ Linked => ResultsNameTheirFunctions
  <2> SUFFICES ASSUME Ind, Linked PROVE ResultsNameTheirFunctions
    OBVIOUS
  <2>1. ASSUME NEW r \in results
        PROVE  LET n == From(r.visit)  m == To(r.visit)
               IN /\ FunctionAt(m, entities[m][r.source])
                        = FunctionAt(m, r.match.source)
                  /\ FunctionAt(n, entities[n][r.target])
                        = FunctionAt(n, Target(r.match.fid).offset)
    BY LinksName DEF Linked, ResultsLink
  <2>2. ASSUME NEW e \in DOMAIN labels
        PROVE  \E f \in Fids :
                  /\ Server[f] # None /\ labels[e] = Target(f).label
                  /\ FunctionAt(e[1], entities[e[1]][e[2]])
                        = FunctionAt(e[1], Target(f).offset)
    <3> DEFINE a == entities[e[1]][e[2]]
    <3>1. PICK f \in Fids :
             /\ Server[f] # None /\ labels[e] = Target(f).label
             /\ Even(a) = Even(Target(f).offset)
      BY DEF Linked, LabelsLink
    <3>2. e[1] \in Nodes /\ a \in Nat /\ HasFunction(e[1], a)
      BY DEF Linked, LabelsLink, EntitiesAreFunctions, Ind, Shaped
    <3>3. Target(f).offset \in Int /\ Tells(e[1], Target(f).offset)
      BY <3>1, <3>2, OffsetsAreAddresses DEF AddressesTellFunctions
    <3> HIDE DEF a
    <3>4. FunctionAt(e[1], a) = FunctionAt(e[1], Target(f).offset)
      BY <3>1, <3>2, <3>3, TellsApart
    <3> QED
      BY <3>1, <3>4 DEF a
  <2> QED
    BY <2>1, <2>2 DEF ResultsNameTheirFunctions
<1> QED
  BY <1>1, Invariance, Linking, PTL

-----------------------------------------------------------------------------
(* Types *)

(* A visit is somewhere, and has an outcome once it is done. *)
Staged ==
    /\ stopped \subseteq Visits
    /\ \A v \in Visits :
          /\ pc[v] \in {"payload", "ask", "known", "source", "lock", "create",
                        "label", "emit", "done"}
          /\ outcome[v] \in {"none", "stopped", "failed", "unmapped", "finished"}
          /\ pc[v] = "done" <=> outcome[v] # "none"

LEMMA StagedStep == ASSUME Shaped, Staged, [Next]_vars PROVE Staged'
<1> USE DEF Shaped, Staged, Goto, End, Put, shared, local
<1>1. ASSUME NEW v \in Visits,
             \/ Stopped(v) \/ NothingScheduled(v) \/ FetchFails(v) \/ Finish(v)
      PROVE  Staged'
  <2>1. PICK o \in {"stopped", "failed", "unmapped", "finished"} : End(v, o)
    BY <1>1 DEF Stopped, NothingScheduled, FetchFails, Finish
  <2>2. stopped' = stopped
    BY <1>1 DEF Stopped, NothingScheduled, FetchFails, Finish
  <2> QED
    BY <2>1, <2>2
<1>2. ASSUME NEW v \in Visits,
             \/ ReadAnswer(v) \/ AllKnown(v) \/ FetchTargets(v)
             \/ AttachOffsets(v) \/ IndexSource(v) \/ IndexTarget(v)
             \/ PairMatches(v) \/ PutLabels(v)
      PROVE  Staged'
  <2>1. PICK l \in {"ask", "known", "source", "lock", "create", "label", "emit"} :
           Goto(v, l)
    BY <1>2 DEF ReadAnswer, AllKnown, FetchTargets, AttachOffsets, IndexSource,
                IndexTarget, PairMatches, PutLabels
  <2>2. pc[v] # "done" /\ UNCHANGED <<stopped, outcome>>
    BY <1>2 DEF ReadAnswer, AllKnown, FetchTargets, AttachOffsets, IndexSource,
                IndexTarget, PairMatches, PutLabels
  <2> QED
    BY <2>1, <2>2
<1>3. ASSUME NEW v \in Visits, CreateEntity(v) \/ AddResult(v) \/ RequestStop(v)
      PROVE  Staged'
  BY <1>3 DEF CreateEntity, AddResult, RequestStop
<1>4. ASSUME (\E f \in Fids : Evict(f)) \/ UNCHANGED vars PROVE Staged'
  BY <1>4 DEF Evict, vars
<1> QED
  BY <1>1, <1>2, <1>3, <1>4 DEF Next, Visit

(* Every variable has its type; the cache holds the server's offsets, a lock
   its visit, and every index and label leads to an entity there is. *)
THEOREM TypeCorrect == Spec => []TypeOK
<1>1. Init => Staged
  BY DEF Init, Staged
<1>2. Ind /\ Staged /\ [Next]_vars => Staged'
  BY StagedStep DEF Ind
<1>3. Ind /\ Linked /\ Staged => TypeOK
  <2> SUFFICES ASSUME Ind, Linked, Staged PROVE TypeOK
    OBVIOUS
  <2>1. /\ setup.from \in [Visits -> Nodes] /\ setup.to \in [Visits -> Nodes]
        /\ \A n \in Nodes : entities[n] \in Seq(Nat)
        /\ \A f \in Fids : offsets[f] # None => offsets[f] = Target(f)
    BY SetupConstants DEF Ind, Shaped, OffsetsServed
  <2>2. /\ \A n \in Nodes : lock[n] \in Visits \cup {None}
        /\ \A v \in Visits, n \in Nodes :
              lock[n] = v <=> pc[v] = "create" /\ n = From(v)
    BY DEF Ind, LockIsHeld
  <2>3. \A e \in DOMAIN labels : e[2] \in DOMAIN entities[e[1]]
    BY DEF Linked, LabelsLink
  <2>4. \A v \in Visits :
           /\ \A a \in DOMAIN source[v] : source[v][a] \in DOMAIN entities[To(v)]
           /\ \A a \in DOMAIN target[v] : target[v][a] \in DOMAIN entities[From(v)]
    BY DEF Linked, IndicesLead, Leads
  <2> QED
    BY <2>1, <2>2, <2>3, <2>4 DEF Staged, TypeOK
<1> QED
  BY <1>1, <1>2, <1>3, Invariance, Linking, PTL DEF Spec

-----------------------------------------------------------------------------
(* The session *)

(* What an analyst does is no step of a visit. *)
LEMMA SessionSteps ==
    ASSUME [SessionNext]_<<vars, sessionVars>>
    PROVE  [Next]_vars /\ (Next \/ UNCHANGED vars)
  BY DEF SessionNext, Rename, ApplyName, StartApply, Render, CopyName,
         ApplyFails, ReadSymbol, FinishApply, sessionVars

(* The provider in a session visits its edges as it does on its own. *)
THEOREM SessionVisits == SessionSpec => Spec
<1>1. SessionInit => Init
  BY DEF SessionInit
<1>2. [SessionNext]_<<vars, sessionVars>> => [Next]_vars
  BY SessionSteps
<1> QED
  BY <1>1, <1>2, PTL DEF SessionSpec, Spec

(* A label that the server has is one of the texts. *)
LEMMA LabelIsText ==
    ASSUME NEW f \in Fids, Server[f] # None, Target(f).label # None
    PROVE  Target(f).label \in Texts
<1> DEFINE ls == Server[f].labels
           real == {i \in DOMAIN ls : ls[i].real}
           newest == {i \in real : \A j \in real :
                         /\ ls[j].stamp <= ls[i].stamp
                         /\ j > i => ls[j].stamp < ls[i].stamp}
           after == [i \in real |-> {j \in real :
                         \/ ls[j].stamp > ls[i].stamp
                         \/ ls[j].stamp = ls[i].stamp /\ j > i}]
<1>1. ls \in Seq([text : Texts, stamp : Nat, real : BOOLEAN])
  BY VisitConstants DEF Entry
<1>2. Target(f).label = IF real = {} THEN None ELSE ls[CHOOSE i \in newest : TRUE].text
  BY DEF Target, CorpusLabel
<1> HIDE DEF ls
<1>3. \A i \in DOMAIN ls : /\ i \in Nat /\ ls[i].stamp \in Nat
                            /\ ls[i].text \in Texts
  <2> DEFINE T == [text : Texts, stamp : Nat, real : BOOLEAN]
  <2>1. \A x \in T : x.stamp \in Nat /\ x.text \in Texts
    OBVIOUS
  <2>2. ls \in Seq(T)
    BY <1>1
  <2> HIDE DEF T
  <2> QED
    BY <2>1, <2>2
<1>4. IsFiniteSet(real) /\ real # {}
  <2>1. Len(ls) \in Nat /\ DOMAIN ls = 1..Len(ls)
    <3> DEFINE T == [text : Texts, stamp : Nat, real : BOOLEAN]
    <3>1. ls \in Seq(T)
      BY <1>1
    <3> HIDE DEF T
    <3> QED
      BY <3>1
  <2>3. IsFiniteSet(1..Len(ls)) /\ real \in SUBSET (1..Len(ls))
    BY <2>1, FS_Interval
  <2>2. real # {}
    BY <1>2
  <2> HIDE DEF real
  <2> QED
    BY <2>2, <2>3, FS_Subset
<1>5. PICK i \in real : after[i] = {}
  <2>1. /\ \A i \in real : after[i] \subseteq real /\ i \notin after[i]
        /\ \A i, j, k \in real : i \in after[j] /\ j \in after[k] => i \in after[k]
        /\ \A i, j \in real : i # j => i \in after[j] \/ j \in after[i]
    BY <1>3
  <2> HIDE DEF real, after
  <2> QED
    BY <1>4, <2>1, FirstExists
<1>6. i \in newest
  <2>1. \A j \in real : /\ ~(ls[j].stamp > ls[i].stamp)
                        /\ ~(ls[j].stamp = ls[i].stamp /\ j > i)
    BY <1>5
  <2> QED
    BY <1>3, <2>1
<1>7. PICK j \in newest : Target(f).label = ls[j].text
  BY <1>2, <1>4, <1>6
<1>8. j \in DOMAIN ls
  BY <1>7
<1> QED
  BY <1>3, <1>7, <1>8

(* Symbols are symbols. *)
NamesTyped ==
    /\ DOMAIN names = Nodes
    /\ \A n \in Nodes : names[n] \in [Functions[n] -> Symbol \cup {None}]

(* An apply is of a result, and its label is of a function of the server at an
   address of the result's other entity. *)
ApplyIsOfResult ==
    applying # None =>
        /\ applying \in Apply
        /\ \E r \in results :
              /\ applying.own = Own(r) /\ applying.match = Match(r)
              /\ applying.label # None =>
                    \E f \in Fids :
                       /\ Server[f] # None /\ applying.label = Target(f).label
                       /\ Even(entities[From(r.visit)][r.target])
                             = Even(Target(f).offset)

(* A placeholder is at the function of the apply under way, once it is copied.
   A function that had no symbol has none then besides the placeholder and the
   user's, and the user's alone if it has not what was read; and the other
   function has none but the user's before the copy. *)
PlaceholderPasses ==
    /\ \A n \in Nodes : \A a \in Functions[n] :
          names[n][a] = Placeholder =>
             applying # None /\ applying.at # "copy" /\ applying.own = <<n, a>>
    /\ applying # None =>
          /\ applying.at # "copy" => applying.unnamed
          /\ applying.unnamed =>
                NameOf(applying.own) \in {None, Placeholder, UserName}
          /\ ~applying.unnamed => NameOf(applying.own) # None
          /\ applying.at = "copy" => NameOf(applying.match) \in {None, UserName}
          /\ applying.at = "set" =>
                /\ applying.symbol \in {None, Placeholder, UserName}
                /\ NameOf(applying.own) \in {applying.symbol, UserName}

Applied == NamesTyped /\ ApplyIsOfResult /\ PlaceholderPasses

(* Symbols are not each other, and none is none. *)
LEMMA SymbolsDiffer ==
    /\ Placeholder \in Symbol /\ UserName \in Symbol /\ Placeholder # UserName
    /\ Placeholder # None /\ UserName # None
    /\ Placeholder.auto /\ ~UserName.auto
    /\ \A x \in Texts : /\ Name(x, FALSE) \in Symbol
                         /\ Name(x, FALSE) # Placeholder /\ Name(x, FALSE) # None
<1>1. Placeholder \in Symbol /\ UserName \in Symbol
  BY SessionConstants DEF Placeholder, UserName, Name, Symbol
<1>2. Placeholder.auto = TRUE /\ UserName.auto = FALSE
  BY DEF Placeholder, UserName, Name
<1>3. \A x \in Texts : Name(x, FALSE) \in Symbol /\ Name(x, FALSE).auto = FALSE
  BY DEF Name, Symbol
<1>4. None \notin Symbol
  BY SessionConstants
<1> QED
  BY <1>1, <1>2, <1>3, <1>4

(* The functions of a result are functions of its nodes. *)
LEMMA FunctionsOfResult ==
    ASSUME Ind, Linked, NEW r \in results
    PROVE  /\ r.visit \in Visits
           /\ Own(r) \in Nodes \X Nat /\ Match(r) \in Nodes \X Nat
           /\ Own(r)[2] \in Functions[Own(r)[1]]
           /\ Match(r)[2] \in Functions[Match(r)[1]]
           /\ Match(r)[1] = From(r.visit)
<1> DEFINE v == r.visit
<1>1. v \in Visits /\ Links(setup, v, r, entities)
  BY DEF Linked, ResultsLink
<1>2. /\ To(v) \in Nodes /\ From(v) \in Nodes
      /\ To(v) = setup.to[v] /\ From(v) = setup.from[v]
  BY <1>1, Ends DEF Ind, To, From
<1>3. /\ HasFunction(To(v), entities[To(v)][r.source])
      /\ HasFunction(From(v), entities[From(v)][r.target])
  BY <1>1, <1>2 DEF Links, Linked, EntitiesAreFunctions
<1>4. /\ FunctionAt(To(v), entities[To(v)][r.source]) \in Functions[To(v)]
      /\ FunctionAt(From(v), entities[From(v)][r.target]) \in Functions[From(v)]
  BY <1>3 DEF HasFunction, FunctionAt
<1>5. \A n \in Nodes : Functions[n] \subseteq Nat
  BY VisitConstants
<1> QED
  BY <1>1, <1>2, <1>4, <1>5 DEF Own, Match, Function

(* They stay what they are while visits go on. *)
LEMMA ResultsStay ==
    ASSUME Ind, Linked, [Next]_vars, NEW r \in results
    PROVE  /\ r \in results' /\ From(r.visit)' = From(r.visit)
           /\ Own(r)' = Own(r) /\ Match(r)' = Match(r)
           /\ entities'[From(r.visit)][r.target]
                 = entities[From(r.visit)][r.target]
<1> DEFINE v == r.visit
<1>1. v \in Visits /\ Links(setup, v, r, entities)
  BY DEF Linked, ResultsLink
<1>2. /\ setup' = setup /\ To(v) \in Nodes /\ From(v) \in Nodes
      /\ To(v) = setup.to[v] /\ From(v) = setup.from[v]
  BY <1>1, Ends, Writers DEF Ind, To, From
<1>3. /\ entities'[To(v)][r.source] = entities[To(v)][r.source]
      /\ entities'[From(v)][r.target] = entities[From(v)][r.target]
  BY <1>1, <1>2, EntitiesGrow DEF Links
<1>4. r \in results'
  <2>1. ASSUME NEW u \in Visits, AddResult(u) PROVE r \in results'
    BY <2>1 DEF AddResult
  <2> QED
    BY <2>1, Writers DEF Ind
<1> QED
  BY <1>2, <1>3, <1>4 DEF Own, Match, Function, FunctionAt, To, From

(* At first there are the names that the views have. *)
LEMMA InitApplied == SessionInit => Applied
<1> SUFFICES ASSUME SessionInit PROVE Applied
  OBVIOUS
<1>1. /\ applying = None /\ names = setup.names /\ DOMAIN names = Nodes
      /\ \A n \in Nodes :
            names[n] \in [Functions[n] -> (Symbol \ {Placeholder}) \cup {None}]
  BY SessionConstants DEF SessionInit, Init
<1>2. NamesTyped
  BY <1>1 DEF NamesTyped
<1>3. \A n \in Nodes : \A a \in Functions[n] : names[n][a] # Placeholder
  BY <1>1, SymbolsDiffer
<1> QED
  BY <1>1, <1>2, <1>3 DEF Applied, ApplyIsOfResult, PlaceholderPasses

(* Whatever the visits do to the results, an apply is of one: at its steps,
   what it is of does not change. *)
SameApply(x, y) == x.own = y.own /\ x.match = y.match /\ x.label = y.label

LEMMA ApplyStays ==
    ASSUME Ind, Linked, ApplyIsOfResult, [Next]_vars,
           applying' # None =>
              applying # None /\ applying' \in Apply /\ SameApply(applying', applying)
    PROVE  ApplyIsOfResult'
<1> SUFFICES ASSUME applying' # None PROVE ApplyIsOfResult'
  BY DEF ApplyIsOfResult
<1>1. /\ applying # None /\ applying' \in Apply
      /\ applying'.own = applying.own /\ applying'.match = applying.match
      /\ applying'.label = applying.label
  BY DEF SameApply
<1>2. PICK r \in results :
         /\ applying.own = Own(r) /\ applying.match = Match(r)
         /\ applying.label # None =>
               \E f \in Fids :
                  /\ Server[f] # None /\ applying.label = Target(f).label
                  /\ Even(entities[From(r.visit)][r.target])
                        = Even(Target(f).offset)
  BY <1>1 DEF ApplyIsOfResult
<1>3. /\ r \in results' /\ From(r.visit)' = From(r.visit)
      /\ Own(r)' = Own(r) /\ Match(r)' = Match(r)
      /\ entities'[From(r.visit)][r.target] = entities[From(r.visit)][r.target]
  BY ResultsStay
<1> QED
  BY <1>1, <1>2, <1>3 DEF ApplyIsOfResult

LEMMA ApplyRests ==
    ASSUME Ind, Linked, ApplyIsOfResult, [Next]_vars, applying' \in {applying, None}
    PROVE  ApplyIsOfResult'
<1>1. applying # None => applying \in Apply
  BY DEF ApplyIsOfResult
<1> QED
  BY <1>1, ApplyStays DEF SameApply

(* Naming a function changes no other name. *)
LEMMA Named ==
    ASSUME NamesTyped, NEW x \in Nodes \X Nat, x[2] \in Functions[x[1]],
           NEW y \in Symbol \cup {None}, SetName(x, y)
    PROVE  /\ NamesTyped' /\ names'[x[1]][x[2]] = y
           /\ \A n \in Nodes : \A a \in Functions[n] :
                 <<n, a>> # x => names'[n][a] = names[n][a]
<1>1. /\ x[1] \in Nodes /\ x = <<x[1], x[2]>>
      /\ names' = [names EXCEPT ![x[1]] = [names[x[1]] EXCEPT ![x[2]] = y]]
  BY DEF SetName
<1>2. NamesTyped'
  BY <1>1 DEF NamesTyped
<1>3. DOMAIN names = Nodes /\ DOMAIN names[x[1]] = Functions[x[1]]
  BY <1>1 DEF NamesTyped
<1> QED
  BY <1>1, <1>2, <1>3

(* The functions of an apply are functions. *)
LEMMA FunctionsOfApply ==
    ASSUME Ind, Linked, ApplyIsOfResult, applying # None
    PROVE  /\ applying \in Apply
           /\ applying.own \in Nodes \X Nat /\ applying.match \in Nodes \X Nat
           /\ applying.own[2] \in Functions[applying.own[1]]
           /\ applying.match[2] \in Functions[applying.match[1]]
           /\ applying.unnamed \in BOOLEAN
           /\ applying.at \in {"copy", "read", "set"}
           /\ applying.label \in Texts \cup {None}
<1>1. PICK r \in results : applying.own = Own(r) /\ applying.match = Match(r)
  BY DEF ApplyIsOfResult
<1>2. /\ applying \in Apply /\ applying.unnamed \in BOOLEAN
      /\ applying.at \in {"copy", "read", "set"}
      /\ applying.label \in Texts \cup {None}
  BY DEF ApplyIsOfResult, Apply
<1> QED
  BY <1>1, <1>2, FunctionsOfResult

(* What an apply may name the function of a result after. *)
LEMMA LabelOfResult ==
    ASSUME Ind, Linked, NEW r \in results, LabelOf(r) # None
    PROVE  /\ LabelOf(r) \in Texts
           /\ \E f \in Fids :
                 /\ Server[f] # None /\ LabelOf(r) = Target(f).label
                 /\ Even(entities[From(r.visit)][r.target])
                       = Even(Target(f).offset)
<1> DEFINE e == <<From(r.visit), r.target>>
<1>1. e \in DOMAIN labels /\ LabelOf(r) = labels[e]
  BY DEF LabelOf
<1>2. e[1] = From(r.visit) /\ e[2] = r.target
  OBVIOUS
<1> HIDE DEF e
<1>3. PICK f \in Fids :
         /\ Server[f] # None /\ labels[e] = Target(f).label
         /\ Even(entities[e[1]][e[2]]) = Even(Target(f).offset)
  BY <1>1 DEF Linked, LabelsLink
<1> QED
  BY <1>1, <1>2, <1>3, LabelIsText

(* What a function is named when another, or itself, is given a name. *)
LEMMA NameAfter ==
    ASSUME NamesTyped, NEW x \in Nodes \X Nat, x[2] \in Functions[x[1]],
           NEW y \in Symbol \cup {None}, SetName(x, y),
           NEW z \in Nodes \X Nat, z[2] \in Functions[z[1]]
    PROVE  names'[z[1]][z[2]] = IF z = x THEN y ELSE names[z[1]][z[2]]
<1>1. z = <<z[1], z[2]>> /\ z[1] \in Nodes
  OBVIOUS
<1>2. /\ names'[x[1]][x[2]] = y
      /\ \A m \in Nodes : \A b \in Functions[m] :
            <<m, b>> # x => names'[m][b] = names[m][b]
  BY Named
<1> QED
  BY <1>1, <1>2

(* What the steps of a session do to names and applies. *)
LEMMA RenameStep ==
    ASSUME Ind, Linked, Applied, NEW n \in Nodes, NEW a \in Functions[n],
           Rename(n, a)
    PROVE  Applied'
<1> DEFINE x == <<n, a>>
<1>1. /\ x \in Nodes \X Nat /\ x[2] \in Functions[x[1]]
      /\ SetName(x, UserName) /\ UNCHANGED vars /\ applying' = applying
      /\ UserName \in Symbol
  BY VisitConstants, SymbolsDiffer DEF Rename
<1> HIDE DEF x
<1>2. /\ NamesTyped' /\ names'[x[1]][x[2]] = UserName
      /\ \A m \in Nodes : \A b \in Functions[m] :
            <<m, b>> # x => names'[m][b] = names[m][b]
  BY <1>1, Named DEF Applied
<1>3. ApplyIsOfResult'
  BY <1>1, ApplyRests DEF Applied
<1>4. ASSUME NEW m \in Nodes, NEW b \in Functions[m], names'[m][b] = Placeholder
      PROVE  applying # None /\ applying.at # "copy" /\ applying.own = <<m, b>>
  <2>1. CASE <<m, b>> = x
    BY <1>2, <1>4, <2>1, SymbolsDiffer
  <2>2. CASE <<m, b>> # x
    BY <1>2, <1>4, <2>2 DEF Applied, PlaceholderPasses
  <2> QED
    BY <2>1, <2>2
<1>5. ASSUME NEW z \in Nodes \X Nat, z[2] \in Functions[z[1]]
      PROVE  NameOf(z)' \in {NameOf(z), UserName}
  BY <1>1, <1>5, NameAfter DEF Applied, NameOf
<1>6. applying # None =>
         /\ NameOf(applying.own)' \in {NameOf(applying.own), UserName}
         /\ NameOf(applying.match)' \in {NameOf(applying.match), UserName}
  BY <1>1, <1>5, FunctionsOfApply DEF Applied
<1> QED
  BY <1>1, <1>2, <1>3, <1>4, <1>6, SymbolsDiffer DEF Applied, PlaceholderPasses

LEMMA ApplyNameStep ==
    ASSUME Ind, Linked, Applied, NEW r \in results, ApplyName(r)
    PROVE  Applied'
<1> DEFINE x == Own(r)
           y == NameOf(Match(r))
<1>1. /\ x \in Nodes \X Nat /\ x[2] \in Functions[x[1]]
      /\ Match(r)[1] \in Nodes /\ Match(r)[2] \in Functions[Match(r)[1]]
  BY FunctionsOfResult
<1>2. /\ SetName(x, y) /\ UNCHANGED vars /\ applying = None /\ applying' = None
      /\ y \in Symbol \cup {None} /\ y # Placeholder
  BY <1>1 DEF ApplyName, Applied, NamesTyped, PlaceholderPasses, NameOf
<1> HIDE DEF x, y
<1>3. /\ NamesTyped' /\ names'[x[1]][x[2]] = y
      /\ \A m \in Nodes : \A b \in Functions[m] :
            <<m, b>> # x => names'[m][b] = names[m][b]
  BY <1>1, <1>2, Named DEF Applied
<1>4. ApplyIsOfResult'
  BY <1>2, ApplyRests DEF Applied
<1>5. \A m \in Nodes : \A b \in Functions[m] : names'[m][b] # Placeholder
  BY <1>2, <1>3 DEF Applied, PlaceholderPasses
<1> QED
  BY <1>2, <1>3, <1>4, <1>5 DEF Applied, PlaceholderPasses

LEMMA StartApplyStep ==
    ASSUME Ind, Linked, Applied, NEW r \in results, StartApply(r)
    PROVE  Applied'
<1> DEFINE x == Own(r)
           y == Match(r)
           l == LabelOf(r)
           u == NameOf(Own(r)) = None
<1>1. x \in Nodes \X Nat /\ y \in Nodes \X Nat
  BY FunctionsOfResult
<1>2. /\ applying = None /\ UNCHANGED vars /\ UNCHANGED names
      /\ applying' = [own |-> x, match |-> y, label |-> l, unnamed |-> u,
                      at |-> "copy", symbol |-> None]
      /\ NameOf(y) = None
  BY DEF StartApply
<1>3. /\ l # None => l \in Texts
      /\ l # None =>
            \E f \in Fids : /\ Server[f] # None /\ l = Target(f).label
                            /\ Even(entities[From(r.visit)][r.target])
                                  = Even(Target(f).offset)
  BY LabelOfResult
<1>4. u \in BOOLEAN /\ (u <=> names[x[1]][x[2]] = None)
  BY DEF NameOf
<1>5. /\ Own(r)' = Own(r) /\ Match(r)' = Match(r)
      /\ From(r.visit)' = From(r.visit)
      /\ results' = results /\ entities' = entities
  BY <1>2 DEF vars, shared, Own, Match, Function, FunctionAt, To, From
<1> HIDE DEF x, y, l, u
<1>6. /\ applying' \in Apply /\ applying' # None
      /\ applying'.own = x /\ applying'.match = y /\ applying'.label = l
      /\ applying'.unnamed = u /\ applying'.at = "copy"
  BY <1>1, <1>2, <1>3, <1>4, SessionConstants DEF Apply
<1>7. ApplyIsOfResult'
  BY <1>3, <1>5, <1>6 DEF ApplyIsOfResult, x, y
<1>8. \A m \in Nodes : \A b \in Functions[m] : names'[m][b] # Placeholder
  BY <1>2 DEF Applied, PlaceholderPasses
<1>9. /\ u => names'[x[1]][x[2]] = None
      /\ ~u => names'[x[1]][x[2]] # None
      /\ names'[y[1]][y[2]] = None
  BY <1>2, <1>4 DEF NameOf
<1> QED
  BY <1>2, <1>6, <1>7, <1>8, <1>9 DEF Applied, NamesTyped, PlaceholderPasses, NameOf

LEMMA CopyNameStep ==
    ASSUME Ind, Linked, Applied, CopyName
    PROVE  Applied'
<1> DEFINE x == applying.own
           y == NameOf(applying.match)
           next == [applying EXCEPT !.at = "read"]
<1>1. /\ applying # None /\ applying.at = "copy" /\ UNCHANGED vars
      /\ applying' = IF applying.unnamed THEN next ELSE None
      /\ \/ y # None /\ SetName(x, y)
         \/ UNCHANGED names
         \/ NameOf(x) = None /\ SetName(x, Placeholder)
  BY DEF CopyName
<1>2. /\ applying \in Apply /\ x \in Nodes \X Nat /\ x[2] \in Functions[x[1]]
      /\ applying.unnamed \in BOOLEAN
  BY <1>1, FunctionsOfApply DEF Applied
<1>3. /\ next \in Apply /\ next.own = x /\ next.match = applying.match
      /\ next.label = applying.label /\ next.unnamed = applying.unnamed
      /\ next.at = "read"
  BY <1>2 DEF Apply
<1>4. /\ \A m \in Nodes : \A b \in Functions[m] : names[m][b] # Placeholder
      /\ applying.unnamed => NameOf(x) \in {None, Placeholder, UserName}
      /\ ~applying.unnamed => NameOf(x) # None
      /\ y \in {None, UserName}
      /\ x = <<x[1], x[2]>> /\ x[1] \in Nodes
  <2>1. /\ \A m \in Nodes : \A b \in Functions[m] : names[m][b] # Placeholder
        /\ applying.unnamed => NameOf(x) \in {None, Placeholder, UserName}
        /\ ~applying.unnamed => NameOf(x) # None
        /\ y \in {None, UserName}
    BY <1>1 DEF Applied, PlaceholderPasses
  <2> QED
    BY <1>2, <2>1
<1>5. ApplyIsOfResult'
  BY <1>1, <1>3, ApplyStays DEF Applied, SameApply
<1> HIDE DEF x, y, next
<1>6. ASSUME NEW z \in {Placeholder, UserName}, SetName(x, z)
      PROVE  /\ NamesTyped' /\ names'[x[1]][x[2]] = z
             /\ \A m \in Nodes : \A b \in Functions[m] :
                   names'[m][b] = Placeholder => z = Placeholder /\ <<m, b>> = x
  <2>1. z \in Symbol \cup {None}
    BY SymbolsDiffer
  <2>2. /\ NamesTyped' /\ names'[x[1]][x[2]] = z
        /\ \A m \in Nodes : \A b \in Functions[m] :
              <<m, b>> # x => names'[m][b] = names[m][b]
    BY <1>2, <1>6, <2>1, Named DEF Applied
  <2> QED
    BY <1>4, <2>2
<1>7. /\ NamesTyped'
      /\ \A m \in Nodes : \A b \in Functions[m] :
            names'[m][b] = Placeholder => applying.unnamed /\ <<m, b>> = x
      /\ applying.unnamed => names'[x[1]][x[2]] \in {None, Placeholder, UserName}
  <2>1. CASE y # None /\ SetName(x, y)
    <3>1. y = UserName
      BY <1>4, <2>1
    <3> QED
      BY <1>6, <2>1, <3>1, SymbolsDiffer
  <2>2. CASE UNCHANGED names
    <3>1. NameOf(x) = names[x[1]][x[2]]
      BY DEF NameOf
    <3> QED
      BY <1>4, <2>2, <3>1 DEF Applied, NamesTyped
  <2>3. CASE NameOf(x) = None /\ SetName(x, Placeholder) /\ applying.unnamed
    BY <1>6, <2>3
  <2> QED
    BY <1>1, <1>4, <2>1, <2>2, <2>3
<1>8. CASE applying.unnamed
  <2>1. /\ applying' = next /\ next # None /\ next.own = x
        /\ next.unnamed /\ next.at = "read"
    BY <1>1, <1>3, <1>8, SessionConstants
  <2>2. /\ applying' # None /\ applying'.own = x
        /\ applying'.unnamed /\ applying'.at = "read"
    BY <2>1
  <2>3. NameOf(applying.own)' \in {None, Placeholder, UserName}
    BY <1>7, <1>8, <2>2 DEF NameOf
  <2>4. PlaceholderPasses'
    BY <1>7, <2>2, <2>3 DEF PlaceholderPasses
  <2> QED
    BY <1>5, <1>7, <2>4 DEF Applied
<1>9. CASE ~applying.unnamed
  <2>1. PlaceholderPasses'
    BY <1>1, <1>7, <1>9 DEF PlaceholderPasses
  <2> QED
    BY <1>5, <1>7, <2>1 DEF Applied
<1> QED
  BY <1>8, <1>9

LEMMA ApplyFailsStep ==
    ASSUME Ind, Linked, Applied, ApplyFails
    PROVE  Applied'
<1>1. /\ names' = names /\ applying' = None /\ UNCHANGED vars
      /\ applying.at = "copy"
  BY DEF ApplyFails
<1>2. ApplyIsOfResult'
  BY <1>1, ApplyRests DEF Applied
<1>3. \A m \in Nodes : \A b \in Functions[m] : names[m][b] # Placeholder
  BY <1>1 DEF Applied, PlaceholderPasses
<1> QED
  BY <1>1, <1>2, <1>3 DEF Applied, NamesTyped, PlaceholderPasses

LEMMA ReadSymbolStep ==
    ASSUME Ind, Linked, Applied, ReadSymbol
    PROVE  Applied'
<1> DEFINE x == applying.own
           next == [applying EXCEPT !.at = "set", !.symbol = NameOf(applying.own)]
<1>1. /\ applying # None /\ applying.at = "read" /\ applying' = next
      /\ UNCHANGED vars /\ names' = names
  BY DEF ReadSymbol
<1>2. /\ applying \in Apply /\ x[1] \in Nodes /\ x[2] \in Functions[x[1]]
  BY <1>1, FunctionsOfApply DEF Applied
<1>3. NameOf(x) \in Symbol \cup {None}
  BY <1>2 DEF Applied, NamesTyped, NameOf
<1>4. /\ next \in Apply /\ next.own = x /\ next.match = applying.match
      /\ next.label = applying.label /\ next.unnamed = applying.unnamed
      /\ next.at = "set" /\ next.symbol = NameOf(x)
  BY <1>2, <1>3 DEF Apply
<1>5. next # None
  BY <1>4, SessionConstants
<1>6. ApplyIsOfResult'
  BY <1>1, <1>4, ApplyStays DEF Applied, SameApply
<1>7. /\ applying.unnamed
      /\ NameOf(x) \in {None, Placeholder, UserName}
      /\ \A m \in Nodes : \A b \in Functions[m] :
            names[m][b] = Placeholder => x = <<m, b>>
  BY <1>1 DEF Applied, PlaceholderPasses
<1> HIDE DEF x, next
<1>8. NameOf(x)' = NameOf(x) /\ x' = x
  <2>1. \A z : NameOf(z)' = names'[z[1]][z[2]] /\ NameOf(z) = names[z[1]][z[2]]
    BY DEF NameOf
  <2>2. x' = x
    BY <1>1, <1>4 DEF x
  <2> QED
    BY <1>1, <2>1, <2>2
<1>9. /\ NameOf(applying.own)' = NameOf(x)
      /\ applying'.own = x /\ applying'.unnamed /\ applying'.at = "set"
      /\ applying'.symbol = NameOf(x)
  <2>1. applying'.own = x
    BY <1>1, <1>4
  <2>2. NameOf(applying.own)' = names'[x[1]][x[2]] /\ NameOf(x) = names[x[1]][x[2]]
    BY <2>1 DEF NameOf
  <2> QED
    BY <1>1, <1>4, <1>7, <2>1, <2>2
<1>10. PlaceholderPasses'
  <2>1. \A m \in Nodes : \A b \in Functions[m] :
           names'[m][b] = Placeholder => applying'.own = <<m, b>>
    BY <1>1, <1>7, <1>9
  <2>2. /\ applying' # None /\ applying'.at # "copy"
        /\ applying'.symbol \in {None, Placeholder, UserName}
        /\ NameOf(applying.own)' = applying'.symbol
        /\ NameOf(applying.own)' \in {None, Placeholder, UserName}
    BY <1>1, <1>5, <1>7, <1>9
  <2> QED
    BY <1>9, <2>1, <2>2 DEF PlaceholderPasses
<1>11. NamesTyped'
  BY <1>1 DEF Applied, NamesTyped
<1> QED
  BY <1>6, <1>10, <1>11 DEF Applied

LEMMA FinishApplyStep ==
    ASSUME Ind, Linked, Applied, FinishApply
    PROVE  Applied'
<1> DEFINE x == applying.own
           symbol == applying.symbol
<1>1. /\ x \in Nodes \X Nat /\ x[2] \in Functions[x[1]] /\ x = <<x[1], x[2]>>
      /\ x[1] \in Nodes /\ applying # None /\ applying.at = "set"
      /\ applying.label \in Texts \cup {None}
  BY FunctionsOfApply DEF FinishApply, Applied
<1>2. /\ UNCHANGED vars /\ applying' = None
      /\ \/ /\ UNCHANGED names
            /\ ~(applying.label # None /\ (symbol = None \/ symbol.auto))
            /\ ~(/\ applying.label = None /\ symbol # None /\ symbol.auto
                 /\ NameOf(x) = symbol)
         \/ /\ applying.label # None
            /\ SetName(x, Name(applying.label, FALSE))
         \/ SetName(x, None)
  BY DEF FinishApply
<1>3. NameOf(x) = names[x[1]][x[2]]
  BY DEF NameOf
<1>4. /\ \A m \in Nodes : \A b \in Functions[m] :
            names[m][b] = Placeholder => <<m, b>> = x
      /\ symbol \in {None, Placeholder, UserName}
      /\ NameOf(x) \in {symbol, UserName}
  BY <1>1 DEF Applied, PlaceholderPasses
<1>5. ApplyIsOfResult'
  BY <1>2, ApplyRests DEF Applied
<1> HIDE DEF x, symbol
<1>6. NamesTyped' /\ \A m \in Nodes : \A b \in Functions[m] :
                        names'[m][b] # Placeholder
  <2>1. CASE /\ UNCHANGED names
             /\ ~(applying.label # None /\ (symbol = None \/ symbol.auto))
             /\ ~(/\ applying.label = None /\ symbol # None /\ symbol.auto
                  /\ NameOf(x) = symbol)
    <3>1. NameOf(x) # Placeholder
      <4>1. ASSUME NameOf(x) = Placeholder PROVE FALSE
        <5>1. symbol = Placeholder
          BY <1>4, <4>1, SymbolsDiffer
        <5>2. symbol # None /\ symbol.auto
          BY <5>1, SymbolsDiffer
        <5> QED
          BY <2>1, <4>1, <5>1, <5>2
      <4> QED
        BY <4>1
    <3> QED
      BY <1>3, <1>4, <2>1, <3>1 DEF Applied, NamesTyped
  <2>3. ASSUME NEW y \in Symbol \cup {None}, y # Placeholder, SetName(x, y)
        PROVE  NamesTyped' /\ \A m \in Nodes : \A b \in Functions[m] :
                                 names'[m][b] # Placeholder
    <3>1. /\ NamesTyped' /\ names'[x[1]][x[2]] = y
          /\ \A m \in Nodes : \A b \in Functions[m] :
                <<m, b>> # x => names'[m][b] = names[m][b]
      BY <1>1, <2>3, Named DEF Applied
    <3>2. \A m \in Nodes : \A b \in Functions[m] : names'[m][b] # Placeholder
      BY <1>4, <2>3, <3>1
    <3> QED
      BY <3>1, <3>2
  <2>4. CASE applying.label # None /\ SetName(x, Name(applying.label, FALSE))
    <3>1. applying.label \in Texts
      BY <1>1, <2>4
    <3> QED
      BY <2>3, <2>4, <3>1, SymbolsDiffer
  <2>5. CASE SetName(x, None)
    BY <2>3, <2>5, SymbolsDiffer
  <2> QED
    BY <1>2, <2>1, <2>4, <2>5
<1> QED
  BY <1>2, <1>5, <1>6 DEF Applied, PlaceholderPasses

LEMMA AppliedStep ==
    ASSUME Ind, Linked, Applied, [SessionNext]_<<vars, sessionVars>>
    PROVE  Applied'
<1>1. ASSUME [Next]_vars, UNCHANGED <<names, applying>> PROVE Applied'
  <2>1. ApplyIsOfResult'
    BY <1>1, ApplyRests DEF Applied
  <2> QED
    BY <1>1, <2>1 DEF Applied, NamesTyped, PlaceholderPasses, NameOf
<1>2. ASSUME NEW r \in results, Render(r) PROVE Applied'
  BY <1>1, <1>2 DEF Render
<1> QED
  BY <1>1, <1>2, RenameStep, ApplyNameStep, StartApplyStep, CopyNameStep,
     ApplyFailsStep, ReadSymbolStep, FinishApplyStep DEF SessionNext, sessionVars

(* The invariant of a session. *)
THEOREM SessionInvariance == SessionSpec => [](Ind /\ Linked /\ Applied)
<1>1. Ind /\ Linked /\ Applied /\ [SessionNext]_<<vars, sessionVars>> => Applied'
  BY AppliedStep
<1> QED
  BY <1>1, InitApplied, SessionVisits, Invariance, Linking, PTL DEF SessionSpec

-----------------------------------------------------------------------------
(* Names *)

(* The label of an apply is one of the function of its result. *)
LEMMA LabelOfApply ==
    ASSUME AddressesTellFunctions, Ind, Linked, Applied,
           applying # None, applying.label # None
    PROVE  \E r \in results :
              /\ Own(r) = applying.own
              /\ \E f \in Fids :
                    /\ Server[f] # None /\ applying.label = Target(f).label
                    /\ FunctionAt(From(r.visit), Target(f).offset) = Match(r)[2]
<1>1. PICK r \in results :
         /\ applying.own = Own(r)
         /\ \E f \in Fids :
               /\ Server[f] # None /\ applying.label = Target(f).label
               /\ Even(entities[From(r.visit)][r.target])
                     = Even(Target(f).offset)
  BY DEF Applied, ApplyIsOfResult
<1>2. PICK f \in Fids :
         /\ Server[f] # None /\ applying.label = Target(f).label
         /\ Even(entities[From(r.visit)][r.target]) = Even(Target(f).offset)
  BY <1>1
<1> DEFINE n == From(r.visit)
           a == entities[n][r.target]
<1>3. /\ r.visit \in Visits /\ Links(setup, r.visit, r, entities)
      /\ n = setup.from[r.visit] /\ n \in Nodes
  BY Ends DEF Linked, ResultsLink, Ind, From
<1>4. a \in Nat /\ HasFunction(n, a)
  BY <1>3 DEF Links, Linked, EntitiesAreFunctions, Ind, Shaped
<1>5. Target(f).offset \in Int /\ Tells(n, Target(f).offset)
  BY <1>2, <1>3, OffsetsAreAddresses DEF AddressesTellFunctions
<1>6. Match(r)[2] = FunctionAt(n, a)
  BY DEF Match, Function
<1> HIDE DEF n, a
<1>7. FunctionAt(n, a) = FunctionAt(n, Target(f).offset)
  BY <1>2, <1>3, <1>4, <1>5, TellsApart DEF n, a
<1> QED
  BY <1>1, <1>2, <1>6, <1>7 DEF n

(* Naming the function x changes the name of x alone. *)
LEMMA NamesOne ==
    ASSUME NamesTyped, NEW x \in Nodes \X Nat, x[2] \in Functions[x[1]],
           NEW y \in Symbol \cup {None}, SetName(x, y),
           NEW n \in Nodes, NEW a \in Functions[n]
    PROVE  \/ x # <<n, a>> /\ names'[n][a] = names[n][a]
           \/ x = <<n, a>> /\ names'[n][a] = y
<1>1. /\ names'[x[1]][x[2]] = y
      /\ \A m \in Nodes : \A b \in Functions[m] :
            <<m, b>> # x => names'[m][b] = names[m][b]
  BY Named
<1> QED
  BY <1>1

(* Every step keeps every name, or gives it up for a better one. *)
LEMMA KeepsNameStep ==
    ASSUME AddressesTellFunctions, Ind, Linked, Applied,
           [SessionNext]_<<vars, sessionVars>>,
           NEW n \in Nodes, NEW a \in Functions[n]
    PROVE  KeepsName(n, a)
<1>1. ASSUME names'[n][a] = names[n][a] PROVE KeepsName(n, a)
  BY <1>1 DEF KeepsName
<1>2. ASSUME NEW m \in Nodes, NEW b \in Functions[m], Rename(m, b)
      PROVE  KeepsName(n, a)
  <2> DEFINE x == <<m, b>>
  <2>1. x \in Nodes \X Nat /\ x[2] \in Functions[x[1]]
    BY VisitConstants
  <2>2. SetName(x, UserName)
    BY <1>2 DEF Rename
  <2> HIDE DEF x
  <2>3. names'[n][a] \in {names[n][a], UserName}
    BY <2>1, <2>2, NamesOne, SymbolsDiffer DEF Applied
  <2> QED
    BY <2>3 DEF KeepsName
<1>3. ASSUME NEW r \in results, ApplyName(r) PROVE KeepsName(n, a)
  <2>1. /\ Own(r) \in Nodes \X Nat /\ Own(r)[2] \in Functions[Own(r)[1]]
        /\ Match(r)[1] \in Nodes /\ Match(r)[2] \in Functions[Match(r)[1]]
    BY FunctionsOfResult
  <2>2. SetName(Own(r), NameOf(Match(r))) /\ NameOf(Match(r)) # None
    BY <1>3 DEF ApplyName
  <2>3. NameOf(Match(r)) \in Symbol
    BY <2>1, <2>2 DEF NameOf, Applied, NamesTyped
  <2>4. \/ names'[n][a] = names[n][a]
        \/ Own(r) = <<n, a>> /\ names'[n][a] = NameOf(Match(r))
    BY <2>1, <2>2, <2>3, NamesOne DEF Applied
  <2> QED
    BY <2>2, <2>4 DEF KeepsName
<1>4. ASSUME NEW r \in results, StartApply(r) PROVE KeepsName(n, a)
  BY <1>1, <1>4 DEF StartApply
<1>7. ASSUME CopyName PROVE KeepsName(n, a)
  <2> DEFINE x == applying.own
             y == NameOf(applying.match)
  <2>1. /\ x \in Nodes \X Nat /\ x[2] \in Functions[x[1]] /\ applying # None
        /\ applying.at = "copy"
    BY <1>7, FunctionsOfApply DEF CopyName, Applied
  <2>2. \/ y # None /\ SetName(x, y)
        \/ UNCHANGED names
        \/ NameOf(x) = None /\ SetName(x, Placeholder)
    BY <1>7 DEF CopyName
  <2>3. y \in {None, UserName}
    BY <2>1 DEF Applied, PlaceholderPasses
  <2>4. PICK r \in results : Own(r) = x
    BY <2>1 DEF Applied, ApplyIsOfResult
  <2>5. x = <<n, a>> => NameOf(x) = names[n][a]
    BY DEF NameOf
  <2> HIDE DEF x, y
  <2>6. \/ names'[n][a] \in {names[n][a], UserName}
        \/ x = <<n, a>> /\ NameOf(x) = None /\ names'[n][a] = Placeholder
    <3>1. ASSUME NEW z \in {Placeholder, UserName}, SetName(x, z)
          PROVE  \/ names'[n][a] = names[n][a]
                 \/ x = <<n, a>> /\ names'[n][a] = z
      <4>1. z \in Symbol \cup {None} /\ NamesTyped
        BY SymbolsDiffer DEF Applied
      <4> QED
        BY <2>1, <3>1, <4>1, NamesOne
    <3> QED
      BY <2>2, <2>3, <3>1
  <2> QED
    BY <2>4, <2>5, <2>6 DEF KeepsName
<1>5. ASSUME FinishApply PROVE KeepsName(n, a)
  <2> DEFINE x == applying.own
             symbol == applying.symbol
  <2>1. /\ x \in Nodes \X Nat /\ x[2] \in Functions[x[1]] /\ applying # None
        /\ applying.at = "set" /\ applying.label \in Texts \cup {None}
    BY <1>5, FunctionsOfApply DEF FinishApply, Applied
  <2>2. \/ UNCHANGED names
        \/ /\ applying.label # None /\ SetName(x, Name(applying.label, FALSE))
           /\ symbol = None \/ symbol.auto
        \/ /\ symbol # None /\ symbol.auto /\ NameOf(x) = symbol /\ SetName(x, None)
    BY <1>5 DEF FinishApply
  <2>3. symbol = None \/ symbol.auto => symbol \in {None, Placeholder}
    BY <2>1, SymbolsDiffer DEF Applied, PlaceholderPasses
  <2>4. x = <<n, a>> => NameOf(x) = names[n][a]
    BY DEF NameOf
  <2>5. \E r \in results : Own(r) = x
    BY <2>1 DEF Applied, ApplyIsOfResult
  <2>6. CASE /\ applying.label # None /\ SetName(x, Name(applying.label, FALSE))
             /\ symbol = None \/ symbol.auto
    <3> DEFINE y == Name(applying.label, FALSE)
    <3>1. y \in Symbol
      BY <2>1, <2>6, SymbolsDiffer
    <3>2. \/ names'[n][a] = names[n][a]
          \/ x = <<n, a>> /\ names'[n][a] = y
      <4> HIDE DEF x, symbol, y
      <4>1. NamesTyped /\ SetName(x, y)
        BY <2>6 DEF Applied, y
      <4> QED
        BY <2>1, <3>1, <4>1, NamesOne
    <3>3. PICK r \in results :
             /\ Own(r) = x
             /\ \E f \in Fids :
                   /\ Server[f] # None /\ applying.label = Target(f).label
                   /\ FunctionAt(From(r.visit), Target(f).offset) = Match(r)[2]
      BY <2>1, <2>6, LabelOfApply
    <3>4. x = <<n, a>> =>
             names[n][a] \in {None, Placeholder} \/ Overtaken(n, a)
      BY <2>1, <2>3, <2>6 DEF Overtaken
    <3> HIDE DEF x, symbol
    <3> QED
      BY <1>1, <2>6, <3>2, <3>3, <3>4 DEF KeepsName
  <2>7. CASE symbol # None /\ symbol.auto /\ NameOf(x) = symbol /\ SetName(x, None)
    <3> HIDE DEF x, symbol
    <3>1. \/ names'[n][a] = names[n][a]
          \/ x = <<n, a>> /\ names'[n][a] = None
      <4>1. None \in Symbol \cup {None} /\ NamesTyped /\ SetName(x, None)
        BY <2>7 DEF Applied
      <4> QED
        BY <2>1, <4>1, NamesOne
    <3> QED
      BY <1>1, <2>3, <2>4, <2>5, <2>7, <3>1 DEF KeepsName
  <2> QED
    BY <1>1, <2>2, <2>6, <2>7
<1>6. ASSUME UNCHANGED names PROVE KeepsName(n, a)
  BY <1>1, <1>6
<1> QED
  BY <1>2, <1>3, <1>4, <1>5, <1>6, <1>7
     DEF SessionNext, sessionVars, Render, ApplyFails, ReadSymbol

(* Where every address tells its function, a function that is named by an
   apply gets the other function's name or a label of the server for it; only a
   function without a symbol is named after a label, or one that is renamed
   between the apply's last look and the label; and the placeholder that an
   apply copies is gone when the apply ends: whatever is renamed and found
   meanwhile. *)
THEOREM NamesKept ==
    ASSUME AddressesTellFunctions
    PROVE  SessionSpec => NamesAreKept
<1>1. ASSUME Ind, Linked, Applied, Applied', [SessionNext]_<<vars, sessionVars>>
      PROVE  \A n \in Nodes : \A a \in Functions[n] :
                /\ KeepsName(n, a)
                /\ applying' = None => names'[n][a] # Placeholder
  BY <1>1, KeepsNameStep DEF Applied, PlaceholderPasses
<1>2. /\ Ind /\ Linked /\ Applied /\ (Ind /\ Linked /\ Applied)'
      /\ [SessionNext]_<<vars, sessionVars>>
      => [\A n \in Nodes : \A a \in Functions[n] :
             /\ KeepsName(n, a)
             /\ applying' = None => names'[n][a] # Placeholder
         ]_<<names, applying>>
  BY <1>1
<1> QED
  BY <1>2, SessionInvariance, PTL DEF SessionSpec, NamesAreKept

(* Induction over a size: what is good when all that is smaller is, is good. *)
LEMMA SizeInduction ==
    ASSUME NEW D, NEW size \in [D -> Nat], NEW good,
           \A d \in D : (\A c \in D : size[c] < size[d] => c \in good) => d \in good
    PROVE  D \subseteq good
<1> SUFFICES ASSUME ~(D \subseteq good) PROVE FALSE
  OBVIOUS
<1> DEFINE sizes == {size[d] : d \in D \ good}
<1>1. sizes \in SUBSET Nat /\ sizes # {}
  OBVIOUS
<1>2. PICK k \in sizes : \A l \in sizes : k <= l
  <2> HIDE DEF sizes
  <2> QED
    BY <1>1, LeastExists
<1>3. PICK d \in D \ good : size[d] = k
  OBVIOUS
<1>4. ASSUME NEW c \in D, size[c] < size[d] PROVE c \in good
  <2> SUFFICES ASSUME c \notin good PROVE FALSE
    OBVIOUS
  <2>1. size[c] \in sizes
    OBVIOUS
  <2> HIDE DEF sizes
  <2>2. k <= size[c] /\ size[c] < k
    BY <1>2, <1>3, <1>4, <2>1
  <2>3. k \in Nat /\ size[c] \in Nat
    BY <1>1
  <2> QED
    BY <2>2, <2>3
<1> QED
  BY <1>3, <1>4

(* A function may be defined by recursion towards smaller arguments. *)
Recursive(D, V, n, size, base, stop, left, right, step) ==
    /\ n \in Nat /\ size \in [D -> 0..n] /\ base \in V
    /\ left \in [D -> D] /\ right \in [D -> D] /\ step \in [D \X V \X V -> V]
    /\ \A d \in D \ stop : size[left[d]] < size[d] /\ size[right[d]] < size[d]

Solution(f, D, base, stop, left, right, step) ==
    \A d \in D : f[d] = IF d \in stop THEN base
                       ELSE step[<<d, f[left[d]], f[right[d]]>>]

LEMMA RecursionExists ==
    ASSUME NEW D, NEW V, NEW n, NEW size, NEW base, NEW stop, NEW left,
           NEW right, NEW step,
           Recursive(D, V, n, size, base, stop, left, right, step)
    PROVE  \E f \in [D -> V] : Solution(f, D, base, stop, left, right, step)
<1> USE DEF Recursive
<1> DEFINE E(f, d) == IF d \in stop THEN base
                      ELSE step[<<d, f[left[d]], f[right[d]]>>]
           Solved == {k \in Nat : \E f \in [D -> V] : \A d \in D :
                                     size[d] < k => f[d] = E(f, d)}
<1>1. 0 \in Solved
  <2> DEFINE f == [d \in D |-> base]
  <2>1. f \in [D -> V]
    OBVIOUS
  <2>2. \A d \in D : ~(size[d] < 0)
    OBVIOUS
  <2> QED
    BY <2>1, <2>2
<1>2. ASSUME NEW k \in Nat, k \in Solved PROVE k + 1 \in Solved
  <2>1. PICK f \in [D -> V] : \A d \in D : size[d] < k => f[d] = E(f, d)
    BY <1>2
  <2> DEFINE g == [d \in D |-> E(f, d)]
  <2>2. \A d \in D : E(f, d) \in V
    OBVIOUS
  <2>3. g \in [D -> V]
    BY <2>2
  <2>4. ASSUME NEW d \in D, size[d] < k + 1, d \notin stop
        PROVE  g[left[d]] = f[left[d]] /\ g[right[d]] = f[right[d]]
    <3>1. /\ left[d] \in D /\ right[d] \in D
          /\ size[left[d]] < k /\ size[right[d]] < k
      BY <2>4
    <3> QED
      BY <2>1, <3>1
  <2>5. \A d \in D : size[d] < k + 1 => g[d] = E(g, d)
    BY <2>4
  <2> HIDE DEF g
  <2> QED
    BY <2>3, <2>5
<1>3. Nat \subseteq Solved
  <2> DEFINE T == Nat \ Solved
  <2> SUFFICES ASSUME T # {} PROVE FALSE
    OBVIOUS
  <2> HIDE DEF Solved
  <2>1. PICK k \in T : \A l \in T : k <= l
    BY LeastExists
  <2>2. k \in Nat /\ k # 0 /\ k \notin Solved
    BY <1>1
  <2>3. k - 1 \in Nat /\ k = (k - 1) + 1 /\ ~(k <= k - 1)
    BY <2>2
  <2>4. k - 1 \in Solved
    BY <2>1, <2>3
  <2> QED
    BY <1>2, <2>2, <2>3, <2>4
<1>4. n + 1 \in Solved
  <2> HIDE DEF Solved
  <2> QED
    BY <1>3
<1>5. PICK f \in [D -> V] : \A d \in D : size[d] < n + 1 => f[d] = E(f, d)
  BY <1>4
<1>6. \A d \in D : size[d] < n + 1
  OBVIOUS
<1> QED
  BY <1>5, <1>6 DEF Solution

-----------------------------------------------------------------------------
(* What is painted *)

(* Of some common runs there is a longest, first in one and in the other. *)
LEMMA LongestExists ==
    ASSUME NEW n \in Nat, NEW runs \in SUBSET (Nat \X Nat \X (1..n)), runs # {}
    PROVE  LongestRun(runs) \in runs
<1> DEFINE Lengths == {r[3] : r \in runs}
<1>1. PICK x \in Lengths : \A y \in Lengths : y <= x
  <2>1. Lengths \in SUBSET (1..n) /\ Lengths # {}
    OBVIOUS
  <2> HIDE DEF Lengths
  <2> QED
    BY <2>1, GreatestExists
<1> DEFINE Firsts == {r[1] : r \in {q \in runs : q[3] = x}}
<1>2. PICK i \in Firsts : \A y \in Firsts : i <= y
  <2>1. Firsts \in SUBSET Nat /\ Firsts # {}
    OBVIOUS
  <2> HIDE DEF Firsts
  <2> QED
    BY <2>1, LeastExists
<1> DEFINE Seconds == {r[2] : r \in {q \in runs : q[3] = x /\ q[1] = i}}
<1>3. PICK j \in Seconds : \A y \in Seconds : j <= y
  <2>1. Seconds \in SUBSET Nat /\ Seconds # {}
    OBVIOUS
  <2> HIDE DEF Seconds
  <2> QED
    BY <2>1, LeastExists
<1>4. PICK r \in runs : r[3] = x /\ r[1] = i /\ r[2] = j
  OBVIOUS
<1>5. ASSUME NEW q \in runs \ {r}
      PROVE  \/ r[3] > q[3]
             \/ r[3] = q[3] /\ r[1] < q[1]
             \/ r[3] = q[3] /\ r[1] = q[1] /\ r[2] < q[2]
  <2>1. /\ r[1] \in Nat /\ r[2] \in Nat /\ r[3] \in Nat
        /\ q[1] \in Nat /\ q[2] \in Nat /\ q[3] \in Nat
        /\ r[1] # q[1] \/ r[2] # q[2] \/ r[3] # q[3]
    OBVIOUS
  <2>2. q[3] <= r[3]
    BY <1>1, <1>4
  <2>3. q[3] = r[3] => r[1] <= q[1]
    BY <1>2, <1>4
  <2>4. q[3] = r[3] /\ q[1] = r[1] => r[2] <= q[2]
    BY <1>3, <1>4
  <2> QED
    BY <2>1, <2>2, <2>3, <2>4
<1> QED
  BY <1>4, <1>5 DEF LongestRun

(* Pairs of which no two share an end. *)
OneToOne(ps) == \A p, q \in ps : p[1] = q[1] \/ p[2] = q[2] => p = q

(* ... and that are in one order on both sides. *)
InOrder(ps) == \A p, q \in ps : p[1] < q[1] => p[2] < q[2]

(* What is aligned is equal, within both sequences, aligned once and in order. *)
LEMMA AlignedIsEqual ==
    ASSUME NEW a, NEW b, NEW m \in Nat, NEW n \in Nat,
           DOMAIN a = 1..m, DOMAIN b = 1..n
    PROVE  /\ Aligned(a, b) \subseteq
                 {p \in (DOMAIN a) \X (DOMAIN b) : a[p[1]] = b[p[2]]}
           /\ OneToOne(Aligned(a, b)) /\ InOrder(Aligned(a, b))
<1> DEFINE Before(W, x) == {k \in W : k < x}
           After(W, x) == {k \in W : k >= x}
           D == (SUBSET DOMAIN a) \X (SUBSET DOMAIN b)
           runs(W) == Runs(a, b, W[1], W[2])
           run(W) == LongestRun(runs(W))
           Diagonal(r) == {<<r[1] + k, r[2] + k>> : k \in 0..(r[3] - 1)}
           size == [W \in D |-> Cardinality(W[1])]
           V == SUBSET {p \in (DOMAIN a) \X (DOMAIN b) : a[p[1]] = b[p[2]]}
           stop == {W \in D : runs(W) = {}}
           left == [W \in D |-> <<Before(W[1], run(W)[1]), Before(W[2], run(W)[2])>>]
           right == [W \in D |-> <<After(W[1], run(W)[1] + run(W)[3]),
                                   After(W[2], run(W)[2] + run(W)[3])>>]
           step == [x \in D \X V \X V |->
                      (IF x[1] \in stop THEN {} ELSE Diagonal(run(x[1])))
                      \cup x[2] \cup x[3]]
<1>1. ASSUME NEW W \in D
      PROVE  IsFiniteSet(W[1]) /\ Cardinality(W[1]) \in 0..m
  <2>1. IsFiniteSet(1..m) /\ Cardinality(1..m) = m
    BY FS_Interval
  <2>2. W[1] \in SUBSET (1..m)
    OBVIOUS
  <2>3. IsFiniteSet(W[1]) /\ Cardinality(W[1]) <= m
    BY <2>1, <2>2, FS_Subset
  <2> QED
    BY <2>3, FS_CardinalityType
<1>2. ASSUME NEW W \in D \ stop
      PROVE  LET r == run(W)
             IN /\ r[1] \in W[1] /\ r[2] \in W[2] /\ r[3] \in Nat \ {0}
                /\ Diagonal(r) \in V
                /\ Diagonal(r) \subseteq W[1] \X W[2]
                /\ OneToOne(Diagonal(r)) /\ InOrder(Diagonal(r))
                /\ \A p \in Diagonal(r) : /\ r[1] <= p[1] /\ p[1] < r[1] + r[3]
                                          /\ r[2] <= p[2] /\ p[2] < r[2] + r[3]
  <2>1. runs(W) \subseteq W[1] \X W[2] \X (1..Cardinality(W[1])) /\ runs(W) # {}
    BY DEF Runs
  <2>2. Cardinality(W[1]) \in Nat
    BY <1>1
  <2>3. runs(W) \in SUBSET (Nat \X Nat \X (1..Cardinality(W[1])))
    BY <2>1
  <2>4. run(W) \in runs(W)
    <3> HIDE DEF runs
    <3> QED
      BY <2>1, <2>2, <2>3, LongestExists
  <2> DEFINE r == run(W)
  <2>5. /\ r[1] \in W[1] /\ r[2] \in W[2] /\ r[3] \in 1..Cardinality(W[1])
        /\ \A k \in 0..(r[3] - 1) : /\ r[1] + k \in W[1] /\ r[2] + k \in W[2]
                                    /\ a[r[1] + k] = b[r[2] + k]
    BY <2>4 DEF Runs
  <2> HIDE DEF r, runs, stop
  <2>6. Diagonal(r) \in V /\ Diagonal(r) \subseteq W[1] \X W[2]
    <3>1. W[1] \subseteq DOMAIN a /\ W[2] \subseteq DOMAIN b
      OBVIOUS
    <3>2. Diagonal(r) \subseteq W[1] \X W[2]
      BY <2>5
    <3>3. \A p \in Diagonal(r) : a[p[1]] = b[p[2]]
      BY <2>5
    <3> HIDE DEF Diagonal
    <3> QED
      BY <3>1, <3>2, <3>3
  <2>7. r[1] \in Nat /\ r[2] \in Nat /\ r[3] \in Nat \ {0}
    BY <2>2, <2>5
  <2>8. \A p \in Diagonal(r) : \E k \in 0..(r[3] - 1) :
           p = <<r[1] + k, r[2] + k>> /\ p[1] = r[1] + k /\ p[2] = r[2] + k
    OBVIOUS
  <2>9. OneToOne(Diagonal(r))
    <3> HIDE DEF Diagonal
    <3>1. ASSUME NEW p \in Diagonal(r), NEW q \in Diagonal(r),
                 p[1] = q[1] \/ p[2] = q[2]
          PROVE  p = q
      <4>1. PICK k \in 0..(r[3] - 1) :
               p = <<r[1] + k, r[2] + k>> /\ p[1] = r[1] + k /\ p[2] = r[2] + k
        BY <2>8
      <4>2. PICK l \in 0..(r[3] - 1) :
               q = <<r[1] + l, r[2] + l>> /\ q[1] = r[1] + l /\ q[2] = r[2] + l
        BY <2>8
      <4> HIDE DEF r
      <4>3. k = l
        BY <2>7, <3>1, <4>1, <4>2
      <4> QED
        BY <4>1, <4>2, <4>3
    <3> QED
      BY <3>1 DEF OneToOne
  <2>11. InOrder(Diagonal(r))
    <3> HIDE DEF Diagonal
    <3>1. ASSUME NEW p \in Diagonal(r), NEW q \in Diagonal(r), p[1] < q[1]
          PROVE  p[2] < q[2]
      <4>1. PICK k \in 0..(r[3] - 1) : p[1] = r[1] + k /\ p[2] = r[2] + k
        BY <2>8
      <4>2. PICK l \in 0..(r[3] - 1) : q[1] = r[1] + l /\ q[2] = r[2] + l
        BY <2>8
      <4> HIDE DEF r
      <4> QED
        BY <2>7, <3>1, <4>1, <4>2
    <3> QED
      BY <3>1 DEF InOrder
  <2>10. \A p \in Diagonal(r) : /\ r[1] <= p[1] /\ p[1] < r[1] + r[3]
                                /\ r[2] <= p[2] /\ p[2] < r[2] + r[3]
    <3> HIDE DEF Diagonal
    <3>1. ASSUME NEW p \in Diagonal(r)
          PROVE  /\ r[1] <= p[1] /\ p[1] < r[1] + r[3]
                 /\ r[2] <= p[2] /\ p[2] < r[2] + r[3]
      <4>1. PICK k \in 0..(r[3] - 1) : p[1] = r[1] + k /\ p[2] = r[2] + k
        BY <2>8
      <4> HIDE DEF r
      <4> QED
        BY <2>7, <4>1
    <3> QED
      BY <3>1
  <2> HIDE DEF Diagonal
  <2> QED
    BY <2>5, <2>6, <2>7, <2>9, <2>10, <2>11 DEF r
<1>3. /\ size \in [D -> 0..m] /\ {} \in V
      /\ left \in [D -> D] /\ right \in [D -> D]
  <2>1. \A W \in D : Cardinality(W[1]) \in 0..m
    BY <1>1
  <2>2. \A W \in D : left[W] \in D /\ right[W] \in D
    OBVIOUS
  <2> QED
    BY <2>1, <2>2
<1>4. ASSUME NEW W \in D \ stop
      PROVE  size[left[W]] < size[W] /\ size[right[W]] < size[W]
  <2> DEFINE r == run(W)
             whole == W[1]
             before == Before(W[1], r[1])
             after == After(W[1], r[1] + r[3])
  <2>1. r[1] \in W[1] /\ r[1] \in Nat /\ r[3] \in Nat \ {0}
    <3>1. W[1] \subseteq Nat
      OBVIOUS
    <3> HIDE DEF Diagonal, run, stop, V, D
    <3> QED
      BY <1>2, <3>1
  <2>2. size[W] = Cardinality(whole) /\ IsFiniteSet(whole)
    BY <1>1
  <2>3. /\ size[left[W]] = Cardinality(before)
        /\ size[right[W]] = Cardinality(after)
    <3>1. left[W] \in D /\ right[W] \in D
      BY <1>3
    <3>2. left[W][1] = before /\ right[W][1] = after
      OBVIOUS
    <3> HIDE DEF left, right
    <3> QED
      BY <3>1, <3>2
  <2>4. before \in SUBSET whole /\ after \in SUBSET whole
    OBVIOUS
  <2>5. r[1] \notin before /\ r[1] \notin after
    <3> HIDE DEF r
    <3> QED
      BY <2>1
  <2>6. Cardinality(before) < Cardinality(whole)
    <3> HIDE DEF before, whole
    <3>1. before # whole
      BY <2>1, <2>5 DEF whole
    <3>2. /\ Cardinality(before) <= Cardinality(whole)
          /\ Cardinality(before) # Cardinality(whole)
          /\ IsFiniteSet(before)
      BY <2>2, <2>4, <3>1, FS_Subset
    <3>3. Cardinality(before) \in Nat /\ Cardinality(whole) \in Nat
      BY <2>2, <3>2, FS_CardinalityType
    <3> QED
      BY <3>2, <3>3
  <2>7. Cardinality(after) < Cardinality(whole)
    <3> HIDE DEF after, whole
    <3>1. after # whole
      BY <2>1, <2>5 DEF whole
    <3>2. /\ Cardinality(after) <= Cardinality(whole)
          /\ Cardinality(after) # Cardinality(whole)
          /\ IsFiniteSet(after)
      BY <2>2, <2>4, <3>1, FS_Subset
    <3>3. Cardinality(after) \in Nat /\ Cardinality(whole) \in Nat
      BY <2>2, <3>2, FS_CardinalityType
    <3> QED
      BY <3>2, <3>3
  <2> QED
    BY <2>2, <2>3, <2>6, <2>7
<1>5. step \in [D \X V \X V -> V]
  <2>1. ASSUME NEW W \in D, NEW y \in V, NEW z \in V
        PROVE  (IF W \in stop THEN {} ELSE Diagonal(run(W))) \cup y \cup z \in V
    <3>1. W \notin stop => Diagonal(run(W)) \in V
      <4> HIDE DEF D, V, stop, Diagonal, run
      <4> QED
        BY <1>2
    <3> HIDE DEF stop, Diagonal, run
    <3> QED
      BY <3>1
  <2> HIDE DEF stop, V, D, Diagonal, run
  <2>2. \A x \in D \X V \X V : x[1] \in D /\ x[2] \in V /\ x[3] \in V
    OBVIOUS
  <2> QED
    BY <2>1, <2>2
<1> DEFINE Body(f) == [W \in D |->
               IF runs(W) = {} THEN {}
               ELSE Diagonal(run(W))
                    \cup f[<<Before(W[1], run(W)[1]), Before(W[2], run(W)[2])>>]
                    \cup f[<<After(W[1], run(W)[1] + run(W)[3]),
                            After(W[2], run(W)[2] + run(W)[3])>>]]
<1>6. PICK f \in [D -> V] : f = Body(f)
  <2>1. PICK f \in [D -> V] : \A W \in D :
           f[W] = IF W \in stop THEN {} ELSE step[<<W, f[left[W]], f[right[W]]>>]
    <3> HIDE DEF D, V, size, stop, left, right, step
    <3>1. Recursive(D, V, m, size, {}, stop, left, right, step)
      BY <1>3, <1>4, <1>5 DEF Recursive
    <3>2. \E f \in [D -> V] : Solution(f, D, {}, stop, left, right, step)
      BY <3>1, RecursionExists
    <3> QED
      BY <3>2 DEF Solution
  <2>2. ASSUME NEW W \in D PROVE f[W] = Body(f)[W]
    <3>1. CASE W \in stop
      BY <2>1, <3>1
    <3>2. CASE W \notin stop
      <4>1. left[W] \in D /\ right[W] \in D
        BY <1>3
      <4>2. <<W, f[left[W]], f[right[W]]>> \in D \X V \X V
        BY <4>1
      <4>3. f[W] = Diagonal(run(W)) \cup f[left[W]] \cup f[right[W]]
        <5>1. f[W] = step[<<W, f[left[W]], f[right[W]]>>]
          BY <2>1, <3>2
        <5>2. \A x \in D \X V \X V :
                 x[1] \notin stop =>
                    step[x] = Diagonal(run(x[1])) \cup x[2] \cup x[3]
          OBVIOUS
        <5> HIDE DEF D, V, stop, left, right, step, run, Diagonal
        <5> QED
          BY <3>2, <4>2, <5>1, <5>2
      <4> QED
        BY <3>2, <4>3
    <3> QED
      BY <3>1, <3>2
  <2>3. Body(f) = [W \in D |-> Body(f)[W]] /\ f = [W \in D |-> f[W]]
    OBVIOUS
  <2> HIDE DEF Body
  <2> QED
    BY <2>2, <2>3
<1> DEFINE In == CHOOSE x : x = Body(x)
           good == {W \in D : /\ In[W] \in V /\ In[W] \subseteq W[1] \X W[2]
                              /\ OneToOne(In[W]) /\ InOrder(In[W])}
<1>7. Aligned(a, b) = In[<<DOMAIN a, DOMAIN b>>]
  BY DEF Aligned
<1>8. In = Body(In)
  <2> HIDE DEF Body
  <2> QED
    BY <1>6
<1>9. ASSUME NEW W \in D, \A U \in D : size[U] < size[W] => U \in good
      PROVE  W \in good
  <2>1. In[W] = Body(In)[W]
    BY <1>8
  <2> HIDE DEF In
  <2>2. CASE W \in stop
    BY <2>1, <2>2 DEF OneToOne, InOrder
  <2>3. CASE W \notin stop
    <3> DEFINE r == run(W)
               low == In[left[W]]
               high == In[right[W]]
               mid == Diagonal(r)
    <3>1. /\ low \in V /\ OneToOne(low) /\ InOrder(low)
          /\ low \subseteq Before(W[1], r[1]) \X Before(W[2], r[2])
          /\ high \in V /\ OneToOne(high) /\ InOrder(high)
          /\ high \subseteq After(W[1], r[1] + r[3]) \X After(W[2], r[2] + r[3])
      <4>1. /\ left[W] \in D /\ right[W] \in D
            /\ size[left[W]] < size[W] /\ size[right[W]] < size[W]
        BY <1>3, <1>4, <2>3
      <4>2. left[W] \in good /\ right[W] \in good
        <5> HIDE DEF D, size, left, right, good
        <5> QED
          BY <1>9, <4>1
      <4>3. /\ left[W] = <<Before(W[1], r[1]), Before(W[2], r[2])>>
            /\ right[W] = <<After(W[1], r[1] + r[3]), After(W[2], r[2] + r[3])>>
        OBVIOUS
      <4> HIDE DEF left, right, r, V, Before, After
      <4> QED
        BY <4>2, <4>3
    <3>2. In[W] = mid \cup low \cup high
      BY <2>1, <2>3
    <3>3. /\ r[1] \in W[1] /\ r[2] \in W[2] /\ r[3] \in Nat \ {0}
          /\ mid \in V /\ mid \subseteq W[1] \X W[2]
          /\ OneToOne(mid) /\ InOrder(mid)
          /\ \A p \in mid : /\ r[1] <= p[1] /\ p[1] < r[1] + r[3]
                            /\ r[2] <= p[2] /\ p[2] < r[2] + r[3]
      <4> HIDE DEF D, V, Diagonal, run, stop
      <4> QED
        BY <1>2, <2>3
    <3>4. W[1] \subseteq Nat /\ W[2] \subseteq Nat
      OBVIOUS
    <3>5. /\ low \subseteq W[1] \X W[2] /\ high \subseteq W[1] \X W[2]
          /\ \A p \in low : p[1] < r[1] /\ p[2] < r[2]
          /\ \A p \in high : p[1] >= r[1] + r[3] /\ p[2] >= r[2] + r[3]
      <4> HIDE DEF low, high, r
      <4> QED
        BY <3>1
    <3> HIDE DEF low, mid, high, r, Before, After, V, D
    <3>6. OneToOne(mid \cup low \cup high)
      <4> DEFINE all == mid \cup low \cup high
      <4>1. ASSUME NEW p \in all, NEW q \in all, p[1] = q[1] \/ p[2] = q[2]
            PROVE  p = q
        <5>1. /\ p[1] \in Nat /\ p[2] \in Nat /\ q[1] \in Nat /\ q[2] \in Nat
              /\ r[1] \in Nat /\ r[2] \in Nat /\ r[3] \in Nat \ {0}
          BY <3>3, <3>4, <3>5
        <5>2. \A h, k \in Nat : h + k \in Nat /\ h + k >= h
          OBVIOUS
        <5>3. ASSUME NEW x \in mid, NEW y \in low PROVE x[1] # y[1] /\ x[2] # y[2]
          <6>1. /\ x[1] \in Nat /\ x[2] \in Nat /\ r[1] <= x[1] /\ r[2] <= x[2]
                /\ y[1] \in Nat /\ y[2] \in Nat /\ y[1] < r[1] /\ y[2] < r[2]
            BY <3>3, <3>4, <3>5
          <6> QED
            BY <5>1, <6>1
        <5>4. ASSUME NEW x \in mid, NEW y \in high PROVE x[1] # y[1] /\ x[2] # y[2]
          <6>1. /\ x[1] \in Nat /\ x[2] \in Nat
                /\ x[1] < r[1] + r[3] /\ x[2] < r[2] + r[3]
                /\ y[1] \in Nat /\ y[2] \in Nat
                /\ y[1] >= r[1] + r[3] /\ y[2] >= r[2] + r[3]
            BY <3>3, <3>4, <3>5
          <6>2. /\ r[1] + r[3] \in Nat /\ r[2] + r[3] \in Nat
            BY <5>1, <5>2
          <6>3. \A h, i, j \in Nat : h < i /\ j >= i => h # j
            OBVIOUS
          <6> QED
            BY <6>1, <6>2, <6>3
        <5>5. ASSUME NEW x \in low, NEW y \in high PROVE x[1] # y[1] /\ x[2] # y[2]
          <6>1. /\ x[1] \in Nat /\ x[2] \in Nat /\ x[1] < r[1] /\ x[2] < r[2]
                /\ y[1] \in Nat /\ y[2] \in Nat
                /\ y[1] >= r[1] + r[3] /\ y[2] >= r[2] + r[3]
            BY <3>4, <3>5
          <6>2. /\ r[1] + r[3] \in Nat /\ r[1] + r[3] >= r[1]
                /\ r[2] + r[3] \in Nat /\ r[2] + r[3] >= r[2]
            BY <5>1, <5>2
          <6>3. \A h, i, j, k \in Nat : h < i /\ j >= i /\ k >= j => h # k
            OBVIOUS
          <6> QED
            BY <5>1, <6>1, <6>2, <6>3
        <5>6. \/ p \in mid /\ q \in mid
              \/ p \in low /\ q \in low
              \/ p \in high /\ q \in high
          BY <4>1, <5>3, <5>4, <5>5
        <5> QED
          BY <3>1, <3>3, <4>1, <5>6 DEF OneToOne
      <4> QED
        BY <4>1 DEF OneToOne
    <3>9. InOrder(mid \cup low \cup high)
      <4> DEFINE all == mid \cup low \cup high
      <4>1. /\ r[1] \in Nat /\ r[2] \in Nat /\ r[3] \in Nat
            /\ r[1] + r[3] \in Nat /\ r[2] + r[3] \in Nat
            /\ r[1] <= r[1] + r[3] /\ r[2] <= r[2] + r[3]
        <5>1. \A h, k \in Nat : h + k \in Nat /\ h <= h + k
          OBVIOUS
        <5> QED
          BY <3>3, <3>4, <5>1
      <4>2. \A x \in mid \cup low \cup high : x[1] \in Nat /\ x[2] \in Nat
        BY <3>3, <3>4, <3>5
      <4>3. /\ \A x \in low, y \in mid : x[1] < y[1] /\ x[2] < y[2]
            /\ \A x \in mid, y \in high : x[1] < y[1] /\ x[2] < y[2]
            /\ \A x \in low, y \in high : x[1] < y[1] /\ x[2] < y[2]
        <5> DEFINE s1 == r[1] + r[3]
                   s2 == r[2] + r[3]
        <5>1. /\ s1 \in Nat /\ s2 \in Nat /\ r[1] <= s1 /\ r[2] <= s2
              /\ \A x \in low : x[1] < r[1] /\ x[2] < r[2]
              /\ \A x \in high : s1 <= x[1] /\ s2 <= x[2]
              /\ \A x \in mid : r[1] <= x[1] /\ x[1] < s1 /\ r[2] <= x[2] /\ x[2] < s2
          BY <3>3, <3>5, <4>1
        <5> HIDE DEF s1, s2, low, mid, high
        <5>2. /\ \A h, i, j \in Nat : h < i /\ i <= j => h < j
              /\ \A h, i, j, k \in Nat : h < i /\ i <= j /\ j <= k => h < k
          OBVIOUS
        <5>3. ASSUME NEW x \in low, NEW y \in mid PROVE x[1] < y[1] /\ x[2] < y[2]
          <6>1. /\ x[1] \in Nat /\ x[2] \in Nat /\ y[1] \in Nat /\ y[2] \in Nat
                /\ x[1] < r[1] /\ r[1] <= y[1] /\ x[2] < r[2] /\ r[2] <= y[2]
            BY <4>2, <5>1
          <6> QED
            BY <4>1, <5>2, <6>1
        <5>4. ASSUME NEW x \in mid, NEW y \in high PROVE x[1] < y[1] /\ x[2] < y[2]
          <6>1. /\ x[1] \in Nat /\ x[2] \in Nat /\ y[1] \in Nat /\ y[2] \in Nat
                /\ x[1] < s1 /\ s1 <= y[1] /\ x[2] < s2 /\ s2 <= y[2]
            BY <4>2, <5>1
          <6> QED
            BY <5>1, <5>2, <6>1
        <5>5. ASSUME NEW x \in low, NEW y \in high PROVE x[1] < y[1] /\ x[2] < y[2]
          <6>1. /\ x[1] \in Nat /\ x[2] \in Nat /\ y[1] \in Nat /\ y[2] \in Nat
                /\ x[1] < r[1] /\ s1 <= y[1] /\ x[2] < r[2] /\ s2 <= y[2]
            BY <4>2, <5>1
          <6> QED
            BY <4>1, <5>1, <5>2, <6>1
        <5> QED
          BY <5>3, <5>4, <5>5
      <4>4. ASSUME NEW p \in all, NEW q \in all, p[1] < q[1] PROVE p[2] < q[2]
        <5>1. \A h, k \in Nat : h < k => ~(k < h)
          OBVIOUS
        <5>2. /\ p[1] \in Nat /\ q[1] \in Nat
              /\ ~(q[1] < p[1])
          BY <4>2, <4>4, <5>1
        <5>3. \/ p \in mid /\ q \in mid
              \/ p \in low /\ q \in low
              \/ p \in high /\ q \in high
              \/ p[2] < q[2]
          BY <4>3, <4>4, <5>2
        <5> QED
          BY <3>1, <3>3, <4>4, <5>3 DEF InOrder
      <4> QED
        BY <4>4 DEF InOrder
    <3>7. mid \cup low \cup high \in V
      BY <3>1, <3>3 DEF V
    <3>8. mid \cup low \cup high \subseteq W[1] \X W[2]
      BY <3>3, <3>5
    <3> QED
      BY <3>2, <3>6, <3>7, <3>8, <3>9
  <2> QED
    BY <2>2, <2>3
<1>10. <<DOMAIN a, DOMAIN b>> \in good
  <2>1. \A W \in D : (\A U \in D : size[U] < size[W] => U \in good) => W \in good
    <3> HIDE DEF D, size, good
    <3> QED
      BY <1>9
  <2>2. size \in [D -> Nat]
    BY <1>3
  <2>3. <<DOMAIN a, DOMAIN b>> \in D
    OBVIOUS
  <2> HIDE DEF D, size, good
  <2> QED
    BY <2>1, <2>2, <2>3, SizeInduction
<1> QED
  BY <1>7, <1>10

(* A sequence of sequences makes one sequence, one after the other. *)
Joins(upto, s) ==
    /\ upto[0] = << >> /\ upto[Len(s)] = FlattenSeq(s)
    /\ \A k \in 1..Len(s) : upto[k] = upto[k - 1] \o s[k]

LEMMA Joined ==
    ASSUME NEW T, NEW s \in Seq(Seq(T))
    PROVE  \E upto \in [0..Len(s) -> Seq(T)] : Joins(upto, s)
<1> DEFINE n == Len(s)
           D == 1..n
           V == Seq(T)
           size == [i \in D |-> i]
           base == s[1]
           left == [i \in D |-> IF i = 1 THEN 1 ELSE i - 1]
           step == [x \in D \X V \X V |-> x[2] \o s[x[1]]]
           Body(f) == [i \in D |-> IF i = 1 THEN s[i] ELSE f[i - 1] \o s[i]]
           flatten == CHOOSE x : x = Body(x)
           good == {i \in D : flatten[i] \in V}
<1>1. n \in Nat /\ DOMAIN s = D /\ \A i \in D : s[i] \in V
  OBVIOUS
<1>2. CASE n = 0
  <2>1. s = << >> /\ << >> \in Seq(T)
    BY <1>2
  <2>2. FlattenSeq(s) = << >>
    BY <1>2, <2>1 DEF FlattenSeq
  <2> DEFINE upto == [k \in 0..n |-> << >>]
  <2>3. upto \in [0..n -> Seq(T)] /\ upto[0] = << >> /\ upto[n] = FlattenSeq(s)
    BY <1>2, <2>1, <2>2
  <2> HIDE DEF upto
  <2>4. Joins(upto, s)
    BY <1>2, <2>3 DEF Joins
  <2> QED
    BY <1>2, <2>3, <2>4
<1>3. CASE n # 0
  <2>1. FlattenSeq(s) = flatten[n]
    BY <1>3 DEF FlattenSeq
  <2>2. 1 \in D /\ n \in D /\ base \in V
    BY <1>1, <1>3
  <2> HIDE DEF n
  <2>3. \E f \in [D -> V] : Solution(f, D, base, {1}, left, left, step)
    <3>1. size \in [D -> 0..n] /\ left \in [D -> D]
      BY <1>1, <2>2
    <3>2. \A d \in D \ {1} : size[left[d]] < size[d]
      BY <1>1
    <3>3. step \in [D \X V \X V -> V]
      <4>1. \A y \in V : \A i \in D : y \o s[i] \in V
        BY <1>1
      <4> HIDE DEF D, V
      <4>2. \A x \in D \X V \X V : x[1] \in D /\ x[2] \in V
        OBVIOUS
      <4> QED
        BY <4>1, <4>2
    <3> HIDE DEF D, V, size, base, left, step
    <3>4. Recursive(D, V, n, size, base, {1}, left, left, step)
      BY <1>1, <2>2, <3>1, <3>2, <3>3 DEF Recursive
    <3> QED
      BY <3>4, RecursionExists
  <2>4. PICK f \in [D -> V] : f = Body(f)
    <3>1. PICK f \in [D -> V] : Solution(f, D, base, {1}, left, left, step)
      BY <2>3
    <3>2. ASSUME NEW i \in D PROVE f[i] = Body(f)[i]
      <4>1. CASE i = 1
        BY <3>1, <4>1 DEF Solution
      <4>2. CASE i # 1
        <5>1. i - 1 \in D /\ left[i] = i - 1 /\ f[i - 1] \in V
          BY <1>1, <4>2
        <5>2. f[i] = step[<<i, f[left[i]], f[left[i]]>>]
          BY <3>1, <4>2 DEF Solution
        <5>3. step[<<i, f[i - 1], f[i - 1]>>] = f[i - 1] \o s[i]
          <6> HIDE DEF V, D
          <6> QED
            BY <5>1
        <5> QED
          BY <4>2, <5>1, <5>2, <5>3
      <4> QED
        BY <4>1, <4>2
    <3>3. Body(f) = [i \in D |-> Body(f)[i]] /\ f = [i \in D |-> f[i]]
      OBVIOUS
    <3> HIDE DEF Body
    <3> QED
      BY <3>2, <3>3
  <2>5. flatten = Body(flatten)
    <3> HIDE DEF Body
    <3> QED
      BY <2>4
  <2>6. ASSUME NEW i \in D, \A j \in D : size[j] < size[i] => j \in good
        PROVE  i \in good
    <3>1. flatten[i] = Body(flatten)[i]
      BY <2>5
    <3> HIDE DEF flatten
    <3>2. CASE i = 1
      BY <1>1, <3>1, <3>2
    <3>3. CASE i # 1
      <4>1. i - 1 \in D /\ size[i - 1] < size[i]
        BY <1>1, <3>3
      <4>2. flatten[i - 1] \in V
        BY <2>6, <4>1
      <4>3. flatten[i] = flatten[i - 1] \o s[i]
        BY <3>1, <3>3
      <4>4. flatten[i - 1] \o s[i] \in V
        <5>1. \A y, z \in V : y \o z \in V
          OBVIOUS
        <5> HIDE DEF V
        <5> QED
          BY <1>1, <4>2, <5>1
      <4> HIDE DEF V
      <4> QED
        BY <4>3, <4>4
    <3> QED
      BY <3>2, <3>3
  <2>7. D \subseteq good
    <3>1. \A i \in D : (\A j \in D : size[j] < size[i] => j \in good) => i \in good
      <4> HIDE DEF D, size, good
      <4> QED
        BY <2>6
    <3>2. size \in [D -> Nat]
      BY <1>1
    <3> HIDE DEF D, size, good
    <3> QED
      BY <3>1, <3>2, SizeInduction
  <2> DEFINE upto == [k \in 0..n |-> IF k = 0 THEN << >> ELSE flatten[k]]
  <2>8. \A k \in D : flatten[k] \in V
    BY <2>7
  <2>9. \A k \in D : flatten[k] = IF k = 1 THEN s[k] ELSE flatten[k - 1] \o s[k]
    <3>1. \A k \in D : flatten[k] = Body(flatten)[k]
      BY <2>5
    <3> HIDE DEF flatten
    <3> QED
      BY <3>1
  <2> HIDE DEF flatten
  <2>10. upto \in [0..n -> V] /\ upto[0] = << >> /\ upto[n] = FlattenSeq(s)
    BY <1>1, <1>3, <2>1, <2>8
  <2>11. ASSUME NEW k \in D PROVE upto[k] = upto[k - 1] \o s[k]
    <3>1. k - 1 \in 0..n /\ k \in 0..n /\ k # 0
      BY <1>1
    <3>2. upto[k] = flatten[k]
         /\ upto[k - 1] = IF k = 1 THEN << >> ELSE flatten[k - 1]
      BY <3>1
    <3>3. s[k] \in V
      BY <1>1
    <3>4. << >> \o s[k] = s[k]
      BY <3>3
    <3> HIDE DEF upto
    <3> QED
      BY <2>9, <3>2, <3>4
  <2> HIDE DEF upto
  <2>12. Joins(upto, s)
    BY <2>10, <2>11 DEF Joins, n
  <2> QED
    BY <2>10, <2>12 DEF n
<1> QED
  BY <1>2, <1>3

LEMMA Flattened ==
    ASSUME NEW T, NEW s \in Seq(Seq(T))
    PROVE  FlattenSeq(s) \in Seq(T)
<1>1. PICK upto \in [0..Len(s) -> Seq(T)] : Joins(upto, s)
  BY Joined
<1> QED
  BY <1>1 DEF Joins

(* The text of a block is a sequence of characters. *)
LEMMA TextIsSequence ==
    ASSUME NEW b \in Block
    PROVE  Text(b) \in Seq(STRING)
  BY Flattened DEF Block, Text

(* Fractions are compared crosswise, which is transitive. *)
LEMMA ScaledOrder ==
    ASSUME NEW x \in Nat, NEW y \in Nat, NEW t \in Nat \ {0}
    PROVE  /\ x > y <=> x * t > y * t
           /\ x >= y <=> x * t >= y * t
<1>1. x >= y => x * t >= y * t
  <2> SUFFICES ASSUME x >= y PROVE x * t >= y * t
    OBVIOUS
  <2> DEFINE d == x - y
  <2>1. d \in Nat /\ x = y + d
    OBVIOUS
  <2> HIDE DEF d
  <2>2. x * t = y * t + d * t /\ d * t >= 0
    BY <2>1
  <2> QED
    BY <2>2
<1>2. x > y => x * t > y * t
  <2> SUFFICES ASSUME x > y PROVE x * t > y * t
    OBVIOUS
  <2> DEFINE d == x - y
  <2>1. d \in Nat \ {0} /\ x = y + d
    OBVIOUS
  <2> HIDE DEF d
  <2>2. x * t = y * t + d * t /\ d * t > 0
    BY <2>1
  <2> QED
    BY <2>2
<1>3. y > x => y * t > x * t
  <2> SUFFICES ASSUME y > x PROVE y * t > x * t
    OBVIOUS
  <2> DEFINE d == y - x
  <2>1. d \in Nat \ {0} /\ y = x + d
    OBVIOUS
  <2> HIDE DEF d
  <2>2. y * t = x * t + d * t /\ d * t > 0
    BY <2>1
  <2> QED
    BY <2>2
<1>4. x * t \in Nat /\ y * t \in Nat /\ (x = y => x * t = y * t)
  OBVIOUS
<1> QED
  BY <1>1, <1>2, <1>3, <1>4

Crosswise(c, d, e, t, u, v) ==
    /\ c * u > d * t /\ d * v >= e * u => c * v > e * t
    /\ c * u >= d * t /\ d * v > e * u => c * v > e * t
    /\ c * u = d * t /\ d * v = e * u => c * v = e * t

LEMMA CrosswiseOrder ==
    ASSUME NEW c \in Nat, NEW d \in Nat, NEW e \in Nat,
           NEW t \in Nat \ {0}, NEW u \in Nat \ {0}, NEW v \in Nat \ {0}
    PROVE  Crosswise(c, d, e, t, u, v)
<1> DEFINE cu == c * u
           dt == d * t
           dv == d * v
           eu == e * u
           cv == c * v
           et == e * t
<1>1. /\ cu * v = cv * u
      /\ dt * v = dv * t
      /\ eu * t = et * u
  OBVIOUS
<1>2. /\ cu \in Nat /\ dt \in Nat /\ dv \in Nat
      /\ eu \in Nat /\ cv \in Nat /\ et \in Nat
  OBVIOUS
<1> HIDE DEF cu, dt, dv, eu, cv, et
<1>3. /\ cu > dt <=> cu * v > dt * v
      /\ cu >= dt <=> cu * v >= dt * v
      /\ dv > eu <=> dv * t > eu * t
      /\ dv >= eu <=> dv * t >= eu * t
      /\ cv > et <=> cv * u > et * u
      /\ cv >= et <=> cv * u >= et * u
      /\ et >= cv <=> et * u >= cv * u
      /\ dt >= cu <=> dt * v >= cu * v
      /\ eu >= dv <=> eu * t >= dv * t
  BY <1>2, ScaledOrder
<1>4. /\ cu * v \in Nat /\ dt * v \in Nat /\ dv * t \in Nat
      /\ eu * t \in Nat /\ cv * u \in Nat /\ et * u \in Nat
  BY <1>2
<1> DEFINE a1 == cu * v
           a2 == dt * v
           a3 == eu * t
<1>5. /\ cu > dt /\ dv >= eu => cv > et
      /\ cu >= dt /\ dv > eu => cv > et
      /\ cu = dt /\ dv = eu => cv = et
  <2>1. /\ a1 \in Nat /\ a2 \in Nat /\ a3 \in Nat
        /\ cu > dt <=> a1 > a2
        /\ cu >= dt <=> a1 >= a2
        /\ dv > eu <=> a2 > a3
        /\ dv >= eu <=> a2 >= a3
        /\ cv > et <=> a1 > a3
        /\ cv >= et <=> a1 >= a3
        /\ et >= cv <=> a3 >= a1
        /\ dt >= cu <=> a2 >= a1
        /\ eu >= dv <=> a3 >= a2
    BY <1>1, <1>3, <1>4
  <2> HIDE DEF a1, a2, a3
  <2> QED
    BY <1>2, <2>1
<1> QED
  BY <1>5 DEF Crosswise, cu, dt, dv, eu, cv, et

(* The ratio of two texts that are not empty is a fraction. *)
LEMMA RatioIsFraction ==
    ASSUME NEW a \in Seq(STRING), NEW b \in Seq(STRING)
    PROVE  /\ Ratio(a, b).common \in Nat
           /\ Ratio(a, b).total \in Nat
           /\ a # << >> => Ratio(a, b).total # 0
<1>1. /\ Len(a) \in Nat /\ DOMAIN a = 1..Len(a)
      /\ Len(b) \in Nat /\ DOMAIN b = 1..Len(b)
      /\ a # << >> => Len(a) # 0
  OBVIOUS
<1>2. Aligned(a, b) \in SUBSET ((DOMAIN a) \X (DOMAIN b))
  <2> DEFINE m == Len(a)
             n == Len(b)
  <2>1. m \in Nat /\ n \in Nat /\ DOMAIN a = 1..m /\ DOMAIN b = 1..n
    BY <1>1
  <2> HIDE DEF m, n
  <2>2. Aligned(a, b) \subseteq
           {p \in (DOMAIN a) \X (DOMAIN b) : a[p[1]] = b[p[2]]}
    BY <2>1, AlignedIsEqual
  <2> QED
    BY <2>2
<1>3. IsFiniteSet((DOMAIN a) \X (DOMAIN b))
  <2>1. IsFiniteSet(DOMAIN a) /\ IsFiniteSet(DOMAIN b)
    BY <1>1, FS_Interval
  <2> QED
    BY <2>1, FS_Product
<1>4. Cardinality(Aligned(a, b)) \in Nat
  BY <1>2, <1>3, FS_Subset, FS_CardinalityType
<1> QED
  BY <1>1, <1>4 DEF Ratio

(* Alike blocks are in a strict order. *)
LEMMA BetterOrders ==
    ASSUME NEW f \in Seq(Block), NEW g \in Seq(Block),
           NEW couples \in SUBSET ((DOMAIN f) \X (DOMAIN g)),
           \A p \in couples : Similar(Text(f[p[1]]), Text(g[p[2]]))
    PROVE  /\ \A p \in couples : ~Better(f, g, p, p)
           /\ \A p, q, r \in couples :
                 Better(f, g, p, q) /\ Better(f, g, q, r) => Better(f, g, p, r)
           /\ \A p, q \in couples :
                 p # q => Better(f, g, p, q) \/ Better(f, g, q, p)
<1> DEFINE R(p) == Ratio(Text(f[p[1]]), Text(g[p[2]]))
           Most(p, q) == R(p).common * R(q).total > R(q).common * R(p).total
           Same(p, q) == R(p).common * R(q).total = R(q).common * R(p).total
           First(p, q) == p[1] < q[1] \/ (p[1] = q[1] /\ p[2] < q[2])
<1>1. ASSUME NEW p \in couples
      PROVE  /\ p[1] \in Nat /\ p[2] \in Nat
             /\ R(p).common \in Nat /\ R(p).total \in Nat \ {0}
  <2>1. p[1] \in DOMAIN f /\ p[2] \in DOMAIN g
    OBVIOUS
  <2>2. f[p[1]] \in Block /\ g[p[2]] \in Block
    <3> HIDE DEF Block
    <3> QED
      BY <2>1
  <2>3. Text(f[p[1]]) \in Seq(STRING) /\ Text(g[p[2]]) \in Seq(STRING)
    BY <2>2, TextIsSequence
  <2>4. Text(f[p[1]]) # << >>
    BY DEF Similar
  <2>5. p[1] \in Nat /\ p[2] \in Nat
    BY <2>1
  <2> QED
    BY <2>3, <2>4, <2>5, RatioIsFraction
<1>2. \A p, q : Better(f, g, p, q) <=> Most(p, q) \/ (Same(p, q) /\ First(p, q))
  BY DEF Better
<1> HIDE DEF R
<1>3. ASSUME NEW p \in couples, NEW q \in couples
      PROVE  R(p).common * R(q).total \in Nat
  BY <1>1
<1>4. ASSUME NEW p \in couples, NEW q \in couples, p # q
      PROVE  First(p, q) \/ First(q, p)
  <2>1. p[1] # q[1] \/ p[2] # q[2]
    <3>1. p \in (DOMAIN f) \X (DOMAIN g) /\ q \in (DOMAIN f) \X (DOMAIN g)
      OBVIOUS
    <3> HIDE DEF R, Most, Same, First
    <3> QED
      BY <1>4, <3>1
  <2>2. p[1] \in Nat /\ p[2] \in Nat /\ q[1] \in Nat /\ q[2] \in Nat
    BY <1>1
  <2> QED
    BY <2>1, <2>2
<1>5. ASSUME NEW p \in couples PROVE ~Better(f, g, p, p)
  <2>1. ~Most(p, p) /\ ~First(p, p)
    BY <1>1, <1>3
  <2> QED
    BY <1>2, <2>1
<1>6. ASSUME NEW p \in couples, NEW q \in couples, p # q
      PROVE  Better(f, g, p, q) \/ Better(f, g, q, p)
  <2>1. Most(p, q) \/ Most(q, p) \/ (Same(p, q) /\ Same(q, p))
    BY <1>3
  <2> HIDE DEF Most, Same, First
  <2> QED
    BY <1>2, <1>4, <1>6, <2>1
<1>7. ASSUME NEW p \in couples, NEW q \in couples, NEW r \in couples,
             Better(f, g, p, q), Better(f, g, q, r)
      PROVE  Better(f, g, p, r)
  <2> DEFINE c == R(p).common
             d == R(q).common
             e == R(r).common
             t == R(p).total
             u == R(q).total
             v == R(r).total
  <2>1. /\ c \in Nat /\ d \in Nat /\ e \in Nat
        /\ t \in Nat \ {0} /\ u \in Nat \ {0} /\ v \in Nat \ {0}
    BY <1>1
  <2>2. /\ Most(p, q) <=> c * u > d * t
        /\ Same(p, q) <=> c * u = d * t
        /\ Most(q, r) <=> d * v > e * u
        /\ Same(q, r) <=> d * v = e * u
        /\ Most(p, r) <=> c * v > e * t
        /\ Same(p, r) <=> c * v = e * t
    OBVIOUS
  <2> HIDE DEF c, d, e, t, u, v
  <2>3. /\ c * u > d * t /\ d * v >= e * u => c * v > e * t
        /\ c * u >= d * t /\ d * v > e * u => c * v > e * t
        /\ c * u = d * t /\ d * v = e * u => c * v = e * t
    <3>1. Crosswise(c, d, e, t, u, v)
      BY <2>1, CrosswiseOrder, Zenon
    <3> QED
      BY <3>1 DEF Crosswise
  <2>4. /\ c * u \in Nat /\ d * t \in Nat /\ d * v \in Nat
        /\ e * u \in Nat /\ c * v \in Nat /\ e * t \in Nat
    BY <2>1
  <2>5. First(p, q) /\ First(q, r) => First(p, r)
    BY <1>1
  <2>6. /\ Most(p, q) /\ Most(q, r) => Most(p, r)
        /\ Most(p, q) /\ Same(q, r) => Most(p, r)
        /\ Same(p, q) /\ Most(q, r) => Most(p, r)
        /\ Same(p, q) /\ Same(q, r) => Same(p, r)
    <3> DEFINE cu == c * u
               dt == d * t
               dv == d * v
               eu == e * u
               cv == c * v
               et == e * t
    <3>1. /\ cu > dt /\ dv >= eu => cv > et
          /\ cu >= dt /\ dv > eu => cv > et
          /\ cu = dt /\ dv = eu => cv = et
      BY <2>3
    <3>2. /\ cu \in Nat /\ dt \in Nat /\ dv \in Nat
          /\ eu \in Nat /\ cv \in Nat /\ et \in Nat
      BY <2>4
    <3>3. /\ Most(p, q) <=> cu > dt
          /\ Same(p, q) <=> cu = dt
          /\ Most(q, r) <=> dv > eu
          /\ Same(q, r) <=> dv = eu
          /\ Most(p, r) <=> cv > et
          /\ Same(p, r) <=> cv = et
      BY <2>2
    <3> HIDE DEF cu, dt, dv, eu, cv, et, Most, Same
    <3> QED
      BY <3>1, <3>2, <3>3
  <2> HIDE DEF Most, Same, First
  <2> QED
    BY <1>2, <1>7, <2>5, <2>6
<1> QED
  BY <1>5, <1>6, <1>7

(* Of some alike blocks two are the most alike, *)
LEMMA BestExists ==
    ASSUME NEW f \in Seq(Block), NEW g \in Seq(Block),
           NEW couples \in SUBSET ((DOMAIN f) \X (DOMAIN g)),
           \A p \in couples : Similar(Text(f[p[1]]), Text(g[p[2]])),
           couples # {}
    PROVE  \E p \in couples : \A q \in couples \ {p} : Better(f, g, p, q)
<1> DEFINE B(p, q) == Better(f, g, p, q)
           before == [q \in couples |-> {p \in couples : B(p, q)}]
<1>1. /\ \A p \in couples : ~B(p, p)
      /\ \A p, q, r \in couples : B(p, q) /\ B(q, r) => B(p, r)
      /\ \A p, q \in couples : p # q => B(p, q) \/ B(q, p)
  BY BetterOrders
<1>2. IsFiniteSet(couples)
  <2>1. IsFiniteSet(DOMAIN f) /\ IsFiniteSet(DOMAIN g)
    BY PlacesAreFinite
  <2> QED
    BY <2>1, FS_Product, FS_Subset
<1> HIDE DEF B
<1>3. /\ \A p \in couples : before[p] \subseteq couples /\ p \notin before[p]
      /\ \A p, q, r \in couples :
            p \in before[q] /\ q \in before[r] => p \in before[r]
      /\ \A p, q \in couples : p # q => p \in before[q] \/ q \in before[p]
  BY <1>1
<1>4. \A p, q \in couples : p \in before[q] <=> B(p, q)
  OBVIOUS
<1> HIDE DEF before
<1>5. PICK p \in couples : before[p] = {}
  BY <1>2, <1>3, FirstExists
<1>6. \A q \in couples \ {p} : B(p, q)
  BY <1>3, <1>4, <1>5
<1> QED
  BY <1>6 DEF B

(* ... and blocks are paired with one each. *)
LEMMA GreedyPairs ==
    ASSUME NEW f \in Seq(Block), NEW g \in Seq(Block),
           NEW couples \in SUBSET ((DOMAIN f) \X (DOMAIN g)),
           \A p \in couples : Similar(Text(f[p[1]]), Text(g[p[2]]))
    PROVE  /\ Greedy(f, g, couples) \subseteq couples
           /\ OneToOne(Greedy(f, g, couples))
<1> DEFINE n == Cardinality(couples)
           V == SUBSET couples
           D == SUBSET couples
           best(ps) == CHOOSE p \in ps : \A q \in ps \ {p} : Better(f, g, p, q)
           rest(ps) == {p \in ps : p[1] # best(ps)[1] /\ p[2] # best(ps)[2]}
           size == [ps \in D |-> Cardinality(ps)]
           left == [ps \in D |-> rest(ps)]
           step == [x \in D \X V \X V |->
                      IF x[1] = {} THEN {} ELSE {best(x[1])} \cup x[2]]
           Body(h) == [ps \in D |-> IF ps = {} THEN {}
                                    ELSE {best(ps)} \cup h[rest(ps)]]
<1>1. ASSUME NEW ps \in D, ps # {} PROVE best(ps) \in ps
  <2>1. \A p \in ps : Similar(Text(f[p[1]]), Text(g[p[2]]))
    OBVIOUS
  <2>2. ps \in SUBSET ((DOMAIN f) \X (DOMAIN g))
    OBVIOUS
  <2>3. \E p \in ps : \A q \in ps \ {p} : Better(f, g, p, q)
    BY <1>1, <2>1, <2>2, BestExists
  <2> QED
    BY <2>3
<1>2. IsFiniteSet(couples) /\ n \in Nat
  <2>1. IsFiniteSet(DOMAIN f) /\ IsFiniteSet(DOMAIN g)
    BY PlacesAreFinite
  <2>2. IsFiniteSet(couples)
    BY <2>1, FS_Product, FS_Subset
  <2> QED
    BY <2>2, FS_CardinalityType
<1>3. ASSUME NEW ps \in D
      PROVE  IsFiniteSet(ps) /\ Cardinality(ps) \in 0..n
  BY <1>2, FS_Subset, FS_CardinalityType
<1> HIDE DEF n, best
<1>4. ASSUME NEW ps \in D \ {{}}
      PROVE  size[left[ps]] < size[ps]
  <2>1. best(ps) \in ps /\ best(ps) \notin rest(ps) /\ rest(ps) \in SUBSET ps
    BY <1>1
  <2>2. size[left[ps]] = Cardinality(rest(ps)) /\ size[ps] = Cardinality(ps)
    OBVIOUS
  <2> HIDE DEF rest, size, left
  <2>3. IsFiniteSet(ps) /\ Cardinality(ps) \in Nat /\ Cardinality(rest(ps)) \in Nat
    BY <1>3, <2>1
  <2>4. /\ Cardinality(rest(ps)) <= Cardinality(ps)
        /\ Cardinality(rest(ps)) # Cardinality(ps)
    BY <2>1, <2>3, FS_Subset
  <2> QED
    BY <2>2, <2>3, <2>4
<1>5. step \in [D \X V \X V -> V]
  <2>1. ASSUME NEW ps \in D, NEW y \in V
        PROVE  (IF ps = {} THEN {} ELSE {best(ps)} \cup y) \in V
    BY <1>1
  <2> HIDE DEF D, V
  <2>2. \A x \in D \X V \X V : x[1] \in D /\ x[2] \in V
    OBVIOUS
  <2> QED
    BY <2>1, <2>2
<1>6. size \in [D -> 0..n] /\ left \in [D -> D] /\ {} \in V
  BY <1>3
<1>7. PICK h \in [D -> V] : h = Body(h)
  <2>1. PICK h \in [D -> V] : Solution(h, D, {}, {{}}, left, left, step)
    <3> HIDE DEF D, V, size, left, step
    <3>1. Recursive(D, V, n, size, {}, {{}}, left, left, step)
      BY <1>2, <1>4, <1>5, <1>6 DEF Recursive
    <3> QED
      BY <3>1, RecursionExists
  <2>2. ASSUME NEW ps \in D PROVE h[ps] = Body(h)[ps]
    <3>1. CASE ps = {}
      BY <2>1, <3>1 DEF Solution
    <3>2. CASE ps # {}
      <4>1. left[ps] \in D /\ left[ps] = rest(ps) /\ h[left[ps]] \in V
        BY <1>6
      <4>2. h[ps] = step[<<ps, h[left[ps]], h[left[ps]]>>]
        BY <2>1, <3>2 DEF Solution
      <4>3. \A x \in D \X V \X V : x[1] # {} => step[x] = {best(x[1])} \cup x[2]
        OBVIOUS
      <4>4. <<ps, h[left[ps]], h[left[ps]]>> \in D \X V \X V
        BY <4>1
      <4>5. h[ps] = {best(ps)} \cup h[left[ps]]
        <5> HIDE DEF D, V, left, step
        <5> QED
          BY <3>2, <4>2, <4>3, <4>4
      <4> QED
        BY <3>2, <4>1, <4>5
    <3> QED
      BY <3>1, <3>2
  <2>3. Body(h) = [ps \in D |-> Body(h)[ps]] /\ h = [ps \in D |-> h[ps]]
    OBVIOUS
  <2> HIDE DEF Body
  <2> QED
    BY <2>2, <2>3
<1> DEFINE Of == CHOOSE x : x = Body(x)
           good == {ps \in D : Of[ps] \subseteq ps /\ OneToOne(Of[ps])}
<1>8. Greedy(f, g, couples) = Of[couples]
  BY DEF Greedy, best
<1>9. Of = Body(Of)
  <2> HIDE DEF Body
  <2> QED
    BY <1>7
<1>10. ASSUME NEW ps \in D, \A qs \in D : size[qs] < size[ps] => qs \in good
       PROVE  ps \in good
  <2>1. Of[ps] = Body(Of)[ps]
    BY <1>9
  <2> HIDE DEF Of
  <2>2. CASE ps = {}
    BY <2>1, <2>2 DEF OneToOne
  <2>3. CASE ps # {}
    <3>1. rest(ps) \in good
      <4>1. left[ps] \in D /\ size[left[ps]] < size[ps] /\ left[ps] = rest(ps)
        BY <1>4, <1>6, <2>3
      <4> HIDE DEF D, size, left, rest, good
      <4> QED
        BY <1>10, <4>1
    <3>2. best(ps) \in ps /\ rest(ps) \subseteq ps
      BY <1>1, <2>3
    <3>3. \A p \in rest(ps) : p[1] # best(ps)[1] /\ p[2] # best(ps)[2]
      OBVIOUS
    <3>4. Of[ps] = {best(ps)} \cup Of[rest(ps)]
      BY <2>1, <2>3
    <3>5. Of[rest(ps)] \subseteq rest(ps) /\ OneToOne(Of[rest(ps)])
      BY <3>1
    <3> HIDE DEF rest
    <3> QED
      BY <3>2, <3>3, <3>4, <3>5 DEF OneToOne
  <2> QED
    BY <2>2, <2>3
<1>11. couples \in good
  <2>1. \A ps \in D : (\A qs \in D : size[qs] < size[ps] => qs \in good)
                        => ps \in good
    <3> HIDE DEF D, size, good
    <3> QED
      BY <1>10
  <2>2. size \in [D -> Nat]
    BY <1>6
  <2>3. couples \in D
    OBVIOUS
  <2> HIDE DEF D, size, good
  <2>4. D \subseteq good
    BY <2>1, <2>2, SizeInduction
  <2> QED
    BY <2>3, <2>4
<1>12. Of[couples] \subseteq couples /\ OneToOne(Of[couples])
  <2> HIDE DEF Of
  <2> QED
    BY <1>11
<1> HIDE DEF Of
<1> QED
  BY <1>8, <1>12

(* Blocks of the one function are paired with blocks of the other. *)
LEMMA BlocksArePaired ==
    ASSUME NEW f \in Seq(Block), NEW g \in Seq(Block)
    PROVE  /\ Left(f, g) \subseteq DOMAIN f
           /\ Paired(f, g) \subseteq (DOMAIN f) \X (DOMAIN g)
<1>1. ASSUME NEW a, NEW b PROVE Left(a, b) \subseteq DOMAIN a
  BY DEF Left, Plain, Entries
<1>2. Rest(f, g) \subseteq DOMAIN f /\ Rest(g, f) \subseteq DOMAIN g
  BY <1>1 DEF Rest
<1>3. EntryPair(f, g) \subseteq (DOMAIN f) \X (DOMAIN g)
  BY <1>1 DEF EntryPair
<1>4. ChangedPairs(f, g) \subseteq (DOMAIN f) \X (DOMAIN g)
  <2> DEFINE F == Rest(f, g)
             G == Rest(g, f)
             similar == {p \in F \X G : Similar(Text(f[p[1]]), Text(g[p[2]]))}
  <2>1. /\ similar \in SUBSET ((DOMAIN f) \X (DOMAIN g))
        /\ \A p \in similar : Similar(Text(f[p[1]]), Text(g[p[2]]))
    BY <1>2
  <2>2. ChangedPairs(f, g) \subseteq similar \/ ChangedPairs(f, g) = Greedy(f, g, similar)
    BY DEF ChangedPairs
  <2> HIDE DEF similar
  <2>3. Greedy(f, g, similar) \subseteq similar
    BY <2>1, GreedyPairs
  <2> QED
    BY <2>1, <2>2, <2>3
<1> QED
  BY <1>1, <1>3, <1>4 DEF Paired

(* Paint is of a block there is and of an instruction it has, or of none. *)
OfFunction(f) == {p \in {Paint(i, k, c) : i \in DOMAIN f, k \in Nat, c \in BOOLEAN} :
                     p.instruction <= Len(f[p.block].code)}

LEMMA EntryStays ==
    ASSUME NEW f \in Seq(Block), NEW paint \in SUBSET OfFunction(f)
    PROVE  EntryChanged(f, paint) \subseteq OfFunction(f)
<1> DEFINE E(p) == [p EXCEPT !.changed = @ \/ (f[p.block].entry /\ p.instruction < 2)]
<1>1. ASSUME NEW p \in paint PROVE E(p) \in OfFunction(f)
  <2>1. PICK i \in DOMAIN f, k \in Nat, c \in BOOLEAN : p = Paint(i, k, c)
    BY DEF OfFunction
  <2>2. p.block = i /\ p.instruction = k /\ k <= Len(f[i].code)
    BY <2>1 DEF OfFunction, Paint
  <2>3. E(p) = Paint(i, k, c \/ (f[i].entry /\ k < 2))
    BY <2>1, <2>2 DEF Paint
  <2>4. (c \/ (f[i].entry /\ k < 2)) \in BOOLEAN
    OBVIOUS
  <2>5. \A d \in BOOLEAN : Paint(i, k, d) \in OfFunction(f)
    BY <2>2 DEF OfFunction, Paint
  <2> QED
    BY <2>3, <2>4, <2>5
<1> QED
  BY <1>1 DEF EntryChanged

LEMMA DiffIsOfBlock ==
    ASSUME NEW f \in Seq(Block), NEW i \in DOMAIN f, NEW other, NEW couples
    PROVE  Diff(i, f[i].code, other, couples) \subseteq OfFunction(f)
<1> DEFINE mine == f[i].code
<1>1. mine \in Seq(Seq(STRING))
  <2>1. f[i] \in Block
    <3> HIDE DEF Block
    <3> QED
      OBVIOUS
  <2> QED
    BY <2>1 DEF Block
<1>2. DOMAIN mine = 1..Len(mine) /\ Len(mine) \in Nat
  BY <1>1
<1> HIDE DEF mine
<1>3. ASSUME NEW p \in Diff(i, mine, other, couples)
      PROVE  \E k \in DOMAIN mine, c \in BOOLEAN : p = Paint(i, k, c)
  BY DEF Diff, Gaps
<1>4. ASSUME NEW k \in DOMAIN mine, NEW c \in BOOLEAN
      PROVE  Paint(i, k, c) \in OfFunction(f)
  <2>1. k \in Nat /\ k <= Len(mine)
    BY <1>2
  <2>2. /\ Paint(i, k, c).block = i
        /\ Paint(i, k, c).instruction = k
    BY DEF Paint
  <2> QED
    BY <2>1, <2>2 DEF OfFunction, mine
<1>5. Diff(i, mine, other, couples) \subseteq OfFunction(f)
  BY <1>3, <1>4
<1> QED
  BY <1>5 DEF mine

(* What is painted of a pair, and of a function before the entry is marked. *)
PairDiff(f, g, p) ==
    LET i == p[1]  j == p[2]
        code == Aligned(f[i].code, g[j].code)
    IN IF Whole(f, g, i, j)
       THEN <<{Paint(i, 0, TRUE)}, {Paint(j, 0, TRUE)}>>
       ELSE <<Diff(i, f[i].code, g[j].code, code),
              Diff(j, g[j].code, f[i].code, Flip(code))>>
Wholes(S, c) == {Paint(i, 0, c) : i \in S}
Strokes(f, g, k, left) ==
    Wholes(left \ {p[k] : p \in Paired(f, g)}, FALSE)
        \cup UNION {PairDiff(f, g, p)[k] : p \in Paired(f, g)}

LEMMA AnnotationsAreStrokes ==
    ASSUME NEW f, NEW g, f # << >>, g # << >>
    PROVE  /\ Annotations(f, g).source = EntryChanged(f, Strokes(f, g, 1, Left(f, g)))
           /\ Annotations(f, g).target = EntryChanged(g, Strokes(f, g, 2, Left(g, f)))
<1> DEFINE couples == Paired(f, g)
           diff == [p \in couples |->
                   LET i == p[1]  j == p[2]
                       code == Aligned(f[i].code, g[j].code)
                   IN IF Whole(f, g, i, j)
                      THEN <<{Paint(i, 0, TRUE)}, {Paint(j, 0, TRUE)}>>
                      ELSE <<Diff(i, f[i].code, g[j].code, code),
                             Diff(j, g[j].code, f[i].code, Flip(code))>>]
           one == {Paint(i, 0, FALSE) : i \in Left(f, g) \ {p[1] : p \in couples}}
                     \cup UNION {diff[p][1] : p \in couples}
           two == {Paint(i, 0, FALSE) : i \in Left(g, f) \ {p[2] : p \in couples}}
                     \cup UNION {diff[p][2] : p \in couples}
<1>1. /\ Annotations(f, g).source = EntryChanged(f, one)
      /\ Annotations(f, g).target = EntryChanged(g, two)
  BY DEF Annotations
<1>2. \A p \in couples : diff[p] = PairDiff(f, g, p)
  BY DEF PairDiff
<1> HIDE DEF diff
<1>3. one = Strokes(f, g, 1, Left(f, g)) /\ two = Strokes(f, g, 2, Left(g, f))
  <2> HIDE DEF couples
  <2>1. /\ {diff[p][1] : p \in couples} = {PairDiff(f, g, p)[1] : p \in couples}
        /\ {diff[p][2] : p \in couples} = {PairDiff(f, g, p)[2] : p \in couples}
    BY <1>2
  <2> QED
    BY <2>1 DEF Strokes, Wholes, couples
<1> QED
  BY <1>1, <1>3

LEMMA StrokesAreOfFunctions ==
    ASSUME NEW f \in Seq(Block), NEW g \in Seq(Block)
    PROVE  /\ Strokes(f, g, 1, Left(f, g)) \subseteq OfFunction(f)
           /\ Strokes(f, g, 2, Left(g, f)) \subseteq OfFunction(g)
<1> DEFINE couples == Paired(f, g)
<1>1. /\ Left(f, g) \subseteq DOMAIN f /\ Left(g, f) \subseteq DOMAIN g
      /\ couples \subseteq (DOMAIN f) \X (DOMAIN g)
  BY BlocksArePaired
<1>2. ASSUME NEW h \in Seq(Block), NEW i \in DOMAIN h, NEW c \in BOOLEAN
      PROVE  Paint(i, 0, c) \in OfFunction(h)
  <2>1. h[i] \in Block
    <3> HIDE DEF Block
    <3> QED
      OBVIOUS
  <2>2. Len(h[i].code) \in Nat
    BY <2>1 DEF Block
  <2> QED
    BY <2>2 DEF OfFunction, Paint
<1>3. ASSUME NEW p \in couples
      PROVE  /\ PairDiff(f, g, p)[1] \subseteq OfFunction(f)
             /\ PairDiff(f, g, p)[2] \subseteq OfFunction(g)
  <2>1. p[1] \in DOMAIN f /\ p[2] \in DOMAIN g
    BY <1>1
  <2> DEFINE i == p[1]
             j == p[2]
             code == Aligned(f[i].code, g[j].code)
  <2>2. \/ /\ PairDiff(f, g, p)[1] = {Paint(i, 0, TRUE)}
           /\ PairDiff(f, g, p)[2] = {Paint(j, 0, TRUE)}
        \/ /\ PairDiff(f, g, p)[1] = Diff(i, f[i].code, g[j].code, code)
           /\ PairDiff(f, g, p)[2] = Diff(j, g[j].code, f[i].code, Flip(code))
    BY DEF PairDiff
  <2> HIDE DEF code, couples
  <2>3. /\ Paint(i, 0, TRUE) \in OfFunction(f)
        /\ Paint(j, 0, TRUE) \in OfFunction(g)
    BY <1>2, <2>1
  <2>4. Diff(i, f[i].code, g[j].code, code) \subseteq OfFunction(f)
    BY <2>1, DiffIsOfBlock
  <2>5. Diff(j, g[j].code, f[i].code, Flip(code)) \subseteq OfFunction(g)
    BY <2>1, DiffIsOfBlock
  <2> QED
    BY <2>2, <2>3, <2>4, <2>5
<1>4. /\ Wholes(Left(f, g) \ {p[1] : p \in couples}, FALSE) \subseteq OfFunction(f)
      /\ Wholes(Left(g, f) \ {p[2] : p \in couples}, FALSE) \subseteq OfFunction(g)
  <2> HIDE DEF couples
  <2> QED
    BY <1>1, <1>2 DEF Wholes
<1>5. /\ UNION {PairDiff(f, g, p)[1] : p \in couples} \subseteq OfFunction(f)
      /\ UNION {PairDiff(f, g, p)[2] : p \in couples} \subseteq OfFunction(g)
  <2> HIDE DEF couples
  <2> QED
    BY <1>3
<1> QED
  BY <1>4, <1>5 DEF Strokes

LEMMA AnnotationsAreOfFunctions ==
    ASSUME NEW f \in Seq(Block), NEW g \in Seq(Block)
    PROVE  /\ Annotations(f, g).source \subseteq OfFunction(f)
           /\ Annotations(f, g).target \subseteq OfFunction(g)
<1>1. CASE f = << >> \/ g = << >>
  BY <1>1 DEF Annotations
<1>2. CASE f # << >> /\ g # << >>
  <2> DEFINE one == Strokes(f, g, 1, Left(f, g))
             two == Strokes(f, g, 2, Left(g, f))
  <2>1. one \in SUBSET OfFunction(f) /\ two \in SUBSET OfFunction(g)
    BY StrokesAreOfFunctions
  <2>2. /\ Annotations(f, g).source = EntryChanged(f, one)
        /\ Annotations(f, g).target = EntryChanged(g, two)
    BY <1>2, AnnotationsAreStrokes
  <2> HIDE DEF one, two
  <2> QED
    BY <2>1, <2>2, EntryStays
<1> QED
  BY <1>1, <1>2

(* What is shown are two functions and their paint. *)
Painted ==
    /\ shown.source \in Seq(Block) /\ shown.target \in Seq(Block)
    /\ shown.paint.source \subseteq OfFunction(shown.source)
    /\ shown.paint.target \subseteq OfFunction(shown.target)

LEMMA PaintedStep ==
    ASSUME Painted, [SessionNext]_<<vars, sessionVars>>
    PROVE  Painted'
<1>1. ASSUME NEW r \in results, Render(r) PROVE Painted'
  <2>1. PICK f \in Shapes, g \in Shapes :
           shown' = [source |-> f, target |-> g, paint |-> Annotations(f, g)]
    BY <1>1 DEF Render
  <2>2. f \in Seq(Block) /\ g \in Seq(Block)
    BY SessionConstants
  <2>3. /\ Annotations(f, g).source \subseteq OfFunction(f)
        /\ Annotations(f, g).target \subseteq OfFunction(g)
    BY <2>2, AnnotationsAreOfFunctions
  <2>4. /\ shown'.source = f /\ shown'.target = g
        /\ shown'.paint = Annotations(f, g)
    BY <2>1
  <2> QED
    BY <2>2, <2>3, <2>4 DEF Painted
<1>2. ASSUME shown' = shown PROVE Painted'
  BY <1>2 DEF Painted
<1> QED
  BY <1>1, <1>2 DEF SessionNext, Rename, ApplyName, StartApply, CopyName,
                    ApplyFails, ReadSymbol, FinishApply, sessionVars

(* Whatever is applied and rendered, names are texts, what is applied has a
   function in its view, and paint is of instructions there are: the longest
   run, the best pair and the most alike blocks that difflib and _greedy take
   are there to be taken. *)
THEOREM SessionTypeCorrect == SessionSpec => []SessionTypeOK
<1>1. SessionInit => Painted
  BY DEF SessionInit, Nothing, Painted
<1>2. Painted /\ [SessionNext]_<<vars, sessionVars>> => Painted'
  BY PaintedStep
<1>3. Ind /\ Linked /\ Applied /\ Painted /\ TypeOK => SessionTypeOK
  <2> SUFFICES ASSUME Ind, Linked, Applied, Painted, TypeOK PROVE SessionTypeOK
    OBVIOUS
  <2>1. ASSUME NEW n \in Nodes, NEW a \in Functions[n], names[n][a] # None
        PROVE  names[n][a].text \in Texts /\ names[n][a].auto \in BOOLEAN
    <3>1. names[n][a] \in Symbol
      BY <2>1 DEF Applied, NamesTyped
    <3> QED
      BY <3>1 DEF Symbol
  <2>2. applying # None => applying.own[2] \in Functions[applying.own[1]]
    BY FunctionsOfApply DEF Applied
  <2>3. ASSUME NEW f \in Seq(Block), NEW p \in OfFunction(f)
        PROVE  p.block \in DOMAIN f /\ p.instruction \in 0..Len(f[p.block].code)
    <3>1. PICK i \in DOMAIN f, k \in Nat, c \in BOOLEAN : p = Paint(i, k, c)
      BY DEF OfFunction
    <3>2. p.block = i /\ p.instruction = k
      BY <3>1 DEF Paint
    <3>3. k <= Len(f[i].code)
      BY <3>2 DEF OfFunction
    <3>4. Len(f[i].code) \in Nat
      <4>1. f[i] \in Block
        <5> HIDE DEF Block
        <5> QED
          OBVIOUS
      <4> QED
        BY <4>1 DEF Block
    <3> QED
      BY <3>2, <3>3, <3>4
  <2>4. ASSUME NEW side \in {"source", "target"}, NEW p \in shown.paint[side]
        PROVE  /\ p.block \in DOMAIN shown[side]
               /\ p.instruction \in 0..Len(shown[side][p.block].code)
    BY <2>3 DEF Painted
  <2> QED
    BY <2>1, <2>2, <2>4 DEF SessionTypeOK
<1> QED
  BY <1>1, <1>2, <1>3, SessionInvariance, SessionVisits, TypeCorrect, PTL
  DEF SessionSpec

-----------------------------------------------------------------------------
(* What stays unpainted *)

(* The place of a number among some. *)
Rank(W, x) == Cardinality({k \in W : k <= x})

(* Numbers of a finite set have different places, and every place is one's. *)
LEMMA RanksDiffer ==
    ASSUME NEW W \in SUBSET Nat, IsFiniteSet(W)
    PROVE  /\ \A x \in W : Rank(W, x) \in 1..Cardinality(W)
           /\ \A x, y \in W : Rank(W, x) = Rank(W, y) => x = y
           /\ \A n \in 1..Cardinality(W) : \E x \in W : Rank(W, x) = n
<1> DEFINE before == [x \in W |-> {k \in W : k < x}]
<1>1. \A x \in W : before[x] \subseteq W /\ x \notin before[x]
  OBVIOUS
<1>2. \A x, y, z \in W : x \in before[y] /\ y \in before[z] => x \in before[z]
  OBVIOUS
<1>3. \A x, y \in W : x # y => x \in before[y] \/ y \in before[x]
  OBVIOUS
<1>4. ASSUME NEW x \in W
      PROVE  /\ Rank(W, x) = Cardinality(before[x]) + 1
             /\ Cardinality(before[x]) \in Nat
  <2> DEFINE below == before[x]
  <2>1. {k \in W : k <= x} = below \cup {x} /\ x \notin below
    <3>1. below = {k \in W : k < x} /\ x \in Nat
      OBVIOUS
    <3> HIDE DEF below
    <3>2. \A k \in W : k <= x <=> k < x \/ k = x
      BY <3>1
    <3>3. \A k \in W : ~(x < x) /\ (k < x <=> k \in below)
      BY <3>1
    <3>4. x \notin below /\ \A k : k \in below => k \in W
      BY <3>1
    <3>5. \A k : k \in {m \in W : m <= x} <=> k \in below \cup {x}
      BY <3>2, <3>3, <3>4
    <3> QED
      BY <3>4, <3>5
  <2>2. below \in SUBSET W
    OBVIOUS
  <2> HIDE DEF below
  <2>3. IsFiniteSet(below)
    BY <2>2, FS_Subset
  <2>4. Cardinality(below \cup {x}) = Cardinality(below) + 1
    BY <2>1, <2>3, FS_AddElement
  <2>5. Cardinality(below) \in Nat
    BY <2>3, FS_CardinalityType
  <2> QED
    BY <2>1, <2>4, <2>5 DEF below, Rank
<1> HIDE DEF before
<1>5. /\ \A x \in W : Cardinality(before[x]) \in 0..(Cardinality(W) - 1)
      /\ \A x, y \in W : x \in before[y] =>
            Cardinality(before[x]) < Cardinality(before[y])
  BY <1>1, <1>2, PlacesDiffer
<1>6. Cardinality(W) \in Nat
  BY FS_CardinalityType
<1>7. ASSUME NEW x \in W, NEW y \in W, Rank(W, x) = Rank(W, y) PROVE x = y
  <2>1. Cardinality(before[x]) = Cardinality(before[y])
    BY <1>4, <1>7
  <2> QED
    BY <1>3, <1>4, <1>5, <2>1
<1>8. ASSUME NEW n \in 1..Cardinality(W) PROVE \E x \in W : Rank(W, x) = n
  <2>1. \A k \in 1..Cardinality(W) : \E x \in W : Cardinality(before[x]) + 1 = k
    BY <1>1, <1>2, <1>3, EveryPlaceTaken
  <2> QED
    BY <1>4, <2>1
<1>9. ASSUME NEW x \in W PROVE Rank(W, x) \in 1..Cardinality(W)
  BY <1>4, <1>5, <1>6
<1> QED
  BY <1>7, <1>8, <1>9

OneEntry(f) == \A i, j \in Entries(f) : i = j

LEMMA TwinsAreFinite ==
    ASSUME NEW f \in Seq(Block), NEW g, NEW x
    PROVE  /\ Twins(f, g, x) \in SUBSET Nat
           /\ IsFiniteSet(Twins(f, g, x))
<1>1. IsFiniteSet(DOMAIN f)
  BY PlacesAreFinite
<1>2. Twins(f, g, x) \in SUBSET DOMAIN f
  BY DEF Twins, Plain
<1>3. DOMAIN f \in SUBSET Nat
  <2> HIDE DEF Block
  <2> QED
    OBVIOUS
<1> QED
  BY <1>1, <1>2, <1>3, FS_Subset

(* A block is left when its text has no more copies on the other side, an
   entry when the other entry differs. *)
LEMMA WhatIsLeft ==
    ASSUME NEW f, NEW g, NEW i \in DOMAIN f
    PROVE  /\ i \in Plain(f, g) =>
                (i \in Left(f, g) <=>
                    Rank(Twins(f, g, Text(f[i])), i)
                      > Cardinality(Twins(g, f, Text(f[i]))))
           /\ i \notin Plain(f, g) =>
                /\ i \in Entries(f) /\ Entries(g) # {}
                /\ i \in Left(f, g) <=> \E j \in Entries(g) : Text(g[j]) # Text(f[i])
<1>1. {k \in Twins(f, g, Text(f[i])) : k <= i}
        = {k \in Plain(f, g) : k <= i /\ Text(f[k]) = Text(f[i])}
  BY DEF Twins
<1>2. i \in Plain(f, g) => ~(i \in Entries(f) /\ \E j \in Entries(g) : TRUE)
  BY DEF Plain, BothEnter
<1>3. i \notin Plain(f, g) => i \in Entries(f) /\ Entries(g) # {}
  BY DEF Plain, BothEnter
<1>4. Rank(Twins(f, g, Text(f[i])), i)
        = Cardinality({k \in Plain(f, g) : k <= i /\ Text(f[k]) = Text(f[i])})
  BY <1>1 DEF Rank
<1> QED
  BY <1>2, <1>3, <1>4 DEF Left, Twins

(* What is not left is matched, one to one, with a block of the same text. *)
Anchored(f, g) ==
    {p \in (DOMAIN f \ Left(f, g)) \X (DOMAIN g \ Left(g, f)) :
        LET x == Text(f[p[1]])
        IN /\ Text(g[p[2]]) = x
           /\ p[1] \in Plain(f, g) <=> p[2] \in Plain(g, f)
           /\ p[1] \in Plain(f, g) =>
                Rank(Twins(f, g, x), p[1]) = Rank(Twins(g, f, x), p[2])}

LEMMA AnchoredFlips ==
    ASSUME NEW f, NEW g, NEW i, NEW j
    PROVE  <<i, j>> \in Anchored(f, g) <=> <<j, i>> \in Anchored(g, f)
  BY DEF Anchored

(* A block is anchored by one other at most, *)
LEMMA AnchoredOnce ==
    ASSUME NEW f \in Seq(Block), NEW g \in Seq(Block), OneEntry(f), OneEntry(g),
           NEW i, NEW j, NEW k,
           <<i, j>> \in Anchored(f, g), <<i, k>> \in Anchored(f, g)
    PROVE  j = k
<1> DEFINE x == Text(f[i])
           W == Twins(g, f, x)
<1>1. /\ j \in DOMAIN g /\ k \in DOMAIN g /\ Text(g[j]) = x /\ Text(g[k]) = x
      /\ i \in Plain(f, g) <=> j \in Plain(g, f)
      /\ i \in Plain(f, g) <=> k \in Plain(g, f)
      /\ i \in Plain(f, g) => Rank(W, j) = Rank(W, k)
  BY DEF Anchored
<1>2. CASE i \in Plain(f, g)
  <2>1. j \in W /\ k \in W
    BY <1>1, <1>2 DEF Twins
  <2>2. W \in SUBSET Nat /\ IsFiniteSet(W)
    BY TwinsAreFinite
  <2> HIDE DEF W
  <2> QED
    BY <1>1, <1>2, <2>1, <2>2, RanksDiffer
<1>3. CASE i \notin Plain(f, g)
  BY <1>1, <1>3, WhatIsLeft DEF OneEntry
<1> QED
  BY <1>2, <1>3

(* ... and by one unless it is left. *)
LEMMA AnchorExists ==
    ASSUME NEW f \in Seq(Block), NEW g \in Seq(Block), OneEntry(f), OneEntry(g),
           NEW i \in DOMAIN f \ Left(f, g)
    PROVE  \E j \in DOMAIN g : <<i, j>> \in Anchored(f, g)
<1> DEFINE x == Text(f[i])
           V == Twins(f, g, x)
           W == Twins(g, f, x)
<1>1. CASE i \in Plain(f, g)
  <2>1. i \in V /\ Rank(V, i) \in 1..Cardinality(V)
    <3>1. i \in V
      BY <1>1 DEF Twins
    <3>2. V \in SUBSET Nat /\ IsFiniteSet(V)
      BY TwinsAreFinite
    <3> HIDE DEF V
    <3> QED
      BY <3>1, <3>2, RanksDiffer
  <2>2. /\ W \in SUBSET Nat /\ IsFiniteSet(W)
        /\ Cardinality(W) \in Nat /\ Cardinality(V) \in Nat
    <3>1. /\ W \in SUBSET Nat /\ IsFiniteSet(W) /\ IsFiniteSet(V)
      BY TwinsAreFinite
    <3> QED
      BY <3>1, FS_CardinalityType
  <2>3. ~(Rank(V, i) > Cardinality(W))
    BY <1>1, WhatIsLeft
  <2>4. PICK j \in W : Rank(W, j) = Rank(V, i)
    <3> HIDE DEF V, W
    <3>1. Rank(V, i) \in 1..Cardinality(W)
      BY <2>1, <2>2, <2>3
    <3> QED
      BY <2>2, <3>1, RanksDiffer
  <2>5. j \in DOMAIN g /\ j \in Plain(g, f) /\ Text(g[j]) = x
    BY <2>4 DEF Twins, Plain
  <2>6. j \notin Left(g, f)
    <3>1. ~(Rank(Twins(g, f, Text(g[j])), j) > Cardinality(Twins(f, g, Text(g[j]))))
      <4> HIDE DEF x
      <4>1. ~(Rank(W, j) > Cardinality(V))
        <5> HIDE DEF V, W
        <5> QED
          BY <2>1, <2>2, <2>4
      <4> QED
        BY <2>5, <4>1
    <3> QED
      BY <2>5, <3>1, WhatIsLeft
  <2>7. <<i, j>> \in Anchored(f, g)
    BY <1>1, <2>4, <2>5, <2>6 DEF Anchored
  <2> QED
    BY <2>5, <2>7
<1>2. CASE i \notin Plain(f, g)
  <2>1. /\ i \in Entries(f) /\ Entries(g) # {}
        /\ \A j \in Entries(g) : Text(g[j]) = x
    BY <1>2, WhatIsLeft
  <2>2. PICK j \in Entries(g) : Text(g[j]) = x
    BY <2>1
  <2>3. j \in DOMAIN g /\ j \notin Plain(g, f)
    BY <2>1, <2>2 DEF Entries, Plain, BothEnter
  <2>4. j \notin Left(g, f)
    <3>1. \A k \in Entries(f) : Text(f[k]) = Text(g[j])
      BY <2>1, <2>2 DEF OneEntry
    <3> QED
      BY <2>3, <3>1, WhatIsLeft
  <2>5. <<i, j>> \in Anchored(f, g)
    BY <1>2, <2>2, <2>3, <2>4 DEF Anchored
  <2> QED
    BY <2>3, <2>5
<1> QED
  BY <1>1, <1>2

(* What is left is paired, if at all, with one block that is left. *)
LEMMA PairedOnce ==
    ASSUME NEW f \in Seq(Block), NEW g \in Seq(Block), OneEntry(f), OneEntry(g)
    PROVE  /\ Paired(f, g) \subseteq Left(f, g) \X Left(g, f)
           /\ OneToOne(Paired(f, g))
<1> DEFINE E == EntryPair(f, g)
           C == ChangedPairs(f, g)
           F == Rest(f, g)
           G == Rest(g, f)
           similar == {p \in F \X G : Similar(Text(f[p[1]]), Text(g[p[2]]))}
           Place(is, i) == Cardinality({k \in is : k <= i})
<1>1. /\ F \subseteq Left(f, g) /\ G \subseteq Left(g, f)
      /\ Left(f, g) \subseteq DOMAIN f /\ Left(g, f) \subseteq DOMAIN g
  BY BlocksArePaired DEF Rest
<1>2. E # {} => F \cap Entries(f) = {} /\ G \cap Entries(g) = {}
  <2>1. ASSUME NEW p \in E PROVE EntryPair(g, f) # {}
    <3>1. <<p[2], p[1]>> \in EntryPair(g, f)
      BY DEF EntryPair
    <3> QED
      BY <3>1
  <2>2. /\ E # {} => F = Left(f, g) \ Entries(f)
        /\ EntryPair(g, f) # {} => G = Left(g, f) \ Entries(g)
    BY DEF Rest
  <2> HIDE DEF E, F, G
  <2> QED
    BY <2>1, <2>2
<1>3. E \subseteq Left(f, g) \X Left(g, f) /\ E \subseteq Entries(f) \X Entries(g)
  BY DEF EntryPair
<1>4. OneToOne(E)
  <2>1. \A p \in E : /\ p[1] \in Entries(f) /\ p[2] \in Entries(g)
                     /\ p = <<p[1], p[2]>>
    BY <1>3
  <2> HIDE DEF E
  <2> QED
    BY <2>1 DEF OneToOne, OneEntry
<1>5. C \subseteq F \X G /\ OneToOne(C)
  <2>1. CASE Size(f, F) * Size(g, G) > Budget
    <3>1. C = {p \in similar : Place(F, p[1]) = Place(G, p[2])}
      BY <2>1 DEF ChangedPairs
    <3>2. /\ F \in SUBSET Nat /\ IsFiniteSet(F)
          /\ G \in SUBSET Nat /\ IsFiniteSet(G)
      <4>1. DOMAIN f \in SUBSET Nat /\ DOMAIN g \in SUBSET Nat
        <5> HIDE DEF Block
        <5> QED
          OBVIOUS
      <4>2. IsFiniteSet(DOMAIN f) /\ IsFiniteSet(DOMAIN g)
        BY PlacesAreFinite
      <4>3. F \in SUBSET DOMAIN f /\ G \in SUBSET DOMAIN g
        BY <1>1
      <4> HIDE DEF F, G
      <4> QED
        BY <4>1, <4>2, <4>3, FS_Subset
    <3> HIDE DEF F, G
    <3>3. /\ \A x, y \in F : Rank(F, x) = Rank(F, y) => x = y
          /\ \A x, y \in G : Rank(G, x) = Rank(G, y) => x = y
      BY <3>2, RanksDiffer
    <3>4. \A p \in C : /\ p \in F \X G /\ p = <<p[1], p[2]>>
                       /\ Rank(F, p[1]) = Rank(G, p[2])
      BY <3>1 DEF Rank
    <3> HIDE DEF C
    <3>5. \A p, q \in C : p[1] = q[1] \/ p[2] = q[2] => p = q
      BY <3>3, <3>4
    <3> QED
      BY <3>4, <3>5 DEF OneToOne
  <2>2. CASE ~(Size(f, F) * Size(g, G) > Budget)
    <3>1. C = Greedy(f, g, similar)
      BY <2>2 DEF ChangedPairs
    <3>2. /\ similar \in SUBSET ((DOMAIN f) \X (DOMAIN g))
          /\ \A p \in similar : Similar(Text(f[p[1]]), Text(g[p[2]]))
      BY <1>1
    <3>3. similar \subseteq F \X G
      OBVIOUS
    <3> HIDE DEF similar, C, F, G
    <3> QED
      BY <3>1, <3>2, <3>3, GreedyPairs
  <2> QED
    BY <2>1, <2>2
<1>6. Paired(f, g) = E \cup C
  BY DEF Paired
<1>7. OneToOne(E \cup C)
  <2>1. ASSUME NEW p \in E, NEW q \in C PROVE p[1] # q[1] /\ p[2] # q[2]
    <3>1. p[1] \in Entries(f) /\ p[2] \in Entries(g) /\ E # {}
      BY <1>3
    <3>2. q[1] \in F /\ q[2] \in G
      BY <1>5
    <3> HIDE DEF E, C, F, G
    <3> QED
      BY <1>2, <3>1, <3>2
  <2> HIDE DEF E, C
  <2> QED
    BY <1>4, <1>5, <2>1 DEF OneToOne
<1>8. C \subseteq Left(f, g) \X Left(g, f)
  <2> HIDE DEF C, F, G
  <2> QED
    BY <1>1, <1>5
<1> HIDE DEF E, C
<1> QED
  BY <1>3, <1>6, <1>7, <1>8

-----------------------------------------------------------------------------
(* What the paint marks *)

(* Whether a block, as instruction 0, or an instruction of it is painted. *)
Marked(paint, i, n) == \E p \in paint : p.block = i /\ p.instruction = n

LEMMA UnpaintedIsUnmarked ==
    ASSUME NEW f, NEW paint, NEW i \in DOMAIN f
    PROVE  i \in Unpainted(f, paint) <=> \A n : ~Marked(paint, i, n)
  BY DEF Unpainted, Marked

LEMMA BareIsUnmarked ==
    ASSUME NEW f, NEW paint, NEW i
    PROVE  Bare(f, paint, i)
             = {k \in DOMAIN f[i].code : ~Marked(paint, i, 0) /\ ~Marked(paint, i, k)}
  BY DEF Bare, Marked

(* The entry's mark is changed, never where it is. *)
LEMMA EntryKeepsMarks ==
    ASSUME NEW f, NEW paint \in SUBSET OfFunction(f)
    PROVE  /\ \A i, n : Marked(EntryChanged(f, paint), i, n) <=> Marked(paint, i, n)
           /\ \A p \in EntryChanged(f, paint) :
                 f[p.block].entry /\ p.instruction < 2 => p.changed
<1> DEFINE E(p) == [p EXCEPT !.changed = @ \/ (f[p.block].entry /\ p.instruction < 2)]
<1>1. ASSUME NEW p \in paint
      PROVE  /\ E(p).block = p.block /\ E(p).instruction = p.instruction
             /\ f[p.block].entry /\ p.instruction < 2 => E(p).changed
  <2>1. PICK i \in DOMAIN f, k \in Nat, c \in BOOLEAN : p = Paint(i, k, c)
    BY DEF OfFunction
  <2>2. p.block = i /\ p.instruction = k
    BY <2>1 DEF Paint
  <2>3. E(p) = Paint(i, k, c \/ (f[i].entry /\ k < 2))
    BY <2>1, <2>2 DEF Paint
  <2> HIDE DEF E
  <2>4. /\ E(p).block = i /\ E(p).instruction = k
        /\ E(p).changed = (c \/ (f[i].entry /\ k < 2))
    BY <2>3 DEF Paint
  <2> QED
    BY <2>2, <2>4
<1>2. EntryChanged(f, paint) = {E(p) : p \in paint}
  BY DEF EntryChanged
<1> HIDE DEF E
<1>3. ASSUME NEW i, NEW n
      PROVE  Marked(EntryChanged(f, paint), i, n) <=> Marked(paint, i, n)
  BY <1>1, <1>2 DEF Marked
<1>4. ASSUME NEW q \in EntryChanged(f, paint), f[q.block].entry, q.instruction < 2
      PROVE  q.changed
  <2>1. PICK p \in paint : q = E(p)
    BY <1>2
  <2> QED
    BY <1>1, <1>4, <2>1
<1> QED
  BY <1>3, <1>4

(* Blocks painted as a whole are marked so. *)
LEMMA WholeMarks ==
    ASSUME NEW S, NEW c, NEW b, NEW n
    PROVE  Marked(Wholes(S, c), b, n) <=> n = 0 /\ b \in S
<1>1. \A i : Paint(i, 0, c).block = i /\ Paint(i, 0, c).instruction = 0
  BY DEF Paint
<1>2. ASSUME Marked(Wholes(S, c), b, n) PROVE n = 0 /\ b \in S
  <2>1. PICK i \in S : Paint(i, 0, c).block = b /\ Paint(i, 0, c).instruction = n
    BY <1>2 DEF Marked, Wholes
  <2> QED
    BY <1>1, <2>1
<1>3. ASSUME n = 0, b \in S PROVE Marked(Wholes(S, c), b, n)
  <2>1. Paint(b, 0, c) \in Wholes(S, c)
    BY <1>3 DEF Wholes
  <2>2. Paint(b, 0, c).block = b /\ Paint(b, 0, c).instruction = n
    BY <1>1, <1>3
  <2> QED
    BY <2>1, <2>2 DEF Marked
<1> QED
  BY <1>2, <1>3

(* Of two aligned sequences, what is not aligned is marked. *)
LEMMA DiffMarks ==
    ASSUME NEW i, NEW mine, NEW other, NEW couples, NEW b, NEW n
    PROVE  Marked(Diff(i, mine, other, couples), b, n)
             <=> b = i /\ n \in DOMAIN mine \ {p[1] : p \in couples}
<1> DEFINE gap == Gaps(mine, {p[1] : p \in couples})
           others == Gaps(other, {p[2] : p \in couples})
           changed(k) == \E x \in DOMAIN others : others[x] = gap[k]
<1>1. DOMAIN gap = DOMAIN mine \ {p[1] : p \in couples}
  BY DEF Gaps
<1>2. Diff(i, mine, other, couples) = {Paint(i, k, changed(k)) : k \in DOMAIN gap}
  BY DEF Diff
<1> HIDE DEF gap, changed
<1>3. \A k, c : Paint(i, k, c).block = i /\ Paint(i, k, c).instruction = k
  BY DEF Paint
<1> QED
  BY <1>1, <1>2, <1>3 DEF Marked

(* The instructions of two paired blocks that are aligned. *)
CommonCode(f, g, p) == Aligned(f[p[1]].code, g[p[2]].code)
IsWhole(f, g, p) == Whole(f, g, p[1], p[2])

(* What is marked: as a whole, what is left without a pair, and the pairs that
   can only be painted so; of the others what is not aligned. *)
Differs(f, g, k, code, left, b, n) ==
    \/ n = 0 /\ b \in left /\ \A p \in Paired(f, g) : p[k] # b
    \/ \E p \in Paired(f, g) :
          /\ p[k] = b
          /\ IF IsWhole(f, g, p) THEN n = 0
             ELSE n \in DOMAIN code \ {x[k] : x \in CommonCode(f, g, p)}

LEMMA WhatIsMarked ==
    ASSUME NEW f \in Seq(Block), NEW g \in Seq(Block), f # << >>, g # << >>,
           NEW b, NEW n
    PROVE  /\ Marked(Annotations(f, g).source, b, n)
                <=> Differs(f, g, 1, f[b].code, Left(f, g), b, n)
           /\ Marked(Annotations(f, g).target, b, n)
                <=> Differs(f, g, 2, g[b].code, Left(g, f), b, n)
<1> DEFINE couples == Paired(f, g)
           alone1 == Wholes(Left(f, g) \ {p[1] : p \in couples}, FALSE)
           alone2 == Wholes(Left(g, f) \ {p[2] : p \in couples}, FALSE)
           one == Strokes(f, g, 1, Left(f, g))
           two == Strokes(f, g, 2, Left(g, f))
<1>1. ASSUME NEW p \in couples
      PROVE  /\ IsWhole(f, g, p) =>
                   /\ PairDiff(f, g, p)[1] = {Paint(p[1], 0, TRUE)}
                   /\ PairDiff(f, g, p)[2] = {Paint(p[2], 0, TRUE)}
             /\ ~IsWhole(f, g, p) =>
                   /\ PairDiff(f, g, p)[1]
                        = Diff(p[1], f[p[1]].code, g[p[2]].code, CommonCode(f, g, p))
                   /\ PairDiff(f, g, p)[2]
                        = Diff(p[2], g[p[2]].code, f[p[1]].code, Flip(CommonCode(f, g, p)))
  BY DEF IsWhole, CommonCode, PairDiff
<1>3. ASSUME NEW p \in couples
      PROVE  /\ Marked(PairDiff(f, g, p)[1], b, n) <=>
                   /\ p[1] = b
                   /\ IF IsWhole(f, g, p) THEN n = 0
                      ELSE n \in DOMAIN f[b].code \ {x[1] : x \in CommonCode(f, g, p)}
             /\ Marked(PairDiff(f, g, p)[2], b, n) <=>
                   /\ p[2] = b
                   /\ IF IsWhole(f, g, p) THEN n = 0
                      ELSE n \in DOMAIN g[b].code \ {x[2] : x \in CommonCode(f, g, p)}
  <2> DEFINE kept == CommonCode(f, g, p)
  <2>1. CASE IsWhole(f, g, p)
    <3>1. ASSUME NEW i
          PROVE  Marked({Paint(i, 0, TRUE)}, b, n) <=> i = b /\ n = 0
      <4>1. {Paint(i, 0, TRUE)} = Wholes({i}, TRUE)
        BY DEF Wholes
      <4>2. Marked(Wholes({i}, TRUE), b, n) <=> n = 0 /\ b \in {i}
        BY WholeMarks
      <4> QED
        BY <4>1, <4>2
    <3> HIDE DEF couples
    <3> QED
      BY <1>1, <2>1, <3>1
  <2>2. CASE ~IsWhole(f, g, p)
    <3>1. {x[1] : x \in Flip(kept)} = {x[2] : x \in kept}
      <4> HIDE DEF kept
      <4>1. \A x \in kept : <<x[2], x[1]>> \in Flip(kept)
        BY DEF Flip
      <4>2. \A y \in Flip(kept) : \E x \in kept : y[1] = x[2]
        BY DEF Flip
      <4>3. \A x \in kept : \E y \in Flip(kept) : y[1] = x[2]
        BY <4>1
      <4> QED
        BY <4>2, <4>3
    <3>2. /\ Marked(Diff(p[1], f[p[1]].code, g[p[2]].code, kept), b, n)
                <=> b = p[1] /\ n \in DOMAIN f[p[1]].code \ {x[1] : x \in kept}
          /\ Marked(Diff(p[2], g[p[2]].code, f[p[1]].code, Flip(kept)), b, n)
                <=> b = p[2] /\ n \in DOMAIN g[p[2]].code \ {x[1] : x \in Flip(kept)}
      BY DiffMarks
    <3> HIDE DEF couples
    <3> QED
      BY <1>1, <2>2, <3>1, <3>2
  <2> QED
    BY <2>1, <2>2
<1>4. /\ Marked(alone1, b, n) <=> n = 0 /\ b \in Left(f, g) /\ \A p \in couples : p[1] # b
      /\ Marked(alone2, b, n) <=> n = 0 /\ b \in Left(g, f) /\ \A p \in couples : p[2] # b
  <2>1. /\ b \in Left(f, g) \ {p[1] : p \in couples}
              <=> b \in Left(f, g) /\ \A p \in couples : p[1] # b
        /\ b \in Left(g, f) \ {p[2] : p \in couples}
              <=> b \in Left(g, f) /\ \A p \in couples : p[2] # b
    <3> HIDE DEF couples
    <3> QED
      OBVIOUS
  <2>2. /\ Marked(alone1, b, n) <=>
              n = 0 /\ b \in Left(f, g) \ {p[1] : p \in couples}
        /\ Marked(alone2, b, n) <=>
              n = 0 /\ b \in Left(g, f) \ {p[2] : p \in couples}
    <3> DEFINE S == Left(f, g) \ {p[1] : p \in couples}
               R == Left(g, f) \ {p[2] : p \in couples}
    <3> HIDE DEF S, R
    <3>1. /\ Marked(Wholes(S, FALSE), b, n) <=> n = 0 /\ b \in S
          /\ Marked(Wholes(R, FALSE), b, n) <=> n = 0 /\ b \in R
      BY WholeMarks
    <3> QED
      BY <3>1 DEF S, R
  <2> HIDE DEF couples, alone1, alone2
  <2> QED
    BY <2>1, <2>2
<1>5. /\ one = alone1 \cup UNION {PairDiff(f, g, p)[1] : p \in couples}
      /\ two = alone2 \cup UNION {PairDiff(f, g, p)[2] : p \in couples}
  BY DEF Strokes
<1> HIDE DEF alone1, alone2, one, two
<1>6. /\ Marked(one, b, n) <=>
            Marked(alone1, b, n) \/ \E p \in couples : Marked(PairDiff(f, g, p)[1], b, n)
      /\ Marked(two, b, n) <=>
            Marked(alone2, b, n) \/ \E p \in couples : Marked(PairDiff(f, g, p)[2], b, n)
  <2> HIDE DEF couples
  <2> QED
    BY <1>5 DEF Marked
<1>7. /\ Marked(EntryChanged(f, one), b, n) <=> Marked(one, b, n)
      /\ Marked(EntryChanged(g, two), b, n) <=> Marked(two, b, n)
  <2>1. one \in SUBSET OfFunction(f) /\ two \in SUBSET OfFunction(g)
    BY StrokesAreOfFunctions DEF one, two
  <2> QED
    BY <2>1, EntryKeepsMarks
<1>8. /\ Marked(one, b, n) <=> Differs(f, g, 1, f[b].code, Left(f, g), b, n)
      /\ Marked(two, b, n) <=> Differs(f, g, 2, g[b].code, Left(g, f), b, n)
  <2>1. /\ Marked(one, b, n) <=>
             \/ n = 0 /\ b \in Left(f, g) /\ \A p \in couples : p[1] # b
             \/ \E p \in couples :
                   /\ p[1] = b
                   /\ IF IsWhole(f, g, p) THEN n = 0
                      ELSE n \in DOMAIN f[b].code \ {x[1] : x \in CommonCode(f, g, p)}
        /\ Marked(two, b, n) <=>
             \/ n = 0 /\ b \in Left(g, f) /\ \A p \in couples : p[2] # b
             \/ \E p \in couples :
                   /\ p[2] = b
                   /\ IF IsWhole(f, g, p) THEN n = 0
                      ELSE n \in DOMAIN g[b].code \ {x[2] : x \in CommonCode(f, g, p)}
    <3> HIDE DEF couples
    <3> QED
      BY <1>3, <1>4, <1>6
  <2> QED
    BY <2>1 DEF Differs
<1>9. /\ Annotations(f, g).source = EntryChanged(f, one)
      /\ Annotations(f, g).target = EntryChanged(g, two)
  BY AnnotationsAreStrokes DEF one, two
<1> QED
  BY <1>7, <1>8, <1>9

(* What is bare: all of what is matched, of two aligned blocks what is aligned,
   and nothing else. *)
BareAs(h, f, g, k, left, paint) ==
    /\ \A i \in DOMAIN h \ left : Bare(h, paint, i) = DOMAIN h[i].code
    /\ \A i \in left : (\A p \in Paired(f, g) : p[k] = i => IsWhole(f, g, p))
                          => Bare(h, paint, i) = {}
    /\ \A p \in Paired(f, g) : ~IsWhole(f, g, p) =>
          Bare(h, paint, p[k]) = {x[k] : x \in CommonCode(f, g, p)}

LEMMA WhatIsBare ==
    ASSUME NEW f, NEW g, NEW h \in Seq(Block), NEW k, NEW left \in SUBSET DOMAIN h,
           NEW paint,
           \A b, n : Marked(paint, b, n) <=> Differs(f, g, k, h[b].code, left, b, n),
           \A p \in Paired(f, g) : p[k] \in left,
           \A p, q \in Paired(f, g) : p[k] = q[k] => p = q,
           \A p \in Paired(f, g) : \A x \in CommonCode(f, g, p) :
              x[k] \in DOMAIN h[p[k]].code
    PROVE  BareAs(h, f, g, k, left, paint)
<1> DEFINE couples == Paired(f, g)
<1>1. ASSUME NEW i \in DOMAIN h PROVE 0 \notin DOMAIN h[i].code
  <2>1. h[i] \in Block
    <3> HIDE DEF Block
    <3> QED
      OBVIOUS
  <2>2. h[i].code \in Seq(Seq(STRING))
    BY <2>1 DEF Block
  <2> QED
    BY <2>2
<1>2. ASSUME NEW i \in DOMAIN h \ left PROVE Bare(h, paint, i) = DOMAIN h[i].code
  <2>1. \A n : ~Marked(paint, i, n)
    BY DEF Differs
  <2> QED
    BY <2>1, BareIsUnmarked
<1>3. ASSUME NEW i \in left, \A p \in couples : p[k] = i => IsWhole(f, g, p)
      PROVE  Bare(h, paint, i) = {}
  <2>1. Differs(f, g, k, h[i].code, left, i, 0)
    <3> HIDE DEF couples
    <3> QED
      BY <1>3 DEF Differs, couples
  <2>2. Marked(paint, i, 0)
    BY <2>1
  <2> QED
    BY <2>2, BareIsUnmarked
<1>4. ASSUME NEW p \in couples, ~IsWhole(f, g, p)
      PROVE  Bare(h, paint, p[k]) = {x[k] : x \in CommonCode(f, g, p)}
  <2> DEFINE b == p[k]
             kept == {x[k] : x \in CommonCode(f, g, p)}
  <2>1. ASSUME NEW n
        PROVE  Marked(paint, b, n) <=> n \in DOMAIN h[b].code \ kept
    <3>1. \A q \in couples : q[k] = b => q = p
      OBVIOUS
    <3>2. Differs(f, g, k, h[b].code, left, b, n) <=> n \in DOMAIN h[b].code \ kept
      <4> HIDE DEF kept
      <4>1. Differs(f, g, k, h[b].code, left, b, n) <=>
               \/ n = 0 /\ b \in left /\ \A q \in couples : q[k] # b
               \/ \E q \in couples :
                     /\ q[k] = b
                     /\ IF IsWhole(f, g, q) THEN n = 0
                        ELSE n \in DOMAIN h[b].code \ {x[k] : x \in CommonCode(f, g, q)}
        BY DEF Differs
      <4> HIDE DEF couples, b
      <4>2. p[k] = b
        BY DEF b
      <4> QED
        BY <1>4, <3>1, <4>1, <4>2 DEF kept
    <3> QED
      BY <3>2
  <2>2. b \in DOMAIN h /\ kept \subseteq DOMAIN h[b].code
    OBVIOUS
  <2>3. ~Marked(paint, b, 0)
    BY <1>1, <2>1, <2>2
  <2> HIDE DEF b, kept
  <2>4. Bare(h, paint, b) = kept
    BY <2>1, <2>2, <2>3, BareIsUnmarked
  <2> QED
    BY <2>4 DEF b, kept
<1> QED
  BY <1>2, <1>3, <1>4 DEF BareAs

(* The alignment of two codes. *)
AlignsCode(a, b) ==
    /\ OneToOne(Aligned(a, b)) /\ InOrder(Aligned(a, b))
    /\ \A x \in Aligned(a, b) : /\ x[1] \in DOMAIN a /\ x[2] \in DOMAIN b
                                 /\ a[x[1]] = b[x[2]] /\ x = <<x[1], x[2]>>

LEMMA CodeIsAligned ==
    ASSUME NEW a \in Seq(Seq(STRING)), NEW b \in Seq(Seq(STRING))
    PROVE  AlignsCode(a, b)
<1>1. /\ Len(a) \in Nat /\ DOMAIN a = 1..Len(a)
      /\ Len(b) \in Nat /\ DOMAIN b = 1..Len(b)
  OBVIOUS
<1>2. /\ Aligned(a, b) \subseteq
           {p \in (DOMAIN a) \X (DOMAIN b) : a[p[1]] = b[p[2]]}
      /\ OneToOne(Aligned(a, b)) /\ InOrder(Aligned(a, b))
  BY <1>1, AlignedIsEqual
<1> QED
  BY <1>2 DEF AlignsCode

LEMMA BareBlocks ==
    ASSUME NEW f \in Seq(Block), NEW g \in Seq(Block), f # << >>, g # << >>,
           OneEntry(f), OneEntry(g)
    PROVE  /\ BareAs(f, f, g, 1, Left(f, g), Annotations(f, g).source)
           /\ BareAs(g, f, g, 2, Left(g, f), Annotations(f, g).target)
<1> DEFINE couples == Paired(f, g)
           paint1 == Annotations(f, g).source
           paint2 == Annotations(f, g).target
           left1 == Left(f, g)
           left2 == Left(g, f)
<1>1. left1 \in SUBSET DOMAIN f /\ left2 \in SUBSET DOMAIN g
  BY BlocksArePaired
<1>2. couples \subseteq left1 \X left2 /\ OneToOne(couples)
  BY PairedOnce
<1>3. ASSUME NEW p \in couples, NEW x \in CommonCode(f, g, p)
      PROVE  x[1] \in DOMAIN f[p[1]].code /\ x[2] \in DOMAIN g[p[2]].code
  <2>1. f[p[1]] \in Block /\ g[p[2]] \in Block
    <3>1. p[1] \in DOMAIN f /\ p[2] \in DOMAIN g
      BY <1>1, <1>2
    <3> HIDE DEF Block
    <3> QED
      BY <3>1
  <2>2. AlignsCode(f[p[1]].code, g[p[2]].code)
    BY <2>1, CodeIsAligned DEF Block
  <2> QED
    BY <2>2 DEF AlignsCode, CommonCode
<1>4. \A b, n : /\ Marked(paint1, b, n) <=> Differs(f, g, 1, f[b].code, left1, b, n)
                /\ Marked(paint2, b, n) <=> Differs(f, g, 2, g[b].code, left2, b, n)
  BY WhatIsMarked
<1>5. /\ \A p \in couples : p[1] \in left1 /\ p[2] \in left2
      /\ \A p, q \in couples : p[1] = q[1] \/ p[2] = q[2] => p = q
  <2> HIDE DEF couples, left1, left2
  <2> QED
    BY <1>2 DEF OneToOne
<1>6. BareAs(f, f, g, 1, left1, paint1)
  <2> HIDE DEF paint1, left1
  <2> QED
    BY <1>1, <1>3, <1>4, <1>5, WhatIsBare
<1>7. BareAs(g, f, g, 2, left2, paint2)
  <2> HIDE DEF paint2, left2
  <2> QED
    BY <1>1, <1>3, <1>4, <1>5, WhatIsBare
<1> QED
  BY <1>6, <1>7

(* The blocks that are bare in part or as a whole, with their others. *)
BarePairs(f, g) ==
    Anchored(f, g) \cup {p \in Paired(f, g) : ~IsWhole(f, g, p)}

LEMMA BarePairsOnce ==
    ASSUME NEW f \in Seq(Block), NEW g \in Seq(Block), OneEntry(f), OneEntry(g)
    PROVE  /\ BarePairs(f, g) \in SUBSET ((DOMAIN f) \X (DOMAIN g))
           /\ OneToOne(BarePairs(f, g))
<1> DEFINE A == Anchored(f, g)
           P == {p \in Paired(f, g) : ~IsWhole(f, g, p)}
<1>1. Left(f, g) \subseteq DOMAIN f /\ Left(g, f) \subseteq DOMAIN g
  BY BlocksArePaired
<1>2. /\ P \subseteq Left(f, g) \X Left(g, f)
      /\ \A p, q \in P : p[1] = q[1] \/ p[2] = q[2] => p = q
  <2>1. Paired(f, g) \subseteq Left(f, g) \X Left(g, f) /\ OneToOne(Paired(f, g))
    BY PairedOnce
  <2> QED
    BY <2>1 DEF OneToOne
<1>3. A \subseteq (DOMAIN f \ Left(f, g)) \X (DOMAIN g \ Left(g, f))
  BY DEF Anchored
<1>4. ASSUME NEW p \in A, NEW q \in A, p[1] = q[1] \/ p[2] = q[2] PROVE p = q
  <2>1. p = <<p[1], p[2]>> /\ q = <<q[1], q[2]>>
    BY <1>3
  <2>2. CASE p[1] = q[1]
    <3>1. <<p[1], p[2]>> \in A /\ <<p[1], q[2]>> \in A
      BY <2>1, <2>2
    <3> QED
      BY <2>1, <2>2, <3>1, AnchoredOnce
  <2>3. CASE p[2] = q[2]
    <3>1. <<p[1], p[2]>> \in A /\ <<q[1], p[2]>> \in A
      BY <2>1, <2>3
    <3>2. <<p[2], p[1]>> \in Anchored(g, f) /\ <<p[2], q[1]>> \in Anchored(g, f)
      BY <3>1, AnchoredFlips
    <3> QED
      BY <2>1, <2>3, <3>2, AnchoredOnce
  <2> QED
    BY <1>4, <2>2, <2>3
<1>5. ASSUME NEW p \in A, NEW q \in P PROVE p[1] # q[1] /\ p[2] # q[2]
  <2> HIDE DEF A, P
  <2> QED
    BY <1>2, <1>3
<1>6. A \cup P \subseteq (DOMAIN f) \X (DOMAIN g)
  <2> HIDE DEF A, P
  <2> QED
    BY <1>1, <1>2, <1>3
<1>7. OneToOne(A \cup P)
  <2> HIDE DEF A, P
  <2> QED
    BY <1>2, <1>4, <1>5 DEF OneToOne
<1> QED
  BY <1>6, <1>7 DEF BarePairs

(* A relation that gives everything on both sides one other makes a bijection. *)
LEMMA OneToOneMaps ==
    ASSUME NEW A, NEW B, NEW R \in SUBSET (A \X B), OneToOne(R),
           \A i \in A : \E p \in R : p[1] = i,
           \A j \in B : \E p \in R : p[2] = j
    PROVE  \E o \in Bijection(A, B) : \A i \in A : <<i, o[i]>> \in R
<1> DEFINE o == [i \in A |-> CHOOSE j \in B : <<i, j>> \in R]
<1>1. \A p \in R : p = <<p[1], p[2]>> /\ p[1] \in A /\ p[2] \in B
  OBVIOUS
<1>2. ASSUME NEW i \in A PROVE o[i] \in B /\ <<i, o[i]>> \in R
  <2>1. PICK p \in R : p[1] = i
    OBVIOUS
  <2>2. p[2] \in B /\ <<i, p[2]>> \in R
    BY <1>1, <2>1
  <2> QED
    BY <2>2
<1>3. o \in [A -> B]
  BY <1>2
<1> HIDE DEF o
<1>4. ASSUME NEW i \in A, NEW k \in A, o[i] = o[k] PROVE i = k
  <2>1. <<i, o[i]>> \in R /\ <<k, o[k]>> \in R
    BY <1>2
  <2>2. <<i, o[i]>>[2] = <<k, o[k]>>[2]
    BY <1>4
  <2>3. <<i, o[i]>> = <<k, o[k]>>
    BY <2>1, <2>2 DEF OneToOne
  <2> QED
    BY <2>3
<1>5. ASSUME NEW j \in B PROVE \E i \in A : o[i] = j
  <2>1. PICK p \in R : p[2] = j
    OBVIOUS
  <2>2. p[1] \in A /\ <<p[1], o[p[1]]>> \in R
    BY <1>1, <1>2
  <2>3. <<p[1], o[p[1]]>>[1] = p[1] /\ <<p[1], o[p[1]]>>[2] = o[p[1]]
    OBVIOUS
  <2>4. <<p[1], o[p[1]]>> = p
    BY <2>2, <2>3 DEF OneToOne
  <2> QED
    BY <2>1, <2>2, <2>3, <2>4
<1>6. o \in Bijection(A, B)
  BY <1>3, <1>4, <1>5 DEF Bijection, Injection, Surjection, IsInjective
<1> QED
  BY <1>2, <1>6

(* The blocks of which something can be read, with their others. *)
Readable(f, g) ==
    Anchored(f, g) \cup
    {p \in Paired(f, g) : ~IsWhole(f, g, p) /\ CommonCode(f, g, p) # {}}

(* What is known of a side and its paint. *)
IsSide(h, f, g, k, left, paint) ==
    /\ h \in Seq(Block) /\ left \in SUBSET DOMAIN h
    /\ BareAs(h, f, g, k, left, paint)
    /\ \A b, n : Marked(paint, b, n) <=> Differs(f, g, k, h[b].code, left, b, n)
    /\ \A p \in Paired(f, g) : p[k] \in left
    /\ \A p \in Paired(f, g) : ~IsWhole(f, g, p) => h[p[k]].code # << >>
    /\ \A p \in Anchored(f, g) : p[k] \in DOMAIN h \ left
    /\ \A i \in DOMAIN h \ left : \E p \in Anchored(f, g) : p[k] = i

LEMMA WhatIsLegible ==
    ASSUME NEW f, NEW g, NEW h, NEW k, NEW left, NEW paint,
           IsSide(h, f, g, k, left, paint)
    PROVE  /\ \A p \in Readable(f, g) : p[k] \in Legible(h, paint)
           /\ \A i \in Legible(h, paint) : \E p \in Readable(f, g) : p[k] = i
<1>0. /\ h \in Seq(Block) /\ left \in SUBSET DOMAIN h
      /\ BareAs(h, f, g, k, left, paint)
      /\ \A b, n : Marked(paint, b, n) <=> Differs(f, g, k, h[b].code, left, b, n)
      /\ \A p \in Paired(f, g) : p[k] \in left
      /\ \A p \in Paired(f, g) : ~IsWhole(f, g, p) => h[p[k]].code # << >>
      /\ \A p \in Anchored(f, g) : p[k] \in DOMAIN h \ left
      /\ \A i \in DOMAIN h \ left : \E p \in Anchored(f, g) : p[k] = i
  BY DEF IsSide
<1>1. ASSUME NEW p \in Readable(f, g) PROVE p[k] \in Legible(h, paint)
  <2>1. CASE p \in Anchored(f, g)
    <3>1. p[k] \in DOMAIN h \ left
      BY <1>0, <2>1
    <3>2. \A n : ~Marked(paint, p[k], n)
      BY <1>0, <3>1 DEF Differs
    <3>3. p[k] \in Unpainted(h, paint)
      BY <3>1, <3>2, UnpaintedIsUnmarked
    <3> QED
      BY <3>3 DEF Legible
  <2>2. CASE p \in Paired(f, g) /\ ~IsWhole(f, g, p) /\ CommonCode(f, g, p) # {}
    <3>1. Bare(h, paint, p[k]) = {x[k] : x \in CommonCode(f, g, p)}
      BY <1>0, <2>2 DEF BareAs
    <3>2. Bare(h, paint, p[k]) # {} /\ p[k] \in DOMAIN h
      BY <1>0, <2>2, <3>1
    <3> QED
      BY <3>2 DEF Legible
  <2> QED
    BY <2>1, <2>2 DEF Readable
<1>2. ASSUME NEW i \in Legible(h, paint) PROVE \E p \in Readable(f, g) : p[k] = i
  <2>1. i \in DOMAIN h
    BY DEF Legible, Unpainted
  <2>2. CASE i \notin left
    BY <1>0, <2>1, <2>2 DEF Readable
  <2>3. CASE i \in left
    <3>1. ASSUME \A p \in Paired(f, g) : p[k] = i => IsWhole(f, g, p) PROVE FALSE
      <4>1. Differs(f, g, k, h[i].code, left, i, 0)
        BY <1>0, <2>3, <3>1 DEF Differs
      <4>2. i \notin Unpainted(h, paint)
        BY <1>0, <2>1, <4>1, UnpaintedIsUnmarked
      <4>3. Bare(h, paint, i) = {}
        BY <1>0, <2>3, <3>1 DEF BareAs
      <4> QED
        BY <4>2, <4>3 DEF Legible
    <3>2. PICK p \in Paired(f, g) : p[k] = i /\ ~IsWhole(f, g, p)
      BY <3>1
    <3>3. ASSUME CommonCode(f, g, p) = {} PROVE FALSE
      <4>1. 1 \in DOMAIN h[i].code
        <5>1. h[i] \in Block
          <6> HIDE DEF Block
          <6> QED
            BY <1>0, <2>1
        <5>2. h[i].code \in Seq(Seq(STRING)) /\ h[i].code # << >>
          BY <1>0, <3>2, <5>1 DEF Block
        <5> HIDE DEF Block
        <5> QED
          BY <5>2
      <4>2. Differs(f, g, k, h[i].code, left, i, 1)
        BY <1>0, <3>2, <3>3, <4>1 DEF Differs
      <4>3. i \notin Unpainted(h, paint)
        BY <1>0, <2>1, <4>2, UnpaintedIsUnmarked
      <4>4. Bare(h, paint, p[k]) = {x[k] : x \in CommonCode(f, g, p)}
        BY <1>0, <3>2 DEF BareAs
      <4>5. Bare(h, paint, i) = {}
        BY <3>2, <3>3, <4>4
      <4> QED
        BY <4>3, <4>5 DEF Legible
    <3> QED
      BY <3>2, <3>3 DEF Readable
  <2> QED
    BY <2>2, <2>3
<1> QED
  BY <1>1, <1>2

(* What is aligned of two codes reads alike. *)
LEMMA AlignedReadsAlike ==
    ASSUME NEW b \in Seq(Seq(STRING)), NEW c \in Seq(Seq(STRING))
    PROVE  ReadAlike(b, {x[1] : x \in Aligned(b, c)}, c, {x[2] : x \in Aligned(b, c)})
<1> DEFINE R == Aligned(b, c)
           is == {x[1] : x \in R}
           js == {x[2] : x \in R}
<1>1. /\ OneToOne(R) /\ InOrder(R)
      /\ \A x \in R : b[x[1]] = c[x[2]] /\ x = <<x[1], x[2]>>
  BY CodeIsAligned DEF AlignsCode
<1> HIDE DEF R
<1>2. R \in SUBSET (is \X js)
  BY <1>1
<1>3. /\ \A i \in is : \E x \in R : x[1] = i
      /\ \A j \in js : \E x \in R : x[2] = j
  OBVIOUS
<1> HIDE DEF is, js
<1>4. PICK o \in Bijection(is, js) : \A i \in is : <<i, o[i]>> \in R
  <2>1. OneToOne(R)
    BY <1>1
  <2> QED
    BY <1>2, <1>3, <2>1, OneToOneMaps
<1>5. ASSUME NEW k \in is, NEW l \in is
      PROVE  b[k] = c[o[k]] /\ (k < l => o[k] < o[l])
  <2>1. <<k, o[k]>> \in R /\ <<l, o[l]>> \in R
    BY <1>4
  <2>2. \A x, y : <<x, y>>[1] = x /\ <<x, y>>[2] = y
    OBVIOUS
  <2>3. b[<<k, o[k]>>[1]] = c[<<k, o[k]>>[2]]
    BY <1>1, <2>1
  <2>4. <<k, o[k]>>[1] < <<l, o[l]>>[1] => <<k, o[k]>>[2] < <<l, o[l]>>[2]
    BY <1>1, <2>1 DEF InOrder
  <2> QED
    BY <2>2, <2>3, <2>4
<1> QED
  BY <1>4, <1>5 DEF ReadAlike, R, is, js

(* Blocks of which something can be read are as many, and read alike. *)
LEMMA LegibleIsAlike ==
    ASSUME NEW f \in Seq(Block), NEW g \in Seq(Block), f # << >>, g # << >>,
           OneEntry(f), OneEntry(g),
           NEW one, one = Annotations(f, g).source,
           NEW two, two = Annotations(f, g).target
    PROVE  \E o \in Bijection(Legible(f, one), Legible(g, two)) :
              \A i \in Legible(f, one) :
                 ReadAlike(f[i].code, Bare(f, one, i), g[o[i]].code, Bare(g, two, o[i]))
<1> DEFINE R == Readable(f, g)
           A == Legible(f, one)
           B == Legible(g, two)
           left1 == Left(f, g)
           left2 == Left(g, f)
<1>1. left1 \in SUBSET DOMAIN f /\ left2 \in SUBSET DOMAIN g
  BY BlocksArePaired
<1>2. BareAs(f, f, g, 1, left1, one) /\ BareAs(g, f, g, 2, left2, two)
  BY BareBlocks
<1>3. \A b, n : /\ Marked(one, b, n) <=> Differs(f, g, 1, f[b].code, left1, b, n)
                /\ Marked(two, b, n) <=> Differs(f, g, 2, g[b].code, left2, b, n)
  BY WhatIsMarked
<1>4. \A p \in Paired(f, g) : p[1] \in left1 /\ p[2] \in left2
  BY PairedOnce
<1>5. \A p \in Paired(f, g) :
         ~IsWhole(f, g, p) => f[p[1]].code # << >> /\ g[p[2]].code # << >>
  BY DEF IsWhole, Whole
<1>6. \A p \in Anchored(f, g) : /\ p[1] \in DOMAIN f \ left1
                                /\ p[2] \in DOMAIN g \ left2
  BY DEF Anchored
<1>7. /\ \A i \in DOMAIN f \ left1 : \E p \in Anchored(f, g) : p[1] = i
      /\ \A j \in DOMAIN g \ left2 : \E p \in Anchored(f, g) : p[2] = j
  <2>1. ASSUME NEW i \in DOMAIN f \ left1 PROVE \E p \in Anchored(f, g) : p[1] = i
    <3>1. PICK j \in DOMAIN g : <<i, j>> \in Anchored(f, g)
      BY AnchorExists
    <3> QED
      BY <3>1
  <2>2. ASSUME NEW j \in DOMAIN g \ left2 PROVE \E p \in Anchored(f, g) : p[2] = j
    <3>1. PICK i \in DOMAIN f : <<j, i>> \in Anchored(g, f)
      BY AnchorExists
    <3>2. <<i, j>> \in Anchored(f, g)
      BY <3>1, AnchoredFlips
    <3> QED
      BY <3>2
  <2> QED
    BY <2>1, <2>2
<1> HIDE DEF left1, left2
<1>8. /\ \A p \in R : p[1] \in A /\ p[2] \in B
      /\ \A i \in A : \E p \in R : p[1] = i
      /\ \A j \in B : \E p \in R : p[2] = j
  <2>1. /\ \A p \in Readable(f, g) : p[1] \in Legible(f, one)
        /\ \A i \in Legible(f, one) : \E p \in Readable(f, g) : p[1] = i
    <3>1. /\ \A b, n : Marked(one, b, n)
                           <=> Differs(f, g, 1, f[b].code, left1, b, n)
          /\ \A p \in Paired(f, g) : p[1] \in left1
          /\ \A p \in Paired(f, g) : ~IsWhole(f, g, p) => f[p[1]].code # << >>
          /\ \A p \in Anchored(f, g) : p[1] \in DOMAIN f \ left1
      BY <1>3, <1>4, <1>5, <1>6
    <3> HIDE DEF R, A, B
    <3>2. IsSide(f, f, g, 1, left1, one)
      BY <1>1, <1>2, <1>7, <3>1 DEF IsSide
    <3> QED
      BY <3>2, WhatIsLegible
  <2>2. /\ \A p \in Readable(f, g) : p[2] \in Legible(g, two)
        /\ \A j \in Legible(g, two) : \E p \in Readable(f, g) : p[2] = j
    <3>1. /\ \A b, n : Marked(two, b, n)
                           <=> Differs(f, g, 2, g[b].code, left2, b, n)
          /\ \A p \in Paired(f, g) : p[2] \in left2
          /\ \A p \in Paired(f, g) : ~IsWhole(f, g, p) => g[p[2]].code # << >>
          /\ \A p \in Anchored(f, g) : p[2] \in DOMAIN g \ left2
      BY <1>3, <1>4, <1>5, <1>6
    <3> HIDE DEF R, A, B
    <3>2. IsSide(g, f, g, 2, left2, two)
      BY <1>1, <1>2, <1>7, <3>1 DEF IsSide
    <3> QED
      BY <3>2, WhatIsLegible
  <2> QED
    BY <2>1, <2>2
<1>9. OneToOne(R) /\ R \in SUBSET ((DOMAIN f) \X (DOMAIN g))
  <2>1. R \subseteq BarePairs(f, g)
    BY DEF Readable, BarePairs
  <2> HIDE DEF R
  <2> QED
    BY <2>1, BarePairsOnce DEF OneToOne
<1>10. R \in SUBSET (A \X B)
  <2>1. \A p \in R : p = <<p[1], p[2]>>
    <3> HIDE DEF R
    <3> QED
      BY <1>9
  <2> HIDE DEF R, A, B
  <2> QED
    BY <1>8, <2>1
<1>11. ASSUME NEW i, NEW j, <<i, j>> \in R
       PROVE  ReadAlike(f[i].code, Bare(f, one, i), g[j].code, Bare(g, two, j))
  <2>1. i \in DOMAIN f /\ j \in DOMAIN g
    <3> HIDE DEF R
    <3> QED
      BY <1>9, <1>11
  <2>2. CASE <<i, j>> \in Anchored(f, g)
    <3>1. /\ i \in DOMAIN f \ left1 /\ j \in DOMAIN g \ left2
          /\ Text(f[i]) = Text(g[j])
      BY <2>2 DEF Anchored, left1, left2
    <3>2. Bare(f, one, i) = DOMAIN f[i].code /\ Bare(g, two, j) = DOMAIN g[j].code
      BY <1>2, <3>1 DEF BareAs
    <3> QED
      BY <3>1, <3>2 DEF ReadAlike, Text
  <2>3. CASE <<i, j>> \in Paired(f, g) /\ ~IsWhole(f, g, <<i, j>>)
    <3> DEFINE p == <<i, j>>
    <3>1. p[1] = i /\ p[2] = j
      OBVIOUS
    <3>2. /\ Bare(f, one, p[1]) = {x[1] : x \in CommonCode(f, g, p)}
          /\ Bare(g, two, p[2]) = {x[2] : x \in CommonCode(f, g, p)}
      BY <1>2, <2>3 DEF BareAs
    <3>3. CommonCode(f, g, p) = Aligned(f[i].code, g[j].code)
      BY DEF CommonCode
    <3> HIDE DEF p
    <3>4. f[i].code \in Seq(Seq(STRING)) /\ g[j].code \in Seq(Seq(STRING))
      <4>1. f[i] \in Block /\ g[j] \in Block
        <5> HIDE DEF Block
        <5> QED
          BY <2>1
      <4> QED
        BY <4>1 DEF Block
    <3>5. /\ Bare(f, one, i) = {x[1] : x \in Aligned(f[i].code, g[j].code)}
          /\ Bare(g, two, j) = {x[2] : x \in Aligned(f[i].code, g[j].code)}
      BY <3>1, <3>2, <3>3
    <3> QED
      BY <3>4, <3>5, AlignedReadsAlike
  <2> QED
    BY <1>11, <2>2, <2>3 DEF Readable
<1> HIDE DEF R, A, B
<1>12. PICK o \in Bijection(A, B) : \A i \in A : <<i, o[i]>> \in R
  BY <1>8, <1>9, <1>10, OneToOneMaps
<1> QED
  BY <1>11, <1>12 DEF A, B

(* Only what is left is painted: then the first copies are not, as many as the
   other function has. *)
LEMMA DuePaint ==
    ASSUME NEW f \in Seq(Block), NEW g \in Seq(Block), NEW paint,
           \A i, n : Marked(paint, i, n) => i \in Left(f, g)
    PROVE  PaintIsDue(f, g, paint)
<1> SUFFICES ASSUME NEW p \in paint
             PROVE  LET x == Text(f[p.block])
                    IN IF p.block \in Plain(f, g)
                       THEN Cardinality(Twins(f, g, x) \cap Unpainted(f, paint))
                               >= Cardinality(Twins(g, f, x))
                       ELSE \E j \in Entries(g) : Text(g[j]) # x
  BY DEF PaintIsDue
<1> DEFINE i == p.block
           x == Text(f[i])
           V == Twins(f, g, x)
           W == Twins(g, f, x)
<1>1. i \in Left(f, g) /\ i \in DOMAIN f
  <2>1. Marked(paint, i, p.instruction)
    BY DEF Marked
  <2>2. Left(f, g) \subseteq DOMAIN f
    BY BlocksArePaired
  <2> QED
    BY <2>1, <2>2
<1>2. CASE i \notin Plain(f, g)
  BY <1>1, <1>2, WhatIsLeft
<1>3. CASE i \in Plain(f, g)
  <2> DEFINE c == Cardinality(W)
             low == {k \in V : Rank(V, k) <= c}
             rank == [k \in low |-> Rank(V, k)]
             kept == V \cap Unpainted(f, paint)
  <2>1. /\ V \in SUBSET Nat /\ IsFiniteSet(V) /\ IsFiniteSet(W)
        /\ c \in Nat /\ Cardinality(V) \in Nat
    <3>1. V \in SUBSET Nat /\ IsFiniteSet(V) /\ IsFiniteSet(W)
      BY TwinsAreFinite
    <3> QED
      BY <3>1, FS_CardinalityType
  <2>2. i \in V /\ Rank(V, i) > c
    BY <1>1, <1>3, WhatIsLeft DEF Twins
  <2>3. low \subseteq kept
    <3> SUFFICES ASSUME NEW k \in low PROVE k \in Unpainted(f, paint)
      OBVIOUS
    <3>1. k \in Plain(f, g) /\ Text(f[k]) = x /\ k \in DOMAIN f
      BY DEF Twins, Plain
    <3>2. ~(Rank(V, k) > c)
      <4>1. k \in V /\ Rank(V, k) <= c
        OBVIOUS
      <4> HIDE DEF V, W, c
      <4>2. Rank(V, k) \in Nat
        BY <2>1, <4>1, RanksDiffer
      <4> HIDE DEF low, rank, kept
      <4> QED
        BY <2>1, <4>1, <4>2
    <3>3. k \notin Left(f, g)
      BY <3>1, <3>2, WhatIsLeft
    <3> QED
      BY <3>1, <3>3, UnpaintedIsUnmarked
  <2> HIDE DEF V, W, c
  <2>4. IsFiniteSet(low) /\ IsFiniteSet(kept)
    <3>1. low \in SUBSET V /\ kept \in SUBSET V
      OBVIOUS
    <3> HIDE DEF low, kept
    <3> QED
      BY <2>1, <3>1, FS_Subset
  <2>5. rank \in Surjection(low, 1..c)
    <3>1. /\ \A k \in V : Rank(V, k) \in 1..Cardinality(V)
          /\ \A n \in 1..Cardinality(V) : \E k \in V : Rank(V, k) = n
      BY <2>1, RanksDiffer
    <3>2. \A n \in 1..c : n \in 1..Cardinality(V)
      <4>1. Rank(V, i) \in 1..Cardinality(V) /\ Rank(V, i) > c
        BY <2>2, <3>1
      <4>2. \A h, k, n \in Nat : h \in 1..k /\ h > n => 1..n \subseteq 1..k
        OBVIOUS
      <4>3. Rank(V, i) \in Nat
        BY <4>1
      <4> QED
        BY <2>1, <4>1, <4>2, <4>3
    <3>3. \A k \in low : Rank(V, k) \in 1..c
      BY <2>1, <3>1
    <3>4. \A n \in 1..c : \E k \in low : Rank(V, k) = n
      BY <3>1, <3>2
    <3> HIDE DEF low
    <3> QED
      BY <3>3, <3>4 DEF Surjection
  <2> HIDE DEF rank
  <2>6. Cardinality(1..c) <= Cardinality(low) /\ Cardinality(1..c) = c
    <3> HIDE DEF low
    <3>1. Cardinality(1..c) = c
      BY <2>1, FS_Interval
    <3> QED
      BY <2>4, <2>5, <3>1, FS_Surjection
  <2> HIDE DEF low, kept
  <2>7. Cardinality(low) <= Cardinality(kept)
    BY <2>3, <2>4, FS_Subset
  <2>8. Cardinality(low) \in Nat /\ Cardinality(kept) \in Nat
    BY <2>4, FS_CardinalityType
  <2>9. Cardinality(kept) >= c
    BY <2>1, <2>6, <2>7, <2>8
  <2> QED
    BY <1>3, <2>9 DEF kept, c, V, W
<1> QED
  BY <1>2, <1>3

(* What is shown is the paint of two functions that there may be. *)
Rendered ==
    shown # Nothing =>
       /\ shown.source \in Shapes /\ shown.target \in Shapes
       /\ shown.paint = Annotations(shown.source, shown.target)

LEMMA RenderedStep ==
    ASSUME Rendered, [SessionNext]_<<vars, sessionVars>>
    PROVE  Rendered'
<1>1. ASSUME NEW r \in results, Render(r) PROVE Rendered'
  <2>1. PICK f \in Shapes, g \in Shapes :
           shown' = [source |-> f, target |-> g, paint |-> Annotations(f, g)]
    BY <1>1 DEF Render
  <2>2. /\ shown'.source = f /\ shown'.target = g
        /\ shown'.paint = Annotations(f, g)
    BY <2>1
  <2> QED
    BY <2>2 DEF Rendered
<1>2. ASSUME shown' = shown PROVE Rendered'
  BY <1>2 DEF Rendered
<1> QED
  BY <1>1, <1>2 DEF SessionNext, Rename, ApplyName, StartApply, CopyName,
                    ApplyFails, ReadSymbol, FinishApply, sessionVars

LEMMA RenderedIsExact == Rendered => PaintIsExact
<1> DEFINE f == shown.source
           g == shown.target
           one == Annotations(f, g).source
           two == Annotations(f, g).target
<1> SUFFICES ASSUME Rendered, f # << >>, g # << >>
             PROVE  /\ \E o \in Bijection(Legible(f, shown.paint.source),
                                          Legible(g, shown.paint.target)) :
                          \A i \in Legible(f, shown.paint.source) :
                             ReadAlike(f[i].code, Bare(f, shown.paint.source, i),
                                       g[o[i]].code, Bare(g, shown.paint.target, o[i]))
                    /\ PaintIsDue(f, g, shown.paint.source)
                    /\ PaintIsDue(g, f, shown.paint.target)
                    /\ \A side \in {"source", "target"} : \A p \in shown.paint[side] :
                          shown[side][p.block].entry /\ p.instruction < 2 => p.changed
  BY DEF PaintIsExact
<1>1. shown # Nothing
  BY DEF Nothing
<1>2. /\ f \in Shapes /\ g \in Shapes
      /\ shown.paint = Annotations(f, g)
  BY <1>1 DEF Rendered
<1>3. /\ f \in Seq(Block) /\ g \in Seq(Block) /\ OneEntry(f) /\ OneEntry(g)
  BY <1>2, SessionConstants DEF OneEntry
<1>4. shown.paint.source = one /\ shown.paint.target = two
  BY <1>2
<1> HIDE DEF f, g
<1>5. \E o \in Bijection(Legible(f, one), Legible(g, two)) :
         \A i \in Legible(f, one) :
            ReadAlike(f[i].code, Bare(f, one, i), g[o[i]].code, Bare(g, two, o[i]))
  BY <1>3, LegibleIsAlike
<1>6. PaintIsDue(f, g, one) /\ PaintIsDue(g, f, two)
  <2>1. ASSUME NEW i, NEW n
        PROVE  /\ Marked(one, i, n) => i \in Left(f, g)
               /\ Marked(two, i, n) => i \in Left(g, f)
    <3>1. \A p \in Paired(f, g) : p[1] \in Left(f, g) /\ p[2] \in Left(g, f)
      BY <1>3, PairedOnce
    <3>2. /\ Marked(one, i, n) => Differs(f, g, 1, f[i].code, Left(f, g), i, n)
          /\ Marked(two, i, n) => Differs(f, g, 2, g[i].code, Left(g, f), i, n)
      BY <1>3, WhatIsMarked
    <3> HIDE DEF one, two
    <3> QED
      BY <3>1, <3>2 DEF Differs
  <2> HIDE DEF one, two
  <2> QED
    BY <1>3, <2>1, DuePaint
<1>7. /\ \A p \in one : f[p.block].entry /\ p.instruction < 2 => p.changed
      /\ \A p \in two : g[p.block].entry /\ p.instruction < 2 => p.changed
  <2> DEFINE rough1 == Strokes(f, g, 1, Left(f, g))
             rough2 == Strokes(f, g, 2, Left(g, f))
  <2>1. rough1 \in SUBSET OfFunction(f) /\ rough2 \in SUBSET OfFunction(g)
    BY <1>3, StrokesAreOfFunctions
  <2>2. one = EntryChanged(f, rough1) /\ two = EntryChanged(g, rough2)
    BY AnnotationsAreStrokes
  <2> HIDE DEF one, two, rough1, rough2
  <2> QED
    BY <2>1, <2>2, EntryKeepsMarks
<1> HIDE DEF one, two
<1>8. \A side \in {"source", "target"} : \A p \in shown.paint[side] :
         shown[side][p.block].entry /\ p.instruction < 2 => p.changed
  BY <1>4, <1>7 DEF f, g
<1> QED
  BY <1>4, <1>5, <1>6, <1>8

(* However two functions are rendered, the blocks with anything unpainted read
   alike in both, one for one; a block that both have stays unpainted as often
   as both have it; and the header at an entry is painted as changed at most. *)
THEOREM PaintExact == SessionSpec => []PaintIsExact
<1>1. SessionInit => Rendered
  BY DEF SessionInit, Rendered
<1>2. Rendered /\ [SessionNext]_<<vars, sessionVars>> => Rendered'
  BY RenderedStep
<1> QED
  BY <1>1, <1>2, RenderedIsExact, PTL DEF SessionSpec

-----------------------------------------------------------------------------
(* The lead of a candidate *)

(* The best score of a group and the best of its others. *)
AreTopTwo(s, group, top) ==
    \/ group = {} /\ top.best = None /\ top.second = None
    \/ \E b \in group :
          /\ top.best = s[b].score
          /\ \A x \in group : s[x].score <= top.best
          /\ \/ group = {b} /\ top.second = None
             \/ \E c \in group \ {b} :
                   /\ top.second = s[c].score
                   /\ \A x \in group \ {b} : s[x].score <= top.second

Scores == [best : Int \cup {None}, second : Int \cup {None}]

(* One candidate more, ranked behind all others but with any score. *)
LEMMA NextIsBest ==
    ASSUME NEW s, NEW group, NEW h \in group, NEW top \in Scores,
           \A x \in group : s[x].score \in Int,
           AreTopTwo(s, group \ {h}, top)
    PROVE  AreTopTwo(s, group, NextBest(top, s[h]))
<1> DEFINE c == s[h].score
           U == group \ {h}
           next == NextBest(top, s[h])
<1>1. c \in Int /\ c # None /\ DOMAIN top = {"best", "second"}
  BY NoneIsNoNumber DEF Scores
<1>2. CASE U = {} /\ top.best = None /\ top.second = None
  <2>1. next.best = c /\ next.second = None
    BY <1>2 DEF NextBest
  <2>2. group = {h}
    BY <1>2
  <2> QED
    BY <1>1, <2>1, <2>2 DEF AreTopTwo
<1>3. ASSUME NEW b \in U,
             top.best = s[b].score,
             \A x \in U : s[x].score <= top.best,
             \/ U = {b} /\ top.second = None
             \/ \E d \in U \ {b} :
                   /\ top.second = s[d].score
                   /\ \A x \in U \ {b} : s[x].score <= top.second
      PROVE  AreTopTwo(s, group, next)
  <2>1. top.best \in Int /\ top.best # None
    BY <1>3, NoneIsNoNumber
  <2>2. CASE c >= top.best
    <3>1. next.best = c /\ next.second = top.best
      BY <2>1, <2>2 DEF NextBest
    <3>2. \A x \in group : s[x].score <= c
      BY <1>1, <1>3, <2>1, <2>2
    <3>3. b \in group \ {h} /\ \A x \in group \ {h} : s[x].score <= top.best
      BY <1>3
    <3> QED
      BY <1>3, <3>1, <3>2, <3>3 DEF AreTopTwo
  <2>3. CASE c < top.best /\ (top.second = None \/ c > top.second)
    <3>1. next.best = top.best /\ next.second = c
      BY <1>1, <2>1, <2>3 DEF NextBest
    <3>2. \A x \in group : s[x].score <= top.best
      BY <1>1, <1>3, <2>1, <2>3
    <3>3. h \in group \ {b}
      BY <1>3
    <3>4. \A x \in group \ {b} : s[x].score <= c
      <4> SUFFICES ASSUME NEW x \in group \ {b}, x # h PROVE s[x].score <= c
        BY <1>1
      <4>1. x \in U \ {b}
        OBVIOUS
      <4>2. PICK d \in U \ {b} : /\ top.second = s[d].score
                                 /\ \A y \in U \ {b} : s[y].score <= top.second
        BY <1>3, <4>1
      <4>3. top.second \in Int /\ top.second # None /\ s[x].score \in Int
        BY <4>2, NoneIsNoNumber
      <4> QED
        BY <1>1, <2>3, <4>1, <4>2, <4>3
    <3> QED
      BY <1>3, <3>1, <3>2, <3>3, <3>4 DEF AreTopTwo
  <2>4. CASE c < top.best /\ ~(top.second = None \/ c > top.second)
    <3>1. next = top
      BY <1>1, <2>1, <2>4 DEF NextBest
    <3>2. \A x \in group : s[x].score <= top.best
      BY <1>1, <1>3, <2>1, <2>4
    <3>3. PICK d \in U \ {b} : /\ top.second = s[d].score
                               /\ \A y \in U \ {b} : s[y].score <= top.second
      BY <1>3, <2>4
    <3>4. \A x \in group \ {b} : s[x].score <= top.second
      <4>1. c <= top.second
        BY <1>1, <2>4, <3>3
      <4> QED
        BY <3>3, <4>1
    <3>5. d \in group \ {b} /\ b \in group
      BY <1>3
    <3> HIDE DEF next, U
    <3> QED
      BY <1>3, <3>1, <3>2, <3>3, <3>4, <3>5 DEF AreTopTwo
  <2> QED
    BY <1>1, <2>1, <2>2, <2>3, <2>4
<1> QED
  BY <1>2, <1>3 DEF AreTopTwo

(* What is found of a group are its best two scores. *)
LEMMA TopTwoFound ==
    ASSUME NEW s \in Seq(Candidate), NEW group \in SUBSET DOMAIN s
    PROVE  AreTopTwo(s, group, TopTwo(s, group))
<1> DEFINE n == Cardinality(group)
           D == SUBSET group
           V == Scores
           hind(is) == CHOOSE i \in is : \A j \in is \ {i} : Ahead(s, j, i)
           none == [best |-> None, second |-> None]
           size == [is \in D |-> Cardinality(is)]
           left == [is \in D |-> is \ {hind(is)}]
           step == [x \in D \X V \X V |->
                      IF x[1] = {} THEN none ELSE NextBest(x[2], s[hind(x[1])])]
           Body(h) == [is \in D |-> IF is = {} THEN none
                                    ELSE NextBest(h[is \ {hind(is)}], s[hind(is)])]
<1>1. ASSUME NEW is \in D PROVE IsFiniteSet(is) /\ Cardinality(is) \in 0..n
  <2>1. IsFiniteSet(group)
    BY PlacesAreFinite, FS_Subset
  <2> QED
    BY <2>1, FS_Subset, FS_CardinalityType
<1>2. ASSUME NEW is \in D, is # {} PROVE hind(is) \in is
  <2> DEFINE after == [i \in is |-> {j \in is : Ahead(s, i, j)}]
  <2>1. /\ \A i \in is : after[i] \subseteq is /\ i \notin after[i]
        /\ \A i, j, k \in is : i \in after[j] /\ j \in after[k] => i \in after[k]
        /\ \A i, j \in is : i # j => i \in after[j] \/ j \in after[i]
    BY AheadOrders
  <2>2. PICK i \in is : after[i] = {}
    <3> HIDE DEF after
    <3> QED
      BY <1>1, <1>2, <2>1, FirstExists
  <2>3. \A j \in is \ {i} : Ahead(s, j, i)
    BY <2>1, <2>2
  <2> QED
    BY <2>3
<1> HIDE DEF hind
<1>3. \A i \in DOMAIN s : s[i].score \in Int
  <2> SUFFICES ASSUME NEW i \in DOMAIN s PROVE s[i].score \in Int
    OBVIOUS
  <2>1. s[i] \in Candidate
    OBVIOUS
  <2> QED
    BY <2>1 DEF Candidate
<1>4. ASSUME NEW top \in V, NEW i \in DOMAIN s PROVE NextBest(top, s[i]) \in V
  BY <1>3 DEF NextBest, Scores
<1>5. /\ size \in [D -> 0..n] /\ left \in [D -> D] /\ none \in V
      /\ \A is \in D \ {{}} : size[left[is]] < size[is]
  <2>1. ASSUME NEW is \in D, is # {} PROVE size[left[is]] < size[is]
    <3>1. Cardinality(is \ {hind(is)}) = Cardinality(is) - 1
      BY <1>1, <1>2, <2>1, FS_RemoveElement
    <3>2. Cardinality(is) \in Nat
      BY <1>1
    <3>3. size[left[is]] = Cardinality(is \ {hind(is)}) /\ size[is] = Cardinality(is)
      OBVIOUS
    <3> HIDE DEF size, left
    <3> QED
      BY <3>1, <3>2, <3>3
  <2> QED
    BY <1>1, <2>1 DEF Scores
<1>6. step \in [D \X V \X V -> V]
  <2>1. ASSUME NEW is \in D, NEW y \in V
        PROVE  (IF is = {} THEN none ELSE NextBest(y, s[hind(is)])) \in V
    <3>1. is # {} => hind(is) \in DOMAIN s
      BY <1>2
    <3> HIDE DEF none, V
    <3> QED
      BY <1>4, <1>5, <3>1
  <2> HIDE DEF D, V
  <2>2. \A x \in D \X V \X V : x[1] \in D /\ x[2] \in V
    OBVIOUS
  <2> QED
    BY <2>1, <2>2
<1>7. n \in Nat
  BY <1>1
<1>8. PICK h \in [D -> V] : h = Body(h)
  <2>1. PICK h \in [D -> V] : Solution(h, D, none, {{}}, left, left, step)
    <3> HIDE DEF n, D, V, size, left, step, none
    <3>1. Recursive(D, V, n, size, none, {{}}, left, left, step)
      BY <1>5, <1>6, <1>7 DEF Recursive
    <3> QED
      BY <3>1, RecursionExists
  <2>2. ASSUME NEW is \in D PROVE h[is] = Body(h)[is]
    <3>1. CASE is = {}
      BY <2>1, <3>1 DEF Solution
    <3>2. CASE is # {}
      <4>1. left[is] \in D /\ left[is] = is \ {hind(is)} /\ h[left[is]] \in V
        BY <1>5
      <4>2. h[is] = step[<<is, h[left[is]], h[left[is]]>>]
        BY <2>1, <3>2 DEF Solution
      <4>3. \A x \in D \X V \X V :
               x[1] # {} => step[x] = NextBest(x[2], s[hind(x[1])])
        OBVIOUS
      <4>4. <<is, h[left[is]], h[left[is]]>> \in D \X V \X V
        BY <4>1
      <4>5. h[is] = NextBest(h[left[is]], s[hind(is)])
        <5> HIDE DEF D, V, left, step
        <5> QED
          BY <3>2, <4>2, <4>3, <4>4
      <4> QED
        BY <3>2, <4>1, <4>5
    <3> QED
      BY <3>1, <3>2
  <2>3. Body(h) = [is \in D |-> Body(h)[is]] /\ h = [is \in D |-> h[is]]
    OBVIOUS
  <2> HIDE DEF Body
  <2> QED
    BY <2>2, <2>3
<1> DEFINE Upto == CHOOSE x : x = Body(x)
           good == {is \in D : Upto[is] \in V /\ AreTopTwo(s, is, Upto[is])}
<1>9. TopTwo(s, group) = Upto[group]
  BY DEF TopTwo, hind
<1>10. Upto = Body(Upto)
  <2> HIDE DEF Body
  <2> QED
    BY <1>8
<1>11. ASSUME NEW is \in D, \A js \in D : size[js] < size[is] => js \in good
       PROVE  is \in good
  <2>1. Upto[is] = Body(Upto)[is]
    BY <1>10
  <2> HIDE DEF Upto
  <2>2. CASE is = {}
    <3>1. Upto[is] = none
      BY <2>1, <2>2
    <3> QED
      BY <1>5, <2>2, <3>1 DEF AreTopTwo
  <2>3. CASE is # {}
    <3> DEFINE last == hind(is)
               js == is \ {last}
               top == Upto[js]
    <3>1. js \in good
      <4>1. left[is] \in D /\ size[left[is]] < size[is] /\ left[is] = js
        BY <1>5, <2>3
      <4> HIDE DEF D, size, left, js, good
      <4> QED
        BY <1>11, <4>1
    <3>2. last \in is /\ last \in DOMAIN s /\ \A x \in is : s[x].score \in Int
      BY <1>2, <1>3, <2>3
    <3>3. Upto[is] = NextBest(top, s[last])
      BY <2>1, <2>3
    <3>4. top \in V /\ AreTopTwo(s, is \ {last}, top)
      BY <3>1
    <3> HIDE DEF last, js, top, V
    <3>5. NextBest(top, s[last]) \in V
      BY <1>4, <3>2, <3>4
    <3>6. AreTopTwo(s, is, NextBest(top, s[last]))
      <4>1. top \in Scores
        BY <3>4 DEF V
      <4> QED
        BY <3>2, <3>4, <4>1, NextIsBest
    <3> QED
      BY <3>3, <3>5, <3>6
  <2> QED
    BY <2>2, <2>3
<1>12. group \in good
  <2>1. \A is \in D : (\A js \in D : size[js] < size[is] => js \in good)
                        => is \in good
    <3> HIDE DEF D, size, good
    <3> QED
      BY <1>11
  <2>2. size \in [D -> Nat]
    BY <1>5
  <2>3. group \in D
    OBVIOUS
  <2> HIDE DEF D, size, good
  <2> QED
    BY <2>1, <2>2, <2>3, SizeInduction
<1>13. AreTopTwo(s, group, Upto[group])
  <2> HIDE DEF Upto
  <2> QED
    BY <1>12
<1> HIDE DEF Upto
<1> QED
  BY <1>9, <1>13

(* A match is a candidate that counts, with the statistics of its group. *)
IsSelected(s, k, m) ==
    /\ k \in Accepted(s, Params)
    /\ \A x \in Fields \ {"offset"} : m[x] = Selected(s, Params, k)[x]

HasStatistics(s, group, k, m) ==
    /\ k \in DOMAIN s /\ k \in group /\ group \subseteq DOMAIN s
    /\ \A x \in group : s[x].source = m.source
    /\ s[k].source = m.source /\ s[k].fid = m.fid
    /\ s[k].score = m.score /\ s[k].bytes = m.bytes
    /\ m.bytes \in Nat /\ \A x \in group : s[x].score \in Int
    /\ m.candidates = Cardinality(group)
    /\ AreTopTwo(s, group, [best |-> m.best, second |-> m.second])

LEMMA SelectedFields ==
    ASSUME NEW s \in Seq(Candidate), NEW k, NEW m, IsSelected(s, k, m)
    PROVE  HasStatistics(s, Group(s, Params, k), k, m)
<1> DEFINE group == Group(s, Params, k)
           top == TopTwo(s, group)
<1>1. k \in DOMAIN s /\ k \in group /\ group \in SUBSET DOMAIN s
  BY DEF IsSelected, Group, Accepted
<1>2. \A x \in group : s[x].source = s[k].source
  BY DEF Group
<1>3. \A x \in DOMAIN s : s[x].score \in Int /\ s[x].bytes \in Nat
  <2> SUFFICES ASSUME NEW x \in DOMAIN s PROVE s[x].score \in Int /\ s[x].bytes \in Nat
    OBVIOUS
  <2>1. s[x] \in Candidate
    OBVIOUS
  <2> QED
    BY <2>1 DEF Candidate
<1>4. AreTopTwo(s, group, top)
  BY <1>1, TopTwoFound
<1> HIDE DEF group
<1>5. /\ m.source = s[k].source /\ m.fid = s[k].fid
      /\ m.score = s[k].score /\ m.bytes = s[k].bytes
      /\ m.candidates = Cardinality(group)
      /\ m.best = top.best /\ m.second = top.second
  BY DEF IsSelected, Fields, Selected, group
<1>6. AreTopTwo(s, group, [best |-> m.best, second |-> m.second])
  BY <1>4, <1>5 DEF AreTopTwo
<1> QED
  BY <1>1, <1>2, <1>3, <1>5, <1>6 DEF group, HasStatistics

(* Where a candidate's group is not itself alone, its margin is a number. *)
LEMMA MarginOfGroup ==
    ASSUME NEW s \in Seq(Candidate), NEW k, NEW m, IsSelected(s, k, m)
    PROVE  LET group == Group(s, Params, k)
           IN /\ Margin(m) = None <=> group = {k}
              /\ group # {k} =>
                    /\ m.best \in Int /\ m.second \in Int
                    /\ Margin(m) = m.score - (IF m.score >= m.best THEN m.second
                                              ELSE m.best)
                    /\ m.second <= m.best /\ m.score <= m.best
                    /\ \E x \in group \ {k} :
                          /\ Margin(m) = m.score - s[x].score
                          /\ \A y \in group \ {k} : s[y].score <= s[x].score
<1> DEFINE group == Group(s, Params, k)
<1>1. /\ k \in group /\ group \in SUBSET DOMAIN s
      /\ m.score = s[k].score /\ \A x \in group : s[x].score \in Int
      /\ m.candidates = Cardinality(group)
      /\ AreTopTwo(s, group, [best |-> m.best, second |-> m.second])
  <2>1. HasStatistics(s, group, k, m)
    BY SelectedFields
  <2> QED
    BY <2>1 DEF HasStatistics
<1>2. IsFiniteSet(group) /\ Cardinality(group) \in Nat
  <2> HIDE DEF group
  <2> QED
    BY <1>1, PlacesAreFinite, FS_Subset, FS_CardinalityType
<1> HIDE DEF group
<1>3. k \in group
  BY <1>1
<1>4. /\ IsFiniteSet(group \ {k}) /\ Cardinality(group \ {k}) \in Nat
      /\ Cardinality(group) = 1 + Cardinality(group \ {k})
  <2>1. /\ IsFiniteSet(group \ {k})
        /\ Cardinality(group \ {k}) = Cardinality(group) - 1
    BY <1>2, <1>3, FS_RemoveElement
  <2> QED
    BY <1>2, <2>1, FS_CardinalityType
<1>5. m.candidates < 2 <=> group = {k}
  <2>1. Cardinality(group \ {k}) = 0 <=> group \ {k} = {}
    BY <1>4, FS_EmptySet
  <2> QED
    BY <1>1, <1>4, <2>1
<1>6. CASE group = {k}
  BY <1>5, <1>6 DEF Margin, group
<1>7. CASE group # {k}
  <2>1. PICK b \in group :
           /\ m.best = s[b].score
           /\ \A x \in group : s[x].score <= m.best
           /\ \/ group = {b} /\ m.second = None
              \/ \E c \in group \ {b} :
                    /\ m.second = s[c].score
                    /\ \A x \in group \ {b} : s[x].score <= m.second
    BY <1>1 DEF AreTopTwo
  <2>2. PICK c \in group \ {b} :
           /\ m.second = s[c].score
           /\ \A x \in group \ {b} : s[x].score <= m.second
    BY <1>1, <1>7, <2>1
  <2>3. m.best \in Int /\ m.second \in Int /\ m.score \in Int /\ m.second # None
    BY <1>1, <2>1, <2>2, NoneIsNoNumber
  <2>4. Margin(m) = m.score - (IF m.score >= m.best THEN m.second ELSE m.best)
    BY <1>5, <1>7, <2>3 DEF Margin
  <2>5. Margin(m) \in Int /\ Margin(m) # None
    BY <2>3, <2>4, NoneIsNoNumber
  <2>6. m.second <= m.best /\ m.score <= m.best
    BY <1>1, <2>1, <2>2
  <2>7. \E x \in group \ {k} :
           /\ Margin(m) = m.score - s[x].score
           /\ \A y \in group \ {k} : s[y].score <= s[x].score
    <3>1. CASE k = b
      BY <1>1, <2>1, <2>2, <2>3, <2>4, <3>1
    <3>2. CASE k # b /\ m.score >= m.best
      <4>1. m.second = m.best
        <5>1. s[k].score <= m.second
          BY <1>1, <2>2, <3>2
        <5> QED
          BY <1>1, <2>3, <2>6, <3>2, <5>1
      <4> QED
        BY <1>1, <2>1, <2>3, <2>4, <3>2, <4>1
    <3>3. CASE k # b /\ m.score < m.best
      BY <1>1, <2>1, <2>3, <2>4, <3>3
    <3> QED
      BY <2>3, <3>1, <3>2, <3>3
  <2> QED
    BY <1>7, <2>3, <2>4, <2>5, <2>6, <2>7 DEF group
<1> QED
  BY <1>6, <1>7

(* A share grows with what it is of. *)
LEMMA RoundedGrows ==
    ASSUME NEW x \in Nat, NEW y \in Nat, x <= y, NEW d \in Nat \ {0}
    PROVE  Rounded(x, d) <= Rounded(y, d)
<1> DEFINE p == x \div d
           q == y \div d
           r == x % d
           t == y % d
<1>1. /\ p \in Nat /\ q \in Nat /\ r \in 0..(d - 1) /\ t \in 0..(d - 1)
      /\ x = d * p + r /\ y = d * q + t
  OBVIOUS
<1> HIDE DEF p, q, r, t
<1>2. p <= q
  <2> SUFFICES ASSUME p >= q + 1 PROVE FALSE
    BY <1>1
  <2>1. d * p >= d * (q + 1)
    BY <1>1
  <2>2. d * (q + 1) = d * q + d
    BY <1>1
  <2>3. d * p \in Nat /\ d * q \in Nat
    BY <1>1
  <2> QED
    BY <1>1, <2>1, <2>2, <2>3
<1>3. p = q => r <= t
  BY <1>1
<1>4. /\ Rounded(x, d) = IF 2 * r > d \/ (2 * r = d /\ p % 2 = 1) THEN p + 1 ELSE p
      /\ Rounded(y, d) = IF 2 * t > d \/ (2 * t = d /\ q % 2 = 1) THEN q + 1 ELSE q
  BY DEF Rounded, p, q, r, t
<1> QED
  BY <1>1, <1>2, <1>3, <1>4

LEMMA RoundedIsNatural ==
    ASSUME NEW x \in Nat, NEW d \in Nat \ {0}
    PROVE  Rounded(x, d) \in Nat
<1>1. x \div d \in Nat
  OBVIOUS
<1> QED
  BY <1>1 DEF Rounded

(* ... and so does the confidence with score and margin. *)
LEMMA ConfidenceGrows ==
    ASSUME NEW m, NEW n, ~m.pichash, ~n.pichash,
           m.score \in Int, n.score \in Int, m.score <= n.score,
           m.bytes \in Nat, n.bytes = m.bytes,
           Margin(m) \in Int, Margin(n) \in Int, Margin(m) <= Margin(n)
    PROVE  Confidence(m) <= Confidence(n)
<1> DEFINE x == Clamp(0, m.score, 100)
           y == Clamp(0, n.score, 100)
           size == Clamp(0, m.bytes, 64)
           p == Similarity(m.score)
           q == Similarity(n.score)
           u == UniquenessWeight(Margin(m))
           w == UniquenessWeight(Margin(n))
<1>1. x \in Nat /\ y \in Nat /\ x <= y /\ size \in Nat
  BY DEF Clamp
<1>2. p = Rounded(255 * x, 100) /\ q = Rounded(255 * y, 100)
  BY DEF Similarity
<1>3. u \in Nat /\ w \in Nat /\ u <= w
  <2>1. Margin(m) # None /\ Margin(n) # None
    BY NoneIsNoNumber
  <2> QED
    BY <2>1 DEF UniquenessWeight, Clamp
<1> HIDE DEF x, y
<1>4. p \in Nat /\ q \in Nat /\ p <= q
  <2>1. 255 * x \in Nat /\ 255 * y \in Nat /\ 255 * x <= 255 * y
    BY <1>1
  <2> HIDE DEF p, q
  <2> QED
    BY <1>2, <2>1, RoundedGrows, RoundedIsNatural
<1>5. /\ Confidence(m) = Rounded(p * size * u, 64 * 20)
      /\ Confidence(n) = Rounded(q * size * w, 64 * 20)
  BY DEF Confidence
<1> HIDE DEF p, q, size, u, w
<1>6. ASSUME NEW a \in Nat, NEW b \in Nat, NEW c \in Nat, a <= b
      PROVE  a * c \in Nat /\ b * c \in Nat /\ a * c <= b * c
  <2> DEFINE d == b - a
  <2>1. d \in Nat /\ b = a + d
    BY <1>6
  <2> HIDE DEF d
  <2>2. b * c = a * c + d * c
    BY <2>1
  <2> DEFINE ac == a * c
             bc == b * c
             dc == d * c
  <2>3. ac \in Nat /\ dc \in Nat /\ bc = ac + dc
    BY <2>1, <2>2
  <2> HIDE DEF ac, bc, dc
  <2>4. ac \in Nat /\ bc \in Nat /\ ac <= bc
    BY <2>3
  <2> QED
    BY <2>4 DEF ac, bc
<1>7. p * size \in Nat /\ q * size \in Nat /\ p * size <= q * size
  BY <1>1, <1>4, <1>6
<1> DEFINE e == p * size
           f == q * size
<1>8. e * u \in Nat /\ f * u \in Nat /\ e * u <= f * u
  <2> HIDE DEF e, f
  <2> QED
    BY <1>3, <1>6, <1>7 DEF e, f
<1>9. u * f <= w * f
  <2> HIDE DEF f
  <2> QED
    BY <1>3, <1>6, <1>7 DEF f
<1>10. f * u \in Nat /\ f * w \in Nat /\ f * u <= f * w
  <2>1. f * u = u * f /\ f * w = w * f
    BY <1>3, <1>7
  <2> HIDE DEF f
  <2> QED
    BY <1>3, <1>7, <1>9, <2>1 DEF f
<1>11. e * u \in Nat /\ f * w \in Nat /\ e * u <= f * w
  BY <1>8, <1>10
<1> DEFINE g == e * u
           h == f * w
<1>12. g \in Nat /\ h \in Nat /\ g <= h
  BY <1>11
<1>13. Confidence(m) = Rounded(g, 1280) /\ Confidence(n) = Rounded(h, 1280)
  BY <1>5
<1> HIDE DEF g, h
<1> QED
  BY <1>12, <1>13, RoundedGrows

MatchesSelected ==
    \A v \in Visits : \A i \in DOMAIN matches[v] :
        /\ DOMAIN matches[v][i] = Fields
        /\ \E k : IsSelected(setup.payload[v], k, matches[v][i])

LEMMA SelectedStep ==
    ASSUME Ind, MatchesSelected, [Next]_vars PROVE MatchesSelected'
<1>1. /\ setup' = setup /\ \A v \in Visits : setup.payload[v] \in Seq(Candidate)
      /\ DOMAIN matches = Visits
  BY Writers, AnswersTyped DEF Ind, Shaped
<1>2. ASSUME NEW v \in Visits, NEW ms, matches' = [matches EXCEPT ![v] = ms],
             \A i \in DOMAIN ms :
                /\ DOMAIN ms[i] = Fields
                /\ \E k : IsSelected(setup.payload[v], k, ms[i])
      PROVE  MatchesSelected'
  <2>1. \A u \in Visits : matches'[u] = IF u = v THEN ms ELSE matches[u]
    BY <1>1, <1>2
  <2> QED
    BY <1>1, <1>2, <2>1 DEF MatchesSelected
<1>3. ASSUME NEW v \in Visits, ReadAnswer(v) PROVE MatchesSelected'
  <2> DEFINE s == setup.payload[v]
             ms == Parse(s, Params)
             rank == Ranked(s, Params)
  <2>1. matches' = [matches EXCEPT ![v] = ms]
    BY <1>3 DEF ReadAnswer, Put
  <2>2. /\ DOMAIN ms = DOMAIN rank
        /\ \A r \in DOMAIN rank : ms[r] = Selected(s, Params, rank[r])
    BY DEF Parse
  <2>3. \A r \in DOMAIN rank : rank[r] \in Accepted(s, Params)
    <3>1. s \in Seq(Candidate)
      BY <1>1
    <3> HIDE DEF s
    <3> QED
      BY <3>1, RankedIsKept DEF Kept
  <2>4. \A k : DOMAIN Selected(s, Params, k) = Fields
    BY DEF Selected, Fields
  <2> HIDE DEF ms, rank
  <2>5. \A i \in DOMAIN ms : /\ DOMAIN ms[i] = Fields
                             /\ IsSelected(s, rank[i], ms[i])
    BY <2>2, <2>3, <2>4 DEF IsSelected
  <2> QED
    BY <1>2, <2>1, <2>5
<1>4. ASSUME NEW v \in Visits, AttachOffsets(v) PROVE MatchesSelected'
  <2> DEFINE ms == WithOffsets(matches[v], targets'[v])
  <2>1. matches' = [matches EXCEPT ![v] = ms]
    BY <1>4 DEF AttachOffsets, Put
  <2>2. /\ DOMAIN ms = DOMAIN matches[v]
        /\ \A i \in DOMAIN ms :
              DOMAIN matches[v][i] = Fields =>
                 /\ DOMAIN ms[i] = Fields
                 /\ \A x \in Fields \ {"offset"} : ms[i][x] = matches[v][i][x]
    BY DEF WithOffsets, Fields
  <2> HIDE DEF ms
  <2>3. \A i \in DOMAIN ms :
           /\ DOMAIN ms[i] = Fields
           /\ \E k : IsSelected(setup.payload[v], k, ms[i])
    BY <2>2 DEF MatchesSelected, IsSelected
  <2> QED
    BY <1>2, <2>1, <2>3
<1>5. ASSUME UNCHANGED matches PROVE MatchesSelected'
  BY <1>1, <1>5 DEF MatchesSelected
<1> QED
  BY <1>3, <1>4, <1>5, Writers DEF Ind

(* Of some scores the greatest. *)
LEMMA GreatestScore ==
    ASSUME NEW s, NEW others, NEW x \in others,
           \A y \in others : s[y].score \in Int,
           \A y \in others : s[y].score <= s[x].score
    PROVE  Max({s[y].score : y \in others}) = s[x].score
<1> DEFINE T == {s[y].score : y \in others}
<1>1. s[x].score \in T /\ T \subseteq Int /\ \A t \in T : s[x].score >= t
  OBVIOUS
<1> HIDE DEF T
<1>2. \A z \in T : (\A t \in T : z >= t) => z = s[x].score
  <2> SUFFICES ASSUME NEW z \in T, \A t \in T : z >= t PROVE z = s[x].score
    OBVIOUS
  <2>1. z >= s[x].score /\ s[x].score >= z /\ z \in Int /\ s[x].score \in Int
    BY <1>1
  <2> QED
    BY <2>1
<1>3. Max(T) = s[x].score
  BY <1>1, <1>2 DEF Max
<1> QED
  BY <1>3 DEF T

(* "Score lead over the strongest other candidate", whatever the limit cut
   off, and a smaller lead is never the greater confidence. *)
THEOREM LeadDecides == Spec => []LeadDecidesConfidence
<1>1. Init => MatchesSelected
  BY DEF Init, MatchesSelected
<1>2. Ind /\ MatchesSelected /\ [Next]_vars => MatchesSelected'
  BY SelectedStep
<1>3. Ind /\ MatchesSelected => LeadDecidesConfidence
  <2> SUFFICES ASSUME Ind, MatchesSelected, NEW v \in Visits,
                      NEW i \in DOMAIN matches[v], NEW j \in DOMAIN matches[v]
               PROVE  LET m == matches[v][i]  n == matches[v][j]
                          s == setup.payload[v]
                          all == {k \in DOMAIN s : /\ Usable(s[k], Params)
                                                   /\ s[k].source = m.source}
                          own == {k \in all : s[k].fid = m.fid /\ s[k].score = m.score}
                      IN /\ Margin(m) = None <=> Cardinality(all) = 1
                         /\ Margin(m) # None =>
                               \E k \in own :
                                  Margin(m) = m.score - Max({s[x].score : x \in all \ {k}})
                         /\ (/\ m.source = n.source /\ m.bytes = n.bytes
                             /\ ~m.pichash /\ ~n.pichash
                             /\ Margin(m) # None /\ Margin(m) <= Margin(n))
                            => Confidence(m) <= Confidence(n)
    BY DEF LeadDecidesConfidence
  <2> DEFINE m == matches[v][i]
             n == matches[v][j]
             s == setup.payload[v]
             all == {k \in DOMAIN s : /\ Usable(s[k], Params)
                                      /\ s[k].source = m.source}
             own == {k \in all : s[k].fid = m.fid /\ s[k].score = m.score}
  <2>1. s \in Seq(Candidate)
    BY AnswersTyped DEF Ind
  <2>2. PICK k : IsSelected(s, k, m)
    BY DEF MatchesSelected
  <2>3. PICK l : IsSelected(s, l, n)
    BY DEF MatchesSelected
  <2> DEFINE group == Group(s, Params, k)
             other == Group(s, Params, l)
  <2> HIDE DEF m, n, s
  <2>4. /\ k \in DOMAIN s /\ k \in group /\ group \subseteq DOMAIN s
        /\ s[k].source = m.source /\ s[k].fid = m.fid
        /\ s[k].score = m.score /\ s[k].bytes = m.bytes
        /\ m.bytes \in Nat /\ \A x \in group : s[x].score \in Int
    <3>1. HasStatistics(s, group, k, m)
      BY <2>1, <2>2, SelectedFields
    <3> QED
      BY <3>1 DEF HasStatistics
  <2>5. /\ l \in other /\ s[l].source = n.source
        /\ s[l].score = n.score /\ \A x \in other : s[x].score \in Int
    <3>1. HasStatistics(s, other, l, n)
      BY <2>1, <2>3, SelectedFields
    <3> QED
      BY <3>1 DEF HasStatistics
  <2>6. all = group /\ (m.source = n.source => other = group)
    BY <2>4, <2>5 DEF Group, Accepted
  <2>7. /\ Margin(m) = None <=> group = {k}
        /\ group # {k} =>
              /\ m.best \in Int /\ m.second \in Int
              /\ Margin(m) = m.score - (IF m.score >= m.best THEN m.second
                                        ELSE m.best)
              /\ m.second <= m.best /\ m.score <= m.best
              /\ \E x \in group \ {k} :
                    /\ Margin(m) = m.score - s[x].score
                    /\ \A y \in group \ {k} : s[y].score <= s[x].score
    BY <2>1, <2>2, MarginOfGroup, Zenon
  <2>8. /\ Margin(n) = None <=> other = {l}
        /\ other # {l} =>
              /\ n.best \in Int /\ n.second \in Int
              /\ Margin(n) = n.score - (IF n.score >= n.best THEN n.second
                                        ELSE n.best)
              /\ n.second <= n.best /\ n.score <= n.best
    BY <2>1, <2>3, MarginOfGroup, Zenon
  <2>9. m.source = n.source => m.best = n.best /\ m.second = n.second
    <3>1. /\ m.best = TopTwo(s, group).best /\ m.second = TopTwo(s, group).second
      BY <2>2 DEF IsSelected, Fields, Selected
    <3>2. /\ n.best = TopTwo(s, other).best /\ n.second = TopTwo(s, other).second
      BY <2>3 DEF IsSelected, Fields, Selected
    <3> QED
      BY <2>6, <3>1, <3>2
  <2>10. Margin(m) = None <=> Cardinality(all) = 1
    <3>1. IsFiniteSet(group) /\ Cardinality(group) \in Nat
      <4>1. group \in SUBSET DOMAIN s
        BY <2>4
      <4> HIDE DEF group
      <4> QED
        BY <2>1, <4>1, PlacesAreFinite, FS_Subset, FS_CardinalityType
    <3> HIDE DEF group, all
    <3>2. /\ IsFiniteSet(group \ {k})
          /\ Cardinality(group \ {k}) = Cardinality(group) - 1
      BY <2>4, <3>1, FS_RemoveElement
    <3>3. Cardinality(group \ {k}) = 0 <=> group \ {k} = {}
      BY <3>2, FS_EmptySet
    <3> QED
      BY <2>4, <2>6, <2>7, <3>1, <3>2, <3>3
  <2>11. ASSUME Margin(m) # None
         PROVE  /\ k \in own
                /\ Margin(m) = m.score - Max({s[x].score : x \in all \ {k}})
    <3> DEFINE others == group \ {k}
    <3>1. PICK x \in others : /\ Margin(m) = m.score - s[x].score
                              /\ \A y \in others : s[y].score <= s[x].score
      BY <2>7, <2>11
    <3>2. \A y \in others : s[y].score \in Int
      BY <2>4
    <3>3. others = all \ {k}
      BY <2>6
    <3> HIDE DEF others, all
    <3>4. Max({s[y].score : y \in others}) = s[x].score
      BY <3>1, <3>2, GreatestScore
    <3>5. k \in own
      BY <2>4, <2>6
    <3> QED
      BY <3>1, <3>3, <3>4, <3>5
  <2>12. ASSUME m.source = n.source, m.bytes = n.bytes, ~m.pichash, ~n.pichash,
                Margin(m) # None, Margin(m) <= Margin(n)
         PROVE  Confidence(m) <= Confidence(n)
    <3> HIDE DEF group, other, all, own
    <3>1. group # {k} /\ other = group /\ other # {l}
      <4>1. group # {k} /\ other = group
        BY <2>6, <2>7, <2>12
      <4>2. \E x \in group : x # k
        BY <2>4, <4>1
      <4> QED
        BY <2>4, <4>1, <4>2
    <3>2. m.score \in Int /\ n.score \in Int
      BY <2>4, <2>5
    <3>3. /\ Margin(m) \in Int /\ Margin(n) \in Int /\ m.score <= n.score
      BY <2>7, <2>8, <2>9, <2>12, <3>1, <3>2
    <3> QED
      BY <2>4, <2>12, <3>2, <3>3, ConfidenceGrows
  <2> HIDE DEF all, own
  <2>13. Margin(m) # None =>
            \E x \in own : Margin(m) = m.score - Max({s[y].score : y \in all \ {x}})
    BY <2>11
  <2>14. (/\ m.source = n.source /\ m.bytes = n.bytes
          /\ ~m.pichash /\ ~n.pichash
          /\ Margin(m) # None /\ Margin(m) <= Margin(n))
         => Confidence(m) <= Confidence(n)
    BY <2>12
  <2> QED
    BY <2>10, <2>13, <2>14 DEF m, n, s, all, own
<1> QED
  BY <1>1, <1>2, <1>3, Invariance, PTL DEF Spec

-----------------------------------------------------------------------------
(* Nothing is lost *)

(* A visit keeps out of what the others have in hand. *)
LEMMA OthersKeep ==
    ASSUME Shaped, NEW u \in Visits, Visit(u)
    PROVE  /\ \A v \in Visits \ {u} :
                 /\ pc'[v] = pc[v] /\ outcome'[v] = outcome[v]
                 /\ matches'[v] = matches[v] /\ source'[v] = source[v]
                 /\ pairs'[v] = pairs[v]
           /\ results \subseteq results'
<1> USE DEF Shaped, Goto, End, Put, shared, local
<1>1. CASE \/ Stopped(u) \/ NothingScheduled(u) \/ ReadAnswer(u)
           \/ AllKnown(u) \/ FetchTargets(u) \/ FetchFails(u)
           \/ AttachOffsets(u)
  BY <1>1 DEF Stopped, NothingScheduled, ReadAnswer, AllKnown, FetchTargets,
              FetchFails, AttachOffsets
<1>2. CASE \/ IndexSource(u) \/ IndexTarget(u) \/ CreateEntity(u)
           \/ PairMatches(u)
  BY <1>2 DEF IndexSource, IndexTarget, CreateEntity, PairMatches
<1>3. CASE PutLabels(u) \/ AddResult(u) \/ Finish(u)
  BY <1>3 DEF PutLabels, AddResult, Finish
<1> QED
  BY <1>1, <1>2, <1>3 DEF Visit

(* While FUNCTION_OFFSETS has room it forgets nothing, and holds what a visit
   has just asked for. *)
Remembered ==
    ~setup.evicts =>
       \A v \in Visits : pc[v] = "known" =>
          \A f \in Asked(v) : Server[f] # None => offsets[f] # None

LEMMA RememberedStep ==
    ASSUME Ind, MatchesAnswered, Remembered, [Next]_vars PROVE Remembered'
<1> SUFFICES ASSUME ~setup.evicts, NEW v \in Visits, pc'[v] = "known",
                    NEW f \in Asked(v)', Server[f] # None
             PROVE  offsets'[f] # None
  BY Writers DEF Remembered, Ind
<1>1. \A g \in Fids : offsets[g] # None => offsets'[g] = offsets[g]
  <2>1. CASE \E u \in Visits : FetchTargets(u)
    BY <2>1 DEF FetchTargets
  <2>2. CASE UNCHANGED offsets
    BY <2>2
  <2>3. \A g \in Fids : ~Evict(g)
    BY DEF Evict
  <2> QED
    BY <2>1, <2>2, <2>3
    DEF Next, Visit, vars, shared, RequestStop, Stopped, NothingScheduled,
        ReadAnswer, AllKnown, FetchFails, AttachOffsets, IndexSource,
        IndexTarget, CreateEntity, PairMatches, PutLabels, AddResult, Finish
<1>2. ASSUME NEW u \in Visits, MatchesAnswered PROVE Asked(u) \subseteq Fids
  <2>1. \A i \in DOMAIN matches[u] : Answered(setup.payload[u], matches[u][i])
    BY DEF MatchesAnswered, AllAnswered
  <2> QED
    BY <2>1, AnswersTyped DEF Asked, Ind
<1>3. ASSUME pc[v] = "known", matches'[v] = matches[v] PROVE offsets'[f] # None
  <2>1. f \in Asked(v)
    BY <1>3 DEF Asked
  <2>2. f \in Fids /\ offsets[f] # None
    BY <1>2, <1>3, <2>1 DEF Remembered
  <2> QED
    BY <1>1, <2>2
<1>4. ASSUME AllKnown(v) PROVE offsets'[f] # None
  <2>1. matches' = matches /\ offsets' = offsets
    BY <1>4 DEF AllKnown, shared, local
  <2>2. f \in Asked(v)
    BY <2>1 DEF Asked
  <2> QED
    BY <1>4, <2>1, <2>2 DEF AllKnown
<1>5. ASSUME FetchTargets(v) PROVE offsets'[f] # None
  <2>1. matches' = matches
    BY <1>5 DEF FetchTargets, local
  <2>2. f \in Asked(v) /\ f \in Fids
    BY <1>2, <2>1 DEF Asked
  <2>3. Target(f) # None
    <3>1. Target(f).offset \in Nat
      BY <2>2, OffsetsAreAddresses
    <3>2. Target(f).label \in Texts \cup {None}
      BY <2>2, LabelIsText
    <3>3. Target(f) = [offset |-> Target(f).offset, label |-> Target(f).label]
      BY DEF Target
    <3>4. Target(f) \in Known
      BY <3>1, <3>2, <3>3 DEF Known
    <3> QED
      BY <3>4, VisitConstants
  <2> QED
    BY <1>5, <2>2, <2>3 DEF FetchTargets
<1>6. ASSUME NEW u \in Visits, Visit(u), u # v PROVE offsets'[f] # None
  BY <1>3, <1>6, OthersKeep DEF Ind
<1>7. ASSUME Visit(v) PROVE AllKnown(v) \/ FetchTargets(v)
  BY <1>7 DEF Ind, Shaped, Visit, Stopped, NothingScheduled, ReadAnswer, FetchFails,
     AttachOffsets, IndexSource, IndexTarget, CreateEntity, PairMatches,
     PutLabels, AddResult, Finish, Goto, End
<1>8. ASSUME \/ \E u \in Visits : RequestStop(u) \/ \E g \in Fids : Evict(g)
             \/ UNCHANGED vars
      PROVE  pc' = pc /\ matches' = matches
  BY <1>8 DEF RequestStop, Evict, vars, local
<1> QED
  BY <1>3, <1>4, <1>5, <1>6, <1>7, <1>8 DEF Next

(* What a node lists at first it keeps, where it is. *)
ListedFirst ==
    \A n \in Nodes : \A e \in DOMAIN setup.listed[n] :
        e \in DOMAIN entities[n] /\ entities[n][e] = setup.listed[n][e]

(* A candidate and an entity that a visit with such a setup is to pair. *)
Awaited(s, v, c, e) ==
    /\ \E i \in Kept(s.payload[v], Params) : c = s.payload[v][i]
    /\ e \in s.scheduled[v]
    /\ FunctionAt(s.to[v], c.source) = s.listed[s.to[v]][e]
    /\ Server[c.fid] # None /\ HasFunction(s.from[v], Target(c.fid).offset)

(* Whether the candidate is among some matches, its function is found at the
   entity, and both are among some pairs, and some results. *)
Mentioned(ms, c) == \E r \in DOMAIN ms : ms[r].source = c.source /\ ms[r].fid = c.fid
Located(ms, c) ==
    \E r \in DOMAIN ms : /\ ms[r].source = c.source /\ ms[r].fid = c.fid
                         /\ ms[r].offset = Target(c.fid).offset
LeadsTo(index, c, e) == Found(index, c.source) /\ Lookup(index, c.source) = e
InPairs(ps, c, e) ==
    \E j \in DOMAIN ps : ps[j].source = e /\ ps[j].match.fid = c.fid
Emitted(rs, v, c, e) ==
    \E r \in rs : r.visit = v /\ r.source = e /\ r.match.fid = c.fid

(* Where it is at each place of a visit. *)
Traced(l, o, ms, index, ps, rs, v, c, e) ==
    /\ l \in {"ask", "known"} => Mentioned(ms, c)
    /\ l \in {"source", "lock", "create"} => Located(ms, c)
    /\ l \in {"lock", "create"} => LeadsTo(index, c, e)
    /\ l \in {"label", "emit"} => InPairs(ps, c, e) \/ Emitted(rs, v, c, e)
    /\ o \in {"finished", "unmapped"} => Emitted(rs, v, c, e)

NoneLost ==
    ~setup.evicts =>
       \A v \in Visits : \A c, e :
          Awaited(setup, v, c, e) =>
             Traced(pc[v], outcome[v], matches[v], source[v], pairs[v],
                    results, v, c, e)

LEMMA ListedStep == ASSUME Ind, ListedFirst, [Next]_vars PROVE ListedFirst'
  BY EntitiesGrow, Writers DEF ListedFirst, Ind

(* The candidate is matched, *)
LEMMA AwaitedIsMentioned ==
    ASSUME Ind, NEW v \in Visits, NEW c, NEW e, Awaited(setup, v, c, e)
    PROVE  Mentioned(Parse(setup.payload[v], Params), c)
<1> DEFINE s == setup.payload[v]
           ms == Parse(s, Params)
           rank == Ranked(s, Params)
<1>1. s \in Seq(Candidate)
  BY AnswersTyped DEF Ind
<1>2. PICK i \in Kept(s, Params) : c = s[i]
  BY DEF Awaited
<1>3. PICK r \in DOMAIN rank : rank[r] = i
  <2> HIDE DEF s
  <2> QED
    BY <1>1, <1>2, RankedIsKept
<1>4. r \in DOMAIN ms /\ ms[r] = Selected(s, Params, i)
  BY <1>3 DEF Parse
<1>5. ms[r].source = c.source /\ ms[r].fid = c.fid
  BY <1>2, <1>4 DEF Selected
<1> HIDE DEF ms
<1>6. Mentioned(ms, c)
  BY <1>4, <1>5 DEF Mentioned
<1> QED
  BY <1>6 DEF ms

(* ... its function is at the entity, *)
LEMMA AwaitedIsIndexed ==
    ASSUME AddressesTellFunctions, Ind, EntitiesAreFunctions, ListedFirst,
           OneEntityPerFunction,
           NEW v \in Visits, NEW c, NEW e, Awaited(setup, v, c, e)
    PROVE  LeadsTo(IndexEntities(entities[To(v)]), c, e)
<1> DEFINE n == To(v)
           es == entities[n]
           a == c.source
           index == IndexEntities(es)
<1>1. /\ n \in Nodes /\ setup \in Setups /\ n = setup.to[v]
      /\ es \in Seq(Nat) /\ Functions[n] \subseteq Nat
  BY Ends, VisitConstants DEF Ind, Shaped, To
<1>2. a \in Int /\ Tells(n, a)
  <2>1. PICK i \in DOMAIN setup.payload[v] : c = setup.payload[v][i]
    BY DEF Awaited, Kept, Accepted
  <2>2. setup.payload[v] \in Seq(Candidate)
    BY AnswersTyped DEF Ind
  <2>3. c \in Candidate
    BY <2>1, <2>2
  <2>4. Tells(setup.to[v], setup.payload[v][i].source)
    BY <1>1, <2>1 DEF AddressesTellFunctions
  <2> QED
    BY <1>1, <2>1, <2>3, <2>4 DEF Candidate
<1>3. /\ e \in DOMAIN es /\ FunctionAt(n, a) = es[e]
      /\ es[e] \in Functions[n]
  <2>1. /\ e \in DOMAIN setup.listed[n]
        /\ ToSet(setup.listed[n]) \subseteq Functions[n]
    BY <1>1, SetupConstants DEF Awaited
  <2>2. setup.listed[n][e] \in Functions[n]
    BY <2>1 DEF ToSet
  <2> QED
    BY <1>1, <2>1, <2>2 DEF Awaited, ListedFirst
<1> HIDE DEF n, es
<1>4. Found(index, a)
  <2>1. es[e] \in Aliases(a)
    BY <1>3 DEF FunctionAt, Aliases
  <2>2. es[e] \in DOMAIN index
    BY <1>1, <1>3, IndexedAddresses
  <2> QED
    BY <2>1, <2>2 DEF Found
<1> DEFINE k == Lookup(index, a)
<1>5. k \in DOMAIN es /\ Even(es[k]) = Even(a)
  <2>1. Leads(index, es)
    BY <1>1, IndexLeads
  <2> HIDE DEF index
  <2> QED
    BY <1>2, <1>4, <2>1, LookupLeads
<1> HIDE DEF k, index
<1>6. FunctionAt(n, es[k]) = FunctionAt(n, a)
  <2>1. es[k] \in Nat /\ HasFunction(n, es[k])
    BY <1>1, <1>5 DEF EntitiesAreFunctions, n, es
  <2> QED
    BY <1>1, <1>2, <1>5, <2>1, TellsApart
<1>7. FunctionAt(n, es[e]) = es[e]
  BY <1>3 DEF FunctionAt
<1>8. k = e
  BY <1>1, <1>3, <1>5, <1>6, <1>7 DEF OneEntityPerFunction, n, es
<1> QED
  BY <1>4, <1>8 DEF LeadsTo, k, index, a, n, es

LEMMA AttachedIsLocated ==
    ASSUME Ind, MatchesAnswered, Remembered, ~setup.evicts,
           NEW v \in Visits, NEW c, Server[c.fid] # None, pc[v] = "known",
           Mentioned(matches[v], c), AttachOffsets(v)
    PROVE  Located(matches'[v], c)
<1> DEFINE ts == [f \in Fids |-> IF f \in Asked(v) THEN offsets[f] ELSE None]
           ms == WithOffsets(matches[v], ts)
<1>1. /\ DOMAIN matches = Visits /\ DOMAIN targets = Visits
  BY DEF Ind, Shaped
<1>2. targets'[v] = ts
  BY <1>1 DEF AttachOffsets, Put
<1>3. matches'[v] = ms
  BY <1>1, <1>2 DEF AttachOffsets, Put
<1>4. PICK r \in DOMAIN matches[v] :
         matches[v][r].source = c.source /\ matches[v][r].fid = c.fid
  BY DEF Mentioned
<1>5. c.fid \in Asked(v) /\ c.fid \in Fids
  <2>1. Answered(setup.payload[v], matches[v][r])
    BY <1>4 DEF MatchesAnswered, AllAnswered
  <2>2. c.fid \in Fids
    BY <1>4, <2>1, AnswersTyped DEF Ind
  <2> QED
    BY <1>4, <2>2 DEF Asked
<1>6. ts[c.fid] = Target(c.fid) /\ ts[c.fid] # None /\ DOMAIN ts = Fids
  BY <1>5 DEF Remembered, Ind, OffsetsServed
<1>7. DOMAIN matches[v][r] = Fields
  BY DEF MatchesAnswered, AllAnswered, Answered
<1> HIDE DEF ts
<1>8. /\ r \in DOMAIN ms /\ ms[r].source = c.source /\ ms[r].fid = c.fid
      /\ ms[r].offset = ts[c.fid].offset
  BY <1>4, <1>5, <1>6, <1>7 DEF WithOffsets, Fields
<1> HIDE DEF ms
<1>9. Located(ms, c)
  BY <1>6, <1>8 DEF Located
<1> QED
  BY <1>3, <1>9

LEMMA AwaitedIsPaired ==
    ASSUME Ind, ~setup.evicts,
           NEW v \in Visits, NEW c, NEW e, Awaited(setup, v, c, e),
           PairMatches(v), Located(matches[v], c), LeadsTo(source[v], c, e)
    PROVE  InPairs(pairs'[v], c, e)
<1> DEFINE ps == Pairs(matches[v], source[v], target[v], setup.scheduled[v])
<1>1. pairs'[v] = ps
  BY DEF PairMatches, Put, Ind, Shaped
<1>2. PICK r \in DOMAIN matches[v] :
         /\ matches[v][r].source = c.source /\ matches[v][r].fid = c.fid
         /\ matches[v][r].offset = Target(c.fid).offset
  BY DEF Located
<1> DEFINE a == Target(c.fid).offset
<1>3. a # None
  <2>1. PICK i \in DOMAIN setup.payload[v] : c = setup.payload[v][i]
    BY DEF Awaited, Kept, Accepted
  <2>2. setup.payload[v] \in Seq(Candidate)
    BY AnswersTyped DEF Ind
  <2>3. c \in Candidate
    BY <2>1, <2>2
  <2>4. c.fid \in Fids /\ Server[c.fid] # None
    BY <2>3 DEF Candidate, Awaited
  <2>5. a \in Nat
    BY <2>4, OffsetsAreAddresses
  <2> QED
    BY <2>5, NoneIsNoNumber
<1>4. Found(target[v], a)
  <2>1. Unlisted(v) = {}
    BY DEF PairMatches
  <2>2. HasFunction(From(v), a)
    BY DEF Awaited, From
  <2> HIDE DEF a
  <2> QED
    BY <1>2, <1>3, <2>1, <2>2 DEF Unlisted, a
<1> HIDE DEF a
<1>5. /\ Found(source[v], matches[v][r].source)
      /\ Lookup(source[v], matches[v][r].source) = e
      /\ e \in setup.scheduled[v]
  BY <1>2 DEF LeadsTo, Awaited
<1>6. r \in DOMAIN ps /\ ps[r].source = e /\ ps[r].match = matches[v][r]
  BY <1>2, <1>3, <1>4, <1>5 DEF Pairs, a
<1> HIDE DEF ps
<1>7. InPairs(ps, c, e)
  BY <1>2, <1>6 DEF InPairs
<1> QED
  BY <1>1, <1>7

LEMMA PairIsEmitted ==
    ASSUME Ind, NEW v \in Visits, NEW c, NEW e, AddResult(v),
           InPairs(pairs[v], c, e) \/ Emitted(results, v, c, e)
    PROVE  InPairs(pairs'[v], c, e) \/ Emitted(results', v, c, e)
<1> DEFINE result(i) == [visit |-> v, source |-> pairs[v][i].source,
                         target |-> pairs[v][i].target,
                         match |-> pairs[v][i].match]
<1>1. PICK i \in DOMAIN pairs[v] :
         /\ results' = results \cup {result(i)}
         /\ pairs'[v] = [j \in DOMAIN pairs[v] \ {i} |-> pairs[v][j]]
  BY DEF AddResult, Put, Ind, Shaped
<1>2. CASE Emitted(results, v, c, e)
  BY <1>1, <1>2 DEF Emitted
<1>3. ASSUME NEW j \in DOMAIN pairs[v],
             pairs[v][j].source = e, pairs[v][j].match.fid = c.fid
      PROVE  InPairs(pairs'[v], c, e) \/ Emitted(results', v, c, e)
  <2>1. CASE j = i
    <3>1. /\ result(i).visit = v /\ result(i).source = e
          /\ result(i).match.fid = c.fid /\ result(i) \in results'
      BY <1>1, <1>3, <2>1
    <3> QED
      BY <3>1 DEF Emitted
  <2>2. CASE j # i
    <3>1. j \in DOMAIN pairs'[v] /\ pairs'[v][j] = pairs[v][j]
      BY <1>1, <2>2
    <3> QED
      BY <1>3, <3>1 DEF InPairs
  <2> QED
    BY <2>1, <2>2
<1> QED
  BY <1>2, <1>3 DEF InPairs

LEMMA TracedStep ==
    ASSUME AddressesTellFunctions, Ind, Staged, Linked, OneEntityPerFunction,
           Remembered, ListedFirst, ~setup.evicts,
           NEW v \in Visits, NEW c, NEW e, Awaited(setup, v, c, e), Visit(v),
           Traced(pc[v], outcome[v], matches[v], source[v], pairs[v],
                  results, v, c, e)
    PROVE  Traced(pc'[v], outcome'[v], matches'[v], source'[v], pairs'[v],
                  results', v, c, e)
<1> DEFINE Now == Traced(pc'[v], outcome'[v], matches'[v], source'[v],
                         pairs'[v], results', v, c, e)
<1>1. /\ DOMAIN pc = Visits /\ DOMAIN outcome = Visits
      /\ DOMAIN matches = Visits /\ DOMAIN source = Visits /\ DOMAIN pairs = Visits
  BY DEF Ind, Shaped
<1>2. pc[v] # "done" => outcome[v] = "none"
  BY DEF Staged
<1>3. CASE Stopped(v) \/ FetchFails(v)
  <2>1. pc'[v] = "done" /\ outcome'[v] \in {"stopped", "failed"}
    BY <1>1, <1>3 DEF Stopped, FetchFails, End, Goto, Put
  <2> QED
    BY <2>1 DEF Traced
<1>4. CASE NothingScheduled(v)
  BY <1>4 DEF NothingScheduled, Awaited
<1>5. CASE ReadAnswer(v)
  <2>1. /\ pc'[v] = "ask" /\ outcome'[v] = "none"
        /\ matches'[v] = Parse(setup.payload[v], Params)
    BY <1>1, <1>2, <1>5 DEF ReadAnswer, Goto, Put
  <2>2. Mentioned(matches'[v], c)
    BY <2>1, AwaitedIsMentioned
  <2> QED
    BY <2>1, <2>2 DEF Traced
<1>6. CASE AllKnown(v) \/ FetchTargets(v)
  <2>1. /\ pc'[v] = "known" /\ outcome'[v] = "none" /\ matches'[v] = matches[v]
        /\ pc[v] = "ask"
    BY <1>1, <1>2, <1>6 DEF AllKnown, FetchTargets, Goto, local
  <2> QED
    BY <2>1 DEF Traced
<1>7. CASE AttachOffsets(v)
  <2>1. /\ pc'[v] = "source" /\ outcome'[v] = "none" /\ pc[v] = "known"
    BY <1>1, <1>2, <1>7 DEF AttachOffsets, Goto
  <2>2. Mentioned(matches[v], c) /\ Server[c.fid] # None /\ MatchesAnswered
    BY <2>1 DEF Traced, Awaited, Linked
  <2>3. Located(matches'[v], c)
    BY <1>7, <2>1, <2>2, AttachedIsLocated
  <2> QED
    BY <2>1, <2>3 DEF Traced
<1>8. CASE IndexSource(v)
  <2>1. /\ pc'[v] = "lock" /\ outcome'[v] = "none" /\ pc[v] = "source"
        /\ matches'[v] = matches[v]
        /\ source'[v] = IndexEntities(entities[To(v)])
    BY <1>1, <1>2, <1>8 DEF IndexSource, Goto, Put
  <2>2. LeadsTo(source'[v], c, e)
    BY <2>1, AwaitedIsIndexed DEF Linked
  <2> QED
    BY <2>1, <2>2 DEF Traced
<1>9. CASE IndexTarget(v) \/ CreateEntity(v)
  <2>1. /\ pc'[v] = "create" /\ outcome'[v] = "none" /\ pc[v] \in {"lock", "create"}
        /\ matches'[v] = matches[v] /\ source'[v] = source[v]
    BY <1>1, <1>2, <1>9 DEF IndexTarget, CreateEntity, Goto
  <2> QED
    BY <2>1 DEF Traced
<1>10. CASE PairMatches(v)
  <2>1. /\ pc'[v] = "label" /\ outcome'[v] = "none" /\ pc[v] = "create"
    BY <1>1, <1>2, <1>10 DEF PairMatches, Goto
  <2>2. Located(matches[v], c) /\ LeadsTo(source[v], c, e)
    BY <2>1 DEF Traced
  <2>3. InPairs(pairs'[v], c, e)
    BY <1>10, <2>2, AwaitedIsPaired
  <2> QED
    BY <2>1, <2>3 DEF Traced
<1>11. CASE PutLabels(v)
  <2>1. /\ pc'[v] = "emit" /\ outcome'[v] = "none" /\ pc[v] = "label"
        /\ pairs'[v] = pairs[v] /\ results' = results
    BY <1>1, <1>2, <1>11 DEF PutLabels, Goto, local
  <2> QED
    BY <2>1 DEF Traced
<1>12. CASE AddResult(v)
  <2>1. pc'[v] = "emit" /\ outcome'[v] = "none" /\ pc[v] = "emit"
    BY <1>1, <1>2, <1>12 DEF AddResult
  <2>2. InPairs(pairs'[v], c, e) \/ Emitted(results', v, c, e)
    BY <1>12, <2>1, PairIsEmitted DEF Traced
  <2> QED
    BY <2>1, <2>2 DEF Traced
<1>13. CASE Finish(v)
  <2>1. /\ pc'[v] = "done" /\ pc[v] = "emit" /\ DOMAIN pairs[v] = {}
        /\ results' = results
    BY <1>1, <1>13 DEF Finish, End, Goto, shared
  <2>2. Emitted(results', v, c, e)
    BY <2>1 DEF Traced, InPairs
  <2> QED
    BY <2>1, <2>2 DEF Traced
<1> QED
  BY <1>3, <1>4, <1>5, <1>6, <1>7, <1>8, <1>9, <1>10, <1>11, <1>12, <1>13 DEF Visit

LEMMA NoneLostStep ==
    ASSUME AddressesTellFunctions, Ind, Staged, Linked, OneEntityPerFunction,
           Remembered, ListedFirst, NoneLost, [Next]_vars
    PROVE  NoneLost'
<1>1. setup' = setup
  BY Writers DEF Ind
<1> SUFFICES ASSUME ~setup.evicts, NEW v \in Visits, NEW c, NEW e,
                    Awaited(setup, v, c, e)
             PROVE  Traced(pc'[v], outcome'[v], matches'[v], source'[v],
                           pairs'[v], results', v, c, e)
  BY <1>1 DEF NoneLost
<1>2. Traced(pc[v], outcome[v], matches[v], source[v], pairs[v], results, v, c, e)
  BY DEF NoneLost
<1>3. CASE Visit(v)
  BY <1>2, <1>3, TracedStep
<1>4. ASSUME pc'[v] = pc[v], outcome'[v] = outcome[v], matches'[v] = matches[v],
             source'[v] = source[v], pairs'[v] = pairs[v], results \subseteq results'
      PROVE  Traced(pc'[v], outcome'[v], matches'[v], source'[v],
                    pairs'[v], results', v, c, e)
  BY <1>2, <1>4 DEF Traced, Emitted
<1>5. ASSUME NEW u \in Visits \ {v}, Visit(u)
      PROVE  Traced(pc'[v], outcome'[v], matches'[v], source'[v],
                    pairs'[v], results', v, c, e)
  <2>1. /\ pc'[v] = pc[v] /\ outcome'[v] = outcome[v]
        /\ matches'[v] = matches[v] /\ source'[v] = source[v]
        /\ pairs'[v] = pairs[v] /\ results \subseteq results'
    BY <1>5, OthersKeep DEF Ind
  <2> QED
    BY <1>4, <2>1
<1>6. ASSUME \/ \E u \in Visits : RequestStop(u)
             \/ \E f \in Fids : Evict(f)
             \/ UNCHANGED vars
      PROVE  Traced(pc'[v], outcome'[v], matches'[v], source'[v],
                    pairs'[v], results', v, c, e)
  <2>1. UNCHANGED <<pc, outcome, matches, source, pairs, results>>
    BY <1>6 DEF RequestStop, Evict, vars, shared, local
  <2> QED
    BY <1>4, <2>1
<1> QED
  BY <1>3, <1>5, <1>6 DEF Next

(* Where every address tells its function, a visit that comes to its end has
   a result for each of the best candidates of a scheduled function whose
   functions are both there: entities that other visits create, and offsets
   that they fetch, take none away while FUNCTION_OFFSETS has room. *)
THEOREM NoResultLost ==
    ASSUME AddressesTellFunctions, AnswersTellFunctions
    PROVE  Spec => []NothingIsLost
<1>1. Init => Remembered /\ ListedFirst /\ NoneLost /\ Staged
  <2> SUFFICES ASSUME Init PROVE Remembered /\ ListedFirst /\ NoneLost /\ Staged
    OBVIOUS
  <2>1. \A v \in Visits : pc[v] = "payload" /\ outcome[v] = "none"
    BY DEF Init
  <2>2. Remembered /\ NoneLost /\ Staged
    BY <2>1 DEF Remembered, NoneLost, Traced, Staged, Init
  <2>3. ListedFirst
    BY DEF Init, ListedFirst
  <2> QED
    BY <2>2, <2>3
<1>2. Ind /\ Staged /\ Linked /\ Remembered /\ ListedFirst /\ [Next]_vars
      => Remembered' /\ ListedFirst' /\ Staged'
  BY RememberedStep, ListedStep, StagedStep DEF Linked, Ind
<1>3. /\ Ind /\ Staged /\ Linked /\ OneEntityPerFunction
      /\ Remembered /\ ListedFirst /\ NoneLost /\ [Next]_vars
      => NoneLost'
  BY NoneLostStep
<1>4. Ind /\ NoneLost => NothingIsLost
  <2> SUFFICES ASSUME Ind, NoneLost, NEW v \in Visits,
                      outcome[v] \in {"finished", "unmapped"}, ~setup.evicts,
                      NEW i \in Best(v), NEW e \in setup.scheduled[v],
                      FunctionAt(To(v), setup.payload[v][i].source)
                         = setup.listed[To(v)][e],
                      Server[setup.payload[v][i].fid] # None,
                      HasFunction(From(v), Target(setup.payload[v][i].fid).offset)
               PROVE  \E r \in results : /\ r.visit = v /\ r.source = e
                                         /\ r.match.fid = setup.payload[v][i].fid
    BY DEF NothingIsLost
  <2> DEFINE c == setup.payload[v][i]
  <2>1. i \in Kept(setup.payload[v], Params)
    BY DEF Best, Kept, Accepted, Group
  <2>2. Awaited(setup, v, c, e)
    BY <2>1 DEF Awaited, To, From
  <2> HIDE DEF c
  <2>3. Emitted(results, v, c, e)
    BY <2>2 DEF NoneLost, Traced
  <2> QED
    BY <2>3 DEF Emitted, c
<1>5. Spec => []OneEntityPerFunction
  BY OneEntity
<1> QED
  BY <1>1, <1>2, <1>3, <1>4, <1>5, Invariance, Linking, PTL DEF Spec
=============================================================================
