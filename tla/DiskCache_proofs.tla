--------------------------- MODULE DiskCache_proofs ---------------------------
(***************************************************************************)
(* Proofs about DiskCache, for any loaders, storers, files and limits.     *)
(***************************************************************************)
EXTENDS DiskCache, FiniteSetTheorems, TLAPS

(* The loaders that have paused the collector. *)
Inside == {t \in Loaders : pc[t] \in {"read", "leave"}}

LoaderLabels == {"idle", "read", "leave", "done"}
StorerLabels == {"idle", "write", "scan", "prune"}

LabelsFit == /\ setup \in Setups
             /\ pc \in [Threads -> LoaderLabels \cup StorerLabels]
             /\ \A t \in Loaders : pc[t] \in LoaderLabels
             /\ \A t \in Storers : pc[t] \in StorerLabels

(* The first loader in has noted how the collector was; all of them count. *)
PausersCount == /\ pausers = Cardinality(Inside)
                /\ pausers # 0 => resume = Collects

GcInv == LabelsFit /\ PausersCount /\ CollectorPausedWhileLoading

(* Only something else tears a file. *)
WholeInv == /\ setup \in Setups
            /\ ~setup.spoils => torn = {} /\ \A t \in Loaders : seen[t] # "torn"

-----------------------------------------------------------------------------
(* The collector *)

(* The loading threads can be counted. *)
LEMMA InsideIsFinite == IsFiniteSet(Inside) /\ Cardinality(Inside) \in Nat
<1>1. IsFiniteSet(Inside)
  BY FS_Subset, DiskConstants DEF Inside
<1> QED
  BY <1>1, FS_CardinalityType

(* At first nobody loads, and the collector is on. *)
LEMMA InitGc == Init => GcInv
<1> SUFFICES ASSUME Init PROVE GcInv
  OBVIOUS
<1>1. LabelsFit
  BY DEF Init, LabelsFit, LoaderLabels, StorerLabels, Threads
<1>2. Inside = {}
  BY DEF Init, Inside, Threads
<1>3. pausers = Cardinality(Inside) /\ pausers = 0
  BY <1>2, FS_EmptySet DEF Init
<1>4. gcOn = Collects /\ Collects \in BOOLEAN
  BY DiskConstants DEF Init
<1>5. gcOn = (Collects /\ pausers = 0)
  BY <1>3, <1>4
<1> QED
  BY <1>1, <1>3, <1>5 DEF GcInv, PausersCount, CollectorPausedWhileLoading

(* Loaders and storers keep to their own labels. *)
LEMMA LabelsStep ==
    ASSUME LabelsFit, [Next]_vars
    PROVE  LabelsFit'
<1> USE DiskConstants DEF LabelsFit, LoaderLabels, StorerLabels, Threads
<1>k. setup.loaders \subseteq Loaders /\ setup.keys \subseteq Keys
  BY SetupConstants DEF Setup
<1>1. ASSUME NEW t \in Loaders, NEW k \in Keys, Pause(t, k) PROVE LabelsFit'
  BY <1>1 DEF Pause, Goto, folder
<1>2. ASSUME NEW t \in Loaders, Read(t) PROVE LabelsFit'
  BY <1>2 DEF Read, Goto, folder, gc
<1>3. ASSUME NEW t \in Loaders, Leave(t) PROVE LabelsFit'
  BY <1>3 DEF Leave, Goto, folder
<1>4. ASSUME NEW t \in Loaders, EndLoad(t) PROVE LabelsFit'
  BY <1>4 DEF EndLoad, Unlink, Goto, folder, gc
<1>5. ASSUME NEW t \in Storers, NEW k \in Keys, BeginStore(t, k)
      PROVE LabelsFit'
  BY <1>5 DEF BeginStore, Goto, folder, gc
<1>6. ASSUME NEW t \in Storers, StoreFails(t) PROVE LabelsFit'
  BY <1>6 DEF StoreFails, Goto, folder, gc
<1>7. ASSUME NEW t \in Storers, Rename(t) PROVE LabelsFit'
  BY <1>7 DEF Rename, Goto, gc
<1>8. ASSUME NEW t \in Storers, Scan(t) PROVE LabelsFit'
  BY <1>8 DEF Scan, Goto, folder, gc
<1>9. ASSUME NEW t \in Storers, DeleteOldest(t) PROVE LabelsFit'
  BY <1>9 DEF DeleteOldest, Unlink, Goto, folder, gc
<1>10. ASSUME NEW t \in Storers, EndStore(t) PROVE LabelsFit'
  BY <1>10 DEF EndStore, Goto, folder, gc
<1>11. ASSUME NEW t \in Storers, Die(t) PROVE LabelsFit'
  BY <1>11 DEF Die, Goto, folder, gc
<1>12. ASSUME NEW k \in Keys, Spoil(k) PROVE LabelsFit'
  BY <1>12 DEF Spoil, gc
<1>13. ASSUME UNCHANGED vars PROVE LabelsFit'
  BY <1>13 DEF vars, folder, gc
<1> QED
  BY <1>k, <1>1, <1>2, <1>3, <1>4, <1>5, <1>6, <1>7, <1>8,
     <1>9, <1>10, <1>11, <1>12, <1>13 DEF Next, Load, Store

(* Entering and leaving change the count by one; all else leaves it. *)
LEMMA GcStep ==
    ASSUME GcInv, [Next]_vars
    PROVE  (PausersCount /\ CollectorPausedWhileLoading)'
<1> DEFINE Goal == (PausersCount /\ CollectorPausedWhileLoading)'
<1>k. setup.loaders \subseteq Loaders /\ setup.keys \subseteq Keys
  BY SetupConstants DEF GcInv, LabelsFit, Setup
<1>f. IsFiniteSet(Inside) /\ Cardinality(Inside) \in Nat
  BY InsideIsFinite
<1>n. pausers = Cardinality(Inside) /\ pausers \in Nat
  BY <1>f DEF GcInv, PausersCount
<1>s. ASSUME Inside' = Inside, UNCHANGED gc PROVE Goal
  BY <1>s DEF GcInv, PausersCount, CollectorPausedWhileLoading, gc
<1> USE DiskConstants DEF GcInv, LabelsFit, LoaderLabels, StorerLabels, Threads
<1>1. ASSUME NEW t \in Loaders, NEW k \in Keys, Pause(t, k) PROVE Goal
  <2>1. Inside' = Inside \cup {t} /\ t \notin Inside
    BY <1>1 DEF Pause, Goto, Inside
  <2>2. Cardinality(Inside') = Cardinality(Inside) + 1
    BY <2>1, <1>f, FS_AddElement
  <2>3. pausers' = pausers + 1 /\ pausers' # 0
    BY <1>1, <1>n DEF Pause
  <2>4. CASE pausers = 0
    <3>1. resume' = gcOn /\ gcOn' = FALSE /\ gcOn = Collects
      BY <1>1, <2>4 DEF Pause, CollectorPausedWhileLoading
    <3> QED
      BY <1>n, <2>2, <2>3, <3>1 DEF PausersCount, CollectorPausedWhileLoading
  <2>5. CASE pausers # 0
    <3>1. resume' = resume /\ gcOn' = gcOn /\ gcOn = FALSE
      BY <1>1, <2>5 DEF Pause, CollectorPausedWhileLoading
    <3> QED
      BY <1>n, <2>2, <2>3, <2>5, <3>1
         DEF PausersCount, CollectorPausedWhileLoading
  <2> QED
    BY <2>4, <2>5
<1>2. ASSUME NEW t \in Loaders, Read(t) PROVE Goal
  <2>1. Inside' = Inside /\ UNCHANGED gc
    BY <1>2 DEF Read, Goto, folder, gc, Inside
  <2> QED
    BY <2>1, <1>s
<1>3. ASSUME NEW t \in Loaders, Leave(t) PROVE Goal
  <2>1. Inside' = Inside \ {t} /\ t \in Inside
    BY <1>3 DEF Leave, Goto, Inside
  <2>2. Cardinality(Inside') = Cardinality(Inside) - 1
    BY <2>1, <1>f, FS_RemoveElement
  <2>3. pausers # 0
    BY <2>1, <1>f, <1>n, FS_EmptySet
  <2>4. pausers' = pausers - 1 /\ pausers' \in Nat /\ resume' = resume
    BY <1>3, <1>n, <2>3 DEF Leave
  <2>5. resume = Collects /\ gcOn = FALSE
    BY <2>3 DEF PausersCount, CollectorPausedWhileLoading
  <2>6. gcOn' = (pausers' = 0 /\ Collects)
    BY <1>3, <2>5 DEF Leave
  <2> QED
    BY <1>n, <2>2, <2>4, <2>5, <2>6
       DEF PausersCount, CollectorPausedWhileLoading
<1>4. ASSUME NEW t \in Loaders, EndLoad(t) PROVE Goal
  <2>1. Inside' = Inside /\ UNCHANGED gc
    BY <1>4 DEF EndLoad, Unlink, Goto, folder, gc, Inside
  <2> QED
    BY <2>1, <1>s
<1>5. ASSUME NEW t \in Storers, NEW k \in Keys, BeginStore(t, k) PROVE Goal
  <2>1. Inside' = Inside /\ UNCHANGED gc
    BY <1>5 DEF BeginStore, Goto, folder, gc, Inside
  <2> QED
    BY <2>1, <1>s
<1>6. ASSUME NEW t \in Storers, StoreFails(t) PROVE Goal
  <2>1. Inside' = Inside /\ UNCHANGED gc
    BY <1>6 DEF StoreFails, Goto, folder, gc, Inside
  <2> QED
    BY <2>1, <1>s
<1>7. ASSUME NEW t \in Storers, Rename(t) PROVE Goal
  <2>1. Inside' = Inside /\ UNCHANGED gc
    BY <1>7 DEF Rename, Goto, gc, Inside
  <2> QED
    BY <2>1, <1>s
<1>8. ASSUME NEW t \in Storers, Scan(t) PROVE Goal
  <2>1. Inside' = Inside /\ UNCHANGED gc
    BY <1>8 DEF Scan, Goto, folder, gc, Inside
  <2> QED
    BY <2>1, <1>s
<1>9. ASSUME NEW t \in Storers, DeleteOldest(t) PROVE Goal
  <2>1. Inside' = Inside /\ UNCHANGED gc
    BY <1>9 DEF DeleteOldest, Unlink, Goto, gc, Inside
  <2> QED
    BY <2>1, <1>s
<1>10. ASSUME NEW t \in Storers, EndStore(t) PROVE Goal
  <2>1. Inside' = Inside /\ UNCHANGED gc
    BY <1>10 DEF EndStore, Goto, folder, gc, Inside
  <2> QED
    BY <2>1, <1>s
<1>11. ASSUME NEW t \in Storers, Die(t) PROVE Goal
  <2>1. Inside' = Inside /\ UNCHANGED gc
    BY <1>11 DEF Die, Goto, folder, gc, Inside
  <2> QED
    BY <2>1, <1>s
<1>12. ASSUME NEW k \in Keys, Spoil(k) PROVE Goal
  <2>1. Inside' = Inside /\ UNCHANGED gc
    BY <1>12 DEF Spoil, gc, Inside
  <2> QED
    BY <2>1, <1>s
<1>13. ASSUME UNCHANGED vars PROVE Goal
  <2>1. Inside' = Inside /\ UNCHANGED gc
    BY <1>13 DEF vars, folder, gc, Inside
  <2> QED
    BY <2>1, <1>s
<1> QED
  BY <1>k, <1>1, <1>2, <1>3, <1>4, <1>5, <1>6, <1>7, <1>8,
     <1>9, <1>10, <1>11, <1>12, <1>13 DEF Next, Load, Store

(* The invariant the next theorem follows from. *)
LEMMA GcInvariance == Spec => []GcInv
<1>1. GcInv /\ [Next]_vars => GcInv'
  BY LabelsStep, GcStep DEF GcInv
<1> QED
  BY <1>1, InitGc, PTL DEF Spec

(* The collector is off exactly while some thread loads, and afterwards as it
   was, however loads overlap and whatever they find. *)
THEOREM CollectorIsPaused == Spec => []CollectorPausedWhileLoading
  BY GcInvariance, PTL DEF GcInv

-----------------------------------------------------------------------------
(* The files *)

(* A file gets its name only when it is whole. *)
LEMMA WholeStep ==
    ASSUME WholeInv, [Next]_vars
    PROVE  WholeInv'
<1>k. setup.loaders \subseteq Loaders /\ setup.keys \subseteq Keys
  BY SetupConstants DEF WholeInv, Setup
<1> USE DEF WholeInv
<1>1. ASSUME NEW t \in Loaders, NEW k \in Keys, Pause(t, k) PROVE WholeInv'
  BY <1>1 DEF Pause, Goto, folder
<1>2. ASSUME NEW t \in Loaders, Read(t) PROVE WholeInv'
  BY <1>2 DEF Read, Goto, folder, gc
<1>3. ASSUME NEW t \in Loaders, Leave(t) PROVE WholeInv'
  BY <1>3 DEF Leave, Goto, folder
<1>4. ASSUME NEW t \in Loaders, EndLoad(t) PROVE WholeInv'
  BY <1>4 DEF EndLoad, Unlink, Goto, folder, gc
<1>5. ASSUME NEW t \in Storers, NEW k \in Keys, BeginStore(t, k)
      PROVE WholeInv'
  BY <1>5 DEF BeginStore, Goto, folder, gc
<1>6. ASSUME NEW t \in Storers, StoreFails(t) PROVE WholeInv'
  BY <1>6 DEF StoreFails, Goto, folder, gc
<1>7. ASSUME NEW t \in Storers, Rename(t) PROVE WholeInv'
  BY <1>7 DEF Rename, Goto, gc
<1>8. ASSUME NEW t \in Storers, Scan(t) PROVE WholeInv'
  BY <1>8 DEF Scan, Goto, folder, gc
<1>9. ASSUME NEW t \in Storers, DeleteOldest(t) PROVE WholeInv'
  BY <1>9 DEF DeleteOldest, Unlink, Goto, folder, gc
<1>10. ASSUME NEW t \in Storers, EndStore(t) PROVE WholeInv'
  BY <1>10 DEF EndStore, Goto, folder, gc
<1>11. ASSUME NEW t \in Storers, Die(t) PROVE WholeInv'
  BY <1>11 DEF Die, Goto, folder, gc
<1>12. ASSUME NEW k \in Keys, Spoil(k) PROVE WholeInv'
  BY <1>12 DEF Spoil, gc
<1>13. ASSUME UNCHANGED vars PROVE WholeInv'
  BY <1>13 DEF vars, folder, gc
<1> QED
  BY <1>k, <1>1, <1>2, <1>3, <1>4, <1>5, <1>6, <1>7, <1>8,
     <1>9, <1>10, <1>11, <1>12, <1>13 DEF Next, Load, Store

(* Whatever storers of other processes write, rename and delete meanwhile, and
   wherever one dies, a loader never reads a part of a report, unless something
   else spoils it. *)
THEOREM WholeIsRead == Spec => []NeverReadInPart
<1>1. Init => WholeInv
  BY DEF Init, WholeInv
<1>2. WholeInv /\ [Next]_vars => WholeInv'
  BY WholeStep
<1>3. WholeInv => NeverReadInPart
  BY DEF WholeInv, NeverReadInPart
<1> QED
  BY <1>1, <1>2, <1>3, PTL DEF Spec

-----------------------------------------------------------------------------
(* Lists *)

(* What a list is without its p-th entry. *)
LEMMA RemoveAtProperties ==
    ASSUME NEW S, NEW s \in Seq(S), IsInjective(s), NEW p \in DOMAIN s
    PROVE  LET r == RemoveAt(s, p)
           IN  /\ r \in Seq(S)
               /\ IsInjective(r)
               /\ ToSet(r) = ToSet(s) \ {s[p]}
<1> DEFINE n == Len(s)
           r == RemoveAt(s, p)
           from(i) == IF i < p THEN i ELSE i + 1
<1>1. n \in Nat /\ p \in 1..n /\ DOMAIN s = 1..n /\ n - 1 \in Nat
  OBVIOUS
<1>2. r \in Seq(S) /\ Len(r) = n - 1 /\ \A i \in 1..(n - 1) : r[i] = s[from(i)]
  <2> DEFINE l == SubSeq(s, 1, p - 1)
             u == SubSeq(s, p + 1, n)
  <2>1. l \in Seq(S) /\ Len(l) = p - 1 /\ \A i \in 1..(p - 1) : l[i] = s[i]
    BY <1>1
  <2>2. u \in Seq(S) /\ Len(u) = n - p /\ \A i \in 1..(n - p) : u[i] = s[p + i]
    BY <1>1
  <2>3. r = l \o u
    BY DEF RemoveAt
  <2> HIDE DEF l, u, r, n
  <2>3a. p - 1 \in Nat /\ n - p \in Nat /\ (p - 1) + (n - p) = n - 1
    BY <1>1
  <2>4. r \in Seq(S) /\ Len(r) = n - 1
    <3>1. r \in Seq(S) /\ Len(r) = Len(l) + Len(u)
      BY <2>1, <2>2, <2>3
    <3> QED
      BY <2>3a, <2>1, <2>2, <3>1
  <2>5. ASSUME NEW i \in 1..(n - 1) PROVE r[i] = s[from(i)]
    <3>1. CASE i < p
      BY <1>1, <2>1, <2>2, <2>3, <3>1
    <3>2. CASE ~(i < p)
      <4>1. i - (p - 1) \in 1..(n - p) /\ p + (i - (p - 1)) = i + 1
        BY <1>1, <3>2
      <4>2. r[i] = u[i - (p - 1)]
        <5>1. i > Len(l) /\ i \in 1..(Len(l) + Len(u))
          BY <1>1, <2>3a, <2>1, <2>2, <3>2
        <5>2. \A m \in 1..(Len(l) + Len(u)) :
                 (l \o u)[m] = IF m <= Len(l) THEN l[m] ELSE u[m - Len(l)]
          BY <2>1, <2>2
        <5> QED
          BY <2>1, <2>3, <5>1, <5>2
      <4> QED
        BY <2>2, <3>2, <4>1, <4>2
    <3> QED
      BY <3>1, <3>2
  <2> QED
    BY <2>4, <2>5
<1>3. DOMAIN r = 1..(n - 1)
  BY <1>1, <1>2
<1> HIDE DEF r, n
<1>4. \A i, j \in 1..(n - 1) : from(i) = from(j) => i = j
  BY <1>1
<1>5. \A i \in 1..(n - 1) : from(i) \in DOMAIN s /\ from(i) # p
  BY <1>1
<1>6. IsInjective(r)
  <2> HIDE DEF from
  <2> QED
    BY <1>2, <1>3, <1>4, <1>5 DEF IsInjective
<1>7. \A j \in DOMAIN s \ {p} : \E i \in 1..(n - 1) : from(i) = j
  <2> SUFFICES ASSUME NEW j \in DOMAIN s \ {p}
               PROVE  \E i \in 1..(n - 1) : from(i) = j
    OBVIOUS
  <2>1. CASE j < p
    BY <1>1, <2>1
  <2>2. CASE ~(j < p)
    <3>1. j - 1 \in 1..(n - 1) /\ from(j - 1) = j
      BY <1>1, <2>2
    <3> QED
      BY <3>1
  <2> QED
    BY <2>1, <2>2
<1>8. ToSet(r) = ToSet(s) \ {s[p]}
  <2> HIDE DEF from
  <2>1. ASSUME NEW x \in ToSet(r) PROVE x \in ToSet(s) /\ x # s[p]
    <3>1. PICK i \in 1..(n - 1) : x = r[i]
      BY <1>3 DEF ToSet
    <3>2. x = s[from(i)] /\ from(i) \in DOMAIN s /\ from(i) # p
      BY <1>2, <1>5, <3>1
    <3> QED
      BY <3>2 DEF ToSet, IsInjective
  <2>2. ASSUME NEW x \in ToSet(s), x # s[p] PROVE x \in ToSet(r)
    <3>1. PICK j \in DOMAIN s : x = s[j]
      BY DEF ToSet
    <3>2. PICK i \in 1..(n - 1) : from(i) = j
      BY <1>7, <2>2, <3>1
    <3>3. r[i] = x
      BY <1>2, <3>1, <3>2
    <3> QED
      BY <1>3, <3>3 DEF ToSet
  <2> QED
    BY <2>1, <2>2
<1> QED
  BY <1>2, <1>6, <1>8 DEF r

(* A list of files names each of them once. *)
Listing(s) == s \in Seq(Keys) /\ IsInjective(s)

(* Removing a file leaves the others in their order. *)
LEMMA WithoutProperties ==
    ASSUME NEW s, Listing(s), NEW k
    PROVE  Listing(Without(s, k)) /\ ToSet(Without(s, k)) = ToSet(s) \ {k}
<1>1. CASE k \in ToSet(s)
  <2> DEFINE p == CHOOSE i \in DOMAIN s : s[i] = k
  <2>1. p \in DOMAIN s /\ s[p] = k
    BY <1>1 DEF ToSet
  <2>2. Without(s, k) = RemoveAt(s, p)
    BY <1>1 DEF Without
  <2> HIDE DEF p
  <2> QED
    BY <2>1, <2>2, RemoveAtProperties DEF Listing
<1>2. CASE k \notin ToSet(s)
  BY <1>2 DEF Without
<1> QED
  BY <1>1, <1>2

(* One file more at the end, if it is a new one. *)
LEMMA OneFileMore ==
    ASSUME NEW r, Listing(r), NEW k \in Keys, k \notin ToSet(r)
    PROVE  Listing(Append(r, k)) /\ ToSet(Append(r, k)) = ToSet(r) \cup {k}
<1> DEFINE a == Append(r, k)
           n == Len(r)
<1>1. /\ a \in Seq(Keys) /\ n \in Nat /\ DOMAIN r = 1..n /\ DOMAIN a = 1..(n + 1)
      /\ a[n + 1] = k /\ \A i \in 1..n : a[i] = r[i]
  BY DEF Listing
<1>2. k \notin ToSet(r) /\ \A i \in 1..n : r[i] \in ToSet(r)
  BY <1>1 DEF ToSet
<1> HIDE DEF a, n
<1>3. \A i, j \in 1..(n + 1) : a[i] = a[j] => i = j
  <2> SUFFICES ASSUME NEW i \in 1..(n + 1), NEW j \in 1..(n + 1), a[i] = a[j]
               PROVE  i = j
    OBVIOUS
  <2>1. i \in 1..n \/ i = n + 1
    BY <1>1
  <2>2. j \in 1..n \/ j = n + 1
    BY <1>1
  <2> QED
    BY <1>1, <1>2, <2>1, <2>2 DEF Listing, IsInjective
<1>4. ToSet(a) = ToSet(r) \cup {k}
  <2>1. ASSUME NEW x \in ToSet(a) PROVE x \in ToSet(r) \cup {k}
    <3>1. PICK i \in 1..(n + 1) : x = a[i]
      BY <1>1, <2>1 DEF ToSet
    <3>2. i \in 1..n \/ i = n + 1
      BY <1>1
    <3> QED
      BY <1>1, <1>2, <3>1, <3>2
  <2>2. ASSUME NEW x \in ToSet(r) PROVE x \in ToSet(a)
    <3>1. PICK i \in 1..n : x = r[i]
      BY <1>1, <2>2 DEF ToSet
    <3>2. i \in DOMAIN a /\ a[i] = x
      BY <1>1, <3>1
    <3> QED
      BY <3>2 DEF ToSet
  <2>3. k \in ToSet(a)
    <3>1. n + 1 \in DOMAIN a
      BY <1>1
    <3> QED
      BY <1>1, <3>1 DEF ToSet
  <2> QED
    BY <2>1, <2>2, <2>3
<1> QED
  <2>1. Listing(a)
    BY <1>1, <1>3 DEF Listing, IsInjective
  <2>2. a = Append(r, k)
    BY DEF a
  <2> QED
    BY <1>4, <2>1, <2>2

(* Storing or using a file puts it last. *)
LEMMA RenewedProperties ==
    ASSUME Listing(order), NEW k \in Keys
    PROVE  Listing(Renewed(k)) /\ ToSet(Renewed(k)) = Stored \cup {k}
<1> DEFINE r == Without(order, k)
<1>1. Listing(r) /\ ToSet(r) = Stored \ {k}
  BY WithoutProperties DEF Stored
<1>2. Renewed(k) = Append(r, k)
  BY DEF Renewed
<1> HIDE DEF r
<1>3. k \notin ToSet(r)
  BY <1>1
<1>4. Listing(Append(r, k)) /\ ToSet(Append(r, k)) = ToSet(r) \cup {k}
  BY <1>1, <1>3, OneFileMore
<1> QED
  BY <1>1, <1>2, <1>4

-----------------------------------------------------------------------------
(* Sums *)

(* Numbers have a least one among them. *)
LEMMA LeastExists ==
    ASSUME NEW T \in SUBSET Nat, T # {}
    PROVE  \E x \in T : \A y \in T : x <= y
<1>1. PICK R : /\ IsWellFoundedOn(R, Nat)
               /\ \A x, y \in Nat : y < x => <<y, x>> \in R
  <2> DEFINE R == OpToRel(<, Nat)
  <2>1. IsWellFoundedOn(R, Nat)
    BY NatLessThanWellFounded
  <2>2. \A x, y \in Nat : y < x => <<y, x>> \in R
    BY DEF OpToRel
  <2> QED
    BY <2>1, <2>2, Zenon
<1>2. PICK x \in T : \A y \in T : <<y, x>> \notin R
  BY <1>1, WFMin
<1>3. ASSUME NEW y \in T PROVE x <= y
  <2>1. x \in Nat /\ y \in Nat
    OBVIOUS
  <2>2. ~(y < x)
    BY <1>1, <1>2, <2>1, Zenon
  <2> QED
    BY <2>1, <2>2
<1> QED
  BY <1>3

(* Induction over a size: what is good when all that is smaller is, is good. *)
LEMMA SizeInduction ==
    ASSUME NEW D, NEW size \in [D -> Nat], NEW good,
           \A d \in D : (\A c \in D : size[c] < size[d] => c \in good) => d \in good
    PROVE  D \subseteq good
<1> SUFFICES ASSUME ~(D \subseteq good) PROVE FALSE
  OBVIOUS
<1> DEFINE sizes == {size[d] : d \in D \ good}
<1>1. sizes \in SUBSET Nat /\ sizes # {}
  OBVIOUS
<1>2. PICK k \in sizes : \A l \in sizes : k <= l
  <2> HIDE DEF sizes
  <2> QED
    BY <1>1, LeastExists
<1>3. PICK d \in D \ good : size[d] = k
  OBVIOUS
<1>4. ASSUME NEW c \in D, size[c] < size[d] PROVE c \in good
  <2> SUFFICES ASSUME c \notin good PROVE FALSE
    OBVIOUS
  <2>1. size[c] \in sizes
    OBVIOUS
  <2> HIDE DEF sizes
  <2>2. k <= size[c] /\ size[c] < k
    BY <1>2, <1>3, <1>4, <2>1
  <2>3. k \in Nat /\ size[c] \in Nat
    BY <1>1
  <2> QED
    BY <2>2, <2>3
<1> QED
  BY <1>3, <1>4

(* A function may be defined by recursion towards smaller arguments. *)
Recursive(D, V, n, size, base, stop, left, right, step) ==
    /\ n \in Nat /\ size \in [D -> 0..n] /\ base \in V
    /\ left \in [D -> D] /\ right \in [D -> D] /\ step \in [D \X V \X V -> V]
    /\ \A d \in D \ stop : size[left[d]] < size[d] /\ size[right[d]] < size[d]

Solution(f, D, base, stop, left, right, step) ==
    \A d \in D : f[d] = IF d \in stop THEN base
                       ELSE step[<<d, f[left[d]], f[right[d]]>>]

LEMMA RecursionExists ==
    ASSUME NEW D, NEW V, NEW n, NEW size, NEW base, NEW stop, NEW left,
           NEW right, NEW step,
           Recursive(D, V, n, size, base, stop, left, right, step)
    PROVE  \E f \in [D -> V] : Solution(f, D, base, stop, left, right, step)
<1> USE DEF Recursive
<1> DEFINE E(f, d) == IF d \in stop THEN base
                      ELSE step[<<d, f[left[d]], f[right[d]]>>]
           Solved == {k \in Nat : \E f \in [D -> V] : \A d \in D :
                                     size[d] < k => f[d] = E(f, d)}
<1>1. 0 \in Solved
  <2> DEFINE f == [d \in D |-> base]
  <2>1. f \in [D -> V]
    OBVIOUS
  <2>2. \A d \in D : ~(size[d] < 0)
    OBVIOUS
  <2> QED
    BY <2>1, <2>2
<1>2. ASSUME NEW k \in Nat, k \in Solved PROVE k + 1 \in Solved
  <2>1. PICK f \in [D -> V] : \A d \in D : size[d] < k => f[d] = E(f, d)
    BY <1>2
  <2> DEFINE g == [d \in D |-> E(f, d)]
  <2>2. \A d \in D : E(f, d) \in V
    OBVIOUS
  <2>3. g \in [D -> V]
    BY <2>2
  <2>4. ASSUME NEW d \in D, size[d] < k + 1, d \notin stop
        PROVE  g[left[d]] = f[left[d]] /\ g[right[d]] = f[right[d]]
    <3>1. /\ left[d] \in D /\ right[d] \in D
          /\ size[left[d]] < k /\ size[right[d]] < k
      BY <2>4
    <3> QED
      BY <2>1, <3>1
  <2>5. \A d \in D : size[d] < k + 1 => g[d] = E(g, d)
    BY <2>4
  <2> HIDE DEF g
  <2> QED
    BY <2>3, <2>5
<1>3. Nat \subseteq Solved
  <2> DEFINE T == Nat \ Solved
  <2> SUFFICES ASSUME T # {} PROVE FALSE
    OBVIOUS
  <2> HIDE DEF Solved
  <2>1. PICK k \in T : \A l \in T : k <= l
    BY LeastExists
  <2>2. k \in Nat /\ k # 0 /\ k \notin Solved
    BY <1>1
  <2>3. k - 1 \in Nat /\ k = (k - 1) + 1 /\ ~(k <= k - 1)
    BY <2>2
  <2>4. k - 1 \in Solved
    BY <2>1, <2>3
  <2> QED
    BY <1>2, <2>2, <2>3, <2>4
<1>4. n + 1 \in Solved
  <2> HIDE DEF Solved
  <2> QED
    BY <1>3
<1>5. PICK f \in [D -> V] : \A d \in D : size[d] < n + 1 => f[d] = E(f, d)
  BY <1>4
<1>6. \A d \in D : size[d] < n + 1
  OBVIOUS
<1> QED
  BY <1>5, <1>6 DEF Solution

(* The sum of w over S. *)
Sum(w, S) == MapThenSumSet(LAMBDA k : w[k], S)

(* f has the sum of w over every part of S. *)
SumsUp(f, w, S) ==
    /\ f \in [SUBSET S -> Nat]
    /\ \A s \in SUBSET S :
          f[s] = IF s = {} THEN 0
                 ELSE LET x == CHOOSE x \in s : TRUE IN w[x] + f[s \ {x}]

(* The sum is a solution of its recursive equation. *)
LEMMA SumEquation ==
    ASSUME NEW K, NEW w \in [K -> Nat], NEW S \in SUBSET K, IsFiniteSet(S)
    PROVE  \E f : SumsUp(f, w, S) /\ Sum(w, S) = f[S]
<1> DEFINE D == SUBSET S
           n == Cardinality(S)
           one(s) == CHOOSE x \in s : TRUE
           size == [s \in D |-> Cardinality(s)]
           left == [s \in D |-> s \ {one(s)}]
           step == [x \in D \X Nat \X Nat |->
                       IF x[1] = {} THEN 0 ELSE w[one(x[1])] + x[2]]
           Body(f) == [s \in D |-> IF s = {} THEN 0
                                   ELSE w[one(s)] + f[s \ {one(s)}]]
           sum == CHOOSE f : f = Body(f)
<1>1. \A s \in D : s # {} => one(s) \in s /\ one(s) \in S
  OBVIOUS
<1>2. Sum(w, S) = sum[S]
  BY DEF Sum, MapThenSumSet, MapThenFoldSet
<1>3. \A s \in D : Cardinality(s) \in 0..n
  BY FS_Subset, FS_CardinalityType
<1>4. \A s \in D \ {{}} : Cardinality(s \ {one(s)}) < Cardinality(s)
  <2> SUFFICES ASSUME NEW s \in D \ {{}}
               PROVE  Cardinality(s \ {one(s)}) < Cardinality(s)
    OBVIOUS
  <2>1. IsFiniteSet(s) /\ one(s) \in s /\ Cardinality(s) \in Nat
    BY <1>1, <1>3, FS_Subset
  <2>2. \A x \in s : Cardinality(s \ {x}) = Cardinality(s) - 1
    BY <2>1, FS_RemoveElement
  <2> HIDE DEF one
  <2> QED
    BY <2>1, <2>2
<1>5. Recursive(D, Nat, n, size, 0, {{}}, left, left, step)
  <2>1. n \in Nat
    BY FS_CardinalityType
  <2>2. size \in [D -> 0..n] /\ left \in [D -> D]
    BY <1>3
  <2>3. step \in [D \X Nat \X Nat -> Nat]
    <3>1. \A x \in D \X Nat \X Nat :
             x[1] = {} \/ (w[one(x[1])] \in Nat /\ x[2] \in Nat)
      BY <1>1
    <3> HIDE DEF one
    <3> QED
      BY <3>1
  <2>4. \A s \in D \ {{}} : size[left[s]] < size[s]
    BY <1>4
  <2> HIDE DEF n, size, left, step
  <2> QED
    BY <2>1, <2>2, <2>3, <2>4 DEF Recursive
<1>6. PICK f \in [D -> Nat] : Solution(f, D, 0, {{}}, left, left, step)
  <2> HIDE DEF n, size, left, step
  <2> QED
    BY <1>5, RecursionExists
<1>7. f = Body(f)
  <2>1. \A s \in D : f[s] = Body(f)[s]
    <3> SUFFICES ASSUME NEW s \in D PROVE f[s] = Body(f)[s]
      OBVIOUS
    <3>1. CASE s = {}
      BY <1>6, <3>1 DEF Solution
    <3>2. CASE s # {}
      <4>1. f[s] = step[<<s, f[left[s]], f[left[s]]>>]
        <5> HIDE DEF step, left
        <5> QED
          BY <1>6, <3>2 DEF Solution
      <4>2. left[s] = s \ {one(s)} /\ left[s] \in D /\ f[left[s]] \in Nat
        OBVIOUS
      <4> HIDE DEF one
      <4> QED
        BY <3>2, <4>1, <4>2
    <3> QED
      BY <3>1, <3>2
  <2>2. f = [s \in D |-> f[s]] /\ Body(f) = [s \in D |-> Body(f)[s]]
    OBVIOUS
  <2> HIDE DEF Body
  <2> QED
    BY <2>1, <2>2
<1>8. sum = Body(sum)
  <2> HIDE DEF Body
  <2> QED
    BY <1>7
<1>9. \A s \in D : sum[s] = IF s = {} THEN 0
                           ELSE w[one(s)] + sum[s \ {one(s)}]
  <2>1. \A s \in D : Body(sum)[s] = IF s = {} THEN 0
                                    ELSE w[one(s)] + sum[s \ {one(s)}]
    <3> HIDE DEF sum
    <3> QED
      OBVIOUS
  <2> HIDE DEF Body, sum
  <2> QED
    BY <1>8, <2>1
<1>10. \A s \in D : sum[s] \in Nat
  <2> DEFINE good == {s \in D : sum[s] \in Nat}
  <2>1. \A s \in D : (\A c \in D : size[c] < size[s] => c \in good) => s \in good
    <3> SUFFICES ASSUME NEW s \in D,
                        \A c \in D : size[c] < size[s] => c \in good
                 PROVE  s \in good
      OBVIOUS
    <3>1. CASE s = {}
      <4> HIDE DEF sum
      <4> QED
        BY <1>9, <3>1
    <3>2. CASE s # {}
      <4>1. size[s \ {one(s)}] < size[s]
        BY <1>4, <3>2
      <4>2. sum[s \ {one(s)}] \in Nat
        BY <4>1
      <4>3. w[one(s)] \in Nat /\ sum[s] = w[one(s)] + sum[s \ {one(s)}]
        BY <1>1, <1>9, <3>2
      <4>4. sum[s] \in Nat
        <5> HIDE DEF sum, one
        <5> QED
          BY <4>2, <4>3
      <4> HIDE DEF sum, D
      <4> QED
        BY <4>4
    <3> QED
      BY <3>1, <3>2
  <2>2. size \in [D -> Nat]
    BY <1>3
  <2>3. D \subseteq good
    <3> HIDE DEF D, size, good
    <3> QED
      BY <2>1, <2>2, SizeInduction
  <2> QED
    BY <2>3
<1>11. sum \in [D -> Nat]
  <2>1. DOMAIN sum = D /\ sum = [s \in D |-> sum[s]]
    <3>1. Body(sum) = [s \in D |-> Body(sum)[s]] /\ DOMAIN Body(sum) = D
      OBVIOUS
    <3> HIDE DEF Body, sum
    <3> QED
      BY <1>8, <3>1
  <2> HIDE DEF sum
  <2> QED
    BY <1>10, <2>1
<1> HIDE DEF sum
<1> QED
  BY <1>2, <1>9, <1>11 DEF SumsUp

(* A sum is that of the same terms, whatever they are terms of. *)
LEMMA SumsAgree ==
    ASSUME NEW S, NEW T \in SUBSET S, IsFiniteSet(T), NEW w, NEW v,
           \A x \in T : w[x] = v[x],
           NEW f, SumsUp(f, w, S), NEW g, SumsUp(g, v, T)
    PROVE  f[T] = g[T]
<1> DEFINE D == SUBSET T
           size == [s \in D |-> Cardinality(s)]
           good == {s \in D : f[s] = g[s]}
           one(s) == CHOOSE x \in s : TRUE
<1>1. size \in [D -> Nat]
  BY FS_Subset, FS_CardinalityType
<1>2. ASSUME NEW s \in D, \A c \in D : size[c] < size[s] => c \in good
      PROVE  s \in good
  <2>1. CASE s = {}
    BY <2>1 DEF SumsUp
  <2>2. CASE s # {}
    <3>1. one(s) \in s
      BY <2>2
    <3>2. \A x \in s : s \ {x} \in D /\ size[s \ {x}] < size[s]
      <4>1. IsFiniteSet(s)
        BY FS_Subset
      <4>2. \A x \in s : Cardinality(s \ {x}) = Cardinality(s) - 1
        BY <4>1, FS_RemoveElement
      <4> QED
        BY <4>2, <1>1
    <3>3. f[s \ {one(s)}] = g[s \ {one(s)}]
      BY <1>2, <3>1, <3>2
    <3>4. /\ f[s] = w[one(s)] + f[s \ {one(s)}]
          /\ g[s] = v[one(s)] + g[s \ {one(s)}]
      BY <2>2 DEF SumsUp
    <3>5. w[one(s)] = v[one(s)]
      BY <3>1
    <3>6. f[s] = g[s]
      <4> HIDE DEF one
      <4> QED
        BY <3>3, <3>4, <3>5
    <3> QED
      BY <3>6
  <2> QED
    BY <2>1, <2>2
<1>3. \A s \in D : (\A c \in D : size[c] < size[s] => c \in good) => s \in good
  <2> HIDE DEF D, size, good
  <2> QED
    BY <1>2
<1>4. D \subseteq good
  <2> HIDE DEF D, size, good
  <2> QED
    BY <1>1, <1>3, SizeInduction
<1> QED
  BY <1>4

(* Any term may be taken out of a sum first. *)
LEMMA SumsSplit ==
    ASSUME NEW K, NEW w \in [K -> Nat], NEW S \in SUBSET K, IsFiniteSet(S),
           NEW f, SumsUp(f, w, S), NEW k \in S
    PROVE  f[S] = w[k] + f[S \ {k}]
<1> DEFINE D == SUBSET S
           size == [s \in D |-> Cardinality(s)]
           good == {s \in D : \A x \in s : f[s] = w[x] + f[s \ {x}]}
           one(s) == CHOOSE x \in s : TRUE
<1>1. size \in [D -> Nat]
  BY FS_Subset, FS_CardinalityType
<1>2. ASSUME NEW s \in D, \A c \in D : size[c] < size[s] => c \in good
      PROVE  s \in good
  <2> SUFFICES ASSUME NEW x \in s PROVE f[s] = w[x] + f[s \ {x}]
    OBVIOUS
  <2>1. PICK y \in s : f[s] = w[y] + f[s \ {y}]
    BY DEF SumsUp
  <2>2. \A z \in s : s \ {z} \in D /\ s \ {z} \in good
    <3>1. IsFiniteSet(s)
      BY FS_Subset
    <3>2. \A z \in s : Cardinality(s \ {z}) = Cardinality(s) - 1
      BY <3>1, FS_RemoveElement
    <3>3. \A z \in s : s \ {z} \in D /\ size[s \ {z}] < size[s]
      BY <3>2, <1>1
    <3> HIDE DEF good, size
    <3> QED
      BY <3>3, <1>2
  <2>3. CASE x = y
    BY <2>1, <2>3
  <2>4. CASE x # y
    <3>1. x \in s \ {y} /\ y \in s \ {x}
      BY <2>4
    <3>2. /\ f[s \ {y}] = w[x] + f[(s \ {y}) \ {x}]
          /\ f[s \ {x}] = w[y] + f[(s \ {x}) \ {y}]
      BY <2>2, <3>1
    <3>3. (s \ {y}) \ {x} = (s \ {x}) \ {y} /\ (s \ {y}) \ {x} \in D
      OBVIOUS
    <3>4. f[(s \ {y}) \ {x}] \in Nat /\ w[x] \in Nat /\ w[y] \in Nat
      BY <3>3 DEF SumsUp
    <3> DEFINE rest == f[(s \ {y}) \ {x}]
    <3>5. /\ f[s] = w[y] + f[s \ {y}]
          /\ f[s \ {y}] = w[x] + rest
          /\ f[s \ {x}] = w[y] + rest
          /\ rest \in Nat
      BY <2>1, <3>2, <3>3, <3>4
    <3> HIDE DEF rest
    <3>6. f[s] = w[y] + (w[x] + rest) /\ w[x] + f[s \ {x}] = w[x] + (w[y] + rest)
      BY <3>5
    <3> QED
      BY <3>4, <3>5, <3>6
  <2> QED
    BY <2>3, <2>4
<1>3. \A s \in D : (\A c \in D : size[c] < size[s] => c \in good) => s \in good
  <2> HIDE DEF D, size, good
  <2> QED
    BY <1>2
<1>4. D \subseteq good
  <2> HIDE DEF D, size, good
  <2> QED
    BY <1>1, <1>3, SizeInduction
<1> QED
  BY <1>4

(* A listing of some of the files names just these. *)
LEMMA ListedProperties ==
    ASSUME Listing(order), NEW ks
    PROVE  Listing(Listed(ks)) /\ ToSet(Listed(ks)) = Stored \cap ks
<1> DEFINE n == Len(order)
           D == 0..n
           V == Seq(Keys)
           size == [d \in D |-> d]
           left == [d \in D |-> IF d = 0 THEN 0 ELSE d - 1]
           step == [x \in D \X V \X V |->
                       IF x[1] = 0 THEN << >>
                       ELSE IF order[x[1]] \in ks THEN Append(x[2], order[x[1]])
                       ELSE x[2]]
           Body(f) == [d \in D |-> IF d = 0 THEN << >>
                                   ELSE IF order[d] \in ks
                                   THEN Append(f[d - 1], order[d])
                                   ELSE f[d - 1]]
           upTo == CHOOSE f : f = Body(f)
<1>1. /\ n \in Nat /\ order \in Seq(Keys) /\ DOMAIN order = 1..n
      /\ \A i \in 1..n : order[i] \in Keys
      /\ \A i, j \in 1..n : order[i] = order[j] => i = j
  BY DEF Listing, IsInjective
<1>2. Listed(ks) = upTo[n]
  BY DEF Listed
<1>3. Recursive(D, V, n, size, << >>, {0}, left, left, step)
  <2>1. size \in [D -> 0..n] /\ left \in [D -> D] /\ << >> \in V
    BY <1>1
  <2>2. step \in [D \X V \X V -> V]
    <3>1. ASSUME NEW x \in D \X V \X V
          PROVE  step[x] \in V
      <4>1. x[1] = 0 \/ order[x[1]] \in Keys
        BY <1>1
      <4>2. x[2] \in V /\ << >> \in V
        OBVIOUS
      <4>3. \A k \in Keys : Append(x[2], k) \in V
        BY <4>2
      <4> QED
        BY <4>1, <4>2, <4>3
    <3> QED
      BY <3>1
  <2>3. \A d \in D \ {0} : size[left[d]] < size[d]
    BY <1>1
  <2> HIDE DEF n, size, left, step, V, D
  <2> QED
    BY <1>1, <2>1, <2>2, <2>3 DEF Recursive
<1>4. PICK f \in [D -> V] : Solution(f, D, << >>, {0}, left, left, step)
  <2> HIDE DEF n, size, left, step, V, D
  <2> QED
    BY <1>3, RecursionExists
<1>5. f = Body(f)
  <2>1. \A d \in D : f[d] = Body(f)[d]
    <3> SUFFICES ASSUME NEW d \in D PROVE f[d] = Body(f)[d]
      OBVIOUS
    <3>1. CASE d = 0
      BY <1>4, <3>1 DEF Solution
    <3>2. CASE d # 0
      <4>1. f[d] = step[<<d, f[left[d]], f[left[d]]>>]
        <5> HIDE DEF step, left
        <5> QED
          BY <1>4, <3>2 DEF Solution
      <4>2. left[d] = d - 1 /\ left[d] \in D
        BY <1>1, <3>2
      <4>3. f[left[d]] \in V
        BY <1>4, <4>2
      <4> HIDE DEF left
      <4> QED
        BY <3>2, <4>1, <4>2, <4>3
    <3> QED
      BY <3>1, <3>2
  <2>2. f = [d \in D |-> f[d]] /\ Body(f) = [d \in D |-> Body(f)[d]]
    OBVIOUS
  <2> HIDE DEF Body
  <2> QED
    BY <2>1, <2>2
<1>6. upTo = Body(upTo)
  <2> HIDE DEF Body
  <2> QED
    BY <1>5
<1>7. \A d \in D : upTo[d] = IF d = 0 THEN << >>
                            ELSE IF order[d] \in ks
                            THEN Append(upTo[d - 1], order[d])
                            ELSE upTo[d - 1]
  <2>1. \A d \in D : Body(upTo)[d] = IF d = 0 THEN << >>
                                     ELSE IF order[d] \in ks
                                     THEN Append(upTo[d - 1], order[d])
                                     ELSE upTo[d - 1]
    <3> HIDE DEF upTo
    <3> QED
      OBVIOUS
  <2> HIDE DEF Body, upTo
  <2> QED
    BY <1>6, <2>1
<1> HIDE DEF upTo, Body
<1> DEFINE first(d) == {order[i] : i \in 1..d}
           good == {d \in D : Listing(upTo[d]) /\ ToSet(upTo[d]) = first(d) \cap ks}
<1>8. 0 \in good
  <2>1. upTo[0] = << >> /\ 0 \in D
    BY <1>1, <1>7
  <2>2. Listing(<< >>) /\ ToSet(<< >>) = {}
    BY DEF Listing, IsInjective, ToSet
  <2>3. first(0) = {}
    OBVIOUS
  <2> QED
    BY <2>1, <2>2, <2>3
<1>9. ASSUME NEW d \in D, d # 0, d - 1 \in good PROVE d \in good
  <2> DEFINE s == upTo[d - 1]
             k == order[d]
  <2>1. d \in 1..n /\ d - 1 \in Nat /\ k \in Keys
    BY <1>1, <1>9
  <2>2. Listing(s) /\ ToSet(s) = first(d - 1) \cap ks
    BY <1>9
  <2>3. first(d) = first(d - 1) \cup {k}
    <3>1. 1..d = (1..(d - 1)) \cup {d}
      BY <2>1
    <3> HIDE DEF k
    <3> QED
      BY <3>1 DEF k
  <2>4. k \notin first(d - 1)
    BY <1>1, <2>1
  <2>5. upTo[d] = IF k \in ks THEN Append(s, k) ELSE s
    BY <1>7, <1>9
  <2> HIDE DEF s, k, first
  <2>6. CASE k \in ks
    <3>1. k \notin ToSet(s)
      BY <2>2, <2>4
    <3>2. Listing(Append(s, k)) /\ ToSet(Append(s, k)) = ToSet(s) \cup {k}
      BY <2>1, <2>2, <3>1, OneFileMore
    <3> QED
      BY <2>2, <2>3, <2>5, <2>6, <3>2
  <2>7. CASE k \notin ks
    BY <2>2, <2>3, <2>5, <2>7
  <2> QED
    BY <2>6, <2>7
<1>10. n \in good
  <2>1. \A d \in D : (\A c \in D : size[c] < size[d] => c \in good) => d \in good
    <3> SUFFICES ASSUME NEW d \in D, \A c \in D : size[c] < size[d] => c \in good
                 PROVE  d \in good
      OBVIOUS
    <3>1. CASE d = 0
      <4> HIDE DEF good
      <4> QED
        BY <1>8, <3>1
    <3>2. CASE d # 0
      <4>1. d - 1 \in D /\ size[d - 1] < size[d]
        BY <1>1, <3>2
      <4> HIDE DEF good, size
      <4> QED
        BY <1>9, <3>2, <4>1
    <3> QED
      BY <3>1, <3>2
  <2>2. size \in [D -> Nat]
    BY <1>1
  <2>3. D \subseteq good
    <3> HIDE DEF D, size, good
    <3> QED
      BY <2>1, <2>2, SizeInduction
  <2>4. n \in D
    BY <1>1
  <2> HIDE DEF good
  <2> QED
    BY <2>3, <2>4
<1>11. first(n) = Stored
  BY <1>1 DEF Stored, ToSet
<1> HIDE DEF first
<1> QED
  BY <1>2, <1>10, <1>11

(* What the sum is made of. *)
Additive(w, S) ==
    /\ Sum(w, S) \in Nat
    /\ S = {} => Sum(w, S) = 0
    /\ \A k \in S : Sum(w, S) = w[k] + Sum(w, S \ {k})

LEMMA SumProperties ==
    ASSUME NEW K, NEW w \in [K -> Nat], NEW S \in SUBSET K, IsFiniteSet(S)
    PROVE  Additive(w, S)
<1>1. PICK f : SumsUp(f, w, S) /\ Sum(w, S) = f[S]
  BY SumEquation
<1>2. Sum(w, S) \in Nat /\ (S = {} => Sum(w, S) = 0)
  BY <1>1 DEF SumsUp
<1>3. ASSUME NEW k \in S PROVE Sum(w, S) = w[k] + Sum(w, S \ {k})
  <2> DEFINE T == S \ {k}
  <2>1. T \in SUBSET S /\ T \in SUBSET K /\ IsFiniteSet(T)
    BY FS_Subset
  <2> HIDE DEF T
  <2>2. PICK g : SumsUp(g, w, T) /\ Sum(w, T) = g[T]
    BY <2>1, SumEquation
  <2>3. f[T] = g[T]
    BY <1>1, <2>1, <2>2, SumsAgree
  <2>4. f[S] = w[k] + f[T]
    BY <1>1, SumsSplit DEF T
  <2> QED
    BY <1>1, <2>2, <2>3, <2>4 DEF T
<1> QED
  BY <1>2, <1>3 DEF Additive

(* The more terms, the larger the sum. *)
LEMMA SumGrows ==
    ASSUME NEW K, NEW w \in [K -> Nat], NEW T \in SUBSET K, IsFiniteSet(T),
           NEW S \in SUBSET T
    PROVE  Sum(w, S) <= Sum(w, T)
<1> DEFINE D == {U \in SUBSET T : S \subseteq U}
           size == [U \in D |-> Cardinality(U)]
           good == {U \in D : Sum(w, S) <= Sum(w, U)}
<1>1. size \in [D -> Nat]
  BY FS_Subset, FS_CardinalityType
<1>2. \A U \in D : U \in SUBSET K /\ IsFiniteSet(U)
  BY FS_Subset
<1>3. \A U \in D : Additive(w, U)
  BY <1>2, SumProperties
<1>4. S \in D /\ T \in D
  OBVIOUS
<1>5. ASSUME NEW U \in D, \A V \in D : size[V] < size[U] => V \in good
      PROVE  U \in good
  <2>1. CASE U = S
    BY <1>3, <1>4, <2>1 DEF Additive
  <2>2. CASE U # S
    <3>1. PICK k \in U : k \notin S
      BY <2>2
    <3>2. U \ {k} \in D
      BY <3>1
    <3>3. Cardinality(U \ {k}) = Cardinality(U) - 1
      BY <1>2, FS_RemoveElement
    <3>4. size[U \ {k}] < size[U]
      BY <1>1, <3>2, <3>3
    <3>5. Sum(w, S) <= Sum(w, U \ {k})
      BY <1>5, <3>2, <3>4
    <3>6. Sum(w, U) = w[k] + Sum(w, U \ {k})
      BY <1>3 DEF Additive
    <3>7. w[k] \in Nat /\ Sum(w, S) \in Nat /\ Sum(w, U \ {k}) \in Nat
      BY <1>3, <1>4, <3>2 DEF Additive
    <3>8. Sum(w, S) <= Sum(w, U)
      BY <3>5, <3>6, <3>7
    <3> QED
      BY <3>8
  <2> QED
    BY <2>1, <2>2
<1>6. \A U \in D : (\A V \in D : size[V] < size[U] => V \in good) => U \in good
  <2> HIDE DEF D, size, good
  <2> QED
    BY <1>5
<1>7. D \subseteq good
  <2> HIDE DEF D, size, good
  <2> QED
    BY <1>1, <1>6, SizeInduction
<1> QED
  BY <1>4, <1>7

-----------------------------------------------------------------------------
(* Types *)

(* TypeOK but for the collector and the labels, of which GcInv speaks. *)
TypesInv ==
    /\ Listing(order)
    /\ torn \subseteq Stored
    /\ resume \in BOOLEAN
    /\ key \in [Threads -> Keys \cup {None}]
    /\ \A t \in Threads : pc[t] = "idle" <=> key[t] = None
    /\ seen \in [Loaders -> {"none", "torn", "whole"}]
    /\ doomed \in [Storers -> Seq(Keys)]
    /\ mishaps \in 0..MaxMishaps

(* What happens to the folder leaves it a list of whole and torn files. *)
LEMMA FolderStep ==
    ASSUME Listing(order), torn \subseteq Stored, NEW k \in Keys,
           \/ UNCHANGED folder
           \/ Unlink(k)
           \/ order' = Renewed(k) /\ torn' \subseteq torn
           \/ order' = order /\ k \in Stored /\ torn' = torn \cup {k}
    PROVE  /\ Listing(order')
           /\ Stored' \in {Stored, Stored \ {k}, Stored \cup {k}}
           /\ torn' \subseteq Stored'
<1>1. CASE order' = order
  BY <1>1 DEF folder, Stored, Unlink, Listing
<1>2. CASE Unlink(k)
  <2>1. Stored' = ToSet(Without(order, k)) /\ Listing(order')
    BY <1>2, WithoutProperties DEF Unlink, Stored
  <2>2. ToSet(Without(order, k)) = Stored \ {k}
    BY WithoutProperties DEF Stored
  <2> QED
    BY <1>2, <2>1, <2>2 DEF Unlink
<1>3. CASE order' = Renewed(k) /\ torn' \subseteq torn
  <2>1. Stored' = ToSet(Renewed(k)) /\ Listing(order')
    BY <1>3, RenewedProperties DEF Stored
  <2>2. ToSet(Renewed(k)) = Stored \cup {k}
    BY RenewedProperties
  <2> QED
    BY <1>3, <2>1, <2>2
<1> QED
  BY <1>1, <1>2, <1>3 DEF folder

(* The files can be counted. *)
LEMMA StoredIsFinite ==
    ASSUME Listing(order)
    PROVE  IsFiniteSet(Stored)
<1>1. order \in Seq(Keys)
  BY DEF Listing
<1>2. DOMAIN order = 1..Len(order) /\ Len(order) \in Nat
  BY <1>1
<1>3. IsFiniteSet(1..Len(order))
  BY <1>2, FS_Interval
<1>4. order \in Surjection(1..Len(order), Stored)
  BY <1>1, <1>2 DEF Stored, ToSet, Surjection
<1> QED
  BY <1>3, <1>4, FS_Surjection

(* Pruning keeps the file just stored, and others as far as the limits allow. *)
LEMMA DoomedProperties ==
    ASSUME NEW listed, Listing(listed), NEW keep
    PROVE  /\ Doomed(keep, listed) \in Seq(Keys)
           /\ LET left == ToSet(listed) \ ToSet(Doomed(keep, listed))
              IN  left \subseteq {keep} \/ ~Over(left)
<1> DEFINE others == Without(listed, keep)
           n == Len(others)
           Left(m) == ToSet(listed) \ {others[i] : i \in 1..m}
           enough == {m \in 0..n : m = n \/ ~Over(Left(m))}
           d == Doomed(keep, listed)
           least == Min(enough)
<1>1. others \in Seq(Keys) /\ ToSet(others) = ToSet(listed) \ {keep}
  BY WithoutProperties DEF Listing
<1>2. n \in Nat /\ DOMAIN others = 1..n
  BY <1>1
<1>3. d = SubSeq(others, 1, least)
  BY DEF Doomed
<1> HIDE DEF others, n, d
<1>4. least \in enough
  <2>1. enough \in SUBSET Nat /\ n \in enough
    BY <1>2
  <2> HIDE DEF enough
  <2>2. PICK x \in enough : \A y \in enough : x <= y
    BY <2>1, LeastExists
  <2> QED
    BY <2>2 DEF Min
<1>5. least \in 0..n /\ (least = n \/ ~Over(Left(least)))
  BY <1>4
<1> HIDE DEF least, enough
<1>6. d \in Seq(Keys) /\ Len(d) = least /\ \A i \in 1..least : d[i] = others[i]
  <2>1. least \in 0..Len(others)
    BY <1>5 DEF n
  <2> QED
    BY <1>1, <1>3, <2>1
<1>7. ToSet(d) = {others[i] : i \in 1..least}
  <2>1. DOMAIN d = 1..least
    BY <1>2, <1>5, <1>6
  <2> QED
    BY <1>6, <2>1 DEF ToSet
<1>8. ToSet(listed) \ ToSet(d) = Left(least)
  BY <1>7
<1>9. CASE least = n
  <2>1. ToSet(d) = ToSet(listed) \ {keep}
    BY <1>1, <1>2, <1>7, <1>9 DEF ToSet
  <2> QED
    BY <1>6, <2>1 DEF d
<1>10. CASE ~Over(Left(least))
  <2> HIDE DEF Left
  <2> QED
    BY <1>6, <1>8, <1>10 DEF d
<1> QED
  BY <1>5, <1>9, <1>10

(* Whoever acts, every variable keeps its type. *)
LEMMA TypesStep ==
    ASSUME GcInv, TypesInv, [Next]_vars
    PROVE  TypesInv'
<1> DEFINE Own == /\ key' \in [Threads -> Keys \cup {None}]
                  /\ (\A t \in Threads : pc[t] = "idle" <=> key[t] = None)'
                  /\ seen' \in [Loaders -> {"none", "torn", "whole"}]
                  /\ doomed' \in [Storers -> Seq(Keys)]
                  /\ mishaps' \in 0..MaxMishaps
           Dir == Listing(order') /\ torn' \subseteq Stored'
<1>k. setup.loaders \subseteq Loaders /\ setup.keys \subseteq Keys
  BY SetupConstants DEF GcInv, LabelsFit, Setup
<1>f. ASSUME UNCHANGED folder PROVE Dir
  BY <1>f DEF folder, TypesInv, Stored
<1>r. ASSUME UNCHANGED gc PROVE resume' \in BOOLEAN
  BY <1>r DEF gc, TypesInv
<1>q. ASSUME Own, Dir, resume' \in BOOLEAN PROVE TypesInv'
  BY <1>q DEF TypesInv, Listing
<1> HIDE DEF Own, Dir
<1> DEFINE Here == /\ pc \in [Threads -> LoaderLabels \cup StorerLabels]
                   /\ key \in [Threads -> Keys \cup {None}]
                   /\ \A t \in Threads : pc[t] = "idle" <=> key[t] = None
                   /\ seen \in [Loaders -> {"none", "torn", "whole"}]
                   /\ doomed \in [Storers -> Seq(Keys)]
                   /\ mishaps \in 0..MaxMishaps
<1>h. Here
  BY DEF GcInv, LabelsFit, TypesInv
<1>w. ASSUME NEW t \in Threads, pc[t] # "idle" PROVE key[t] \in Keys
  BY <1>h, <1>w
<1>m. ASSUME NEW n \in Nat, Mishap(n) PROVE mishaps' \in 0..MaxMishaps
  BY <1>h, <1>m, DiskConstants DEF Mishap
<1>u. ASSUME NEW k \in Keys,
             \/ Unlink(k)
             \/ order' = Renewed(k) /\ torn' \subseteq torn
             \/ order' = order /\ k \in Stored /\ torn' = torn \cup {k}
      PROVE  Dir
  BY <1>u, FolderStep DEF TypesInv, Dir
<1> USE DiskConstants DEF Threads, LoaderLabels, StorerLabels
<1>1. ASSUME NEW t \in Loaders, NEW k \in Keys, Pause(t, k) PROVE TypesInv'
  <2>1. Own
    BY <1>1, <1>h DEF Pause, Goto, Own
  <2>2. resume' \in BOOLEAN
    BY <1>1 DEF Pause, GcInv, CollectorPausedWhileLoading, TypesInv
  <2> QED
    BY <1>1, <2>1, <2>2, <1>f, <1>q DEF Pause
<1>2. ASSUME NEW t \in Loaders, Read(t) PROVE TypesInv'
  <2>1. Own
    BY <1>2, <1>h DEF Read, Goto, Own
  <2> QED
    BY <1>2, <2>1, <1>f, <1>r, <1>q DEF Read
<1>3. ASSUME NEW t \in Loaders, Leave(t) PROVE TypesInv'
  <2>1. Own
    BY <1>3, <1>h DEF Leave, Goto, Own
  <2>2. resume' \in BOOLEAN
    BY <1>3 DEF Leave, TypesInv
  <2> QED
    BY <1>3, <2>1, <2>2, <1>f, <1>q DEF Leave
<1>4. ASSUME NEW t \in Loaders, EndLoad(t) PROVE TypesInv'
  <2>1. Own
    BY <1>4, <1>h DEF EndLoad, Goto, Own
  <2>2. key[t] \in Keys
    BY <1>4, <1>w DEF EndLoad
  <2>3. \/ UNCHANGED folder
        \/ Unlink(key[t])
        \/ order' = Renewed(key[t]) /\ torn' \subseteq torn
    BY <1>4 DEF EndLoad, folder
  <2>4. Dir
    BY <2>2, <2>3, <1>f, <1>u
  <2> QED
    BY <1>4, <2>1, <2>4, <1>r, <1>q DEF EndLoad
<1>5. ASSUME NEW t \in Storers, NEW k \in Keys, BeginStore(t, k)
      PROVE TypesInv'
  <2>1. Own
    BY <1>5, <1>h DEF BeginStore, Goto, Own
  <2> QED
    BY <1>5, <2>1, <1>f, <1>r, <1>q DEF BeginStore
<1>6. ASSUME NEW t \in Storers, StoreFails(t) PROVE TypesInv'
  <2>1. mishaps' \in 0..MaxMishaps
    BY <1>6, <1>h, <1>m DEF StoreFails
  <2>2. Own
    BY <1>6, <1>h, <2>1 DEF StoreFails, Goto, Own
  <2> QED
    BY <1>6, <2>2, <1>f, <1>r, <1>q DEF StoreFails
<1>7. ASSUME NEW t \in Storers, Rename(t) PROVE TypesInv'
  <2>1. Own
    BY <1>7, <1>h DEF Rename, Goto, Own
  <2>2. key[t] \in Keys
    BY <1>7, <1>w DEF Rename
  <2>3. order' = Renewed(key[t]) /\ torn' \subseteq torn
    BY <1>7 DEF Rename
  <2>4. Dir
    BY <2>2, <2>3, <1>u
  <2> QED
    BY <1>7, <2>1, <2>4, <1>r, <1>q DEF Rename
<1>8. ASSUME NEW t \in Storers, Scan(t) PROVE TypesInv'
  <2>1. PICK missed \in SUBSET Stored :
           /\ doomed' = [doomed EXCEPT
                            ![t] = Doomed(key[t], Listed(Stored \ missed))]
           /\ Mishap(Cardinality(missed))
    BY <1>8 DEF Scan
  <2> DEFINE listed == Listed(Stored \ missed)
             d == Doomed(key[t], listed)
  <2>2. Listing(listed)
    BY ListedProperties DEF TypesInv
  <2> HIDE DEF listed
  <2>3. d \in Seq(Keys)
    BY <2>2, DoomedProperties
  <2>4. doomed' = [doomed EXCEPT ![t] = d]
    BY <2>1 DEF listed
  <2>5. Cardinality(missed) \in Nat
    BY StoredIsFinite, FS_Subset, FS_CardinalityType DEF TypesInv
  <2>6. mishaps' \in 0..MaxMishaps
    BY <2>1, <2>5, <1>m
  <2> HIDE DEF d
  <2>7. Own
    BY <1>8, <2>3, <2>4, <2>6, <1>h DEF Scan, Goto, Own
  <2> QED
    BY <1>8, <2>7, <1>f, <1>r, <1>q DEF Scan
<1>9. ASSUME NEW t \in Storers, DeleteOldest(t) PROVE TypesInv'
  <2>1. Head(doomed[t]) \in Keys /\ Tail(doomed[t]) \in Seq(Keys)
    BY <1>9, <1>h DEF DeleteOldest
  <2>2. doomed' = [doomed EXCEPT ![t] = Tail(doomed[t])]
    BY <1>9 DEF DeleteOldest
  <2>5. mishaps' \in 0..MaxMishaps
    BY <1>9, <1>h, <1>m DEF DeleteOldest
  <2>3. Own
    BY <1>9, <2>1, <2>2, <2>5, <1>h DEF DeleteOldest, Own
  <2>4. Dir
    BY <1>9, <2>1, <1>f, <1>u DEF DeleteOldest
  <2> QED
    BY <1>9, <2>3, <2>4, <1>r, <1>q DEF DeleteOldest
<1>10. ASSUME NEW t \in Storers, EndStore(t) PROVE TypesInv'
  <2>1. Own
    BY <1>10, <1>h DEF EndStore, Goto, Own
  <2> QED
    BY <1>10, <2>1, <1>f, <1>r, <1>q DEF EndStore
<1>11. ASSUME NEW t \in Storers, Die(t) PROVE TypesInv'
  <2>1. << >> \in Seq(Keys)
    OBVIOUS
  <2>2. mishaps' \in 0..MaxMishaps
    BY <1>11, <1>m DEF Die
  <2>3. Own
    BY <1>11, <2>1, <2>2, <1>h DEF Die, Goto, Own
  <2> QED
    BY <1>11, <2>3, <1>f, <1>r, <1>q DEF Die
<1>12. ASSUME NEW k \in Keys, Spoil(k) PROVE TypesInv'
  <2>1. Own
    BY <1>12, <1>h DEF Spoil, Own
  <2>2. Dir
    BY <1>12, <1>u DEF Spoil
  <2> QED
    BY <1>12, <2>1, <2>2, <1>r, <1>q DEF Spoil
<1>13. ASSUME UNCHANGED vars PROVE TypesInv'
  <2>1. Own
    BY <1>13, <1>h DEF vars, Own
  <2> QED
    BY <1>13, <2>1, <1>f, <1>r, <1>q DEF vars
<1> QED
  BY <1>k, <1>1, <1>2, <1>3, <1>4, <1>5, <1>6, <1>7, <1>8,
     <1>9, <1>10, <1>11, <1>12, <1>13 DEF Next, Load, Store

(* At first nothing is stored and nobody is at work. *)
LEMMA InitTypes == Init => TypesInv
<1> SUFFICES ASSUME Init PROVE TypesInv
  OBVIOUS
<1>1. Listing(order) /\ torn \subseteq Stored
  BY DEF Init, Listing, IsInjective, Stored
<1>2. doomed \in [Storers -> Seq(Keys)]
  <2>1. << >> \in Seq(Keys)
    OBVIOUS
  <2> QED
    BY <2>1 DEF Init
<1>3. /\ key \in [Threads -> Keys \cup {None}]
      /\ \A t \in Threads : pc[t] = "idle" <=> key[t] = None
      /\ seen \in [Loaders -> {"none", "torn", "whole"}]
  BY DEF Init
<1>4. resume \in BOOLEAN
  BY DEF Init
<1>5. mishaps \in 0..MaxMishaps
  BY DiskConstants DEF Init
<1> QED
  BY <1>1, <1>2, <1>3, <1>4, <1>5 DEF TypesInv

(* The state is well formed, whatever is loaded, stored, damaged or cut off. *)
THEOREM TypeCorrect == Spec => []TypeOK
<1>1. Init => TypesInv
  BY InitTypes
<1>2. GcInv /\ TypesInv /\ [Next]_vars => TypesInv'
  BY TypesStep
<1>3. GcInv /\ TypesInv => TypeOK
  <2> SUFFICES ASSUME GcInv, TypesInv PROVE TypeOK
    OBVIOUS
  <2>1. gcOn \in BOOLEAN /\ resume \in BOOLEAN
    BY DEF GcInv, CollectorPausedWhileLoading, TypesInv
  <2>2. pausers = Cardinality({t \in Loaders : pc[t] \in {"read", "leave"}})
    BY DEF GcInv, PausersCount, Inside
  <2> QED
    BY <2>1, <2>2 DEF TypeOK, GcInv, LabelsFit, TypesInv, Listing,
                      LoaderLabels, StorerLabels
<1> QED
  BY <1>1, <1>2, <1>3, GcInvariance, PTL DEF Spec

-----------------------------------------------------------------------------
(* Limits *)

(* How many files there may be.  P are the storers between their rename and
   the end of their prune, R those of them that have scanned the folder, S the
   files, rest what each of R will leave of them, n the mishaps.  Whichever of R
   end first, one of those is late enough to know of all but the files of the
   others. *)
Few(P, R, S, rest, n) ==
    /\ Cardinality(S) <= MaxFiles + Cardinality(P) + n
    /\ \A Q \in SUBSET R :
          Q # {} => \E t \in Q :
                       Cardinality(rest[t]) <= MaxFiles + Cardinality(P \ Q) + n

(* How large they may be: the last to have scanned makes room enough. *)
Fits(ks) == Bytes(ks) <= MaxBytes \/ Cardinality(ks) <= 1

Room(P, R, S, rest, n) ==
    n = 0 /\ P = R => IF R = {} THEN Fits(S) ELSE \E t \in R : Fits(rest[t])

(* What the two speak of. *)
Scene(P, R, S, rest, n) ==
    /\ P \subseteq Storers /\ R \subseteq P
    /\ S \subseteq Keys /\ IsFiniteSet(S)
    /\ rest \in [Storers -> SUBSET S]
    /\ n \in Nat

Limited(P, R, S, rest, n) ==
    Scene(P, R, S, rest, n) /\ Few(P, R, S, rest, n) /\ Room(P, R, S, rest, n)

(* Sets that are counted here are finite. *)
LEMMA Countable ==
    ASSUME NEW P, NEW R, NEW S, NEW rest, NEW n, Scene(P, R, S, rest, n)
    PROVE  /\ \A Q \in SUBSET Storers : IsFiniteSet(Q) /\ Cardinality(Q) \in Nat
           /\ \A T \in SUBSET S : IsFiniteSet(T) /\ Cardinality(T) \in Nat
           /\ \A T \in SUBSET S : \A U \in SUBSET T :
                 Cardinality(U) <= Cardinality(T)
<1>1. IsFiniteSet(Storers)
  BY DiskConstants, FS_Subset
<1> QED
  BY <1>1, FS_Subset, FS_CardinalityType DEF Scene

(* Fewer files fit as well. *)
LEMMA PartFits ==
    ASSUME NEW T \in SUBSET Keys, IsFiniteSet(T), Fits(T), NEW U \in SUBSET T
    PROVE  Fits(U)
<1>1. /\ Cardinality(U) \in Nat /\ Cardinality(T) \in Nat
      /\ Cardinality(U) <= Cardinality(T)
  BY FS_Subset, FS_CardinalityType
<1>2. IsFiniteSet(U) /\ U \in SUBSET Keys
  BY FS_Subset
<1>3. Bytes(U) = Sum(Size, U) /\ Bytes(T) = Sum(Size, T)
  BY DEF Bytes, Sum
<1>4. Additive(Size, U) /\ Additive(Size, T)
  BY <1>2, DiskConstants, SumProperties
<1>5. Sum(Size, U) <= Sum(Size, T)
  BY DiskConstants, SumGrows
<1>6. Sum(Size, U) \in Nat /\ Sum(Size, T) \in Nat /\ MaxBytes \in Nat
  BY <1>4, DiskConstants DEF Additive
<1> QED
  BY <1>1, <1>3, <1>5, <1>6 DEF Fits

(* Files go, or the next file of a prune does. *)
LEMMA FilesGo ==
    ASSUME NEW P, NEW R, NEW S, NEW rest, NEW n, Limited(P, R, S, rest, n),
           NEW T \in SUBSET S, NEW after \in [Storers -> SUBSET T],
           \A t \in R : after[t] \subseteq rest[t]
    PROVE  Limited(P, R, T, after, n)
<1> USE DEF Limited
<1>1. Scene(P, R, T, after, n)
  BY FS_Subset DEF Scene
<1>2. /\ \A t \in R : Cardinality(after[t]) \in Nat /\ Cardinality(rest[t]) \in Nat
                      /\ Cardinality(after[t]) <= Cardinality(rest[t])
      /\ Cardinality(T) \in Nat /\ Cardinality(S) \in Nat
      /\ Cardinality(T) <= Cardinality(S)
  BY Countable DEF Scene
<1>3. MaxFiles \in Nat /\ n \in Nat /\ \A Q \in SUBSET P : Cardinality(P \ Q) \in Nat
  BY DiskConstants, Countable DEF Scene
<1>4. Cardinality(P) \in Nat
  BY Countable DEF Scene
<1>5. Few(P, R, T, after, n)
  <2>1. Cardinality(T) <= MaxFiles + Cardinality(P) + n
    BY <1>2, <1>3, <1>4 DEF Few
  <2>2. ASSUME NEW Q \in SUBSET R, Q # {}
        PROVE  \E t \in Q :
                  Cardinality(after[t]) <= MaxFiles + Cardinality(P \ Q) + n
    <3>1. PICK t \in Q : Cardinality(rest[t]) <= MaxFiles + Cardinality(P \ Q) + n
      BY <2>2 DEF Few
    <3>2. Cardinality(P \ Q) \in Nat /\ t \in R
      BY <1>3 DEF Scene
    <3> QED
      BY <1>2, <1>3, <3>1, <3>2
  <2> QED
    BY <2>1, <2>2 DEF Few
<1>6. Room(P, R, T, after, n)
  <2> SUFFICES ASSUME n = 0, P = R
               PROVE  IF R = {} THEN Fits(T) ELSE \E t \in R : Fits(after[t])
    BY DEF Room
  <2>1. CASE R = {}
    BY <2>1, PartFits DEF Room, Scene
  <2>2. CASE R # {}
    <3>1. PICK t \in R : Fits(rest[t])
      BY <2>2 DEF Room
    <3>2. /\ rest[t] \in SUBSET Keys /\ IsFiniteSet(rest[t])
          /\ after[t] \in SUBSET rest[t]
      BY Countable DEF Scene
    <3>3. Fits(after[t])
      BY <3>1, <3>2, PartFits
    <3> QED
      BY <2>2, <3>3
  <2> QED
    BY <2>1, <2>2
<1> QED
  BY <1>1, <1>5, <1>6

(* One more is at most one more. *)
LEMMA OneMore ==
    ASSUME NEW S, IsFiniteSet(S), NEW k
    PROVE  /\ IsFiniteSet(S \cup {k})
           /\ Cardinality(S) \in Nat /\ Cardinality(S \cup {k}) \in Nat
           /\ Cardinality(S \cup {k}) <= Cardinality(S) + 1
<1>1. IsFiniteSet(S \cup {k}) /\ Cardinality(S) \in Nat
  BY FS_AddElement, FS_CardinalityType
<1>2. Cardinality(S \cup {k}) =
         IF k \in S THEN Cardinality(S) ELSE Cardinality(S) + 1
  BY FS_AddElement
<1> QED
  BY <1>1, <1>2

(* A report is stored: one more file, and one more storer that will prune. *)
LEMMA FileComes ==
    ASSUME NEW P, NEW R, NEW S, NEW rest, NEW n, Limited(P, R, S, rest, n),
           NEW t \in Storers, t \notin P, NEW k \in Keys,
           NEW after \in [Storers -> SUBSET (S \cup {k})],
           \A u \in R : after[u] \subseteq rest[u] \cup {k}
    PROVE  Limited(P \cup {t}, R, S \cup {k}, after, n)
<1> USE DEF Limited
<1> DEFINE O == P \cup {t}
           T == S \cup {k}
<1>1. Scene(O, R, T, after, n)
  BY FS_AddElement DEF Scene
<1>2. \A Q \in SUBSET Storers : IsFiniteSet(Q) /\ Cardinality(Q) \in Nat
  BY Countable
<1>3. /\ IsFiniteSet(S) /\ Cardinality(S) \in Nat
      /\ IsFiniteSet(T) /\ Cardinality(T) \in Nat
      /\ Cardinality(T) <= Cardinality(S) + 1
  <2>1. IsFiniteSet(S)
    BY DEF Scene
  <2> QED
    BY <2>1, OneMore
<1>4. ASSUME NEW Q \in SUBSET R
      PROVE  /\ Cardinality(O \ Q) = Cardinality(P \ Q) + 1
             /\ Cardinality(P \ Q) \in Nat
  <2>1. O \ Q = (P \ Q) \cup {t} /\ t \notin P \ Q /\ P \ Q \in SUBSET Storers
    BY DEF Scene
  <2> HIDE DEF O
  <2>2. IsFiniteSet(P \ Q) /\ Cardinality(P \ Q) \in Nat
    BY <1>2, <2>1
  <2> QED
    BY <2>1, <2>2, FS_AddElement
<1>5. MaxFiles \in Nat /\ n \in Nat
  BY DiskConstants DEF Scene
<1>6. Few(O, R, T, after, n)
  <2>1. Cardinality(T) <= MaxFiles + Cardinality(O) + n
    <3>1. Cardinality(O) = Cardinality(P) + 1 /\ Cardinality(P) \in Nat
      <4>1. IsFiniteSet(P) /\ Cardinality(P) \in Nat
        BY <1>2 DEF Scene
      <4> QED
        BY <4>1, FS_AddElement
    <3>2. Cardinality(S) <= MaxFiles + Cardinality(P) + n
      BY DEF Few
    <3> HIDE DEF O, T
    <3> QED
      BY <1>3, <1>5, <3>1, <3>2
  <2>2. ASSUME NEW Q \in SUBSET R, Q # {}
        PROVE  \E u \in Q :
                  Cardinality(after[u]) <= MaxFiles + Cardinality(O \ Q) + n
    <3>1. PICK u \in Q : Cardinality(rest[u]) <= MaxFiles + Cardinality(P \ Q) + n
      BY <2>2 DEF Few
    <3>2. rest[u] \in SUBSET S /\ after[u] \subseteq rest[u] \cup {k}
      BY DEF Scene
    <3>3. IsFiniteSet(rest[u]) /\ Cardinality(rest[u]) \in Nat
      BY <3>2, Countable
    <3>4. Cardinality(after[u]) <= Cardinality(rest[u]) + 1 /\ Cardinality(after[u]) \in Nat
      <4>1. /\ IsFiniteSet(rest[u] \cup {k})
            /\ Cardinality(rest[u] \cup {k}) <= Cardinality(rest[u]) + 1
            /\ Cardinality(rest[u] \cup {k}) \in Nat
        BY <3>3, OneMore
      <4>2. Cardinality(after[u]) <= Cardinality(rest[u] \cup {k})
            /\ Cardinality(after[u]) \in Nat
        BY <4>1, <3>2, FS_Subset, FS_CardinalityType
      <4> QED
        BY <3>3, <4>1, <4>2
    <3>5. Cardinality(O \ Q) = Cardinality(P \ Q) + 1 /\ Cardinality(P \ Q) \in Nat
      BY <1>4
    <3> HIDE DEF O
    <3>6. Cardinality(after[u]) <= MaxFiles + Cardinality(O \ Q) + n
      BY <1>5, <3>1, <3>3, <3>4, <3>5
    <3> QED
      BY <3>6
  <2> QED
    BY <2>1, <2>2 DEF Few
<1>7. Room(O, R, T, after, n)
  <2>1. O # R
    BY DEF Scene
  <2> QED
    BY <2>1 DEF Room
<1> QED
  BY <1>1, <1>6, <1>7

(* After more mishaps the same is true. *)
LEMMA MoreMishaps ==
    ASSUME NEW P, NEW R, NEW S, NEW rest, NEW n, Limited(P, R, S, rest, n),
           NEW m \in Nat
    PROVE  Limited(P, R, S, rest, n + m)
<1> USE DEF Limited
<1>1. /\ n \in Nat /\ n + m \in Nat /\ n <= n + m /\ MaxFiles \in Nat
      /\ n + m = 0 => n = 0
  BY DiskConstants DEF Scene
<1>2. Cardinality(S) \in Nat /\ \A Q \in SUBSET P : Cardinality(P \ Q) \in Nat
  BY Countable DEF Scene
<1>3. Cardinality(P) \in Nat /\ \A t \in Storers : Cardinality(rest[t]) \in Nat
  BY Countable DEF Scene
<1>4. Few(P, R, S, rest, n + m)
  <2>1. Cardinality(S) <= MaxFiles + Cardinality(P) + (n + m)
    BY <1>1, <1>2, <1>3 DEF Few
  <2>2. ASSUME NEW Q \in SUBSET R, Q # {}
        PROVE  \E t \in Q :
                  Cardinality(rest[t]) <= MaxFiles + Cardinality(P \ Q) + (n + m)
    <3>1. PICK t \in Q : Cardinality(rest[t]) <= MaxFiles + Cardinality(P \ Q) + n
      BY <2>2 DEF Few
    <3>2. Cardinality(P \ Q) \in Nat /\ Cardinality(rest[t]) \in Nat
      BY <1>2, <1>3 DEF Scene
    <3> QED
      BY <1>1, <3>1, <3>2
  <2> QED
    BY <2>1, <2>2 DEF Few
<1>5. Scene(P, R, S, rest, n + m)
  BY <1>1 DEF Scene
<1>6. Room(P, R, S, rest, n + m)
  BY <1>1 DEF Room
<1> QED
  BY <1>4, <1>5, <1>6

(* A file is counted as deleted and stays: one mishap. *)
LEMMA FileStays ==
    ASSUME NEW P, NEW R, NEW S, NEW rest, NEW n, Limited(P, R, S, rest, n),
           NEW k, NEW after \in [Storers -> SUBSET S],
           \A u \in R : after[u] \subseteq rest[u] \cup {k}
    PROVE  Limited(P, R, S, after, n + 1)
<1> USE DEF Limited
<1>1. /\ n \in Nat /\ n + 1 \in Nat /\ n + 1 # 0 /\ MaxFiles \in Nat
  BY DiskConstants DEF Scene
<1>2. /\ Cardinality(S) \in Nat /\ Cardinality(P) \in Nat
      /\ \A Q \in SUBSET P : Cardinality(P \ Q) \in Nat
  BY Countable DEF Scene
<1>3. Few(P, R, S, after, n + 1)
  <2>1. Cardinality(S) <= MaxFiles + Cardinality(P) + (n + 1)
    BY <1>1, <1>2 DEF Few
  <2>2. ASSUME NEW Q \in SUBSET R, Q # {}
        PROVE  \E u \in Q :
                  Cardinality(after[u]) <= MaxFiles + Cardinality(P \ Q) + (n + 1)
    <3>1. PICK u \in Q : Cardinality(rest[u]) <= MaxFiles + Cardinality(P \ Q) + n
      BY <2>2 DEF Few
    <3>2. rest[u] \in SUBSET S /\ after[u] \subseteq rest[u] \cup {k}
      BY DEF Scene
    <3>3. IsFiniteSet(rest[u]) /\ Cardinality(rest[u]) \in Nat
      BY <3>2, Countable
    <3>4. /\ IsFiniteSet(rest[u] \cup {k})
          /\ Cardinality(rest[u] \cup {k}) <= Cardinality(rest[u]) + 1
          /\ Cardinality(rest[u] \cup {k}) \in Nat
      BY <3>3, OneMore
    <3>5. Cardinality(after[u]) <= Cardinality(rest[u] \cup {k})
          /\ Cardinality(after[u]) \in Nat
      BY <3>2, <3>4, FS_Subset, FS_CardinalityType
    <3>6. Cardinality(P \ Q) \in Nat
      BY <1>2 DEF Scene
    <3> QED
      BY <1>1, <3>1, <3>3, <3>4, <3>5, <3>6
  <2> QED
    BY <2>1, <2>2 DEF Few
<1>4. Scene(P, R, S, after, n + 1)
  BY <1>1 DEF Scene
<1>5. Room(P, R, S, after, n + 1)
  BY <1>1 DEF Room
<1> QED
  BY <1>3, <1>4, <1>5

(* A storer scans: it will leave no more than the limits allow. *)
LEMMA StorerScans ==
    ASSUME NEW P, NEW R, NEW S, NEW rest, NEW n, Limited(P, R, S, rest, n),
           NEW t \in P, t \notin R, NEW after \in [Storers -> SUBSET S],
           \A u \in R : after[u] = rest[u],
           n = 0 => Fits(after[t]), Cardinality(after[t]) <= MaxFiles + n
    PROVE  Limited(P, R \cup {t}, S, after, n)
<1> USE DEF Limited
<1>1. Scene(P, R \cup {t}, S, after, n)
  BY DEF Scene
<1>2. Few(P, R \cup {t}, S, after, n)
  <2>1. ASSUME NEW Q \in SUBSET (R \cup {t}), Q # {}
        PROVE  \E u \in Q :
                  Cardinality(after[u]) <= MaxFiles + Cardinality(P \ Q) + n
    <3>1. CASE t \in Q
      <4>1. P \ Q \in SUBSET Storers /\ after[t] \in SUBSET S
        BY DEF Scene
      <4>2. /\ Cardinality(P \ Q) \in Nat /\ n \in Nat /\ MaxFiles \in Nat
            /\ Cardinality(after[t]) \in Nat
        BY <4>1, Countable, DiskConstants DEF Scene
      <4>3. Cardinality(after[t]) <= MaxFiles + Cardinality(P \ Q) + n
        BY <4>2
      <4> QED
        BY <3>1, <4>3
    <3>2. CASE t \notin Q
      <4>1. Q \in SUBSET R
        BY <3>2
      <4>2. PICK u \in Q :
               Cardinality(rest[u]) <= MaxFiles + Cardinality(P \ Q) + n
        BY <2>1, <4>1 DEF Few
      <4>3. after[u] = rest[u]
        BY <4>1
      <4> QED
        BY <4>2, <4>3
    <3> QED
      BY <3>1, <3>2
  <2> QED
    BY <2>1 DEF Few
<1>3. Room(P, R \cup {t}, S, after, n)
  BY DEF Room
<1> QED
  BY <1>1, <1>2, <1>3

(* A storer has deleted all it was going to. *)
LEMMA PruneEnds ==
    ASSUME NEW P, NEW R, NEW S, NEW rest, NEW n, Limited(P, R, S, rest, n),
           NEW t \in R, rest[t] = S
    PROVE  Limited(P \ {t}, R \ {t}, S, rest, n)
<1> USE DEF Limited
<1> DEFINE O == P \ {t}
<1>1. Scene(O, R \ {t}, S, rest, n)
  BY DEF Scene
<1>2. Few(O, R \ {t}, S, rest, n)
  <2>1. Cardinality(S) <= MaxFiles + Cardinality(O) + n
    BY DEF Few
  <2>2. ASSUME NEW Q \in SUBSET (R \ {t}), Q # {}
        PROVE  \E u \in Q :
                  Cardinality(rest[u]) <= MaxFiles + Cardinality(O \ Q) + n
    <3> DEFINE both == Q \cup {t}
    <3>1. both \in SUBSET R /\ both # {} /\ P \ both = O \ Q
      OBVIOUS
    <3> HIDE DEF both, O
    <3>2. PICK u \in both :
             Cardinality(rest[u]) <= MaxFiles + Cardinality(O \ Q) + n
      BY <3>1 DEF Few
    <3>3. CASE u \in Q
      BY <3>2, <3>3
    <3>4. CASE u = t
      <4>1. Cardinality(S) <= MaxFiles + Cardinality(O \ Q) + n
        BY <3>2, <3>4
      <4>2. PICK v \in Q : TRUE
        BY <2>2
      <4>3. rest[v] \in SUBSET S /\ S \in SUBSET S /\ O \ Q \in SUBSET Storers
        BY <1>1 DEF Scene
      <4>4. /\ Cardinality(rest[v]) <= Cardinality(S)
            /\ Cardinality(rest[v]) \in Nat /\ Cardinality(S) \in Nat
            /\ Cardinality(O \ Q) \in Nat
        BY <4>3, Countable
      <4>5. MaxFiles \in Nat /\ n \in Nat
        BY DiskConstants DEF Scene
      <4> QED
        BY <4>1, <4>4, <4>5
    <3> QED
      BY <3>2, <3>3, <3>4 DEF both
  <2> QED
    BY <2>1, <2>2 DEF Few
<1>3. Room(O, R \ {t}, S, rest, n)
  <2> SUFFICES ASSUME n = 0, O = R \ {t}
               PROVE  IF R \ {t} = {} THEN Fits(S)
                      ELSE \E u \in R \ {t} : Fits(rest[u])
    BY DEF Room
  <2>1. PICK u \in R : Fits(rest[u])
    <3>1. P = R
      BY DEF Scene
    <3> QED
      BY <3>1 DEF Room
  <2>2. CASE u # t
    BY <2>1, <2>2
  <2>3. CASE u = t
    <3>1. Fits(S) /\ S \in SUBSET Keys /\ IsFiniteSet(S)
      BY <2>1, <2>3 DEF Scene
    <3>2. \A v \in R : rest[v] \in SUBSET S
      BY DEF Scene
    <3>3. \A v \in R : Fits(rest[v])
      BY <3>1, <3>2, PartFits
    <3> QED
      BY <3>1, <3>3
  <2> QED
    BY <2>2, <2>3
<1> QED
  BY <1>1, <1>2, <1>3

(* A storer dies, whether it was pruning or not. *)
LEMMA StorerDies ==
    ASSUME NEW P, NEW R, NEW S, NEW rest, NEW n, Limited(P, R, S, rest, n),
           NEW t \in Storers, NEW after \in [Storers -> SUBSET S],
           \A u \in R \ {t} : after[u] = rest[u]
    PROVE  Limited(P \ {t}, R \ {t}, S, after, n + 1)
<1> USE DEF Limited
<1> DEFINE O == P \ {t}
<1>1. Scene(O, R \ {t}, S, after, n + 1)
  BY DEF Scene
<1>2. ASSUME NEW Q \in SUBSET (R \ {t})
      PROVE  /\ Cardinality(P \ Q) <= Cardinality(O \ Q) + 1
             /\ Cardinality(P \ Q) \in Nat /\ Cardinality(O \ Q) \in Nat
  <2>1. O \ Q = (P \ Q) \ {t} /\ P \ Q \in SUBSET Storers /\ O \ Q \in SUBSET Storers
    BY DEF Scene
  <2> HIDE DEF O
  <2>2. /\ IsFiniteSet(P \ Q) /\ Cardinality(P \ Q) \in Nat
        /\ Cardinality(O \ Q) \in Nat
    BY <2>1, Countable
  <2>3. Cardinality(O \ Q) = IF t \in P \ Q THEN Cardinality(P \ Q) - 1
                             ELSE Cardinality(P \ Q)
    BY <2>1, <2>2, FS_RemoveElement
  <2> QED
    BY <2>2, <2>3
<1>3. MaxFiles \in Nat /\ n \in Nat
  BY DiskConstants DEF Scene
<1>4. \A u \in Storers : Cardinality(after[u]) \in Nat
  BY <1>1, Countable DEF Scene
<1>5. Cardinality(S) \in Nat
  BY Countable
<1>6. Few(O, R \ {t}, S, after, n + 1)
  <2>1. Cardinality(S) <= MaxFiles + Cardinality(O) + (n + 1)
    <3>1. P \ {} = P /\ O \ {} = O
      OBVIOUS
    <3>2. /\ Cardinality(P) <= Cardinality(O) + 1
          /\ Cardinality(P) \in Nat /\ Cardinality(O) \in Nat
      <4> HIDE DEF O
      <4> QED
        BY <1>2, <3>1
    <3>3. Cardinality(S) <= MaxFiles + Cardinality(P) + n
      BY DEF Few
    <3> HIDE DEF O
    <3> QED
      BY <1>3, <1>5, <3>2, <3>3
  <2>2. ASSUME NEW Q \in SUBSET (R \ {t}), Q # {}
        PROVE  \E u \in Q :
                  Cardinality(after[u]) <= MaxFiles + Cardinality(O \ Q) + (n + 1)
    <3>1. PICK u \in Q : Cardinality(rest[u]) <= MaxFiles + Cardinality(P \ Q) + n
      BY <2>2 DEF Few
    <3>2. after[u] = rest[u] /\ u \in Storers
      BY DEF Scene
    <3>3. /\ Cardinality(P \ Q) <= Cardinality(O \ Q) + 1
          /\ Cardinality(P \ Q) \in Nat /\ Cardinality(O \ Q) \in Nat
      BY <1>2
    <3> HIDE DEF O
    <3>4. Cardinality(after[u]) <= MaxFiles + Cardinality(O \ Q) + (n + 1)
      BY <1>3, <1>4, <3>1, <3>2, <3>3
    <3> QED
      BY <3>4
  <2> QED
    BY <2>1, <2>2 DEF Few
<1>7. Room(O, R \ {t}, S, after, n + 1)
  BY <1>3 DEF Room
<1> QED
  BY <1>1, <1>6, <1>7

(* The storers that have renamed and not ended their prune, those of them that
   have scanned the folder, and what each of these will leave of the files. *)
Limiting == {t \in Storers : pc[t] \in {"scan", "prune"}}
Pruning == {t \in Storers : pc[t] = "prune"}
Rest == [t \in Storers |-> Stored \ ToSet(doomed[t])]

LimitInv == Limited(Limiting, Pruning, Stored, Rest, mishaps)

(* At first there are no files. *)
LEMMA InitLimit == Init => LimitInv
<1> SUFFICES ASSUME Init PROVE LimitInv
  OBVIOUS
<1>1. Stored = {} /\ Limiting = {} /\ Pruning = {} /\ mishaps = 0
  BY DEF Init, Stored, ToSet, Limiting, Pruning, Threads
<1>2. Rest \in [Storers -> SUBSET {}]
  BY <1>1 DEF Rest
<1>3. Cardinality({}) = 0 /\ IsFiniteSet({})
  BY FS_EmptySet
<1>4. MaxFiles \in Nat
  BY DiskConstants
<1>5. Scene({}, {}, {}, Rest, 0)
  BY <1>2, <1>3 DEF Scene
<1>6. Few({}, {}, {}, Rest, 0) /\ Room({}, {}, {}, Rest, 0)
  BY <1>3, <1>4 DEF Few, Room, Fits
<1> QED
  BY <1>1, <1>5, <1>6 DEF LimitInv, Limited

(* Every step keeps the files few and small enough for what is to come. *)
LEMMA LimitStep ==
    ASSUME GcInv, TypesInv, LimitInv, [Next]_vars
    PROVE  LimitInv'
<1>k. setup.loaders \subseteq Loaders /\ setup.keys \subseteq Keys
  BY SetupConstants DEF GcInv, LabelsFit, Setup
<1>p. pc \in [Threads -> LoaderLabels \cup StorerLabels]
      /\ \A t \in Loaders : pc[t] \in LoaderLabels
  BY DEF GcInv, LabelsFit
<1>o. Listing(order) /\ torn \subseteq Stored
      /\ doomed \in [Storers -> Seq(Keys)]
  BY DEF TypesInv
<1>w. ASSUME NEW t \in Threads, pc[t] # "idle" PROVE key[t] \in Keys
  BY <1>w DEF TypesInv
<1>i. Limited(Limiting, Pruning, Stored, Rest, mishaps)
  BY DEF LimitInv
<1>q. LimitInv' <=> Limited(Limiting', Pruning', Stored', Rest', mishaps')
  BY DEF LimitInv
<1>t. Rest' = [t \in Storers |-> Stored' \ ToSet(doomed'[t])]
  BY DEF Rest
<1>g. ASSUME UNCHANGED <<Limiting, Pruning, mishaps>>, Stored' \subseteq Stored,
             \A t \in Pruning : Rest'[t] \subseteq Rest[t]
      PROVE  LimitInv'
  <2>1. Rest' \in [Storers -> SUBSET Stored']
    BY <1>t
  <2>2. Limited(Limiting, Pruning, Stored', Rest', mishaps)
    BY <1>g, <1>i, <2>1, FilesGo
  <2> QED
    BY <1>g, <1>q, <2>2
<1>h. ASSUME UNCHANGED <<Limiting, Pruning, doomed, mishaps>>,
             Stored' \subseteq Stored
      PROVE  LimitInv'
  <2>1. \A t \in Storers : Rest'[t] \subseteq Rest[t]
    BY <1>h, <1>t DEF Rest
  <2> QED
    BY <1>h, <1>g, <2>1 DEF Pruning
<1>f. ASSUME UNCHANGED folder PROVE Stored' = Stored
  BY <1>f DEF folder, Stored
<1>u. ASSUME NEW k, Unlink(k) PROVE Stored' = Stored \ {k}
  BY <1>o, <1>u, WithoutProperties DEF Unlink, Stored
<1>v. ASSUME NEW k \in Keys, order' = Renewed(k) PROVE Stored' = Stored \cup {k}
  BY <1>o, <1>v, RenewedProperties DEF Stored
<1>l. ASSUME NEW t \in Loaders, NEW m \in LoaderLabels,
             pc' = [pc EXCEPT ![t] = m], UNCHANGED <<doomed, mishaps>>,
             Stored' \subseteq Stored
      PROVE  LimitInv'
  <2>1. UNCHANGED <<Limiting, Pruning>>
    BY <1>l, <1>p, DiskConstants DEF Limiting, Pruning, Threads, LoaderLabels
  <2> QED
    BY <1>l, <1>h, <2>1
<1> USE DEF Threads
<1>1. ASSUME NEW t \in Loaders, NEW k \in Keys, Pause(t, k) PROVE LimitInv'
  BY <1>1, <1>f, <1>l DEF Pause, Goto, LoaderLabels
<1>2. ASSUME NEW t \in Loaders, Read(t) PROVE LimitInv'
  BY <1>2, <1>f, <1>l DEF Read, Goto, LoaderLabels
<1>3. ASSUME NEW t \in Loaders, Leave(t) PROVE LimitInv'
  BY <1>3, <1>f, <1>l DEF Leave, Goto, LoaderLabels
<1>4. ASSUME NEW t \in Loaders, EndLoad(t) PROVE LimitInv'
  <2>1. \/ UNCHANGED folder
        \/ Unlink(key[t])
        \/ key[t] \in Stored /\ order' = Renewed(key[t])
    BY <1>4 DEF EndLoad, folder
  <2>2. key[t] \in Keys
    BY <1>4, <1>w DEF EndLoad
  <2>3. Stored' \subseteq Stored
    BY <2>1, <2>2, <1>f, <1>u, <1>v
  <2> QED
    BY <1>4, <2>3, <1>l DEF EndLoad, Goto, LoaderLabels
<1>5. ASSUME NEW t \in Storers, NEW k \in Keys, BeginStore(t, k)
      PROVE LimitInv'
  <2>1. UNCHANGED <<Limiting, Pruning>>
    BY <1>5, <1>p DEF BeginStore, Goto, Limiting, Pruning
  <2> QED
    BY <1>5, <1>f, <1>h, <2>1 DEF BeginStore
<1>6. ASSUME NEW t \in Storers, StoreFails(t) PROVE LimitInv'
  <2>1. CASE pc[t] = "write" /\ UNCHANGED mishaps
    <3>1. UNCHANGED <<Limiting, Pruning>>
      BY <1>6, <1>p, <2>1 DEF StoreFails, Goto, Limiting, Pruning
    <3> QED
      BY <1>6, <1>f, <1>h, <2>1, <3>1 DEF StoreFails
  <2>2. CASE pc[t] = "scan" /\ Mishap(1)
    <3>1. Limiting' = Limiting \ {t} /\ Pruning' = Pruning \ {t}
          /\ mishaps' = mishaps + 1
      BY <1>6, <1>p, <2>2 DEF StoreFails, Goto, Limiting, Pruning, Mishap
    <3>2. Stored' = Stored /\ Rest' = Rest
      BY <1>6, <1>f, <1>t DEF StoreFails, Rest
    <3>3. Rest \in [Storers -> SUBSET Stored]
      BY DEF Rest
    <3>4. Limited(Limiting \ {t}, Pruning \ {t}, Stored, Rest, mishaps + 1)
      BY <1>i, <3>3, StorerDies
    <3> QED
      BY <1>q, <3>1, <3>2, <3>4
  <2> QED
    BY <1>6, <2>1, <2>2 DEF StoreFails
<1>7. ASSUME NEW t \in Storers, Rename(t) PROVE LimitInv'
  <2>1. /\ Limiting' = Limiting \cup {t} /\ t \notin Limiting
        /\ Pruning' = Pruning
        /\ UNCHANGED <<doomed, mishaps>>
    BY <1>7, <1>p DEF Rename, Goto, Limiting, Pruning
  <2>2. key[t] \in Keys
    BY <1>7, <1>w DEF Rename
  <2>3. Stored' = Stored \cup {key[t]}
    BY <1>7, <2>2, <1>v DEF Rename
  <2> DEFINE k == key[t]
  <2>4. /\ Rest' \in [Storers -> SUBSET (Stored \cup {k})]
        /\ \A u \in Storers : Rest'[u] \subseteq Rest[u] \cup {k}
    BY <1>t, <2>1, <2>3 DEF Rest
  <2>5. k \in Keys /\ \A u \in Pruning : Rest'[u] \subseteq Rest[u] \cup {k}
    BY <2>2, <2>4 DEF Pruning
  <2> HIDE DEF k
  <2>6. Limited(Limiting \cup {t}, Pruning, Stored \cup {k}, Rest', mishaps)
    BY <1>i, <2>1, <2>4, <2>5, FileComes
  <2> QED
    BY <1>q, <2>1, <2>3, <2>6 DEF k
<1>8. ASSUME NEW t \in Storers, Scan(t) PROVE LimitInv'
  <2>1. /\ Limiting' = Limiting /\ Pruning' = Pruning \cup {t}
        /\ t \in Limiting /\ t \notin Pruning
    BY <1>8, <1>p DEF Scan, Goto, Limiting, Pruning
  <2>2. PICK missed \in SUBSET Stored :
           /\ doomed' = [doomed EXCEPT
                            ![t] = Doomed(key[t], Listed(Stored \ missed))]
           /\ mishaps' = mishaps + Cardinality(missed)
    BY <1>8 DEF Scan, Mishap
  <2> DEFINE listed == Listed(Stored \ missed)
             m == Cardinality(missed)
             left == Rest'[t]
             found == ToSet(listed) \ ToSet(Doomed(key[t], listed))
  <2>3. Stored' = Stored
    BY <1>8, <1>f DEF Scan
  <2>4. /\ IsFiniteSet(missed) /\ m \in Nat /\ (m = 0 => missed = {})
        /\ mishaps \in Nat /\ mishaps + m \in Nat
        /\ mishaps + m = 0 => missed = {}
    <3>1. IsFiniteSet(missed) /\ m \in Nat /\ mishaps \in Nat
      BY <1>i, Countable DEF Limited, Scene
    <3> QED
      BY <3>1, FS_EmptySet
  <2>5. Listing(listed) /\ ToSet(listed) = Stored \ missed
    <3>1. Listing(listed) /\ ToSet(listed) = Stored \cap (Stored \ missed)
      BY <1>o, ListedProperties
    <3> HIDE DEF listed
    <3> QED
      BY <3>1
  <2> HIDE DEF listed
  <2>6. found \subseteq {key[t]} \/ ~Over(found)
    BY <2>5, DoomedProperties
  <2>7. doomed' = [doomed EXCEPT ![t] = Doomed(key[t], listed)]
    BY <2>2 DEF listed
  <2>8. /\ Rest' \in [Storers -> SUBSET Stored]
        /\ \A u \in Pruning : Rest'[u] = Rest[u]
        /\ left = Stored \ ToSet(Doomed(key[t], listed))
    BY <1>o, <1>t, <2>1, <2>3, <2>7 DEF Rest, Pruning
  <2>9. left \in SUBSET Stored /\ left \subseteq found \cup missed
        /\ found \in SUBSET Stored /\ (missed = {} => left = found)
    BY <2>5, <2>8
  <2>10. /\ IsFiniteSet(found) /\ Cardinality(found) \in Nat
         /\ IsFiniteSet(left) /\ Cardinality(left) \in Nat
         /\ found \in SUBSET Keys
    <3>1. Scene(Limiting, Pruning, Stored, Rest, mishaps)
      BY <1>i DEF Limited
    <3> HIDE DEF left, found
    <3> QED
      BY <2>9, <3>1, Countable DEF Scene
  <2> HIDE DEF left, found
  <2>11. MaxFiles \in Nat /\ MaxFiles >= 1 /\ MaxBytes \in Nat
    BY DiskConstants
  <2>12. Bytes(found) \in Nat
    <3>1. Additive(Size, found)
      BY <2>10, DiskConstants, SumProperties
    <3> QED
      BY <3>1 DEF Additive, Bytes, Sum
  <2>13. Fits(found) /\ Cardinality(found) <= MaxFiles
    <3>1. CASE found \subseteq {key[t]}
      <4>1. Cardinality(found) <= 1
        <5>1. IsFiniteSet({key[t]}) /\ Cardinality({key[t]}) = 1
          BY FS_Singleton
        <5> QED
          BY <3>1, <5>1, FS_Subset
      <4> QED
        BY <2>10, <2>11, <4>1 DEF Fits
    <3>2. CASE ~Over(found)
      BY <3>2, <2>10, <2>11, <2>12 DEF Over, Fits
    <3> QED
      BY <2>6, <3>1, <3>2
  <2>14. Cardinality(left) <= MaxFiles + (mishaps + m)
    <3>1. /\ IsFiniteSet(found \cup missed)
          /\ Cardinality(found \cup missed) <= Cardinality(found) + m
      <4>1. IsFiniteSet(found \cap missed) /\ Cardinality(found \cap missed) \in Nat
        BY <2>4, FS_Subset, FS_CardinalityType
      <4>2. Cardinality(found \cup missed)
               = Cardinality(found) + m - Cardinality(found \cap missed)
        BY <2>4, <2>10, FS_Union
      <4>3. IsFiniteSet(found \cup missed)
        BY <2>4, <2>10, FS_Union
      <4> HIDE DEF m
      <4> QED
        BY <2>4, <2>10, <4>1, <4>2, <4>3
    <3>2. Cardinality(left) <= Cardinality(found \cup missed)
          /\ Cardinality(found \cup missed) \in Nat
      BY <2>9, <3>1, FS_Subset, FS_CardinalityType
    <3> HIDE DEF m
    <3> QED
      BY <2>4, <2>10, <2>11, <2>13, <3>1, <3>2
  <2>15. mishaps + m = 0 => Fits(left)
    BY <2>4, <2>9, <2>13
  <2> HIDE DEF m
  <2>16. Limited(Limiting, Pruning, Stored, Rest, mishaps + m)
    BY <1>i, <2>4, MoreMishaps
  <2>17. Limited(Limiting, Pruning \cup {t}, Stored, Rest', mishaps + m)
    BY <2>1, <2>8, <2>14, <2>15, <2>16, StorerScans DEF left
  <2> QED
    BY <1>q, <2>1, <2>2, <2>3, <2>17 DEF m
<1>9. ASSUME NEW t \in Storers, DeleteOldest(t) PROVE LimitInv'
  <2> DEFINE h == Head(doomed[t])
             s == doomed[t]
  <2>1. /\ UNCHANGED <<Limiting, Pruning>>
        /\ doomed' = [doomed EXCEPT ![t] = Tail(s)]
        /\ s # << >>
    BY <1>9 DEF DeleteOldest, Limiting, Pruning
  <2>2. \/ Stored' = Stored \ {h} /\ mishaps' = mishaps
        \/ Stored' = Stored /\ mishaps' = mishaps + 1
    BY <1>9, <1>f, <1>u DEF DeleteOldest, Mishap
  <2>3. ToSet(s) \subseteq ToSet(Tail(s)) \cup {h}
    <3>1. s \in Seq(Keys)
      BY <1>o
    <3> HIDE DEF s
    <3>2. /\ \A i \in 1..(Len(s) - 1) : Tail(s)[i] = s[i + 1]
          /\ DOMAIN s = 1..Len(s) /\ DOMAIN Tail(s) = 1..(Len(s) - 1)
          /\ Head(s) = s[1] /\ Len(s) \in Nat
      BY <2>1, <3>1
    <3>3. ASSUME NEW i \in 1..Len(s), i # 1 PROVE s[i] \in ToSet(Tail(s))
      <4>1. i - 1 \in 1..(Len(s) - 1) /\ (i - 1) + 1 = i
        BY <3>2, <3>3
      <4> QED
        BY <3>2, <4>1 DEF ToSet
    <3> QED
      BY <3>2, <3>3 DEF ToSet, s
  <2>4. ASSUME NEW u \in Storers
        PROVE  /\ Rest'[u] = Stored' \ ToSet(doomed'[u])
               /\ Rest[u] = Stored \ ToSet(doomed[u])
               /\ ToSet(doomed[u]) \subseteq ToSet(doomed'[u]) \cup {h}
    <3>1. Rest'[u] = Stored' \ ToSet(doomed'[u])
          /\ Rest[u] = Stored \ ToSet(doomed[u])
      BY <1>t DEF Rest
    <3>2. doomed'[u] = IF u = t THEN Tail(s) ELSE doomed[u]
      BY <1>o, <2>1
    <3> QED
      BY <2>3, <3>1, <3>2
  <2> HIDE DEF h, s
  <2>5. CASE Stored' = Stored \ {h} /\ mishaps' = mishaps
    <3>1. \A u \in Storers : Rest'[u] \subseteq Rest[u]
      BY <2>4, <2>5
    <3> QED
      BY <1>g, <2>1, <2>5, <3>1 DEF Pruning
  <2>6. CASE Stored' = Stored /\ mishaps' = mishaps + 1
    <3>1. /\ Rest' \in [Storers -> SUBSET Stored]
          /\ \A u \in Storers : Rest'[u] \subseteq Rest[u] \cup {h}
      BY <1>t, <2>4, <2>6
    <3>2. \A u \in Pruning : Rest'[u] \subseteq Rest[u] \cup {h}
      BY <3>1 DEF Pruning
    <3>3. Limited(Limiting, Pruning, Stored, Rest', mishaps + 1)
      BY <1>i, <3>1, <3>2, FileStays
    <3> QED
      BY <1>q, <2>1, <2>6, <3>3
  <2> QED
    BY <2>2, <2>5, <2>6
<1>10. ASSUME NEW t \in Storers, EndStore(t) PROVE LimitInv'
  <2>1. /\ Limiting' = Limiting \ {t} /\ Pruning' = Pruning \ {t}
        /\ t \in Pruning /\ UNCHANGED <<doomed, mishaps>> /\ doomed[t] = << >>
    BY <1>10, <1>p DEF EndStore, Goto, Limiting, Pruning
  <2>2. Stored' = Stored
    BY <1>10, <1>f DEF EndStore
  <2>3. Rest' = Rest
    BY <1>t, <2>1, <2>2 DEF Rest
  <2>4. ToSet(<< >>) = {}
    BY DEF ToSet
  <2>5. Rest[t] = Stored
    BY <2>1, <2>4 DEF Rest
  <2>6. Limited(Limiting \ {t}, Pruning \ {t}, Stored, Rest, mishaps)
    BY <1>i, <2>1, <2>5, PruneEnds
  <2> QED
    BY <1>q, <2>1, <2>2, <2>3, <2>6
<1>11. ASSUME NEW t \in Storers, Die(t) PROVE LimitInv'
  <2>1. Limiting' = Limiting \ {t} /\ Pruning' = Pruning \ {t}
        /\ mishaps' = mishaps + 1
    BY <1>11, <1>p DEF Die, Goto, Limiting, Pruning, Mishap
  <2>2. Stored' = Stored /\ doomed' = [doomed EXCEPT ![t] = << >>]
    BY <1>11, <1>f DEF Die
  <2>3. /\ Rest' \in [Storers -> SUBSET Stored]
        /\ \A u \in Storers \ {t} : Rest'[u] = Rest[u]
    BY <1>o, <1>t, <2>2 DEF Rest
  <2>4. \A u \in Pruning \ {t} : Rest'[u] = Rest[u]
    BY <2>3 DEF Pruning
  <2>5. Limited(Limiting \ {t}, Pruning \ {t}, Stored, Rest', mishaps + 1)
    BY <1>i, <2>3, <2>4, StorerDies
  <2> QED
    BY <1>q, <2>1, <2>2, <2>5
<1>12. ASSUME NEW k \in Keys, Spoil(k) PROVE LimitInv'
  <2>1. UNCHANGED <<Limiting, Pruning, Stored>>
    BY <1>12 DEF Spoil, Limiting, Pruning, Stored
  <2> QED
    BY <1>12, <1>h, <2>1 DEF Spoil
<1>13. ASSUME UNCHANGED vars PROVE LimitInv'
  <2>1. UNCHANGED <<Limiting, Pruning, Stored>>
    BY <1>13, <1>f DEF vars, Limiting, Pruning
  <2> QED
    BY <1>13, <1>h, <2>1 DEF vars
<1> QED
  BY <1>k, <1>1, <1>2, <1>3, <1>4, <1>5, <1>6, <1>7, <1>8,
     <1>9, <1>10, <1>11, <1>12, <1>13 DEF Next, Load, Store

(* The folder outgrows its limits by no more than the storers at work and what
   went wrong: storers that died, scans that failed or missed a file, files
   that could not be deleted.  At rest and after none of these it does so by
   one large file at most, for any number of processes that prune what the
   others store. *)
THEOREM FolderStaysSmall == Spec => []FolderBounded
<1>1. GcInv /\ TypesInv /\ LimitInv /\ [Next]_vars => LimitInv'
  BY LimitStep
<1>2. GcInv /\ TypesInv /\ LimitInv => FolderBounded
  <2> SUFFICES ASSUME GcInv, TypesInv, LimitInv PROVE FolderBounded
    OBVIOUS
  <2>1. /\ Scene(Limiting, Pruning, Stored, Rest, mishaps)
        /\ Few(Limiting, Pruning, Stored, Rest, mishaps)
        /\ Room(Limiting, Pruning, Stored, Rest, mishaps)
    BY DEF LimitInv, Limited
  <2>2. Limiting \in SUBSET Busy /\ Busy \in SUBSET Storers
    BY DEF Limiting, Busy
  <2>3. /\ Cardinality(Limiting) <= Cardinality(Busy)
        /\ Cardinality(Limiting) \in Nat /\ Cardinality(Busy) \in Nat
        /\ Cardinality(Stored) \in Nat /\ IsFiniteSet(Stored)
    <3>1. IsFiniteSet(Busy) /\ Cardinality(Busy) \in Nat
          /\ Cardinality(Limiting) \in Nat
      BY <2>1, <2>2, Countable DEF Scene
    <3>2. IsFiniteSet(Stored) /\ Cardinality(Stored) \in Nat
      BY <2>1, Countable DEF Scene
    <3> QED
      BY <3>1, <3>2, <2>2, FS_Subset
  <2>4. MaxFiles \in Nat /\ mishaps \in Nat
    BY <2>1, DiskConstants DEF Scene
  <2>5. Cardinality(Stored) <= MaxFiles + Cardinality(Busy) + mishaps
    BY <2>1, <2>3, <2>4 DEF Few
  <2>6. ASSUME Busy = {}, mishaps = 0
        PROVE  Bytes(Stored) <= MaxBytes \/ Cardinality(Stored) = 1
    <3>1. Limiting = {} /\ Pruning = {}
      BY <2>1, <2>2, <2>6 DEF Scene
    <3>2. Fits(Stored)
      BY <2>1, <2>6, <3>1 DEF Room
    <3>3. CASE Cardinality(Stored) = 0
      <4>1. Stored = {}
        BY <2>3, <3>3, FS_EmptySet
      <4>2. Additive(Size, {})
        BY DiskConstants, FS_EmptySet, SumProperties
      <4>3. Bytes({}) = 0
        BY <4>2 DEF Additive, Bytes, Sum
      <4> QED
        BY <4>1, <4>3, DiskConstants
    <3> QED
      BY <2>3, <3>2, <3>3 DEF Fits
  <2> QED
    BY <2>5, <2>6 DEF FolderBounded
<1>3. TypesInv /\ GcInv /\ [Next]_vars => TypesInv'
  BY TypesStep
<1>4. Init => TypesInv
  BY InitTypes
<1> QED
  BY <1>1, <1>2, <1>3, <1>4, InitLimit, GcInvariance, PTL DEF Spec
=============================================================================
