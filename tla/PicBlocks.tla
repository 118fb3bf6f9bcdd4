------------------------------ MODULE PicBlocks ------------------------------
(***************************************************************************)
(* picblocks.py: what a comparison of two matched functions paints, as     *)
(* operators.  A function is a sequence of blocks, a block has its code:   *)
(* of each instruction the escaped text, as a sequence of characters.      *)
(* Equal digests are taken for equal texts.                                *)
(***************************************************************************)
EXTENDS Integers, Sequences, FiniteSets, SequencesExt

CONSTANT Budget         \* _FUZZY_WORK_BUDGET

ASSUME BudgetIsNatural == Budget \in Nat

(* A block whose instructions have no sizes can only be painted as a whole. *)
Block == [code : Seq(Seq(STRING)), entry : BOOLEAN, sized : BOOLEAN]

Text(b) == FlattenSeq(b.code)

-----------------------------------------------------------------------------
(* difflib.SequenceMatcher *)

(* The common runs <<i, j, n>> of two sequences within their windows. *)
Runs(a, b, A, B) ==
    {r \in A \X B \X (1..Cardinality(A)) :
        \A k \in 0..(r[3] - 1) : /\ r[1] + k \in A /\ r[2] + k \in B
                                 /\ a[r[1] + k] = b[r[2] + k]}

(* find_longest_match: the longest; of those the first in a, then in b. *)
LongestRun(runs) ==
    CHOOSE r \in runs : \A q \in runs \ {r} :
        \/ r[3] > q[3]
        \/ r[3] = q[3] /\ r[1] < q[1]
        \/ r[3] = q[3] /\ r[1] = q[1] /\ r[2] < q[2]

(* get_matching_blocks: the longest run, and so on to both sides of it; as
   the pairs of positions that are aligned. *)
Aligned(a, b) ==
    LET Before(W, x) == {k \in W : k < x}
        After(W, x) == {k \in W : k >= x}
        In[W \in (SUBSET DOMAIN a) \X (SUBSET DOMAIN b)] ==
            LET runs == Runs(a, b, W[1], W[2])
                r == LongestRun(runs)
            IN IF runs = {} THEN {}
               ELSE {<<r[1] + k, r[2] + k>> : k \in 0..(r[3] - 1)}
                    \cup In[<<Before(W[1], r[1]), Before(W[2], r[2])>>]
                    \cup In[<<After(W[1], r[1] + r[3]), After(W[2], r[2] + r[3])>>]
    IN In[<<DOMAIN a, DOMAIN b>>]

(* ratio() of two texts is 2 * common / total.  0.5 is enough for two blocks
   to be versions of one. *)
Ratio(left, right) == [common |-> Cardinality(Aligned(left, right)),
                       total |-> Len(left) + Len(right)]
Similar(left, right) ==
    /\ left # << >> /\ right # << >>
    /\ 4 * Ratio(left, right).common >= Ratio(left, right).total

-----------------------------------------------------------------------------
(* The pairing of blocks *)

Entries(f) == {i \in DOMAIN f : f[i].entry}
BothEnter(f, g) == Entries(f) # {} /\ Entries(g) # {}

(* The blocks that any block with an equal text anchors. *)
Plain(f, g) == DOMAIN f \ (IF BothEnter(f, g) THEN Entries(f) ELSE {})

(* Seeded bug: a block stays available after it has been matched. *)
BugLeft(f, g) ==
    {i \in Plain(f, g) : \A j \in Plain(g, f) : Text(g[j]) # Text(f[i])}
    \cup {i \in Entries(f) : \E j \in Entries(g) : Text(g[j]) # Text(f[i])}

(* _unanchored, of either side: the first blocks with a text are matched with
   as many of the other side, and entries with each other alone. *)
Left(f, g) ==
    {i \in Plain(f, g) :
        Cardinality({k \in Plain(f, g) : k <= i /\ Text(f[k]) = Text(f[i])})
          > Cardinality({j \in Plain(g, f) : Text(g[j]) = Text(f[i])})}
    \cup {i \in Entries(f) : \E j \in Entries(g) : Text(g[j]) # Text(f[i])}

(* Entries correspond, however little they have in common. *)
EntryPair(f, g) == (Entries(f) \cap Left(f, g)) \X (Entries(g) \cap Left(g, f))

Rest(f, g) ==
    Left(f, g) \ (IF EntryPair(f, g) = {} THEN {} ELSE Entries(f))

(* The most alike first, then in the order of the blocks. *)
Better(f, g, p, q) ==
    LET r == Ratio(Text(f[p[1]]), Text(g[p[2]]))
        s == Ratio(Text(f[q[1]]), Text(g[q[2]]))
    IN \/ r.common * s.total > s.common * r.total
       \/ /\ r.common * s.total = s.common * r.total
          /\ \/ p[1] < q[1]
             \/ p[1] = q[1] /\ p[2] < q[2]

Greedy(f, g, pairs) ==
    LET Of[ps \in SUBSET pairs] ==
            LET best == CHOOSE p \in ps :
                            \A q \in ps \ {p} : Better(f, g, p, q)
            IN IF ps = {} THEN {}
               ELSE {best} \cup Of[{p \in ps : /\ p[1] # best[1]
                                               /\ p[2] # best[2]}]
    IN Of[pairs]

Size(f, is) == MapThenSumSet(LAMBDA i : Len(Text(f[i])), is)

(* _changed_pairs: too much to compare is paired by position. *)
ChangedPairs(f, g) ==
    LET F == Rest(f, g)  G == Rest(g, f)
        similar == {p \in F \X G : Similar(Text(f[p[1]]), Text(g[p[2]]))}
        Place(is, i) == Cardinality({k \in is : k <= i})
    IN IF Size(f, F) * Size(g, G) > Budget
       THEN {p \in similar : Place(F, p[1]) = Place(G, p[2])}
       ELSE Greedy(f, g, similar)

Paired(f, g) == EntryPair(f, g) \cup ChangedPairs(f, g)

-----------------------------------------------------------------------------
(* What is painted: instruction 0 is the whole block *)

Paint(i, n, changed) == [block |-> i, instruction |-> n, changed |-> changed]

(* Of an alignment: the positions of one sequence that are not aligned, and
   whether others of the other sequence are in the same gap. *)
Gaps(s, aligned) ==
    [k \in DOMAIN s \ aligned |-> Cardinality({x \in aligned : x < k})]

(* _instruction_diff for one side. *)
Diff(i, mine, other, pairs) ==
    LET own == Gaps(mine, {p[1] : p \in pairs})
        others == Gaps(other, {p[2] : p \in pairs})
    IN {Paint(i, k, \E x \in DOMAIN others : others[x] = own[k])
          : k \in DOMAIN own}

Flip(pairs) == {<<p[2], p[1]>> : p \in pairs}

Whole(f, g, i, j) == ~f[i].sized \/ ~g[j].sized \/ f[i].code = << >> \/ g[j].code = << >>

(* _entry_changed: the function's header is at the address of its entry. *)
EntryChanged(f, paint) ==
    {[p EXCEPT !.changed = @ \/ (f[p.block].entry /\ p.instruction < 2)] : p \in paint}

(* annotation_blocks *)
Annotations(f, g) ==
    LET pairs == Paired(f, g)
        Alone(h, left, paired) == {Paint(i, 0, FALSE) : i \in left \ paired}
        diff == [p \in pairs |->
                   LET i == p[1]  j == p[2]
                       code == Aligned(f[i].code, g[j].code)
                   IN IF Whole(f, g, i, j)
                      THEN <<{Paint(i, 0, TRUE)}, {Paint(j, 0, TRUE)}>>
                      ELSE <<Diff(i, f[i].code, g[j].code, code),
                             Diff(j, g[j].code, f[i].code, Flip(code))>>]
        Side(k, h, left) ==
            EntryChanged(h, Alone(h, left, {p[k] : p \in pairs})
                              \cup UNION {diff[p][k] : p \in pairs})
    IN IF f = << >> \/ g = << >> THEN [source |-> {}, target |-> {}]
       ELSE [source |-> Side(1, f, Left(f, g)), target |-> Side(2, g, Left(g, f))]
=============================================================================
