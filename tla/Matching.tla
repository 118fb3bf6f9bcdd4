------------------------------ MODULE Matching -------------------------------
(***************************************************************************)
(* The pure algorithms between MCRIT's answer and the results of a visit:  *)
(* mcrit/parse.py ranks the candidates of every function, mapping.py finds *)
(* the entities at their addresses, scoring.py weighs what it finds.       *)
(*                                                                         *)
(* A candidate is one entry of the answer's match lists, of those that can *)
(* be read at all.  Its score is an integer here: a share of points, which *)
(* MCRIT may send, would only be rounded differently.                      *)
(***************************************************************************)
EXTENDS Integers, Sequences, FiniteSets, SequencesExt

CONSTANTS
    Bits,           \* the width of an address
    None            \* Python's None: no offset, no score, no label

ASSUME BitsPositive == Bits \in Nat \ {0}
ASSUME NoneIsNoNumber == None \notin Int

Clamp(low, x, high) == IF x < low THEN low ELSE IF x > high THEN high ELSE x

-----------------------------------------------------------------------------
(* mcrit/parse.py *)

(* Of the sample asked for, good enough, and a library only where wanted. *)
Usable(c, params) ==
    /\ c.ours
    /\ c.score >= params.minScore
    /\ params.library \/ ~c.library

(* _match_sort_key, and where both agree the order of the answer. *)
Ahead(s, i, j) ==
    LET a == s[i]  b == s[j]
    IN IF a.pichash # b.pichash THEN a.pichash
       ELSE IF a.score # b.score THEN a.score > b.score
       ELSE IF a.bytes # b.bytes THEN a.bytes > b.bytes
       ELSE i < j

(* Seeded bug: the best score does not become the runner-up. *)
BugNextBest(top, c) ==
    IF top.best = None \/ c.score >= top.best
    THEN [top EXCEPT !.best = c.score]
    ELSE IF top.second = None \/ c.score > top.second
    THEN [top EXCEPT !.second = c.score] ELSE top

NextBest(top, c) ==
    IF top.best = None \/ c.score >= top.best
    THEN [best |-> c.score, second |-> top.best]
    ELSE IF top.second = None \/ c.score > top.second
    THEN [top EXCEPT !.second = c.score] ELSE top

(* The candidates of an answer, by their positions: all that count, those of
   the same function as one of them, and the first of each function. *)
Accepted(s, params) == {i \in DOMAIN s : Usable(s[i], params)}
Group(s, params, i) == {j \in Accepted(s, params) : s[j].source = s[i].source}
Kept(s, params) ==
    {i \in Accepted(s, params) :
        LET ahead == {j \in Group(s, params, i) : Ahead(s, j, i)}
        IN ahead = {} \/ Cardinality(ahead) < params.limit}

(* The best two scores of a group, taken from its first to its last. *)
TopTwo(s, group) ==
    LET Hindmost(is) == CHOOSE i \in is : \A j \in is \ {i} : Ahead(s, j, i)
        Upto[is \in SUBSET group] ==
            IF is = {} THEN [best |-> None, second |-> None]
            ELSE NextBest(Upto[is \ {Hindmost(is)}], s[Hindmost(is)])
    IN Upto[group]

(* A candidate, with statistics over all of its group. *)
Selected(s, params, i) ==
    LET group == Group(s, params, i)
        top == TopTwo(s, group)
    IN [source |-> s[i].source, fid |-> s[i].fid, score |-> s[i].score,
        pichash |-> s[i].pichash, bytes |-> s[i].bytes,
        candidates |-> Cardinality(group),
        best |-> top.best, second |-> top.second,
        twins |-> Cardinality({j \in group : s[j].pichash}),
        offset |-> None]

(* The functions are in the order of their first candidates. *)
Earlier(s, params, i, j) ==
    \/ s[i].source = s[j].source /\ Ahead(s, i, j)
    \/ \E f \in Group(s, params, i) : \A g \in Group(s, params, j) : f < g

Ranked(s, params) ==
    LET kept == Kept(s, params)
        Place(i) == Cardinality({j \in kept : Earlier(s, params, j, i)}) + 1
    IN [r \in 1..Cardinality(kept) |-> CHOOSE i \in kept : Place(i) = r]

(* parse_vs_result *)
Parse(payload, params) ==
    [r \in DOMAIN Ranked(payload, params) |->
        Selected(payload, params, Ranked(payload, params)[r])]

(* The lead over the strongest other candidate, if there is one. *)
Margin(m) ==
    IF m.candidates < 2 \/ m.second = None THEN None
    ELSE m.score - (IF m.score >= m.best THEN m.second ELSE m.best)

(* An offset may come as a negative two's complement number, or not at all. *)
DecodeOffset(n) == IF n < 0 THEN (n + 2^Bits) % 2^Bits ELSE n

(* The newest label that is not a placeholder; the last of several. *)
CorpusLabel(ls) ==
    LET real == {i \in DOMAIN ls : ls[i].real}
        newest == {i \in real : \A j \in real : /\ ls[j].stamp <= ls[i].stamp
                                                /\ j > i => ls[j].stamp < ls[i].stamp}
    IN IF real = {} THEN None ELSE ls[CHOOSE i \in newest : TRUE].text

WithOffsets(ms, targets) ==
    LET Offset(f) == IF f \in DOMAIN targets /\ targets[f] # None
                     THEN targets[f].offset ELSE None
    IN [i \in DOMAIN ms |-> [x \in DOMAIN ms[i] \cup {"offset"} |->
                               IF x = "offset" THEN Offset(ms[i].fid)
                               ELSE ms[i][x]]]

-----------------------------------------------------------------------------
(* mapping.py.  An entity is its position among its node's, and its address
   is what the node lists there. *)

Even(a) == a - (a % 2)

(* Seeded bug: the Thumb bit makes an address of its own. *)
BugAliases(a) == {a}

(* An address with its Thumb bit stands for the even one, too. *)
Aliases(a) == {a, Even(a)}

(* index_entities: the first entity keeps an address. *)
IndexEntities(es) ==
    [a \in UNION {Aliases(es[i]) : i \in DOMAIN es} |->
        Min({i \in DOMAIN es : a \in Aliases(es[i])})]

Found(index, a) == Aliases(a) \cap DOMAIN index # {}

(* lookup_entity: the address itself goes first. *)
Lookup(index, a) ==
    index[IF a \in DOMAIN index THEN a
          ELSE CHOOSE b \in Aliases(a) : b \in DOMAIN index]

(* pair_matches: both ends have entities, the source's a scheduled one; the
   pairs are at the positions of their matches. *)
Pairs(ms, source, target, scheduled) ==
    LET paired == {i \in DOMAIN ms :
                      /\ ms[i].offset # None
                      /\ Found(source, ms[i].source)
                      /\ Found(target, ms[i].offset)
                      /\ Lookup(source, ms[i].source) \in scheduled}
    IN [i \in paired |-> [source |-> Lookup(source, ms[i].source),
                          target |-> Lookup(target, ms[i].offset),
                          match |-> ms[i]]]

-----------------------------------------------------------------------------
(* scoring.py *)

(* Python's round of n / d, to even where it is half way. *)
Rounded(n, d) ==
    LET q == n \div d  r == n % d
    IN IF 2 * r > d \/ (2 * r = d /\ q % 2 = 1) THEN q + 1 ELSE q

Similarity(score) == Rounded(255 * Clamp(0, score, 100), 100)

(* In twentieths: alone or clearly ahead 1, a tie 1/2, and never under 1/4. *)
UniquenessWeight(margin) ==
    IF margin = None THEN 20 ELSE Clamp(5, 10 + margin, 20)

Confidence(m) ==
    IF m.pichash THEN (IF m.twins <= 1 THEN 255 ELSE 128)
    ELSE Rounded(Similarity(m.score) * Clamp(0, m.bytes, 64)
                   * UniquenessWeight(Margin(m)), 64 * 20)
=============================================================================
