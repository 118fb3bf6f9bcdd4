----------------------------- MODULE MCSession ------------------------------
(* Session for TLC: two nodes of two functions each, whose addresses the   *)
(* server and MCRIT's answers also give with the Thumb bit, or as a        *)
(* negative number; and answers that differ in all that tells candidates   *)
(* apart.                                                                  *)
EXTENDS Session

CONSTANTS A, B, v1, v2, even, thumb, absent, unknown

MCFunctions == [n \in Nodes |-> IF n = A THEN {2, 4} ELSE {2, 6}]

MCTexts == {"old", "new", "sub_2", "thumb", "real", "sub", "user"}

Label(x, t, r) == [text |-> x, stamp |-> t, real |-> r]

(* A plain function, a Thumb one, one the view does not have, and none. *)
MCServer == [f \in Fids |->
    CASE f = even -> [offset |-> 2, labels |-> << Label("old", 1, TRUE),
                         Label("new", 2, TRUE), Label("sub_2", 3, FALSE) >>]
      [] f = thumb -> [offset |-> -11, labels |-> << Label("thumb", 1, TRUE) >>]
      [] f = absent -> [offset |-> 8, labels |-> << >>]
      [] f = unknown -> None]

MCParams == [minScore |-> 50, limit |-> 2, library |-> FALSE]

Scored(o, f, x) == [source |-> o, fid |-> f, score |-> x, ours |-> TRUE,
                       pichash |-> FALSE, library |-> FALSE, bytes |-> 48]

Candidates == {
    Scored(2, even, 80), Scored(2, thumb, 85), Scored(2, unknown, 90),
    Scored(7, thumb, 85), Scored(7, absent, 85),
    [Scored(2, thumb, 70) EXCEPT !.pichash = TRUE],
    [Scored(2, even, 100) EXCEPT !.library = TRUE],
    [Scored(2, absent, 100) EXCEPT !.ours = FALSE],
    Scored(7, even, 40)}

Answers == UNION {[1..n -> Candidates] : n \in 0..3}

(* What the other visit finds. *)
Other == << Scored(2, thumb, 60), Scored(6, even, 60) >>

Edge(p, q, fs, ts, l, sch, ev) ==
    [payload |-> [v \in Visits |-> IF v = v1 THEN p ELSE q],
     from |-> fs, to |-> ts, listed |-> l,
     scheduled |-> sch, evicts |-> ev, stops |-> TRUE,
     ui |-> "none", useLabels |-> FALSE,
     names |-> [n \in Nodes |-> [a \in MCFunctions[n] |-> None]]]

AllFrom(n) == [v \in Visits |-> n]
Opposite(n, m) == [v \in Visits |-> IF v = v1 THEN n ELSE m]

Listed == [n \in Nodes |-> IF n = A THEN << >> ELSE << 6, 2 >>]

(* What the analyst does with the results: of an edge and its reverse, with
   and without names and labels; and of one edge. *)
Candidate1 == << Scored(2, even, 80) >>

Applied ==
    {[Edge(p, << Scored(2, even, 60) >>, Opposite(A, B), Opposite(B, A),
           [n \in Nodes |-> << 2 >>], [v \in Visits |-> {1}], FALSE)
        EXCEPT !.ui = "apply", !.useLabels = l,
               !.names = [@ EXCEPT ![A][2] = x]]
        : p \in {Candidate1, << Scored(2, thumb, 85) >>}, l \in BOOLEAN,
          x \in {None, Name("real", TRUE)}}

Rendered ==
    {[Edge(Candidate1, << >>, AllFrom(A), AllFrom(B), Listed,
           [v \in Visits |-> IF v = v1 THEN {2} ELSE {}], FALSE)
        EXCEPT !.ui = "render", !.stops = FALSE]}

(* Functions of up to two blocks of up to two instructions, and of three of
   one, with the entry where it may be. *)
Codes(ins, k) == UNION {[1..m -> ins] : m \in 1..k}
x1 == << "x" >>
y1 == << "y" >>
xy == << "x", "y" >>
Make(codes, e, z) == [i \in DOMAIN codes |->
                        [code |-> codes[i], entry |-> i = e, sized |-> i # z]]

MCShapes ==
    {Make(c, e, 0) : c \in Codes(Codes({x1, y1, xy}, 2), 1), e \in {0, 1}}
    \cup {Make(c, e, 0) : c \in [1..2 -> Codes({x1, xy}, 2)], e \in 0..2}
    \cup {Make(c, 1, 2) : c \in [1..2 -> Codes({x1, xy}, 2)]}
    \cup {Make(c, e, 0) : c \in [1..3 -> {<< x1 >>, << xy, y1 >>}], e \in {1}}
    \cup {<< >>}

MCSetups ==
    (* Two edges from A to B, as for two schedules of one edge. *)
    {Edge(p, Other, AllFrom(A), AllFrom(B), Listed,
          [v \in Visits |-> {1, 2}], FALSE) : p \in Answers}
    \cup
    (* An edge and its reverse; part of the functions is scheduled. *)
    {Edge(p, << Scored(2, even, 60) >>, Opposite(A, B), Opposite(B, A),
          [Listed EXCEPT ![A] = << 2 >>], [v \in Visits |-> {1}], ev)
        : p \in {s \in Answers : Len(s) <= 2}, ev \in BOOLEAN}
    \cup
    {Edge(<< >>, << >>, AllFrom(A), AllFrom(B), Listed,
          [v \in Visits |-> {}], FALSE)}
    \cup Applied \cup Rendered

(* The theorems about entities, names and labels are not empty here. *)
ASSUME ViewsAreTold == AddressesTellFunctions /\ AnswersTellFunctions
=============================================================================
