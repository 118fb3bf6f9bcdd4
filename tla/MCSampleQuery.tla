---------------------------- MODULE MCSampleQuery ----------------------------
(* SampleQuery for TLC: two visits of edges to T, in one session or in two,  *)
(* each setup with the circumstances of one question.                        *)
EXTENDS SampleQuery

CONSTANTS T, A, B, C, v1, v2, s1, s2

(* One edge each, from A and B, in one session, with nothing on the server. *)
Plain == [from |-> (v1 :> A @@ v2 :> B), session |-> (v1 :> s1 @@ v2 :> s1),
          incoming |-> <<A, B>>, added |-> {}, others |-> {}, stored |-> << >>,
          persist |-> TRUE, perNode |-> TRUE, resets |-> FALSE, gap |-> FALSE,
          remembers |-> FALSE, faults |-> {}, stops |-> {}]

TwoSessions == [Plain EXCEPT !.session = (v1 :> s1 @@ v2 :> s2),
                             !.from = (v1 :> A @@ v2 :> A)]

MCSetups == {
    (* Other clients upload, in servers with and without a gap. *)
    [Plain EXCEPT !.others = {A, T}],
    [Plain EXCEPT !.others = {A, T}, !.gap = TRUE],
    (* An edge is added to the node while the other is visited. *)
    [Plain EXCEPT !.from = (v1 :> A @@ v2 :> C), !.added = {C},
                  !.stored = <<A, B, T>>],
    (* A node with a file nobody may upload, and visits without samples. *)
    [Plain EXCEPT !.persist = FALSE, !.stored = <<T, A, B>>,
                  !.incoming = <<A, B, C>>],
    [Plain EXCEPT !.persist = FALSE, !.stored = <<T>>, !.others = {A}],
    (* Trouble in all requests, or only in those that edges share. *)
    [Plain EXCEPT !.faults = Stages, !.perNode = FALSE],
    [Plain EXCEPT !.faults = {"from", "to"}, !.from = (v1 :> A @@ v2 :> A)],
    [Plain EXCEPT !.faults = {"node", "query"}, !.stored = <<T, A>>],
    (* Stops. *)
    [Plain EXCEPT !.stops = {v1, v2}],
    [Plain EXCEPT !.stops = {v1}, !.from = (v1 :> A @@ v2 :> A)],
    (* Two sessions, that share CORPUS_MATCHES, or what the server remembers. *)
    TwoSessions,
    [TwoSessions EXCEPT !.perNode = FALSE, !.remembers = TRUE, !.others = {A}],
    (* Two sessions that want one file, and uploads that arrive late. *)
    [TwoSessions EXCEPT !.perNode = FALSE, !.faults = {"from"}],
    (* A reset, with the edges asked for together and each alone. *)
    [TwoSessions EXCEPT !.resets = TRUE, !.stored = <<A, B, T>>],
    [TwoSessions EXCEPT !.resets = TRUE, !.perNode = FALSE, !.others = {B}]}
=============================================================================
