--------------------------- MODULE MCReportStore ----------------------------
(* ReportStore for TLC: two analyses that _analysis_changed cannot tell    *)
(* apart, though their functions number differently, and one far off; and  *)
(* the circumstances under which each of the properties is of interest.    *)
EXTENDS ReportStore

CONSTANTS base, edited, grown, e1, e2

MCFunctions == [a \in Analyses |-> CASE a = base -> 1
                                     [] a = edited -> 2
                                     [] a = grown -> 4]

(* Exports and lookups at once, while the analyst edits the file. *)
Busy == [threads |-> {e1, "ui"}, analyses |-> {base, grown},
         disk |-> TRUE, small |-> TRUE,
         evicts |-> FALSE, edits |-> TRUE, overlaps |-> TRUE]

Calm == [Busy EXCEPT !.analyses = Analyses, !.edits = FALSE]

(* A preload as well, and a second export, over a calmer analysis. *)
Crowded == [Calm EXCEPT !.threads = {e1, e2, "ui", "preload"},
                        !.analyses = {base, grown}]

(* One thing after the other, other than the edits. *)
InTurn == [Busy EXCEPT !.threads = {e1, "ui", "preload"},
                       !.analyses = Analyses, !.overlaps = FALSE]

(* A process without a disk cache, which works on many files. *)
Diskless == [Calm EXCEPT !.threads = {e1, e2, "ui"}, !.disk = FALSE,
                         !.evicts = TRUE]

MCSetups == {Busy, Calm, Crowded, InTurn, Diskless}

(* One thing after the other, over one analysis, and many files. *)
ManyFiles == {[InTurn EXCEPT !.evicts = TRUE, !.edits = FALSE,
                             !.analyses = {base}, !.threads = {e1, "ui"}]}
=============================================================================
