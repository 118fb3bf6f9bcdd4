------------------------------- MODULE Session -------------------------------
(***************************************************************************)
(* A session as the analyst has it: while the provider visits the edges    *)
(* (EdgeVisit), results are applied, which names functions after those     *)
(* they match, and functions are renamed; and a result is rendered, which  *)
(* paints where the two functions differ (PicBlocks).                      *)
(***************************************************************************)
EXTENDS EdgeVisit, PicBlocks

CONSTANT Shapes         \* the functions that a report may have, as blocks

(* Auto symbols are Binary Ninja's own; the placeholder is one too, which
   says the address of a function. *)
Symbol == [text : Texts, auto : BOOLEAN]
Name(x, a) == [text |-> x, auto |-> a]
Placeholder == Name("sub", TRUE)
UserName == Name("user", FALSE)

(* An apply under way: of which function, after which other, with what label,
   if any, whether the function had no symbol, how far it is, and the symbol
   it has read. *)
Apply == [own : Nodes \X Nat, match : Nodes \X Nat, label : Texts \cup {None},
          unnamed : BOOLEAN, at : {"copy", "read", "set"},
          symbol : Symbol \cup {None}]

(* A block of a function begins at its entry, or none does.  What the analyst
   does; the names functions have; whether labels of the corpus may become
   names. *)
ASSUME SessionConstants ==
    /\ {"sub", "user"} \subseteq Texts
    /\ None \notin Symbol \cup Apply
    /\ Shapes \subseteq Seq(Block)
    /\ \A f \in Shapes : \A i, j \in Entries(f) : i = j
    /\ \A s \in Setups : /\ s.ui \in {"none", "apply", "render"}
                         /\ s.useLabels \in BOOLEAN
                         /\ DOMAIN s.names = Nodes
                         /\ \A n \in Nodes :
                               s.names[n] \in [Functions[n] ->
                                  (Symbol \ {Placeholder}) \cup {None}]

VARIABLES
    names,          \* the symbol at each function of each node's view, or None
    applying,       \* the apply under way
    shown           \* the last comparison: two functions and the paint

sessionVars == <<names, applying, shown>>

Nothing == [source |-> << >>, target |-> << >>,
            paint |-> [source |-> {}, target |-> {}]]

SessionInit == /\ Init
               /\ names = setup.names
               /\ applying = None
               /\ shown = Nothing

(* The two functions of a result. *)
Function(n, e) == <<n, FunctionAt(n, entities[n][e])>>
Own(r) == Function(To(r.visit), r.source)
Match(r) == Function(From(r.visit), r.target)
NameOf(x) == names[x[1]][x[2]]
SetName(x, y) == names' = [names EXCEPT ![x[1]][x[2]] = y]

Rename(n, a) ==
    /\ setup.ui = "apply" /\ names[n][a] # UserName
    /\ SetName(<<n, a>>, UserName)
    /\ UNCHANGED <<vars, applying, shown>>

(* A real name of the other function is for Binary Ninja to copy. *)
ApplyName(r) ==
    /\ setup.ui = "apply" /\ applying = None /\ NameOf(Match(r)) # None
    /\ SetName(Own(r), NameOf(Match(r)))
    /\ UNCHANGED <<vars, applying, shown>>

(* _label *)
LabelOf(r) == LET e == <<From(r.visit), r.target>>
              IN IF setup.useLabels /\ e \in DOMAIN labels THEN labels[e] ELSE None

(* Otherwise a look tells what to do with the placeholder, *)
StartApply(r) ==
    /\ setup.ui = "apply" /\ applying = None /\ NameOf(Match(r)) = None
    /\ applying' = [own |-> Own(r), match |-> Match(r), label |-> LabelOf(r),
                    unnamed |-> NameOf(Own(r)) = None,
                    at |-> "copy", symbol |-> None]
    /\ UNCHANGED <<vars, names, shown>>

(* ... which Binary Ninja may copy to a function without a symbol; a name that
   the other function was given meanwhile it copies, too. *)
CopyName ==
    /\ applying # None /\ applying.at = "copy"
    /\ LET name == NameOf(applying.match)
       IN IF name # None THEN SetName(applying.own, name)
          ELSE \/ UNCHANGED names
               \/ NameOf(applying.own) = None /\ SetName(applying.own, Placeholder)
    /\ applying' = IF applying.unnamed THEN [applying EXCEPT !.at = "read"] ELSE None
    /\ UNCHANGED <<vars, shown>>

(* Binary Ninja refused, and copied nothing. *)
ApplyFails ==
    /\ applying # None /\ applying.at = "copy"
    /\ applying' = None
    /\ UNCHANGED <<vars, names, shown>>

ReadSymbol ==
    /\ applying # None /\ applying.at = "read"
    /\ applying' = [applying EXCEPT !.at = "set", !.symbol = NameOf(applying.own)]
    /\ UNCHANGED <<vars, names, shown>>

(* Seeded bug: the symbol of before the copy decides. *)
BugFinishApply ==
    /\ applying # None /\ applying.at = "set"
    /\ IF applying.label # None
       THEN SetName(applying.own, Name(applying.label, FALSE))
       ELSE UNCHANGED names
    /\ applying' = None
    /\ UNCHANGED <<vars, shown>>

(* The placeholder gives way to the label, or to no symbol: undefining takes
   the symbol that was read and no other. *)
FinishApply ==
    /\ applying # None /\ applying.at = "set"
    /\ LET symbol == applying.symbol
       IN CASE applying.label # None /\ (symbol = None \/ symbol.auto) ->
                  SetName(applying.own, Name(applying.label, FALSE))
            [] /\ applying.label = None /\ symbol # None /\ symbol.auto
               /\ NameOf(applying.own) = symbol -> SetName(applying.own, None)
            [] OTHER -> UNCHANGED names
    /\ applying' = None
    /\ UNCHANGED <<vars, shown>>

(* perform_render, render_match: of two functions with any blocks; without a
   report one has none. *)
Render(r) ==
    /\ setup.ui = "render" /\ shown = Nothing
    /\ \A v \in Visits : pc[v] = "done"
    /\ \E f, g \in Shapes :
          shown' = [source |-> f, target |-> g, paint |-> Annotations(f, g)]
    /\ UNCHANGED <<vars, names, applying>>

SessionNext ==
    \/ Next /\ UNCHANGED sessionVars
    \/ \E n \in Nodes : \E a \in Functions[n] : Rename(n, a)
    \/ \E r \in results : ApplyName(r) \/ StartApply(r) \/ Render(r)
    \/ CopyName \/ ApplyFails \/ ReadSymbol \/ FinishApply

SessionSpec == SessionInit /\ [][SessionNext]_<<vars, sessionVars>>

-----------------------------------------------------------------------------
(* What must hold *)

(* Those of the visits, and the paint is of instructions there are. *)
SessionTypeOK ==
    /\ TypeOK
    /\ \A n \in Nodes : \A a \in Functions[n] :
          names[n][a] # None => /\ names[n][a].text \in Texts
                                /\ names[n][a].auto \in BOOLEAN
    /\ applying # None => applying.own[2] \in Functions[applying.own[1]]
    /\ \A side \in {"source", "target"} : \A p \in shown.paint[side] :
          /\ p.block \in DOMAIN shown[side]
          /\ p.instruction \in 0..Len(shown[side][p.block].code)

(* The function was named between an apply's look at its symbol and its use. *)
Overtaken(n, a) ==
    /\ applying # None /\ applying.at = "set" /\ applying.own = <<n, a>>
    /\ names[n][a] # applying.symbol

(* A function that a result pairs has the name of the other function, or a
   label the server has for it, or what it had, or what the user gave it. *)
KeepsName(n, a) ==
    LET was == names[n][a]
        is == names'[n][a]
    IN \/ is \in {was, UserName}
       \/ \E r \in results :
             /\ Own(r) = <<n, a>>
             /\ \/ is # None /\ is = NameOf(Match(r))
                \/ was \in {None, Placeholder} /\ is \in {None, Placeholder}
                \/ /\ was \in {None, Placeholder} \/ Overtaken(n, a)
                   /\ \E f \in Fids :
                         /\ Server[f] # None
                         /\ is = Name(Target(f).label, FALSE)
                         /\ FunctionAt(From(r.visit), Target(f).offset)
                               = Match(r)[2]

(* A name is lost only to the other function's, or to a label in the one gap
   that the apply leaves; and no placeholder, which "names an address in the
   other binary", outlives the apply that copied it. *)
NamesAreKept ==
    [][\A n \in Nodes : \A a \in Functions[n] :
          /\ KeepsName(n, a)
          /\ applying' = None => names'[n][a] # Placeholder
      ]_<<names, applying>>

(* The unpainted instructions of a block, and the blocks that are not painted
   all over. *)
Bare(f, paint, i) ==
    {k \in DOMAIN f[i].code :
        \A p \in paint : p.block = i => p.instruction \notin {0, k}}
Unpainted(f, paint) == {i \in DOMAIN f : \A p \in paint : p.block # i}
Legible(f, paint) ==
    Unpainted(f, paint) \cup {i \in DOMAIN f : Bare(f, paint, i) # {}}

(* Of two codes, these instructions say the same: all of both, in one text, or
   each the same as its other, in one order. *)
ReadAlike(b, is, c, js) ==
    \/ is = DOMAIN b /\ js = DOMAIN c /\ FlattenSeq(b) = FlattenSeq(c)
    \/ \E o \in Bijection(is, js) : \A k, l \in is :
          b[k] = c[o[k]] /\ (k < l => o[k] < o[l])

(* The blocks that one with the same text may match. *)
Twins(f, g, x) == {k \in Plain(f, g) : Text(f[k]) = x}

(* A block is painted only when the other function has no more like it that
   could stay unpainted; an entry, when the other entry differs. *)
PaintIsDue(f, g, paint) ==
    \A p \in paint :
        LET x == Text(f[p.block])
        IN IF p.block \in Plain(f, g)
           THEN Cardinality(Twins(f, g, x) \cap Unpainted(f, paint))
                   >= Cardinality(Twins(g, f, x))
           ELSE \E j \in Entries(g) : Text(g[j]) # x

(* A comparison hides no difference: the blocks with anything unpainted are as
   many in both functions, and say the same there, block by block.  It paints
   no block that has its own equal in the other function, in whatever order.
   And the header, at the address of the entry, is never painted as removed or
   added. *)
PaintIsExact ==
    LET f == shown.source  g == shown.target  paint == shown.paint
    IN f # << >> /\ g # << >> =>
       /\ \E o \in Bijection(Legible(f, paint.source), Legible(g, paint.target)) :
             \A i \in Legible(f, paint.source) :
                ReadAlike(f[i].code, Bare(f, paint.source, i),
                          g[o[i]].code, Bare(g, paint.target, o[i]))
       /\ PaintIsDue(f, g, paint.source) /\ PaintIsDue(g, f, paint.target)
       /\ \A side \in {"source", "target"} : \A p \in paint[side] :
             shown[side][p.block].entry /\ p.instruction < 2 => p.changed
=============================================================================
