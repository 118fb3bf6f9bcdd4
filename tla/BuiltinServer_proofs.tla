------------------------- MODULE BuiltinServer_proofs -------------------------
(***************************************************************************)
(* Proofs about BuiltinServer, for any threads, corpus files and samples.  *)
(***************************************************************************)
EXTENDS BuiltinServer, TLAPS

(* _lock is with the thread that starts the server, and the server is there
   for all others only after that. *)
LockHeld ==
    /\ \A t \in Threads : /\ pc[t] \in Starting <=> lock = t
                          /\ pc[t] \in Starting => ~serving
                          /\ pc[t] \in Using => serving
                          /\ pc[t] = "start" => servers = 0
    /\ ~serving /\ lock = None => servers = 0

Ind == Types /\ LockHeld /\ InHand

-----------------------------------------------------------------------------
(* What a file may hold, and the samples MCRIT reads from it. *)
LEMMA ContentsProperties ==
    /\ Torn \in Contents /\ Foreign \in Contents /\ None \in Contents
    /\ \A c : c \subseteq Samples => c \in Contents
    /\ \A c \in Contents : c \notin {Torn, Foreign, None} => c \subseteq Samples
    /\ \A c \in Contents : Held(c) \subseteq Samples
<1>1. Torn \in Contents /\ Foreign \in Contents /\ None \in Contents
  BY DEF Contents
<1>2. ASSUME NEW c, c \subseteq Samples PROVE c \in Contents
  <2>1. c \in SUBSET Samples
    BY <1>2
  <2> QED
    BY <2>1 DEF Contents
<1>3. ASSUME NEW c \in Contents, c \notin {Torn, Foreign, None}
      PROVE  c \subseteq Samples
  <2>1. c \in SUBSET Samples
    BY <1>3, Zenon DEF Contents
  <2> QED
    BY <2>1
<1>4. ASSUME NEW c \in Contents PROVE Held(c) \subseteq Samples
  <2>1. CASE c \in {Torn, Foreign, None}
    BY <2>1 DEF Held
  <2>2. CASE c \notin {Torn, Foreign, None}
    BY <2>2, <1>3 DEF Held
  <2> QED
    BY <2>1, <2>2
<1> QED
  BY <1>1, <1>2, <1>3, <1>4

(* Threads that are idle have the types of threads. *)
LEMMA IdleTypes ==
    /\ [t \in Threads |-> "idle"] \in [Threads -> Labels]
    /\ [t \in Threads |-> None] \in [Threads -> Paths \cup {None}]
    /\ [t \in Threads |-> None] \in [Threads -> Contents]
    /\ [t \in Threads |-> "none"] \in [Threads -> {"none", "partial", "target", "gone"}]
<1>1. "idle" \in Labels
  BY DEF Labels
<1>2. None \in Contents
  BY ContentsProperties
<1> QED
  BY <1>1, <1>2

(* All threads are idle, and no server has started. *)
LEMMA InitInd == Init => Ind
<1> SUFFICES ASSUME Init PROVE Ind
  OBVIOUS
<1>1. Types
  <2>1. files \in [Paths -> Contents] /\ partials \in [Paths -> Contents]
    BY ContentsProperties DEF Init
  <2>2. pc \in [Threads -> Labels] /\ data \in [Threads -> Contents]
    BY IdleTypes, Zenon DEF Init, Idle
  <2>3. /\ path \in [Threads -> Paths \cup {None}]
        /\ seed \in [Threads -> Paths \cup {None}]
    BY IdleTypes, Zenon DEF Init, Idle
  <2>4. fd \in [Threads -> {"none", "partial", "target", "gone"}]
    BY IdleTypes, Zenon DEF Init, Idle
  <2>5. /\ serving \in BOOLEAN /\ unloaded \in Paths \cup {None}
        /\ lock \in Threads \cup {None}
    BY Zenon DEF Init, Down
  <2>6. servers \in 0..1
    BY DEF Init, Down
  <2>7. corpus \subseteq Samples
    BY Zenon DEF Init, Down
  <2> QED
    BY <2>1, <2>2, <2>3, <2>4, <2>5, <2>6, <2>7 DEF Types
<1> QED
  BY <1>1, ServerConstants
     DEF Init, Down, Idle, Ind, LockHeld, InHand, Starting, Using

(* Every step keeps the types. *)
LEMMA TypeStep == Ind /\ [Next]_vars => Types'
<1> SUFFICES ASSUME Ind, [Next]_vars PROVE Types'
  OBVIOUS
<1> USE ServerConstants, ContentsProperties
    DEF Ind, Types, InHand, LockHeld, Starting, Labels, Commands
<1>1. ASSUME NEW t \in Exporters, NEW p \in Paths, AskToExport(t, p)
      PROVE Types'
  BY <1>1 DEF AskToExport, Ask, Goto, storage, server, Threads
<1>2. ASSUME NEW t \in Importers, NEW p \in Paths, AskToImport(t, p)
      PROVE Types'
  BY <1>2 DEF AskToImport, Ask, Goto, storage, server, Threads
<1>3. ASSUME NEW t \in Visitors, Visit(t) PROVE Types'
  BY <1>3 DEF Visit, Ask, Goto, storage, server, Threads
<1>4. ASSUME NEW t \in Threads, Endpoint(t) PROVE Types'
  BY <1>4 DEF Endpoint, Proceed, Goto, storage
<1>5. ASSUME NEW t \in Threads, Start(t) PROVE Types'
  BY <1>5 DEF Start, Goto, storage
<1>6. ASSUME NEW t \in Threads, StartFails(t) PROVE Types'
  BY <1>6 DEF StartFails, Return, Goto, storage
<1>7. ASSUME NEW t \in Threads, Load(t) PROVE Types'
  <2>1. files[seed[t]] \subseteq Samples
    BY <1>7 DEF Load
  <2> QED
    BY <1>7, <2>1 DEF Load, Goto, storage
<1>8. ASSUME NEW t \in Threads, LoadFails(t) PROVE Types'
  <2>1. Held(files[seed[t]]) \subseteq Samples
    BY <1>8 DEF LoadFails
  <2> QED
    BY <1>8, <2>1 DEF LoadFails, Goto, storage
<1>9. ASSUME NEW t \in Threads, Publish(t) PROVE Types'
  BY <1>9 DEF Publish, Proceed, Goto, storage
<1>10. ASSUME NEW t \in Threads, NEW s \in Samples, Upload(t, s) PROVE Types'
  BY <1>10 DEF Upload, Return, Goto, storage
<1>11. ASSUME NEW t \in Threads, ReadFile(t) PROVE Types'
  BY <1>11 DEF ReadFile, Goto, storage, server
<1>12. ASSUME NEW t \in Threads, Import(t) PROVE Types'
  <2>1. Held(data[t]) \subseteq Samples
    BY <1>12
  <2> QED
    BY <1>12, <2>1  DEF Import, Return, Goto, storage
<1>13. ASSUME NEW t \in Threads, Fetch(t) PROVE Types'
  BY <1>13 DEF Fetch, Goto, storage, server
<1>14. ASSUME NEW t \in Threads, CommandFails(t) PROVE Types'
  BY <1>14 DEF CommandFails, Return, Goto, storage, server
<1>15. ASSUME NEW t \in Threads, Open(t) PROVE Types'
  BY <1>15 DEF Open, Goto, server
<1>16. ASSUME NEW t \in Threads, Write(t) PROVE Types'
  BY <1>16 DEF Write, Written, Goto, storage, server
<1>17. ASSUME NEW t \in Threads, Replace(t) PROVE Types'
  BY <1>17 DEF Replace, Moved, Goto, server
<1>18. ASSUME Exit PROVE Types'
  <2>1. pc' \in [Threads -> Labels] /\ data' \in [Threads -> Contents]
    BY <1>18, IdleTypes, Zenon DEF Exit
  <2>2. /\ path' \in [Threads -> Paths \cup {None}]
        /\ seed' \in [Threads -> Paths \cup {None}]
    BY <1>18, IdleTypes, Zenon DEF Exit
  <2>3. fd' \in [Threads -> {"none", "partial", "target", "gone"}]
    BY <1>18, IdleTypes, Zenon DEF Exit
  <2>4. files' = files /\ partials' = partials
    BY <1>18 DEF Exit, storage
  <2>5. /\ serving' \in BOOLEAN /\ unloaded' \in Paths \cup {None}
        /\ lock' \in Threads \cup {None}
    BY <1>18, Zenon DEF Exit
  <2>6. servers' \in 0..1
    BY <1>18 DEF Exit
  <2>7. corpus' \subseteq Samples
    BY <1>18, Zenon DEF Exit
  <2> QED
    BY <2>1, <2>2, <2>3, <2>4, <2>5, <2>6, <2>7 DEF Types
<1>19. ASSUME UNCHANGED vars PROVE Types'
  BY <1>19 DEF vars, storage, server, locals
<1> QED
  BY <1>1, <1>2, <1>3, <1>4, <1>5, <1>6, <1>7, <1>8, <1>9, <1>10, <1>11,
     <1>12, <1>13, <1>14, <1>15, <1>16, <1>17, <1>18, <1>19
     DEF Next, Resolve, Request, ExportFile, Commands, Threads

(* ... and the lock is held from the start of the server to its end. *)
LEMMA LockStep == Ind /\ [Next]_vars => LockHeld'
<1> SUFFICES ASSUME Ind, [Next]_vars PROVE LockHeld'
  OBVIOUS
<1> USE ServerConstants DEF Ind, Types, LockHeld, Starting, Using, Labels
<1>1. ASSUME NEW t \in Exporters, NEW p \in Paths, AskToExport(t, p)
      PROVE LockHeld'
  BY <1>1 DEF AskToExport, Ask, Goto, storage, server
<1>2. ASSUME NEW t \in Importers, NEW p \in Paths, AskToImport(t, p)
      PROVE LockHeld'
  BY <1>2 DEF AskToImport, Ask, Goto, storage, server
<1>3. ASSUME NEW t \in Visitors, Visit(t) PROVE LockHeld'
  BY <1>3 DEF Visit, Ask, Goto, storage, server
<1>4. ASSUME NEW t \in Threads, Endpoint(t) PROVE LockHeld'
  BY <1>4 DEF Endpoint, Proceed, Goto, storage
<1>5. ASSUME NEW t \in Threads, Start(t) PROVE LockHeld'
  BY <1>5 DEF Start, Goto, storage
<1>6. ASSUME NEW t \in Threads, StartFails(t) PROVE LockHeld'
  BY <1>6 DEF StartFails, Return, Goto, storage
<1>7. ASSUME NEW t \in Threads, Load(t) PROVE LockHeld'
  BY <1>7 DEF Load, Goto, storage
<1>8. ASSUME NEW t \in Threads, LoadFails(t) PROVE LockHeld'
  BY <1>8 DEF LoadFails, Goto, storage
<1>9. ASSUME NEW t \in Threads, Publish(t) PROVE LockHeld'
  BY <1>9 DEF Publish, Proceed, Goto, storage
<1>10. ASSUME NEW t \in Threads, NEW s \in Samples, Upload(t, s) PROVE LockHeld'
  BY <1>10 DEF Upload, Return, Goto, storage
<1>11. ASSUME NEW t \in Threads, ReadFile(t) PROVE LockHeld'
  BY <1>11 DEF ReadFile, Goto, storage, server
<1>12. ASSUME NEW t \in Threads, Import(t) PROVE LockHeld'
  BY <1>12 DEF Import, Return, Goto, storage
<1>13. ASSUME NEW t \in Threads, Fetch(t) PROVE LockHeld'
  BY <1>13 DEF Fetch, Goto, storage, server
<1>14. ASSUME NEW t \in Threads, CommandFails(t) PROVE LockHeld'
  BY <1>14 DEF CommandFails, Return, Goto, storage, server
<1>15. ASSUME NEW t \in Threads, Open(t) PROVE LockHeld'
  BY <1>15 DEF Open, Goto, server
<1>16. ASSUME NEW t \in Threads, Write(t) PROVE LockHeld'
  BY <1>16 DEF Write, Written, Goto, storage, server
<1>17. ASSUME NEW t \in Threads, Replace(t) PROVE LockHeld'
  BY <1>17 DEF Replace, Moved, Goto, server
<1>18. ASSUME Exit PROVE LockHeld'
  BY <1>18 DEF Exit, storage
<1>19. ASSUME UNCHANGED vars PROVE LockHeld'
  BY <1>19 DEF vars, storage, server, locals
<1> QED
  BY <1>1, <1>2, <1>3, <1>4, <1>5, <1>6, <1>7, <1>8, <1>9, <1>10, <1>11,
     <1>12, <1>13, <1>14, <1>15, <1>16, <1>17, <1>18, <1>19
     DEF Next, Resolve, Request, ExportFile, Commands, Threads

(* ... and the threads have what they need. *)
LEMMA InHandStep == Ind /\ [Next]_vars => InHand'
<1> SUFFICES ASSUME Ind, [Next]_vars PROVE InHand'
  OBVIOUS
<1> USE ServerConstants
    DEF Ind, Types, InHand, LockHeld, Labels, Commands, Threads
<1>1. ASSUME NEW t \in Exporters, NEW p \in Paths, AskToExport(t, p)
      PROVE InHand'
  BY <1>1 DEF AskToExport, Ask, Goto, storage, server
<1>2. ASSUME NEW t \in Importers, NEW p \in Paths, AskToImport(t, p)
      PROVE InHand'
  BY <1>2 DEF AskToImport, Ask, Goto, storage, server
<1>3. ASSUME NEW t \in Visitors, Visit(t) PROVE InHand'
  BY <1>3 DEF Visit, Ask, Goto, storage, server
<1>4. ASSUME NEW t \in Threads, Endpoint(t) PROVE InHand'
  BY <1>4 DEF Endpoint, Proceed, Goto, storage
<1>5. ASSUME NEW t \in Threads, Start(t) PROVE InHand'
  BY <1>5 DEF Start, Goto, storage
<1>6. ASSUME NEW t \in Threads, StartFails(t) PROVE InHand'
  BY <1>6 DEF StartFails, Return, Goto, storage
<1>7. ASSUME NEW t \in Threads, Load(t) PROVE InHand'
  BY <1>7 DEF Load, Goto, storage
<1>8. ASSUME NEW t \in Threads, LoadFails(t) PROVE InHand'
  BY <1>8 DEF LoadFails, Goto, storage
<1>9. ASSUME NEW t \in Threads, Publish(t) PROVE InHand'
  BY <1>9 DEF Publish, Proceed, Goto, storage
<1>10. ASSUME NEW t \in Threads, NEW s \in Samples, Upload(t, s) PROVE InHand'
  BY <1>10 DEF Upload, Return, Goto, storage
<1>11. ASSUME NEW t \in Threads, ReadFile(t) PROVE InHand'
  BY <1>11 DEF ReadFile, Goto, storage, server
<1>12. ASSUME NEW t \in Threads, Import(t) PROVE InHand'
  BY <1>12 DEF Import, Return, Goto, storage
<1>13. ASSUME NEW t \in Threads, Fetch(t) PROVE InHand'
  BY <1>13 DEF Fetch, Goto, storage, server
<1>14. ASSUME NEW t \in Threads, CommandFails(t) PROVE InHand'
  BY <1>14 DEF CommandFails, Return, Goto, storage, server
<1>15. ASSUME NEW t \in Threads, Open(t) PROVE InHand'
  BY <1>15 DEF Open, Goto, server
<1>16. ASSUME NEW t \in Threads, Write(t) PROVE InHand'
  BY <1>16 DEF Write, Written, Goto, storage, server
<1>17. ASSUME NEW t \in Threads, Replace(t) PROVE InHand'
  BY <1>17 DEF Replace, Moved, Goto, server
<1>18. ASSUME Exit PROVE InHand'
  BY <1>18 DEF Exit, storage
<1>19. ASSUME UNCHANGED vars PROVE InHand'
  BY <1>19 DEF vars, storage, server, locals
<1> QED
  BY <1>1, <1>2, <1>3, <1>4, <1>5, <1>6, <1>7, <1>8, <1>9, <1>10, <1>11,
     <1>12, <1>13, <1>14, <1>15, <1>16, <1>17, <1>18, <1>19
     DEF Next, Resolve, Request, ExportFile, Commands, Threads

(* The invariant that the theorems below rest on. *)
THEOREM Invariance == Spec => []Ind
<1>1. Ind /\ [Next]_vars => Ind'
  BY TypeStep, LockStep, InHandStep DEF Ind
<1> QED
  BY <1>1, InitInd, PTL DEF Spec

-----------------------------------------------------------------------------
(* Every variable has its type; a process starts one server, the lock is held
   by just the thread that starts it, and every thread has in hand what its
   place needs. *)
THEOREM TypeCorrect == Spec => []TypeOK
<1>1. Ind => TypeOK
  BY DEF Ind, LockHeld, TypeOK
<1> QED
  BY <1>1, Invariance, PTL

(* Whichever threads need the server first, one starts it and loads its
   corpus, and no other uses it before that. *)
THEOREM ServedWhenReady == Spec => []StartThenServe
<1>1. Ind => StartThenServe
  BY ServerConstants DEF Ind, LockHeld, StartThenServe
<1> QED
  BY <1>1, Invariance, PTL

-----------------------------------------------------------------------------
(* Corpus files *)

(* The writer of a file has its .partial to itself, which holds the whole
   export before it is renamed. *)
WriterAlone ==
    \A t \in Threads :
       /\ fd[t] \in {"none", "partial"}
       /\ fd[t] = "partial" => t \in Exporters
       /\ pc[t] = "write" => fd[t] = "partial" /\ partials[path[t]] = Torn
       /\ pc[t] = "replace" => partials[path[t]] = data[t]

(* One export at a time, as a user has who waits for it: two that write one
   file share its .partial. *)
OneExporter == \A t, u \in Exporters : t = u

(* With one exporter, every step keeps corpus files whole. *)
LEMMA WholeStep ==
    ASSUME OneExporter, Ind, WriterAlone, ExportsAreWhole, [Next]_vars
    PROVE  (WriterAlone /\ ExportsAreWhole)'
<1> DEFINE Goal == (WriterAlone /\ ExportsAreWhole)'
<1> USE ServerConstants
    DEF OneExporter, Ind, Types, InHand, WriterAlone, ExportsAreWhole, Labels
<1>1. ASSUME NEW t \in Exporters, NEW p \in Paths, AskToExport(t, p) PROVE Goal
  BY <1>1 DEF AskToExport, Ask, Goto, storage, server
<1>2. ASSUME NEW t \in Importers, NEW p \in Paths, AskToImport(t, p) PROVE Goal
  BY <1>2 DEF AskToImport, Ask, Goto, storage, server
<1>3. ASSUME NEW t \in Visitors, Visit(t) PROVE Goal
  BY <1>3 DEF Visit, Ask, Goto, storage, server
<1>4. ASSUME NEW t \in Threads, Endpoint(t) PROVE Goal
  BY <1>4 DEF Endpoint, Proceed, Goto, storage
<1>5. ASSUME NEW t \in Threads, Start(t) PROVE Goal
  BY <1>5 DEF Start, Goto, storage
<1>6. ASSUME NEW t \in Threads, StartFails(t) PROVE Goal
  BY <1>6 DEF StartFails, Return, Goto, storage
<1>7. ASSUME NEW t \in Threads, Load(t) PROVE Goal
  BY <1>7 DEF Load, Goto, storage
<1>8. ASSUME NEW t \in Threads, LoadFails(t) PROVE Goal
  BY <1>8 DEF LoadFails, Goto, storage
<1>9. ASSUME NEW t \in Threads, Publish(t) PROVE Goal
  BY <1>9 DEF Publish, Proceed, Goto, storage
<1>10. ASSUME NEW t \in Threads, NEW s \in Samples, Upload(t, s) PROVE Goal
  BY <1>10 DEF Upload, Return, Goto, storage
<1>11. ASSUME NEW t \in Threads, ReadFile(t) PROVE Goal
  BY <1>11 DEF ReadFile, Goto, storage, server
<1>12. ASSUME NEW t \in Threads, Import(t) PROVE Goal
  BY <1>12 DEF Import, Return, Goto, storage
<1>13. ASSUME NEW t \in Threads, Fetch(t) PROVE Goal
  BY <1>13 DEF Fetch, Goto, storage, server
<1>14. ASSUME NEW t \in Threads, CommandFails(t) PROVE Goal
  BY <1>14 DEF CommandFails, Return, Goto, storage, server
<1>15. ASSUME NEW t \in Threads, Open(t) PROVE Goal
  <2>1. /\ t \in Exporters /\ path[t] \in Paths
        /\ \A u \in Threads : pc[u] \in {"open", "write", "replace"} => u = t
    BY <1>15 DEF Open, Commands
  <2> QED
    BY <1>15, <2>1 DEF Open, Goto, server
<1>16. ASSUME NEW t \in Threads, Write(t) PROVE Goal
  <2>1. /\ t \in Exporters /\ path[t] \in Paths
        /\ \A u \in Threads : pc[u] \in {"open", "write", "replace"} => u = t
    BY <1>16 DEF Write, Commands
  <2>2. /\ partials' = [partials EXCEPT ![path[t]] = data[t]]
        /\ files' = files
    BY <1>16, <2>1 DEF Write, Written
  <2> QED
    BY <1>16, <2>1, <2>2 DEF Write, Written, Goto, storage, server
<1>17. ASSUME NEW t \in Threads, Replace(t) PROVE Goal
  BY <1>17 DEF Replace, Moved, Goto, server
<1>18. ASSUME Exit PROVE Goal
  BY <1>18 DEF Exit, storage
<1>19. ASSUME UNCHANGED vars PROVE Goal
  BY <1>19 DEF vars, storage, server, locals
<1> QED
  BY <1>1, <1>2, <1>3, <1>4, <1>5, <1>6, <1>7, <1>8, <1>9, <1>10, <1>11,
     <1>12, <1>13, <1>14, <1>15, <1>16, <1>17, <1>18, <1>19
     DEF Next, Resolve, Request, ExportFile, Commands, Threads

(* A corpus file is never one that was written in part, whatever fails and
   whenever Binary Ninja exits, as long as exports come one at a time. *)
THEOREM ExportsStayWhole == OneExporter => (Spec => []ExportsAreWhole)
<1> SUFFICES ASSUME OneExporter PROVE Spec => []ExportsAreWhole
  OBVIOUS
<1>1. Init => WriterAlone /\ ExportsAreWhole
  BY ServerConstants
     DEF Init, Idle, Threads, WriterAlone, ExportsAreWhole
<1>2. Ind /\ WriterAlone /\ ExportsAreWhole /\ [Next]_vars
         => (WriterAlone /\ ExportsAreWhole)'
  BY WholeStep
<1> QED
  BY <1>1, <1>2, Invariance, PTL DEF Spec
=============================================================================
