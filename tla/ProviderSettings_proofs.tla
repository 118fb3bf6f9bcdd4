----------------------- MODULE ProviderSettings_proofs ------------------------
(***************************************************************************)
(* Proofs about ProviderSettings, for any visits, settings objects, values *)
(* and tokens.                                                             *)
(***************************************************************************)
EXTENDS ProviderSettings, TLAPS

(* What a thread has in hand, where it is. *)
InHand ==
    /\ pc["ui"] \in {"idle", "field", "store", "reset", "read", "apply"}
    /\ pc["ui"] # "idle" => obj["ui"] \in Objects
    /\ pc["ui"] \in {"store", "reset", "read"} =>
          base["ui"] \in Tokens \cup {None}
    /\ pc["ui"] = "apply" => fresh["ui"] \in Configs
    /\ \A v \in Visits :
          /\ pc[v] \in {"idle", "refresh", "write", "use"}
          /\ pc[v] # "idle" => current # None /\ obj[v] \in Objects
          /\ pc[v] = "refresh" => base[v] \in Configs
          /\ pc[v] \in {"write", "use"} => fresh[v] \in Configs

(* A typed token on its way from its field to the keychain is where the
   update read it, and is stored before the field is cleared. *)
TokenInTransit ==
    /\ pc["ui"] = "store" => field # None /\ base["ui"] = field
    /\ pc["ui"] = "reset" => keychain = latest

(* A field that holds a token holds the one typed last. *)
FieldIsLatest == field # None => field = latest

(* A visit during which nothing changed works on the provider's settings. *)
SteadyVisit ==
    \A v \in Visits :
        steady[v] => /\ pc[v] # "idle" => obj[v] = current
                     /\ pc[v] = "write" => session[obj[v]] # Broken
                     /\ pc[v] = "use" /\ session[obj[v]] = Broken =>
                           fresh[v] = base[v]
                     /\ pc[v] \in {"write", "use"} /\ session[obj[v]] # Broken =>
                           fresh[v].values = session[obj[v]]

(* The three facts about the token, which each need the others. *)
Token == TokenInTransit /\ FieldIsLatest /\ LatestTokenKept

Ind == /\ TypeOK /\ InHand
       /\ Token
       /\ SteadyVisit

-----------------------------------------------------------------------------
(* A provider starts with no settings and no threads at work. *)
LEMMA InitInd == Init => Ind
<1> SUFFICES ASSUME Init PROVE Ind
  OBVIOUS
<1>1. TypeOK
  BY DEF Init, Idle, TypeOK, Threads
<1>2. InHand
  BY DEF Init, Idle, InHand, Threads
<1>3. SteadyVisit
  BY DEF Init, Idle, SteadyVisit, Threads
<1> QED
  BY <1>1, <1>2, <1>3
     DEF Init, Idle, Ind, Token, TokenInTransit, FieldIsLatest, LatestTokenKept,
         Threads

-----------------------------------------------------------------------------
(* Types, and what the threads have in hand *)

(* Every step keeps the types. *)
LEMMA TypeStep == Ind /\ [Next]_vars => TypeOK'
<1> SUFFICES ASSUME Ind, [Next]_vars PROVE TypeOK'
  OBVIOUS
<1> USE ProviderConstants DEF Ind, TypeOK, InHand, Threads
<1>1. ASSUME NEW t \in Tokens, TypeToken(t) PROVE TypeOK'
  BY <1>1 DEF TypeToken, provider, Configs
<1>2. ASSUME NEW o \in Objects, NEW x \in Values \cup {Broken}, EditSession(o, x)
      PROVE TypeOK'
  BY <1>2 DEF EditSession, Unsteady, provider, Configs
<1>3. ASSUME Restart PROVE TypeOK'
  BY <1>3 DEF Restart, Unsteady, global, Configs
<1>4. ASSUME NEW o \in Objects, BeginUpdate(o) PROVE TypeOK'
  BY <1>4 DEF BeginUpdate, Goto, Local, global, provider, history, Configs
<1>5. ASSUME ReadField PROVE TypeOK'
  BY <1>5 DEF ReadField, Goto, Local, global, provider, history, Configs
<1>6. ASSUME StoreToken PROVE TypeOK'
  BY <1>6 DEF StoreToken, Goto, provider, history, Configs
<1>7. ASSUME ResetField PROVE TypeOK'
  BY <1>7 DEF ResetField, Goto, provider, history, Configs
<1>8. ASSUME ReadSettings PROVE TypeOK'
  BY <1>8 DEF ReadSettings, Goto, Local, global, provider, history, Configs
<1>9. ASSUME Apply PROVE TypeOK'
  BY <1>9 DEF Apply, Return, Goto, Local, Unsteady, global, Configs
<1>10. ASSUME NEW v \in Visits, Snapshot(v) PROVE TypeOK'
  BY <1>10 DEF Snapshot, Goto, Local, global, provider, Configs
<1>11. ASSUME NEW v \in Visits, Refresh(v) PROVE TypeOK'
  BY <1>11 DEF Refresh, Goto, Local, global, provider, history, Configs
<1>12. ASSUME NEW v \in Visits, WriteBack(v) PROVE TypeOK'
  BY <1>12 DEF WriteBack, Goto, global, history, Configs
<1>13. ASSUME NEW v \in Visits, EndVisit(v) PROVE TypeOK'
  BY <1>13 DEF EndVisit, Return, Goto, Local, global, provider, history, Configs
<1>14. ASSUME UNCHANGED vars PROVE TypeOK'
  BY <1>14 DEF vars, global, provider, history, Configs
<1>15. ASSUME UpdateFails PROVE TypeOK'
  BY <1>15 DEF UpdateFails, Return, Goto, Local, global, provider, history, Configs
<1>16. ASSUME NEW v \in Visits, KeepLast(v) PROVE TypeOK'
  BY <1>16 DEF KeepLast, Goto, Local, global, provider, history, Configs
<1> QED
  BY <1>1, <1>2, <1>3, <1>4, <1>5, <1>6, <1>7, <1>8, <1>9,
     <1>10, <1>11, <1>12, <1>13, <1>14, <1>15, <1>16
     DEF Next, Update, Visit

(* ... and what a thread took with it when it left the lock. *)
LEMMA InHandStep == Ind /\ [Next]_vars => InHand'
<1> SUFFICES ASSUME Ind, [Next]_vars PROVE InHand'
  OBVIOUS
<1> USE ProviderConstants DEF Ind, TypeOK, InHand, Threads
<1>1. ASSUME NEW t \in Tokens, TypeToken(t) PROVE InHand'
  BY <1>1 DEF TypeToken, provider, Configs
<1>2. ASSUME NEW o \in Objects, NEW x \in Values \cup {Broken}, EditSession(o, x)
      PROVE InHand'
  BY <1>2 DEF EditSession, Unsteady, provider, Configs
<1>3. ASSUME Restart PROVE InHand'
  BY <1>3 DEF Restart, Unsteady, global, Configs
<1>4. ASSUME NEW o \in Objects, BeginUpdate(o) PROVE InHand'
  BY <1>4 DEF BeginUpdate, Goto, Local, global, provider, history, Configs
<1>5. ASSUME ReadField PROVE InHand'
  BY <1>5 DEF ReadField, Goto, Local, global, provider, history, Configs
<1>6. ASSUME StoreToken PROVE InHand'
  BY <1>6 DEF StoreToken, Goto, provider, history, Configs
<1>7. ASSUME ResetField PROVE InHand'
  BY <1>7 DEF ResetField, Goto, provider, history, Configs
<1>8. ASSUME ReadSettings PROVE InHand'
  BY <1>8 DEF ReadSettings, Goto, Local, global, provider, history, Configs
<1>9. ASSUME Apply PROVE InHand'
  BY <1>9 DEF Apply, Return, Goto, Local, Unsteady, global, Configs
<1>10. ASSUME NEW v \in Visits, Snapshot(v) PROVE InHand'
  BY <1>10 DEF Snapshot, Goto, Local, global, provider, Configs
<1>11. ASSUME NEW v \in Visits, Refresh(v) PROVE InHand'
  BY <1>11 DEF Refresh, Goto, Local, global, provider, history, Configs
<1>12. ASSUME NEW v \in Visits, WriteBack(v) PROVE InHand'
  BY <1>12 DEF WriteBack, Goto, global, history, Configs
<1>13. ASSUME NEW v \in Visits, EndVisit(v) PROVE InHand'
  BY <1>13 DEF EndVisit, Return, Goto, Local, global, provider, history, Configs
<1>14. ASSUME UNCHANGED vars PROVE InHand'
  BY <1>14 DEF vars, global, provider, history, Configs
<1>15. ASSUME UpdateFails PROVE InHand'
  BY <1>15 DEF UpdateFails, Return, Goto, Local, global, provider, history, Configs
<1>16. ASSUME NEW v \in Visits, KeepLast(v) PROVE InHand'
  BY <1>16 DEF KeepLast, Goto, Local, global, provider, history, Configs
<1> QED
  BY <1>1, <1>2, <1>3, <1>4, <1>5, <1>6, <1>7, <1>8, <1>9,
     <1>10, <1>11, <1>12, <1>13, <1>14, <1>15, <1>16
     DEF Next, Update, Visit

-----------------------------------------------------------------------------
(* The token, and the visits *)

(* A typed token passes from its field to the keychain and is never in
   neither: the field is emptied only once the keychain holds it. *)
LEMMA TokenStep == Ind /\ [Next]_vars => Token'
<1> SUFFICES ASSUME Ind, [Next]_vars PROVE Token'
  OBVIOUS
<1> USE ProviderConstants
    DEF Ind, TypeOK, InHand, Token, TokenInTransit, FieldIsLatest,
        LatestTokenKept
<1>1. ASSUME NEW t \in Tokens, TypeToken(t) PROVE Token'
  BY <1>1 DEF TypeToken, Threads
<1>2. ASSUME NEW o \in Objects, NEW x \in Values \cup {Broken}, EditSession(o, x)
      PROVE Token'
  BY <1>2 DEF EditSession, Unsteady, Threads
<1>3. ASSUME Restart PROVE Token'
  BY <1>3 DEF Restart, Unsteady, global, Threads
<1>4. ASSUME NEW o \in Objects, BeginUpdate(o) PROVE Token'
  BY <1>4 DEF BeginUpdate, Goto, Local, global, provider, history, Threads
<1>5. ASSUME ReadField PROVE Token'
  BY <1>5 DEF ReadField, Goto, Local, global, provider, history, Threads
<1>6. ASSUME StoreToken PROVE Token'
  BY <1>6 DEF StoreToken, Goto, provider, history, Threads
<1>7. ASSUME ResetField PROVE Token'
  BY <1>7 DEF ResetField, Goto, provider, history, Threads
<1>8. ASSUME ReadSettings PROVE Token'
  BY <1>8 DEF ReadSettings, Goto, Local, global, provider, history, Threads
<1>9. ASSUME Apply PROVE Token'
  BY <1>9 DEF Apply, Return, Goto, Local, Unsteady, global, Threads
<1>10. ASSUME NEW v \in Visits, Snapshot(v) PROVE Token'
  BY <1>10 DEF Snapshot, Goto, Local, global, provider, Threads
<1>11. ASSUME NEW v \in Visits, Refresh(v) PROVE Token'
  BY <1>11 DEF Refresh, Goto, Local, global, provider, history, Threads
<1>12. ASSUME NEW v \in Visits, WriteBack(v) PROVE Token'
  BY <1>12 DEF WriteBack, Goto, global, history, Threads
<1>13. ASSUME NEW v \in Visits, EndVisit(v) PROVE Token'
  BY <1>13 DEF EndVisit, Return, Goto, Local, global, provider, history, Threads
<1>14. ASSUME UNCHANGED vars PROVE Token'
  BY <1>14 DEF vars, global, provider, history, Threads
<1>15. ASSUME UpdateFails PROVE Token'
  BY <1>15 DEF UpdateFails, Return, Goto, Local, global, provider, history, Threads
<1>16. ASSUME NEW v \in Visits, KeepLast(v) PROVE Token'
  BY <1>16 DEF KeepLast, Goto, Local, global, provider, history, Threads
<1> QED
  BY <1>1, <1>2, <1>3, <1>4, <1>5, <1>6, <1>7, <1>8, <1>9,
     <1>10, <1>11, <1>12, <1>13, <1>14, <1>15, <1>16
     DEF Next, Update, Visit

(* A visit during which nothing changed still has what it copied. *)
LEMMA VisitStep == Ind /\ [Next]_vars => SteadyVisit'
<1> SUFFICES ASSUME Ind, [Next]_vars PROVE SteadyVisit'
  OBVIOUS
<1> USE ProviderConstants DEF Ind, TypeOK, InHand, SteadyVisit, Threads
<1>1. ASSUME NEW t \in Tokens, TypeToken(t) PROVE SteadyVisit'
  BY <1>1 DEF TypeToken, provider, Configs
<1>2. ASSUME NEW o \in Objects, NEW x \in Values \cup {Broken}, EditSession(o, x)
      PROVE SteadyVisit'
  BY <1>2 DEF EditSession, Unsteady, provider, Configs
<1>3. ASSUME Restart PROVE SteadyVisit'
  BY <1>3 DEF Restart, Unsteady, global, Configs
<1>4. ASSUME NEW o \in Objects, BeginUpdate(o) PROVE SteadyVisit'
  BY <1>4 DEF BeginUpdate, Goto, Local, global, provider, history, Configs
<1>5. ASSUME ReadField PROVE SteadyVisit'
  BY <1>5 DEF ReadField, Goto, Local, global, provider, history, Configs
<1>6. ASSUME StoreToken PROVE SteadyVisit'
  BY <1>6 DEF StoreToken, Goto, provider, history, Configs
<1>7. ASSUME ResetField PROVE SteadyVisit'
  BY <1>7 DEF ResetField, Goto, provider, history, Configs
<1>8. ASSUME ReadSettings PROVE SteadyVisit'
  BY <1>8 DEF ReadSettings, Goto, Local, global, provider, history, Configs
<1>9. ASSUME Apply PROVE SteadyVisit'
  BY <1>9 DEF Apply, Return, Goto, Local, Unsteady, global, Configs
<1>10. ASSUME NEW v \in Visits, Snapshot(v) PROVE SteadyVisit'
  BY <1>10 DEF Snapshot, Goto, Local, global, provider, Configs
<1>11. ASSUME NEW v \in Visits, Refresh(v) PROVE SteadyVisit'
  BY <1>11 DEF Refresh, Goto, Local, global, provider, history, Configs
<1>12. ASSUME NEW v \in Visits, WriteBack(v) PROVE SteadyVisit'
  BY <1>12 DEF WriteBack, Goto, global, history, Configs
<1>13. ASSUME NEW v \in Visits, EndVisit(v) PROVE SteadyVisit'
  BY <1>13 DEF EndVisit, Return, Goto, Local, global, provider, history, Configs
<1>14. ASSUME UNCHANGED vars PROVE SteadyVisit'
  BY <1>14 DEF vars, global, provider, history, Configs
<1>15. ASSUME UpdateFails PROVE SteadyVisit'
  BY <1>15 DEF UpdateFails, Return, Goto, Local, global, provider, history, Configs
<1>16. ASSUME NEW v \in Visits, KeepLast(v) PROVE SteadyVisit'
  BY <1>16 DEF KeepLast, Goto, Local, global, provider, history, Configs
<1> QED
  BY <1>1, <1>2, <1>3, <1>4, <1>5, <1>6, <1>7, <1>8, <1>9,
     <1>10, <1>11, <1>12, <1>13, <1>14, <1>15, <1>16
     DEF Next, Update, Visit

(* The invariant that the theorems below follow from. *)
THEOREM Invariance == Spec => []Ind
<1>1. Ind /\ [Next]_vars => Ind'
  BY TypeStep, InHandStep, TokenStep, VisitStep DEF Ind
<1> QED
  BY <1>1, InitInd, PTL DEF Spec

-----------------------------------------------------------------------------
(* Every variable has its type, and a provider has settings exactly when it
   has a configuration: what a visit writes back never outlives them. *)
THEOREM TypeCorrect == Spec => []TypeOK
  BY Invariance, PTL DEF Ind

(* The token typed last is in its field or in the keychain, at whatever point
   Binary Ninja ends and whatever the keychain does. *)
THEOREM TokenIsKept == Spec => []LatestTokenKept
  BY Invariance, PTL DEF Ind, Token

(* A visit during which nothing changed uses its provider's settings, or the
   configuration it found if those are broken. *)
THEOREM VisitsUseSettings == Spec => []VisitUsesItsSettings
<1>1. Ind => VisitUsesItsSettings
  BY DEF Ind, SteadyVisit, VisitUsesItsSettings
<1> QED
  BY <1>1, Invariance, PTL
=============================================================================
