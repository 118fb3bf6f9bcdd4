-------------------------- MODULE ProviderSettings ---------------------------
(***************************************************************************)
(* The configuration of one provider, from settings.py and provider.py.    *)
(* Creating a provider and perform_update_settings read the global         *)
(* defaults, moving a typed API token to the system keychain on the way;   *)
(* every visit re-reads the provider's own settings, with its last         *)
(* configuration in place of the global defaults.                          *)
(*                                                                         *)
(* The keys of a provider's settings are one value here, Broken when one   *)
(* cannot be read or the server is empty.  Of the global keys the API      *)
(* token stands for all: only it is moved when it is read.                 *)
(***************************************************************************)
EXTENDS Naturals, FiniteSets

CONSTANTS
    Visits,         \* threads that call _current_config
    Objects,        \* Binary Ninja's settings objects
    Values, Tokens,
    Broken,         \* settings that cannot be read, or name no server
    None            \* Python's None or "": no token, no provider

VARIABLES
    field,          \* the API token field of Binary Ninja's settings
    keychain,       \* the token in the system keychain
    session,        \* what each settings object holds
    current,        \* _settings
    config,         \* _config
    pc, obj, base, fresh,   \* of each thread; base is the last configuration
    latest,         \* the token that was typed last
    applied,        \* the token the last update put in place
    steady          \* nothing the visit reads has changed since it began

global == <<field, keychain, session>>
provider == <<current, config>>
history == <<latest, applied, steady>>
vars == <<global, provider, pc, obj, base, fresh, history>>

Threads == Visits \cup {"ui"}
Configs == [values : Values, token : Tokens \cup {None}]

(* The analyst's thread is none of the visits', None is nothing else, and
   settings are either broken or not. *)
ASSUME ProviderConstants ==
    /\ "ui" \notin Visits
    /\ None \notin Objects \cup Tokens \cup Configs
    /\ Broken \notin Values

Idle == /\ pc = [t \in Threads |-> "idle"]
        /\ obj = [t \in Threads |-> None]
        /\ base = [t \in Threads |-> None]
        /\ fresh = [t \in Threads |-> None]
        /\ steady = [t \in Visits |-> FALSE]

Init ==
    /\ field = None
    /\ keychain = None
    /\ session \in [Objects -> Values \cup {Broken}]
    /\ current = None
    /\ config = None
    /\ latest = None
    /\ applied = None
    /\ Idle

Goto(t, l) == pc' = [pc EXCEPT ![t] = l]
Local(f, t, x) == [f EXCEPT ![t] = x]
Return(t) == /\ Goto(t, "idle")
             /\ obj' = Local(obj, t, None)
             /\ base' = Local(base, t, None)
             /\ fresh' = Local(fresh, t, None)

Unsteady == steady' = [v \in Visits |-> FALSE]

-----------------------------------------------------------------------------
(* The analyst *)

TypeToken(t) ==
    /\ pc["ui"] = "idle"
    /\ field' = t
    /\ latest' = t
    /\ UNCHANGED <<keychain, session, provider, pc, obj, base, fresh,
                   applied, steady>>

(* The session's Configuration dialog writes into the settings object. *)
EditSession(o, v) ==
    /\ session' = [session EXCEPT ![o] = v]
    /\ Unsteady
    /\ UNCHANGED <<field, keychain, provider, pc, obj, base, fresh,
                   latest, applied>>

(* Binary Ninja ends and starts again; field and keychain last. *)
Restart ==
    /\ current' = None
    /\ config' = None
    /\ applied' = None
    /\ pc' = [t \in Threads |-> "idle"]
    /\ obj' = [t \in Threads |-> None]
    /\ base' = [t \in Threads |-> None]
    /\ fresh' = [t \in Threads |-> None]
    /\ Unsteady
    /\ UNCHANGED <<global, latest>>

-----------------------------------------------------------------------------
(* McritProviderType.create and perform_update_settings *)

BeginUpdate(o) ==
    /\ pc["ui"] = "idle"
    /\ obj' = Local(obj, "ui", o)
    /\ Goto("ui", "field")
    /\ UNCHANGED <<global, provider, base, fresh, history>>

(* _migrate_token.  Reading the token of an empty field is a keychain's to
   answer, if there is one. *)
ReadField ==
    /\ pc["ui"] = "field"
    /\ \/ /\ field # None
          /\ base' = Local(base, "ui", field)
          /\ Goto("ui", "store")
       \/ /\ field = None
          /\ base' \in {Local(base, "ui", keychain), Local(base, "ui", None)}
          /\ Goto("ui", "read")
    /\ UNCHANGED <<global, provider, obj, fresh, history>>

(* Seeded bug: the field is cleared though the keychain refused the token. *)
BugStoreToken ==
    /\ pc["ui"] = "store"
    /\ keychain' \in {keychain, base["ui"]}
    /\ Goto("ui", "reset")
    /\ UNCHANGED <<field, session, provider, obj, base, fresh,
                   history>>

(* The keychain takes the token, or refuses it, or there is none. *)
StoreToken ==
    /\ pc["ui"] = "store"
    /\ \/ /\ keychain' = base["ui"]
          /\ Goto("ui", "reset")
       \/ /\ UNCHANGED keychain
          /\ Goto("ui", "read")
    /\ UNCHANGED <<field, session, provider, obj, base, fresh,
                   history>>

ResetField ==
    /\ pc["ui"] = "reset"
    /\ field' = None
    /\ Goto("ui", "read")
    /\ UNCHANGED <<keychain, session, provider, obj, base, fresh,
                   history>>

(* config_from_settings(settings_obj, global_defaults()) *)
ReadSettings ==
    /\ pc["ui"] = "read"
    /\ session[obj["ui"]] # Broken
    /\ fresh' = Local(fresh, "ui",
                      [values |-> session[obj["ui"]], token |-> base["ui"]])
    /\ Goto("ui", "apply")
    /\ UNCHANGED <<global, provider, obj, base, history>>

(* The provider's settings are broken, or a global default is: no provider
   is made, and the one there is keeps what it has. *)
UpdateFails ==
    /\ pc["ui"] \in {"field", "read"}
    /\ Return("ui")
    /\ UNCHANGED <<global, provider, history>>

(* Seeded bug: the settings object is not taken over. *)
BugApply ==
    /\ pc["ui"] = "apply"
    /\ config' = fresh["ui"]
    /\ applied' = fresh["ui"].token
    /\ Return("ui")
    /\ Unsteady
    /\ UNCHANGED <<global, current, latest>>

Apply ==
    /\ pc["ui"] = "apply"
    /\ config' = fresh["ui"]
    /\ current' = obj["ui"]
    /\ applied' = fresh["ui"].token
    /\ Return("ui")
    /\ Unsteady
    /\ UNCHANGED <<global, latest>>

-----------------------------------------------------------------------------
(* _current_config, in a visit or an apply *)

Snapshot(v) ==
    /\ pc[v] = "idle"
    /\ current # None
    /\ obj' = Local(obj, v, current)
    /\ base' = Local(base, v, config)
    /\ steady' = [steady EXCEPT ![v] = TRUE]
    /\ Goto(v, "refresh")
    /\ UNCHANGED <<global, provider, fresh, latest, applied>>

(* Seeded bug: the last configuration is good enough. *)
BugRefresh(v) ==
    /\ pc[v] = "refresh"
    /\ session[obj[v]] # Broken
    /\ fresh' = Local(fresh, v, base[v])
    /\ Goto(v, "write")
    /\ UNCHANGED <<global, provider, obj, base, history>>

Refresh(v) ==
    /\ pc[v] = "refresh"
    /\ session[obj[v]] # Broken
    /\ fresh' = Local(fresh, v, [values |-> session[obj[v]],
                                 token |-> base[v].token])
    /\ Goto(v, "write")
    /\ UNCHANGED <<global, provider, obj, base, history>>

(* Broken settings leave the visit the configuration it copied, and the
   provider the one it has. *)
KeepLast(v) ==
    /\ pc[v] = "refresh"
    /\ session[obj[v]] = Broken
    /\ fresh' = Local(fresh, v, base[v])
    /\ Goto(v, "use")
    /\ UNCHANGED <<global, provider, obj, base, history>>

WriteBack(v) ==
    /\ pc[v] = "write"
    /\ config' = fresh[v]
    /\ Goto(v, "use")
    /\ UNCHANGED <<global, current, obj, base, fresh, history>>

EndVisit(v) ==
    /\ pc[v] = "use"
    /\ Return(v)
    /\ steady' = Local(steady, v, FALSE)
    /\ UNCHANGED <<global, provider, latest, applied>>

Update == \/ ReadField \/ StoreToken \/ ResetField
          \/ ReadSettings \/ UpdateFails \/ Apply

Visit(v) == \/ Snapshot(v) \/ Refresh(v) \/ KeepLast(v)
            \/ WriteBack(v) \/ EndVisit(v)

Next ==
    \/ \E t \in Tokens : TypeToken(t)
    \/ \E o \in Objects : BeginUpdate(o)
                        \/ \E x \in Values \cup {Broken} : EditSession(o, x)
    \/ Update
    \/ \E v \in Visits : Visit(v)
    \/ Restart

Spec == Init /\ [][Next]_vars

-----------------------------------------------------------------------------
(* What must hold *)

(* Every variable has its type, and a provider has settings exactly when it
   has a configuration. *)
TypeOK ==
    /\ {field, keychain, latest, applied} \subseteq Tokens \cup {None}
    /\ session \in [Objects -> Values \cup {Broken}]
    /\ current \in Objects \cup {None}
    /\ config \in Configs \cup {None}
    /\ current = None <=> config = None
    /\ pc \in [Threads -> {"idle", "field", "store", "reset", "read",
                           "apply", "refresh", "write", "use"}]
    /\ obj \in [Threads -> Objects \cup {None}]
    /\ base \in [Threads -> Configs \cup Tokens \cup {None}]
    /\ fresh \in [Threads -> Configs \cup {None}]
    /\ steady \in [Visits -> BOOLEAN]

(* "An empty field is indistinguishable from the default ..., so it must
   never be read as a request to delete the token": the token typed last is
   in the field or in the keychain, whenever Binary Ninja ends and whenever
   the keychain refuses it. *)
LatestTokenKept == latest \in {field, keychain}

(* "The configuration as the provider's settings hold it now": a visit during
   which nothing changed uses what its provider's settings hold, whatever
   other visits and updates left in _config before - and, while they are
   broken, the configuration that was in place when it began. *)
VisitUsesItsSettings ==
    \A v \in Visits :
        pc[v] = "use" /\ steady[v] =>
            IF session[current] = Broken
            THEN fresh[v] = base[v]
            ELSE fresh[v].values = session[current]

(* "The last configuration stands in for the global defaults": what the last
   update read of them stays in place until the next one. *)
UpdateIsKept == config # None => config.token = applied

=============================================================================
