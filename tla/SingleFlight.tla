---------------------------- MODULE SingleFlight ----------------------------
(***************************************************************************)
(* What mcrit_similarity/cache.py promises of a LockedCache, apart from    *)
(* how it keeps the promise: a map from keys to values in which at most    *)
(* one thread builds a key, only a missing key is built, and the entry     *)
(* used last is never the one dropped.                                     *)
(***************************************************************************)
CONSTANTS Threads, Keys, Values,
          NoThread, NoKey, NoValue      \* nobody builds; no entry; absent

VARIABLES content,      \* the value held for each key, or NoValue
          builder,      \* the thread that builds each key, or NoThread
          latest        \* the entry stored or read last, or NoKey

vars == <<content, builder, latest>>

Init == /\ content = [k \in Keys |-> NoValue]
        /\ builder = [k \in Keys |-> NoThread]
        /\ latest = NoKey

(* A cached key is read.  It becomes the entry used last. *)
Touch(k) == /\ content[k] # NoValue
            /\ latest' = k
            /\ UNCHANGED <<content, builder>>

(* A thread starts to build a key that is neither cached nor being built. *)
Claim(t, k) == /\ content[k] = NoValue
               /\ builder[k] = NoThread
               /\ builder' = [builder EXCEPT ![k] = t]
               /\ UNCHANGED <<content, latest>>

(* The builder of a key is done with it, whether or not it stored a value. *)
Release(k) == /\ builder[k] # NoThread
              /\ builder' = [builder EXCEPT ![k] = NoThread]
              /\ UNCHANGED <<content, latest>>

Put(k, v) == /\ content' = [content EXCEPT ![k] = v]
             /\ latest' = k
             /\ UNCHANGED builder

(* An entry makes room, but never the one used last. *)
Drop(k) == /\ content[k] # NoValue
           /\ k # latest
           /\ content' = [content EXCEPT ![k] = NoValue]
           /\ UNCHANGED <<builder, latest>>

Forget == /\ content' = [k \in Keys |-> NoValue]
          /\ latest' = NoKey
          /\ UNCHANGED builder

Next == \/ \E k \in Keys : Touch(k) \/ Release(k) \/ Drop(k)
        \/ \E t \in Threads, k \in Keys : Claim(t, k)
        \/ \E k \in Keys, v \in Values : Put(k, v)
        \/ Forget

Spec == Init /\ [][Next]_vars
=============================================================================
