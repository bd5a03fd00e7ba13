------------------------------- MODULE KVStore -------------------------------
(***************************************************************************)
(* What the storage engine promises to the threads that share it: a map    *)
(* from keys to values.  A put or a delete takes effect in one step        *)
(* between its call and its return; only where I/O may fail can it fail    *)
(* instead, and then it has no effect.  A get answers with the value the   *)
(* key had when it asked, however long the data then takes to be read from *)
(* a file; only where a read may fail can it answer "Error" instead.  A    *)
(* store may be of a kind in which a put that can no longer fail first     *)
(* takes the value away that it replaces.                                  *)
(***************************************************************************)
CONSTANTS
  Threads, Keys, Values,
  WritesMayFail,  \* can the I/O beneath a write fail,
  ReadsMayFail,   \*   and that beneath a read?
  PutsMayRemove   \* may a key be missing while its value is replaced?

VARIABLES
  kv,       \* the value of every key, or "KeyNotFound"
  call,     \* the write a thread has asked for, or NoCall
  reply     \* the answer a thread's get has been given, or "none"

kvVars == <<kv, call, reply>>

(* A delete is the write of "KeyNotFound".                                 *)
Write(k, v) == [key |-> k, val |-> v, begun |-> FALSE]
Begun(w) == [key |-> w.key, val |-> w.val, begun |-> TRUE]
NoCall == Write("none", "none")

KVInit ==
  /\ kv = [k \in Keys |-> "KeyNotFound"]
  /\ call = [t \in Threads |-> NoCall]
  /\ reply = [t \in Threads |-> "none"]

KVCall(t, k, v) ==
  /\ call[t] = NoCall
  /\ reply[t] = "none"
  /\ call' = [call EXCEPT ![t] = Write(k, v)]
  /\ UNCHANGED <<kv, reply>>

KVApply(t) ==
  /\ call[t] # NoCall
  /\ kv' = [kv EXCEPT ![call[t].key] = call[t].val]
  /\ call' = [call EXCEPT ![t] = NoCall]
  /\ UNCHANGED reply

KVBegin(t) ==
  /\ PutsMayRemove
  /\ call[t] # NoCall /\ call[t].val # "KeyNotFound"
  /\ call' = [call EXCEPT ![t] = Begun(@)]
  /\ UNCHANGED <<kv, reply>>

KVRemove(t) ==
  /\ call[t].begun
  /\ kv' = [kv EXCEPT ![call[t].key] = "KeyNotFound"]
  /\ UNCHANGED <<call, reply>>

KVFail(t) ==
  /\ WritesMayFail
  /\ call[t] # NoCall /\ ~call[t].begun
  /\ call' = [call EXCEPT ![t] = NoCall]
  /\ UNCHANGED <<kv, reply>>

KVGet(t, k) ==
  /\ call[t] = NoCall
  /\ reply[t] = "none"
  /\ reply' = [reply EXCEPT ![t] = kv[k]]
  /\ UNCHANGED <<kv, call>>

KVGetFail(t) ==
  /\ ReadsMayFail
  /\ reply[t] \in Values
  /\ reply' = [reply EXCEPT ![t] = "Error"]
  /\ UNCHANGED <<kv, call>>

KVReturn(t) ==
  /\ reply[t] # "none"
  /\ reply' = [reply EXCEPT ![t] = "none"]
  /\ UNCHANGED <<kv, call>>

KVNext ==
  \E t \in Threads :
    \/ \E k \in Keys, v \in Values \cup {"KeyNotFound"} : KVCall(t, k, v)
    \/ KVApply(t)
    \/ KVBegin(t)
    \/ KVRemove(t)
    \/ KVFail(t)
    \/ \E k \in Keys : KVGet(t, k)
    \/ KVGetFail(t)
    \/ KVReturn(t)

KVSpec == KVInit /\ [][KVNext]_kvVars
=============================================================================
