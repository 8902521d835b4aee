------------------------- MODULE MCVLHashTableMixes -------------------------
(* Model-checking instance of VLHashTableRefinement in which every          *)
(* behaviour has one of several mixes of calls.  No symmetry, which would   *)
(* not be sound for the liveness properties.                               *)
EXTENDS VLHashTableRefinement

CONSTANTS t1, t2, t3, k1, k2, v1, v2

VARIABLE calls   \* the operations each thread may call

mixVars == <<vars, calls>>

Inserts(ks, vs) == [kind : {"insert"}, key : ks, val : vs]
Removes(ks) == [kind : {"remove"}, key : ks]
Lookups(ks) == [kind : {"lookup"}, key : ks]

(* Three threads that write; the values of a key tell its nodes apart. *)
WritersOnly ==
    [t \in Threads |->
        CASE t = t1 -> Inserts(Keys, {v1}) \union Removes(Keys)
          [] t = t2 -> Inserts(Keys, {v2}) \union Removes(Keys)
          [] OTHER -> Removes({k1})]

(* Two threads that insert and look up; one key has two values. *)
NoRemoves ==
    [t \in Threads |->
        IF t = t3 THEN {}
        ELSE Inserts({k1}, {v1, v2}) \union Inserts({k2}, {v1}) \union Lookups({k1})]

(* Two threads that write, of which one also looks up. *)
AllKinds ==
    [t \in Threads |->
        CASE t = t1 -> Inserts(Keys, {v1}) \union Removes(Keys)
          [] t = t2 -> Inserts({k1}, {v2}) \union Removes({k1}) \union Lookups({k1})
          [] OTHER -> {}]

MixInit == TableInit /\ calls \in {WritersOnly, NoRemoves, AllKinds}

MixNext ==
    /\ TableNext
    /\ \A t \in Threads : op'[t] \in calls[t] \union {NoOp}
    /\ UNCHANGED calls

MixSpec == MixInit /\ [][MixNext]_mixVars

FairMixSpec == MixSpec /\ \A t \in Threads : WF_vars(Continue(t))

OneBucket == [k \in Keys |-> CHOOSE b \in Buckets : TRUE]

-----------------------------------------------------------------------------
(* A lookup is promised to be linearizable where nobody removes. *)
Promised(t) ==
    op[t].kind = "lookup" => \A u \in Threads : \A o \in calls[u] : o.kind # "remove"

PromisedTable == INSTANCE HashTable WITH
    table <- tableBar,
    op <- [t \in Threads |-> IF Promised(t) THEN op[t] ELSE NoOp],
    answer <- [t \in Threads |-> IF Promised(t) THEN answerBar[t] ELSE Pending]

(* Whatever the interleaving, inserts and removes return what they would    *)
(* return one after the other, and so do lookups among inserts             *)
(* (vlht.hpp:49-95, list.hpp:69-106).                                       *)
CallsLinearizable == PromisedTable!Spec
=============================================================================
