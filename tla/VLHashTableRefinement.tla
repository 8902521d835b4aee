----------------------- MODULE VLHashTableRefinement -----------------------
(***************************************************************************)
(* VLHashTable implements HashTable: its operations are linearizable.      *)
(* insert takes effect when the node is published, remove when it is       *)
(* unlinked, and lookup when it loads head->next: nodes in a list never    *)
(* change, so what it will find is settled from then on.                   *)
(***************************************************************************)
EXTENDS VLHashTable

tableBar == [k \in Keys |-> Stack(k)]

(* What thread t's lookup will return if it is validated now. *)
LookupAnswer(t) ==
    CASE stage[t] \in {"version", "traverse"} /\ first[t] # InLoop ->
             Answer(first[t], op[t].key)
      [] stage[t] \in {"key", "val", "next"} -> Answer(curr[t], op[t].key)
      [] OTHER -> result[t]

answerBar ==
    [t \in Threads |-> IF stage[t] \in LookupStages THEN LookupAnswer(t) ELSE result[t]]

Table == INSTANCE HashTable WITH table <- tableBar, answer <- answerBar

(* Whatever the interleaving of insert and lookup, or of insert and remove, *)
(* the calls return what they would return one after the other              *)
(* (vlht.hpp:49-95, list.hpp:69-106).                                       *)
Linearizable == Table!Spec
=============================================================================
