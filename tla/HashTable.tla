----------------------------- MODULE HashTable -----------------------------
(***************************************************************************)
(* What a hash table of base_ht.hpp promises its callers: insert, lookup   *)
(* and remove take effect at one moment between the call and the return.   *)
(* insert does not look for the key first, so a key has a stack of values; *)
(* lookup answers with the newest and remove takes the newest away.  This  *)
(* is an abstract specification, which the table modules implement; it     *)
(* translates no code of its own.                                          *)
(***************************************************************************)
EXTENDS Sequences

CONSTANTS Threads, Keys, Vals,
          NotFound,    \* the answer to a lookup of an absent key
          Pending      \* no answer yet

VARIABLES
    table,    \* every key's values, newest first
    op,       \* the call each thread is in, or NoOp
    answer    \* what the call is to return: TRUE for insert and remove

vars == <<table, op, answer>>

Newest(k) == IF table[k] = <<>> THEN NotFound ELSE Head(table[k])

Ops == [kind : {"insert"}, key : Keys, val : Vals]
           \union [kind : {"remove", "lookup"}, key : Keys]

NoOp == [kind |-> "none"]

Init ==
    /\ table = [k \in Keys |-> <<>>]
    /\ op = [t \in Threads |-> NoOp]
    /\ answer = [t \in Threads |-> Pending]

Invoke(t) ==
    /\ op[t] = NoOp
    /\ \E o \in Ops : op' = [op EXCEPT ![t] = o]
    /\ UNCHANGED <<table, answer>>

Insert(t) ==
    LET o == op[t] IN
    /\ o.kind = "insert" /\ answer[t] = Pending
    /\ table' = [table EXCEPT ![o.key] = <<o.val>> \o @]
    /\ answer' = [answer EXCEPT ![t] = TRUE]
    /\ UNCHANGED op

Remove(t) ==
    LET o == op[t] IN
    /\ o.kind = "remove" /\ answer[t] = Pending
    /\ table[o.key] # <<>>
    /\ table' = [table EXCEPT ![o.key] = Tail(@)]
    /\ answer' = [answer EXCEPT ![t] = TRUE]
    /\ UNCHANGED op

(* A lookup changes nothing, so it may look again before it returns. *)
Lookup(t) ==
    /\ op[t].kind = "lookup"
    /\ answer' = [answer EXCEPT ![t] = Newest(op[t].key)]
    /\ UNCHANGED <<table, op>>

Return(t) ==
    /\ op[t] # NoOp /\ answer[t] # Pending
    /\ op' = [op EXCEPT ![t] = NoOp]
    /\ answer' = [answer EXCEPT ![t] = Pending]
    /\ UNCHANGED table

Next ==
    \E t \in Threads : Invoke(t) \/ Insert(t) \/ Remove(t) \/ Lookup(t) \/ Return(t)

Spec == Init /\ [][Next]_vars
=============================================================================
