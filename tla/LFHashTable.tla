---------------------------- MODULE LFHashTable ----------------------------
(***************************************************************************)
(* The lock-free hash table of lfht.hpp: lists whose sentinel has a tag    *)
(* next to its pointer.  lf_insert swaps both together with cmpxchg16b,    *)
(* counting the tag up.  There are two lookups (list.hpp:157-180): one     *)
(* traverses the list as it is when it starts, the other one looks at the  *)
(* tag before and after.  Nothing is ever removed: remove is a stub.       *)
(*                                                                         *)
(* A published node never changes, so a lookup's loads of its key, value   *)
(* and next pointer are one step.                                          *)
(***************************************************************************)
EXTENDS ChainedLists

CONSTANTS
    Threads,
    Calls,       \* the functions each thread calls
    Unread,      \* a local variable that has not been loaded
    Pending      \* no result yet

ASSUME LFHashTableAssumption ==
    /\ Calls \in [Threads -> SUBSET {"insert", "snapshot", "linearizable"}]
    /\ Unread \notin Pointers \union Nat
    /\ Pending \notin Vals \union {NotFound, TRUE}

VARIABLES
    tag,         \* the sentinels' tags
    op,          \* the call each thread is in (kind, key, value), or NoOp
    stage,       \* where the thread is in it
    new_node,    \* the node to be inserted
    curr_tag,    \* the tag an insert has loaded, or a lookup's init_tag
    curr_next,   \* the list head the thread has loaded
    curr,        \* the node a lookup is at
    headFirst    \* history: lookups whose list head was loaded before init_tag

callVars == <<op, stage, new_node, curr_tag, curr_next, curr, headFirst>>
vars == <<listVars, tag, callVars>>

Ops == [kind : {"insert"}, key : Keys, val : Vals]
           \union [kind : {"lookup"}, key : Keys, fn : {"snapshot", "linearizable"}]

NoOp == [kind |-> "none"]

Stages == {"none", "load", "inserted", "head", "node", "end"}

TypeOK ==
    /\ ListTypeOK
    /\ tag \in [Buckets -> 0 .. Cardinality(Nodes)]
    /\ op \in [Threads -> Ops \union {NoOp}]
    /\ stage \in [Threads -> Stages]
    /\ new_node \in [Threads -> Pointers]
    /\ curr_tag \in [Threads -> Nat \union {Unread}]
    /\ curr_next \in [Threads -> Pointers \union {Unread}]
    /\ curr \in [Threads -> Pointers]
    /\ headFirst \in SUBSET Threads

Bucket(t) == HashOf[op[t].key]

Init ==
    /\ ListInit
    /\ tag = [b \in Buckets |-> 0]
    /\ op = [t \in Threads |-> NoOp]
    /\ stage = [t \in Threads |-> "none"]
    /\ new_node = [t \in Threads |-> Nil]
    /\ curr_tag = [t \in Threads |-> Unread]
    /\ curr_next = [t \in Threads |-> Unread]
    /\ curr = [t \in Threads |-> Nil]
    /\ headFirst = {}

-----------------------------------------------------------------------------
At(t, s) == stage[t] = s
GoTo(t, s) == stage' = [stage EXCEPT ![t] = s]

Return(t) ==
    /\ op' = [op EXCEPT ![t] = NoOp]
    /\ GoTo(t, "none")
    /\ new_node' = [new_node EXCEPT ![t] = Nil]
    /\ curr_tag' = [curr_tag EXCEPT ![t] = Unread]
    /\ curr_next' = [curr_next EXCEPT ![t] = Unread]
    /\ curr' = [curr EXCEPT ![t] = Nil]
    /\ headFirst' = headFirst \ {t}

(***************************************************************************)
(* lf_insert.                                                              *)
(***************************************************************************)

(* Mutant of SwapSucceeds: the tag alone is compared. *)
SwapIgnoresHead(t) == tag[Bucket(t)] = curr_tag[t]

(* cmpxchg16b compares the tag and the pointer. *)
SwapSucceeds(t) ==
    tag[Bucket(t)] = curr_tag[t] /\ head[Bucket(t)] = curr_next[t]

(* Mutant of CasRetry: the retry label behind the loads. *)
CasRetryStale(t) == UNCHANGED <<curr_tag, curr_next>>

(* goto cas_retry *)
CasRetry(t) ==
    /\ curr_tag' = [curr_tag EXCEPT ![t] = Unread]
    /\ curr_next' = [curr_next EXCEPT ![t] = Unread]

(* Mutant of Swapped: the loop goes round once more. *)
SwappedAgain(t) == CasRetry(t) /\ UNCHANGED stage

(* The loop ends. *)
Swapped(t) == GoTo(t, "inserted") /\ UNCHANGED <<curr_tag, curr_next>>

(* Mutant of Tagged: the tag is swapped back as it was. *)
TaggedAsBefore(v) == v

(* Mutant of Tagged: the tag counts too far. *)
TaggedByTwo(v) == v + 2

(* curr_tag + 1; bound: it counts inserts, and there are no more than Nodes. *)
Tagged(v) == v + 1

(* Bound: inserts start only while there are blocks of memory left. *)
MemoryLeft == live # Nodes

(* Call lf_insert and allocate the node, whichever block it is. *)
BeginInsert(t) ==
    /\ At(t, "none") /\ "insert" \in Calls[t] /\ MemoryLeft
    /\ \E k \in Keys, v \in Vals :
           LET n == CHOOSE n \in Nodes : n \notin live IN
           /\ op' = [op EXCEPT ![t] = [kind |-> "insert", key |-> k, val |-> v]]
           /\ NewNode(n, k, v, Nil)
           /\ new_node' = [new_node EXCEPT ![t] = n]
    /\ GoTo(t, "load")
    /\ UNCHANGED <<tag, curr_tag, curr_next, curr, headFirst>>

(* The two loads are not ordered: only the tag is volatile. *)
LoadTag(t) ==
    /\ At(t, "load") /\ curr_tag[t] = Unread
    /\ curr_tag' = [curr_tag EXCEPT ![t] = tag[Bucket(t)]]
    /\ UNCHANGED <<listVars, tag, op, stage, new_node, curr_next, curr, headFirst>>

(* The store to new_node->next is to a node nobody else can see yet. *)
LoadNext(t) ==
    /\ At(t, "load") /\ curr_next[t] = Unread
    /\ curr_next' = [curr_next EXCEPT ![t] = head[Bucket(t)]]
    /\ cell' = [cell EXCEPT ![new_node[t]].next = head[Bucket(t)]]
    /\ UNCHANGED <<head, live, tag, op, stage, new_node, curr_tag, curr, headFirst>>

Swap(t) ==
    /\ At(t, "load") /\ Unread \notin {curr_tag[t], curr_next[t]}
    /\ IF SwapSucceeds(t)
       THEN /\ Publish(new_node[t], Bucket(t))
            /\ tag' = [tag EXCEPT ![Bucket(t)] = Tagged(curr_tag[t])]
            /\ Swapped(t)
       ELSE CasRetry(t) /\ UNCHANGED <<listVars, tag, stage>>
    /\ UNCHANGED <<op, new_node, curr, headFirst>>

EndInsert(t) ==
    /\ At(t, "inserted")
    /\ Return(t)
    /\ UNCHANGED <<listVars, tag>>

(***************************************************************************)
(* lf_lookup_snapshot and lf_lookup_linearizable.                          *)
(***************************************************************************)
BeginLookup(t) ==
    /\ At(t, "none")
    /\ \E k \in Keys, f \in Calls[t] \ {"insert"} :
           op' = [op EXCEPT ![t] = [kind |-> "lookup", key |-> k, fn |-> f]]
    /\ GoTo(t, "head")
    /\ UNCHANGED <<listVars, tag, new_node, curr_tag, curr_next, curr, headFirst>>

(* init_tag is loaded before or after head->next, which is not volatile,    *)
(* but before the first node or the tag is looked at: those loads are.      *)
TagLoaded(t) == op[t].fn = "linearizable" => curr_tag[t] # Unread

LoadInitTag(t) ==
    /\ stage[t] \in {"head", "node", "end"} /\ ~TagLoaded(t)
    /\ curr_tag' = [curr_tag EXCEPT ![t] = tag[Bucket(t)]]
    /\ UNCHANGED <<listVars, tag, op, stage, new_node, curr_next, curr, headFirst>>

Visit(t, p) ==
    /\ curr' = [curr EXCEPT ![t] = p]
    /\ GoTo(t, IF p = Nil THEN "end" ELSE "node")

(* curr = head->next, kept if it may be used again. *)
LoadHead(t) ==
    /\ At(t, "head")
    /\ curr_next' = [curr_next EXCEPT ![t] =
                        IF op[t].fn = "linearizable" THEN head[Bucket(t)] ELSE Unread]
    /\ Visit(t, head[Bucket(t)])
    /\ headFirst' = IF TagLoaded(t) THEN headFirst \ {t} ELSE headFirst \union {t}
    /\ UNCHANGED <<listVars, tag, op, new_node, curr_tag>>

(* One node of the traversal: its value is the answer, or the next one. *)
VisitNode(t) ==
    /\ At(t, "node") /\ TagLoaded(t)
    /\ IF cell[curr[t]].key = op[t].key
       THEN Return(t)
       ELSE /\ Visit(t, cell[curr[t]].next)
            /\ UNCHANGED <<op, new_node, curr_tag, curr_next, headFirst>>
    /\ UNCHANGED <<listVars, tag>>

(* The key is not in the list: lf_lookup_snapshot says so, and              *)
(* lf_lookup_linearizable if the tag is still init_tag.  If not it starts   *)
(* over with a new load of head->next, or, as that load is not volatile and *)
(* the optimized build has it before the loop, with the old one; init_tag   *)
(* stays as it is.                                                          *)
EndOfList(t) ==
    /\ At(t, "end") /\ TagLoaded(t)
    /\ IF op[t].fn = "linearizable" => tag[Bucket(t)] = curr_tag[t]
       THEN Return(t)
       ELSE /\ (GoTo(t, "head") /\ UNCHANGED curr) \/ Visit(t, curr_next[t])
            /\ UNCHANGED <<op, new_node, curr_tag, curr_next, headFirst>>
    /\ UNCHANGED <<listVars, tag>>

-----------------------------------------------------------------------------
Continue(t) ==
    \/ LoadTag(t) \/ LoadNext(t) \/ Swap(t) \/ EndInsert(t)
    \/ LoadInitTag(t) \/ LoadHead(t) \/ VisitNode(t) \/ EndOfList(t)

Next == \E t \in Threads : BeginInsert(t) \/ BeginLookup(t) \/ Continue(t)

Spec == Init /\ [][Next]_vars

(* A thread inside a call keeps running. *)
FairSpec == Spec /\ \A t \in Threads : WF_vars(Continue(t))

-----------------------------------------------------------------------------
(* LFHashTable implements HashTable.  An insert takes effect at its swap, a *)
(* lookup when it loads the list head.                                      *)
tableBar == [k \in Keys |-> Stack(k)]

opBar ==
    [t \in Threads |->
        IF op[t].kind = "lookup" THEN [kind |-> "lookup", key |-> op[t].key] ELSE op[t]]

answerBar ==
    [t \in Threads |->
        CASE stage[t] = "inserted" -> TRUE
          [] stage[t] \in {"node", "end"} -> Answer(curr[t], op[t].key)
          [] stage[t] = "head" /\ curr_next[t] # Unread -> NotFound
          [] OTHER -> Pending]

Table == INSTANCE HashTable WITH table <- tableBar, op <- opBar, answer <- answerBar

(* Properties.                                                             *)

(* Concurrent inserts lose no node, and both lookups answer as if they had  *)
(* been made at one moment between call and return (list.hpp:133-180).      *)
Linearizable == Table!Spec

(* A node the list already has is not written any more: a swap that is      *)
(* tried again has not published its node, and a lookup may load key, value *)
(* and next of a node with no ordering between them (list.hpp:139-152).     *)
PublishedFixed ==
    [][\A b \in Buckets : \A n \in ListNodes(b) : cell'[n] = cell[n]]_vars

(* An unchanged tag is proof that the list the lookup has traversed is the  *)
(* list there is, however many inserts it ran into (list.hpp:167-180): if   *)
(* init_tag was loaded before the list head, as the lines are written.  The *)
(* compiler need not keep that order, and then an equal tag proves nothing. *)
EqualTagSameList ==
    \A t \in Threads \ headFirst :
        /\ stage[t] \in {"node", "end"} /\ op[t].fn = "linearizable"
        /\ tag[Bucket(t)] = curr_tag[t]
        => head[Bucket(t)] = curr_next[t]

(* Lock freedom: inserts return although their swaps may fail, and          *)
(* lf_lookup_snapshot does not wait for anybody (list.hpp:133-165).         *)
CallsReturn ==
    \A t \in Threads :
        (op[t].kind = "insert" \/ (op[t].kind = "lookup" /\ op[t].fn = "snapshot"))
            ~> op[t] = NoOp

(* "thread safe lock free varients", "2 implementation of lock-free         *)
(* lookups : snapshot & linearizable" (list.hpp:21, 23): once all inserts   *)
(* have been made, every lookup returns.                                    *)
LookupsReturn == \A t \in Threads : op[t].kind = "lookup" ~> op[t] = NoOp
=============================================================================
