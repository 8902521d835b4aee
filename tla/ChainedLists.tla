---------------------------- MODULE ChainedLists ----------------------------
(***************************************************************************)
(* The buckets' linked lists of list.hpp and node.hpp, on a heap of nodes. *)
(* Every bucket has a sentinel, whose next pointer is head[b] here; a node *)
(* is inserted at the head and never changed afterwards, until it is       *)
(* deleted.                                                                *)
(*                                                                         *)
(* list.hpp's functions are not atomic: the actions of the table modules   *)
(* take them apart into the loads and stores that other threads can come   *)
(* between.  This module has the heap and what one load or store does.     *)
(***************************************************************************)
EXTENDS Integers, Sequences, FiniteSets, Functions

CONSTANTS
    Buckets, Keys, Vals,
    HashOf,      \* get_key_hash: the bucket of each key
    Nodes,       \* node-sized blocks of memory
    Nil,         \* the null pointer
    NotFound,    \* UINT64_MAX, the answer to a lookup of an absent key
    Junk         \* what the allocator leaves in a freed block

ASSUME ListAssumption ==
    /\ HashOf \in [Keys -> Buckets]
    /\ Nil \notin Nodes /\ Junk \notin Keys \union Vals /\ NotFound \notin Vals
    /\ IsFiniteSet(Nodes)

VARIABLES
    head,    \* the first node of every bucket
    cell,    \* the contents of every block
    live     \* the blocks that are allocated

listVars == <<head, cell, live>>

Pointers == Nodes \union {Nil}

ListTypeOK ==
    /\ head \in [Buckets -> Pointers]
    /\ cell \in [Nodes -> [key : Keys \union {Junk}, val : Vals \union {Junk}, next : Pointers]]
    /\ live \in SUBSET Nodes

ListInit ==
    /\ head = [b \in Buckets |-> Nil]
    /\ cell = [n \in Nodes |-> [key |-> Junk, val |-> Junk, next |-> Nil]]
    /\ live = {}

-----------------------------------------------------------------------------
(* Node p, if it is one of S. *)
Hit(p, S) == IF p \in S THEN <<p>> ELSE <<>>

(* The nodes of S on the way from each pointer to the end of its list, in   *)
(* order, where next leads from node to node; walk[i] goes i nodes far,     *)
(* which cuts a cycle off.                                                  *)
Walk(next, S) ==
    LET walk[i \in 0 .. Cardinality(Nodes)] ==
            [p \in Pointers |->
                IF p = Nil \/ i = 0 THEN <<>>
                ELSE Hit(p, S) \o walk[i - 1][next[p]]]
    IN  walk

Reached(next, S, p) == Walk(next, S)[Cardinality(Nodes)][p]

Links == [n \in Nodes |-> cell[n].next]

(* The nodes reached from pointer p, and those of them that have key k. *)
Chain(p) == Reached(Links, Nodes, p)
Matching(p, k) == Reached(Links, {n \in Nodes : cell[n].key = k}, p)

(* The nodes of bucket b's list. *)
ListNodes(b) == Range(Chain(head[b]))

(* The values of key k in its bucket, newest first. *)
Stack(k) ==
    LET m == Matching(head[HashOf[k]], k)
    IN  [i \in DOMAIN m |-> cell[m[i]].val]

(* What list::lookup returns for key k from pointer p on, if nothing moves. *)
Answer(p, k) ==
    LET m == Matching(p, k)
    IN  IF m = <<>> THEN NotFound ELSE cell[Head(m)].val

-----------------------------------------------------------------------------
(* new node(key, val), and its next pointer: the node's fields are stored   *)
(* before the node is published.                                            *)
NewNode(n, k, v, p) ==
    /\ n \in Nodes \ live
    /\ live' = live \union {n}
    /\ cell' = [cell EXCEPT ![n] = [key |-> k, val |-> v, next |-> p]]
    /\ UNCHANGED head

(* Mutant of Publish: the old head is dropped from the list. *)
PublishAlone(n, b) ==
    /\ head' = [head EXCEPT ![b] = n]
    /\ cell' = [cell EXCEPT ![n].next = Nil]
    /\ UNCHANGED live

(* head->next = new_node *)
Publish(n, b) ==
    /\ head' = [head EXCEPT ![b] = n]
    /\ UNCHANGED <<cell, live>>

(* Mutant of Bypassed: everything behind the victim is cut off. *)
CutOff(n) == Nil

(* curr->next, which prev->next becomes. *)
Bypassed(n) == cell[n].next

(* prev->next = curr->next, prev being the sentinel or a node of bucket b. *)
Unlink(n, b) ==
    LET c == Chain(head[b]) IN
    IF head[b] = n
    THEN head' = [head EXCEPT ![b] = Bypassed(n)] /\ UNCHANGED <<cell, live>>
    ELSE /\ \E i \in 1 .. Len(c) - 1 :
                /\ c[i + 1] = n
                /\ cell' = [cell EXCEPT ![c[i]].next = Bypassed(n)]
         /\ UNCHANGED <<head, live>>

(* Mutant of Free: the whole block is overwritten, the next pointer too. *)
FreeScrubbed(n) ==
    /\ live' = live \ {n}
    /\ cell' = [cell EXCEPT ![n] = [key |-> Junk, val |-> Junk, next |-> Junk]]
    /\ UNCHANGED head

(* delete curr, that is free(): the allocator keeps its list of free blocks *)
(* in the first two words, where key and val were, and leaves the rest.     *)
Free(n) ==
    /\ live' = live \ {n}
    /\ cell' = [cell EXCEPT ![n].key = Junk, ![n].val = Junk]
    /\ UNCHANGED head
=============================================================================
