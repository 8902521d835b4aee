------------------------- MODULE LFHashTableProofs -------------------------
(***************************************************************************)
(* Proofs about LFHashTable for any number of threads, buckets, keys,      *)
(* values and nodes: types, and what an unchanged tag proves to the        *)
(* linearizable lookup.                                                    *)
(***************************************************************************)
EXTENDS LFHashTable, ChainedListsProofs, FiniteSetTheorems

(* The nodes that are in a list: the others have not been swapped in yet. *)
Unpublished == {new_node[t] : t \in {u \in Threads : stage[u] = "load"}}
Published == live \ Unpublished

LFTypes ==
    /\ ListTypeOK
    /\ tag \in [Buckets -> Nat]
    /\ op \in [Threads -> Ops \union {NoOp}]
    /\ stage \in [Threads -> Stages]
    /\ new_node \in [Threads -> Pointers]
    /\ curr_tag \in [Threads -> Nat \union {Unread}]
    /\ curr_next \in [Threads -> Pointers \union {Unread}]
    /\ curr \in [Threads -> Pointers]
    /\ headFirst \in SUBSET Threads

(* Where a thread is in its call, the variables it uses have been loaded. *)
ThreadInv(t) ==
    /\ IF stage[t] = "none" THEN curr_tag[t] = Unread ELSE op[t] \in Ops
    /\ stage[t] = "load" => op[t].kind = "insert" /\ new_node[t] \in live
    /\ stage[t] \in {"head", "node", "end"} => op[t].kind = "lookup"
    /\ stage[t] = "node" => curr[t] # Nil
    /\ /\ stage[t] \in {"head", "node", "end"} /\ op[t].fn = "linearizable"
       /\ curr_tag[t] # Unread
       => curr_tag[t] <= tag[Bucket(t)]
    /\ stage[t] \in {"node", "end"} /\ op[t].fn = "linearizable" =>
           /\ curr_next[t] # Unread
           /\ t \notin headFirst =>
                  /\ curr_tag[t] # Unread
                  /\ tag[Bucket(t)] = curr_tag[t] => head[Bucket(t)] = curr_next[t]

LFInv ==
    /\ LFTypes
    /\ \A t \in Threads : ThreadInv(t)
    /\ \A t, u \in Threads :
           stage[t] = "load" /\ stage[u] = "load" /\ new_node[t] = new_node[u] => t = u
    /\ \A b \in Buckets : tag[b] <= Cardinality(Published)

(* The buckets of operations exist. *)
LEMMA BucketExists ==
    ASSUME LFInv, NEW t \in Threads, stage[t] # "none"
    PROVE  op[t] \in Ops /\ op[t].key \in Keys /\ Bucket(t) \in Buckets
  <1>1. op[t] \in Ops /\ op[t].key \in Keys
    BY DEF LFInv, ThreadInv, Ops
  <1>2. QED
    BY <1>1, ListAssumption DEF Bucket

(* There are finitely many nodes. *)
LEMMA NodesAreFinite ==
    ASSUME NEW S \in SUBSET Nodes
    PROVE  /\ IsFiniteSet(S) /\ Cardinality(S) \in 0 .. Cardinality(Nodes)
           /\ Cardinality(Nodes) \in Nat
           /\ \A n : n \notin S => Cardinality(S \union {n}) = Cardinality(S) + 1
  <1>1. IsFiniteSet(Nodes) /\ Cardinality(Nodes) \in Nat
    BY ListAssumption, FS_CardinalityType
  <1>2. IsFiniteSet(S) /\ Cardinality(S) <= Cardinality(Nodes)
    BY <1>1, FS_Subset
  <1>3. Cardinality(S) \in Nat
    BY <1>2, FS_CardinalityType
  <1>4. \A n : n \notin S => Cardinality(S \union {n}) = Cardinality(S) + 1
    BY <1>2, FS_AddElement
  <1>5. QED
    BY <1>1, <1>2, <1>3, <1>4

(* The steps of thread t that publish nothing and allocate nothing. *)
LEMMA QuietStep ==
    ASSUME LFInv, LFTypes', NEW t \in Threads,
           UNCHANGED <<head, live, tag>>,
           \A u \in Threads \ {t} :
               /\ UNCHANGED <<op[u], stage[u], new_node[u], curr_tag[u], curr_next[u], curr[u]>>
               /\ u \in headFirst' <=> u \in headFirst,
           stage'[t] = "load" <=> stage[t] = "load",
           stage[t] = "load" => new_node'[t] = new_node[t],
           ThreadInv(t)'
    PROVE  LFInv'
  <1>1. Published' = Published
    <2>1. \A n : n \in Unpublished' <=> n \in Unpublished
      BY DEF Unpublished
    <2>2. QED
      BY <2>1 DEF Published
  <1>2. \A u \in Threads \ {t} : ThreadInv(u)'
    BY DEF LFInv, ThreadInv, Bucket
  <1>3. QED
    BY <1>1, <1>2 DEF LFInv

(* BeginInsert puts a block in hand that nobody had (list.hpp:134). *)
LEMMA BeginInsertStep ==
    ASSUME LFInv, NEW t \in Threads, BeginInsert(t)
    PROVE  LFInv'
  <1> DEFINE n == CHOOSE n \in Nodes : n \notin live
  <1>1. n \in Nodes /\ n \notin live
    BY DEF BeginInsert, MemoryLeft, LFInv, LFTypes, ListTypeOK
  <1>2. PICK k \in Keys, v \in Vals :
            /\ op' = [op EXCEPT ![t] = [kind |-> "insert", key |-> k, val |-> v]]
            /\ NewNode(n, k, v, Nil)
            /\ new_node' = [new_node EXCEPT ![t] = n]
    BY DEF BeginInsert
  <1>3. /\ stage[t] = "none" /\ stage' = [stage EXCEPT ![t] = "load"]
        /\ UNCHANGED <<tag, curr_tag, curr_next, curr, headFirst, head>> /\ live' = live \union {n}
    BY <1>2 DEF BeginInsert, At, GoTo, NewNode
  <1>4. LFTypes'
    <2>1. ListTypeOK'
      BY <1>2, NewNodeType DEF LFInv, LFTypes, Pointers
    <2>2. QED
      BY <1>1, <1>2, <1>3, <2>1 DEF LFInv, LFTypes, Ops, Stages, Pointers
  <1>5. ThreadInv(t)'
    BY <1>2, <1>3, <1>4 DEF LFInv, LFTypes, ThreadInv, Ops
  <1>6. \A u \in Threads \ {t} : ThreadInv(u)'
    BY <1>2, <1>3 DEF LFInv, LFTypes, ThreadInv, Bucket
  <1>7. \A u, w \in Threads :
            stage'[u] = "load" /\ stage'[w] = "load" /\ new_node'[u] = new_node'[w] => u = w
    <2>1. \A u \in Threads \ {t} : stage'[u] = "load" =>
              new_node'[u] = new_node[u] /\ new_node[u] # n /\ stage[u] = "load"
      BY <1>1, <1>2, <1>3 DEF LFInv, LFTypes, ThreadInv
    <2>2. new_node'[t] = n
      BY <1>2 DEF LFInv, LFTypes
    <2>3. QED
      BY <2>1, <2>2 DEF LFInv
  <1>8. Published' = Published
    <2>1. \A m : m \in Unpublished' <=> m \in Unpublished \/ m = n
      BY <1>2, <1>3 DEF Unpublished, LFInv, LFTypes
    <2>2. \A m : m \in Published' <=> m \in Published
      BY <1>1, <1>3, <2>1 DEF Published
    <2>3. QED
      BY <2>2
  <1>9. QED
    BY <1>3, <1>4, <1>5, <1>6, <1>7, <1>8 DEF LFInv

(* The loads of lf_insert, and its retry (list.hpp:145-147, 153). *)
LEMMA LoadStep ==
    ASSUME LFInv, NEW t \in Threads,
           LoadTag(t) \/ LoadNext(t) \/ (Swap(t) /\ ~SwapSucceeds(t))
    PROVE  LFInv'
  <1> USE DEF At, GoTo
  <1>1. /\ stage[t] = "load" /\ UNCHANGED <<head, live, tag, op, stage, new_node, curr, headFirst>>
        /\ \A u \in Threads \ {t} : UNCHANGED <<curr_tag[u], curr_next[u]>>
    BY DEF LoadTag, LoadNext, Swap, CasRetry, listVars, LFInv, LFTypes
  <1>2. Bucket(t) \in Buckets /\ tag[Bucket(t)] \in Nat /\ head[Bucket(t)] \in Pointers
    BY <1>1, BucketExists DEF LFInv, LFTypes, ListTypeOK
  <1>3. curr_tag' \in [Threads -> Nat \union {Unread}]
    BY <1>2 DEF LoadTag, LoadNext, Swap, CasRetry, LFInv, LFTypes
  <1>4. curr_next' \in [Threads -> Pointers \union {Unread}]
    BY <1>2 DEF LoadTag, LoadNext, Swap, CasRetry, LFInv, LFTypes
  <1>5. ListTypeOK'
    <2>1. cell' = cell \/ cell' = [cell EXCEPT ![new_node[t]].next = head[Bucket(t)]]
      BY DEF LoadTag, LoadNext, Swap, listVars
    <2>2. cell' \in [Nodes -> [key : Keys \union {Junk}, val : Vals \union {Junk}, next : Pointers]]
      BY <1>2, <2>1 DEF LFInv, LFTypes, ListTypeOK
    <2>3. QED
      BY <1>1, <2>2 DEF LFInv, LFTypes, ListTypeOK, Pointers
  <1>6. LFTypes'
    BY <1>1, <1>3, <1>4, <1>5 DEF LFInv, LFTypes, Pointers
  <1>7. ThreadInv(t)'
    BY <1>1 DEF LFInv, ThreadInv
  <1>8. QED
    BY <1>1, <1>6, <1>7, QuietStep

(* The swap that succeeds (list.hpp:148): the tag counts one node more, and *)
(* every lookup's init_tag is behind it.                                    *)
LEMMA SwapStep ==
    ASSUME LFInv, NEW t \in Threads, Swap(t), SwapSucceeds(t)
    PROVE  LFInv'
  <1> USE DEF At, GoTo
  <1> DEFINE b == Bucket(t)
             n == new_node[t]
  <1>1. /\ stage[t] = "load" /\ stage' = [stage EXCEPT ![t] = "inserted"]
        /\ head' = [head EXCEPT ![b] = n]
        /\ tag' = [tag EXCEPT ![b] = Tagged(curr_tag[t])]
        /\ UNCHANGED <<cell, live, op, new_node, curr_tag, curr_next, curr, headFirst>>
    BY DEF Swap, Swapped, Publish
  <1>2. b \in Buckets /\ tag[b] \in Nat /\ n \in Nodes /\ n \in live
    BY <1>1, BucketExists DEF LFInv, LFTypes, ThreadInv, ListTypeOK
  <1>3. tag' = [tag EXCEPT ![b] = tag[b] + 1]
    BY <1>1 DEF SwapSucceeds, Tagged
  <1>4. LFTypes'
    <2>1. ListTypeOK'
      BY <1>1, <1>2 DEF LFInv, LFTypes, ListTypeOK, Pointers
    <2>2. QED
      BY <1>1, <1>2, <1>3, <2>1 DEF LFInv, LFTypes, Stages, Pointers
  <1>5. ASSUME NEW u \in Threads PROVE ThreadInv(u)'
    <2>1. ThreadInv(u)
      BY DEF LFInv
    <2>2. CASE u = t
      <3>1. stage'[t] = "inserted" /\ op'[t] \in Ops
        BY <1>1, BucketExists DEF LFInv, LFTypes
      <3>2. QED
        BY <2>2, <3>1 DEF ThreadInv
    <2>3. CASE u # t
      <3>1. stage'[u] = stage[u] /\ op'[u] = op[u] /\ Bucket(u)' = Bucket(u)
        BY <1>1, <2>3 DEF LFInv, LFTypes, Bucket
      <3>2. ASSUME stage[u] \in {"head", "node", "end"}, op[u].fn = "linearizable"
            PROVE  curr_tag[u] # Unread =>
                       /\ curr_tag[u] <= tag'[Bucket(u)]
                       /\ /\ stage[u] # "head" /\ u \notin headFirst
                          /\ tag'[Bucket(u)] = curr_tag[u]
                          => head'[Bucket(u)] = curr_next[u]
        <4> SUFFICES ASSUME curr_tag[u] # Unread
                     PROVE  /\ curr_tag[u] <= tag'[Bucket(u)]
                            /\ /\ stage[u] # "head" /\ u \notin headFirst
                               /\ tag'[Bucket(u)] = curr_tag[u]
                               => head'[Bucket(u)] = curr_next[u]
          OBVIOUS
        <4>1. Bucket(u) \in Buckets /\ curr_tag[u] \in Nat /\ tag[Bucket(u)] \in Nat
              /\ curr_tag[u] <= tag[Bucket(u)]
          BY <2>1, <3>2, BucketExists DEF ThreadInv, LFInv, LFTypes
        <4>2. CASE Bucket(u) = b
          BY <1>2, <1>3, <4>1, <4>2 DEF LFInv, LFTypes
        <4>3. CASE Bucket(u) # b
          BY <1>1, <1>3, <2>1, <3>2, <4>1, <4>3 DEF ThreadInv, LFInv, LFTypes, ListTypeOK
        <4>4. QED
          BY <4>2, <4>3
      <3>3. QED
        BY <1>1, <2>1, <3>1, <3>2 DEF ThreadInv
    <2>4. QED
      BY <2>2, <2>3
  <1>6. \A u \in Threads : stage'[u] = "load" <=> stage[u] = "load" /\ u # t
    BY <1>1 DEF LFInv, LFTypes
  <1>7. Published' = Published \union {n} /\ n \notin Published /\ Published \in SUBSET Nodes
    <2>1. \A u \in Threads : u # t /\ stage[u] = "load" => new_node[u] # n
      BY <1>1 DEF LFInv
    <2>2. \A m : m \in Unpublished' <=> m \in Unpublished /\ m # n
      BY <1>1, <1>6, <2>1 DEF Unpublished
    <2>3. n \in Unpublished
      BY <1>1 DEF Unpublished
    <2>4. \A m : m \in Published' <=> m \in Published \/ m = n
      BY <1>1, <1>2, <2>2 DEF Published
    <2>5. QED
      BY <2>3, <2>4 DEF Published, LFInv, LFTypes, ListTypeOK
  <1>8. Cardinality(Published') = Cardinality(Published) + 1 /\ Cardinality(Published) \in Nat
    BY <1>7, NodesAreFinite
  <1>9. \A c \in Buckets : tag'[c] <= Cardinality(Published')
    BY <1>2, <1>3, <1>8 DEF LFInv, LFTypes
  <1>10. \A u, w \in Threads :
             stage'[u] = "load" /\ stage'[w] = "load" /\ new_node'[u] = new_node'[w] => u = w
    BY <1>1, <1>6 DEF LFInv
  <1>11. QED
    BY <1>4, <1>5, <1>9, <1>10 DEF LFInv

(* The steps of the lookups, and the returns (list.hpp:149, 157-180). *)
LEMMA LookupStep ==
    ASSUME LFInv, NEW t \in Threads,
           \/ BeginLookup(t) \/ EndInsert(t)
           \/ LoadInitTag(t) \/ LoadHead(t) \/ VisitNode(t) \/ EndOfList(t)
    PROVE  LFInv'
  <1> USE DEF At, GoTo
  <1>1. UNCHANGED <<head, live, cell, tag>>
    BY DEF BeginLookup, EndInsert, LoadInitTag, LoadHead, VisitNode, EndOfList, listVars
  <1>2. ListTypeOK'
    BY <1>1 DEF LFInv, LFTypes, ListTypeOK, Pointers
  <1>3. ThreadInv(t)
    BY DEF LFInv
  <1>4. CASE Return(t)
    <2>1. stage[t] # "load" /\ stage'[t] = "none" /\ curr_tag'[t] = Unread
      BY <1>4 DEF BeginLookup, EndInsert, LoadInitTag, LoadHead, VisitNode, EndOfList, Return,
                  LFInv, LFTypes
    <2>2. LFTypes'
      BY <1>1, <1>2, <1>4 DEF Return, LFInv, LFTypes, Stages, Pointers
    <2>3. ThreadInv(t)'
      BY <2>1 DEF ThreadInv
    <2>4. \A u \in Threads \ {t} :
              /\ UNCHANGED <<op[u], stage[u], new_node[u], curr_tag[u], curr_next[u], curr[u]>>
              /\ u \in headFirst' <=> u \in headFirst
      BY <1>4 DEF Return, LFInv, LFTypes
    <2>5. QED
      BY <1>1, <2>1, <2>2, <2>3, <2>4, QuietStep
  <1>5. CASE BeginLookup(t)
    <2>1. PICK k \in Keys, f \in Calls[t] \ {"insert"} :
              op' = [op EXCEPT ![t] = [kind |-> "lookup", key |-> k, fn |-> f]]
      BY <1>5 DEF BeginLookup
    <2>2. /\ stage[t] = "none" /\ stage' = [stage EXCEPT ![t] = "head"]
          /\ UNCHANGED <<new_node, curr_tag, curr_next, curr, headFirst>>
      BY <1>5 DEF BeginLookup
    <2>3. f \in {"snapshot", "linearizable"}
      BY LFHashTableAssumption
    <2>4. LFTypes'
      BY <1>1, <1>2, <2>1, <2>2, <2>3 DEF LFInv, LFTypes, Ops, Stages, Pointers
    <2>5. \A u \in Threads \ {t} :
              /\ UNCHANGED <<op[u], stage[u], new_node[u], curr_tag[u], curr_next[u], curr[u]>>
              /\ u \in headFirst' <=> u \in headFirst
      BY <2>1, <2>2 DEF LFInv, LFTypes
    <2>6. stage[t] # "load" /\ stage'[t] # "load"
      BY <2>2 DEF LFInv, LFTypes
    <2>7. ThreadInv(t)'
      <3>1. op'[t] = [kind |-> "lookup", key |-> k, fn |-> f] /\ stage'[t] = "head"
        BY <2>1, <2>2 DEF LFInv, LFTypes
      <3>2. op'[t] \in Ops
        BY <2>3, <3>1 DEF Ops
      <3>3. curr_tag'[t] = Unread
        BY <1>3, <2>2 DEF ThreadInv
      <3>4. QED
        BY <3>1, <3>2, <3>3 DEF ThreadInv
    <2>8. QED
      BY <1>1, <2>4, <2>5, <2>6, <2>7, QuietStep
  <1>6. CASE LoadInitTag(t)
    <2>1. /\ stage[t] \in {"head", "node", "end"} /\ curr_tag[t] = Unread
          /\ op[t].fn = "linearizable"
          /\ curr_tag' = [curr_tag EXCEPT ![t] = tag[Bucket(t)]]
          /\ UNCHANGED <<op, stage, new_node, curr_next, curr, headFirst>>
      BY <1>6 DEF LoadInitTag, TagLoaded
    <2>2. Bucket(t) \in Buckets /\ tag[Bucket(t)] \in Nat /\ Bucket(t)' = Bucket(t)
      BY <2>1, BucketExists DEF LFInv, LFTypes, Bucket
    <2>3. LFTypes'
      BY <1>1, <1>2, <2>1, <2>2 DEF LFInv, LFTypes, Pointers
    <2>4. curr_tag'[t] = tag[Bucket(t)]
      BY <2>1 DEF LFInv, LFTypes
    <2>5. ThreadInv(t)'
      BY <1>1, <1>3, <2>1, <2>2, <2>4 DEF ThreadInv
    <2>6. \A u \in Threads \ {t} :
              UNCHANGED <<op[u], stage[u], new_node[u], curr_tag[u], curr_next[u], curr[u]>>
      BY <2>1 DEF LFInv, LFTypes
    <2>7. QED
      BY <1>1, <2>1, <2>3, <2>5, <2>6, QuietStep
  <1>7. CASE ~Return(t) /\ ~BeginLookup(t) /\ ~LoadInitTag(t)
    <2>1. /\ stage[t] \in {"head", "node", "end"}
          /\ UNCHANGED <<op, new_node, curr_tag>>
      BY <1>7 DEF EndInsert, LoadHead, VisitNode, EndOfList
    <2>2. /\ op[t] \in Ops /\ op[t].kind = "lookup" /\ Bucket(t) \in Buckets
          /\ head[Bucket(t)] \in Pointers /\ Bucket(t)' = Bucket(t)
      BY <1>3, <2>1, BucketExists DEF ThreadInv, LFInv, LFTypes, ListTypeOK, Bucket
    <2>3. /\ \/ /\ curr_next' = curr_next /\ headFirst' = headFirst /\ stage[t] # "head"
                /\ TagLoaded(t)
             \/ /\ headFirst' = IF TagLoaded(t) THEN headFirst \ {t} ELSE headFirst \union {t}
                /\ curr_next' = [curr_next EXCEPT ![t] =
                                    IF op[t].fn = "linearizable" THEN head[Bucket(t)] ELSE Unread]
          /\ \/ stage' = [stage EXCEPT ![t] = "head"] /\ curr' = curr
             \/ \E p \in Pointers : Visit(t, p)
      <3>1. CASE LoadHead(t)
        BY <2>2, <3>1 DEF LoadHead
      <3>2. CASE VisitNode(t)
        <4>1. curr[t] \in Nodes
          BY <1>3, <3>2 DEF VisitNode, ThreadInv, LFInv, LFTypes, Pointers
        <4>2. cell[curr[t]].next \in Pointers
          BY <4>1 DEF LFInv, LFTypes, ListTypeOK
        <4>3. QED
          BY <1>7, <3>2, <4>2 DEF VisitNode
      <3>3. CASE EndOfList(t)
        <4>1. op[t].fn = "linearizable" /\ stage[t] = "end"
          BY <1>7, <3>3 DEF EndOfList
        <4>2. curr_next[t] \in Pointers
          BY <1>3, <4>1 DEF ThreadInv, LFInv, LFTypes
        <4>3. QED
          BY <1>7, <3>3, <4>1, <4>2 DEF EndOfList
      <3>4. QED
        BY <1>7, <3>1, <3>2, <3>3 DEF EndInsert
    <2>4. PICK p \in Pointers, s \in {"head", "node", "end"} :
              /\ curr' = curr \/ curr' = [curr EXCEPT ![t] = p]
              /\ stage' = [stage EXCEPT ![t] = s]
              /\ s = "node" => curr' = [curr EXCEPT ![t] = p] /\ p # Nil
      <3>1. CASE stage' = [stage EXCEPT ![t] = "head"] /\ curr' = curr
        BY <3>1 DEF Pointers
      <3>2. CASE \E p \in Pointers : Visit(t, p)
        <4>1. PICK p \in Pointers : Visit(t, p)
          BY <3>2
        <4>2. /\ curr' = [curr EXCEPT ![t] = p]
              /\ stage' = [stage EXCEPT ![t] = IF p = Nil THEN "end" ELSE "node"]
          BY <4>1 DEF Visit
        <4>3. CASE p = Nil
          BY <4>2, <4>3
        <4>4. CASE p # Nil
          BY <4>2, <4>4
        <4>5. QED
          BY <4>3, <4>4
      <3>3. QED
        BY <2>3, <3>1, <3>2
    <2>5. stage'[t] = s /\ (s = "node" => curr'[t] = p)
      BY <2>4 DEF LFInv, LFTypes
    <2>6. curr_next' \in [Threads -> Pointers \union {Unread}] /\ headFirst' \in SUBSET Threads
      BY <2>2, <2>3 DEF LFInv, LFTypes
    <2>7. LFTypes'
      BY <1>1, <1>2, <2>1, <2>4, <2>6 DEF LFInv, LFTypes, Stages, Pointers
    <2>8. op[t].fn = "linearizable" =>
              /\ curr_next'[t] # Unread
              /\ t \notin headFirst' =>
                     /\ curr_tag[t] # Unread
                     /\ tag[Bucket(t)] = curr_tag[t] => head[Bucket(t)] = curr_next'[t]
      <3>1. Unread \notin Pointers
        BY LFHashTableAssumption
      <3>2. CASE curr_next' = curr_next /\ headFirst' = headFirst /\ stage[t] # "head"
        BY <1>3, <2>1, <3>2 DEF ThreadInv
      <3>3. CASE /\ headFirst' = IF TagLoaded(t) THEN headFirst \ {t} ELSE headFirst \union {t}
                 /\ curr_next' = [curr_next EXCEPT ![t] =
                                    IF op[t].fn = "linearizable" THEN head[Bucket(t)] ELSE Unread]
        BY <2>2, <3>1, <3>3 DEF LFInv, LFTypes, TagLoaded
      <3>4. QED
        BY <2>3, <3>2, <3>3
    <2>9. ThreadInv(t)'
      BY <1>1, <1>3, <2>1, <2>2, <2>4, <2>5, <2>8 DEF ThreadInv
    <2>10. \A u \in Threads \ {t} :
              /\ UNCHANGED <<op[u], stage[u], new_node[u], curr_tag[u], curr_next[u], curr[u]>>
              /\ u \in headFirst' <=> u \in headFirst
      BY <2>1, <2>3, <2>4 DEF LFInv, LFTypes
    <2>11. QED
      BY <1>1, <2>1, <2>5, <2>7, <2>9, <2>10, QuietStep
  <1>8. QED
    BY <1>4, <1>5, <1>6, <1>7

(* The invariant holds in every state. *)
LEMMA LFInvariant == Spec => []LFInv
  <1>1. Init => LFInv
    <2> SUFFICES ASSUME Init PROVE LFInv
      OBVIOUS
    <2>1. LFTypes
      BY ListInitType DEF Init, LFTypes, Stages, Pointers
    <2>2. \A t \in Threads : ThreadInv(t) /\ stage[t] = "none"
      BY DEF Init, ThreadInv
    <2>3. Cardinality(Published) \in Nat
      <3>1. Published \in SUBSET Nodes
        BY DEF Init, ListInit, Published
      <3>2. QED
        BY <3>1, NodesAreFinite
    <2>4. \A b \in Buckets : tag[b] = 0
      BY DEF Init
    <2>5. QED
      BY <2>1, <2>2, <2>3, <2>4 DEF LFInv
  <1>2. LFInv /\ [Next]_vars => LFInv'
    <2> SUFFICES ASSUME LFInv, [Next]_vars PROVE LFInv'
      OBVIOUS
    <2>1. CASE UNCHANGED vars
      BY <2>1 DEF vars, listVars, callVars, LFInv, LFTypes, ListTypeOK, Pointers, ThreadInv,
                  Bucket, Published, Unpublished
    <2>2. CASE Next
      <3>1. PICK t \in Threads : BeginInsert(t) \/ BeginLookup(t) \/ Continue(t)
        BY <2>2 DEF Next
      <3>2. QED
        BY <3>1, BeginInsertStep, LoadStep, SwapStep, LookupStep DEF Continue
    <2>3. QED
      BY <2>1, <2>2
  <1>3. QED
    BY <1>1, <1>2, PTL DEF Spec

(* The variables keep their types; the tags count no more nodes than there  *)
(* are (list.hpp:133-180).                                                  *)
THEOREM LFTypeCorrect == Spec => []TypeOK
  <1>1. LFInv => TypeOK
    <2> SUFFICES ASSUME LFInv PROVE TypeOK
      OBVIOUS
    <2>1. Published \in SUBSET Nodes
      BY DEF Published, LFInv, LFTypes, ListTypeOK
    <2>2. Cardinality(Published) \in 0 .. Cardinality(Nodes) /\ Cardinality(Nodes) \in Nat
      BY <2>1, NodesAreFinite
    <2>3. tag \in [Buckets -> 0 .. Cardinality(Nodes)]
      <3>1. \A b \in Buckets : tag[b] \in 0 .. Cardinality(Nodes)
        BY <2>2 DEF LFInv, LFTypes
      <3>2. QED
        BY <3>1 DEF LFInv, LFTypes
    <2>4. QED
      BY <2>3 DEF LFInv, LFTypes, TypeOK
  <1>2. QED
    BY <1>1, LFInvariant, PTL

(* An equal tag proves to a linearizable lookup that has loaded init_tag    *)
(* before the list's head that the list has not changed since then; nothing *)
(* is said of one whose head was loaded first (list.hpp:167-180).           *)
THEOREM EqualTagsProveIt == Spec => []EqualTagSameList
  <1>1. LFInv => EqualTagSameList
    BY DEF LFInv, ThreadInv, EqualTagSameList
  <1>2. QED
    BY <1>1, LFInvariant, PTL


-----------------------------------------------------------------------------
(* The lists.                                                              *)

(* The node an insert has in hand is filled in and in no list yet; once the *)
(* head is loaded, the node leads there.                                    *)
HandInv(t) ==
    stage[t] = "load" =>
        /\ new_node[t] \in Nodes /\ \A b \in Buckets : new_node[t] \notin ListNodes(b)
        /\ cell[new_node[t]].key = op[t].key /\ cell[new_node[t]].val = op[t].val
        /\ curr_next[t] # Unread => cell[new_node[t]].next = curr_next[t]

(* A lookup is in its list; the linearizable one will find what there was   *)
(* to be found from the head it has loaded.                                 *)
LookInv(t) ==
    /\ stage[t] = "node" => curr[t] \in ListNodes(Bucket(t))
    /\ stage[t] = "end" => curr[t] = Nil
    /\ stage[t] \in {"node", "end"} /\ op[t].fn = "linearizable" =>
           /\ curr_next[t] \in ListNodes(Bucket(t)) \union {Nil}
           /\ Answer(curr[t], op[t].key) = Answer(curr_next[t], op[t].key)

(* Between calls there is no call; an insert that has swapped is an insert. *)
IdleInv(t) ==
    /\ stage[t] = "none" => op[t] = NoOp /\ curr_next[t] = Unread
    /\ stage[t] = "inserted" => op[t].kind = "insert"

PublishedInv ==
    LFInv /\ ListsInv /\ \A t \in Threads : HandInv(t) /\ LookInv(t) /\ IdleInv(t)

(* No list loses a node, and no answer changes from a node on. *)
ListsGrow ==
    \A b \in Buckets :
        /\ ListNodes(b) \subseteq ListNodes(b)'
        /\ \A q \in ListNodes(b) \union {Nil} : \A k : Answer(q, k)' = Answer(q, k)

(* A thread's step changes nobody else's variables. *)
LEMMA StepIsLocal ==
    ASSUME LFInv, NEW t \in Threads, BeginInsert(t) \/ BeginLookup(t) \/ Continue(t)
    PROVE  \A u \in Threads \ {t} :
               UNCHANGED <<op[u], stage[u], new_node[u], curr_tag[u], curr_next[u], curr[u]>>
  <1> USE DEF LFInv, LFTypes, GoTo
  <1>1. CASE BeginInsert(t) \/ BeginLookup(t)
    BY <1>1 DEF BeginInsert, BeginLookup
  <1>2. CASE LoadTag(t) \/ LoadNext(t) \/ Swap(t) \/ LoadInitTag(t)
    BY <1>2 DEF LoadTag, LoadNext, Swap, CasRetry, Swapped, LoadInitTag
  <1>3. CASE EndInsert(t) \/ LoadHead(t)
    BY <1>3 DEF EndInsert, Return, LoadHead, Visit
  <1>4. CASE VisitNode(t) \/ EndOfList(t)
    BY <1>4 DEF VisitNode, EndOfList, Return, Visit
  <1>5. QED
    BY <1>1, <1>2, <1>3, <1>4 DEF Continue

(* What the others are at stays right when the lists only grow and nobody   *)
(* writes to the nodes in their hands.                                      *)
LEMMA OthersKept ==
    ASSUME PublishedInv, LFInv', ListsInv', ListsGrow, NEW t \in Threads,
           HandInv(t)', LookInv(t)', IdleInv(t)',
           \A u \in Threads \ {t} :
               /\ UNCHANGED <<op[u], stage[u], new_node[u], curr_tag[u], curr_next[u], curr[u]>>
               /\ stage[u] = "load" =>
                      /\ cell'[new_node[u]] = cell[new_node[u]]
                      /\ \A b \in Buckets : new_node[u] \notin ListNodes(b)'
    PROVE  PublishedInv'
  <1>1. ASSUME NEW u \in Threads \ {t} PROVE HandInv(u)' /\ LookInv(u)' /\ IdleInv(u)'
    <2>1. /\ HandInv(u) /\ LookInv(u) /\ IdleInv(u)
          /\ UNCHANGED <<op[u], stage[u], new_node[u], curr_tag[u], curr_next[u], curr[u]>>
      BY DEF PublishedInv
    <2>2. HandInv(u)'
      BY <2>1 DEF HandInv
    <2>3. LookInv(u)'
      <3>1. CASE stage[u] \in {"node", "end"}
        <4> PICK k : k = op[u].key
          OBVIOUS
        <4>1. PICK b \in Buckets : b = Bucket(u) /\ k = op[u].key
          BY <3>1, BucketExists DEF PublishedInv
        <4>2. Bucket(u)' = b /\ op'[u].key = k
          BY <2>1, <4>1 DEF Bucket
        <4>3. PICK c, n : c = curr[u] /\ n = curr_next[u]
          OBVIOUS
        <4>4. /\ stage[u] = "node" => c \in ListNodes(b)
              /\ stage[u] = "end" => c = Nil
              /\ op[u].fn = "linearizable" => n \in ListNodes(b) \union {Nil} /\ Answer(c, k) = Answer(n, k)
          BY <2>1, <3>1, <4>1, <4>3 DEF LookInv
        <4>5. /\ ListNodes(b) \subseteq ListNodes(b)'
              /\ \A q \in ListNodes(b) \union {Nil} : Answer(q, k)' = Answer(q, k)
          BY DEF ListsGrow
        <4>6. /\ stage[u] = "node" => c \in ListNodes(b)'
              /\ op[u].fn = "linearizable" =>
                     n \in ListNodes(b)' \union {Nil} /\ Answer(c, k)' = Answer(n, k)'
          BY <3>1, <4>4, <4>5
        <4>7. op'[u].fn = "linearizable" =>
                  /\ curr_next'[u] \in ListNodes(Bucket(u))' \union {Nil}
                  /\ Answer(curr[u], op[u].key)' = Answer(curr_next[u], op[u].key)'
          BY <2>1, <4>2, <4>3, <4>6
        <4>8. QED
          BY <2>1, <4>2, <4>3, <4>4, <4>6, <4>7 DEF LookInv
      <3>2. CASE stage[u] \notin {"node", "end"}
        BY <2>1, <3>2 DEF LookInv
      <3>3. QED
        BY <3>1, <3>2
    <2>4. IdleInv(u)'
      BY <2>1 DEF IdleInv
    <2>5. QED
      BY <2>2, <2>3, <2>4
  <1>2. QED
    BY <1>1 DEF PublishedInv

(* A step that publishes nothing. *)
LEMMA NothingPublished ==
    ASSUME SameLists
    PROVE  ListsGrow
  BY DEF SameLists, SameList, ListsGrow

(* A block that is new is in nobody's hands (list.hpp:134). *)
LEMMA BeginInsertLists ==
    ASSUME PublishedInv, LFInv', NEW t \in Threads, BeginInsert(t)
    PROVE  PublishedInv' /\ SameLists
  <1> DEFINE m == CHOOSE m \in Nodes : m \notin live
  <1>1. m \in Nodes /\ m \notin live
    BY DEF BeginInsert, MemoryLeft, PublishedInv, ListsInv, ListTypeOK
  <1>2. PICK k \in Keys, v \in Vals :
            /\ op' = [op EXCEPT ![t] = [kind |-> "insert", key |-> k, val |-> v]]
            /\ NewNode(m, k, v, Nil)
            /\ new_node' = [new_node EXCEPT ![t] = m]
    BY DEF BeginInsert
  <1>3. stage[t] = "none" /\ stage' = [stage EXCEPT ![t] = "load"] /\ curr_next' = curr_next
    BY DEF BeginInsert, At, GoTo
  <1> HIDE DEF m
  <1>4. /\ ListsInv' /\ SameLists
        /\ \A b \in Buckets : m \notin ListNodes(b)
        /\ \A n \in Nodes \ {m} : cell'[n] = cell[n]
        /\ cell'[m] = [key |-> k, val |-> v, next |-> Nil]
    <2>1. ListsInv /\ Nil \in Pointers
      BY DEF PublishedInv, Pointers
    <2>2. QED
      BY <1>2, <2>1, ListsAllocate
  <1>5. \A b \in Buckets : ListNodes(b)' = ListNodes(b)
    BY <1>4 DEF SameLists, SameList
  <1>6. /\ op'[t] = [kind |-> "insert", key |-> k, val |-> v] /\ new_node'[t] = m
        /\ stage'[t] = "load" /\ curr_next'[t] = Unread
    <2>1. curr_next[t] = Unread
      BY <1>3 DEF PublishedInv, IdleInv
    <2>2. QED
      BY <1>2, <1>3, <2>1 DEF PublishedInv, LFInv, LFTypes
  <1>7. HandInv(t)' /\ LookInv(t)' /\ IdleInv(t)'
    BY <1>1, <1>4, <1>5, <1>6 DEF HandInv, LookInv, IdleInv
  <1>8. \A u \in Threads \ {t} :
            /\ UNCHANGED <<op[u], stage[u], new_node[u], curr_tag[u], curr_next[u], curr[u]>>
            /\ stage[u] = "load" => new_node[u] \in Nodes \ {m}
    BY <1>1, StepIsLocal DEF PublishedInv, HandInv, LFInv, ThreadInv
  <1>9. \A u \in Threads \ {t} : stage[u] = "load" =>
            /\ cell'[new_node[u]] = cell[new_node[u]]
            /\ \A b \in Buckets : new_node[u] \notin ListNodes(b)'
    BY <1>4, <1>5, <1>8 DEF PublishedInv, HandInv
  <1>10. QED
    BY <1>4, <1>7, <1>8, <1>9, OthersKept, NothingPublished

(* The loads of an insert, and its retry: the node in hand is written, which *)
(* nobody else can see (list.hpp:145-147, 153).                             *)
LEMMA LoadLists ==
    ASSUME PublishedInv, LFInv', NEW t \in Threads,
           LoadTag(t) \/ LoadNext(t) \/ (Swap(t) /\ ~SwapSucceeds(t))
    PROVE  PublishedInv' /\ SameLists
  <1> USE DEF At, GoTo
  <1>1. PICK m \in Nodes : m = new_node[t] /\ \A b \in Buckets : m \notin ListNodes(b)
    BY DEF LoadTag, LoadNext, Swap, PublishedInv, HandInv
  <1> PICK h : h = head[Bucket(t)]
    OBVIOUS
  <1>2. /\ stage[t] = "load" /\ UNCHANGED <<head, live, tag, op, stage, new_node, curr>>
        /\ \/ cell' = cell /\ (curr_next' = curr_next \/ curr_next' = [curr_next EXCEPT ![t] = Unread])
           \/ /\ cell' = [cell EXCEPT ![m].next = h]
              /\ curr_next' = [curr_next EXCEPT ![t] = h]
    BY <1>1 DEF LoadTag, LoadNext, Swap, CasRetry, listVars
  <1>3. /\ cell \in [Nodes -> [key : Keys \union {Junk}, val : Vals \union {Junk}, next : Pointers]]
        /\ curr_next \in [Threads -> Pointers \union {Unread}]
    BY DEF PublishedInv, ListsInv, ListTypeOK, LFInv, LFTypes
  <1>4. \A n \in Nodes \ {m} : cell'[n] = cell[n]
    BY <1>2, <1>3
  <1>5. ListsInv' /\ SameLists
    <2>1. ListsInv /\ ListTypeOK'
      BY DEF PublishedInv, LFInv, LFTypes
    <2>2. \A b \in Buckets : \A n \in ListNodes(b) : cell'[n] = cell[n] /\ n \in live'
      BY <1>1, <1>2, <1>4, <2>1, ListNodesType DEF ListsInv, ListInv
    <2>3. QED
      BY <1>2, <2>1, <2>2, ListsStay
  <1>6. \A b \in Buckets : ListNodes(b)' = ListNodes(b)
    BY <1>5 DEF SameLists, SameList
  <1>7. HandInv(t)' /\ LookInv(t)' /\ IdleInv(t)'
    <2>1. /\ cell[m].key = op[t].key /\ cell[m].val = op[t].val
          /\ curr_next[t] # Unread => cell[m].next = curr_next[t]
      BY <1>1, <1>2 DEF PublishedInv, HandInv
    <2>2. /\ cell'[m].key = op[t].key /\ cell'[m].val = op[t].val
          /\ curr_next'[t] # Unread => cell'[m].next = curr_next'[t]
      BY <1>2, <1>3, <2>1
    <2>3. new_node'[t] = m /\ op'[t] = op[t] /\ stage'[t] = "load"
      BY <1>1, <1>2
    <2>4. QED
      BY <1>1, <1>6, <2>2, <2>3 DEF HandInv, LookInv, IdleInv
  <1>8. \A u \in Threads \ {t} :
            /\ UNCHANGED <<op[u], stage[u], new_node[u], curr_tag[u], curr_next[u], curr[u]>>
            /\ stage[u] = "load" => new_node[u] \in Nodes \ {m}
    BY <1>1, <1>2, StepIsLocal DEF PublishedInv, HandInv, LFInv, Continue
  <1>9. \A u \in Threads \ {t} : stage[u] = "load" =>
            /\ cell'[new_node[u]] = cell[new_node[u]]
            /\ \A b \in Buckets : new_node[u] \notin ListNodes(b)'
    BY <1>4, <1>6, <1>8 DEF PublishedInv, HandInv
  <1>10. QED
    BY <1>5, <1>7, <1>8, <1>9, OthersKept, NothingPublished

(* The swap that succeeds puts the node in front of its list, whatever      *)
(* happened between the loads and the swap (list.hpp:148).                  *)
LEMMA SwapLists ==
    ASSUME PublishedInv, LFInv', NEW t \in Threads, Swap(t), SwapSucceeds(t)
    PROVE  /\ PublishedInv' /\ ListsGrow /\ cell' = cell
           /\ \A k \in Keys : Stack(k)' = IF k = op[t].key THEN <<op[t].val>> \o Stack(k)
                                         ELSE Stack(k)
  <1> USE DEF At, GoTo
  <1>1. /\ stage[t] = "load" /\ stage' = [stage EXCEPT ![t] = "inserted"]
        /\ Publish(new_node[t], Bucket(t))
        /\ UNCHANGED <<op, new_node, curr_tag, curr_next, curr>>
        /\ curr_next[t] # Unread /\ head[Bucket(t)] = curr_next[t]
    BY DEF Swap, Swapped, SwapSucceeds
  <1>2. PICK b \in Buckets, m \in Nodes : b = Bucket(t) /\ m = new_node[t] /\ m \in live
    BY <1>1, BucketExists DEF PublishedInv, HandInv, LFInv, ThreadInv
  <1>3. /\ op[t] \in Ops /\ op[t].key \in Keys /\ op[t].kind = "insert"
    BY <1>1, BucketExists DEF PublishedInv, LFInv, ThreadInv
  <1>4. op[t].val \in Vals
    BY <1>3 DEF Ops
  <1>5. /\ \A c \in Buckets : m \notin ListNodes(c)
        /\ cell[m].key = op[t].key /\ cell[m].val = op[t].val /\ cell[m].next = head[b]
    BY <1>1, <1>2 DEF PublishedInv, HandInv
  <1>6. /\ ListsInv' /\ cell' = cell
        /\ ListNodes(b)' = {m} \union ListNodes(b)
        /\ \A c \in Buckets \ {b} : SameList(c)
        /\ \A k \in Keys : Stack(k)' = IF k = cell[m].key THEN <<cell[m].val>> \o Stack(k)
                                      ELSE Stack(k)
        /\ \A p, k : Answer(p, k)' = Answer(p, k)
    <2>1. ListsInv /\ Publish(m, b) /\ HashOf[cell[m].key] = b
      BY <1>1, <1>2, <1>5 DEF PublishedInv, Bucket
    <2>2. cell[m].key \in Keys /\ cell[m].val \in Vals
      BY <1>3, <1>4, <1>5
    <2>3. QED
      BY <1>2, <1>5, <2>1, <2>2, ListsPublish
  <1>7. ListsGrow
    BY <1>6 DEF ListsGrow, SameList
  <1>8. HandInv(t)' /\ LookInv(t)' /\ IdleInv(t)'
    <2>1. stage'[t] = "inserted" /\ op'[t].kind = "insert"
      BY <1>1, <1>3 DEF PublishedInv, LFInv, LFTypes
    <2>2. QED
      BY <2>1 DEF HandInv, LookInv, IdleInv
  <1>9. \A u \in Threads \ {t} :
            /\ UNCHANGED <<op[u], stage[u], new_node[u], curr_tag[u], curr_next[u], curr[u]>>
            /\ stage[u] = "load" => new_node[u] # m /\ \A c \in Buckets : new_node[u] \notin ListNodes(c)
    BY <1>1, <1>2, StepIsLocal DEF PublishedInv, HandInv, LFInv, Continue
  <1>10. \A u \in Threads \ {t} : stage[u] = "load" => \A c \in Buckets : new_node[u] \notin ListNodes(c)'
    BY <1>6, <1>9 DEF SameList
  <1>11. PublishedInv'
    BY <1>6, <1>7, <1>8, <1>9, <1>10, OthersKept
  <1>12. QED
    BY <1>5, <1>6, <1>7, <1>11

(* The lookups, and the returns (list.hpp:157-180). *)
LEMMA LookupLists ==
    ASSUME PublishedInv, LFInv', NEW t \in Threads,
           \/ BeginLookup(t) \/ EndInsert(t)
           \/ LoadInitTag(t) \/ LoadHead(t) \/ VisitNode(t) \/ EndOfList(t)
    PROVE  PublishedInv' /\ SameLists
  <1> USE DEF At, GoTo
  <1>1. UNCHANGED listVars
    BY DEF BeginLookup, EndInsert, LoadInitTag, LoadHead, VisitNode, EndOfList
  <1>2. ListsInv' /\ SameLists
    BY <1>1, ListsUntouched DEF PublishedInv
  <1>3. /\ \A b \in Buckets : ListNodes(b)' = ListNodes(b) 
        /\ \A p, k : Answer(p, k)' = Answer(p, k)
    BY <1>1, HeapOperators, HeapOperatorsNext DEF listVars
  <1>4. /\ stage \in [Threads -> Stages] /\ op \in [Threads -> Ops \union {NoOp}]
        /\ curr_next \in [Threads -> Pointers \union {Unread}]
        /\ curr \in [Threads -> Pointers]
        /\ HandInv(t) /\ LookInv(t) /\ IdleInv(t) /\ ThreadInv(t)
    BY DEF PublishedInv, LFInv, LFTypes
  <1>5. HandInv(t)' /\ LookInv(t)' /\ IdleInv(t)'
    <2>1. CASE Return(t)
      <3>1. stage'[t] = "none" /\ op'[t] = NoOp /\ curr_next'[t] = Unread
        BY <1>4, <2>1 DEF Return
      <3>2. QED
        BY <3>1 DEF HandInv, LookInv, IdleInv
    <2>2. CASE BeginLookup(t)
      <3>1. stage'[t] = "head"
        BY <1>4, <2>2 DEF BeginLookup
      <3>2. QED
        BY <3>1 DEF HandInv, LookInv, IdleInv
    <2>3. CASE LoadInitTag(t)
      <3>1. stage[t] \in {"head", "node", "end"} /\ UNCHANGED <<op, stage, curr_next, curr>>
        BY <2>3 DEF LoadInitTag
      <3>2. Bucket(t) \in Buckets /\ Bucket(t)' = Bucket(t)
        BY <3>1, BucketExists DEF PublishedInv, Bucket
      <3>3. PICK k, c, n : k = op[t].key /\ c = curr[t] /\ n = curr_next[t]
        OBVIOUS
      <3>4. Answer(curr[t], op[t].key)' = Answer(c, k) /\ Answer(curr_next[t], op[t].key)' = Answer(n, k)
        BY <1>3, <3>1, <3>3
      <3>5. ListNodes(Bucket(t))' = ListNodes(Bucket(t))
        BY <1>3, <3>2
      <3>6. QED
        BY <1>4, <3>1, <3>3, <3>4, <3>5 DEF HandInv, LookInv, IdleInv
    <2>4. CASE ~Return(t) /\ ~BeginLookup(t) /\ ~LoadInitTag(t)
      <3> PICK k : k = op[t].key
        OBVIOUS
      <3>1. PICK b \in Buckets : b = Bucket(t) /\ k = op[t].key
        BY <2>4, BucketExists DEF PublishedInv, EndInsert, LoadHead, VisitNode, EndOfList
      <3>2. op' = op /\ Bucket(t)' = b /\ op'[t].key = k /\ stage[t] \in {"head", "node", "end"}
        BY <2>4, <3>1 DEF Bucket, EndInsert, LoadHead, VisitNode, EndOfList
      <3>3. ListsInv
        BY DEF PublishedInv
      <3>4. ASSUME NEW p \in ListNodes(b) \union {Nil}, Visit(t, p),
                   op[t].fn = "linearizable" =>
                       \E q \in ListNodes(b) \union {Nil} :
                           curr_next'[t] = q /\ Answer(p, k) = Answer(q, k)
            PROVE  HandInv(t)' /\ LookInv(t)' /\ IdleInv(t)'
        <4>1. /\ curr'[t] = p /\ stage'[t] = IF p = Nil THEN "end" ELSE "node"
          BY <1>4, <3>4 DEF Visit
        <4>2. op'[t].fn = "linearizable" =>
                  /\ curr_next'[t] \in ListNodes(Bucket(t))' \union {Nil}
                  /\ Answer(curr[t], op[t].key)' = Answer(curr_next[t], op[t].key)'
          <5>1. ASSUME op[t].fn = "linearizable"
                PROVE  /\ curr_next'[t] \in ListNodes(Bucket(t))' \union {Nil}
                       /\ Answer(curr[t], op[t].key)' = Answer(curr_next[t], op[t].key)'
            <6>1. PICK q \in ListNodes(b) \union {Nil} :
                           curr_next'[t] = q /\ Answer(p, k) = Answer(q, k)
              BY <3>4, <5>1
            <6>2. Answer(p, k)' = Answer(q, k)'
              BY <1>3, <6>1
            <6>3. QED
              BY <1>3, <3>2, <4>1, <6>1, <6>2
          <5>2. QED
            BY <3>2, <5>1
        <4>3. p # Nil => curr'[t] \in ListNodes(Bucket(t))'
          BY <1>3, <3>2, <4>1
        <4>4. QED
          BY <4>1, <4>2, <4>3 DEF HandInv, LookInv, IdleInv
      <3>5. CASE LoadHead(t)
        <4>1. PICK p \in ListNodes(b) \union {Nil} : p = head[b] /\ Visit(t, p)
          BY <3>1, <3>3, <3>5, ListNodesType DEF LoadHead
        <4>2. op[t].fn = "linearizable" => curr_next'[t] = p
          BY <1>4, <3>1, <3>5, <4>1 DEF LoadHead
        <4>3. QED
          BY <3>4, <4>1, <4>2
      <3>6. CASE VisitNode(t)
        <4>1. /\ stage[t] = "node" /\ curr_next' = curr_next
              /\ cell[curr[t]].key # op[t].key /\ Visit(t, cell[curr[t]].next)
          BY <2>4, <3>6 DEF VisitNode
        <4>2. PICK n \in ListNodes(b) : n = curr[t]
          BY <1>4, <3>1, <4>1 DEF LookInv
        <4>3. PICK p \in ListNodes(b) \union {Nil} : p = cell[n].next
          BY <3>3, ListNodesType
        <4>4. Answer(n, k) = Answer(p, k)
          BY <3>1, <3>3, <4>1, <4>2, <4>3, AnswerFromNode
        <4>5. op[t].fn = "linearizable" =>
                  \E q \in ListNodes(b) \union {Nil} :
                      curr_next'[t] = q /\ Answer(p, k) = Answer(q, k)
          BY <1>4, <3>1, <4>1, <4>2, <4>4 DEF LookInv
        <4>6. QED
          BY <3>4, <4>1, <4>2, <4>3, <4>5
      <3>7. CASE EndOfList(t)
        <4>1. /\ stage[t] = "end" /\ curr_next' = curr_next /\ op[t].fn = "linearizable"
              /\ (stage' = [stage EXCEPT ![t] = "head"] /\ curr' = curr) \/ Visit(t, curr_next[t])
          BY <2>4, <3>7 DEF EndOfList
        <4>2. CASE stage' = [stage EXCEPT ![t] = "head"] /\ curr' = curr
          <5>1. stage'[t] = "head"
            BY <1>4, <4>2
          <5>2. QED
            BY <5>1 DEF HandInv, LookInv, IdleInv
        <4>3. CASE Visit(t, curr_next[t])
          <5>1. PICK p \in ListNodes(b) \union {Nil} : p = curr_next[t]
            BY <1>4, <3>1, <4>1 DEF LookInv
          <5>2. QED
            BY <3>4, <4>1, <4>3, <5>1
        <4>4. QED
          BY <4>1, <4>2, <4>3
      <3>8. QED
        BY <2>4, <3>5, <3>6, <3>7 DEF EndInsert
    <2>5. QED
      BY <2>1, <2>2, <2>3, <2>4
  <1>6. \A u \in Threads \ {t} :
            /\ UNCHANGED <<op[u], stage[u], new_node[u], curr_tag[u], curr_next[u], curr[u]>>
            /\ stage[u] = "load" => \A b \in Buckets : new_node[u] \notin ListNodes(b)
    BY StepIsLocal DEF PublishedInv, HandInv, Continue
  <1>7. \A u \in Threads \ {t} : stage[u] = "load" =>
            /\ cell'[new_node[u]] = cell[new_node[u]]
            /\ \A b \in Buckets : new_node[u] \notin ListNodes(b)'
    BY <1>1, <1>3, <1>6 DEF listVars
  <1>8. QED
    BY <1>2, <1>5, <1>6, <1>7, OthersKept, NothingPublished

(* Every step keeps the lists right. *)
LEMMA PublishedStep == PublishedInv /\ LFInv' /\ [Next]_vars => PublishedInv'
  <1> SUFFICES ASSUME PublishedInv, LFInv', [Next]_vars PROVE PublishedInv'
    OBVIOUS
  <1>1. CASE UNCHANGED vars
    <2>1. ListsInv' /\ UNCHANGED <<cell, callVars>>
      BY <1>1, ListsUntouched DEF PublishedInv, vars, listVars
    <2>2. /\ \A b \in Buckets : ListNodes(b)' = ListNodes(b)
          /\ \A p, k : Answer(p, k)' = Answer(p, k)
      BY <1>1, HeapOperators, HeapOperatorsNext DEF vars, listVars
    <2>3. ASSUME NEW t \in Threads PROVE HandInv(t)' /\ LookInv(t)' /\ IdleInv(t)'
      <3>1. HandInv(t) /\ LookInv(t) /\ IdleInv(t)
        BY DEF PublishedInv
      <3>2. stage[t] \in {"node", "end"} => Bucket(t) \in Buckets
        BY BucketExists DEF PublishedInv
      <3>3. HandInv(t)' /\ IdleInv(t)'
        BY <2>1, <2>2, <3>1 DEF HandInv, IdleInv, callVars
      <3>4. LookInv(t)'
        <4>1. PICK b, c, n, k : b = Bucket(t) /\ c = curr[t] /\ n = curr_next[t] /\ k = op[t].key
          OBVIOUS
        <4>2. Bucket(t)' = b /\ curr'[t] = c /\ curr_next'[t] = n /\ op'[t].key = k
          BY <2>1, <4>1 DEF callVars, Bucket
        <4>3. Answer(curr[t], op[t].key)' = Answer(c, k) /\ Answer(curr_next[t], op[t].key)' = Answer(n, k)
          BY <2>2, <4>2
        <4>4. b \in Buckets => ListNodes(Bucket(t))' = ListNodes(b)
          BY <2>2, <4>2
        <4>5. QED
          BY <2>1, <3>1, <3>2, <4>1, <4>2, <4>3, <4>4 DEF LookInv, callVars
      <3>5. QED
        BY <3>1, <3>3, <3>4
    <2>4. QED
      BY <2>1, <2>3 DEF PublishedInv
  <1>2. CASE Next
    BY <1>2, BeginInsertLists, LoadLists, SwapLists, LookupLists DEF Next, Continue
  <1>3. QED
    BY <1>1, <1>2

(* The lists are right in every state. *)
LEMMA PublishedInvariant == Spec => []PublishedInv
  <1>1. Init /\ LFInv => PublishedInv
    BY ListsInit DEF Init, PublishedInv, HandInv, LookInv, IdleInv
  <1>2. QED
    BY <1>1, LFInvariant, PublishedStep, PTL DEF Spec

(* No step writes to a node that a list has (list.hpp:139-152). *)
THEOREM PublishedStaysFixed == Spec => PublishedFixed
  <1>1. ASSUME PublishedInv, [Next]_vars, NEW b \in Buckets, NEW n \in ListNodes(b)
        PROVE  cell'[n] = cell[n]
    <2>1. /\ n \in Nodes /\ n \in live
          /\ cell \in [Nodes -> [key : Keys \union {Junk}, val : Vals \union {Junk}, next : Pointers]]
      BY <1>1, ListNodesType DEF PublishedInv, ListsInv, ListInv, ListTypeOK
    <2>2. CASE cell' = cell
      BY <2>2
    <2>3. ASSUME NEW t \in Threads, BeginInsert(t) PROVE cell'[n] = cell[n]
      BY <2>1, <2>3 DEF BeginInsert, NewNode
    <2>4. ASSUME NEW t \in Threads, LoadNext(t) PROVE cell'[n] = cell[n]
      <3>1. new_node[t] # n
        BY <1>1, <2>4 DEF LoadNext, At, PublishedInv, HandInv
      <3>2. QED
        BY <2>1, <2>4, <3>1 DEF LoadNext
    <2>5. QED
      BY <1>1, <2>2, <2>3, <2>4
         DEF Next, Continue, vars, listVars, BeginLookup, LoadTag, Swap, Publish, EndInsert,
             LoadInitTag, LoadHead, VisitNode, EndOfList
  <1>2. PublishedInv /\ [Next]_vars =>
            [\A b \in Buckets : \A n \in ListNodes(b) : cell'[n] = cell[n]]_vars
    BY <1>1
  <1>3. QED
    BY <1>2, PublishedInvariant, PTL DEF Spec, PublishedFixed

-----------------------------------------------------------------------------
(* Linearizability.                                                        *)

(* The table stays as it is when the lists do. *)
LEMMA SameTable ==
    ASSUME SameLists
    PROVE  tableBar' = tableBar
  <1>1. \A k \in Keys : Stack(k)' = Stack(k)
    BY ListAssumption DEF SameLists, SameList
  <1>2. QED
    BY <1>1 DEF tableBar

(* The newest value of a key is what its bucket's list answers. *)
LEMMA NewestIsAnswer ==
    ASSUME PublishedInv, NEW k \in Keys
    PROVE  Table!Newest(k) = Answer(head[HashOf[k]], k)
  BY AnswerIsNewest DEF PublishedInv, Table!Newest, tableBar

(* What a thread is to answer stays while others make their steps. *)
LEMMA AnswerKept ==
    ASSUME PublishedInv, ListsGrow, NEW u \in Threads,
           UNCHANGED <<op[u], stage[u], curr_next[u], curr[u]>>
    PROVE  answerBar'[u] = answerBar[u]
  <1>1. CASE stage[u] \in {"node", "end"}
    <2> PICK k, c : k = op[u].key /\ c = curr[u]
      OBVIOUS
    <2>1. PICK b \in Buckets : b = Bucket(u) /\ k = op[u].key /\ c = curr[u]
      BY <1>1, BucketExists DEF PublishedInv
    <2>2. c \in ListNodes(b) \union {Nil}
      BY <1>1, <2>1 DEF PublishedInv, LookInv
    <2>3. Answer(c, k)' = Answer(c, k) /\ op'[u].key = k /\ curr'[u] = c
      BY <2>1, <2>2 DEF ListsGrow
    <2>4. Answer(curr[u], op[u].key)' = Answer(curr[u], op[u].key)
      BY <2>1, <2>3
    <2>5. QED
      BY <1>1, <2>4 DEF answerBar
  <1>2. CASE stage[u] \notin {"node", "end"}
    BY <1>2 DEF answerBar
  <1>3. QED
    BY <1>1, <1>2

(* Nobody else's call or answer changes. *)
LEMMA BarsFollow ==
    ASSUME PublishedInv, ListsGrow, NEW t \in Threads,
           BeginInsert(t) \/ BeginLookup(t) \/ Continue(t)
    PROVE  /\ \A a : answerBar'[t] = a => answerBar' = [answerBar EXCEPT ![t] = a]
           /\ \A o : opBar'[t] = o => opBar' = [opBar EXCEPT ![t] = o]
           /\ answerBar'[t] = answerBar[t] => answerBar' = answerBar
           /\ opBar'[t] = opBar[t] => opBar' = opBar
  <1>1. \A u \in Threads \ {t} : UNCHANGED <<op[u], stage[u], curr_next[u], curr[u]>>
    BY StepIsLocal DEF PublishedInv
  <1>2. \A u \in Threads \ {t} : answerBar'[u] = answerBar[u]
    BY <1>1, AnswerKept
  <1>3. \A u \in Threads \ {t} : opBar'[u] = opBar[u]
    BY <1>1 DEF opBar
  <1>4. /\ answerBar = [u \in Threads |-> answerBar[u]] /\ answerBar' = [u \in Threads |-> answerBar'[u]]
        /\ opBar = [u \in Threads |-> opBar[u]] /\ opBar' = [u \in Threads |-> opBar'[u]]
    BY DEF answerBar, opBar
  <1>5. QED
    BY <1>2, <1>3, <1>4

(* A thread's own call and answer. *)
LEMMA OpBarOf ==
    ASSUME NEW t \in Threads
    PROVE  /\ op[t].kind = "lookup" => opBar[t] = [kind |-> "lookup", key |-> op[t].key]
           /\ op'[t].kind = "lookup" => opBar'[t] = [kind |-> "lookup", key |-> op'[t].key]
           /\ op[t].kind = "insert" => opBar[t] = op[t]
           /\ op'[t].kind = "insert" => opBar'[t] = op'[t]
           /\ op[t] = NoOp => opBar[t] = NoOp
           /\ op'[t] = NoOp => opBar'[t] = NoOp
           /\ op[t].kind \in {"insert", "lookup"} => opBar[t] # NoOp
           /\ op'[t] = op[t] => opBar'[t] = opBar[t]
  <1>1. /\ opBar[t] = IF op[t].kind = "lookup" THEN [kind |-> "lookup", key |-> op[t].key] ELSE op[t]
        /\ opBar'[t] = IF op'[t].kind = "lookup" THEN [kind |-> "lookup", key |-> op'[t].key]
                                                 ELSE op'[t]
    BY DEF opBar
  <1>2. NoOp.kind = "none" /\ [kind |-> "lookup", key |-> op[t].key].kind = "lookup"
    BY DEF NoOp
  <1>3. QED
    BY <1>1, <1>2

LEMMA AnswerBarOf ==
    ASSUME NEW t \in Threads
    PROVE  /\ stage[t] = "inserted" => answerBar[t] = TRUE
           /\ stage'[t] = "inserted" => answerBar'[t] = TRUE
           /\ stage[t] \in {"node", "end"} => answerBar[t] = Answer(curr[t], op[t].key)
           /\ stage'[t] \in {"node", "end"} => answerBar'[t] = Answer(curr[t], op[t].key)'
           /\ stage[t] \in {"none", "load"} => answerBar[t] = Pending
           /\ stage'[t] \in {"none", "load"} => answerBar'[t] = Pending
           /\ stage[t] = "head" =>
                  answerBar[t] = IF curr_next[t] = Unread THEN Pending ELSE NotFound
           /\ stage'[t] = "head" =>
                  answerBar'[t] = IF curr_next'[t] = Unread THEN Pending ELSE NotFound
  BY DEF answerBar

(* An insert takes effect at its swap, a lookup when it loads the head:     *)
(* every step is one of HashTable, or none.                                 *)
LEMMA InsertRefines ==
    ASSUME PublishedInv, LFInv', NEW t \in Threads,
           BeginInsert(t) \/ LoadTag(t) \/ LoadNext(t) \/ Swap(t) \/ EndInsert(t)
    PROVE  [Table!Next]_Table!vars
  <1> USE DEF At, GoTo
  <1>1. /\ IdleInv(t) /\ ThreadInv(t)
        /\ stage \in [Threads -> Stages] /\ op \in [Threads -> Ops \union {NoOp}]
    BY DEF PublishedInv, LFInv, LFTypes
  <1>2. CASE BeginInsert(t)
    <2>1. SameLists
      BY <1>2, BeginInsertLists
    <2>2. PICK k \in Keys, v \in Vals :
              op' = [op EXCEPT ![t] = [kind |-> "insert", key |-> k, val |-> v]]
      BY <1>2 DEF BeginInsert
    <2>3. stage[t] = "none" /\ stage' = [stage EXCEPT ![t] = "load"]
      BY <1>2 DEF BeginInsert
    <2>4. op[t] = NoOp /\ op'[t] = [kind |-> "insert", key |-> k, val |-> v] /\ stage'[t] = "load"
      BY <1>1, <2>2, <2>3 DEF IdleInv
    <2>5. opBar[t] = NoOp /\ opBar'[t] = op'[t] /\ answerBar'[t] = answerBar[t]
      <3>1. op'[t].kind = "insert"
        BY <2>4
      <3>2. opBar[t] = NoOp /\ opBar'[t] = op'[t]
        BY <2>4, <3>1, OpBarOf
      <3>3. QED
        BY <2>3, <2>4, <3>2, AnswerBarOf
    <2>6. op'[t] \in Table!Ops
      BY <2>4 DEF Table!Ops
    <2>7. opBar' = [opBar EXCEPT ![t] = op'[t]] /\ answerBar' = answerBar
      BY <1>2, <2>1, <2>5, BarsFollow, NothingPublished
    <2>8. Table!Invoke(t)
      BY <2>1, <2>5, <2>6, <2>7, SameTable DEF Table!Invoke, Table!NoOp, NoOp
    <2>9. QED
      BY <2>8 DEF Table!Next
  <1>3. CASE LoadTag(t) \/ LoadNext(t) \/ (Swap(t) /\ ~SwapSucceeds(t))
    <2>1. SameLists
      BY <1>3, LoadLists
    <2>2. stage[t] = "load" /\ stage' = stage /\ op' = op
      BY <1>3 DEF LoadTag, LoadNext, Swap
    <2>3. opBar'[t] = opBar[t] /\ answerBar'[t] = answerBar[t]
      BY <2>2, OpBarOf, AnswerBarOf
    <2>4. opBar' = opBar /\ answerBar' = answerBar
      BY <1>3, <2>1, <2>3, BarsFollow, NothingPublished DEF Continue
    <2>5. QED
      BY <2>1, <2>4, SameTable DEF Table!vars
  <1>4. CASE Swap(t) /\ SwapSucceeds(t)
    <2>1. PICK k \in Keys : k = op[t].key
      BY <1>4, BucketExists DEF PublishedInv, Swap
    <2>2. /\ ListsGrow
          /\ \A j \in Keys : Stack(j)' = IF j = k THEN <<op[t].val>> \o Stack(j) ELSE Stack(j)
      BY <1>4, <2>1, SwapLists
    <2>3. stage[t] = "load" /\ stage'[t] = "inserted" /\ op' = op
      BY <1>1, <1>4 DEF Swap, Swapped
    <2>4. op[t].kind = "insert" /\ opBar[t] = op[t] /\ opBar'[t] = opBar[t]
          /\ answerBar[t] = Pending /\ answerBar'[t] = TRUE
      BY <1>1, <2>3, OpBarOf, AnswerBarOf DEF ThreadInv
    <2>5. opBar' = opBar /\ answerBar' = [answerBar EXCEPT ![t] = TRUE]
      BY <1>4, <2>2, <2>4, BarsFollow DEF Continue
    <2>6. tableBar' = [tableBar EXCEPT ![k] = <<op[t].val>> \o @]
      BY <2>2 DEF tableBar
    <2>7. Table!Insert(t)
      BY <2>1, <2>4, <2>5, <2>6 DEF Table!Insert
    <2>8. QED
      BY <2>7 DEF Table!Next
  <1>5. CASE EndInsert(t)
    <2>1. SameLists
      BY <1>5, LookupLists
    <2>2. stage[t] = "inserted" /\ stage'[t] = "none" /\ op'[t] = NoOp
      BY <1>1, <1>5 DEF EndInsert, Return
    <2>3. op[t].kind = "insert"
      BY <1>1, <2>2 DEF IdleInv
    <2>4. opBar[t] # NoOp /\ opBar'[t] = NoOp /\ answerBar[t] # Pending /\ answerBar'[t] = Pending
      <3>1. opBar[t] # NoOp /\ opBar'[t] = NoOp
        BY <2>2, <2>3, OpBarOf
      <3>2. QED
        BY <2>2, <3>1, AnswerBarOf, LFHashTableAssumption
    <2>5. opBar' = [opBar EXCEPT ![t] = NoOp] /\ answerBar' = [answerBar EXCEPT ![t] = Pending]
      BY <1>5, <2>1, <2>4, BarsFollow, NothingPublished DEF Continue
    <2>6. Table!Return(t)
      BY <2>1, <2>4, <2>5, SameTable DEF Table!Return, Table!NoOp, NoOp
    <2>7. QED
      BY <2>6 DEF Table!Next
  <1>6. QED
    BY <1>2, <1>3, <1>4, <1>5

LEMMA LookupRefines ==
    ASSUME PublishedInv, LFInv', NEW t \in Threads,
           BeginLookup(t) \/ LoadInitTag(t) \/ LoadHead(t) \/ VisitNode(t) \/ EndOfList(t)
    PROVE  [Table!Next]_Table!vars
  <1> USE DEF At, GoTo
  <1>1. /\ IdleInv(t) /\ ThreadInv(t) /\ LookInv(t)
        /\ stage \in [Threads -> Stages] /\ op \in [Threads -> Ops \union {NoOp}]
        /\ curr \in [Threads -> Pointers] /\ curr_next \in [Threads -> Pointers \union {Unread}]
    BY DEF PublishedInv, LFInv, LFTypes
  <1>2. SameLists /\ ListsGrow /\ tableBar' = tableBar /\ \A p, k : Answer(p, k)' = Answer(p, k)
    <2>1. SameLists
      BY LookupLists
    <2>2. UNCHANGED listVars
      BY DEF BeginLookup, LoadInitTag, LoadHead, VisitNode, EndOfList
    <2>3. \A p, k : Answer(p, k)' = Answer(p, k)
      BY <2>2, HeapOperators, HeapOperatorsNext DEF listVars
    <2>4. QED
      BY <2>1, <2>3, SameTable, NothingPublished
  <1>3. /\ \A a : answerBar'[t] = a => answerBar' = [answerBar EXCEPT ![t] = a]
        /\ \A o : opBar'[t] = o => opBar' = [opBar EXCEPT ![t] = o]
        /\ answerBar'[t] = answerBar[t] => answerBar' = answerBar
        /\ opBar'[t] = opBar[t] => opBar' = opBar
    BY <1>2, BarsFollow DEF Continue
  <1>4. CASE BeginLookup(t)
    <2>1. PICK k \in Keys, f \in Calls[t] \ {"insert"} :
              op' = [op EXCEPT ![t] = [kind |-> "lookup", key |-> k, fn |-> f]]
      BY <1>4 DEF BeginLookup
    <2>2. stage[t] = "none" /\ stage' = [stage EXCEPT ![t] = "head"] /\ curr_next' = curr_next
      BY <1>4 DEF BeginLookup
    <2>3. op'[t].kind = "lookup" /\ op'[t].key = k /\ stage'[t] = "head"
      BY <1>1, <2>1, <2>2
    <2>4. op[t] = NoOp /\ curr_next'[t] = Unread
      BY <1>1, <2>2 DEF IdleInv
    <2>5. opBar[t] = NoOp /\ opBar'[t] = [kind |-> "lookup", key |-> k] /\ answerBar'[t] = answerBar[t]
      <3>1. opBar[t] = NoOp /\ opBar'[t] = [kind |-> "lookup", key |-> k]
        BY <2>3, <2>4, OpBarOf
      <3>2. QED
        BY <2>2, <2>3, <2>4, <3>1, AnswerBarOf
    <2>6. Table!Invoke(t)
      BY <1>2, <1>3, <2>5 DEF Table!Invoke, Table!NoOp, Table!Ops, NoOp
    <2>7. QED
      BY <2>6 DEF Table!Next
  <1>5. CASE LoadInitTag(t)
    <2>1. stage[t] \in {"head", "node", "end"} /\ UNCHANGED <<op, stage, curr_next, curr>>
      BY <1>5 DEF LoadInitTag
    <2>2. \A u \in Threads : answerBar'[u] = answerBar[u]
      BY <1>2, <2>1, AnswerKept
    <2>3. opBar' = opBar /\ answerBar' = answerBar
      BY <2>1, <2>2 DEF opBar, answerBar
    <2>4. QED
      BY <1>2, <2>3 DEF Table!vars
  <1>6. CASE ~BeginLookup(t) /\ ~LoadInitTag(t)
    <2>1. PICK b \in Buckets, k \in Keys : b = Bucket(t) /\ k = op[t].key /\ b = HashOf[k]
      BY <1>6, BucketExists DEF PublishedInv, LoadHead, VisitNode, EndOfList, Bucket
    <2>2. op[t].kind = "lookup" /\ opBar[t] = [kind |-> "lookup", key |-> k]
      BY <1>1, <1>6, <2>1, OpBarOf, AnswerBarOf DEF ThreadInv, LoadHead, VisitNode, EndOfList
    <2>3. ASSUME op' = op, NEW p, Visit(t, p)
          PROVE  /\ opBar' = opBar /\ answerBar' = [answerBar EXCEPT ![t] = Answer(p, k)]
                 /\ answerBar[t] = Answer(p, k) => answerBar' = answerBar
      <3>1. curr'[t] = p /\ stage'[t] \in {"node", "end"}
        BY <1>1, <2>3 DEF Visit
      <3>2. Answer(curr[t], op[t].key)' = Answer(p, k)
        BY <1>2, <2>1, <2>3, <3>1
      <3>3. answerBar'[t] = Answer(p, k) /\ opBar'[t] = opBar[t]
        BY <2>3, <3>1, <3>2, OpBarOf, AnswerBarOf
      <3>4. QED
        BY <1>3, <3>3
    <2>4. ASSUME Return(t), answerBar[t] # Pending PROVE Table!Next
      <3>1. op'[t] = NoOp /\ stage'[t] = "none"
        BY <1>1, <2>4 DEF Return
      <3>2. opBar'[t] = NoOp /\ answerBar'[t] = Pending
        BY <3>1, OpBarOf, AnswerBarOf
      <3>3. opBar[t] # NoOp
        BY <2>2, OpBarOf
      <3>4. Table!Return(t)
        BY <1>2, <1>3, <2>4, <3>2, <3>3 DEF Table!Return, Table!NoOp, NoOp
      <3>5. QED
        BY <3>4 DEF Table!Next
    <2>5. CASE LoadHead(t)
      <3>1. op' = op /\ Visit(t, head[b])
        BY <2>1, <2>5 DEF LoadHead
      <3>2. PICK p : p = head[b]
        OBVIOUS
      <3>3. opBar' = opBar /\ answerBar' = [answerBar EXCEPT ![t] = Answer(p, k)]
        BY <2>3, <3>1, <3>2
      <3>4. Table!Newest(k) = Answer(p, k)
        BY <2>1, <3>2, NewestIsAnswer
      <3>5. Table!Lookup(t)
        BY <1>2, <2>2, <3>3, <3>4 DEF Table!Lookup
      <3>6. QED
        BY <3>5 DEF Table!Next
    <2>6. CASE VisitNode(t)
      <3>1. PICK n \in ListNodes(b) : n = curr[t]
        BY <1>1, <2>1, <2>6 DEF VisitNode, LookInv
      <3>2. answerBar[t] = Answer(n, k)
        BY <2>1, <2>6, <3>1, OpBarOf, AnswerBarOf DEF VisitNode
      <3>3. Answer(n, k) = IF cell[n].key = k THEN cell[n].val ELSE Answer(cell[n].next, k)
        BY AnswerFromNode DEF PublishedInv
      <3>4. CASE cell[n].key = k
        <4>1. cell[n].val \in Vals
          BY <2>1 DEF PublishedInv, ListsInv, ListInv
        <4>2. QED
          BY <2>1, <2>4, <2>6, <3>1, <3>2, <3>3, <3>4, <4>1, LFHashTableAssumption DEF VisitNode
      <3>5. CASE cell[n].key # k
        <4>1. PICK p : p = cell[n].next
          OBVIOUS
        <4>2. op' = op /\ Visit(t, p)
          BY <2>1, <2>6, <3>1, <3>5, <4>1 DEF VisitNode
        <4>3. answerBar[t] = Answer(p, k)
          BY <3>2, <3>3, <3>5, <4>1
        <4>4. opBar' = opBar /\ answerBar' = answerBar
          BY <2>3, <4>2, <4>3
        <4>5. QED
          BY <1>2, <4>4 DEF Table!vars
      <3>6. QED
        BY <3>4, <3>5
    <2>7. CASE EndOfList(t)
      <3>1. answerBar[t] = NotFound /\ stage[t] = "end"
        <4>1. stage[t] = "end" /\ curr[t] = Nil
          BY <1>1, <2>7 DEF EndOfList, LookInv
        <4>2. Answer(Nil, k) = NotFound
          BY AnswerAtEnd DEF PublishedInv
        <4>3. QED
          BY <2>1, <4>1, <4>2, OpBarOf, AnswerBarOf
      <3>2. CASE op[t].fn = "linearizable" => tag[Bucket(t)] = curr_tag[t]
        BY <2>4, <2>7, <3>1, <3>2, LFHashTableAssumption DEF EndOfList
      <3>3. CASE ~(op[t].fn = "linearizable" => tag[Bucket(t)] = curr_tag[t])
        <4>1. /\ (stage' = [stage EXCEPT ![t] = "head"] /\ curr' = curr) \/ Visit(t, curr_next[t])
              /\ op' = op /\ curr_next' = curr_next
          BY <2>7, <3>3 DEF EndOfList
        <4>2. opBar'[t] = opBar[t]
          BY <4>1, OpBarOf, AnswerBarOf
        <4>3. CASE stage' = [stage EXCEPT ![t] = "head"] /\ curr' = curr
          <5>1. stage'[t] = "head" /\ curr_next'[t] # Unread
            BY <1>1, <3>1, <3>3, <4>1, <4>3 DEF ThreadInv
          <5>2. answerBar'[t] = answerBar[t]
            BY <3>1, <5>1, OpBarOf, AnswerBarOf
          <5>3. QED
            BY <1>2, <1>3, <4>2, <5>2 DEF Table!vars
        <4>4. CASE Visit(t, curr_next[t])
          <5>1. PICK p : p = curr_next[t]
            OBVIOUS
          <5>2. Answer(p, k) = NotFound
            <6>1. Answer(curr[t], k) = Answer(p, k) /\ curr[t] = Nil
              BY <1>1, <2>1, <3>1, <3>3, <5>1 DEF LookInv
            <6>2. QED
              BY <6>1, AnswerAtEnd DEF PublishedInv
          <5>3. answerBar' = answerBar /\ opBar' = opBar
            BY <2>3, <3>1, <4>1, <4>4, <5>1, <5>2
          <5>4. QED
            BY <1>2, <5>3 DEF Table!vars
        <4>5. QED
          BY <4>1, <4>3, <4>4
      <3>4. QED
        BY <3>2, <3>3
    <2>8. QED
      BY <1>6, <2>5, <2>6, <2>7
  <1>7. QED
    BY <1>4, <1>5, <1>6

(* Concurrent inserts lose no node, and both lookups answer as if they had  *)
(* been made at one moment between call and return (list.hpp:133-180).      *)
THEOREM LFTableIsLinearizable == Spec => Linearizable
  <1>1. Init => Table!Init
    <2> SUFFICES ASSUME Init PROVE Table!Init
      OBVIOUS
    <2>1. \A k \in Keys : Stack(k) = <<>>
      BY ListsInit DEF Init
    <2>2. \A t \in Threads : opBar[t] = NoOp /\ answerBar[t] = Pending
      BY OpBarOf, AnswerBarOf DEF Init
    <2>3. QED
      BY <2>1, <2>2 DEF Table!Init, Table!NoOp, NoOp, tableBar, opBar, answerBar
  <1>2. PublishedInv /\ LFInv' /\ [Next]_vars => [Table!Next]_Table!vars
    <2> SUFFICES ASSUME PublishedInv, LFInv', [Next]_vars PROVE [Table!Next]_Table!vars
      OBVIOUS
    <2>1. CASE UNCHANGED vars
      <3>1. SameLists /\ UNCHANGED <<op, stage, curr_next, curr>>
        BY <2>1, ListsUntouched DEF PublishedInv, vars, callVars
      <3>2. \A t \in Threads : answerBar'[t] = answerBar[t]
        BY <3>1, AnswerKept, NothingPublished
      <3>3. opBar' = opBar /\ answerBar' = answerBar
        BY <3>1, <3>2 DEF opBar, answerBar
      <3>4. QED
        BY <3>1, <3>3, SameTable DEF Table!vars
    <2>2. CASE Next
      BY <2>2, InsertRefines, LookupRefines DEF Next, Continue
    <2>3. QED
      BY <2>1, <2>2
  <1>3. QED
    BY <1>1, <1>2, PublishedInvariant, LFInvariant, PTL DEF Spec, Linearizable, Table!Spec
=============================================================================
