-------------------------- MODULE NamespaceProofs --------------------------
(***************************************************************************)
(* The namespace, for any number of names, nodes and values, paths of any   *)
(* depth and transactions of any length: the nodes stay a tree, the type    *)
(* index stays what a walk would find, and every operation does to the tree *)
(* of paths what NamespaceTree says.                                        *)
(***************************************************************************)
EXTENDS Namespace, MaxProofs, FiniteSetTheorems, SequenceTheorems

-----------------------------------------------------------------------------
(* Paths *)

(* A path is a sequence of names of bounded length. *)
LEMMA PathType ==
    ASSUME NEW p \in Paths
    PROVE  /\ p \in Seq(Names) /\ Len(p) \in 0..MaxDepth
           /\ Len(p) = 0 => p = <<>>
<1>1. PICK n \in 0..MaxDepth : p \in [1..n -> Names]
  BY DEF Paths
<1>2. MaxDepth \in Nat
  BY ConstantAssumption
<1>3. p \in Seq(Names) /\ Len(p) = n
  BY <1>1, <1>2
<1> QED BY <1>1, <1>2, <1>3, EmptySeq

(* The root is a path. *)
LEMMA RootPath == <<>> \in Paths /\ Len(<<>>) = 0
<1>1. 0 \in 0..MaxDepth
  BY ConstantAssumption
<1>2. <<>> \in [1..0 -> Names]
  OBVIOUS
<1> QED BY <1>1, <1>2 DEF Paths

(* A path but the root is its parent and a name. *)
LEMMA ParentType ==
    ASSUME NEW p \in Paths, p # <<>>
    PROVE  /\ parent(p) \in Paths /\ name(p) \in Names
           /\ Len(parent(p)) \in Nat /\ Len(p) = Len(parent(p)) + 1
           /\ \A i \in 1..(Len(p) - 1) : p[i] = parent(p)[i]
<1>1. p \in Seq(Names) /\ Len(p) \in 0..MaxDepth /\ Len(p) # 0 /\ MaxDepth \in Nat
  BY PathType, ConstantAssumption
<1> DEFINE n == Len(p) - 1
           q == SubSeq(p, 1, n)
<1>2. n \in 0..MaxDepth /\ n \in Nat /\ Len(p) = n + 1
  BY <1>1
<1>3. /\ q \in Seq(Names) /\ Len(q) = n
      /\ \A i \in 1..n : q[i] = p[i]
  BY <1>1, <1>2
<1>4. q \in [1..n -> Names]
  <2> HIDE DEF q, n
  <2> QED BY <1>2, <1>3
<1>5. q \in Paths
  <2> HIDE DEF q, n
  <2> QED BY <1>2, <1>4 DEF Paths
<1>6. p[Len(p)] \in Names
  BY <1>1
<1> QED BY <1>2, <1>3, <1>5, <1>6 DEF parent, name

(* No two paths have the same parent and name. *)
LEMMA ParentNameUnique ==
    ASSUME NEW p \in Paths, NEW q \in Paths, p # <<>>, q # <<>>,
           parent(p) = parent(q), name(p) = name(q)
    PROVE  p = q
<1>1. /\ p \in Seq(Names) /\ q \in Seq(Names) /\ Len(p) \in Nat /\ Len(q) \in Nat
      /\ Len(p) = Len(q)
  BY PathType, ParentType
<1>2. \A i \in 1..(Len(p) - 1) : p[i] = q[i]
  BY <1>1, ParentType
<1>3. p[Len(p)] = q[Len(p)]
  BY <1>1 DEF name
<1>4. \A i \in 1..Len(p) : p[i] = q[i]
  BY <1>1, <1>2, <1>3
<1> QED BY <1>1, <1>4, SeqEqual

-----------------------------------------------------------------------------
(* Walking *)

(* Where w, having reached the parent, gets to at p. *)
WalkStep(kv, w, p) ==
    IF p = <<>> THEN ROOT_ID
    ELSE IF w[parent(p)] = Absent THEN Absent
    ELSE kv[child_key(w[parent(p)], name(p))]

UpTo(n) == {p \in Paths : Len(p) <= n}
IsWalk(kv, w, n) == w = [p \in UpTo(n) |-> WalkStep(kv, w, p)]

(* A walk of some depth goes one level deeper. *)
LEMMA WalkDeeper ==
    ASSUME NEW kv, NEW n \in Nat, NEW w, IsWalk(kv, w, n)
    PROVE  \E v : IsWalk(kv, v, n + 1)
<1> DEFINE v == [p \in UpTo(n + 1) |-> IF p \in UpTo(n) THEN w[p] ELSE WalkStep(kv, w, p)]
<1>1. \A p \in Paths : Len(p) \in Nat
  BY PathType, ConstantAssumption
<1>2. UpTo(n) \subseteq UpTo(n + 1)
  BY <1>1 DEF UpTo
<1>3. \A p \in UpTo(n + 1) : p # <<>> => parent(p) \in UpTo(n) /\ parent(p) \in UpTo(n + 1)
  BY <1>1, ParentType DEF UpTo
<1>4. \A p \in UpTo(n + 1) : p # <<>> => v[parent(p)] = w[parent(p)]
  BY <1>2, <1>3
<1>5. \A p \in UpTo(n) : w[p] = WalkStep(kv, w, p)
  BY DEF IsWalk
<1>6. \A p \in UpTo(n + 1) : v[p] = WalkStep(kv, w, p)
  BY <1>5
<1>7. \A p \in UpTo(n + 1) : v[p] = WalkStep(kv, v, p)
  <2> HIDE DEF v
  <2> QED BY <1>4, <1>6 DEF WalkStep
<1>8. v = [p \in UpTo(n + 1) |-> WalkStep(kv, v, p)]
  <2>1. v = [p \in UpTo(n + 1) |-> v[p]]
    OBVIOUS
  <2> HIDE DEF v
  <2> QED BY <1>7, <2>1
<1> QED BY <1>8 DEF IsWalk

(* Resolving the paths up to a length has an outcome, each from the outcome  *)
(* of its parent: the recursion of walk is well defined.                     *)
LEMMA WalkExists ==
    ASSUME NEW kv, NEW n \in Nat
    PROVE  \E w : IsWalk(kv, w, n)
<1> DEFINE Bad == {k \in Nat : ~\E w : IsWalk(kv, w, k)}
<1>1. SUFFICES ASSUME Bad # {} PROVE FALSE
  OBVIOUS
<1>2. PICK m \in Bad : \A k \in Bad : m <= k
  BY <1>1, MinExists
<1>3. CASE m = 0
  <2> DEFINE w == [p \in UpTo(0) |-> ROOT_ID]
  <2>1. UpTo(0) \subseteq {<<>>}
    BY PathType, ConstantAssumption DEF UpTo
  <2>2. \A p \in UpTo(0) : WalkStep(kv, w, p) = ROOT_ID
    BY <2>1 DEF WalkStep
  <2>3. IsWalk(kv, w, 0)
    BY <2>2 DEF IsWalk
  <2> QED BY <2>3, <1>3, <1>2
<1>4. CASE m # 0
  <2>1. m - 1 \in Nat /\ m - 1 \notin Bad
    BY <1>2, <1>4
  <2>2. PICK w : IsWalk(kv, w, m - 1)
    BY <2>1
  <2>3. \E v : IsWalk(kv, v, (m - 1) + 1)
    BY <2>1, <2>2, WalkDeeper
  <2>4. (m - 1) + 1 = m
    BY <1>2
  <2> QED BY <2>3, <2>4, <1>2
<1> QED BY <1>3, <1>4

(* Every path is within the greatest depth. *)
LEMMA AllPaths == UpTo(MaxDepth) = Paths
BY PathType, ConstantAssumption DEF UpTo

(* walk goes down the child entries from the root. *)
LEMMA WalkDef ==
    ASSUME NEW kv
    PROVE  /\ DOMAIN walk(kv) = Paths /\ walk(kv) = [p \in Paths |-> walk(kv)[p]]
           /\ \A p \in Paths : walk(kv)[p] = WalkStep(kv, walk(kv), p)
<1>1. MaxDepth \in Nat
  BY ConstantAssumption
<1>2. PICK w : IsWalk(kv, w, MaxDepth)
  BY <1>1, WalkExists
<1>3. w = [p \in Paths |-> WalkStep(kv, w, p)]
  BY <1>2, AllPaths DEF IsWalk
<1>4. walk(kv) = [p \in Paths |-> WalkStep(kv, walk(kv), p)]
  <2> DEFINE Is(v) == v = [p \in Paths |-> WalkStep(kv, v, p)]
  <2>1. walk(kv) = CHOOSE v : Is(v)
    BY DEF walk, WalkStep
  <2>2. Is(w)
    BY <1>3
  <2> HIDE DEF Is
  <2>3. Is(walk(kv))
    BY <2>1, <2>2
  <2> QED BY <2>3 DEF Is
<1>5. /\ DOMAIN walk(kv) = Paths
      /\ \A p \in Paths : walk(kv)[p] = WalkStep(kv, walk(kv), p)
  BY <1>4
<1>6. walk(kv) = [p \in Paths |-> walk(kv)[p]]
  BY <1>4, <1>5
<1> QED BY <1>5, <1>6

(* It is the only function that does. *)
LEMMA WalkUnique ==
    ASSUME NEW kv, NEW w, DOMAIN w = Paths, w = [p \in Paths |-> w[p]],
           \A p \in Paths : w[p] = WalkStep(kv, w, p)
    PROVE  walk(kv) = w
<1> DEFINE v == walk(kv)
           Bad == {n \in Nat : \E p \in Paths : Len(p) = n /\ v[p] # w[p]}
<1>0. /\ DOMAIN v = Paths /\ v = [p \in Paths |-> v[p]]
      /\ \A p \in Paths : v[p] = WalkStep(kv, v, p)
  BY WalkDef
<1> HIDE DEF v
<1>1. \A p \in Paths : Len(p) \in Nat
  BY PathType, ConstantAssumption
<1>2. Bad = {}
  <2>1. SUFFICES ASSUME Bad # {} PROVE FALSE
    OBVIOUS
  <2>2. PICK m \in Bad : \A k \in Bad : m <= k
    BY <2>1, MinExists
  <2>3. PICK p \in Paths : Len(p) = m /\ v[p] # w[p]
    BY <2>2
  <2>4. p # <<>>
    BY <2>3, <1>0 DEF WalkStep
  <2>5. parent(p) \in Paths /\ Len(parent(p)) \in Nat /\ Len(parent(p)) < m
    BY <2>3, <2>4, <1>1, ParentType
  <2>6. v[parent(p)] = w[parent(p)]
    <3>1. Len(parent(p)) \notin Bad
      BY <2>2, <2>5
    <3> QED BY <3>1, <2>5
  <2> QED BY <2>3, <2>4, <2>6, <1>0 DEF WalkStep
<1>3. \A p \in Paths : v[p] = w[p]
  BY <1>1, <1>2
<1>4. v = w
  BY <1>0, <1>3
<1> QED BY <1>4 DEF v

-----------------------------------------------------------------------------
(* Keys and batches *)

(* The keys that the operations write are keys of the store. *)
LEMMA KeyTypes ==
    /\ meta_next_id \in StoreKeys /\ meta_version \in StoreKeys
    /\ \A id \in Ids : node_key(id) \in StoreKeys
    /\ \A id \in Ids, n \in Names : child_key(id, n) \in StoreKeys
    /\ \A ty \in Types, id \in Ids :
          type_index_key(ty, id) \in StoreKeys /\ type_index_key(ty, id) \in IndexKeys
BY DEF StoreKeys, IndexKeys

(* A key of the index is that of a type and an id. *)
LEMMA IndexKeyForm ==
    ASSUME NEW k \in IndexKeys
    PROVE  \E ty \in Types, id \in Ids : k = type_index_key(ty, id)
BY DEF IndexKeys

(* What a batch of entries leaves under a key. *)
LEMMA CommitAt ==
    ASSUME NEW kv, NEW batch
    PROVE  /\ IsStore(Commit(kv, batch))
           /\ \A k \in StoreKeys :
                 Commit(kv, batch)[k] = IF k \in DOMAIN batch THEN batch[k] ELSE kv[k]
BY DEF Commit, IsStore

(* A batch over another one is committed after it. *)
LEMMA CommitTwice ==
    ASSUME NEW kv, NEW b, NEW c
    PROVE  Commit(kv, c ++ b) = Commit(Commit(kv, b), c)
BY DEF Commit, ++

(* An empty batch changes nothing. *)
LEMMA CommitNothing ==
    ASSUME NEW kv, IsStore(kv)
    PROVE  Commit(kv, <<>>) = kv
BY DEF Commit, IsStore

(* What the store holds once alloc_id and the entries of a new node are      *)
(* committed: no other key has changed.                                      *)
LEMMA NewNodeEntries ==
    ASSUME NEW kv, NEW path, NEW rec, NEW dir \in Ids, NEW id \in Ids,
           kv[meta_next_id] = id, resolve(kv, parent(path)) = dir
    PROVE  LET kv2 == Commit(kv, NewNode(kv, path, rec)) IN
           /\ IsStore(kv2)
           /\ kv2[meta_next_id] = id + 1
           /\ kv2[meta_version] = kv[meta_version]
           /\ \A i \in Ids : kv2[node_key(i)] = IF i = id THEN rec ELSE kv[node_key(i)]
           /\ \A i \in Ids, n \in Names : kv2[child_key(i, n)] =
                 IF i = dir /\ n = name(path) THEN id ELSE kv[child_key(i, n)]
           /\ \A ty \in Types, i \in Ids : kv2[type_index_key(ty, i)] =
                 IF i = id /\ ty = rec.ty THEN path ELSE kv[type_index_key(ty, i)]
<1> DEFINE batch == Put(meta_next_id, id + 1) ++ Put(node_key(id), rec)
                      ++ Put(child_key(dir, name(path)), id) ++ Put(type_index_key(rec.ty, id), path)
           kv2 == Commit(kv, batch)
<1>1. NewNode(kv, path, rec) = batch
  BY DEF NewNode
<1>2. DOMAIN batch = {meta_next_id, node_key(id), child_key(dir, name(path)), type_index_key(rec.ty, id)}
  BY DEF Put, ++
<1>3. /\ batch[meta_next_id] = id + 1
      /\ batch[node_key(id)] = rec
      /\ batch[child_key(dir, name(path))] = id
      /\ batch[type_index_key(rec.ty, id)] = path
  BY DEF Put, ++, meta_next_id, node_key, child_key, type_index_key
<1>4. /\ IsStore(kv2)
      /\ \A k \in StoreKeys : kv2[k] = IF k \in DOMAIN batch THEN batch[k] ELSE kv[k]
  BY CommitAt
<1> HIDE DEF batch, kv2
<1>5. kv2[meta_next_id] = id + 1 /\ kv2[meta_version] = kv[meta_version]
  BY <1>2, <1>3, <1>4, KeyTypes
     DEF meta_next_id, meta_version, node_key, child_key, type_index_key
<1>6. \A i \in Ids : kv2[node_key(i)] = IF i = id THEN rec ELSE kv[node_key(i)]
  BY <1>2, <1>3, <1>4, KeyTypes
     DEF meta_next_id, meta_version, node_key, child_key, type_index_key
<1>7. \A i \in Ids, n \in Names : kv2[child_key(i, n)] =
          IF i = dir /\ n = name(path) THEN id ELSE kv[child_key(i, n)]
  BY <1>2, <1>3, <1>4, KeyTypes
     DEF meta_next_id, meta_version, node_key, child_key, type_index_key
<1>8. \A ty \in Types, i \in Ids : kv2[type_index_key(ty, i)] =
          IF i = id /\ ty = rec.ty THEN path ELSE kv[type_index_key(ty, i)]
  BY <1>2, <1>3, <1>4, KeyTypes
     DEF meta_next_id, meta_version, node_key, child_key, type_index_key
<1> QED BY <1>1, <1>4, <1>5, <1>6, <1>7, <1>8 DEF kv2

(* What the store holds once set has replaced a value: links and ids are as  *)
(* they were, the old type has lost its index entry.                         *)
LEMMA ReplaceEntries ==
    ASSUME NEW kv, NEW path, NEW value, NEW id \in Ids, resolve(kv, path) = id
    PROVE  LET kv2 == Commit(kv, Replace(kv, path, value)) IN
           /\ IsStore(kv2)
           /\ kv2[meta_next_id] = kv[meta_next_id]
           /\ kv2[meta_version] = kv[meta_version]
           /\ \A i \in Ids : kv2[node_key(i)] = IF i = id THEN value ELSE kv[node_key(i)]
           /\ \A i \in Ids, n \in Names : kv2[child_key(i, n)] = kv[child_key(i, n)]
           /\ \A ty \in Types, i \in Ids : kv2[type_index_key(ty, i)] =
                 IF i = id /\ ty = value.ty THEN path
                 ELSE IF i = id /\ ty = kv[node_key(id)].ty THEN Absent
                 ELSE kv[type_index_key(ty, i)]
<1> DEFINE old == kv[node_key(id)].ty
           batch == Put(node_key(id), value) ++ Put(type_index_key(value.ty, id), path)
                      ++ Put(type_index_key(old, id), Absent)
           kv2 == Commit(kv, batch)
<1>1. Replace(kv, path, value) = batch
  BY DEF Replace
<1> HIDE DEF old
<1>2. DOMAIN batch = {node_key(id), type_index_key(value.ty, id), type_index_key(old, id)}
  BY DEF Put, ++
<1>3. /\ batch[node_key(id)] = value
      /\ batch[type_index_key(value.ty, id)] = path
      /\ old # value.ty => batch[type_index_key(old, id)] = Absent
  BY DEF Put, ++, node_key, type_index_key
<1>4. /\ IsStore(kv2)
      /\ \A k \in StoreKeys : kv2[k] = IF k \in DOMAIN batch THEN batch[k] ELSE kv[k]
  BY CommitAt
<1> HIDE DEF batch, kv2
<1>5. kv2[meta_next_id] = kv[meta_next_id] /\ kv2[meta_version] = kv[meta_version]
  BY <1>2, <1>3, <1>4, KeyTypes
     DEF meta_next_id, meta_version, node_key, child_key, type_index_key
<1>6. \A i \in Ids : kv2[node_key(i)] = IF i = id THEN value ELSE kv[node_key(i)]
  BY <1>2, <1>3, <1>4, KeyTypes
     DEF meta_next_id, meta_version, node_key, child_key, type_index_key
<1>7. \A i \in Ids, n \in Names : kv2[child_key(i, n)] = kv[child_key(i, n)]
  BY <1>2, <1>3, <1>4, KeyTypes
     DEF meta_next_id, meta_version, node_key, child_key, type_index_key
<1>8. \A ty \in Types, i \in Ids : kv2[type_index_key(ty, i)] =
          IF i = id /\ ty = value.ty THEN path
          ELSE IF i = id /\ ty = old THEN Absent
          ELSE kv[type_index_key(ty, i)]
  BY <1>2, <1>3, <1>4, KeyTypes
     DEF meta_next_id, meta_version, node_key, child_key, type_index_key
<1> QED BY <1>1, <1>4, <1>5, <1>6, <1>7, <1>8 DEF kv2, old

(* What the store holds once delete has removed a node: its record, the      *)
(* child entry and the index entry are gone, nothing else.                   *)
LEMMA UnlinkEntries ==
    ASSUME NEW kv, NEW path, NEW id \in Ids, NEW dir \in Ids,
           resolve(kv, path) = id, resolve(kv, parent(path)) = dir
    PROVE  LET kv2 == Commit(kv, Unlink(kv, path)) IN
           /\ IsStore(kv2)
           /\ kv2[meta_next_id] = kv[meta_next_id]
           /\ kv2[meta_version] = kv[meta_version]
           /\ \A i \in Ids : kv2[node_key(i)] = IF i = id THEN Absent ELSE kv[node_key(i)]
           /\ \A i \in Ids, n \in Names : kv2[child_key(i, n)] =
                 IF i = dir /\ n = name(path) THEN Absent ELSE kv[child_key(i, n)]
           /\ \A ty \in Types, i \in Ids : kv2[type_index_key(ty, i)] =
                 IF i = id /\ ty = kv[node_key(id)].ty THEN Absent
                 ELSE kv[type_index_key(ty, i)]
<1> DEFINE old == kv[node_key(id)].ty
           batch == Put(type_index_key(old, id), Absent)
                      ++ Put(child_key(dir, name(path)), Absent) ++ Put(node_key(id), Absent)
           kv2 == Commit(kv, batch)
<1>1. Unlink(kv, path) = batch
  BY DEF Unlink
<1> HIDE DEF old
<1>2. DOMAIN batch = {type_index_key(old, id), child_key(dir, name(path)), node_key(id)}
  BY DEF Put, ++
<1>3. \A k \in DOMAIN batch : batch[k] = Absent
  BY DEF Put, ++, node_key, child_key, type_index_key
<1>4. /\ IsStore(kv2)
      /\ \A k \in StoreKeys : kv2[k] = IF k \in DOMAIN batch THEN batch[k] ELSE kv[k]
  BY CommitAt
<1> HIDE DEF batch, kv2
<1>5. kv2[meta_next_id] = kv[meta_next_id] /\ kv2[meta_version] = kv[meta_version]
  BY <1>2, <1>3, <1>4, KeyTypes
     DEF meta_next_id, meta_version, node_key, child_key, type_index_key
<1>6. \A i \in Ids : kv2[node_key(i)] = IF i = id THEN Absent ELSE kv[node_key(i)]
  BY <1>2, <1>3, <1>4, KeyTypes
     DEF meta_next_id, meta_version, node_key, child_key, type_index_key
<1>7. \A i \in Ids, n \in Names : kv2[child_key(i, n)] =
          IF i = dir /\ n = name(path) THEN Absent ELSE kv[child_key(i, n)]
  BY <1>2, <1>3, <1>4, KeyTypes
     DEF meta_next_id, meta_version, node_key, child_key, type_index_key
<1>8. \A ty \in Types, i \in Ids : kv2[type_index_key(ty, i)] =
          IF i = id /\ ty = old THEN Absent ELSE kv[type_index_key(ty, i)]
  BY <1>2, <1>3, <1>4, KeyTypes
     DEF meta_next_id, meta_version, node_key, child_key, type_index_key
<1> QED BY <1>1, <1>4, <1>5, <1>6, <1>7, <1>8 DEF kv2, old

-----------------------------------------------------------------------------
(* The tree of nodes *)

(* Ids are numbers, and Absent is none of them. *)
LEMMA IdsAreNumbers == Ids \subseteq Nat /\ ROOT_ID \in Ids /\ ROOT_ID = 1 /\ Absent \notin Ids /\ MaxId \in Nat
BY ConstantAssumption, ValueAssumption DEF Ids, ROOT_ID

(* Linked, entry by entry: a child entry leads from a directory to a node,   *)
(* no two lead to the same one, and one leads to each.                       *)
EntriesLead(kv) ==
    \A i \in Ids, n \in Names : kv[child_key(i, n)] # Absent =>
        /\ kv[child_key(i, n)] \in Ids /\ kv[child_key(i, n)] # ROOT_ID
        /\ Live(kv, kv[child_key(i, n)])
        /\ Live(kv, i) /\ IsDir(kv[node_key(i)])
EntriesDiffer(kv) ==
    \A i, j \in Ids, n, m \in Names :
        (kv[child_key(i, n)] # Absent /\ kv[child_key(i, n)] = kv[child_key(j, m)]) => i = j /\ n = m
NodesHaveEntries(kv) ==
    \A id \in Ids : (Live(kv, id) /\ id # ROOT_ID) =>
        /\ id < kv[meta_next_id]
        /\ \E i \in Ids, n \in Names : kv[child_key(i, n)] = id

(* The tree of nodes, entry by entry: child entries lead to live nodes, two  *)
(* of them never to the same one, and every node but the root has one.       *)
LEMMA LinkedEntries ==
    ASSUME NEW kv, StoreType(kv)
    PROVE  Linked(kv) <=> EntriesLead(kv) /\ EntriesDiffer(kv) /\ NodesHaveEntries(kv)
<1>0. \A i \in Ids, n \in Names : kv[child_key(i, n)] # Absent => kv[child_key(i, n)] \in Ids
  BY DEF StoreType
<1>1. \A id \in Ids, i \in Ids, n \in Names : <<i, n>> \in Links(kv, id) <=> kv[child_key(i, n)] = id
  BY DEF Links
<1>2. \A id \in Ids : \A l \in Links(kv, id) : l = <<l[1], l[2]>> /\ l[1] \in Ids /\ l[2] \in Names
  BY DEF Links
<1>3. ASSUME Linked(kv) PROVE EntriesLead(kv) /\ EntriesDiffer(kv) /\ NodesHaveEntries(kv)
  <2>1. ASSUME NEW i \in Ids, NEW n \in Names, kv[child_key(i, n)] # Absent
        PROVE  /\ kv[child_key(i, n)] \in Ids /\ kv[child_key(i, n)] # ROOT_ID
               /\ Live(kv, kv[child_key(i, n)])
               /\ Live(kv, i) /\ IsDir(kv[node_key(i)])
               /\ Links(kv, kv[child_key(i, n)]) = {<<i, n>>}
    <3> DEFINE id == kv[child_key(i, n)]
    <3>1. id \in Ids /\ <<i, n>> \in Links(kv, id)
      BY <2>1, <1>0, <1>1
    <3> HIDE DEF id
    <3>2. Live(kv, id) /\ id # ROOT_ID
      BY <3>1, <1>3 DEF Linked
    <3>3. PICK l \in Links(kv, id) : Links(kv, id) = {l} /\ Live(kv, l[1]) /\ IsDir(kv[node_key(l[1])])
      BY <3>1, <3>2, <1>3 DEF Linked
    <3>4. l = <<i, n>> /\ l[1] = i
      BY <3>1, <3>3
    <3> QED BY <3>1, <3>2, <3>3, <3>4 DEF id
  <2>2. EntriesLead(kv)
    BY <2>1 DEF EntriesLead
  <2>3. EntriesDiffer(kv)
    <3> SUFFICES ASSUME NEW i \in Ids, NEW j \in Ids, NEW n \in Names, NEW m \in Names,
                        kv[child_key(i, n)] # Absent, kv[child_key(i, n)] = kv[child_key(j, m)]
                 PROVE  i = j /\ n = m
      BY DEF EntriesDiffer
    <3>1. {<<i, n>>} = {<<j, m>>}
      BY <2>1
    <3>2. <<i, n>> \in {<<j, m>>}
      BY <3>1
    <3>3. <<i, n>> = <<j, m>>
      BY <3>2
    <3> QED BY <3>3
  <2>4. NodesHaveEntries(kv)
    BY <1>2, <1>1, <1>3 DEF Linked, NodesHaveEntries
  <2> QED BY <2>2, <2>3, <2>4
<1>4. ASSUME EntriesLead(kv), EntriesDiffer(kv), NodesHaveEntries(kv) PROVE Linked(kv)
  <2> SUFFICES ASSUME NEW id \in Ids
               PROVE  /\ Links(kv, id) # {} => Live(kv, id) /\ id # ROOT_ID
                      /\ (Live(kv, id) /\ id # ROOT_ID) =>
                            /\ id < kv[meta_next_id]
                            /\ \E l \in Links(kv, id) :
                                  /\ Links(kv, id) = {l}
                                  /\ Live(kv, l[1]) /\ IsDir(kv[node_key(l[1])])
    BY DEF Linked
  <2>1. \A l \in Links(kv, id) : kv[child_key(l[1], l[2])] = id /\ id # Absent
    BY IdsAreNumbers DEF Links
  <2>2. Links(kv, id) # {} => Live(kv, id) /\ id # ROOT_ID
    BY <2>1, <1>2, <1>4 DEF EntriesLead
  <2>3. ASSUME Live(kv, id), id # ROOT_ID
        PROVE  \E l \in Links(kv, id) :
                  Links(kv, id) = {l} /\ Live(kv, l[1]) /\ IsDir(kv[node_key(l[1])])
    <3>1. PICK i \in Ids, n \in Names : kv[child_key(i, n)] = id
      BY <1>4, <2>3 DEF NodesHaveEntries
    <3>2. <<i, n>> \in Links(kv, id)
      BY <3>1, <1>1
    <3>3. \A l \in Links(kv, id) : l = <<i, n>>
      BY <2>1, <1>2, <3>1, <1>4 DEF EntriesDiffer
    <3>4. Live(kv, i) /\ IsDir(kv[node_key(i)])
      BY <3>1, <1>4, IdsAreNumbers DEF EntriesLead
    <3>5. <<i, n>>[1] = i /\ Links(kv, id) = {<<i, n>>}
      BY <3>2, <3>3
    <3> QED BY <3>2, <3>4, <3>5
  <2> QED BY <2>2, <2>3, <1>4 DEF NodesHaveEntries
<1> QED BY <1>3, <1>4

(* A store once open has made its first commit. *)
Whole(kv) ==
    /\ StoreType(kv) /\ Linked(kv) /\ Rooted(kv)
    /\ Live(kv, ROOT_ID) /\ kv[meta_next_id] # Absent

(* What a store with a root offers to the operations. *)
LEMMA WholeFacts ==
    ASSUME NEW kv, Whole(kv)
    PROVE  /\ kv[meta_next_id] \in Nat /\ kv[meta_next_id] > ROOT_ID
           /\ EntriesLead(kv) /\ EntriesDiffer(kv) /\ NodesHaveEntries(kv)
           /\ IsDir(kv[node_key(ROOT_ID)])
           /\ \A id \in Ids : Live(kv, id) => id < kv[meta_next_id] /\ kv[node_key(id)] \in Nodes
           /\ \A id \in Ids : Live(kv, id) => \E p \in Paths : walk(kv)[p] = id
<1>1. kv[meta_next_id] \in Nat /\ kv[meta_next_id] > ROOT_ID
  BY IdsAreNumbers DEF Whole, StoreType
<1>2. EntriesLead(kv) /\ EntriesDiffer(kv) /\ NodesHaveEntries(kv)
  BY LinkedEntries DEF Whole
<1>3. IsDir(kv[node_key(ROOT_ID)])
  BY DEF Whole, Rooted
<1>4. \A id \in Ids : Live(kv, id) => id < kv[meta_next_id] /\ kv[node_key(id)] \in Nodes
  BY <1>1, <1>2, IdsAreNumbers DEF NodesHaveEntries, Whole, StoreType, Live
<1>5. \A id \in Ids : Live(kv, id) => \E p \in Paths : walk(kv)[p] = id
  BY DEF Whole, Rooted
<1> QED BY <1>1, <1>2, <1>3, <1>4, <1>5

(* In any store, a walk ends at an id or nowhere. *)
LEMMA WalkType ==
    ASSUME NEW kv, StoreType(kv)
    PROVE  \A p \in Paths : walk(kv)[p] \in Ids \cup {Absent}
<1> DEFINE w == walk(kv)
           Bad == {n \in Nat : \E p \in Paths : Len(p) = n /\ w[p] \notin Ids \cup {Absent}}
<1>0. \A p \in Paths : w[p] = WalkStep(kv, w, p)
  BY WalkDef
<1> HIDE DEF w
<1>1. \A p \in Paths : Len(p) \in Nat
  BY PathType, ConstantAssumption
<1>2. Bad = {}
  <2>1. SUFFICES ASSUME Bad # {} PROVE FALSE
    OBVIOUS
  <2>2. PICK m \in Bad : \A k \in Bad : m <= k
    BY <2>1, MinExists
  <2>3. PICK p \in Paths : Len(p) = m /\ w[p] \notin Ids \cup {Absent}
    BY <2>2
  <2>4. p # <<>>
    BY <2>3, <1>0, IdsAreNumbers DEF WalkStep
  <2>5. /\ parent(p) \in Paths /\ Len(parent(p)) \in Nat /\ Len(parent(p)) < m
        /\ name(p) \in Names
    BY <2>3, <2>4, <1>1, ParentType
  <2>6. w[parent(p)] \in Ids \cup {Absent}
    <3>1. Len(parent(p)) \notin Bad
      BY <2>2, <2>5
    <3> QED BY <3>1, <2>5
  <2>7. w[parent(p)] \in Ids => kv[child_key(w[parent(p)], name(p))] \in Ids \cup {Absent}
    BY <2>5 DEF StoreType
  <2> QED BY <2>3, <2>4, <2>6, <2>7, <1>0 DEF WalkStep
<1>3. \A p \in Paths : w[p] \in Ids \cup {Absent}
  BY <1>1, <1>2
<1> QED BY <1>3 DEF w

(* In a whole one it ends at a node, and resolve is the walk. *)
LEMMA WalkFacts ==
    ASSUME NEW kv, Whole(kv), NEW p \in Paths
    PROVE  /\ walk(kv)[p] \in Ids \cup {Absent}
           /\ walk(kv)[p] # Absent => Live(kv, walk(kv)[p])
           /\ resolve(kv, p) = walk(kv)[p]
           /\ p = <<>> => walk(kv)[p] = ROOT_ID
           /\ p # <<>> =>
                 /\ walk(kv)[p] # ROOT_ID
                 /\ walk(kv)[p] = IF walk(kv)[parent(p)] = Absent THEN Absent
                                  ELSE kv[child_key(walk(kv)[parent(p)], name(p))]
                 /\ walk(kv)[parent(p)] \in Ids \cup {Absent}
                 /\ walk(kv)[p] # Absent => IsDir(kv[node_key(walk(kv)[parent(p)])])
<1> DEFINE w == walk(kv)
<1>1. w[p] = WalkStep(kv, w, p)
  BY WalkDef
<1>2. w[p] \in Ids \cup {Absent} /\ (p # <<>> => w[parent(p)] \in Ids \cup {Absent})
  BY WalkType, ParentType DEF Whole
<1>3. EntriesLead(kv) /\ ROOT_ID \in Ids /\ Absent \notin Ids /\ Live(kv, ROOT_ID)
  BY WholeFacts, IdsAreNumbers DEF Whole
<1>4. resolve(kv, p) = IF w[p] = Absent THEN Absent
                       ELSE IF kv[node_key(w[p])] = Absent THEN Absent ELSE w[p]
  BY DEF resolve
<1> HIDE DEF w
<1>5. CASE p = <<>>
  BY <1>1, <1>2, <1>3, <1>4, <1>5 DEF WalkStep, Live, w
<1>6. CASE p # <<>>
  <2>1. w[p] = IF w[parent(p)] = Absent THEN Absent ELSE kv[child_key(w[parent(p)], name(p))]
    BY <1>1, <1>6 DEF WalkStep
  <2>2. w[p] # Absent => /\ w[p] # ROOT_ID /\ Live(kv, w[p])
                         /\ IsDir(kv[node_key(w[parent(p)])])
    BY <2>1, <1>2, <1>3, <1>6, ParentType DEF EntriesLead
  <2>3. w[p] # ROOT_ID
    BY <2>2, <1>3
  <2>4. resolve(kv, p) = w[p]
    BY <1>4, <2>2 DEF Live
  <2> QED BY <1>2, <1>6, <2>1, <2>2, <2>3, <2>4 DEF w
<1> QED BY <1>5, <1>6

(* No two paths lead to the same node. *)
LEMMA WalkInjective ==
    ASSUME NEW kv, Whole(kv)
    PROVE  \A p, q \in Paths : (walk(kv)[p] = walk(kv)[q] /\ walk(kv)[p] # Absent) => p = q
<1> DEFINE w == walk(kv)
           Bad == {n \in Nat : \E p, q \in Paths : Len(p) = n /\ w[p] = w[q] /\ w[p] # Absent /\ p # q}
<1>0. \A p \in Paths :
        /\ w[p] \in Ids \cup {Absent}
        /\ p = <<>> => w[p] = ROOT_ID
        /\ p # <<>> =>
              /\ w[p] # ROOT_ID
              /\ w[p] = IF w[parent(p)] = Absent THEN Absent ELSE kv[child_key(w[parent(p)], name(p))]
              /\ w[parent(p)] \in Ids \cup {Absent}
  BY WalkFacts
<1>a. EntriesDiffer(kv)
  BY WholeFacts
<1> HIDE DEF w
<1>1. \A p \in Paths : Len(p) \in Nat
  BY PathType, ConstantAssumption
<1>2. Bad = {}
  <2>1. SUFFICES ASSUME Bad # {} PROVE FALSE
    OBVIOUS
  <2>2. PICK m \in Bad : \A k \in Bad : m <= k
    BY <2>1, MinExists
  <2>3. PICK p \in Paths, q \in Paths : Len(p) = m /\ w[p] = w[q] /\ w[p] # Absent /\ p # q
    BY <2>2
  <2>4. p # <<>> /\ q # <<>>
    BY <2>3, <1>0
  <2>5. /\ parent(p) \in Paths /\ Len(parent(p)) \in Nat /\ Len(parent(p)) < m
        /\ name(p) \in Names /\ name(q) \in Names /\ parent(q) \in Paths
    BY <2>3, <2>4, <1>1, ParentType
  <2>6. /\ w[parent(p)] \in Ids /\ w[parent(q)] \in Ids
        /\ kv[child_key(w[parent(p)], name(p))] = kv[child_key(w[parent(q)], name(q))]
        /\ kv[child_key(w[parent(p)], name(p))] # Absent
    BY <1>0, <2>3, <2>4
  <2>7. w[parent(p)] = w[parent(q)] /\ name(p) = name(q)
    BY <2>5, <2>6, <1>a DEF EntriesDiffer
  <2>8. w[parent(p)] # Absent
    BY <2>6, IdsAreNumbers
  <2>9. parent(p) = parent(q)
    <3>1. Len(parent(p)) \notin Bad
      BY <2>2, <2>5
    <3> QED BY <3>1, <2>5, <2>7, <2>8
  <2> QED BY <2>3, <2>4, <2>7, <2>9, ParentNameUnique
<1>3. \A p, q \in Paths : (w[p] = w[q] /\ w[p] # Absent) => p = q
  BY <1>1, <1>2
<1> QED BY <1>3 DEF w

-----------------------------------------------------------------------------
(* The three batches *)

(* The type of a store, entry by entry. *)
LEMMA StoreTypeEntries ==
    ASSUME NEW kv
    PROVE  StoreType(kv) <=>
             /\ IsStore(kv)
             /\ kv[meta_next_id] \in (ROOT_ID + 1)..(MaxId + 1) \cup {Absent}
             /\ kv[meta_version] \in {INDEX_VER, Absent}
             /\ \A id \in Ids : kv[node_key(id)] \in Nodes \cup {Absent}
             /\ \A id \in Ids, n \in Names : kv[child_key(id, n)] \in Ids \cup {Absent}
             /\ \A ty \in Types, id \in Ids : kv[type_index_key(ty, id)] \in Paths \cup {Absent}
<1>1. (\A k \in IndexKeys : kv[k] \in Paths \cup {Absent}) <=>
      (\A ty \in Types, id \in Ids : kv[type_index_key(ty, id)] \in Paths \cup {Absent})
  BY KeyTypes, IndexKeyForm
<1> QED BY <1>1 DEF StoreType

(* The walks of a store with one more node. *)
LEMMA WalkWithNode ==
    ASSUME NEW kv, Whole(kv), NEW kv2, NEW path \in Paths, path # <<>>,
           NEW dir \in Ids, NEW id \in Ids,
           walk(kv)[parent(path)] = dir,
           kv[child_key(dir, name(path))] = Absent,
           ~Live(kv, id),
           \A i \in Ids, n \in Names : kv2[child_key(i, n)] =
              IF i = dir /\ n = name(path) THEN id ELSE kv[child_key(i, n)]
    PROVE  walk(kv2) = [p \in Paths |-> IF p = path THEN id ELSE walk(kv)[p]]
<1> DEFINE w == walk(kv)
           v == [p \in Paths |-> IF p = path THEN id ELSE w[p]]
<1>0. \A p \in Paths :
        /\ w[p] \in Ids \cup {Absent}
        /\ w[p] # Absent => Live(kv, w[p])
        /\ p = <<>> => w[p] = ROOT_ID
        /\ p # <<>> =>
              /\ w[p] = IF w[parent(p)] = Absent THEN Absent ELSE kv[child_key(w[parent(p)], name(p))]
              /\ parent(p) \in Paths /\ name(p) \in Names /\ parent(p) # p
  BY WalkFacts, ParentType
<1>1. \A p, q \in Paths : (w[p] = w[q] /\ w[p] # Absent) => p = q
  BY WalkInjective
<1>2. Absent \notin Ids /\ Live(kv, dir) /\ id # dir
  BY IdsAreNumbers, <1>0
<1>3. \A n \in Names : kv[child_key(id, n)] = Absent
  BY WholeFacts DEF EntriesLead
<1>4. w[path] = Absent
  BY <1>0, <1>2
<1> HIDE DEF w
<1>5. \A p \in Paths : v[p] = IF p = path THEN id ELSE w[p]
  OBVIOUS
<1>6. DOMAIN v = Paths /\ v = [p \in Paths |-> v[p]]
  OBVIOUS
<1>7. ASSUME NEW p \in Paths PROVE v[p] = WalkStep(kv2, v, p)
  <2> HIDE DEF v
  <2>1. CASE p = <<>>
    BY <1>0, <1>5, <2>1 DEF WalkStep
  <2>2. CASE p = path
    <3>1. v[p] = id /\ v[parent(p)] = dir /\ kv2[child_key(dir, name(p))] = id
      BY <1>0, <1>5, <2>2 DEF w
    <3> QED BY <3>1, <2>2, <1>2 DEF WalkStep
  <2>3. CASE p # <<>> /\ parent(p) = path
    <3>1. v[p] = Absent
      BY <1>0, <1>4, <1>5, <2>3
    <3>2. v[parent(p)] = id /\ kv2[child_key(id, name(p))] = Absent
      BY <1>0, <1>2, <1>3, <1>5, <2>3
    <3> QED BY <3>1, <3>2, <2>3, <1>2 DEF WalkStep
  <2>4. CASE p # <<>> /\ p # path /\ parent(p) # path
    <3>1. v[p] = w[p] /\ v[parent(p)] = w[parent(p)]
      BY <1>0, <1>5, <2>4
    <3>2. w[parent(p)] \in Ids /\ ~(w[parent(p)] = dir /\ name(p) = name(path)) =>
             kv2[child_key(w[parent(p)], name(p))] = kv[child_key(w[parent(p)], name(p))]
      BY <1>0, <2>4
    <3>3. ~(w[parent(p)] = dir /\ name(p) = name(path))
      BY <1>0, <1>1, <1>2, <2>4, ParentNameUnique DEF w
    <3>4. w[parent(p)] \in Ids \cup {Absent}
      BY <1>0, <2>4
    <3> QED BY <3>1, <3>2, <3>3, <3>4, <1>0, <2>4 DEF WalkStep
  <2> QED BY <2>1, <2>2, <2>3, <2>4
<1>8. walk(kv2) = v
  <2> HIDE DEF v
  <2> QED BY <1>6, <1>7, WalkUnique
<1> QED BY <1>8 DEF w

(* A new node is the only new one, and has the path it was asked for. *)
LEMMA NewNodeStep ==
    ASSUME NEW kv, Whole(kv), NEW path \in Paths, path # <<>>, NEW rec \in Nodes, rec.ty \in Types,
           NEW dir \in Ids, walk(kv)[parent(path)] = dir, IsDir(kv[node_key(dir)]),
           kv[child_key(dir, name(path))] = Absent,
           kv[meta_next_id] <= MaxId
    PROVE  LET kv2 == Commit(kv, NewNode(kv, path, rec))
               id  == kv[meta_next_id]
           IN  /\ Whole(kv2)
               /\ kv2[meta_next_id] = id + 1 /\ kv2[meta_version] = kv[meta_version]
               /\ walk(kv2) = [p \in Paths |-> IF p = path THEN id ELSE walk(kv)[p]]
               /\ \A i \in Ids : kv2[node_key(i)] = IF i = id THEN rec ELSE kv[node_key(i)]
               /\ id \in Ids /\ ~Live(kv, id)
               /\ Indexed(kv) => Indexed(kv2)
<1> DEFINE id  == kv[meta_next_id]
           kv2 == Commit(kv, NewNode(kv, path, rec))
           w   == walk(kv)
<1>1. /\ id \in Ids /\ id \in Nat /\ id # ROOT_ID /\ id > ROOT_ID
      /\ EntriesLead(kv) /\ EntriesDiffer(kv) /\ NodesHaveEntries(kv)
      /\ IsDir(kv[node_key(ROOT_ID)])
      /\ \A i \in Ids : Live(kv, i) => i < id /\ kv[node_key(i)] \in Nodes
  BY WholeFacts, IdsAreNumbers DEF Ids
<1>2. ~Live(kv, id)
  BY <1>1
<1>3. name(path) \in Names /\ parent(path) \in Paths /\ Len(parent(path)) \in Nat
  BY ParentType
<1>4. resolve(kv, parent(path)) = dir /\ Live(kv, dir) /\ dir # id
  BY <1>2, <1>3, WalkFacts, IdsAreNumbers
<1>5. /\ IsStore(kv2)
      /\ kv2[meta_next_id] = id + 1
      /\ kv2[meta_version] = kv[meta_version]
      /\ \A i \in Ids : kv2[node_key(i)] = IF i = id THEN rec ELSE kv[node_key(i)]
      /\ \A i \in Ids, n \in Names : kv2[child_key(i, n)] =
            IF i = dir /\ n = name(path) THEN id ELSE kv[child_key(i, n)]
      /\ \A ty \in Types, i \in Ids : kv2[type_index_key(ty, i)] =
            IF i = id /\ ty = rec.ty THEN path ELSE kv[type_index_key(ty, i)]
  BY <1>1, <1>4, NewNodeEntries
<1> HIDE DEF kv2
<1>6. walk(kv2) = [p \in Paths |-> IF p = path THEN id ELSE w[p]]
  <2> HIDE DEF id
  <2> QED BY <1>1, <1>2, <1>5, WalkWithNode
<1>7. StoreType(kv2)
  <2>1. /\ kv[meta_version] \in {INDEX_VER, Absent}
        /\ \A i \in Ids : kv[node_key(i)] \in Nodes \cup {Absent}
        /\ \A i \in Ids, n \in Names : kv[child_key(i, n)] \in Ids \cup {Absent}
        /\ \A ty \in Types, i \in Ids : kv[type_index_key(ty, i)] \in Paths \cup {Absent}
    BY StoreTypeEntries DEF Whole
  <2>2. id + 1 \in (ROOT_ID + 1)..(MaxId + 1)
    BY <1>1, IdsAreNumbers
  <2> HIDE DEF id
  <2>3. /\ \A i \in Ids : kv2[node_key(i)] \in Nodes \cup {Absent}
        /\ \A i \in Ids, n \in Names : kv2[child_key(i, n)] \in Ids \cup {Absent}
        /\ \A ty \in Types, i \in Ids : kv2[type_index_key(ty, i)] \in Paths \cup {Absent}
    BY <1>1, <1>5, <2>1
  <2> QED BY <1>5, <2>1, <2>2, <2>3, StoreTypeEntries
<1>8. Live(kv2, id) /\ \A i \in Ids : i # id => (Live(kv2, i) <=> Live(kv, i))
  BY <1>1, <1>5, ValueAssumption DEF Live
<1>9. Linked(kv2)
  <2> HIDE DEF id
  <2>1. EntriesLead(kv2)
    <3> SUFFICES ASSUME NEW i \in Ids, NEW n \in Names, kv2[child_key(i, n)] # Absent
                 PROVE  /\ kv2[child_key(i, n)] \in Ids /\ kv2[child_key(i, n)] # ROOT_ID
                        /\ Live(kv2, kv2[child_key(i, n)])
                        /\ Live(kv2, i) /\ IsDir(kv2[node_key(i)])
      BY DEF EntriesLead
    <3>1. CASE i = dir /\ n = name(path)
      BY <1>1, <1>4, <1>5, <1>8, <3>1
    <3>2. CASE ~(i = dir /\ n = name(path))
      <4>1. kv2[child_key(i, n)] = kv[child_key(i, n)]
        BY <1>5, <3>2
      <4>2. /\ kv[child_key(i, n)] \in Ids /\ kv[child_key(i, n)] # ROOT_ID
            /\ Live(kv, kv[child_key(i, n)])
            /\ Live(kv, i) /\ IsDir(kv[node_key(i)])
        BY <4>1, <1>1 DEF EntriesLead
      <4>3. i # id /\ kv[child_key(i, n)] # id
        BY <4>2, <1>2
      <4> QED BY <4>1, <4>2, <4>3, <1>5, <1>8
    <3> QED BY <3>1, <3>2
  <2>2. \A i \in Ids, n \in Names : kv[child_key(i, n)] # id
    BY <1>1, <1>2, IdsAreNumbers DEF EntriesLead
  <2>3. EntriesDiffer(kv2)
    BY <1>1, <1>5, <2>2 DEF EntriesDiffer
  <2>4. NodesHaveEntries(kv2)
    <3> SUFFICES ASSUME NEW i \in Ids, Live(kv2, i), i # ROOT_ID
                 PROVE  i < kv2[meta_next_id] /\ \E j \in Ids, n \in Names : kv2[child_key(j, n)] = i
      BY DEF NodesHaveEntries
    <3>1. CASE i = id
      BY <1>1, <1>3, <1>5, <3>1
    <3>2. CASE i # id
      <4>1. i < id /\ Live(kv, i) /\ i \in Nat /\ i # Absent
        BY <1>1, <1>8, <3>2, IdsAreNumbers
      <4>2. PICK j \in Ids, n \in Names : kv[child_key(j, n)] = i
        BY <4>1, <1>1 DEF NodesHaveEntries
      <4>3. kv2[child_key(j, n)] = i
        BY <4>1, <4>2, <1>5
      <4> QED BY <4>1, <4>3, <1>1, <1>5
    <3> QED BY <3>1, <3>2
  <2> QED BY <2>1, <2>3, <2>4, <1>7, LinkedEntries
<1>10. Live(kv2, ROOT_ID) /\ IsDir(kv2[node_key(ROOT_ID)])
  BY <1>1, <1>5, <1>8, IdsAreNumbers DEF Whole
<1>11. kv2[meta_next_id] # Absent
  BY <1>1, <1>5, ValueAssumption
<1>12. \A i \in Ids : Live(kv2, i) => \E p \in Paths : walk(kv2)[p] = i
  <2> SUFFICES ASSUME NEW i \in Ids, Live(kv2, i) PROVE \E p \in Paths : walk(kv2)[p] = i
    OBVIOUS
  <2>1. CASE i = id
    BY <2>1, <1>6
  <2>2. CASE i # id
    <3>1. PICK p \in Paths : w[p] = i
      BY <2>2, <1>8, WholeFacts
    <3>2. p # path
      <4>1. w[path] = Absent
        BY WalkFacts, IdsAreNumbers
      <4> QED BY <4>1, <3>1, IdsAreNumbers
    <3> QED BY <3>1, <3>2, <1>6
  <2> QED BY <2>1, <2>2
<1>13. Whole(kv2)
  BY <1>7, <1>9, <1>10, <1>11, <1>12 DEF Whole, Rooted
<1>14. ASSUME Indexed(kv) PROVE Indexed(kv2)
  <2> SUFFICES ASSUME NEW ty \in Types, NEW i \in Ids
               PROVE  IF Live(kv2, i) /\ kv2[node_key(i)].ty = ty
                      THEN kv2[type_index_key(ty, i)] \in Paths /\ walk(kv2)[kv2[type_index_key(ty, i)]] = i
                      ELSE kv2[type_index_key(ty, i)] = Absent
    BY DEF Indexed
  <2>1. IF Live(kv, i) /\ kv[node_key(i)].ty = ty
        THEN kv[type_index_key(ty, i)] \in Paths /\ w[kv[type_index_key(ty, i)]] = i
        ELSE kv[type_index_key(ty, i)] = Absent
    BY <1>14 DEF Indexed
  <2>2. w[path] = Absent
    BY WalkFacts, IdsAreNumbers
  <2> HIDE DEF id, w
  <2>3. CASE i = id
    BY <2>1, <2>3, <1>2, <1>5, <1>6, <1>8
  <2>4. CASE i # id
    <3>1. /\ kv2[node_key(i)] = kv[node_key(i)] /\ (Live(kv2, i) <=> Live(kv, i))
          /\ kv2[type_index_key(ty, i)] = kv[type_index_key(ty, i)]
      BY <2>4, <1>5, <1>8
    <3>2. \A p \in Paths : w[p] = i => walk(kv2)[p] = i
      BY <1>6, <2>2, IdsAreNumbers
    <3> QED BY <3>1, <3>2, <2>1
  <2> QED BY <2>3, <2>4
<1> QED BY <1>1, <1>2, <1>5, <1>6, <1>13, <1>14 DEF kv2

(* A replaced value stays where it is. *)
LEMMA ReplaceStep ==
    ASSUME NEW kv, Whole(kv), NEW path \in Paths, path # <<>>, NEW value \in Nodes, value.ty \in Types,
           NEW id \in Ids, walk(kv)[path] = id, ~IsDir(kv[node_key(id)])
    PROVE  LET kv2 == Commit(kv, Replace(kv, path, value))
           IN  /\ Whole(kv2)
               /\ kv2[meta_next_id] = kv[meta_next_id] /\ kv2[meta_version] = kv[meta_version]
               /\ walk(kv2) = walk(kv)
               /\ \A i \in Ids : kv2[node_key(i)] = IF i = id THEN value ELSE kv[node_key(i)]
               /\ Indexed(kv) => Indexed(kv2)
<1> DEFINE kv2 == Commit(kv, Replace(kv, path, value))
           w   == walk(kv)
<1>1. /\ EntriesLead(kv) /\ EntriesDiffer(kv) /\ NodesHaveEntries(kv)
      /\ IsDir(kv[node_key(ROOT_ID)]) /\ Absent \notin Ids /\ ROOT_ID \in Ids
  BY WholeFacts, IdsAreNumbers
<1>2. resolve(kv, path) = id /\ Live(kv, id) /\ id # ROOT_ID
  BY <1>1, WalkFacts
<1>3. /\ IsStore(kv2)
      /\ kv2[meta_next_id] = kv[meta_next_id]
      /\ kv2[meta_version] = kv[meta_version]
      /\ \A i \in Ids : kv2[node_key(i)] = IF i = id THEN value ELSE kv[node_key(i)]
      /\ \A i \in Ids, n \in Names : kv2[child_key(i, n)] = kv[child_key(i, n)]
      /\ \A ty \in Types, i \in Ids : kv2[type_index_key(ty, i)] =
            IF i = id /\ ty = value.ty THEN path
            ELSE IF i = id /\ ty = kv[node_key(id)].ty THEN Absent
            ELSE kv[type_index_key(ty, i)]
  BY <1>2, ReplaceEntries
<1> HIDE DEF kv2
<1>4. walk(kv2) = w
  <2>1. /\ DOMAIN w = Paths /\ w = [p \in Paths |-> w[p]]
        /\ \A p \in Paths : w[p] = WalkStep(kv, w, p)
    BY WalkDef
  <2>2. ASSUME NEW p \in Paths PROVE w[p] = WalkStep(kv2, w, p)
    <3>1. p # <<>> => name(p) \in Names /\ w[parent(p)] \in Ids \cup {Absent}
      BY ParentType, WalkFacts
    <3> HIDE DEF w
    <3> QED BY <3>1, <2>1, <1>3 DEF WalkStep
  <2> HIDE DEF w
  <2> QED BY <2>1, <2>2, WalkUnique
<1>5. StoreType(kv2)
  <2>1. /\ kv[meta_next_id] \in (ROOT_ID + 1)..(MaxId + 1) \cup {Absent}
        /\ kv[meta_version] \in {INDEX_VER, Absent}
        /\ \A i \in Ids : kv[node_key(i)] \in Nodes \cup {Absent}
        /\ \A i \in Ids, n \in Names : kv[child_key(i, n)] \in Ids \cup {Absent}
        /\ \A ty \in Types, i \in Ids : kv[type_index_key(ty, i)] \in Paths \cup {Absent}
    BY StoreTypeEntries DEF Whole
  <2>2. /\ \A i \in Ids : kv2[node_key(i)] \in Nodes \cup {Absent}
        /\ \A i \in Ids, n \in Names : kv2[child_key(i, n)] \in Ids \cup {Absent}
        /\ \A ty \in Types, i \in Ids : kv2[type_index_key(ty, i)] \in Paths \cup {Absent}
    BY <1>3, <2>1
  <2> QED BY <1>3, <2>1, <2>2, StoreTypeEntries
<1>6. \A i \in Ids : Live(kv2, i) <=> Live(kv, i)
  BY <1>2, <1>3, ValueAssumption DEF Live
<1>7. \A i \in Ids : IsDir(kv[node_key(i)]) => i # id /\ IsDir(kv2[node_key(i)])
  BY <1>3
<1>8. EntriesLead(kv2) /\ EntriesDiffer(kv2) /\ NodesHaveEntries(kv2)
  <2>1. EntriesLead(kv2)
    BY <1>1, <1>3, <1>6, <1>7 DEF EntriesLead
  <2>2. EntriesDiffer(kv2)
    BY <1>1, <1>3 DEF EntriesDiffer
  <2>3. NodesHaveEntries(kv2)
    BY <1>1, <1>3, <1>6 DEF NodesHaveEntries
  <2> QED BY <2>1, <2>2, <2>3
<1>9. Whole(kv2)
  <2>1. Linked(kv2)
    BY <1>5, <1>8, LinkedEntries
  <2>2. Rooted(kv2) /\ Live(kv2, ROOT_ID) /\ kv2[meta_next_id] # Absent
    BY <1>1, <1>3, <1>4, <1>6, <1>7 DEF Whole, Rooted
  <2> QED BY <1>5, <2>1, <2>2 DEF Whole
<1>10. ASSUME Indexed(kv) PROVE Indexed(kv2)
  <2> SUFFICES ASSUME NEW ty \in Types, NEW i \in Ids
               PROVE  IF Live(kv2, i) /\ kv2[node_key(i)].ty = ty
                      THEN kv2[type_index_key(ty, i)] \in Paths /\ w[kv2[type_index_key(ty, i)]] = i
                      ELSE kv2[type_index_key(ty, i)] = Absent
    BY <1>4 DEF Indexed
  <2>1. IF Live(kv, i) /\ kv[node_key(i)].ty = ty
        THEN kv[type_index_key(ty, i)] \in Paths /\ w[kv[type_index_key(ty, i)]] = i
        ELSE kv[type_index_key(ty, i)] = Absent
    BY <1>10 DEF Indexed
  <2> HIDE DEF w
  <2>2. CASE i = id /\ ty = value.ty
    BY <2>2, <1>2, <1>3, <1>6 DEF w
  <2>3. CASE i = id /\ ty # value.ty
    BY <2>1, <2>3, <1>2, <1>3, <1>6
  <2>4. CASE i # id
    BY <2>1, <2>4, <1>3, <1>6
  <2> QED BY <2>2, <2>3, <2>4
<1> QED BY <1>3, <1>4, <1>9, <1>10 DEF kv2

(* A deleted node without children is the only one that goes. *)
LEMMA UnlinkStep ==
    ASSUME NEW kv, Whole(kv), NEW path \in Paths, path # <<>>,
           NEW id \in Ids, walk(kv)[path] = id,
           \A n \in Names : kv[child_key(id, n)] = Absent
    PROVE  LET kv2 == Commit(kv, Unlink(kv, path))
           IN  /\ Whole(kv2)
               /\ kv2[meta_next_id] = kv[meta_next_id] /\ kv2[meta_version] = kv[meta_version]
               /\ walk(kv2) = [p \in Paths |-> IF p = path THEN Absent ELSE walk(kv)[p]]
               /\ \A i \in Ids : kv2[node_key(i)] = IF i = id THEN Absent ELSE kv[node_key(i)]
               /\ Indexed(kv) => Indexed(kv2)
<1> DEFINE kv2 == Commit(kv, Unlink(kv, path))
           w   == walk(kv)
           dir == w[parent(path)]
           v   == [p \in Paths |-> IF p = path THEN Absent ELSE w[p]]
<1>1. /\ EntriesLead(kv) /\ EntriesDiffer(kv) /\ NodesHaveEntries(kv)
      /\ IsDir(kv[node_key(ROOT_ID)]) /\ Absent \notin Ids /\ ROOT_ID \in Ids
  BY WholeFacts, IdsAreNumbers
<1>2. /\ resolve(kv, path) = id /\ Live(kv, id) /\ id # ROOT_ID
      /\ dir \in Ids /\ kv[child_key(dir, name(path))] = id
  BY <1>1, WalkFacts
<1>3. name(path) \in Names /\ parent(path) \in Paths /\ Len(parent(path)) \in Nat
  BY ParentType
<1>4. resolve(kv, parent(path)) = dir
  BY <1>3, WalkFacts
<1>5. /\ IsStore(kv2)
      /\ kv2[meta_next_id] = kv[meta_next_id]
      /\ kv2[meta_version] = kv[meta_version]
      /\ \A i \in Ids : kv2[node_key(i)] = IF i = id THEN Absent ELSE kv[node_key(i)]
      /\ \A i \in Ids, n \in Names : kv2[child_key(i, n)] =
            IF i = dir /\ n = name(path) THEN Absent ELSE kv[child_key(i, n)]
      /\ \A ty \in Types, i \in Ids : kv2[type_index_key(ty, i)] =
            IF i = id /\ ty = kv[node_key(id)].ty THEN Absent
            ELSE kv[type_index_key(ty, i)]
  <2> HIDE DEF dir
  <2> QED BY <1>2, <1>4, UnlinkEntries
<1> HIDE DEF kv2
<1>6. \A p \in Paths :
        /\ w[p] \in Ids \cup {Absent}
        /\ p = <<>> => w[p] = ROOT_ID
        /\ p # <<>> =>
              /\ w[p] = IF w[parent(p)] = Absent THEN Absent ELSE kv[child_key(w[parent(p)], name(p))]
              /\ parent(p) \in Paths /\ name(p) \in Names /\ parent(p) # p
  BY WalkFacts, ParentType
<1>7. \A p, q \in Paths : (w[p] = w[q] /\ w[p] # Absent) => p = q
  BY WalkInjective
<1>w. w[path] = id
  OBVIOUS
<1>8. walk(kv2) = v
  <2> HIDE DEF w
  <2>1. \A p \in Paths : v[p] = IF p = path THEN Absent ELSE w[p]
    OBVIOUS
  <2>2. DOMAIN v = Paths /\ v = [p \in Paths |-> v[p]]
    OBVIOUS
  <2>3. ASSUME NEW p \in Paths PROVE v[p] = WalkStep(kv2, v, p)
    <3> HIDE DEF v
    <3>1. CASE p = <<>>
      BY <1>6, <2>1, <3>1 DEF WalkStep
    <3>2. CASE p = path
      <4>1. v[p] = Absent /\ v[parent(p)] = dir /\ kv2[child_key(dir, name(p))] = Absent
        BY <1>2, <1>3, <1>5, <1>6, <2>1, <3>2
      <4> QED BY <4>1, <3>2 DEF WalkStep
    <3>3. CASE p # <<>> /\ parent(p) = path
      <4>1. w[p] = Absent /\ p # path
        BY <1>6, <3>3, <1>w
      <4>2. v[p] = Absent /\ v[parent(p)] = Absent
        BY <4>1, <1>6, <2>1, <3>3
      <4> QED BY <4>2, <3>3 DEF WalkStep
    <3>4. CASE p # <<>> /\ p # path /\ parent(p) # path
      <4>1. v[p] = w[p] /\ v[parent(p)] = w[parent(p)]
        BY <1>6, <2>1, <3>4
      <4>2. ~(w[parent(p)] = dir /\ name(p) = name(path))
        <5> SUFFICES ASSUME w[parent(p)] = dir, name(p) = name(path) PROVE FALSE
          OBVIOUS
        <5>1. dir # Absent
          BY <1>1, <1>2
        <5>2. parent(p) = parent(path)
          BY <1>3, <1>6, <1>7, <3>4, <5>1
        <5> QED BY <5>2, <3>4, ParentNameUnique
      <4>3. w[parent(p)] \in Ids =>
               kv2[child_key(w[parent(p)], name(p))] = kv[child_key(w[parent(p)], name(p))]
        BY <4>2, <1>5, <1>6, <3>4
      <4>4. w[parent(p)] \in Ids \cup {Absent}
        BY <1>6, <3>4
      <4> HIDE DEF dir
      <4> QED BY <4>1, <4>3, <4>4, <1>6, <3>4 DEF WalkStep
    <3> QED BY <3>1, <3>2, <3>3, <3>4
  <2> HIDE DEF v
  <2> QED BY <2>2, <2>3, WalkUnique
<1>9. StoreType(kv2)
  <2>1. /\ kv[meta_next_id] \in (ROOT_ID + 1)..(MaxId + 1) \cup {Absent}
        /\ kv[meta_version] \in {INDEX_VER, Absent}
        /\ \A i \in Ids : kv[node_key(i)] \in Nodes \cup {Absent}
        /\ \A i \in Ids, n \in Names : kv[child_key(i, n)] \in Ids \cup {Absent}
        /\ \A ty \in Types, i \in Ids : kv[type_index_key(ty, i)] \in Paths \cup {Absent}
    BY StoreTypeEntries DEF Whole
  <2> HIDE DEF dir
  <2>2. /\ \A i \in Ids : kv2[node_key(i)] \in Nodes \cup {Absent}
        /\ \A i \in Ids, n \in Names : kv2[child_key(i, n)] \in Ids \cup {Absent}
        /\ \A ty \in Types, i \in Ids : kv2[type_index_key(ty, i)] \in Paths \cup {Absent}
    BY <1>5, <2>1
  <2> QED BY <1>5, <2>1, <2>2, StoreTypeEntries
<1>10. ~Live(kv2, id) /\ \A i \in Ids : i # id => (Live(kv2, i) <=> Live(kv, i))
  BY <1>5 DEF Live
<1>11. EntriesLead(kv2)
  <2> HIDE DEF dir
  <2> SUFFICES ASSUME NEW i \in Ids, NEW n \in Names, kv2[child_key(i, n)] # Absent
               PROVE  /\ kv2[child_key(i, n)] \in Ids /\ kv2[child_key(i, n)] # ROOT_ID
                      /\ Live(kv2, kv2[child_key(i, n)])
                      /\ Live(kv2, i) /\ IsDir(kv2[node_key(i)])
    BY DEF EntriesLead
  <2>1. kv2[child_key(i, n)] = kv[child_key(i, n)] /\ ~(i = dir /\ n = name(path))
    BY <1>5
  <2>2. /\ kv[child_key(i, n)] \in Ids /\ kv[child_key(i, n)] # ROOT_ID
        /\ Live(kv, kv[child_key(i, n)])
        /\ Live(kv, i) /\ IsDir(kv[node_key(i)])
    BY <2>1, <1>1 DEF EntriesLead
  <2>3. i # id
    BY <2>1
  <2>4. kv[child_key(i, n)] # id
    BY <2>1, <1>1, <1>2, <1>3 DEF EntriesDiffer
  <2> QED BY <2>1, <2>2, <2>3, <2>4, <1>5, <1>10
<1>12. EntriesDiffer(kv2)
  <2> HIDE DEF dir
  <2> QED BY <1>1, <1>5 DEF EntriesDiffer
<1>13. NodesHaveEntries(kv2)
  <2> HIDE DEF dir
  <2> SUFFICES ASSUME NEW i \in Ids, Live(kv2, i), i # ROOT_ID
               PROVE  i < kv2[meta_next_id] /\ \E j \in Ids, n \in Names : kv2[child_key(j, n)] = i
    BY DEF NodesHaveEntries
  <2>1. i # id /\ Live(kv, i)
    BY <1>10
  <2>2. i < kv[meta_next_id] /\ \E j \in Ids, n \in Names : kv[child_key(j, n)] = i
    BY <2>1, <1>1 DEF NodesHaveEntries
  <2>3. PICK j \in Ids, n \in Names : kv[child_key(j, n)] = i
    BY <2>2
  <2>4. ~(j = dir /\ n = name(path))
    BY <2>1, <2>3, <1>2
  <2>5. kv2[child_key(j, n)] = i
    BY <2>3, <2>4, <1>5
  <2> QED BY <2>2, <2>5, <1>5
<1>14. \A i \in Ids : Live(kv2, i) => \E p \in Paths : walk(kv2)[p] = i
  <2> SUFFICES ASSUME NEW i \in Ids, Live(kv2, i) PROVE \E p \in Paths : walk(kv2)[p] = i
    OBVIOUS
  <2>1. i # id /\ Live(kv, i)
    BY <1>10
  <2>2. PICK p \in Paths : w[p] = i
    BY <2>1, WholeFacts
  <2>3. p # path
    BY <2>1, <2>2, <1>w
  <2> QED BY <2>2, <2>3, <1>8
<1>15. Whole(kv2)
  <2>1. Linked(kv2)
    BY <1>9, <1>11, <1>12, <1>13, LinkedEntries
  <2>2. Live(kv2, ROOT_ID) /\ kv2[meta_next_id] # Absent /\ IsDir(kv2[node_key(ROOT_ID)])
    BY <1>1, <1>2, <1>5, <1>10 DEF Whole
  <2> QED BY <1>9, <1>14, <2>1, <2>2 DEF Whole, Rooted
<1>16. ASSUME Indexed(kv) PROVE Indexed(kv2)
  <2> SUFFICES ASSUME NEW ty \in Types, NEW i \in Ids
               PROVE  IF Live(kv2, i) /\ kv2[node_key(i)].ty = ty
                      THEN kv2[type_index_key(ty, i)] \in Paths /\ walk(kv2)[kv2[type_index_key(ty, i)]] = i
                      ELSE kv2[type_index_key(ty, i)] = Absent
    BY DEF Indexed
  <2>1. IF Live(kv, i) /\ kv[node_key(i)].ty = ty
        THEN kv[type_index_key(ty, i)] \in Paths /\ w[kv[type_index_key(ty, i)]] = i
        ELSE kv[type_index_key(ty, i)] = Absent
    BY <1>16 DEF Indexed
  <2> HIDE DEF w, dir
  <2>2. CASE i = id
    BY <2>1, <2>2, <1>5, <1>10
  <2>3. CASE i # id
    <3>1. /\ kv2[node_key(i)] = kv[node_key(i)] /\ (Live(kv2, i) <=> Live(kv, i))
          /\ kv2[type_index_key(ty, i)] = kv[type_index_key(ty, i)]
      BY <2>3, <1>5, <1>10
    <3>2. \A p \in Paths : w[p] = i => walk(kv2)[p] = i
      BY <1>8, <1>w, <2>3
    <3> QED BY <3>1, <3>2, <2>1
  <2> QED BY <2>2, <2>3
<1> QED BY <1>5, <1>8, <1>15, <1>16 DEF kv2

-----------------------------------------------------------------------------
(* The tree of paths, and what the operations do to it *)

(* A node record has a type, and the contents that go with it. *)
LEMMA NodeFacts ==
    ASSUME NEW rec \in Nodes
    PROVE  /\ rec # Absent /\ rec.ty \in Types
           /\ IsDir(rec) <=> rec = DirNode
           /\ rec.ty \in {"hash", "tree"} => rec.data \in Hashes
           /\ rec.ty = "list" => rec.data \in Seq(Elements)
           /\ rec.ty = "set" => rec.data \in SUBSET Elements
<1>0. /\ \A s \in Scalars : s.ty \notin {"hash", "list", "set", "tree", "directory"} /\ s.ty \in Types
      /\ {"hash", "list", "set", "tree", "directory"} \subseteq Types
  BY ValueAssumption DEF Types
<1>1. rec # Absent
  BY ValueAssumption
<1>2. CASE rec = DirNode
  BY <1>0, <1>1, <1>2 DEF DirNode, IsDir
<1>3. CASE rec \in Scalars
  BY <1>0, <1>1, <1>3 DEF DirNode, IsDir
<1>4. CASE rec \in [ty : {"hash", "tree"}, data : Hashes]
  <2>1. rec.ty \in {"hash", "tree"} /\ rec.data \in Hashes
    BY <1>4
  <2> QED BY <2>1, <1>0, <1>1 DEF DirNode, IsDir
<1>5. CASE rec \in [ty : {"list"}, data : Seq(Elements)]
  <2>1. rec.ty = "list" /\ rec.data \in Seq(Elements)
    BY <1>5
  <2> QED BY <2>1, <1>0, <1>1 DEF DirNode, IsDir
<1>6. CASE rec \in [ty : {"set"}, data : SUBSET Elements]
  <2>1. rec.ty = "set" /\ rec.data \in SUBSET Elements
    BY <1>6
  <2> QED BY <2>1, <1>0, <1>1 DEF DirNode, IsDir
<1> QED BY <1>2, <1>3, <1>4, <1>5, <1>6 DEF Nodes

(* What the operations store are node records. *)
LEMMA StructuredType ==
    /\ DirNode \in Nodes /\ DirNode.ty \in Types /\ Scalars \subseteq Nodes
    /\ \A s \in Scalars : s.ty \in Types
    /\ \A h \in Hashes : Structured("hash", h) \in Nodes /\ Structured("tree", h) \in Nodes
    /\ \A l \in Seq(Elements) : Structured("list", l) \in Nodes
    /\ \A s \in SUBSET Elements : Structured("set", s) \in Nodes
<1>1. DirNode \in Nodes /\ Scalars \subseteq Nodes
  BY DEF Nodes
<1>2. \A h \in Hashes : Structured("hash", h) \in Nodes /\ Structured("tree", h) \in Nodes
  <2> HIDE DEF Hashes
  <2>1. \A h \in Hashes : /\ Structured("hash", h) \in [ty : {"hash", "tree"}, data : Hashes]
                          /\ Structured("tree", h) \in [ty : {"hash", "tree"}, data : Hashes]
    BY DEF Structured
  <2> QED BY <2>1 DEF Nodes
<1>3. \A l \in Seq(Elements) : Structured("list", l) \in Nodes
  <2>1. \A l \in Seq(Elements) : Structured("list", l) \in [ty : {"list"}, data : Seq(Elements)]
    BY DEF Structured
  <2> QED BY <2>1 DEF Nodes
<1>4. \A s \in SUBSET Elements : Structured("set", s) \in Nodes
  <2>1. \A s \in SUBSET Elements : Structured("set", s) \in [ty : {"set"}, data : SUBSET Elements]
    BY DEF Structured
  <2> QED BY <2>1 DEF Nodes
<1> QED BY <1>1, <1>2, <1>3, <1>4, NodeFacts

(* What the tree of a whole store says of a path. *)
LEMMA TreeFacts ==
    ASSUME NEW kv, Whole(kv)
    PROVE  /\ DOMAIN TreeOf(kv) = {p \in Paths : walk(kv)[p] # Absent}
           /\ TreeOf(kv) = [p \in DOMAIN TreeOf(kv) |-> kv[node_key(walk(kv)[p])]]
           /\ \A p \in Paths :
                 /\ p \in DOMAIN TreeOf(kv) <=> walk(kv)[p] # Absent
                 /\ exists(kv, p) <=> p \in DOMAIN TreeOf(kv)
                 /\ p \in DOMAIN TreeOf(kv) =>
                       /\ TreeOf(kv)[p] = Record(kv, p) /\ TreeOf(kv)[p] = kv[node_key(walk(kv)[p])]
                       /\ TreeOf(kv)[p] \in Nodes
                 /\ Visible!IsDirAt(TreeOf(kv), p) <=> exists(kv, p) /\ IsDir(Record(kv, p))
<1> DEFINE t == TreeOf(kv)
           w == walk(kv)
<1>1. \A p \in Paths : resolve(kv, p) = w[p] /\ (w[p] # Absent => w[p] \in Ids /\ Live(kv, w[p]))
  BY WalkFacts
<1>2. \A p \in Paths : (exists(kv, p) <=> w[p] # Absent) /\ Record(kv, p) = kv[node_key(w[p])]
  BY <1>1 DEF exists, Record
<1>3. Tree(kv) = {p \in Paths : w[p] # Absent}
  BY <1>2 DEF Tree
<1>4. t = [p \in Tree(kv) |-> kv[node_key(resolve(kv, p))]]
  BY DEF TreeOf
<1> HIDE DEF t, w
<1>5. DOMAIN t = Tree(kv) /\ \A p \in Tree(kv) : t[p] = kv[node_key(w[p])]
  BY <1>1, <1>3, <1>4
<1>6. t = [p \in DOMAIN t |-> kv[node_key(w[p])]]
  BY <1>1, <1>3, <1>4, <1>5
<1>7. \A p \in Tree(kv) : t[p] \in Nodes
  BY <1>1, <1>3, <1>5, WholeFacts
<1>8. \A p \in Paths : Visible!IsDirAt(t, p) <=> exists(kv, p) /\ IsDir(Record(kv, p))
  <2> TAKE p \in Paths
  <2>1. Visible!IsDirAt(t, p) <=> p \in DOMAIN t /\ t[p] = DirNode
    BY DEF Visible!IsDirAt, Visible!Dir, DirNode
  <2>2. p \in DOMAIN t => (IsDir(t[p]) <=> t[p] = DirNode)
    BY <1>5, <1>7, NodeFacts
  <2> QED BY <2>1, <2>2, <1>2, <1>3, <1>5
<1> QED BY <1>2, <1>3, <1>5, <1>6, <1>7, <1>8 DEF t, w

(* A store in which one path has come to lead to a node, or its node to hold *)
(* something else, stands for the tree with that path changed.               *)
LEMMA TreeWith ==
    ASSUME NEW kv, Whole(kv), NEW kv2, Whole(kv2), NEW path \in Paths, NEW id \in Ids, NEW rec,
           \A p \in Paths : walk(kv2)[p] = IF p = path THEN id ELSE walk(kv)[p],
           \A p \in Paths : walk(kv)[p] = id => p = path,
           \A i \in Ids : kv2[node_key(i)] = IF i = id THEN rec ELSE kv[node_key(i)]
    PROVE  TreeOf(kv2) = Visible!With(TreeOf(kv), path, rec)
<1> DEFINE t  == TreeOf(kv)
           t2 == TreeOf(kv2)
           w  == walk(kv)
<1>1. /\ DOMAIN t = {p \in Paths : w[p] # Absent}
      /\ \A p \in DOMAIN t : t[p] = kv[node_key(w[p])] /\ w[p] \in Ids
  <2>1. \A p \in Paths : w[p] \in Ids \cup {Absent}
    BY WalkType DEF Whole
  <2>2. /\ DOMAIN t = {p \in Paths : w[p] # Absent}
        /\ \A p \in Paths : p \in DOMAIN t => t[p] = kv[node_key(w[p])]
    BY TreeFacts
  <2> QED BY <2>1, <2>2
<1>2. /\ DOMAIN t2 = {p \in Paths : walk(kv2)[p] # Absent}
      /\ t2 = [p \in DOMAIN t2 |-> kv2[node_key(walk(kv2)[p])]]
  BY TreeFacts
<1> HIDE DEF t, t2, w
<1>3. DOMAIN t2 = DOMAIN t \cup {path}
  BY <1>1, <1>2, IdsAreNumbers DEF w
<1>4. \A p \in DOMAIN t2 : kv2[node_key(walk(kv2)[p])] = IF p = path THEN rec ELSE t[p]
  BY <1>1, <1>2, <1>3 DEF w
<1>5. t2 = [p \in DOMAIN t \cup {path} |-> IF p = path THEN rec ELSE t[p]]
  BY <1>2, <1>3, <1>4
<1> QED BY <1>5 DEF Visible!With, t, t2

(* A store in which one path has ceased to lead anywhere stands for the tree *)
(* without that path.                                                        *)
LEMMA TreeWithout ==
    ASSUME NEW kv, Whole(kv), NEW kv2, Whole(kv2), NEW path \in Paths, NEW id \in Ids,
           walk(kv)[path] = id,
           \A p \in Paths : walk(kv2)[p] = IF p = path THEN Absent ELSE walk(kv)[p],
           \A i \in Ids : kv2[node_key(i)] = IF i = id THEN Absent ELSE kv[node_key(i)]
    PROVE  TreeOf(kv2) = Visible!Without(TreeOf(kv), path)
<1> DEFINE t  == TreeOf(kv)
           t2 == TreeOf(kv2)
           w  == walk(kv)
<1>1. /\ DOMAIN t = {p \in Paths : w[p] # Absent}
      /\ \A p \in DOMAIN t : t[p] = kv[node_key(w[p])] /\ w[p] \in Ids
  <2>1. \A p \in Paths : w[p] \in Ids \cup {Absent}
    BY WalkType DEF Whole
  <2>2. /\ DOMAIN t = {p \in Paths : w[p] # Absent}
        /\ \A p \in Paths : p \in DOMAIN t => t[p] = kv[node_key(w[p])]
    BY TreeFacts
  <2> QED BY <2>1, <2>2
<1>2. /\ DOMAIN t2 = {p \in Paths : walk(kv2)[p] # Absent}
      /\ t2 = [p \in DOMAIN t2 |-> kv2[node_key(walk(kv2)[p])]]
  BY TreeFacts
<1>3. \A p, q \in Paths : (w[p] = w[q] /\ w[p] # Absent) => p = q
  BY WalkInjective
<1> HIDE DEF t, t2, w
<1>4. DOMAIN t2 = DOMAIN t \ {path}
  BY <1>1, <1>2 DEF w
<1>5. \A p \in DOMAIN t2 : w[p] # id /\ walk(kv2)[p] = w[p] /\ w[p] \in Ids
  BY <1>1, <1>3, <1>4 DEF w
<1>6. \A p \in DOMAIN t2 : kv2[node_key(walk(kv2)[p])] = t[p]
  BY <1>1, <1>4, <1>5
<1>7. t2 = [p \in DOMAIN t \ {path} |-> t[p]]
  BY <1>2, <1>4, <1>6
<1> QED BY <1>7 DEF Visible!Without, t, t2

(* The batch stays within the ids of the model. *)
InBound(batch) == meta_next_id \in DOMAIN batch => batch[meta_next_id] <= MaxId + 1

(* kv2 is kv with its tree become t2, and at most one more id given out. *)
Becomes(kv, kv2, t2) ==
    /\ Whole(kv2)
    /\ TreeOf(kv2) = t2
    /\ kv2[meta_version] = kv[meta_version]
    /\ kv2[meta_next_id] \in {kv[meta_next_id], kv[meta_next_id] + 1}
    /\ Indexed(kv) => Indexed(kv2)

(* Outcome r is the success that leaves t2, if it is to be one. *)
Outcome(kv, r, allowed, t2) ==
    IF allowed
    THEN r = Writes(r.batch) /\ (InBound(r.batch) => Becomes(kv, Commit(kv, r.batch), t2))
    ELSE r = Fails

(* How an operation that succeeds is shown to have its outcome. *)
LEMMA OutcomeForm ==
    ASSUME NEW kv, NEW batch, NEW t2,
           InBound(batch) => Becomes(kv, Commit(kv, batch), t2)
    PROVE  Outcome(kv, Writes(batch), TRUE, t2)
BY DEF Outcome, Writes

(* A new node where there is none. *)
LEMMA CreateOutcome ==
    ASSUME NEW kv, Whole(kv), NEW path \in Paths, path # <<>>, NEW rec \in Nodes,
           ParentIsDir(kv, path), path \notin DOMAIN TreeOf(kv)
    PROVE  /\ kv[child_key(resolve(kv, parent(path)), name(path))] = Absent
           /\ Outcome(kv, Writes(NewNode(kv, path, rec)), TRUE,
                      Visible!With(TreeOf(kv), path, rec))
<1> DEFINE batch == NewNode(kv, path, rec)
           kv2 == Commit(kv, batch)
           id  == kv[meta_next_id]
           dir == walk(kv)[parent(path)]
<1>1. parent(path) \in Paths
  BY ParentType
<1>2. resolve(kv, parent(path)) = dir /\ dir \in Ids /\ IsDir(kv[node_key(dir)])
  BY <1>1, WalkFacts DEF ParentIsDir, exists, Record
<1>3. walk(kv)[path] = Absent
  BY TreeFacts
<1>4. kv[child_key(dir, name(path))] = Absent
  BY <1>2, <1>3, WalkFacts, IdsAreNumbers
<1>5. ASSUME InBound(batch) PROVE Becomes(kv, kv2, Visible!With(TreeOf(kv), path, rec))
  <2>1. meta_next_id \in DOMAIN batch /\ batch[meta_next_id] = id + 1
    BY DEF NewNode, Put, ++
  <2>2. id \in Nat /\ MaxId \in Nat /\ id <= MaxId
    BY <2>1, <1>5, WholeFacts, IdsAreNumbers DEF InBound
  <2>3. rec.ty \in Types
    BY NodeFacts
  <2>4. /\ Whole(kv2)
        /\ kv2[meta_next_id] = id + 1 /\ kv2[meta_version] = kv[meta_version]
        /\ walk(kv2) = [p \in Paths |-> IF p = path THEN id ELSE walk(kv)[p]]
        /\ \A i \in Ids : kv2[node_key(i)] = IF i = id THEN rec ELSE kv[node_key(i)]
        /\ id \in Ids /\ ~Live(kv, id)
        /\ Indexed(kv) => Indexed(kv2)
    <3> HIDE DEF dir
    <3>1. walk(kv)[parent(path)] = dir
      BY DEF dir
    <3> QED BY <1>2, <1>4, <2>2, <2>3, <3>1, NewNodeStep
  <2> HIDE DEF kv2, id
  <2>5. \A p \in Paths : walk(kv)[p] = id => p = path
    BY <2>4, WalkFacts, IdsAreNumbers
  <2>6. TreeOf(kv2) = Visible!With(TreeOf(kv), path, rec)
    BY <2>4, <2>5, TreeWith
  <2> QED BY <2>4, <2>6 DEF Becomes, id
<1> HIDE DEF batch
<1> QED BY <1>2, <1>4, <1>5, OutcomeForm DEF batch

(* set, of a new or an existing path, does what NamespaceTree says. *)
LEMMA SetOutcome ==
    ASSUME NEW kv, Whole(kv), NEW path \in Paths, NEW value \in Nodes
    PROVE  Outcome(kv, set(kv, path, value), Visible!MayHold(TreeOf(kv), path),
                   Visible!With(TreeOf(kv), path, value))
<1> DEFINE t == TreeOf(kv)
           ok == Visible!MayHold(t, path)
<1>1. ok <=> path # <<>> /\ ParentIsDir(kv, path) /\ ~(exists(kv, path) /\ IsDir(Record(kv, path)))
  <2>1. Visible!Parent(path) = parent(path)
    BY DEF Visible!Parent, parent
  <2>2. path # <<>> => (Visible!IsDirAt(t, parent(path)) <=> ParentIsDir(kv, path))
    BY ParentType, TreeFacts DEF ParentIsDir
  <2>3. Visible!IsDirAt(t, path) <=> exists(kv, path) /\ IsDir(Record(kv, path))
    BY TreeFacts
  <2> QED BY <2>1, <2>2, <2>3 DEF Visible!MayHold
<1>2. CASE path = <<>> \/ ~ParentIsDir(kv, path)
  <2>1. set(kv, path, value) = Fails
    BY <1>2 DEF set
  <2>2. ~ok
    BY <1>1, <1>2
  <2> QED BY <2>1, <2>2 DEF Outcome
<1>3. CASE path # <<>> /\ ParentIsDir(kv, path) /\ ~exists(kv, path)
  <2>1. path \notin DOMAIN t
    BY <1>3, TreeFacts
  <2>2. /\ kv[child_key(resolve(kv, parent(path)), name(path))] = Absent
        /\ Outcome(kv, Writes(NewNode(kv, path, value)), TRUE, Visible!With(t, path, value))
    BY <1>3, <2>1, CreateOutcome
  <2>3. set(kv, path, value) = Writes(NewNode(kv, path, value))
    BY <2>2, <1>3 DEF set
  <2>4. ok
    BY <1>1, <1>3
  <2> HIDE DEF ok
  <2> QED BY <2>2, <2>3, <2>4 DEF Outcome, ok
<1>4. CASE path # <<>> /\ ParentIsDir(kv, path) /\ exists(kv, path)
  <2> DEFINE id == walk(kv)[path]
  <2>1. /\ resolve(kv, path) = id /\ id \in Ids /\ id # Absent
        /\ resolve(kv, parent(path)) = walk(kv)[parent(path)]
        /\ kv[child_key(resolve(kv, parent(path)), name(path))] = id
    BY <1>4, WalkFacts, ParentType, IdsAreNumbers DEF exists
  <2>2. Record(kv, path) = kv[node_key(id)]
    BY <2>1 DEF Record
  <2>3. CASE IsDir(Record(kv, path))
    <3>1. set(kv, path, value) = Fails
      BY <1>4, <2>1, <2>3 DEF set
    <3>2. ~ok
      BY <1>1, <1>4, <2>3
    <3> QED BY <3>1, <3>2 DEF Outcome
  <2>4. CASE ~IsDir(Record(kv, path))
    <3> DEFINE batch == Replace(kv, path, value)
               kv2 == Commit(kv, batch)
    <3>1. set(kv, path, value) = Writes(batch)
      BY <1>4, <2>1, <2>4 DEF set
    <3>2. ok
      BY <1>1, <1>4, <2>4
    <3>3. /\ Whole(kv2)
          /\ kv2[meta_next_id] = kv[meta_next_id] /\ kv2[meta_version] = kv[meta_version]
          /\ walk(kv2) = walk(kv)
          /\ \A i \in Ids : kv2[node_key(i)] = IF i = id THEN value ELSE kv[node_key(i)]
          /\ Indexed(kv) => Indexed(kv2)
      BY <1>4, <2>1, <2>2, <2>4, NodeFacts, ReplaceStep
    <3>4. \A p \in Paths : walk(kv)[p] = id => p = path
      BY <2>1, WalkInjective
    <3>5. TreeOf(kv2) = Visible!With(t, path, value)
      <4> HIDE DEF kv2
      <4> QED BY <2>1, <3>3, <3>4, TreeWith
    <3>6. Becomes(kv, kv2, Visible!With(t, path, value))
      BY <3>3, <3>5 DEF Becomes
    <3> HIDE DEF batch, ok
    <3> QED BY <3>1, <3>2, <3>6, OutcomeForm DEF Outcome, ok
  <2> QED BY <2>3, <2>4
<1> QED BY <1>2, <1>3, <1>4

(* mkdir does what NamespaceTree says. *)
LEMMA MkdirOutcome ==
    ASSUME NEW kv, Whole(kv), NEW path \in Paths
    PROVE  LET t == TreeOf(kv)
           IN  Outcome(kv, mkdir(kv, path),
                       path = <<>> \/ (path \notin DOMAIN t /\ Visible!MayHold(t, path)),
                       IF path \in DOMAIN t THEN t ELSE Visible!With(t, path, DirNode))
<1> DEFINE t == TreeOf(kv)
           ok == path = <<>> \/ (path \notin DOMAIN t /\ Visible!MayHold(t, path))
           t2 == IF path \in DOMAIN t THEN t ELSE Visible!With(t, path, DirNode)
<1>1. CASE path = <<>>
  <2>1. mkdir(kv, path) = Writes(<<>>)
    BY <1>1 DEF mkdir
  <2>2. Commit(kv, <<>>) = kv
    BY CommitNothing DEF Whole, StoreType
  <2>3. walk(kv)[path] # Absent
    BY <1>1, WalkFacts, IdsAreNumbers
  <2>4. path \in DOMAIN t
    BY <2>3, TreeFacts
  <2>5. Becomes(kv, kv, t)
    BY DEF Becomes
  <2>6. ok /\ t2 = t
    BY <1>1, <2>4
  <2> HIDE DEF ok, t2
  <2>7. Outcome(kv, Writes(<<>>), TRUE, t)
    BY <2>2, <2>5, OutcomeForm
  <2> QED BY <2>1, <2>6, <2>7 DEF Outcome, ok, t2
<1>2. CASE path # <<>> /\ (exists(kv, path) \/ ~ParentIsDir(kv, path))
  <2>1. mkdir(kv, path) = Fails
    BY <1>2 DEF mkdir
  <2>2. ~ok
    <3>1. Visible!Parent(path) = parent(path)
      BY DEF Visible!Parent, parent
    <3>2. Visible!IsDirAt(t, parent(path)) <=> ParentIsDir(kv, path)
      BY <1>2, ParentType, TreeFacts DEF ParentIsDir
    <3>3. exists(kv, path) <=> path \in DOMAIN t
      BY TreeFacts
    <3> QED BY <1>2, <3>1, <3>2, <3>3 DEF Visible!MayHold
  <2> QED BY <2>1, <2>2 DEF Outcome
<1>3. CASE path # <<>> /\ ~exists(kv, path) /\ ParentIsDir(kv, path)
  <2>1. mkdir(kv, path) = Writes(NewNode(kv, path, DirNode))
    BY <1>3 DEF mkdir
  <2>2. path \notin DOMAIN t
    BY <1>3, TreeFacts
  <2>3. Outcome(kv, Writes(NewNode(kv, path, DirNode)), TRUE, Visible!With(t, path, DirNode))
    BY <1>3, <2>2, StructuredType, CreateOutcome
  <2>4. ok
    <3>1. Visible!Parent(path) = parent(path)
      BY DEF Visible!Parent, parent
    <3>2. Visible!IsDirAt(t, parent(path)) /\ ~Visible!IsDirAt(t, path)
      BY <1>3, ParentType, TreeFacts DEF ParentIsDir
    <3> QED BY <1>3, <2>2, <3>1, <3>2 DEF Visible!MayHold
  <2>5. t2 = Visible!With(t, path, DirNode)
    BY <2>2
  <2> HIDE DEF ok, t2
  <2> QED BY <2>1, <2>3, <2>4, <2>5 DEF Outcome, ok, t2
<1> QED BY <1>1, <1>2, <1>3

(* A directory is empty where the tree has nothing below it. *)
LEMMA ChildrenBelow ==
    ASSUME NEW kv, Whole(kv), NEW path \in Paths, NEW id \in Ids, walk(kv)[path] = id
    PROVE  /\ Visible!Below(TreeOf(kv), path) = {} <=> ChildNames(kv, id) = {}
           /\ ChildNames(kv, id) # {} => IsDir(kv[node_key(id)])
<1> DEFINE t == TreeOf(kv)
           w == walk(kv)
<1>1. /\ EntriesLead(kv) /\ EntriesDiffer(kv)
      /\ \A i \in Ids : Live(kv, i) => \E p \in Paths : w[p] = i
  BY WholeFacts
<1>2. \A p, q \in Paths : (w[p] = w[q] /\ w[p] # Absent) => p = q
  BY WalkInjective
<1>3. \A q \in Paths : q \in DOMAIN t <=> w[q] # Absent
  BY TreeFacts
<1>4. DOMAIN t \subseteq Paths
  BY TreeFacts
<1>5. \A n \in ChildNames(kv, id) : n \in Names /\ kv[child_key(id, n)] # Absent
  BY DEF ChildNames
<1>6. ChildNames(kv, id) # {} => IsDir(kv[node_key(id)])
  BY <1>1, <1>5 DEF EntriesLead
<1>7. ASSUME NEW n \in ChildNames(kv, id) PROVE Visible!Below(t, path) # {}
  <2> DEFINE c == kv[child_key(id, n)]
  <2>1. n \in Names /\ c # Absent /\ c \in Ids /\ Live(kv, c) /\ c # ROOT_ID
    BY <1>1, <1>5 DEF EntriesLead
  <2>2. PICK q \in Paths : w[q] = c
    BY <1>1, <2>1
  <2>3. q # <<>>
    BY <2>1, <2>2, WalkFacts
  <2>4. /\ w[parent(q)] \in Ids /\ kv[child_key(w[parent(q)], name(q))] = c
        /\ name(q) \in Names /\ parent(q) \in Paths /\ Len(q) = Len(parent(q)) + 1
    BY <2>1, <2>2, <2>3, WalkFacts, ParentType
  <2>5. w[parent(q)] = id
    BY <1>1, <2>1, <2>4 DEF EntriesDiffer
  <2>6. parent(q) = path
    BY <1>2, <2>4, <2>5, IdsAreNumbers
  <2>7. q \in Visible!Below(t, path)
    <3>1. q \in DOMAIN t
      BY <1>3, <2>1, <2>2
    <3> QED BY <3>1, <2>4, <2>6 DEF Visible!Below, Visible!Parent, parent
  <2> QED BY <2>7
<1>8. ASSUME NEW q \in Visible!Below(t, path) PROVE ChildNames(kv, id) # {}
  <2>1. q \in DOMAIN t /\ Len(q) = Len(path) + 1 /\ parent(q) = path
    BY DEF Visible!Below, Visible!Parent, parent
  <2>2. q \in Paths /\ w[q] # Absent
    BY <2>1, <1>3, <1>4
  <2>3. q # <<>>
    BY <2>1, RootPath, PathType, ConstantAssumption
  <2>4. name(q) \in Names /\ w[q] = kv[child_key(id, name(q))]
    BY <2>1, <2>2, <2>3, ParentType, WalkFacts, IdsAreNumbers
  <2>5. name(q) \in ChildNames(kv, id)
    BY <2>2, <2>4 DEF ChildNames
  <2> QED BY <2>5
<1> QED BY <1>6, <1>7, <1>8

(* delete does what NamespaceTree says, and takes no id. *)
LEMMA DeleteOutcome ==
    ASSUME NEW kv, Whole(kv), NEW path \in Paths
    PROVE  LET t == TreeOf(kv)
           IN  /\ Outcome(kv, delete(kv, path),
                          path # <<>> /\ path \in DOMAIN t /\ Visible!Below(t, path) = {},
                          Visible!Without(t, path))
               /\ meta_next_id \notin DOMAIN delete(kv, path).batch
<1> DEFINE t  == TreeOf(kv)
           ok == path # <<>> /\ path \in DOMAIN t /\ Visible!Below(t, path) = {}
           id == walk(kv)[path]
<1>1. exists(kv, path) <=> path \in DOMAIN t
  BY TreeFacts
<1>f. meta_next_id \notin DOMAIN Fails.batch
  BY DEF Fails
<1>2. CASE path = <<>> \/ ~exists(kv, path)
  <2>1. delete(kv, path) = Fails
    BY <1>2 DEF delete
  <2>2. ~ok
    BY <1>1, <1>2
  <2> QED BY <2>1, <2>2, <1>f DEF Outcome
<1>3. CASE path # <<>> /\ exists(kv, path)
  <2>1. resolve(kv, path) = id /\ id \in Ids /\ Record(kv, path) = kv[node_key(id)]
    BY <1>3, WalkFacts DEF exists, Record
  <2>2. /\ Visible!Below(t, path) = {} <=> ChildNames(kv, id) = {}
        /\ ChildNames(kv, id) # {} => IsDir(kv[node_key(id)])
    BY <2>1, ChildrenBelow
  <2>3. CASE ChildNames(kv, id) # {}
    <3>1. delete(kv, path) = Fails
      BY <1>3, <2>1, <2>2, <2>3 DEF delete
    <3>2. ~ok
      BY <2>2, <2>3
    <3> QED BY <3>1, <3>2, <1>f DEF Outcome
  <2>4. CASE ChildNames(kv, id) = {}
    <3> DEFINE batch == Unlink(kv, path)
               kv2 == Commit(kv, batch)
    <3>1. delete(kv, path) = Writes(batch)
      BY <1>3, <2>1, <2>4 DEF delete
    <3>2. ok
      BY <1>1, <1>3, <2>2, <2>4
    <3>3. \A n \in Names : kv[child_key(id, n)] = Absent
      BY <2>4 DEF ChildNames
    <3>4. /\ Whole(kv2)
          /\ kv2[meta_next_id] = kv[meta_next_id] /\ kv2[meta_version] = kv[meta_version]
          /\ walk(kv2) = [p \in Paths |-> IF p = path THEN Absent ELSE walk(kv)[p]]
          /\ \A i \in Ids : kv2[node_key(i)] = IF i = id THEN Absent ELSE kv[node_key(i)]
          /\ Indexed(kv) => Indexed(kv2)
      <4> HIDE DEF id
      <4>1. walk(kv)[path] = id
        BY DEF id
      <4> QED BY <1>3, <2>1, <3>3, <4>1, UnlinkStep
    <3>5. TreeOf(kv2) = Visible!Without(t, path)
      <4> HIDE DEF kv2, id
      <4>1. walk(kv)[path] = id
        BY DEF id
      <4> QED BY <2>1, <3>4, <4>1, TreeWithout
    <3>6. Becomes(kv, kv2, Visible!Without(t, path))
      BY <3>4, <3>5 DEF Becomes
    <3>7. meta_next_id \notin DOMAIN batch
      BY DEF Unlink, Put, ++, meta_next_id, type_index_key, child_key, node_key
    <3>8. delete(kv, path).batch = batch
      BY <3>1 DEF Writes
    <3> HIDE DEF batch, ok
    <3>9. Outcome(kv, Writes(batch), TRUE, Visible!Without(t, path))
      BY <3>6, OutcomeForm
    <3> QED BY <3>1, <3>2, <3>7, <3>8, <3>9 DEF Outcome, ok
  <2> QED BY <2>3, <2>4
<1> QED BY <1>2, <1>3

(* An entry laid over a map. *)
LEMMA PutOver ==
    ASSUME NEW m, NEW key, NEW value
    PROVE  Put(key, value) ++ m = Visible!With(m, key, value)
<1>1. DOMAIN m \cup {key} = {key} \cup DOMAIN m
  OBVIOUS
<1>2. Put(key, value) ++ m = [x \in DOMAIN m \cup {key} |-> IF x \in {key} THEN Put(key, value)[x] ELSE m[x]]
  BY <1>1 DEF ++, Put
<1>3. \A x \in DOMAIN m \cup {key} :
         (IF x \in {key} THEN Put(key, value)[x] ELSE m[x]) = (IF x = key THEN value ELSE m[x])
  BY DEF Put
<1> QED BY <1>2, <1>3 DEF Visible!With

(* A hash with one more entry is a hash. *)
LEMMA HashType ==
    ASSUME NEW m \in Hashes, NEW key \in Fields, NEW value \in Elements
    PROVE  Put(key, value) ++ m \in Hashes
<1>1. PICK keys \in SUBSET Fields : m \in [keys -> Elements]
  BY DEF Hashes
<1>2. Put(key, value) ++ m \in [keys \cup {key} -> Elements]
  <2>1. Visible!With(m, key, value) \in [keys \cup {key} -> Elements]
    BY <1>1 DEF Visible!With
  <2>2. Put(key, value) ++ m = Visible!With(m, key, value)
    BY PutOver
  <2> QED BY <2>1, <2>2
<1>3. keys \cup {key} \in SUBSET Fields
  BY <1>1
<1> QED BY <1>2, <1>3 DEF Hashes

(* An empty hash, or an empty list, is one. *)
LEMMA EmptyType == <<>> \in Hashes /\ <<>> \in Seq(Elements)
<1>1. <<>> \in [{} -> Elements] /\ {} \in SUBSET Fields
  OBVIOUS
<1> QED BY <1>1 DEF Hashes

(* Changing a structured value, if it is of the type. *)
LEMMA UpdateOutcome ==
    ASSUME NEW kv, Whole(kv), NEW path \in Paths, NEW ty, NEW data,
           (exists(kv, path) => Record(kv, path).ty = ty) => Structured(ty, data) \in Nodes
    PROVE  LET t == TreeOf(kv)
           IN  Outcome(kv, Update(kv, path, ty, data), Visible!Fits(t, path, ty),
                       Visible!With(t, path, [ty |-> ty, data |-> data]))
<1> DEFINE t == TreeOf(kv)
<1>1. exists(kv, path) <=> path \in DOMAIN t
  BY TreeFacts
<1>2. path \in DOMAIN t => t[path] = Record(kv, path)
  BY TreeFacts
<1> HIDE DEF t
<1>3. CASE exists(kv, path) /\ Record(kv, path).ty # ty
  <2>1. Update(kv, path, ty, data) = Fails
    BY <1>3 DEF Update
  <2>2. ~Visible!Fits(t, path, ty)
    BY <1>1, <1>2, <1>3 DEF Visible!Fits
  <2> QED BY <2>1, <2>2 DEF Outcome, t
<1>4. CASE ~(exists(kv, path) /\ Record(kv, path).ty # ty)
  <2>1. Update(kv, path, ty, data) = set(kv, path, Structured(ty, data))
    BY <1>4 DEF Update
  <2>2. Visible!Fits(t, path, ty) <=> Visible!MayHold(t, path)
    BY <1>1, <1>2, <1>4 DEF Visible!Fits
  <2>3. Outcome(kv, set(kv, path, Structured(ty, data)), Visible!MayHold(t, path),
                Visible!With(t, path, Structured(ty, data)))
    BY <1>4, SetOutcome DEF t
  <2> QED BY <2>1, <2>2, <2>3 DEF Outcome, Structured, t
<1> QED BY <1>3, <1>4

(* What a structured operation reads at a path is what the tree has there. *)
LEMMA DataFacts ==
    ASSUME NEW kv, Whole(kv), NEW path \in Paths
    PROVE  /\ \A empty : Data(kv, path, empty) = Visible!DataAt(TreeOf(kv), path, empty)
           /\ exists(kv, path) => Record(kv, path) \in Nodes
<1>1. exists(kv, path) <=> path \in DOMAIN TreeOf(kv)
  BY TreeFacts
<1>2. path \in DOMAIN TreeOf(kv) => TreeOf(kv)[path] = Record(kv, path) /\ TreeOf(kv)[path] \in Nodes
  BY TreeFacts
<1> QED BY <1>1, <1>2 DEF Data, Visible!DataAt

(* hash_set and tree_set do what NamespaceTree says. *)
LEMMA HashOutcome ==
    ASSUME NEW kv, Whole(kv), NEW path \in Paths, NEW ty \in {"hash", "tree"},
           NEW key \in Fields, NEW value \in Elements
    PROVE  LET t == TreeOf(kv)
               data == Visible!With(Visible!DataAt(t, path, <<>>), key, value)
           IN  Outcome(kv, Update(kv, path, ty, Put(key, value) ++ Data(kv, path, <<>>)),
                       Visible!Fits(t, path, ty), Visible!With(t, path, [ty |-> ty, data |-> data]))
<1> DEFINE m == Data(kv, path, <<>>)
           data == Put(key, value) ++ m
<1>1. (exists(kv, path) => Record(kv, path).ty = ty) => m \in Hashes
  <2>1. exists(kv, path) => Record(kv, path) \in Nodes
    BY DataFacts
  <2>2. m = IF exists(kv, path) THEN Record(kv, path).data ELSE <<>>
    BY DEF Data
  <2> QED BY <2>1, <2>2, NodeFacts, EmptyType
<1>2. m = Visible!DataAt(TreeOf(kv), path, <<>>)
  BY DataFacts
<1> HIDE DEF m
<1>3. (exists(kv, path) => Record(kv, path).ty = ty) => Structured(ty, data) \in Nodes
  BY <1>1, HashType, StructuredType
<1>4. data = Visible!With(m, key, value)
  BY PutOver
<1> HIDE DEF data
<1>5. Outcome(kv, Update(kv, path, ty, data), Visible!Fits(TreeOf(kv), path, ty),
              Visible!With(TreeOf(kv), path, [ty |-> ty, data |-> data]))
  BY <1>3, UpdateOutcome
<1> QED BY <1>2, <1>4, <1>5 DEF data, m

(* list_push does what NamespaceTree says. *)
LEMMA ListOutcome ==
    ASSUME NEW kv, Whole(kv), NEW path \in Paths, NEW value \in Elements
    PROVE  LET t == TreeOf(kv)
               data == Append(Visible!DataAt(t, path, <<>>), value)
           IN  Outcome(kv, list_push(kv, path, value),
                       Visible!Fits(t, path, "list"), Visible!With(t, path, [ty |-> "list", data |-> data]))
<1> DEFINE m == Data(kv, path, <<>>)
           data == Append(m, value)
<1>1. (exists(kv, path) => Record(kv, path).ty = "list") => m \in Seq(Elements)
  <2>1. exists(kv, path) => Record(kv, path) \in Nodes
    BY DataFacts
  <2>2. m = IF exists(kv, path) THEN Record(kv, path).data ELSE <<>>
    BY DEF Data
  <2> QED BY <2>1, <2>2, NodeFacts, EmptyType
<1>2. m = Visible!DataAt(TreeOf(kv), path, <<>>)
  BY DataFacts
<1>3. list_push(kv, path, value) = Update(kv, path, "list", data)
  BY DEF list_push
<1> HIDE DEF m
<1>4. (exists(kv, path) => Record(kv, path).ty = "list") => Structured("list", data) \in Nodes
  <2>1. m \in Seq(Elements) => data \in Seq(Elements)
    OBVIOUS
  <2> HIDE DEF data
  <2> QED BY <2>1, <1>1, StructuredType
<1> HIDE DEF data
<1>5. Outcome(kv, Update(kv, path, "list", data), Visible!Fits(TreeOf(kv), path, "list"),
              Visible!With(TreeOf(kv), path, [ty |-> "list", data |-> data]))
  BY <1>4, UpdateOutcome
<1> QED BY <1>2, <1>3, <1>5 DEF data

(* set_add does what NamespaceTree says. *)
LEMMA SetAddOutcome ==
    ASSUME NEW kv, Whole(kv), NEW path \in Paths, NEW value \in Elements
    PROVE  LET t == TreeOf(kv)
               data == Visible!DataAt(t, path, {}) \cup {value}
           IN  Outcome(kv, set_add(kv, path, value),
                       Visible!Fits(t, path, "set"), Visible!With(t, path, [ty |-> "set", data |-> data]))
<1> DEFINE m == Data(kv, path, {})
           data == m \cup {value}
<1>1. (exists(kv, path) => Record(kv, path).ty = "set") => m \in SUBSET Elements
  <2>1. exists(kv, path) => Record(kv, path) \in Nodes
    BY DataFacts
  <2>2. m = IF exists(kv, path) THEN Record(kv, path).data ELSE {}
    BY DEF Data
  <2> QED BY <2>1, <2>2, NodeFacts
<1>2. m = Visible!DataAt(TreeOf(kv), path, {})
  BY DataFacts
<1>3. set_add(kv, path, value) = Update(kv, path, "set", data)
  BY DEF set_add
<1> HIDE DEF m
<1>4. (exists(kv, path) => Record(kv, path).ty = "set") => Structured("set", data) \in Nodes
  <2>1. m \in SUBSET Elements => data \in SUBSET Elements
    OBVIOUS
  <2> HIDE DEF data
  <2> QED BY <2>1, <1>1, StructuredType
<1> HIDE DEF data
<1>5. Outcome(kv, Update(kv, path, "set", data), Visible!Fits(TreeOf(kv), path, "set"),
              Visible!With(TreeOf(kv), path, [ty |-> "set", data |-> data]))
  BY <1>4, UpdateOutcome
<1> QED BY <1>2, <1>3, <1>5 DEF data

(* Every operation does to the tree what NamespaceTree says. *)
LEMMA RunOutcome ==
    ASSUME NEW kv, Whole(kv), NEW o \in Ops
    PROVE  /\ Outcome(kv, Run(kv, o), Visible!Allowed(TreeOf(kv), o), Visible!Effect(TreeOf(kv), o))
           /\ o.op = "delete" => meta_next_id \notin DOMAIN Run(kv, o).batch
<1> DEFINE t == TreeOf(kv)
<1>0. Targets \subseteq Paths /\ Scalars \subseteq Nodes
  BY OpsAssumption, StructuredType
<1>1. CASE o \in [op : {"mkdir", "delete"}, path : Targets] /\ o.op = "mkdir"
  <2>1. o.path \in Paths
    BY <1>0, <1>1
  <2>2. Run(kv, o) = mkdir(kv, o.path)
    BY <1>1 DEF Run
  <2>3. Visible!Allowed(t, o) <=> o.path = <<>> \/ (o.path \notin DOMAIN t /\ Visible!MayHold(t, o.path))
    BY <1>1 DEF Visible!Allowed
  <2>4. Visible!Effect(t, o) = IF o.path \in DOMAIN t THEN t ELSE Visible!With(t, o.path, DirNode)
    BY <1>1 DEF Visible!Effect, Visible!Dir, DirNode
  <2> QED BY <2>1, <2>2, <2>3, <2>4, <1>1, MkdirOutcome DEF Outcome
<1>2. CASE o \in [op : {"mkdir", "delete"}, path : Targets] /\ o.op = "delete"
  <2>1. o.path \in Paths
    BY <1>0, <1>2
  <2>2. Run(kv, o) = delete(kv, o.path)
    BY <1>2 DEF Run
  <2>3. Visible!Allowed(t, o) <=> o.path # <<>> /\ o.path \in DOMAIN t /\ Visible!Below(t, o.path) = {}
    BY <1>2 DEF Visible!Allowed
  <2>4. Visible!Effect(t, o) = Visible!Without(t, o.path)
    BY <1>2 DEF Visible!Effect
  <2> QED BY <2>1, <2>2, <2>3, <2>4, DeleteOutcome DEF Outcome
<1>3. CASE o \in [op : {"set"}, path : Targets, value : Scalars]
  <2>1. o.op = "set" /\ o.path \in Paths /\ o.value \in Nodes
    BY <1>0, <1>3
  <2>2. Run(kv, o) = set(kv, o.path, o.value)
    BY <2>1 DEF Run
  <2>3. Visible!Allowed(t, o) <=> Visible!MayHold(t, o.path)
    BY <2>1 DEF Visible!Allowed
  <2>4. Visible!Effect(t, o) = Visible!With(t, o.path, o.value)
    BY <2>1 DEF Visible!Effect
  <2> QED BY <2>1, <2>2, <2>3, <2>4, SetOutcome DEF Outcome
<1>4. CASE o \in [op : {"hash_set", "tree_set"}, path : Targets, key : Fields, value : Elements]
  <2>1. o.op \in {"hash_set", "tree_set"} /\ o.path \in Paths /\ o.key \in Fields /\ o.value \in Elements
    BY <1>0, <1>4
  <2> DEFINE data == Visible!With(Visible!DataAt(t, o.path, <<>>), o.key, o.value)
  <2>2. CASE o.op = "hash_set"
    <3>1. Run(kv, o) = Update(kv, o.path, "hash", Put(o.key, o.value) ++ Data(kv, o.path, <<>>))
      BY <2>2 DEF Run, hash_set
    <3>2. Visible!Allowed(t, o) <=> Visible!Fits(t, o.path, "hash")
      BY <2>2 DEF Visible!Allowed
    <3>3. Visible!Effect(t, o) = Visible!With(t, o.path, [ty |-> "hash", data |-> data])
      BY <2>2 DEF Visible!Effect
    <3>4. Outcome(kv, Update(kv, o.path, "hash", Put(o.key, o.value) ++ Data(kv, o.path, <<>>)),
                  Visible!Fits(t, o.path, "hash"), Visible!With(t, o.path, [ty |-> "hash", data |-> data]))
      BY <2>1, HashOutcome
    <3> QED BY <2>2, <3>1, <3>2, <3>3, <3>4 DEF Outcome
  <2>3. CASE o.op = "tree_set"
    <3>1. Run(kv, o) = Update(kv, o.path, "tree", Put(o.key, o.value) ++ Data(kv, o.path, <<>>))
      BY <2>3 DEF Run, tree_set
    <3>2. Visible!Allowed(t, o) <=> Visible!Fits(t, o.path, "tree")
      BY <2>3 DEF Visible!Allowed
    <3>3. Visible!Effect(t, o) = Visible!With(t, o.path, [ty |-> "tree", data |-> data])
      BY <2>3 DEF Visible!Effect
    <3>4. Outcome(kv, Update(kv, o.path, "tree", Put(o.key, o.value) ++ Data(kv, o.path, <<>>)),
                  Visible!Fits(t, o.path, "tree"), Visible!With(t, o.path, [ty |-> "tree", data |-> data]))
      BY <2>1, HashOutcome
    <3> QED BY <2>3, <3>1, <3>2, <3>3, <3>4 DEF Outcome
  <2> QED BY <2>1, <2>2, <2>3
<1>5. CASE o \in [op : {"list_push", "set_add"}, path : Targets, value : Elements]
  <2>1. o.op \in {"list_push", "set_add"} /\ o.path \in Paths /\ o.value \in Elements
    BY <1>0, <1>5
  <2>2. CASE o.op = "list_push"
    <3>1. Run(kv, o) = list_push(kv, o.path, o.value)
      BY <2>2 DEF Run
    <3>2. Visible!Allowed(t, o) <=> Visible!Fits(t, o.path, "list")
      BY <2>2 DEF Visible!Allowed
    <3>3. Visible!Effect(t, o) = Visible!With(t, o.path,
                 [ty |-> "list", data |-> Append(Visible!DataAt(t, o.path, <<>>), o.value)])
      BY <2>2 DEF Visible!Effect
    <3> QED BY <2>1, <2>2, <3>1, <3>2, <3>3, ListOutcome DEF Outcome
  <2>3. CASE o.op = "set_add"
    <3>1. Run(kv, o) = set_add(kv, o.path, o.value)
      BY <2>3 DEF Run
    <3>2. Visible!Allowed(t, o) <=> Visible!Fits(t, o.path, "set")
      BY <2>3 DEF Visible!Allowed
    <3>3. Visible!Effect(t, o) = Visible!With(t, o.path,
                 [ty |-> "set", data |-> Visible!DataAt(t, o.path, {}) \cup {o.value}])
      BY <2>3 DEF Visible!Effect
    <3> QED BY <2>1, <2>3, <3>1, <3>2, <3>3, SetAddOutcome DEF Outcome
  <2> QED BY <2>1, <2>2, <2>3
<1>6. \A x \in [op : {"mkdir", "delete"}, path : Targets] : x.op \in {"mkdir", "delete"}
  OBVIOUS
<1> QED BY <1>1, <1>2, <1>3, <1>4, <1>5, <1>6 DEF Ops

-----------------------------------------------------------------------------
(* Transactions *)

(* The loop of apply_txn, turn by turn. *)
Turns(kv, ops) ==
    LET run[n \in 0..Len(ops)] ==
            IF n = 0 THEN Writes(<<>>) ELSE apply_one(kv, run[n - 1], ops[n])
    IN  run

IsTurns(kv, ops, f, m) ==
    f = [n \in 0..m |-> IF n = 0 THEN Writes(<<>>) ELSE apply_one(kv, f[n - 1], ops[n])]

(* The turns of a transaction have an outcome, each from the one before. *)
LEMMA TurnsExist ==
    ASSUME NEW kv, NEW ops, NEW m \in Nat
    PROVE  \E f : IsTurns(kv, ops, f, m)
<1> DEFINE Bad == {n \in Nat : ~\E f : IsTurns(kv, ops, f, n)}
<1>1. SUFFICES ASSUME Bad # {} PROVE FALSE
  OBVIOUS
<1>2. PICK n \in Bad : \A k \in Bad : n <= k
  BY <1>1, MinExists
<1>3. CASE n = 0
  <2> DEFINE f == [k \in 0..0 |-> Writes(<<>>)]
  <2>1. \A k \in 0..0 : k = 0
    OBVIOUS
  <2>2. IsTurns(kv, ops, f, 0)
    BY <2>1 DEF IsTurns
  <2> QED BY <2>2, <1>2, <1>3
<1>4. CASE n # 0
  <2>1. n - 1 \in Nat /\ n - 1 \notin Bad /\ n \in Nat
    BY <1>2, <1>4
  <2>2. PICK f : IsTurns(kv, ops, f, n - 1)
    BY <2>1
  <2> DEFINE g == [k \in 0..n |-> IF k = n THEN apply_one(kv, f[n - 1], ops[n]) ELSE f[k]]
  <2>3. \A k \in 0..(n - 1) : f[k] = IF k = 0 THEN Writes(<<>>) ELSE apply_one(kv, f[k - 1], ops[k])
    BY <2>2 DEF IsTurns
  <2>4. \A k \in 0..n : k # 0 => k - 1 \in 0..n /\ g[k - 1] = f[k - 1]
    BY <2>1
  <2>5. \A k \in 0..n : g[k] = IF k = 0 THEN Writes(<<>>) ELSE apply_one(kv, f[k - 1], ops[k])
    BY <2>1, <2>3, <1>4
  <2>6. \A k \in 0..n : g[k] = IF k = 0 THEN Writes(<<>>) ELSE apply_one(kv, g[k - 1], ops[k])
    <3> HIDE DEF g
    <3> QED BY <2>4, <2>5
  <2>7. g = [k \in 0..n |-> g[k]]
    OBVIOUS
  <2>8. IsTurns(kv, ops, g, n)
    <3> HIDE DEF g
    <3> QED BY <2>6, <2>7 DEF IsTurns
  <2> QED BY <2>8, <1>2
<1> QED BY <1>3, <1>4

(* apply_txn is the outcome of the last turn, and a turn is apply_one on the *)
(* outcome of the turn before.                                               *)
LEMMA TurnsDef ==
    ASSUME NEW kv, NEW ops, Len(ops) \in Nat
    PROVE  /\ apply_txn(kv, ops) = Turns(kv, ops)[Len(ops)]
           /\ \A n \in 0..Len(ops) : Turns(kv, ops)[n] =
                 IF n = 0 THEN Writes(<<>>) ELSE apply_one(kv, Turns(kv, ops)[n - 1], ops[n])
<1> DEFINE Is(f) == IsTurns(kv, ops, f, Len(ops))
<1>1. \E f : Is(f)
  BY TurnsExist
<1>2. Turns(kv, ops) = CHOOSE f : Is(f)
  BY DEF Turns, IsTurns
<1> HIDE DEF Is
<1>3. Is(Turns(kv, ops))
  BY <1>1, <1>2
<1>4. apply_txn(kv, ops) = Turns(kv, ops)[Len(ops)]
  BY DEF apply_txn, Turns
<1> QED BY <1>3, <1>4 DEF Is, IsTurns

(* The stages of NamespaceTree, likewise. *)
NextStage(t, o) == IF Visible!Allowed(t, o) THEN Visible!Effect(t, o) ELSE t

IsStages(t, ops, f, m) ==
    f = [n \in 0..m |-> IF n = 0 THEN t ELSE NextStage(f[n - 1], ops[n])]

(* The stages of a tree have an outcome, each from the one before. *)
LEMMA StagesExist ==
    ASSUME NEW t, NEW ops, NEW m \in Nat
    PROVE  \E f : IsStages(t, ops, f, m)
<1> DEFINE Bad == {n \in Nat : ~\E f : IsStages(t, ops, f, n)}
<1>1. SUFFICES ASSUME Bad # {} PROVE FALSE
  OBVIOUS
<1>2. PICK n \in Bad : \A k \in Bad : n <= k
  BY <1>1, MinExists
<1>3. CASE n = 0
  <2> DEFINE f == [k \in 0..0 |-> t]
  <2>1. \A k \in 0..0 : k = 0
    OBVIOUS
  <2>2. IsStages(t, ops, f, 0)
    BY <2>1 DEF IsStages
  <2> QED BY <2>2, <1>2, <1>3
<1>4. CASE n # 0
  <2>1. n - 1 \in Nat /\ n - 1 \notin Bad /\ n \in Nat
    BY <1>2, <1>4
  <2>2. PICK f : IsStages(t, ops, f, n - 1)
    BY <2>1
  <2> DEFINE g == [k \in 0..n |-> IF k = n THEN NextStage(f[n - 1], ops[n]) ELSE f[k]]
  <2>3. \A k \in 0..(n - 1) : f[k] = IF k = 0 THEN t ELSE NextStage(f[k - 1], ops[k])
    BY <2>2 DEF IsStages
  <2>4. \A k \in 0..n : k # 0 => k - 1 \in 0..n /\ g[k - 1] = f[k - 1]
    BY <2>1
  <2>5. \A k \in 0..n : g[k] = IF k = 0 THEN t ELSE NextStage(f[k - 1], ops[k])
    BY <2>1, <2>3, <1>4
  <2>6. \A k \in 0..n : g[k] = IF k = 0 THEN t ELSE NextStage(g[k - 1], ops[k])
    <3> HIDE DEF g
    <3> QED BY <2>4, <2>5
  <2>7. g = [k \in 0..n |-> g[k]]
    OBVIOUS
  <2>8. IsStages(t, ops, g, n)
    <3> HIDE DEF g
    <3> QED BY <2>6, <2>7 DEF IsStages
  <2> QED BY <2>8, <1>2
<1> QED BY <1>3, <1>4

(* A stage of the tree is what the operation makes of the stage before. *)
LEMMA StagesDef ==
    ASSUME NEW t, NEW ops, Len(ops) \in Nat
    PROVE  \A n \in 0..Len(ops) : Visible!Stages(t, ops)[n] =
              IF n = 0 THEN t ELSE NextStage(Visible!Stages(t, ops)[n - 1], ops[n])
<1> DEFINE Is(f) == IsStages(t, ops, f, Len(ops))
<1>1. \E f : Is(f)
  BY StagesExist
<1>2. Visible!Stages(t, ops) = CHOOSE f : Is(f)
  BY DEF Visible!Stages, IsStages, NextStage
<1> HIDE DEF Is
<1>3. Is(Visible!Stages(t, ops))
  BY <1>1, <1>2
<1> QED BY <1>3 DEF Is, IsStages

(* An operation gives out the next id or none. *)
NextIdOnly(kv, r) == meta_next_id \in DOMAIN r.batch => r.batch[meta_next_id] = kv[meta_next_id] + 1

(* set takes at most one id, the next. *)
LEMMA SetNextId ==
    ASSUME NEW kv, NEW path, NEW value
    PROVE  NextIdOnly(kv, set(kv, path, value))
<1>1. NextIdOnly(kv, Fails)
  BY DEF NextIdOnly, Fails
<1>2. NextIdOnly(kv, Writes(NewNode(kv, path, value)))
  BY DEF NextIdOnly, Writes, NewNode, Put, ++
<1>3. NextIdOnly(kv, Writes(Replace(kv, path, value)))
  BY DEF NextIdOnly, Writes, Replace, Put, ++, meta_next_id, node_key, type_index_key
<1> QED BY <1>1, <1>2, <1>3 DEF set

(* So does every operation. *)
LEMMA RunNextId ==
    ASSUME NEW kv, NEW o \in Ops
    PROVE  NextIdOnly(kv, Run(kv, o))
<1>1. NextIdOnly(kv, Fails) /\ NextIdOnly(kv, Writes(<<>>))
  BY DEF NextIdOnly, Fails, Writes
<1>2. \A path, value : NextIdOnly(kv, set(kv, path, value))
  BY SetNextId
<1>3. \A path, ty, data : NextIdOnly(kv, Update(kv, path, ty, data))
  BY <1>1, <1>2 DEF Update
<1>4. \A path, rec : NextIdOnly(kv, Writes(NewNode(kv, path, rec)))
  BY DEF NextIdOnly, Writes, NewNode, Put, ++
<1>5. \A path : NextIdOnly(kv, mkdir(kv, path))
  BY <1>1, <1>4 DEF mkdir
<1>6. \A path : NextIdOnly(kv, Writes(Unlink(kv, path)))
  BY DEF NextIdOnly, Writes, Unlink, Put, ++, meta_next_id, node_key, child_key, type_index_key
<1>7. \A path : NextIdOnly(kv, delete(kv, path))
  BY <1>1, <1>6 DEF delete
<1>8. o.op \in {"mkdir", "delete", "set", "hash_set", "tree_set", "list_push", "set_add"}
  BY DEF Ops
<1> QED BY <1>2, <1>3, <1>5, <1>7, <1>8 DEF Run, hash_set, tree_set, list_push, set_add

(* The operations after the n-th that may need an id. *)
Needing(ops, n) == {i \in (n + 1)..Len(ops) : ops[i].op # "delete"}

(* After a turn one operation fewer may need an id, unless it was a delete. *)
LEMMA NeedingStep ==
    ASSUME NEW ops, Len(ops) \in Nat, NEW n \in 1..Len(ops)
    PROVE  /\ Cardinality(Needing(ops, n)) \in Nat
           /\ Cardinality(Needing(ops, n - 1)) =
                 IF ops[n].op = "delete" THEN Cardinality(Needing(ops, n))
                 ELSE Cardinality(Needing(ops, n)) + 1
<1>1. IsFiniteSet((n + 1)..Len(ops))
  BY FS_Interval
<1>2. IsFiniteSet(Needing(ops, n))
  BY <1>1, FS_Subset DEF Needing
<1>3. Cardinality(Needing(ops, n)) \in Nat
  BY <1>2, FS_CardinalityType
<1>4. n \notin Needing(ops, n)
  BY DEF Needing
<1>5. Needing(ops, n - 1) = IF ops[n].op = "delete" THEN Needing(ops, n) ELSE Needing(ops, n) \cup {n}
  BY DEF Needing
<1>6. Cardinality(Needing(ops, n) \cup {n}) = Cardinality(Needing(ops, n)) + 1
  BY <1>2, <1>4, FS_AddElement
<1> QED BY <1>3, <1>5, <1>6

(* After n turns: all done and room left for the rest, or failed for good. *)
AfterTurns(kv, ops, n) ==
    LET S == Visible!Stages(TreeOf(kv), ops)
        r == Turns(kv, ops)[n]
        view == Commit(kv, r.batch)
    IN  IF \A k \in 1..n : Visible!Allowed(S[k - 1], ops[k])
        THEN /\ r = Writes(r.batch)
             /\ Whole(view)
             /\ TreeOf(view) = S[n]
             /\ view[meta_version] = kv[meta_version]
             /\ Indexed(kv) => Indexed(view)
             /\ view[meta_next_id] \in Nat
             /\ view[meta_next_id] + Cardinality(Needing(ops, n)) <= MaxId + 1
        ELSE r = Fails

(* Before its first turn a transaction has the store as it is, and the ids   *)
(* that it may need.                                                         *)
LEMMA TurnsStart ==
    ASSUME NEW kv, Whole(kv), NEW ops \in Seq(Ops),
           kv[meta_next_id] + Cardinality({i \in DOMAIN ops : ops[i].op # "delete"}) <= MaxId + 1
    PROVE  AfterTurns(kv, ops, 0)
<1> DEFINE S == Visible!Stages(TreeOf(kv), ops)
           r == Turns(kv, ops)[0]
<1>1. Len(ops) \in Nat /\ 0 \in 0..Len(ops) /\ DOMAIN ops = 1..Len(ops)
  OBVIOUS
<1>2. r = Writes(<<>>)
  BY <1>1, TurnsDef
<1>3. S[0] = TreeOf(kv)
  BY <1>1, StagesDef
<1>4. r.batch = <<>> /\ r = Writes(r.batch)
  BY <1>2 DEF Writes
<1>5. Commit(kv, <<>>) = kv
  BY CommitNothing DEF Whole, StoreType
<1>6. Needing(ops, 0) = {i \in DOMAIN ops : ops[i].op # "delete"}
  BY <1>1 DEF Needing
<1>7. kv[meta_next_id] \in Nat
  BY WholeFacts
<1>8. \A k \in 1..0 : Visible!Allowed(S[k - 1], ops[k])
  OBVIOUS
<1> DEFINE view == Commit(kv, r.batch)
<1>9. view = kv
  BY <1>4, <1>5
<1> HIDE DEF S, r, view
<1>10. /\ r = Writes(r.batch)
       /\ Whole(view)
       /\ TreeOf(view) = S[0]
       /\ view[meta_version] = kv[meta_version]
       /\ Indexed(kv) => Indexed(view)
       /\ view[meta_next_id] \in Nat
       /\ view[meta_next_id] + Cardinality(Needing(ops, 0)) <= MaxId + 1
  BY <1>3, <1>4, <1>6, <1>7, <1>9
<1> QED BY <1>8, <1>10 DEF AfterTurns, S, r, view

(* A turn that succeeds leaves a tree of nodes under the overlay, with the   *)
(* index in order, that stands for the next stage; one that fails ends in    *)
(* failure. Ids suffice for what is left.                                    *)
LEMMA TurnsStep ==
    ASSUME NEW kv, Whole(kv), NEW ops \in Seq(Ops), NEW n \in 1..Len(ops),
           AfterTurns(kv, ops, n - 1)
    PROVE  AfterTurns(kv, ops, n)
<1> DEFINE t == TreeOf(kv)
           S == Visible!Stages(t, ops)
           R == Turns(kv, ops)
           o == ops[n]
           AllOk(m) == \A k \in 1..m : Visible!Allowed(S[k - 1], ops[k])
           b == R[n - 1].batch
           view == Commit(kv, b)
           r == Run(view, o)
<1>1. Len(ops) \in Nat /\ o \in Ops /\ n \in Nat /\ n - 1 \in Nat /\ n \in 0..Len(ops) /\ n # 0
  OBVIOUS
<1>2. R[n] = apply_one(kv, R[n - 1], o)
  BY <1>1, TurnsDef
<1>3. S[n] = NextStage(S[n - 1], o)
  BY <1>1, StagesDef
<1>4. OverlayView(kv, b) = view
  BY DEF OverlayView, Commit
<1>5. R[n] = IF ~R[n - 1].ok \/ ~r.ok THEN Fails ELSE Writes(r.batch ++ b)
  BY <1>2, <1>4 DEF apply_one
<1>6. AllOk(n) <=> AllOk(n - 1) /\ Visible!Allowed(S[n - 1], o)
  <2>1. 1..n = 1..(n - 1) \cup {n}
    BY <1>1
  <2> QED BY <2>1
<1>a. IF AllOk(n - 1)
      THEN /\ R[n - 1] = Writes(b)
           /\ Whole(view)
           /\ TreeOf(view) = S[n - 1]
           /\ view[meta_version] = kv[meta_version]
           /\ Indexed(kv) => Indexed(view)
           /\ view[meta_next_id] \in Nat
           /\ view[meta_next_id] + Cardinality(Needing(ops, n - 1)) <= MaxId + 1
      ELSE R[n - 1] = Fails
  BY DEF AfterTurns
<1>f. ~Fails.ok /\ \A x : Writes(x).ok /\ Writes(x).batch = x
  BY DEF Fails, Writes
<1> DEFINE AllN == AllOk(n)
           AllM == AllOk(n - 1)
<1> HIDE DEF AllOk
<1>7. CASE ~AllM
  <2>1. R[n] = Fails
    BY <1>5, <1>7, <1>a, <1>f
  <2>2. ~AllN
    BY <1>6, <1>7
  <2> QED BY <2>1, <2>2 DEF AfterTurns, AllOk
<1>8. CASE AllM
  <2>0. /\ R[n - 1].ok
        /\ Whole(view)
        /\ TreeOf(view) = S[n - 1]
        /\ view[meta_version] = kv[meta_version]
        /\ Indexed(kv) => Indexed(view)
        /\ view[meta_next_id] \in Nat
        /\ view[meta_next_id] + Cardinality(Needing(ops, n - 1)) <= MaxId + 1
    BY <1>8, <1>a, <1>f
  <2> DEFINE allowed == Visible!Allowed(S[n - 1], o)
             t2 == Visible!Effect(S[n - 1], o)
             new == Commit(view, r.batch)
  <2>1. /\ Outcome(view, r, allowed, t2)
        /\ o.op = "delete" => meta_next_id \notin DOMAIN r.batch
    <3> HIDE DEF view, S, o
    <3> QED BY <2>0, <1>1, RunOutcome
  <2>2. NextIdOnly(view, r)
    BY <1>1, RunNextId
  <2>3. /\ Cardinality(Needing(ops, n)) \in Nat
        /\ Cardinality(Needing(ops, n - 1)) =
              IF o.op = "delete" THEN Cardinality(Needing(ops, n)) ELSE Cardinality(Needing(ops, n)) + 1
    BY <1>1, NeedingStep
  <2>4. CASE ~allowed
    <3>1. r = Fails
      BY <2>1, <2>4 DEF Outcome
    <3>2. R[n] = Fails
      BY <3>1, <1>5, <1>f
    <3>3. ~AllN
      BY <1>6, <2>4
    <3> QED BY <3>2, <3>3 DEF AfterTurns, AllOk
  <2>5. CASE allowed
    <3>1. r = Writes(r.batch) /\ (InBound(r.batch) => Becomes(view, new, t2))
      BY <2>1, <2>5 DEF Outcome
    <3>2. R[n] = Writes(r.batch ++ b) /\ R[n].batch = r.batch ++ b
      BY <3>1, <2>0, <1>5, <1>f
    <3>3. AllN /\ S[n] = t2
      BY <1>3, <1>6, <1>8, <2>5 DEF NextStage
    <3>4. InBound(r.batch)
      <4> HIDE DEF view, r, o
      <4>1. MaxId \in Nat
        BY IdsAreNumbers
      <4> QED BY <4>1, <2>0, <2>1, <2>2, <2>3 DEF InBound, NextIdOnly
    <3>5. Becomes(view, new, t2)
      BY <3>1, <3>4
    <3>6. Commit(kv, R[n].batch) = new
      BY <3>2, CommitTwice
    <3>7. /\ Whole(new) /\ TreeOf(new) = t2
          /\ new[meta_version] = kv[meta_version]
          /\ Indexed(kv) => Indexed(new)
          /\ new[meta_next_id] \in {view[meta_next_id], view[meta_next_id] + 1}
      BY <3>5, <2>0 DEF Becomes
    <3>8. o.op = "delete" => new[meta_next_id] = view[meta_next_id]
      <4> HIDE DEF view, r, o
      <4> QED BY <2>1, CommitAt, KeyTypes
    <3> HIDE DEF new, view, r, t2, S, R, t, o, b
    <3>9. new[meta_next_id] \in Nat /\ new[meta_next_id] + Cardinality(Needing(ops, n)) <= MaxId + 1
      <4>1. MaxId \in Nat
        BY IdsAreNumbers
      <4> QED BY <4>1, <2>0, <2>3, <3>7, <3>8
    <3>10. R[n] = Writes(R[n].batch)
      BY <3>2
    <3> QED BY <3>3, <3>6, <3>7, <3>9, <3>10 DEF AfterTurns, AllOk, S, R, t
  <2> QED BY <2>4, <2>5
<1> QED BY <1>7, <1>8

(* So does a whole transaction, turn after turn. *)
LEMMA TurnsEnd ==
    ASSUME NEW kv, Whole(kv), NEW ops \in Seq(Ops),
           kv[meta_next_id] + Cardinality({i \in DOMAIN ops : ops[i].op # "delete"}) <= MaxId + 1
    PROVE  AfterTurns(kv, ops, Len(ops))
<1> DEFINE Bad == {n \in 0..Len(ops) : ~AfterTurns(kv, ops, n)}
<1>0. Len(ops) \in Nat
  OBVIOUS
<1>1. SUFFICES ASSUME Bad # {} PROVE FALSE
  BY <1>0
<1>2. PICK n \in Bad : \A k \in Bad : n <= k
  <2>1. Bad \subseteq Nat
    BY <1>0
  <2> HIDE DEF Bad
  <2> QED BY <1>1, <2>1, MinExists
<1>3. n # 0
  BY <1>2, TurnsStart
<1>4. n \in 1..Len(ops) /\ n - 1 \in 0..Len(ops) /\ n - 1 \notin Bad
  BY <1>0, <1>2, <1>3
<1>5. AfterTurns(kv, ops, n - 1)
  BY <1>4
<1> QED BY <1>2, <1>4, <1>5, TurnsStep

-----------------------------------------------------------------------------
(* Opening *)

(* Stores with the same nodes and child entries stand for the same tree. *)
LEMMA SameTree ==
    ASSUME NEW kv, StoreType(kv), NEW kv2,
           \A i \in Ids : kv2[node_key(i)] = kv[node_key(i)],
           \A i \in Ids, n \in Names : kv2[child_key(i, n)] = kv[child_key(i, n)]
    PROVE  /\ walk(kv2) = walk(kv)
           /\ TreeOf(kv2) = TreeOf(kv)
           /\ \A p \in Paths : exists(kv2, p) <=> exists(kv, p)
<1> DEFINE w == walk(kv)
<1>1. /\ DOMAIN w = Paths /\ w = [p \in Paths |-> w[p]]
      /\ \A p \in Paths : w[p] = WalkStep(kv, w, p)
  BY WalkDef
<1>2. \A p \in Paths : w[p] \in Ids \cup {Absent}
  BY WalkType
<1> HIDE DEF w
<1>3. ASSUME NEW p \in Paths PROVE w[p] = WalkStep(kv2, w, p)
  <2>1. p # <<>> => name(p) \in Names /\ w[parent(p)] \in Ids \cup {Absent}
    BY ParentType, <1>2
  <2> QED BY <2>1, <1>1 DEF WalkStep
<1>4. walk(kv2) = w
  BY <1>1, <1>3, WalkUnique
<1>5. \A p \in Paths : resolve(kv2, p) = resolve(kv, p) /\ resolve(kv, p) \in Ids \cup {Absent}
  BY <1>2, <1>4 DEF resolve, w
<1>6. \A p \in Paths : exists(kv2, p) <=> exists(kv, p)
  BY <1>5 DEF exists
<1>7. Tree(kv2) = Tree(kv)
  BY <1>6 DEF Tree
<1>8. \A p \in Tree(kv) : kv2[node_key(resolve(kv2, p))] = kv[node_key(resolve(kv, p))]
  BY <1>5 DEF Tree, exists
<1>9. TreeOf(kv2) = TreeOf(kv)
  BY <1>7, <1>8 DEF TreeOf
<1> QED BY <1>4, <1>6, <1>9 DEF w

(* The root exists if its node does. *)
LEMMA RootExists ==
    ASSUME NEW kv
    PROVE  exists(kv, <<>>) <=> Live(kv, ROOT_ID)
<1>1. walk(kv)[<<>>] = ROOT_ID
  BY WalkDef, RootPath DEF WalkStep
<1> QED BY <1>1, IdsAreNumbers DEF exists, resolve, Live

(* No entry leads anywhere, and so there is nothing but the root. *)
LEMMA BareStore ==
    ASSUME NEW kv, StoreType(kv), Live(kv, ROOT_ID), IsDir(kv[node_key(ROOT_ID)]),
           kv[meta_next_id] # Absent,
           \A i \in Ids : Live(kv, i) => i = ROOT_ID,
           \A i \in Ids, n \in Names : kv[child_key(i, n)] = Absent
    PROVE  Whole(kv)
<1>1. EntriesLead(kv) /\ EntriesDiffer(kv) /\ NodesHaveEntries(kv)
  BY DEF EntriesLead, EntriesDiffer, NodesHaveEntries
<1>2. Linked(kv)
  BY <1>1, LinkedEntries
<1>3. walk(kv)[<<>>] = ROOT_ID
  BY WalkDef, RootPath DEF WalkStep
<1>4. Rooted(kv)
  BY <1>3, RootPath DEF Rooted
<1> QED BY <1>2, <1>4 DEF Whole

(* The first commit of open leaves a store with root and next_id, which      *)
(* stands for the same tree, and nothing is written where both are there.    *)
LEMMA EnsureRootStep ==
    ASSUME NEW kv, StoreType(kv), Linked(kv), Rooted(kv)
    PROVE  /\ Whole(EnsureRoot(kv))
           /\ EnsureRoot(kv)[meta_version] = kv[meta_version]
           /\ TreeOf(EnsureRoot(kv)) = Abstract(kv)
           /\ (Live(kv, ROOT_ID) /\ kv[meta_next_id] # Absent) => EnsureRoot(kv) = kv
<1>1. /\ kv[meta_next_id] \in (ROOT_ID + 1)..(MaxId + 1) \cup {Absent}
      /\ kv[meta_version] \in {INDEX_VER, Absent}
      /\ \A i \in Ids : kv[node_key(i)] \in Nodes \cup {Absent}
      /\ \A i \in Ids, n \in Names : kv[child_key(i, n)] \in Ids \cup {Absent}
      /\ \A ty \in Types, i \in Ids : kv[type_index_key(ty, i)] \in Paths \cup {Absent}
  BY StoreTypeEntries
<1>2. EntriesLead(kv)
  BY LinkedEntries
<1>3. ROOT_ID \in Ids /\ ROOT_ID + 1 \in (ROOT_ID + 1)..(MaxId + 1) /\ ROOT_ID + 1 # Absent
  BY IdsAreNumbers, ValueAssumption, ConstantAssumption DEF ROOT_ID
<1>4. CASE ~Live(kv, ROOT_ID)
  <2> DEFINE batch == Put(node_key(ROOT_ID), DirNode) ++ Put(meta_next_id, ROOT_ID + 1)
                        ++ Put(type_index_key("directory", ROOT_ID), <<>>)
             kv2 == Commit(kv, batch)
  <2>1. EnsureRoot(kv) = kv2
    BY <1>4 DEF EnsureRoot, Live
  <2>2. DOMAIN batch = {node_key(ROOT_ID), meta_next_id, type_index_key("directory", ROOT_ID)}
    BY DEF Put, ++
  <2>3. /\ batch[node_key(ROOT_ID)] = DirNode
        /\ batch[meta_next_id] = ROOT_ID + 1
        /\ batch[type_index_key("directory", ROOT_ID)] = <<>>
    BY DEF Put, ++, meta_next_id, node_key, type_index_key
  <2>4. /\ IsStore(kv2)
        /\ \A k \in StoreKeys : kv2[k] = IF k \in DOMAIN batch THEN batch[k] ELSE kv[k]
    BY CommitAt
  <2> HIDE DEF batch, kv2
  <2>5. kv2[meta_next_id] = ROOT_ID + 1 /\ kv2[meta_version] = kv[meta_version]
    BY <2>2, <2>3, <2>4, KeyTypes DEF meta_next_id, meta_version, node_key, type_index_key
  <2>6. \A i \in Ids : kv2[node_key(i)] = IF i = ROOT_ID THEN DirNode ELSE kv[node_key(i)]
    BY <2>2, <2>3, <2>4, KeyTypes DEF meta_next_id, node_key, type_index_key
  <2>7. \A i \in Ids, n \in Names : kv2[child_key(i, n)] = kv[child_key(i, n)]
    BY <2>2, <2>3, <2>4, KeyTypes DEF meta_next_id, node_key, child_key, type_index_key
  <2>8. \A ty \in Types, i \in Ids : kv2[type_index_key(ty, i)] =
            IF i = ROOT_ID /\ ty = "directory" THEN <<>> ELSE kv[type_index_key(ty, i)]
    BY <2>2, <2>3, <2>4, KeyTypes DEF meta_next_id, node_key, type_index_key
  <2>9. StoreType(kv2)
    <3>1. /\ \A i \in Ids : kv2[node_key(i)] \in Nodes \cup {Absent}
          /\ \A i \in Ids, n \in Names : kv2[child_key(i, n)] \in Ids \cup {Absent}
          /\ \A ty \in Types, i \in Ids : kv2[type_index_key(ty, i)] \in Paths \cup {Absent}
      BY <1>1, <2>6, <2>7, <2>8, StructuredType, RootPath
    <3> QED BY <3>1, <1>1, <1>3, <2>4, <2>5, StoreTypeEntries
  <2>10. \A i \in Ids : ~Live(kv, i)
    BY <1>4 DEF Rooted
  <2>11. \A i \in Ids, n \in Names : kv2[child_key(i, n)] = Absent
    BY <2>7, <2>10, <1>2 DEF EntriesLead
  <2>12. \A i \in Ids : Live(kv2, i) => i = ROOT_ID
    BY <2>6, <2>10 DEF Live
  <2>13. Live(kv2, ROOT_ID) /\ IsDir(kv2[node_key(ROOT_ID)])
    BY <1>3, <2>6, StructuredType, NodeFacts DEF Live
  <2>14. Whole(kv2)
    BY <1>3, <2>5, <2>9, <2>11, <2>12, <2>13, BareStore
  <2>15. Abstract(kv) = TreeOf(kv2)
    BY <1>4, <2>1, RootExists DEF Abstract
  <2> QED BY <1>4, <2>1, <2>5, <2>14, <2>15
<1>5. CASE Live(kv, ROOT_ID) /\ kv[meta_next_id] = Absent
  <2> DEFINE batch == Put(meta_next_id, ROOT_ID + 1)
             kv2 == Commit(kv, batch)
  <2>1. EnsureRoot(kv) = kv2
    BY <1>5 DEF EnsureRoot, Live
  <2>2. DOMAIN batch = {meta_next_id} /\ batch[meta_next_id] = ROOT_ID + 1
    BY DEF Put
  <2>4. /\ IsStore(kv2)
        /\ \A k \in StoreKeys : kv2[k] = IF k \in DOMAIN batch THEN batch[k] ELSE kv[k]
    BY CommitAt
  <2> HIDE DEF batch, kv2
  <2>5. kv2[meta_next_id] = ROOT_ID + 1 /\ kv2[meta_version] = kv[meta_version]
    BY <2>2, <2>4, KeyTypes DEF meta_next_id, meta_version
  <2>6. \A i \in Ids : kv2[node_key(i)] = kv[node_key(i)]
    BY <2>2, <2>4, KeyTypes DEF meta_next_id, node_key
  <2>7. \A i \in Ids, n \in Names : kv2[child_key(i, n)] = kv[child_key(i, n)]
    BY <2>2, <2>4, KeyTypes DEF meta_next_id, child_key
  <2>8. \A ty \in Types, i \in Ids : kv2[type_index_key(ty, i)] = kv[type_index_key(ty, i)]
    BY <2>2, <2>4, KeyTypes DEF meta_next_id, type_index_key
  <2>9. StoreType(kv2)
    <3>1. /\ \A i \in Ids : kv2[node_key(i)] \in Nodes \cup {Absent}
          /\ \A i \in Ids, n \in Names : kv2[child_key(i, n)] \in Ids \cup {Absent}
          /\ \A ty \in Types, i \in Ids : kv2[type_index_key(ty, i)] \in Paths \cup {Absent}
      BY <1>1, <2>6, <2>7, <2>8
    <3> QED BY <3>1, <1>1, <1>3, <2>4, <2>5, StoreTypeEntries
  <2>10. \A i \in Ids : Live(kv, i) => i = ROOT_ID
    BY <1>5 DEF Rooted
  <2>11. \A i \in Ids, n \in Names : kv2[child_key(i, n)] = Absent
    BY <2>7, <2>10, <1>2 DEF EntriesLead
  <2>12. \A i \in Ids : Live(kv2, i) => i = ROOT_ID
    BY <2>6, <2>10 DEF Live
  <2>13. Live(kv2, ROOT_ID) /\ IsDir(kv2[node_key(ROOT_ID)])
    BY <1>3, <1>5, <2>6 DEF Live, Rooted
  <2>14. Whole(kv2)
    BY <1>3, <2>5, <2>9, <2>11, <2>12, <2>13, BareStore
  <2>15. TreeOf(kv2) = TreeOf(kv)
    BY <2>6, <2>7, SameTree
  <2>16. Abstract(kv) = TreeOf(kv)
    BY <1>5, RootExists DEF Abstract
  <2> QED BY <1>5, <2>1, <2>5, <2>14, <2>15, <2>16
<1>6. CASE Live(kv, ROOT_ID) /\ kv[meta_next_id] # Absent
  <2>1. EnsureRoot(kv) = kv
    BY <1>6 DEF EnsureRoot, Live
  <2>2. Whole(kv)
    BY <1>6 DEF Whole
  <2>3. Abstract(kv) = TreeOf(kv)
    BY <1>6, RootExists DEF Abstract
  <2> QED BY <2>1, <2>2, <2>3
<1> QED BY <1>4, <1>5, <1>6

(* A whole store stays one, and its tree, where only its index and version   *)
(* change.                                                                   *)
LEMMA OnlyIndexChanges ==
    ASSUME NEW kv, Whole(kv), NEW kv2, StoreType(kv2),
           kv2[meta_next_id] = kv[meta_next_id],
           \A i \in Ids : kv2[node_key(i)] = kv[node_key(i)],
           \A i \in Ids, n \in Names : kv2[child_key(i, n)] = kv[child_key(i, n)]
    PROVE  Whole(kv2) /\ TreeOf(kv2) = TreeOf(kv) /\ walk(kv2) = walk(kv)
<1>1. TreeOf(kv2) = TreeOf(kv) /\ walk(kv2) = walk(kv)
  BY SameTree DEF Whole
<1>2. \A i \in Ids : Live(kv2, i) <=> Live(kv, i)
  BY DEF Live
<1>3. EntriesLead(kv) /\ EntriesDiffer(kv) /\ NodesHaveEntries(kv)
  BY WholeFacts
<1>4. EntriesLead(kv2)
  BY <1>2, <1>3 DEF EntriesLead
<1>5. EntriesDiffer(kv2)
  BY <1>3 DEF EntriesDiffer
<1>6. NodesHaveEntries(kv2)
  BY <1>2, <1>3 DEF NodesHaveEntries
<1>7. Linked(kv2)
  BY <1>4, <1>5, <1>6, LinkedEntries
<1>8. Rooted(kv2) /\ Live(kv2, ROOT_ID) /\ kv2[meta_next_id] # Absent
  BY <1>1, <1>2, IdsAreNumbers DEF Whole, Rooted
<1> QED BY <1>1, <1>7, <1>8 DEF Whole

(* rebuild_type_index leaves the tree of nodes alone and the index exact,    *)
(* whatever the index was before.                                            *)
LEMMA RebuildStep ==
    ASSUME NEW kv, Whole(kv)
    PROVE  LET kv2 == rebuild_type_index(kv)
           IN  /\ Whole(kv2) /\ Indexed(kv2)
               /\ TreeOf(kv2) = TreeOf(kv)
               /\ kv2[meta_version] = kv[meta_version]
<1> DEFINE kv2 == rebuild_type_index(kv)
           w   == walk(kv)
           Key(p) == type_index_key(Record(kv, p).ty, resolve(kv, p))
<1>1. \A p \in Paths : resolve(kv, p) = w[p] /\ w[p] \in Ids \cup {Absent}
  BY WalkFacts
<1>2. Tree(kv) = {p \in Paths : w[p] # Absent}
  BY <1>1 DEF Tree, exists
<1>3. \A p \in Tree(kv) : /\ Key(p) = type_index_key(kv[node_key(w[p])].ty, w[p])
                          /\ p \in Paths /\ w[p] \in Ids
  BY <1>1, <1>2 DEF Record
<1>4. IsStore(kv2)
  BY DEF rebuild_type_index, IsStore
<1>5. \A k \in StoreKeys :
        kv2[k] = IF \E p \in Tree(kv) : k = Key(p) THEN CHOOSE p \in Tree(kv) : k = Key(p)
                 ELSE IF k \in IndexKeys THEN Absent ELSE kv[k]
  BY DEF rebuild_type_index
<1> HIDE DEF kv2, w, Key
<1>6. ASSUME NEW k \in StoreKeys, NEW p \in Tree(kv), k = Key(p)
      PROVE  kv2[k] \in Tree(kv) /\ k = Key(kv2[k])
  BY <1>5, <1>6
<1>7. ASSUME NEW k \in StoreKeys, \A p \in Tree(kv) : k # Key(p)
      PROVE  kv2[k] = IF k \in IndexKeys THEN Absent ELSE kv[k]
  BY <1>5, <1>7
<1>8. kv2[meta_next_id] = kv[meta_next_id] /\ kv2[meta_version] = kv[meta_version]
  <2>1. \A p \in Tree(kv) : meta_next_id # Key(p) /\ meta_version # Key(p)
    BY <1>3 DEF meta_next_id, meta_version, type_index_key
  <2>2. meta_next_id \notin IndexKeys /\ meta_version \notin IndexKeys
    BY DEF IndexKeys, meta_next_id, meta_version, type_index_key
  <2> QED BY <2>1, <2>2, <1>7, KeyTypes
<1>9. \A i \in Ids : kv2[node_key(i)] = kv[node_key(i)]
  <2>1. \A i \in Ids : node_key(i) \notin IndexKeys
    BY DEF IndexKeys, node_key, type_index_key
  <2>2. \A i \in Ids, p \in Tree(kv) : node_key(i) # Key(p)
    <3>1. \A i, ty, j : node_key(i) # type_index_key(ty, j)
      BY DEF node_key, type_index_key
    <3> QED BY <3>1, <1>3
  <2> QED BY <2>1, <2>2, <1>7, KeyTypes
<1>10. \A i \in Ids, n \in Names : kv2[child_key(i, n)] = kv[child_key(i, n)]
  <2>1. \A i \in Ids, n \in Names :
           child_key(i, n) \notin IndexKeys /\ \A p \in Tree(kv) : child_key(i, n) # Key(p)
    BY <1>3 DEF IndexKeys, child_key, type_index_key
  <2> QED BY <2>1, <1>7, KeyTypes
<1>11. ASSUME NEW ty \in Types, NEW i \in Ids
       PROVE  IF Live(kv, i) /\ kv[node_key(i)].ty = ty
              THEN kv2[type_index_key(ty, i)] \in Paths /\ w[kv2[type_index_key(ty, i)]] = i
              ELSE kv2[type_index_key(ty, i)] = Absent
  <2> DEFINE k == type_index_key(ty, i)
  <2>1. k \in StoreKeys /\ k \in IndexKeys
    BY KeyTypes
  <2>2. \A p \in Tree(kv) : k = Key(p) => w[p] = i /\ kv[node_key(i)].ty = ty /\ Live(kv, i)
    <3> TAKE p \in Tree(kv)
    <3> HAVE k = Key(p)
    <3>1. type_index_key(ty, i) = type_index_key(kv[node_key(w[p])].ty, w[p])
      BY <1>3
    <3>2. i = w[p] /\ ty = kv[node_key(w[p])].ty
      BY <3>1 DEF type_index_key
    <3>3. Live(kv, w[p])
      BY <1>2, WalkFacts DEF w
    <3> QED BY <3>2, <3>3
  <2> HIDE DEF k
  <2>3. CASE Live(kv, i) /\ kv[node_key(i)].ty = ty
    <3>1. PICK p \in Paths : w[p] = i
      BY <2>3, WholeFacts DEF w
    <3>2. p \in Tree(kv) /\ k = Key(p)
      BY <3>1, <2>3, <1>2, <1>3, IdsAreNumbers DEF k
    <3>3. kv2[k] \in Tree(kv) /\ k = Key(kv2[k])
      BY <2>1, <3>2, <1>6
    <3>4. kv2[k] \in Paths /\ w[kv2[k]] = i
      BY <3>3, <2>2, <1>3
    <3> QED BY <2>3, <3>4 DEF k
  <2>4. CASE ~(Live(kv, i) /\ kv[node_key(i)].ty = ty)
    <3>1. \A p \in Tree(kv) : k # Key(p)
      BY <2>2, <2>4
    <3>2. kv2[k] = Absent
      BY <3>1, <2>1, <1>7
    <3> QED BY <2>4, <3>2 DEF k
  <2> QED BY <2>3, <2>4
<1>12. StoreType(kv2)
  <2>1. /\ kv[meta_next_id] \in (ROOT_ID + 1)..(MaxId + 1) \cup {Absent}
        /\ kv[meta_version] \in {INDEX_VER, Absent}
        /\ \A i \in Ids : kv[node_key(i)] \in Nodes \cup {Absent}
        /\ \A i \in Ids, n \in Names : kv[child_key(i, n)] \in Ids \cup {Absent}
    BY StoreTypeEntries DEF Whole
  <2>2. \A ty \in Types, i \in Ids : kv2[type_index_key(ty, i)] \in Paths \cup {Absent}
    BY <1>11
  <2>3. /\ \A i \in Ids : kv2[node_key(i)] \in Nodes \cup {Absent}
        /\ \A i \in Ids, n \in Names : kv2[child_key(i, n)] \in Ids \cup {Absent}
    BY <2>1, <1>9, <1>10
  <2> QED BY <2>1, <2>2, <2>3, <1>4, <1>8, StoreTypeEntries
<1>13. Whole(kv2) /\ TreeOf(kv2) = TreeOf(kv) /\ walk(kv2) = w
  BY <1>8, <1>9, <1>10, <1>12, OnlyIndexChanges DEF w
<1>14. Indexed(kv2)
  <2>1. \A i \in Ids : Live(kv2, i) <=> Live(kv, i)
    BY <1>9 DEF Live
  <2> QED BY <1>9, <1>11, <1>13, <2>1 DEF Indexed
<1> QED BY <1>8, <1>13, <1>14 DEF kv2

(* Writing the version of the index changes nothing else. *)
LEMMA StampStep ==
    ASSUME NEW kv, Whole(kv)
    PROVE  LET kv2 == Commit(kv, Put(meta_version, INDEX_VER))
           IN  /\ Whole(kv2) /\ TreeOf(kv2) = TreeOf(kv)
               /\ Indexed(kv) => Indexed(kv2)
<1> DEFINE batch == Put(meta_version, INDEX_VER)
           kv2 == Commit(kv, batch)
<1>1. DOMAIN batch = {meta_version} /\ batch[meta_version] = INDEX_VER
  BY DEF Put
<1>2. /\ IsStore(kv2)
      /\ \A k \in StoreKeys : kv2[k] = IF k \in DOMAIN batch THEN batch[k] ELSE kv[k]
  BY CommitAt
<1> HIDE DEF batch, kv2
<1>3. kv2[meta_next_id] = kv[meta_next_id] /\ kv2[meta_version] = INDEX_VER
  BY <1>1, <1>2, KeyTypes DEF meta_next_id, meta_version
<1>4. \A i \in Ids : kv2[node_key(i)] = kv[node_key(i)]
  BY <1>1, <1>2, KeyTypes DEF meta_version, node_key
<1>5. \A i \in Ids, n \in Names : kv2[child_key(i, n)] = kv[child_key(i, n)]
  BY <1>1, <1>2, KeyTypes DEF meta_version, child_key
<1>6. \A ty \in Types, i \in Ids : kv2[type_index_key(ty, i)] = kv[type_index_key(ty, i)]
  BY <1>1, <1>2, KeyTypes DEF meta_version, type_index_key
<1>7. StoreType(kv2)
  <2>1. /\ kv[meta_next_id] \in (ROOT_ID + 1)..(MaxId + 1) \cup {Absent}
        /\ \A i \in Ids : kv[node_key(i)] \in Nodes \cup {Absent}
        /\ \A i \in Ids, n \in Names : kv[child_key(i, n)] \in Ids \cup {Absent}
        /\ \A ty \in Types, i \in Ids : kv[type_index_key(ty, i)] \in Paths \cup {Absent}
    BY StoreTypeEntries DEF Whole
  <2>2. /\ \A i \in Ids : kv2[node_key(i)] \in Nodes \cup {Absent}
        /\ \A i \in Ids, n \in Names : kv2[child_key(i, n)] \in Ids \cup {Absent}
        /\ \A ty \in Types, i \in Ids : kv2[type_index_key(ty, i)] \in Paths \cup {Absent}
    BY <2>1, <1>4, <1>5, <1>6
  <2> QED BY <2>1, <2>2, <1>2, <1>3, StoreTypeEntries
<1>8. Whole(kv2) /\ TreeOf(kv2) = TreeOf(kv) /\ walk(kv2) = walk(kv)
  BY <1>3, <1>4, <1>5, <1>7, OnlyIndexChanges
<1>9. Indexed(kv) => Indexed(kv2)
  <2>1. \A i \in Ids : Live(kv2, i) <=> Live(kv, i)
    BY <1>4 DEF Live
  <2> QED BY <1>4, <1>6, <1>8, <2>1 DEF Indexed
<1> QED BY <1>8, <1>9 DEF kv2, batch

-----------------------------------------------------------------------------
(* The steps of the specification *)

(* An empty data directory is in order. *)
LEMMA EmptyStoreFacts ==
    /\ StoreType(EmptyStore) /\ Linked(EmptyStore) /\ Rooted(EmptyStore)
    /\ EmptyStore[meta_version] = Absent
<1>1. IsStore(EmptyStore) /\ \A k \in StoreKeys : EmptyStore[k] = Absent
  BY DEF EmptyStore, IsStore
<1>2. /\ EmptyStore[meta_next_id] = Absent /\ EmptyStore[meta_version] = Absent
      /\ \A i \in Ids : EmptyStore[node_key(i)] = Absent
      /\ \A i \in Ids, n \in Names : EmptyStore[child_key(i, n)] = Absent
      /\ \A ty \in Types, i \in Ids : EmptyStore[type_index_key(ty, i)] = Absent
  BY <1>1, KeyTypes
<1>3. StoreType(EmptyStore)
  BY <1>1, <1>2, StoreTypeEntries
<1>4. \A i \in Ids : ~Live(EmptyStore, i)
  BY <1>2 DEF Live
<1>5. EntriesLead(EmptyStore) /\ EntriesDiffer(EmptyStore) /\ NodesHaveEntries(EmptyStore)
  BY <1>2, <1>4 DEF EntriesLead, EntriesDiffer, NodesHaveEntries
<1>6. Linked(EmptyStore)
  BY <1>3, <1>5, LinkedEntries
<1>7. Rooted(EmptyStore)
  BY <1>4, IdsAreNumbers DEF Rooted
<1> QED BY <1>2, <1>3, <1>6, <1>7

(* Every data directory that open may find satisfies the invariant. *)
LEMMA InitInv == Init => IndInv
<1> SUFFICES ASSUME Init PROVE IndInv
  OBVIOUS
<1>1. StoreType(store) /\ Linked(store) /\ Rooted(store) /\ store[meta_version] = Absent
  BY EmptyStoreFacts, StoresAssumption DEF Init
<1>2. INDEX_VER # Absent
  BY ValueAssumption DEF INDEX_VER
<1> QED BY <1>1, <1>2 DEF Init, IndInv, TypeOK

(* After open's first commit the store is whole, its tree the one it stands  *)
(* for.                                                                      *)
LEMMA InvWhole ==
    ASSUME IndInv, phase # "closed"
    PROVE  Whole(store) /\ Abstract(store) = TreeOf(store)
<1>1. Whole(store)
  BY DEF IndInv, TypeOK, Whole
<1>2. Abstract(store) = TreeOf(store)
  BY <1>1, RootExists DEF Abstract, Whole
<1> QED BY <1>1, <1>2

(* The parts of the invariant that a whole and indexed store has. *)
LEMMA OpenStep ==
    ASSUME IndInv, open
    PROVE  IndInv' /\ Abstract(store)' = Abstract(store)
<1> DEFINE kv2 == EnsureRoot(store)
<1>1. StoreType(store) /\ Linked(store) /\ Rooted(store)
  BY DEF IndInv, TypeOK
<1>2. /\ Whole(kv2)
      /\ kv2[meta_version] = store[meta_version]
      /\ TreeOf(kv2) = Abstract(store)
      /\ (Live(store, ROOT_ID) /\ store[meta_next_id] # Absent) => kv2 = store
  BY <1>1, EnsureRootStep
<1>3. /\ store' = kv2 /\ answer' = answer
      /\ phase' = IF store[meta_version] = INDEX_VER THEN "open" ELSE "rebuild"
  BY DEF open
<1> HIDE DEF kv2
<1>4. TypeOK'
  BY <1>2, <1>3 DEF TypeOK, IndInv, Whole
<1>5. store[meta_version] = INDEX_VER => kv2 = store /\ Indexed(kv2)
  BY <1>2 DEF IndInv
<1>6. IndInv'
  BY <1>2, <1>3, <1>4, <1>5 DEF IndInv, Whole
<1>7. Abstract(kv2) = TreeOf(kv2)
  BY <1>2, RootExists DEF Abstract, Whole
<1> QED BY <1>2, <1>3, <1>6, <1>7

(* So does the rebuild of the index. *)
LEMMA OpenRebuildStep ==
    ASSUME IndInv, open_rebuild
    PROVE  IndInv' /\ Abstract(store)' = Abstract(store)
<1>1. Whole(store) /\ Abstract(store) = TreeOf(store)
  BY InvWhole DEF open_rebuild
<1> DEFINE kv2 == rebuild_type_index(store)
<1>2. Whole(kv2) /\ Indexed(kv2) /\ TreeOf(kv2) = TreeOf(store)
  BY <1>1, RebuildStep
<1>3. store' = kv2 /\ phase' = "stamp" /\ answer' = answer
  BY DEF open_rebuild
<1> HIDE DEF kv2
<1>4. TypeOK'
  BY <1>2, <1>3 DEF TypeOK, IndInv, Whole
<1>5. IndInv'
  BY <1>2, <1>3, <1>4 DEF IndInv, Whole
<1>6. Abstract(kv2) = TreeOf(kv2)
  BY <1>2, RootExists DEF Abstract, Whole
<1> QED BY <1>1, <1>2, <1>3, <1>5, <1>6

(* So does the version stamp, which is written when the index is right. *)
LEMMA OpenStampStep ==
    ASSUME IndInv, open_stamp
    PROVE  IndInv' /\ Abstract(store)' = Abstract(store)
<1>1. Whole(store) /\ Abstract(store) = TreeOf(store) /\ Indexed(store)
  BY InvWhole DEF open_stamp, IndInv
<1> DEFINE kv2 == Commit(store, Put(meta_version, INDEX_VER))
<1>2. Whole(kv2) /\ Indexed(kv2) /\ TreeOf(kv2) = TreeOf(store)
  BY <1>1, StampStep
<1>3. store' = kv2 /\ phase' = "open" /\ answer' = answer
  BY DEF open_stamp
<1> HIDE DEF kv2
<1>4. TypeOK'
  BY <1>2, <1>3 DEF TypeOK, IndInv, Whole
<1>5. IndInv'
  BY <1>2, <1>3, <1>4 DEF IndInv, Whole
<1>6. Abstract(kv2) = TreeOf(kv2)
  BY <1>2, RootExists DEF Abstract, Whole
<1> QED BY <1>1, <1>2, <1>3, <1>5, <1>6

(* So does a kill: the store is as the last commit left it. *)
LEMMA KillStep ==
    ASSUME IndInv, kill
    PROVE  IndInv' /\ Abstract(store)' = Abstract(store)
<1>1. store' = store /\ answer' = answer /\ phase' = "closed"
  BY DEF kill
<1>2. TypeOK'
  BY <1>1 DEF IndInv, TypeOK
<1>3. IndInv'
  BY <1>1, <1>2 DEF IndInv
<1> QED BY <1>1, <1>3

(* Committing what an operation or a transaction came to. *)
LEMMA FinishStep ==
    ASSUME IndInv, NEW r, Finish(r), NEW ok, NEW t2,
           IF ok
           THEN /\ r = Writes(r.batch)
                /\ Whole(Commit(store, r.batch))
                /\ TreeOf(Commit(store, r.batch)) = t2
                /\ Indexed(store) => Indexed(Commit(store, r.batch))
           ELSE r = Fails
    PROVE  /\ IndInv'
           /\ Abstract(store)' = IF ok THEN t2 ELSE Abstract(store)
           /\ answer' = IF ok THEN "ok" ELSE "err"
<1>1. Whole(store) /\ Abstract(store) = TreeOf(store) /\ Indexed(store)
  BY InvWhole DEF Finish, IndInv
<1> DEFINE kv2 == Commit(store, r.batch)
<1>2. store' = kv2 /\ phase' = "open" /\ answer' = IF r.ok THEN "ok" ELSE "err"
  BY DEF Finish
<1>3. CASE ok
  <2>1. r.ok
    BY <1>3 DEF Writes
  <2>2. Whole(kv2) /\ TreeOf(kv2) = t2 /\ Indexed(kv2)
    BY <1>1, <1>3
  <2> HIDE DEF kv2
  <2>3. TypeOK'
    BY <1>2, <2>1, <2>2 DEF TypeOK, Whole
  <2>4. IndInv'
    BY <1>2, <2>2, <2>3 DEF IndInv, Whole
  <2>5. Abstract(kv2) = TreeOf(kv2)
    BY <2>2, RootExists DEF Abstract, Whole
  <2> QED BY <1>2, <1>3, <2>1, <2>2, <2>4, <2>5
<1>4. CASE ~ok
  <2>1. ~r.ok /\ r.batch = <<>>
    BY <1>4 DEF Fails
  <2>2. kv2 = store
    BY <1>1, <2>1, CommitNothing DEF Whole, StoreType
  <2> HIDE DEF kv2
  <2>3. TypeOK'
    BY <1>2, <2>1, <2>2 DEF TypeOK, IndInv
  <2>4. IndInv'
    BY <1>1, <1>2, <2>2, <2>3 DEF IndInv, Whole
  <2> QED BY <1>2, <1>4, <2>1, <2>2, <2>4
<1> QED BY <1>3, <1>4

(* An operation preserves the invariant, and does to the tree what it says. *)
LEMMA OperationStep ==
    ASSUME IndInv, NEW o \in Ops, operation(o)
    PROVE  IndInv' /\ Visible!Execute(<<o>>)
<1> DEFINE r  == Run(store, o)
           t  == TreeOf(store)
           ok == Visible!Allowed(t, o)
           t2 == Visible!Effect(t, o)
           S  == Visible!Stages(t, <<o>>)
<1>1. Whole(store) /\ Abstract(store) = t
  BY InvWhole DEF operation, Finish
<1>2. Finish(r)
  BY DEF operation
<1>3. InBound(r.batch)
  BY <1>2 DEF Finish, Bounded, InBound
<1>4. Outcome(store, r, ok, t2)
  BY <1>1, RunOutcome
<1>5. IF ok
      THEN /\ r = Writes(r.batch)
           /\ Whole(Commit(store, r.batch))
           /\ TreeOf(Commit(store, r.batch)) = t2
           /\ Indexed(store) => Indexed(Commit(store, r.batch))
      ELSE r = Fails
  BY <1>3, <1>4 DEF Outcome, Becomes
<1>6. /\ IndInv'
      /\ Abstract(store)' = IF ok THEN t2 ELSE Abstract(store)
      /\ answer' = IF ok THEN "ok" ELSE "err"
  <2> HIDE DEF r, ok, t2
  <2> QED BY <1>2, <1>5, FinishStep
<1>7. Len(<<o>>) = 1 /\ <<o>>[1] = o
  OBVIOUS
<1>8. S[0] = t /\ S[1] = IF ok THEN t2 ELSE t
  <2>1. /\ 0 \in 0..Len(<<o>>) /\ 1 \in 0..Len(<<o>>) /\ Len(<<o>>) \in Nat
    BY <1>7
  <2>2. S[0] = t
    BY <2>1, StagesDef
  <2>3. S[1] = NextStage(S[1 - 1], <<o>>[1])
    <3> HIDE DEF S
    <3>1. \A n \in 0..Len(<<o>>) : S[n] = IF n = 0 THEN t ELSE NextStage(S[n - 1], <<o>>[n])
      BY <2>1, StagesDef DEF S
    <3> QED BY <2>1, <3>1
  <2>4. 1 - 1 = 0
    OBVIOUS
  <2> QED BY <2>2, <2>3, <2>4, <1>7 DEF NextStage
<1>9. Visible!AllAllowed(t, <<o>>) <=> ok
  <2> HIDE DEF S, t
  <2>1. Visible!AllAllowed(t, <<o>>) <=> \A n \in 1..1 : Visible!Allowed(S[n - 1], <<o>>[n])
    BY <1>7 DEF Visible!AllAllowed, S
  <2>2. \A n \in 1..1 : n = 1 /\ n - 1 = 0
    OBVIOUS
  <2> QED BY <2>1, <2>2, <1>7, <1>8
<1> HIDE DEF ok, t2
<1>10. Visible!Execute(<<o>>)
  BY <1>1, <1>6, <1>7, <1>8, <1>9 DEF Visible!Execute
<1> QED BY <1>6, <1>10

(* A transaction preserves the invariant, and does all that it says, or      *)
(* nothing.                                                                  *)
LEMMA TransactionStep ==
    ASSUME IndInv, NEW ops \in Txns, transaction(ops)
    PROVE  IndInv' /\ Visible!Execute(ops)
<1> DEFINE r  == apply_txn(store, ops)
           t  == TreeOf(store)
           ok == Visible!AllAllowed(t, ops)
           t2 == Visible!Stages(t, ops)[Len(ops)]
<1>1. Whole(store) /\ Abstract(store) = t
  BY InvWhole DEF transaction, Finish
<1>2. ops \in Seq(Ops) /\ Len(ops) \in Nat
  BY OpsAssumption
<1>3. Finish(r)
  BY DEF transaction
<1>4. AfterTurns(store, ops, Len(ops))
  BY <1>1, <1>2, TurnsEnd DEF transaction, Room
<1>5. r = Turns(store, ops)[Len(ops)]
  BY <1>2, TurnsDef
<1>6. IF ok
      THEN /\ r = Writes(r.batch)
           /\ Whole(Commit(store, r.batch))
           /\ TreeOf(Commit(store, r.batch)) = t2
           /\ Indexed(store) => Indexed(Commit(store, r.batch))
      ELSE r = Fails
  <2> HIDE DEF r
  <2> QED BY <1>4, <1>5 DEF AfterTurns, Visible!AllAllowed
<1>7. /\ IndInv'
      /\ Abstract(store)' = IF ok THEN t2 ELSE Abstract(store)
      /\ answer' = IF ok THEN "ok" ELSE "err"
  <2> HIDE DEF r, ok, t2
  <2> QED BY <1>3, <1>6, FinishStep
<1>8. Visible!Execute(ops)
  BY <1>1, <1>7 DEF Visible!Execute
<1> QED BY <1>7, <1>8

(* Every step preserves the invariant, and is a step of the tree or none. *)
LEMMA NextStep ==
    ASSUME IndInv, [Next]_vars
    PROVE  IndInv' /\ [Visible!Next]_(Visible!vars)
<1>1. CASE UNCHANGED vars
  <2>1. store' = store /\ phase' = phase /\ answer' = answer
    BY <1>1 DEF vars
  <2>2. IndInv'
    BY <2>1 DEF IndInv, TypeOK
  <2> QED BY <2>1, <2>2 DEF Visible!vars
<1>2. CASE open
  BY <1>2, OpenStep DEF open, Visible!vars
<1>3. CASE open_rebuild
  BY <1>3, OpenRebuildStep DEF open_rebuild, Visible!vars
<1>4. CASE open_stamp
  BY <1>4, OpenStampStep DEF open_stamp, Visible!vars
<1>5. CASE kill
  BY <1>5, KillStep DEF kill, Visible!vars
<1>6. CASE \E o \in Ops : operation(o)
  BY <1>6, OperationStep DEF Visible!Next
<1>7. CASE \E ops \in Txns : transaction(ops)
  BY <1>7, TransactionStep DEF Visible!Next
<1> QED BY <1>1, <1>2, <1>3, <1>4, <1>5, <1>6, <1>7 DEF Next

(* IndInv is an invariant: whatever operations and transactions run, and     *)
(* whenever the process is killed while open makes its three commits.        *)
THEOREM IndInvHolds == Spec => []IndInv
<1>1. IndInv /\ [Next]_vars => IndInv'
  BY NextStep
<1> QED BY <1>1, InitInv, PTL DEF Spec

(* Every key holds the right kind of value: resolve never finds an id that   *)
(* was not given out, and the index never something that is not a path.      *)
THEOREM TypeCorrect == Spec => []TypeOK
<1>1. IndInv => TypeOK
  BY DEF IndInv
<1> QED BY <1>1, IndInvHolds, PTL

(* The nodes form a tree at all times: no two child entries lead to the same *)
(* node (db.rs: alloc_id), and delete leaves none behind that leads nowhere. *)
THEOREM TreeHolds == Spec => []PathsAndIdsCorrespond
<1>1. IndInv => PathsAndIdsCorrespond
  BY DEF IndInv, PathsAndIdsCorrespond
<1> QED BY <1>1, IndInvHolds, PTL

(* An index with the path of each node under its type is what a walk finds. *)
LEMMA IndexedWalk ==
    ASSUME IndInv, phase \in {"stamp", "open"}, NEW ty \in Types
    PROVE  /\ paths_with_type(store, ty) = {p \in Tree(store) : Record(store, p).ty = ty}
           /\ \A id \in Ids : LET p == store[type_index_key(ty, id)]
                              IN  p # Absent => resolve(store, p) = id
<1> DEFINE w == walk(store)
           idx(id) == store[type_index_key(ty, id)]
<1>1. Whole(store) /\ Indexed(store)
  BY InvWhole DEF IndInv
<1>2. \A p \in Paths : /\ resolve(store, p) = w[p] /\ w[p] \in Ids \cup {Absent}
                       /\ w[p] # Absent => Live(store, w[p])
  BY <1>1, WalkFacts
<1>3. \A p, q \in Paths : (w[p] = w[q] /\ w[p] # Absent) => p = q
  BY <1>1, WalkInjective
<1>4. Tree(store) = {p \in Paths : w[p] # Absent}
  BY <1>2 DEF Tree, exists
<1>5. \A p \in Paths : Record(store, p) = store[node_key(w[p])]
  BY <1>2 DEF Record
<1>6. \A id \in Ids : IF Live(store, id) /\ store[node_key(id)].ty = ty
                      THEN idx(id) \in Paths /\ w[idx(id)] = id
                      ELSE idx(id) = Absent
  BY <1>1 DEF Indexed
<1>7. Absent \notin Ids /\ Absent \notin Paths
  BY IdsAreNumbers, ValueAssumption
<1>8. paths_with_type(store, ty) = {idx(id) : id \in Ids} \ {Absent}
  BY DEF paths_with_type
<1> HIDE DEF w, idx
<1>9. \A id \in Ids : idx(id) # Absent => resolve(store, idx(id)) = id
  BY <1>2, <1>6
<1>10. ASSUME NEW p \in paths_with_type(store, ty)
       PROVE  p \in Tree(store) /\ Record(store, p).ty = ty
  <2>1. PICK id \in Ids : p = idx(id) /\ p # Absent
    BY <1>8
  <2>2. p \in Paths /\ w[p] = id /\ store[node_key(id)].ty = ty
    BY <2>1, <1>6
  <2> QED BY <2>2, <1>4, <1>5, <1>7
<1>11. ASSUME NEW p \in Tree(store), Record(store, p).ty = ty
       PROVE  p \in paths_with_type(store, ty)
  <2>1. p \in Paths /\ w[p] \in Ids /\ Live(store, w[p]) /\ store[node_key(w[p])].ty = ty
    BY <1>11, <1>2, <1>4, <1>5
  <2>2. idx(w[p]) \in Paths /\ w[idx(w[p])] = w[p]
    BY <2>1, <1>6
  <2>3. idx(w[p]) = p
    BY <2>1, <2>2, <1>3, <1>7
  <2> QED BY <2>1, <2>3, <1>7, <1>8
<1>12. paths_with_type(store, ty) = {p \in Tree(store) : Record(store, p).ty = ty}
  BY <1>10, <1>11
<1> QED BY <1>9, <1>12 DEF idx

(* The type index is exactly what a walk of the namespace would find, from   *)
(* the rebuild at open on, through every operation and every transaction.    *)
THEOREM IndexHolds == Spec => []IndexIsTheWalk
<1>1. IndInv => IndexIsTheWalk
  BY IndexedWalk DEF IndexIsTheWalk
<1> QED BY <1>1, IndInvHolds, PTL

(* Clients see NamespaceTree: operations and transactions do to the tree of  *)
(* paths what they say or answer with an error and do nothing, a transaction *)
(* all at once, and opening, killing and rebuilding are invisible.           *)
THEOREM NamespaceImplementsTree == Spec => ImplementsTree
<1>1. Init => Visible!Init
  BY DEF Init, Visible!Init
<1>2. IndInv /\ [Next]_vars => [Visible!Next]_(Visible!vars)
  BY NextStep
<1> QED BY <1>1, <1>2, IndInvHolds, PTL DEF Spec, ImplementsTree, Visible!Spec
=============================================================================
