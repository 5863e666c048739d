----------------------------- MODULE Namespace -----------------------------
(***************************************************************************)
(* The namespace of crates/alefs-namespace/src: directories and typed       *)
(* values as a graph of numbered nodes, kept in a key-value store together  *)
(* with a secondary index from types to nodes (db.rs, keys.rs), and         *)
(* transactions that run against an overlay and commit once (txn.rs).       *)
(*                                                                         *)
(* The store is any Storage: what matters of it here is that a commit is    *)
(* atomic and survives a crash, which is what WalStorage is checked for.    *)
(* A batch is a function from the keys it writes to the values it puts      *)
(* there, Absent where it deletes.                                          *)
(***************************************************************************)
EXTENDS Naturals, Sequences, FiniteSets

CONSTANTS
    Names,      \* path segments
    MaxDepth,   \* bound: segments of a path
    MaxId,      \* bound: the last node id that is given out
    MaxLen,     \* bound: elements of a list
    Elements,   \* the members of structured values
    Fields,     \* the keys of hashes and trees
    Scalars,    \* the scalar values, records with a field ty
    Targets,    \* the paths that single operations name
    Txns,       \* the transactions that clients send: sequences of operations
    OldStores,  \* data directories written before the index had a version
    Absent      \* not a value: "no entry"

ROOT_ID == 1
Ids == ROOT_ID..MaxId
Paths == UNION {[1..n -> Names] : n \in 0..MaxDepth}

ASSUME ConstantAssumption == {MaxDepth, MaxId, MaxLen} \subseteq Nat \ {0}

-----------------------------------------------------------------------------
(* Values and their types (crates/alefs-types/src/value.rs). *)

Structured(ty, data) == [ty |-> ty, data |-> data]
DirNode == [ty |-> "directory"]
Types == {s.ty : s \in Scalars} \cup {"hash", "list", "set", "tree", "directory"}

Hashes == UNION {[keys -> Elements] : keys \in SUBSET Fields}
Nodes ==
    {DirNode} \cup Scalars
      \cup [ty : {"hash", "tree"}, data : Hashes]
      \cup [ty : {"list"}, data : Seq(Elements)]
      \cup [ty : {"set"}, data : SUBSET Elements]

(* node_type_name *)
IsDir(rec) == rec.ty = "directory"

ASSUME ValueAssumption ==
    /\ \A s \in Scalars : s.ty \notin {"hash", "list", "set", "tree", "directory"}
    /\ Absent \notin Nodes /\ Absent \notin Paths /\ Absent \notin Nat

-----------------------------------------------------------------------------
(* Keys (keys.rs). Ids have a fixed width in them, so that no child_prefix   *)
(* or type_index_prefix is a prefix of another one's keys.                   *)

meta_next_id == <<"meta", "next_id">>
meta_version == <<"meta", "type_index_version">>
node_key(id) == <<"node", id>>
child_key(parent, name) == <<"child", parent, name>>
type_index_key(ty, id) == <<"idx", ty, id>>

IndexKeys == {type_index_key(ty, id) : ty \in Types, id \in Ids}
StoreKeys ==
    {meta_next_id, meta_version}
      \cup {node_key(id) : id \in Ids}
      \cup {child_key(id, name) : id \in Ids, name \in Names}
      \cup IndexKeys

EmptyStore == [k \in StoreKeys |-> Absent]

(* Functions with one entry, and f laid over g. *)
Put(k, v) == [x \in {k} |-> v]
f ++ g == [x \in DOMAIN f \cup DOMAIN g |-> IF x \in DOMAIN f THEN f[x] ELSE g[x]]

(* commit: the batch's entries replace the store's. *)
Commit(kv, batch) ==
    [k \in StoreKeys |-> IF k \in DOMAIN batch THEN batch[k] ELSE kv[k]]

-----------------------------------------------------------------------------
(* Reading. resolve follows the child entries from the root and returns the  *)
(* id of an existing node, or Absent (NotFound).                             *)

parent(path) == SubSeq(path, 1, Len(path) - 1)
name(path) == path[Len(path)]

(* Where the child entries lead to from the root. *)
walk(kv) ==
    LET id[p \in Paths] ==
            IF p = <<>> THEN ROOT_ID
            ELSE IF id[parent(p)] = Absent THEN Absent
            ELSE kv[child_key(id[parent(p)], name(p))]
    IN  id

resolve(kv, path) ==
    LET id == walk(kv)[path]
    IN  IF id = Absent THEN Absent
        ELSE IF kv[node_key(id)] = Absent THEN Absent ELSE id

exists(kv, path) == resolve(kv, path) # Absent
Record(kv, path) == kv[node_key(resolve(kv, path))]

(* The rows under child_prefix(id). *)
ChildNames(kv, id) == {n \in Names : kv[child_key(id, n)] # Absent}

(* The rows under type_index_prefix(ty). *)
paths_with_type(kv, ty) == {kv[type_index_key(ty, id)] : id \in Ids} \ {Absent}

ParentIsDir(kv, path) ==
    exists(kv, parent(path)) /\ IsDir(Record(kv, parent(path)))

-----------------------------------------------------------------------------
(* Writing. Each operation answers with whether it succeeds and the batch    *)
(* that it would commit; kv is what it reads.                                *)

Fails == [ok |-> FALSE, batch |-> <<>>]
Writes(batch) == [ok |-> TRUE, batch |-> batch]

(* A new node linked under the id that comes after its own. *)
NewNodeMislinked(kv, path, rec) ==
    LET id == kv[meta_next_id] IN
    Put(meta_next_id, id + 1)
      ++ Put(node_key(id), rec)
      ++ Put(child_key(resolve(kv, parent(path)), name(path)), id + 1)
      ++ Put(type_index_key(rec.ty, id), path)

(* alloc_id and the entries of a new node. *)
NewNode(kv, path, rec) ==
    LET id == kv[meta_next_id] IN
    Put(meta_next_id, id + 1)
      ++ Put(node_key(id), rec)
      ++ Put(child_key(resolve(kv, parent(path)), name(path)), id)
      ++ Put(type_index_key(rec.ty, id), path)

(* mkdir of the root succeeds and does nothing. *)
mkdir(kv, path) ==
    IF path = <<>> THEN Writes(<<>>)
    ELSE IF exists(kv, path) \/ ~ParentIsDir(kv, path) THEN Fails
    ELSE Writes(NewNode(kv, path, DirNode))

(* A replacement that leaves the index entry of the old type in place. *)
ReplaceKeepingIndex(kv, path, value) ==
    LET id == resolve(kv, path)
    IN  Put(node_key(id), value) ++ Put(type_index_key(value.ty, id), path)

(* The batch that replaces a value: of another type, perhaps. *)
Replace(kv, path, value) ==
    LET id  == resolve(kv, path)
        old == kv[node_key(id)]
    IN  Put(node_key(id), value)
          ++ Put(type_index_key(value.ty, id), path)
          ++ Put(type_index_key(old.ty, id), Absent)

set(kv, path, value) ==
    IF path = <<>> \/ ~ParentIsDir(kv, path) THEN Fails
    ELSE IF kv[child_key(resolve(kv, parent(path)), name(path))] = Absent
    THEN Writes(NewNode(kv, path, value))
    ELSE IF ~exists(kv, path) THEN Fails   \* "missing node"
    ELSE IF IsDir(Record(kv, path)) THEN Fails
    ELSE Writes(Replace(kv, path, value))

(* The batch that deletes a node with its entries. *)
Unlink(kv, path) ==
    LET id == resolve(kv, path)
    IN  Put(type_index_key(kv[node_key(id)].ty, id), Absent)
          ++ Put(child_key(resolve(kv, parent(path)), name(path)), Absent)
          ++ Put(node_key(id), Absent)

(* A delete that does not look into the directory. *)
delete_unchecked(kv, path) ==
    IF path = <<>> \/ ~exists(kv, path) THEN Fails ELSE Writes(Unlink(kv, path))

delete(kv, path) ==
    IF path = <<>> \/ ~exists(kv, path) THEN Fails
    ELSE IF IsDir(Record(kv, path)) /\ ChildNames(kv, resolve(kv, path)) # {} THEN Fails
    ELSE Writes(Unlink(kv, path))

(* The structured operations read a value, change it and set it. A missing   *)
(* value counts as an empty one, a value of another type is an error. A set  *)
(* is encoded sorted and without duplicates, so that it is a set.            *)
Data(kv, path, empty) == IF exists(kv, path) THEN Record(kv, path).data ELSE empty

Update(kv, path, ty, data) ==
    IF exists(kv, path) /\ Record(kv, path).ty # ty THEN Fails
    ELSE set(kv, path, Structured(ty, data))

hash_set(kv, path, key, value) ==
    Update(kv, path, "hash", Put(key, value) ++ Data(kv, path, <<>>))

list_push(kv, path, value) ==
    Update(kv, path, "list", Append(Data(kv, path, <<>>), value))

set_add(kv, path, value) ==
    Update(kv, path, "set", Data(kv, path, {}) \cup {value})

tree_set(kv, path, key, value) ==
    Update(kv, path, "tree", Put(key, value) ++ Data(kv, path, <<>>))

(* The operations that a client may name, alone or in a transaction. *)
Ops ==
    [op : {"mkdir", "delete"}, path : Targets]
      \cup [op : {"set"}, path : Targets, value : Scalars]
      \cup [op : {"hash_set", "tree_set"}, path : Targets, key : Fields, value : Elements]
      \cup [op : {"list_push", "set_add"}, path : Targets, value : Elements]

ASSUME OpsAssumption == Targets \subseteq Paths /\ \A ops \in Txns : ops \in Seq(Ops)

Run(kv, o) ==
    CASE o.op = "mkdir"     -> mkdir(kv, o.path)
      [] o.op = "set"       -> set(kv, o.path, o.value)
      [] o.op = "delete"    -> delete(kv, o.path)
      [] o.op = "hash_set"  -> hash_set(kv, o.path, o.key, o.value)
      [] o.op = "tree_set"  -> tree_set(kv, o.path, o.key, o.value)
      [] o.op = "list_push" -> list_push(kv, o.path, o.value)
      [] o.op = "set_add"   -> set_add(kv, o.path, o.value)

-----------------------------------------------------------------------------
(* Transactions. The overlay holds what the operations so far have written,  *)
(* deletions too; the next operation reads the store through it.             *)

(* An overlay whose reads miss what was written before. *)
OverlayReadsStore(kv, pending) == kv

(* Overlay::get and Overlay::scan_prefix *)
OverlayView(kv, pending) ==
    [k \in StoreKeys |-> IF k \in DOMAIN pending THEN pending[k] ELSE kv[k]]

(* apply_one on the overlay, whose put and delete overwrite earlier ones. *)
apply_one(kv, txn, o) ==
    LET r == Run(OverlayView(kv, txn.batch), o)
    IN  IF ~txn.ok \/ ~r.ok THEN Fails ELSE Writes(r.batch ++ txn.batch)

(* apply_txn: the first error abandons the overlay. *)
apply_txn(kv, ops) ==
    LET run[n \in 0..Len(ops)] ==
            IF n = 0 THEN Writes(<<>>) ELSE apply_one(kv, run[n - 1], ops[n])
    IN  run[Len(ops)]

-----------------------------------------------------------------------------
(* Opening: three commits, between which the process may be killed. *)

INDEX_VER == 1

(* The paths that the walk from the root visits. *)
Tree(kv) == {p \in Paths : exists(kv, p)}

(* rebuild_type_index: delete every entry, then put one for each path of the *)
(* walk, in one batch.                                                       *)
rebuild_type_index(kv) ==
    [k \in StoreKeys |->
        IF \E p \in Tree(kv) : k = type_index_key(Record(kv, p).ty, resolve(kv, p))
        THEN CHOOSE p \in Tree(kv) : k = type_index_key(Record(kv, p).ty, resolve(kv, p))
        ELSE IF k \in IndexKeys THEN Absent
        ELSE kv[k]]

(* A store is a function on the keys. *)
IsStore(kv) == kv = [k \in StoreKeys |-> kv[k]]

(* It holds the right kind of value under each key. *)
StoreType(kv) ==
    /\ IsStore(kv)
    /\ kv[meta_next_id] \in (ROOT_ID + 1)..(MaxId + 1) \cup {Absent}
    /\ kv[meta_version] \in {INDEX_VER, Absent}
    /\ \A id \in Ids : kv[node_key(id)] \in Nodes \cup {Absent}
    /\ \A id \in Ids, n \in Names : kv[child_key(id, n)] \in Ids \cup {Absent}
    /\ \A k \in IndexKeys : kv[k] \in Paths \cup {Absent}

Live(kv, id) == kv[node_key(id)] # Absent

(* The child entries that lead to a node. *)
Links(kv, id) == {l \in Ids \X Names : kv[child_key(l[1], l[2])] = id}

(* The nodes form a tree: but for the root, a node has exactly one child     *)
(* entry, in a directory, and an id below next_id; a deleted one has none.   *)
Linked(kv) ==
    \A id \in Ids :
        /\ Links(kv, id) # {} => Live(kv, id) /\ id # ROOT_ID
        /\ (Live(kv, id) /\ id # ROOT_ID) =>
              /\ id < kv[meta_next_id]
              /\ \E l \in Links(kv, id) :
                    /\ Links(kv, id) = {l}
                    /\ Live(kv, l[1]) /\ IsDir(kv[node_key(l[1])])

(* Under the root, a directory, from which every node is reached; next_id    *)
(* may be missing only where there is no other node.                         *)
Rooted(kv) ==
    /\ Live(kv, ROOT_ID) => IsDir(kv[node_key(ROOT_ID)])
    /\ \A id \in Ids : Live(kv, id) =>
          /\ Live(kv, ROOT_ID)
          /\ id # ROOT_ID => kv[meta_next_id] # Absent
          /\ \E p \in Paths : walk(kv)[p] = id

(* What earlier versions left is a tree, without the index's version. *)
ASSUME StoresAssumption ==
    \A kv \in OldStores :
        StoreType(kv) /\ Linked(kv) /\ Rooted(kv) /\ kv[meta_version] = Absent

VARIABLES
    store,   \* the key-value store, as committed
    phase,   \* "closed", then open's commits, then "open"
    answer   \* "ok" or "err": what the last operation returned

vars == <<store, phase, answer>>

Init ==
    /\ store \in {EmptyStore} \cup OldStores
    /\ phase = "closed"
    /\ answer = "ok"

EnsureRoot(kv) ==
    IF kv[node_key(ROOT_ID)] = Absent
    THEN Commit(kv, Put(node_key(ROOT_ID), DirNode)
                      ++ Put(meta_next_id, ROOT_ID + 1)
                      ++ Put(type_index_key("directory", ROOT_ID), <<>>))
    ELSE IF kv[meta_next_id] = Absent
    THEN Commit(kv, Put(meta_next_id, ROOT_ID + 1))
    ELSE kv

open ==
    /\ phase = "closed"
    /\ store' = EnsureRoot(store)
    /\ phase' = IF store[meta_version] = INDEX_VER THEN "open" ELSE "rebuild"
    /\ UNCHANGED answer

open_rebuild ==
    /\ phase = "rebuild"
    /\ store' = rebuild_type_index(store)
    /\ phase' = "stamp"
    /\ UNCHANGED answer

open_stamp ==
    /\ phase = "stamp"
    /\ store' = Commit(store, Put(meta_version, INDEX_VER))
    /\ phase' = "open"
    /\ UNCHANGED answer

kill ==
    /\ phase # "closed"
    /\ phase' = "closed"
    /\ UNCHANGED <<store, answer>>

(* Within the bounds of the model: ids, and elements of lists. *)
Bounded(batch) ==
    \A k \in DOMAIN batch :
        /\ k = meta_next_id => batch[k] <= MaxId + 1
        /\ (k[1] = "node" /\ batch[k] # Absent) =>
              (batch[k].ty = "list" => Len(batch[k].data) <= MaxLen)

(* Outcome r is committed if it is a success, and answered. *)
Finish(r) ==
    /\ phase = "open"
    /\ Bounded(r.batch)
    /\ store' = Commit(store, r.batch)
    /\ answer' = IF r.ok THEN "ok" ELSE "err"
    /\ UNCHANGED phase

(* Bound: there are ids left for every node that ops may create. *)
Room(ops) ==
    store[meta_next_id] + Cardinality({i \in DOMAIN ops : ops[i].op # "delete"}) <= MaxId + 1

operation(o) == Finish(Run(store, o))

transaction(ops) ==
    /\ phase = "open"
    /\ Room(ops)
    /\ Finish(apply_txn(store, ops))

Next ==
    \/ open
    \/ open_rebuild
    \/ open_stamp
    \/ kill
    \/ \E o \in Ops : operation(o)
    \/ \E ops \in Txns : transaction(ops)

Spec == Init /\ [][Next]_vars

-----------------------------------------------------------------------------
TypeOK ==
    /\ StoreType(store)
    /\ phase \in {"closed", "rebuild", "stamp", "open"}
    /\ answer \in {"ok", "err"}

(* The nodes form a tree under the root: a node other than the root has      *)
(* exactly one child entry, in a directory, a deleted one has none, and no   *)
(* id at or above next_id is in use: alloc_id never gives out a live id, and *)
(* delete never leaves an entry or a node behind ("Path <-> node id mapping  *)
(* is unique").                                                              *)
PathsAndIdsCorrespond == Linked(store)

(* Once the index is built, an entry of the type index exists for exactly    *)
(* the paths that exist, under the type that they have: what                 *)
(* paths_with_type returns is what a walk of the namespace would find.       *)
IndexIsTheWalk ==
    phase \in {"stamp", "open"} =>
        \A ty \in Types :
            /\ paths_with_type(store, ty) = {p \in Tree(store) : Record(store, p).ty = ty}
            /\ \A id \in Ids : LET p == store[type_index_key(ty, id)]
                               IN  p # Absent => resolve(store, p) = id

(* The entry of the type index for each node, and for no other, is its path. *)
Indexed(kv) ==
    \A ty \in Types, id \in Ids :
        LET p == kv[type_index_key(ty, id)]
        IN  IF Live(kv, id) /\ kv[node_key(id)].ty = ty
            THEN p \in Paths /\ walk(kv)[p] = id
            ELSE p = Absent

(* What every step of the namespace preserves: the tree is whole whatever    *)
(* open was doing when the process was killed, the root and next_id are      *)
(* there from open's first commit on, and the index is right once it is      *)
(* built and wherever the store says that it has been.                       *)
IndInv ==
    /\ TypeOK
    /\ Linked(store)
    /\ Rooted(store)
    /\ (phase # "closed" \/ store[meta_version] = INDEX_VER) =>
          Live(store, ROOT_ID) /\ store[meta_next_id] # Absent
    /\ (phase \in {"stamp", "open"} \/ store[meta_version] = INDEX_VER) => Indexed(store)

(* The tree that the store stands for. *)
TreeOf(kv) == [p \in Tree(kv) |-> kv[node_key(resolve(kv, p))]]

(* Before the root is there, the store stands for the empty tree. *)
Abstract(kv) == IF exists(kv, <<>>) THEN TreeOf(kv) ELSE TreeOf(EnsureRoot(kv))

Visible == INSTANCE NamespaceTree WITH
    Trees <- {Abstract(kv) : kv \in {EmptyStore} \cup OldStores},
    tree <- Abstract(store)

(* Every operation and every transaction of the namespace does to the tree   *)
(* of paths what it says, answers as it should, and a transaction does all   *)
(* or nothing; opening, rebuilding the index and crashes do nothing to it.   *)
ImplementsTree == Visible!Spec
=============================================================================
