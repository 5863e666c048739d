---------------------------- MODULE MCNamespace ----------------------------
(* Namespace on a small instance. *)
EXTENDS Namespace

a == <<"a">>
b == <<"b">>
ab == <<"a", "b">>

str == [ty |-> "string"]
int == [ty |-> "int"]

MCTargets == {<<>>, a, b, ab}
MCScalars == {str, int}

Mkdir(p) == [op |-> "mkdir", path |-> p]
Set(p, v) == [op |-> "set", path |-> p, value |-> v]
Delete(p) == [op |-> "delete", path |-> p]
ListPush(p, e) == [op |-> "list_push", path |-> p, value |-> e]
SetAdd(p, e) == [op |-> "set_add", path |-> p, value |-> e]
HashSet(p, k, e) == [op |-> "hash_set", path |-> p, key |-> k, value |-> e]
TreeSet(p, k, e) == [op |-> "tree_set", path |-> p, key |-> k, value |-> e]

(* Transactions whose operations depend on one another: a directory and its  *)
(* content, a node deleted and made again, an emptied directory deleted, a   *)
(* type changed twice, and some that fail at their last operation.           *)
MCTxns ==
    { << Mkdir(a), Set(ab, str) >>,
      << Mkdir(a), Mkdir(a) >>,
      << Set(a, str), Delete(a), Mkdir(a) >>,
      << Delete(ab), Delete(a) >>,
      << Set(a, int), Set(a, str) >>,
      << Delete(ab), Delete(a), Set(a, int) >>,
      << Mkdir(a), Delete(a) >>,
      << HashSet(b, "f", "x"), ListPush(a, "x"), ListPush(a, "x") >>,
      << Set(ab, int), Delete(a) >>,
      << SetAdd(b, "x"), SetAdd(b, "x"), TreeSet(a, "f", "x"), Delete(b) >> }

(* A data directory of an older version: /a/b and /b, no index, or one left  *)
(* by other software with entries that are wrong.                            *)
OldStore(idx) ==
    Commit(EmptyStore,
      idx ++ Put(meta_next_id, 5)
          ++ Put(node_key(1), DirNode)
          ++ Put(node_key(2), DirNode) ++ Put(child_key(1, "a"), 2)
          ++ Put(node_key(3), str)     ++ Put(child_key(1, "b"), 3)
          ++ Put(node_key(4), int)     ++ Put(child_key(2, "b"), 4))

MCOldStores ==
    { OldStore(<<>>),
      OldStore(Put(type_index_key("int", 3), b) ++ Put(type_index_key("int", 4), ab)) }
=============================================================================
