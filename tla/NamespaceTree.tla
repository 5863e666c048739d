--------------------------- MODULE NamespaceTree ---------------------------
(***************************************************************************)
(* What clients of the namespace see: a tree of paths with a directory or a *)
(* typed value at each. No ids, no index, no overlay, no storage keys.      *)
(* Namespace implements this module.                                        *)
(***************************************************************************)
EXTENDS Naturals, Sequences

CONSTANTS
    Ops,        \* the operations
    Txns,       \* the transactions: sequences of operations
    Trees       \* the trees there may be at the start

VARIABLES
    tree,       \* the paths that exist, each with what is there
    answer      \* what the last operation returned

vars == <<tree, answer>>

Dir == [ty |-> "directory"]
Parent(p) == SubSeq(p, 1, Len(p) - 1)
Below(t, p) == {q \in DOMAIN t : Len(q) = Len(p) + 1 /\ Parent(q) = p}
With(f, k, v) == [x \in DOMAIN f \cup {k} |-> IF x = k THEN v ELSE f[x]]
Without(t, p) == [q \in DOMAIN t \ {p} |-> t[q]]

IsDirAt(t, p) == p \in DOMAIN t /\ t[p] = Dir
MayHold(t, p) == p # <<>> /\ IsDirAt(t, Parent(p)) /\ ~IsDirAt(t, p)

(* The structured value at p, empty if there is none. *)
DataAt(t, p, empty) == IF p \in DOMAIN t THEN t[p].data ELSE empty
Fits(t, p, ty) == MayHold(t, p) /\ (p \in DOMAIN t => t[p].ty = ty)

Kinds == {"mkdir", "set", "delete", "hash_set", "tree_set", "list_push", "set_add"}

(* Whether o succeeds on t, and the tree that it then leaves. *)
Allowed(t, o) ==
    CASE o.op = "mkdir"     -> o.path = <<>> \/ (o.path \notin DOMAIN t /\ MayHold(t, o.path))
      [] o.op = "set"       -> MayHold(t, o.path)
      [] o.op = "delete"    -> o.path # <<>> /\ o.path \in DOMAIN t /\ Below(t, o.path) = {}
      [] o.op = "hash_set"  -> Fits(t, o.path, "hash")
      [] o.op = "tree_set"  -> Fits(t, o.path, "tree")
      [] o.op = "list_push" -> Fits(t, o.path, "list")
      [] o.op = "set_add"   -> Fits(t, o.path, "set")

Effect(t, o) ==
    LET p == o.path
        Becomes(ty, data) == With(t, p, [ty |-> ty, data |-> data])
    IN  CASE o.op = "mkdir"     -> IF p \in DOMAIN t THEN t ELSE With(t, p, Dir)
          [] o.op = "set"       -> With(t, p, o.value)
          [] o.op = "delete"    -> Without(t, p)
          [] o.op = "hash_set"  -> Becomes("hash", With(DataAt(t, p, <<>>), o.key, o.value))
          [] o.op = "tree_set"  -> Becomes("tree", With(DataAt(t, p, <<>>), o.key, o.value))
          [] o.op = "list_push" -> Becomes("list", Append(DataAt(t, p, <<>>), o.value))
          [] o.op = "set_add"   -> Becomes("set", DataAt(t, p, {}) \cup {o.value})

(* The trees before, between and after the operations of a transaction. *)
Stages(t, ops) ==
    LET stage[n \in 0..Len(ops)] ==
            IF n = 0 THEN t
            ELSE IF Allowed(stage[n - 1], ops[n]) THEN Effect(stage[n - 1], ops[n])
            ELSE stage[n - 1]
    IN  stage

AllAllowed(t, ops) == \A n \in 1..Len(ops) : Allowed(Stages(t, ops)[n - 1], ops[n])

Init == tree \in Trees /\ answer = "ok"

(* All the operations take effect, in order, or none does. *)
Execute(ops) ==
    /\ answer' = IF AllAllowed(tree, ops) THEN "ok" ELSE "err"
    /\ tree' = IF AllAllowed(tree, ops) THEN Stages(tree, ops)[Len(ops)] ELSE tree

Next ==
    \/ \E o \in Ops : Execute(<<o>>)
    \/ \E ops \in Txns : Execute(ops)

Spec == Init /\ [][Next]_vars
=============================================================================
