------------------------------- MODULE MCFuse -------------------------------
(* FuseFs on a small instance: everything happens at /a and below it. *)
EXTENDS FuseFs

a == <<"a">>
one == <<"1">>
dots == <<".", ".">>
x == string(<<"x">>)

Empty == [n \in {} |-> null]
Only(key, v) == With(Empty, key, v)

(* Members that are scalars and members that are not, keys of every kind,    *)
(* those of a hash that are no segment of a path, too.                       *)
MCValues ==
    { int(2),
      Hash(With(With(Only(one, int(2)), <<"1", "/">>, List(<<>>)), dots, x)),
      List(<<x, Hash(Empty), int(1)>>),
      Set(<<int(1), List(<<x>>)>>),
      Tree(With(With(Only(int(1), x), string(one), int(1)), null, x)) }

MCMemberName == With(Only(int(1), one), List(<<x>>), <<"h">>)

MCRpcOps ==
    [op : {"set"}, path : {<<a>>}, value : MCValues]
      \cup {[op |-> "set", path |-> <<a, one>>, value |-> x],
            [op |-> "delete", path |-> <<a>>],
            [op |-> "mkdir", path |-> <<a>>]}

(* The types of scalars that no client sets are there from the start. *)
Root == [p \in {<<>>} |-> NS!Dir]
MCTrees == {Root} \cup {With(Root, <<a>>, v) : v \in {null, bool(FALSE), float(1), bytes(<<BAD>>)}}

MCNames == <<{a, dots}, {one}>>
(* Text for a scalar of any type but null, and bytes that are no text. *)
MCChunks == {[offset |-> 0, data |-> <<"1">>], [offset |-> 1, data |-> <<BAD>>]}
=============================================================================
