------------------------------- MODULE FuseFs -------------------------------
(***************************************************************************)
(* The mounted file system of crates/alefs-fuse/src/lib.rs: a projection of *)
(* the namespace, with numbers for the paths that the kernel has asked      *)
(* about and a buffer for every file that has been written and not synced.  *)
(*                                                                         *)
(* The FUSE session calls one handler after the other, and every handler    *)
(* that reads or changes the database holds its mutex throughout: a handler *)
(* is one step. Between handlers the clients of the daemon change the same  *)
(* database (Rpc). What the database does is what NamespaceTree says, which *)
(* Namespace is checked to implement, and a commit may fail as WalStorage's *)
(* do: what it was to change may be there all the same, or come back when   *)
(* the store is opened again.                                               *)
(***************************************************************************)
EXTENDS Values

CONSTANTS
    Trees,       \* what may be mounted: namespaces, as NamespaceTree has them
    RpcOps,      \* the operations of the daemon's other clients
    Names,       \* the names that processes use, by depth
    Chunks,      \* what processes write: where, and what, which is not empty
    MemberName,  \* the digest that names a member of a set (DefaultHasher)
    MaxDepth,    \* bound: segments of a path
    MaxIno,      \* bound: inode numbers
    MaxWrites    \* bound: writes that are pending

FUSE_ROOT_ID == 1
Inos == FUSE_ROOT_ID..MaxIno
NUL == "\\0"
BAD == "\\ff"     \* a byte that UTF-8 does not have
Writes == [offset : {c.offset : c \in Chunks}, data : {c.data : c \in Chunks}]

ASSUME FuseAssumption ==
    /\ {MaxDepth, MaxIno, MaxWrites} \subseteq Nat \ {0}
    /\ DOMAIN Names = 1..MaxDepth
    /\ \A c \in Chunks : c.offset \in Nat /\ Len(c.data) \in Nat \ {0}

VARIABLES
    tree,          \* the namespace, as the daemon's clients see it
    reopened,      \* what opening the store again finds, where that is known
    ino_to_path,   \* the tables of the mount ...
    path_to_ino,
    next_ino,
    dirty,         \* ... and its pending writes, by inode number
    files,         \* the inode numbers that the kernel may hold open as files
    errno,         \* the answer to the last call
    written        \* history: the writes since the file was last synced

vars == <<tree, reopened, ino_to_path, path_to_ino, next_ino, dirty, files, errno, written>>

(* For its operators: what an operation does to a tree, and when it may. *)
NS == INSTANCE NamespaceTree WITH Ops <- {}, Txns <- {}, Trees <- {}, answer <- errno

-----------------------------------------------------------------------------
(* Scalars as the content of a file. *)

scalar_bytes(s) ==
    CASE s.ty = "null"   -> NullText
      [] s.ty = "bool"   -> BoolText(s.bool)
      [] s.ty = "int"    -> ShowInt(s.int)
      [] s.ty = "float"  -> FloatText(s.bits)
      [] s.ty = "string" -> s.text
      [] s.ty = "bytes"  -> s.bytes

IsUtf8(data) == \A i \in DOMAIN data : data[i] # BAD

(* A parser that takes a number for a string where it was a number no more. *)
parse_untyped(existing, data) ==
    IF existing.ty = "int" /\ ParseInt(Trim(data)) # {}
    THEN {int(n) : n \in ParseInt(Trim(data))}
    ELSE {string(data)}

(* The scalar of existing's type that data is the text of, if it is one. *)
parse_scalar_text(existing, data) ==
    LET s == Trim(data) IN
    IF existing.ty = "bytes" THEN {bytes(data)}
    ELSE IF ~IsUtf8(data) THEN {}
    ELSE CASE existing.ty = "string" -> {string(data)}
           [] existing.ty = "int"    -> {int(n) : n \in ParseInt(s)}
           [] existing.ty = "float"  -> {float(b) : b \in ParseFloat(s)}
           [] existing.ty = "bool"   -> {bool(b) : b \in {c \in BOOLEAN : s \in
                                            {BoolText(c), IF c THEN <<"1">> ELSE <<"0">>}}}
           [] existing.ty = "null"   -> IF s \in {NullText, <<>>} THEN {null} ELSE {}

-----------------------------------------------------------------------------
(* Structured values as directories. *)

set_member_name(v) == MemberName[v]

(* The name of a tree's key; other is printed for debugging. *)
key_name(k) ==
    CASE k.ty = "string" -> k.text
      [] k.ty = "int"    -> ShowInt(k.int)
      [] OTHER           -> <<"Debug", k.ty>>

FileType(v) == IF IsScalar(v) THEN "file" ELSE "dir"

project_listing(v) ==
    CASE v.ty = "hash" -> {<<k, FileType(v.map[k])>> : k \in DOMAIN v.map}
      [] v.ty = "list" -> {<<ShowNat(i - 1), FileType(v.items[i])>> : i \in DOMAIN v.items}
      [] v.ty = "set"  -> {<<set_member_name(v.members[i]), "file">> : i \in DOMAIN v.members}
      [] v.ty = "tree" -> {<<key_name(k), "file">> : k \in DOMAIN v.entries}
      [] OTHER         -> {}

(* The positions of a list that a name means, and of a set. *)
Index(v, name) == {i \in {n + 1 : n \in ParseNat(name)} : i <= Len(v.items)}
Named(v, name) == {i \in DOMAIN v.members : set_member_name(v.members[i]) = name}

(* The keys of a tree that are looked for: as a number first. *)
IntKey(v, name) == {int(n) : n \in ParseInt(name)} \cap DOMAIN v.entries
StringKey(v, name) == {string(name)} \cap DOMAIN v.entries

(* A lookup that tries tree keys as numbers only. *)
project_child_value_by_number(v, name) ==
    CASE v.ty = "hash" -> {v.map[k] : k \in {name} \cap DOMAIN v.map}
      [] v.ty = "tree" -> {v.entries[k] : k \in IntKey(v, name)}
      [] OTHER         -> {}

project_child_value(v, name) ==
    CASE v.ty = "hash" -> {v.map[k] : k \in {name} \cap DOMAIN v.map}
      [] v.ty = "list" -> {v.items[i] : i \in Index(v, name)}
      [] v.ty = "set"  -> IF Named(v, name) = {} THEN {} ELSE {v.members[Min(Named(v, name))]}
      [] v.ty = "tree" -> {v.entries[k] : k \in IF IntKey(v, name) # {} THEN IntKey(v, name)
                                                ELSE StringKey(v, name)}
      [] OTHER         -> {}

WithoutItem(items, i) == SubSeq(items, 1, i - 1) \o SubSeq(items, i + 1, Len(items))

(* retain, by the name: a recursive function, which can be proved about. *)
Retained(members, name) ==
    LET kept[i \in 0..Len(members)] ==
            IF i = 0 THEN <<>>
            ELSE IF set_member_name(members[i]) = name THEN kept[i - 1]
            ELSE Append(kept[i - 1], members[i])
    IN  kept[Len(members)]

(* An unlink that counts a list's items from one. *)
project_unlink_off_by_one(v, name) ==
    CASE v.ty = "list" -> {List(WithoutItem(v.items, n)) : n \in ParseNat(name) \cap DOMAIN v.items}
      [] OTHER         -> {}

(* The value without the member, if it has it: a name that is a number only  *)
(* means the key of a tree that is that number.                              *)
project_unlink(v, name) ==
    CASE v.ty = "hash" -> {Hash(Drop(v.map, k)) : k \in {name} \cap DOMAIN v.map}
      [] v.ty = "list" -> {List(WithoutItem(v.items, i)) : i \in Index(v, name)}
      [] v.ty = "set"  -> IF Named(v, name) = {} THEN {}
                          ELSE {Set(Retained(v.members, name))}
      [] v.ty = "tree" -> {Tree(Drop(v.entries, k)) :
                              k \in IF ParseInt(name) # {} THEN IntKey(v, name)
                                    ELSE StringKey(v, name)}
      [] OTHER         -> {}

-----------------------------------------------------------------------------
(* Paths. The tables hold them as strings, here cut at the slashes: a path   *)
(* has a segment more for every slash in the name that it ends with, and an  *)
(* empty one if that is empty.                                               *)

DOTS == {<<".">>, <<".", ".">>}
IsSegment(s) == s \notin {<<>>} \cup DOTS /\ \A i \in DOMAIN s : s[i] \notin {"/", NUL}

(* DbPath::parse: slashes at the end are dropped, and segments that no path  *)
(* may have are refused.                                                     *)
parse(p) ==
    {SubSeq(p, 1, n) : n \in {m \in 0..Len(p) :
        /\ \A i \in 1..m : IsSegment(p[i])
        /\ \A i \in (m + 1)..Len(p) : p[i] = <<>>}}

(* What is listed below p as name: the dots are the directory itself. *)
child_path(p, name) == IF name \in DOTS THEN p ELSE p \o Split(name)

-----------------------------------------------------------------------------
(* What the database holds. *)

(* A path has segments, and a text characters, of whatever kind. *)
IsSequence(p) == p \in Seq({p[i] : i \in DOMAIN p})
IsPath(p) == IsSequence(p) /\ \A i \in DOMAIN p : IsSequence(p[i])
IsDbPath(p) == IsPath(p) /\ \A i \in DOMAIN p : IsSegment(p[i])

IsScalarValue(v) ==
    \/ v = null
    \/ v.ty = "bool"   /\ v = bool(v.bool) /\ v.bool \in BOOLEAN
    \/ v.ty = "int"    /\ v = int(v.int) /\ v.int \in Int
    \/ v.ty = "float"  /\ v = float(v.bits) /\ v.bits \in Nat
    \/ v.ty = "string" /\ v = string(v.text) /\ IsSequence(v.text)
    \/ v.ty = "bytes"  /\ v = bytes(v.bytes) /\ IsSequence(v.bytes)

(* What is in a structured value, of which no more is projected than what is *)
(* scalar; and a map of such members.                                        *)
IsMember(v) == IsScalar(v) => IsScalarValue(v)
IsMap(f) ==
    /\ f = [k \in DOMAIN f |-> f[k]] /\ IsFiniteSet(DOMAIN f)
    /\ \A k \in DOMAIN f : IsMember(f[k])

(* The members of a set differ, and so do their digests. *)
IsValue(v) ==
    \/ IsScalarValue(v)
    \/ /\ v.ty = "hash" /\ v = Hash(v.map) /\ IsMap(v.map)
       /\ \A k \in DOMAIN v.map : IsSequence(k)
    \/ /\ v.ty = "list" /\ v = List(v.items) /\ IsSequence(v.items)
       /\ \A i \in DOMAIN v.items : IsMember(v.items[i])
    \/ /\ v.ty = "set" /\ v = Set(v.members) /\ IsSequence(v.members)
       /\ \A i \in DOMAIN v.members :
             IsMember(v.members[i]) /\ IsSequence(set_member_name(v.members[i]))
       /\ \A i, j \in DOMAIN v.members :
             set_member_name(v.members[i]) = set_member_name(v.members[j]) => i = j
    \/ /\ v.ty = "tree" /\ v = Tree(v.entries) /\ IsMap(v.entries)
       /\ \A k \in DOMAIN v.entries : IsScalarValue(k)

(* Directories, with values at their ends. *)
IsNamespace(t) ==
    /\ t = [p \in DOMAIN t |-> t[p]]
    /\ NS!IsDirAt(t, <<>>)
    /\ \A p \in DOMAIN t :
          /\ IsDbPath(p)
          /\ t[p] = NS!Dir \/ IsValue(t[p])
          /\ p # <<>> => NS!IsDirAt(t, NS!Parent(p))

(* Such namespaces are mounted, and the daemon's other clients keep them so: *)
(* a structured value that one of them updates is set to what it becomes. A  *)
(* process names one segment, which the kernel has cut from a path.          *)
ASSUME ValueAssumption ==
    /\ \A t \in Trees : IsNamespace(t)
    /\ \A o \in RpcOps :
          /\ o.op \in {"mkdir", "set", "delete"} /\ IsDbPath(o.path)
          /\ o.op = "set" => IsValue(o.value)
    /\ \A d \in DOMAIN Names : \A name \in Names[d] :
          IsSequence(name) /\ (IsSegment(name) \/ name \in DOTS)

-----------------------------------------------------------------------------
(* What is where, by path. *)

Parent(p) == SubSeq(p, 1, Len(p) - 1)
Last(p) == p[Len(p)]

(* The value of the entry at p (db.get), unless it is a directory. *)
ValueAt(p) == {tree[q] : q \in {r \in {p} \cap DOMAIN tree : tree[r] # NS!Dir}}

(* The member of the structured value above p that p names. *)
Projected(p) ==
    IF p = <<>> THEN {}
    ELSE UNION {project_child_value(v, Last(p)) : v \in ValueAt(Parent(p))}

attr_for(v) == [kind |-> FileType(v), size |-> IF IsScalar(v) THEN Len(scalar_bytes(v)) ELSE 0]

EntryAttr(p) == {attr_for(tree[q]) : q \in {p} \cap DOMAIN tree}
ProjectedAttr(p) == {attr_for(v) : v \in Projected(p)}

(* The answers of lookup, getattr, read, readdir and getxattr, each of which *)
(* parses the path first. They are options: none stands for the error.       *)

(* p ends with the name that is looked up, which is a segment or dots. *)
LookupAttr(p) ==
    UNION {IF ProjectedAttr(c) # {} THEN ProjectedAttr(c) ELSE EntryAttr(c) : c \in parse(p)}

getattr(ino) ==
    IF ino \in DOMAIN dirty THEN {[kind |-> "file", size |-> Len(dirty[ino])]}
    ELSE UNION {IF EntryAttr(c) # {} THEN EntryAttr(c) ELSE ProjectedAttr(c) :
                   c \in parse(ino_to_path[ino])}

(* The size bytes from offset on, as many of them as there are. *)
Slice(data, offset, size) ==
    IF offset >= Len(data) THEN <<>> ELSE SubSeq(data, offset + 1, Min({offset + size, Len(data)}))

Contents(c) ==
    LET scalars == {v \in ValueAt(c) : IsScalar(v)}
    IN  {scalar_bytes(s) : s \in IF scalars # {} THEN scalars
                                 ELSE {v \in Projected(c) : IsScalar(v)}}

read(ino, offset, size) ==
    {Slice(data, offset, size) : data \in
        IF ino \in DOMAIN dirty THEN {dirty[ino]}
        ELSE UNION {Contents(c) : c \in parse(ino_to_path[ino])}}

Listing(c) ==
    IF c \notin DOMAIN tree THEN {}
    ELSE IF tree[c] = NS!Dir
    THEN {<<Last(q), FileType(tree[q])>> : q \in NS!Below(tree, c)}
    ELSE project_listing(tree[c])

(* What readdir lists: nothing is found of a member of a member. *)
Listings(p) == {Listing(c) : c \in parse(p) \cap DOMAIN tree}

(* user.alefs.type *)
type_xattr(p) ==
    UNION {IF c \in DOMAIN tree THEN {tree[c].ty} ELSE {v.ty : v \in Projected(c)} : c \in parse(p)}

(* user.alefs.member: scalars as text, what else there is by its type. *)
format_member_hint(v) ==
    CASE v.ty = "bytes" -> <<"bytes", Len(v.bytes)>>
      [] IsScalar(v)    -> scalar_bytes(v)
      [] OTHER          -> <<"<", v.ty, ">">>

MembersOfSet(c) ==
    IF c = <<>> THEN {}
    ELSE UNION {project_child_value(v, Last(c)) : v \in {w \in ValueAt(Parent(c)) : w.ty = "set"}}

member_xattr(p) == {format_member_hint(v) : v \in UNION {MembersOfSet(c) : c \in parse(p)}}

-----------------------------------------------------------------------------
(* Inode numbers. *)

Tables == <<ino_to_path, path_to_ino, next_ino>>

(* Numbers for new paths, in the order in which they are listed. *)
Numbering(fresh) ==
    CHOOSE num \in [fresh -> next_ino..(next_ino + Cardinality(fresh) - 1)] :
        \A p, q \in fresh : num[p] = num[q] => p = q

(* Numbers that are given out and not counted. *)
ino_for_path_uncounted(paths) ==
    LET fresh == paths \ DOMAIN path_to_ino
        num   == Numbering(fresh)
    IN  /\ IsFiniteSet(fresh) /\ next_ino + Cardinality(fresh) <= MaxIno + 1
        /\ path_to_ino' = [p \in DOMAIN path_to_ino \cup fresh |->
                              IF p \in fresh THEN num[p] ELSE path_to_ino[p]]
        /\ ino_to_path' = [n \in DOMAIN ino_to_path \cup {num[p] : p \in fresh} |->
                              IF \E p \in fresh : num[p] = n
                              THEN CHOOSE p \in fresh : num[p] = n ELSE ino_to_path[n]]
        /\ next_ino' = next_ino

(* ino_for_path, for every path of a set. The last number is a bound. *)
ino_for_path(paths) ==
    LET fresh == paths \ DOMAIN path_to_ino
        num   == Numbering(fresh)
    IN  /\ IsFiniteSet(fresh) /\ next_ino + Cardinality(fresh) <= MaxIno + 1
        /\ path_to_ino' = [p \in DOMAIN path_to_ino \cup fresh |->
                              IF p \in fresh THEN num[p] ELSE path_to_ino[p]]
        /\ ino_to_path' = [n \in DOMAIN ino_to_path \cup {num[p] : p \in fresh} |->
                              IF \E p \in fresh : num[p] = n
                              THEN CHOOSE p \in fresh : num[p] = n ELSE ino_to_path[n]]
        /\ next_ino' = next_ino + Cardinality(fresh)

(* new: the root is known, and nothing else. *)
Fresh ==
    [ino_to_path |-> [n \in {FUSE_ROOT_ID} |-> <<>>],
     path_to_ino |-> [p \in {<<>>} |-> FUSE_ROOT_ID],
     next_ino    |-> FUSE_ROOT_ID + 1,
     dirty       |-> [n \in {} |-> <<>>],
     files       |-> {},
     written     |-> [n \in Inos |-> <<>>]]

Init ==
    /\ tree \in Trees
    /\ reopened = {tree}
    /\ ino_to_path = Fresh.ino_to_path
    /\ path_to_ino = Fresh.path_to_ino
    /\ next_ino = Fresh.next_ino
    /\ dirty = Fresh.dirty
    /\ files = Fresh.files
    /\ written = Fresh.written
    /\ errno = "ok"

-----------------------------------------------------------------------------
(* Commits. *)

(* What a handler answers, and the namespaces that it leaves. *)
Outcome(e, t, found) == [errno |-> e, tree |-> t, reopened |-> found]
Unchanged(e) == Outcome(e, tree, reopened)

(* What goes wrong in WalStorage::commit, if anything does. *)
Faults == {"none", "write", "sync", "compact"}

(* One of ts is found, where the log had nothing that the map had not: what  *)
(* later batches come to behind such a record is not known here.             *)
Replayed(ts) == IF reopened = {tree} THEN ts ELSE {}

(* A batch that makes t of tree. If its record cannot be written, a fragment *)
(* may be left in the log; if it cannot be synced, it is in the log, and not *)
(* in the map; if the compaction fails that follows, it is in both.          *)
Commit(t, fault) ==
    CASE fault = "none"    -> Outcome("ok", t, Replayed({t}))
      [] fault = "write"   -> Outcome("EIO", tree, {})
      [] fault = "sync"    -> Outcome("EIO", tree, Replayed({tree, t}))
      [] fault = "compact" -> Outcome("EIO", t, Replayed({t}))

Db(o, fault) ==
    IF NS!Allowed(tree, o) THEN Commit(NS!Effect(tree, o), fault) ELSE Unchanged("EIO")
DbSet(c, v, fault) == Db([op |-> "set", path |-> c, value |-> v], fault)

(* The path that is parsed, where it can be. *)
PathOf(p) == CHOOSE c \in parse(p) : TRUE
ValuesAt(p) == UNION {ValueAt(c) : c \in parse(p)}

(* The structured value above is changed; where it is none or that fails,    *)
(* the entry below is, which there is not below a value: then the answer is  *)
(* all that the second call adds.                                            *)
AboveOrElse(above, below) ==
    IF above = {} THEN below
    ELSE LET r == CHOOSE x \in above : TRUE
         IN  IF r.errno = "ok" THEN r ELSE Outcome(below.errno, r.tree, r.reopened)

-----------------------------------------------------------------------------
(* The handlers. fault is what goes wrong when they commit. *)

(* Answer, and do nothing else. *)
Reply(e) == errno' = e /\ UNCHANGED <<tree, reopened, Tables, files>>

(* Answer what a commit came to. *)
Leave(r) == errno' = r.errno /\ tree' = r.tree /\ reopened' = r.reopened

(* An entry that is answered with a new number always. *)
EntryRenumbered(p, kind) ==
    /\ ino_for_path({p})
    /\ files' = IF kind = "file" THEN files \cup {next_ino} ELSE files

(* The kernel learns of p, a file or a directory. *)
Entry(p, kind) ==
    /\ ino_for_path({p})
    /\ files' = IF kind = "file" THEN files \cup {path_to_ino'[p]} ELSE files

lookup(parent, name) ==
    LET child == Append(ino_to_path[parent], name) IN
    /\ IF LookupAttr(child) = {} THEN Reply("ENOENT")
       ELSE /\ Leave(Unchanged("ok"))
            /\ \E attr \in LookupAttr(child) : Entry(child, attr.kind)
    /\ UNCHANGED <<dirty, written>>

readdir(ino) ==
    LET p == ino_to_path[ino] IN
    /\ IF Listings(p) = {} THEN Reply("ENOENT")
       ELSE /\ Leave(Unchanged("ok"))
            /\ ino_for_path({p} \cup {child_path(p, e[1]) : e \in UNION Listings(p)})
            /\ UNCHANGED files
    /\ UNCHANGED <<dirty, written>>

Pending(ino) == IF ino \in DOMAIN dirty THEN dirty[ino] ELSE <<>>

(* A buffer that is cut off after what is written. *)
SpliceTruncating(buf, offset, data) ==
    [i \in 1..(offset + Len(data)) |->
        IF i > offset THEN data[i - offset] ELSE IF i <= Len(buf) THEN buf[i] ELSE NUL]

(* data in buf at offset, with zeros where buf was too short. *)
Splice(buf, offset, data) ==
    [i \in 1..Max({Len(buf), offset + Len(data)}) |->
        IF i \in (offset + 1)..(offset + Len(data)) THEN data[i - offset]
        ELSE IF i <= Len(buf) THEN buf[i] ELSE NUL]

PendingWrites == UNION {{n} \X DOMAIN written[n] : n \in Inos}

write(ino, offset, data) ==
    /\ Cardinality(PendingWrites) < MaxWrites
    /\ dirty' = With(dirty, ino, Splice(Pending(ino), offset, data))
    /\ written' = [written EXCEPT ![ino] = Append(@, [offset |-> offset, data |-> data])]
    /\ Reply("ok")

(* data for old, a scalar of its type: rs is what its commit comes to. *)
Replaced(old, data, rs) ==
    IF ~IsScalar(old) THEN Unchanged("EPERM")
    ELSE IF parse_scalar_text(old, data) = {} THEN Unchanged("EINVAL")
    ELSE CHOOSE r \in rs : TRUE

CommitScalar(c, data, fault) ==
    Replaced(tree[c], data, {DbSet(c, s, fault) : s \in parse_scalar_text(tree[c], data)})

(* The hash that c is a member of, and the member: a string, if it is gone. *)
HashAbove(c) == IF c = <<>> THEN {} ELSE {v \in ValueAt(Parent(c)) : v.ty = "hash"}
Member(m, name) == IF name \in DOMAIN m THEN m[name] ELSE string(<<>>)

CommitMember(c, m, data, fault) ==
    LET old == Member(m, Last(c)) IN
    Replaced(old, data, {DbSet(Parent(c), Hash(With(m, Last(c), s)), fault) :
                            s \in parse_scalar_text(old, data)})

(* commit_dirty with the buffer taken out. *)
CommitTo(p, data, fault) ==
    LET c == PathOf(p) IN
    IF parse(p) = {} THEN Unchanged("EINVAL")
    ELSE IF c \in DOMAIN tree THEN CommitScalar(c, data, fault)
    ELSE IF HashAbove(c) = {} THEN Unchanged("ENOENT")
    ELSE CommitMember(c, (CHOOSE v \in HashAbove(c) : TRUE).map, data, fault)

(* The buffer is taken out first: it is gone whatever the commit answers. *)
commit_dirty(ino, fault) ==
    /\ Leave(IF ino \notin DOMAIN dirty THEN Unchanged("ok")
             ELSE CommitTo(ino_to_path[ino], dirty[ino], fault))
    /\ dirty' = Drop(dirty, ino)
    /\ written' = [written EXCEPT ![ino] = <<>>]
    /\ UNCHANGED <<Tables, files>>

(* flush comes with every close of a handle, of whichever process. *)
flush(ino, fault) == commit_dirty(ino, fault)
fsync(ino, fault) == commit_dirty(ino, fault)

rename == Reply("ENOTSUP") /\ UNCHANGED <<dirty, written>>

(* What a handler does that is to answer with a new entry. *)
Made(r, child, kind) ==
    /\ Leave(r)
    /\ IF r.errno = "ok" THEN Entry(child, kind) ELSE UNCHANGED <<Tables, files>>
    /\ UNCHANGED <<dirty, written>>

(* A mkdir that does not look at what is above. *)
mkdir_anywhere(parent, name, fault) ==
    LET child == Append(ino_to_path[parent], name)
        made  == IF child \in DOMAIN tree THEN Unchanged("EIO")
                 ELSE Commit(With(tree, child, NS!Dir), fault)
    IN  Made(made, child, "dir")

mkdir(parent, name, fault) ==
    LET child == Append(ino_to_path[parent], name)
        made  == IF parse(child) = {} THEN Unchanged("EINVAL")
                 ELSE Db([op |-> "mkdir", path |-> PathOf(child)], fault)
    IN  Made(made, child, "dir")

(* What unlink answers and leaves: the structured value without the member,  *)
(* or the namespace without the entry.                                       *)
Unlinked(p, name, fault) ==
    LET child == Append(p, name)
        above == {DbSet(PathOf(p), v, fault) : v \in UNION {project_unlink(w, name) : w \in ValuesAt(p)}}
        below == IF parse(child) = {} THEN Unchanged("EINVAL")
                 ELSE Db([op |-> "delete", path |-> PathOf(child)], fault)
    IN  AboveOrElse(above, below)

unlink(parent, name, fault) ==
    /\ Leave(Unlinked(ino_to_path[parent], name, fault))
    /\ UNCHANGED <<Tables, files, dirty, written>>

rmdir(parent, name, fault) == unlink(parent, name, fault)

(* An empty string, as a member of a hash or as an entry; what was there is  *)
(* replaced.                                                                 *)
Created(p, name, fault) ==
    LET child == Append(p, name)
        above == {DbSet(PathOf(p), Hash(With(v.map, name, string(<<>>))), fault) :
                     v \in {w \in ValuesAt(p) : w.ty = "hash"}}
        below == IF parse(child) = {} THEN Unchanged("EINVAL")
                 ELSE DbSet(PathOf(child), string(<<>>), fault)
    IN  AboveOrElse(above, below)

create(parent, name, fault) ==
    LET p == ino_to_path[parent]
    IN  Made(Created(p, name, fault), Append(p, name), "file")

-----------------------------------------------------------------------------
(* The names that a process uses in directory p. *)
NamesBelow(p) == IF Len(p) < MaxDepth THEN Names[Len(p) + 1] ELSE {}

(* Another client of the daemon changes the namespace, or tries to. *)
Rpc(o, fault) ==
    /\ NS!Allowed(tree, o)
    /\ LET r == Db(o, fault) IN tree' = r.tree /\ reopened' = r.reopened
    /\ UNCHANGED <<Tables, files, dirty, written, errno>>

(* The daemon ends, in whichever way, and another one opens the store and    *)
(* mounts: what was not synced is gone, and so are the numbers.              *)
Remount ==
    /\ tree' \in reopened
    /\ reopened' = {tree'}
    /\ ino_to_path' = Fresh.ino_to_path
    /\ path_to_ino' = Fresh.path_to_ino
    /\ next_ino' = Fresh.next_ino
    /\ dirty' = Fresh.dirty
    /\ files' = Fresh.files
    /\ written' = Fresh.written
    /\ errno' = "ok"

Next ==
    \/ \E parent \in DOMAIN ino_to_path : \E name \in NamesBelow(ino_to_path[parent]) :
          \/ lookup(parent, name)
          \/ \E fault \in Faults :
                \/ mkdir(parent, name, fault)
                \/ unlink(parent, name, fault)
                \/ rmdir(parent, name, fault)
                \/ create(parent, name, fault)
    \/ \E ino \in DOMAIN ino_to_path : readdir(ino)
    \/ \E ino \in files :
          \/ \E c \in Chunks : write(ino, c.offset, c.data)
          \/ \E fault \in Faults : flush(ino, fault) \/ fsync(ino, fault)
    \/ rename
    \/ \E o \in RpcOps : \E fault \in Faults : Rpc(o, fault)
    \/ Remount

Spec == Init /\ [][Next]_vars

-----------------------------------------------------------------------------
TypeOK ==
    /\ \A t \in {tree} \cup reopened : NS!IsDirAt(t, <<>>)
    /\ DOMAIN ino_to_path \subseteq Inos
    /\ \A n \in DOMAIN ino_to_path : IsSequence(ino_to_path[n])
    /\ next_ino \in Inos \cup {MaxIno + 1}
    /\ DOMAIN dirty \subseteq files
    /\ files \subseteq DOMAIN ino_to_path \ {FUSE_ROOT_ID}
    /\ errno \in {"ok", "ENOENT", "EINVAL", "EPERM", "EIO", "ENOTSUP"}
    /\ written \in [Inos -> Seq(Writes)]
    /\ IsFiniteSet(PendingWrites) /\ Cardinality(PendingWrites) <= MaxWrites

(* The two tables are inverse to each other, no number at or above next_ino  *)
(* is in use, and the root keeps its own: a number means one path for as     *)
(* long as the mount lasts, so that what a process writes through a file     *)
(* that it opened long ago never ends up under another path.                 *)
InodesNameOnePath ==
    /\ FUSE_ROOT_ID \in DOMAIN ino_to_path /\ ino_to_path[FUSE_ROOT_ID] = <<>>
    /\ DOMAIN path_to_ino = {ino_to_path[n] : n \in DOMAIN ino_to_path}
    /\ \A n \in DOMAIN ino_to_path : path_to_ino[ino_to_path[n]] = n /\ n < next_ino
    /\ \A p \in DOMAIN path_to_ino :
          path_to_ino[p] \in DOMAIN ino_to_path /\ ino_to_path[path_to_ino[p]] = p

(* The tree stays a namespace: a directory is above every entry, and what is *)
(* none is a well-formed value, after whatever bytes processes have written  *)
(* into files whose entries other clients have changed meanwhile, or have    *)
(* deleted with the directory that they were in, and whichever commits have  *)
(* failed; so is what is found after a restart, with a batch whose commit    *)
(* has answered an error. The paths of inodes are made of texts, whatever    *)
(* was listed below a structured value.                                      *)
NamespaceStaysWhole ==
    /\ \A t \in {tree} \cup reopened : IsNamespace(t)
    /\ \A n \in DOMAIN ino_to_path : IsPath(ino_to_path[n])

(* The bytes that a sequence of writes leaves in an empty file. *)
Covering(ws, i) == {k \in DOMAIN ws : i \in (ws[k].offset + 1)..(ws[k].offset + Len(ws[k].data))}
Ends(ws) == {ws[k].offset + Len(ws[k].data) : k \in DOMAIN ws}
Overlay(ws) ==
    [i \in 1..Max(Ends(ws)) |->
        IF Covering(ws, i) = {} THEN NUL
        ELSE LET w == ws[Max(Covering(ws, i))] IN w.data[i - w.offset]]

(* A file has a buffer exactly while it has writes that no flush and no      *)
(* fsync has answered for, and the buffer is what these writes, the last     *)
(* one on top, would leave in an empty file: nothing but a sync, of the same *)
(* inode, takes or changes what was written, whatever happens meanwhile to   *)
(* the entry.                                                                *)
DirtyIsWhatWasWritten ==
    \A n \in Inos :
        IF written[n] = <<>> THEN n \notin DOMAIN dirty
        ELSE n \in DOMAIN dirty /\ dirty[n] = Overlay(written[n])

(* What there is at a path in tree t, by the namespace and by projection. *)
Leaf(t, p) ==
    IF p \in DOMAIN t THEN {t[p]}
    ELSE IF p = <<>> \/ Parent(p) \notin DOMAIN t THEN {}
    ELSE project_child_value(t[Parent(p)], Last(p))

(* The writes of file n are committed by a step from tree to t: to a scalar  *)
(* of the same type, or to a new string in a hash, and to nothing else.      *)
StoredAt(c, ws, t) ==
    LET old == IF Leaf(tree, c) = {} THEN string(<<>>) ELSE CHOOSE v \in Leaf(tree, c) : TRUE
    IN  /\ IsScalar(old)
        /\ \E s \in parse_scalar_text(old, Overlay(ws)) : s.ty = old.ty /\ Leaf(t, c) = {s}
        /\ DOMAIN t = DOMAIN tree
        /\ \A q \in DOMAIN tree \ {c} :
              t[q] # tree[q] =>
                 /\ c \notin DOMAIN tree /\ q = Parent(c)
                 /\ tree[q].ty = "hash" /\ t[q].ty = "hash"
                 /\ Drop(t[q].map, Last(c)) = Drop(tree[q].map, Last(c))

Stored(n, t) == \E c \in parse(ino_to_path[n]) : StoredAt(c, written[n], t)

(* What a step that takes the writes of a file may do to the tree. *)
SyncIsExact ==
    \A n \in Inos :
        (written[n] # <<>> /\ written'[n] = <<>> /\ ino_to_path' = ino_to_path) =>
            /\ CASE errno' = "ok"  -> Stored(n, tree')
                 [] errno' = "EIO" -> tree' = tree \/ Stored(n, tree')
                 [] OTHER          -> tree' = tree /\ reopened' = reopened
            /\ \A t \in reopened' \ reopened : Stored(n, t)

(* A flush or fsync that answers ok has replaced the scalar, or the member   *)
(* of a hash, by exactly what was written since the last one, with the type  *)
(* that it has in the database at that moment ("type-stable replace"), and   *)
(* has touched nothing else, whatever other clients did to the entry since   *)
(* the file was opened. One that answers EIO has either touched nothing or   *)
(* done just that, and so has what is found after a restart: never a part of *)
(* it and nothing beside it. With any other error nothing is touched.        *)
SyncCommitsTheWrites == [][SyncIsExact]_vars

(* The names below p that a process may ask for and that are worth it:       *)
(* numbers in another spelling, too.                                         *)
Asked(p) ==
    LET listed == {e[1] : e \in Listing(p)}
    IN  {name \in NamesBelow(p) \cup listed \cup {<<"0">> \o name : name \in listed} : IsSegment(name)}

(* Tree keys that are neither integers nor strings have no name to find them *)
(* by, and the members of sets and trees are listed as files.                *)
Nameless(p, name) ==
    /\ tree[p].ty = "tree"
    /\ \E k \in DOMAIN tree[p].entries : key_name(k) = name /\ k.ty \notin {"int", "string"}

(* The handlers, each of which projects on its own, agree on what there is:  *)
(* readdir lists what lookup finds and as the kind that it is (with these    *)
(* exceptions, and except keys that are no segment of a path, which readdir  *)
(* lists and no process can ask for), and lookup finds nothing else but      *)
(* other spellings of a number; an entry that it shows as a directory can be *)
(* listed. For a file without pending writes getattr answers as lookup does, *)
(* for every file with as many bytes as read has, and the type attribute of  *)
(* a directory is the type of a directory; what is listed below a set, and   *)
(* only that, has the member attribute.                                      *)
HandlersAgree ==
    /\ \A p \in DOMAIN tree :
          /\ \A e \in Listing(p) :
                \/ ~IsSegment(e[1])
                \/ Nameless(p, e[1])
                \/ \E attr \in LookupAttr(Append(p, e[1])) :
                      attr.kind = e[2] \/ (tree[p].ty \in {"set", "tree"} /\ e[2] = "file")
          /\ \A name \in Asked(p) : \A attr \in LookupAttr(Append(p, name)) :
                /\ \E e \in Listing(p) :
                      e[1] = name \/ (ParseInt(name) # {} /\ ParseInt(name) = ParseInt(e[1]))
                /\ attr.kind = "dir" /\ tree[p] = NS!Dir => Listings(Append(p, name)) # {}
    /\ \A n \in DOMAIN ino_to_path : LET p == ino_to_path[n] IN
          /\ (n \notin DOMAIN dirty /\ p # <<>> /\ IsSegment(Last(p))) => getattr(n) = LookupAttr(p)
          /\ member_xattr(p) # {} <=>
                \E c \in parse(p) :
                   /\ c # <<>>
                   /\ \E v \in ValueAt(Parent(c)) :
                         v.ty = "set" /\ <<Last(c), "file">> \in Listing(Parent(c))
          /\ \A attr \in getattr(n) :
                /\ attr.kind = "file" <=> read(n, 0, attr.size + 1) # {}
                /\ \A data \in read(n, 0, attr.size + 1) : Len(data) = attr.size
                /\ n \notin DOMAIN dirty =>
                      \E ty \in type_xattr(p) : attr.kind = "file" <=> ty \in ScalarTypes

Size(v) ==
    CASE v.ty = "hash" -> Cardinality(DOMAIN v.map)
      [] v.ty = "list" -> Len(v.items)
      [] v.ty = "set"  -> Len(v.members)
      [] v.ty = "tree" -> Cardinality(DOMAIN v.entries)
      [] OTHER         -> 0

(* Where v is a list, the names of the items after a removed one move down.  *)
NameBefore(v, removed, name) ==
    IF v.ty = "list" /\ \E i \in ParseNat(name), j \in ParseNat(removed) : i >= j
    THEN ShowNat(1 + CHOOSE i \in ParseNat(name) : TRUE)
    ELSE name

(* What unlink and rmdir remove is the one member, or the entry, that lookup *)
(* shows under the name: every other name shows what it showed; where they   *)
(* answer an error, nothing is removed. And they do remove what it shows,    *)
(* unless that is a directory that is not empty: from directories, hashes,   *)
(* lists and sets, that is. From trees they do not always.                   *)
UnlinkRemovesWhatLookupShows ==
    \A p \in DOMAIN tree : \A name \in Asked(p) :
        LET r     == Unlinked(p, name, "none")
            child == Append(p, name)
        IN  /\ r.errno = "ok" =>
                  /\ Leaf(tree, child) # {} /\ NS!Below(tree, child) = {}
                  /\ \A q \in DOMAIN tree \ {p, child} : q \in DOMAIN r.tree /\ r.tree[q] = tree[q]
                  /\ DOMAIN r.tree = DOMAIN tree \ {child}
                  /\ r.tree[p].ty = tree[p].ty
                  /\ Size(r.tree[p]) = Size(tree[p]) - (IF tree[p] = NS!Dir THEN 0 ELSE 1)
                  /\ \A other \in Asked(p) :
                        (other # name /\ ParseInt(other) \cap ParseInt(name) = {}) =>
                           (Leaf(r.tree, Append(p, other)) =
                            Leaf(tree, Append(p, NameBefore(tree[p], name, other))))
            /\ r.errno # "ok" => r.tree = tree
            /\ (Leaf(tree, child) # {} /\ NS!Below(tree, child) = {} /\ tree[p].ty # "tree") =>
                  r.errno = "ok"
=============================================================================
