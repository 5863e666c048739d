----------------------------- MODULE MCRequests -----------------------------
(* Requests with small sets of values, documents and queries. *)
EXTENDS Requests

A == <<"a">>
B == <<"b">>
ODD == <<"\"", "\\">>
ONE == <<"1">>

(* Scalars and structured values, some of which JSON cannot carry. *)
MCScalars ==
    {null, bool(TRUE), bool(FALSE), int(0), int(-1), int(256), float(3), float(2), float(103), float(NAN),
     string(<<>>), string(A), string(ODD), string(ONE), bytes(<<>>), bytes(<<1, NOT_UTF8>>)}

Vectors(S) == UNION {[1..n -> S] : n \in 0..2}
Maps(K, S) == UNION {[D -> S] : D \in {D \in SUBSET K : Cardinality(D) <= 2}}

MCSets == {Set(vec) : vec \in Vectors({int(1), int(256), string(A)})}
           \cup {Set(vec) : vec \in Vectors({Set(<<int(0), int(1)>>), Set(<<int(1), int(0), int(1)>>)})}
MCMaps == {Hash(m) : m \in Maps({A, ODD}, {int(1), List(<<>>)})}
           \cup {Tree(m) : m \in Maps({int(1), string(ONE), string(A)}, {null, float(3)})}
MCLists == {List(vec) : vec \in Vectors({float(2), Hash(<<>>)})}

MCKeys == {null, bool(TRUE), float(2), float(NAN), float(SIGN + NAN), bytes(<<1>>), string(NullText), string(BoolText(TRUE)),
           string(F_KEY), string(F_KEY \o ONE), string(B_KEY \o ONE), string(ODD)}

MCValues == MCScalars \cup MCSets \cup MCMaps \cup MCLists

PutJobs == {[do |-> "put", tree |-> EmptyTree, values |-> <<v, w>>] : v, w \in MCValues}

-----------------------------------------------------------------------------
At(p, v) == [q \in {p} |-> v]
Dirs(ps) == [p \in ps \cup {<<>>} |-> Dir]
Both(t, u) == [p \in DOMAIN t \cup DOMAIN u |-> IF p \in DOMAIN u THEN u[p] ELSE t[p]]

(* The values that a database holds: those that are decoded. *)
Held == {v \in MCValues : v \in decode(encode(v))}

CopyTrees ==
    {Both(Dirs({<<ODD>>}), At(<<ODD, A>>, v)) : v \in Held}
      \cup {Both(EmptyTree, At(<<A>>, Tree(At(k, int(1))))) : k \in MCKeys}
      \cup {Both(Dirs({<<A>>, <<A, B>>}), At(<<B>>, Hash(At(<<"__dir">>, Hash(<<>>)))))}

CopyJobs == {[do |-> "copy", tree |-> t] : t \in CopyTrees}

Num(n) == <<Word(ShowInt(n))>>
Object(parts) == Bracketed("{", parts, "}")
DirDoc(parts) == Wrapped(<<"__dir">>, Object(parts))

Docs ==
    {DirDoc(<<Pair(A, DirDoc(<<Pair(A, Num(1)), Pair(B, Num(0))>>)), Pair(B, Bracketed("[", <<Num(1)>>, "]"))>>),
     Object(<<Pair(B, Num(1)), Pair(A, DirDoc(<<Pair(B, Num(1))>>)), Pair(B, Num(0))>>),
     Object(<<Pair(A, DirDoc(<<>>)), Pair(A, Num(1)), Pair(B, Num(1))>>),
     Object(<<Pair(A, Num(1)), Pair(A, DirDoc(<<Pair(B, Num(1))>>))>>),
     Object(<<Pair(A, Num(1)), Pair(A, DirDoc(<<Pair(B, DirDoc(<<>>))>>))>>),
     Object(<<Pair(A, Num(1)), Pair(B, Wrapped(<<"__bytes">>, json_str(ONE)))>>),
     Object(<<Pair(A, Wrapped(<<"__bytes">>, json_str(<<"A", "f">>)))>>),
     Object(<<Pair(A, DirDoc(<<>>)), Pair(<<"a", "/", "b", "/">>, Num(1)), Pair(<<>>, DirDoc(<<Pair(B, Num(1))>>))>>),
     Object(<<Pair(A, DirDoc(<<Pair(B, Num(0)), Pair(<<"a", "/", "b">>, Num(1))>>)), Pair(B, Num(1))>>),
     Object(<<Pair(B, Num(1)), Pair(<<"a", "/", "/", "b">>, Num(1))>>),
     Object(<<Pair(B, Num(1)), Pair(<<>>, Num(1))>>),
     Object(<<Pair(A, Object(<<Pair(<<"__dir">>, Object(<<>>)), Pair(B, Num(1))>>)),
              Pair(B, <<Literal(<<"\\", "n", "\\", "a">>)>>)>>),
     Object(<<Pair(B, Num(1)), Pair(A, Wrapped(<<"__dir">>, Num(1)))>>),
     Object(<<Pair(<<".">>, Num(1))>>),
     Num(1),
     <<>>,
     Object(<<Pair(A, Num(1))>>) \o Num(1),
     <<Punct("{")>> \o Num(1)}

ImportTrees == {EmptyTree, Dirs({<<A>>}), Both(Dirs({<<A>>}), At(<<A, B>>, Hash(<<>>))),
                Both(EmptyTree, At(<<A>>, null))}

ImportJobs == {[do |-> "import", tree |-> t, doc |-> d] : t \in ImportTrees, d \in Docs}

-----------------------------------------------------------------------------
(* A query as a client writes it: its tokens, with spaces between them. *)
SpellToken(t) ==
    CASE t.tok = "ident"  -> t.word
      [] t.tok = "string" -> <<"\"">> \o Escape(t.text) \o <<"\"">>
      [] t.tok = "int"    -> ShowInt(t.int)
      [] t.tok = "float"  -> FloatText(t.bits)
      [] t.tok = "op"     -> t.op
      [] OTHER            -> <<t.tok>>
Spell(ts) == FlattenSeq([i \in DOMAIN ts |-> SpellToken(ts[i]) \o <<" ">>])

QueryJob(t, ts) == [do |-> "query", tree |-> t, query |-> Spell(ts), tokens |-> {ts}]

W(w) == Ident(<<w>>)
NAME == <<W("name")>>
TYPE(ty) == <<W("type"), W(ty)>>
CMP(o, t) == <<OpTok(o), t>>

(* The parser: all short sequences of connectives, brackets and predicates. *)
Pieces == {<<W("AND")>>, <<W("OR")>>, <<W("NOT")>>, <<LParen>>, <<RParen>>, NAME, NAME \o <<Ident(A)>>}
SmallTree == Both(EmptyTree, At(<<A>>, null))

GrammarJobs ==
    {QueryJob(SmallTree, FlattenSeq(ps)) : ps \in UNION {[1..n -> Pieces] : n \in 0..5}}
      \cup {QueryJob(SmallTree, FlattenSeq(<<p, x, q, y, r>>)) :
               p, q, r \in {NAME \o <<Ident(A)>>, <<W("NOT")>> \o NAME \o <<Quoted(ODD)>>,
                            <<LParen>> \o NAME \o <<Ident(A), W("OR"), W("type"), W("null"), RParen>>},
               x, y \in {<<W("AND")>>, <<W("OR")>>, <<>>}}

(* The tokenizer, where spaces are missing or characters are wrong. *)
TextJob(s, ts) == [do |-> "query", tree |-> SmallTree, query |-> s, tokens |-> ts]
TextJobs ==
    {TextJob(<<"size", ">", "=", "-", "1">>, {<<W("size"), OpTok(<<">", "=">>), IntTok(-1)>>}),
     TextJob(<<"size", ">", " ", "=", "1">>, {}),
     TextJob(<<"size", "=", "1", "a">>, {}),
     TextJob(<<"value", "=", "1", ".">>, {<<W("value"), OpTok(<<"=">>), FloatTok(2)>>}),
     TextJob(<<"value", "=", "-", ".", "5">>, {<<W("value"), OpTok(<<"=">>), FloatTok(SIGN + 1)>>}),
     TextJob(<<"value", "=", "-">>, {}),
     TextJob(<<"value", "!", "1">>, {}),
     TextJob(<<"name", " ", "\"", "a">>, {}),
     TextJob(<<"name", " ", "\"", "\\", "\"", "\"">>, {<<W("name"), Quoted(<<"\"">>)>>}),
     TextJob(<<"(", "name", " ", "a", ")">>, {<<LParen, W("name"), Ident(A), RParen>>}),
     TextJob(<<"(", "path", " ", "/", "a", "\"", ")">>, {<<LParen, W("path"), Ident(<<"/", "a", "\"">>), RParen>>}),
     TextJob(<<"path", "/", "a", " ", "name">>, {}),
     TextJob(<<"name", ":">>, {})}

(* The predicates, over a value of each type. *)
RichTree ==
    Both(Dirs({<<A>>}),
         [p \in {<<A, <<c>>>> : c \in ToSet(DIGITS)} |->
             <<null, bool(TRUE), int(1), float(3), string(ONE), bytes(<<1>>), Hash(At(ONE, int(1))),
               Set(<<int(1), string(A)>>), List(<<int(1), float(3)>>),
               Tree(Both(At(int(1), null), At(string(A), int(1))))>>[DigitOf(p[2][1]) + 1]])

Scalar == {W("null"), W("true"), IntTok(1), FloatTok(3), Quoted(ONE), Ident(A)}
PredJobs ==
    {<<W(p)>> \o CMP(o, t) : p \in {"value", "key"}, o \in CMPS, t \in Scalar}
      \cup {<<W("at"), i>> \o CMP(<<">", "=">>, t) : i \in {IntTok(-1), IntTok(0), IntTok(1), IntTok(2)}, t \in Scalar}
      \cup {<<W("contains"), t>> : t \in Scalar}
      \cup {<<W("has"), t>> : t \in Scalar}
      \cup {<<W("size")>> \o CMP(o, t) : o \in CMPS, t \in {IntTok(0), IntTok(1), IntTok(2), FloatTok(3)}}

Typed(ty) == {TYPE(ty) \o <<W("AND")>> \o NAME \o <<Ident(<<"?">>)>>,
              NAME \o <<Ident(<<"*">>), W("OR")>> \o TYPE(ty),
              <<W("NOT")>> \o TYPE(ty),
              TYPE(ty) \o <<W("AND")>> \o TYPE("list"),
              TYPE(ty) \o <<W("AND")>> \o TYPE("list") \o <<W("AND")>> \o TYPE(ty),
              TYPE(ty) \o <<W("OR")>> \o TYPE("list") \o <<W("AND")>> \o TYPE(ty)}
TypeNames == ScalarTypes \cup {"hash", "set", "list", "tree", "directory", "scalar", "value"}

NameTree == Dirs({<<n>> : n \in UNION {[1..k -> {"a", "b"}] : k \in 1..3}})
PathTree == Dirs(UNION {[1..k -> {A, <<"a", "b">>}] : k \in 1..3})
NameGlobs == UNION {[1..k -> {"*", "?", "a", "b"}] : k \in 0..3}
PathGlobs == {FlattenSeq([i \in DOMAIN s |-> <<"/">> \o s[i]]) :
                 s \in UNION {[1..k -> {A, <<"*", "b">>, ANY_DEPTH, <<"?">>}] : k \in 0..3}} \cup {ANY_DEPTH, <<"/", "/", "a">>}

EvalJobs ==
    {QueryJob(RichTree, ts) : ts \in PredJobs \cup UNION {Typed(ty) : ty \in TypeNames}}
      \cup {QueryJob(NameTree, NAME \o <<Quoted(g)>>) : g \in NameGlobs}
      \cup {QueryJob(PathTree, <<W("path"), Quoted(g)>>) : g \in PathGlobs}

MCJobs == PutJobs \cup CopyJobs \cup ImportJobs \cup GrammarJobs \cup TextJobs \cup EvalJobs
=============================================================================
