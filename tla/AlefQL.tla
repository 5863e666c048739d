------------------------------- MODULE AlefQL -------------------------------
(***************************************************************************)
(* The query language, crates/alefs-query/src: the tokenizer and the        *)
(* recursive-descent parser (parse.rs), and the evaluation of a query over  *)
(* a namespace, from the type index or from a walk (eval.rs).               *)
(*                                                                         *)
(* A query is a sequence of characters, where a run of letters that matters *)
(* as a whole (AND, path, hash) counts as one letter. A namespace is a      *)
(* function from paths to values and directories.                           *)
(***************************************************************************)
EXTENDS Codec, Glob

Ident(s) == [tok |-> "ident", word |-> s]
Quoted(s) == [tok |-> "string", text |-> s]
IntTok(n) == [tok |-> "int", int |-> n]
FloatTok(b) == [tok |-> "float", bits |-> b]
OpTok(o) == [tok |-> "op", op |-> o]
LParen == [tok |-> "("]
RParen == [tok |-> ")"]

-----------------------------------------------------------------------------
(* tokenize: the tokens, or nothing if there is an error. *)

OPS == {"=", "!", "<", ">"}
OTHERS == SPACES \cup OPS \cup {"(", ")", "\"", "\\", "/", ":"}
IsDigit(c) == c \in ToSet(DIGITS)
InWord(c) == c \notin OTHERS                       \* letters, digits, _ * ? . -
StartsWord(c) == InWord(c) /\ ~IsDigit(c) /\ c \notin {"-", "."}
InPath(c) == c \notin SPACES \cup {"(", ")"}

(* How many characters at the start of s are good. *)
Run(s, Good(_)) ==
    LET bad == {i \in DOMAIN s : ~Good(s[i])} IN IF bad = {} THEN Len(s) ELSE Min(bad) - 1

From(s, i) == SubSeq(s, i, Len(s))
Upto(s, i) == SubSeq(s, 1, i)

(* A string after its opening quote: its text, and what is behind the        *)
(* closing one. A backslash takes the next character as it is.               *)
RECURSIVE QuotedString(_, _)
QuotedString(s, sofar) ==
    IF s = <<>> THEN {}
    ELSE IF s[1] = "\"" THEN Got(sofar, Tail(s))
    ELSE IF s[1] = "\\" /\ Len(s) > 1 THEN QuotedString(From(s, 3), Append(sofar, s[2]))
    ELSE QuotedString(Tail(s), Append(sofar, s[1]))

(* A number: a sign, digits, and perhaps a point and more digits. *)
NumberToken(s) ==
    LET sign  == IF s[1] = "-" THEN 1 ELSE 0
        whole == sign + Run(From(s, sign + 1), IsDigit)
        point == whole < Len(s) /\ s[whole + 1] = "."
        all   == IF point THEN whole + 1 + Run(From(s, whole + 2), IsDigit) ELSE whole
    IN  IF point
        THEN UNION {Got(FloatTok(b), From(s, all + 1)) : b \in ParseFloat(Upto(s, all))}
        ELSE UNION {Got(IntTok(n), From(s, all + 1)) : n \in ParseInt(Upto(s, all))}

(* The first token of s, which does not start with a space. *)
FirstToken(s) ==
    LET c == s[1] IN
    CASE c = "("          -> Got(LParen, Tail(s))
      [] c = ")"          -> Got(RParen, Tail(s))
      [] c = "\""         -> UNION {Got(Quoted(r.got), r.rest) : r \in QuotedString(Tail(s), <<>>)}
      [] c \in OPS        -> IF Len(s) > 1 /\ s[2] = "=" THEN Got(OpTok(<<c, "=">>), From(s, 3))
                             ELSE Got(OpTok(<<c>>), Tail(s))
      [] c = "/"          -> Got(Ident(Upto(s, Run(s, InPath))), From(s, Run(s, InPath) + 1))
      [] c = "-" \/ IsDigit(c) -> NumberToken(s)
      [] StartsWord(c)    -> Got(Ident(Upto(s, Run(s, InWord))), From(s, Run(s, InWord) + 1))
      [] OTHER            -> {}

RECURSIVE tokenize(_)
tokenize(s) ==
    IF s = <<>> THEN {<<>>}
    ELSE IF s[1] \in SPACES THEN tokenize(Tail(s))
    ELSE UNION {{<<r.got>> \o ts : ts \in tokenize(r.rest)} : r \in FirstToken(s)}

-----------------------------------------------------------------------------
(* The parser. *)

And(l, r) == [e |-> "and", l |-> l, r |-> r]
Or(l, r)  == [e |-> "or", l |-> l, r |-> r]
Not(x)    == [e |-> "not", x |-> x]
Pred(p)   == [e |-> "pred", pred |-> p]

IsWord(ts, w) == ts # <<>> /\ ts[1] = Ident(<<w>>)

(* expect_string_like, and the other readers of one token. *)
expect_string_like(ts) ==
    IF ts = <<>> THEN {}
    ELSE CASE ts[1].tok = "string" -> Got(ts[1].text, Tail(ts))
           [] ts[1].tok = "ident"  -> Got(ts[1].word, Tail(ts))
           [] OTHER                -> {}

CMPS == {<<"=">>, <<"!", "=">>, <<"<">>, <<"<", "=">>, <<">">>, <<">", "=">>}
expect_cmp(ts) ==
    IF ts = <<>> THEN {}
    ELSE IF ts[1].tok = "op" /\ ts[1].op \in CMPS THEN Got(ts[1].op, Tail(ts)) ELSE {}

expect_int(ts) ==
    IF ts = <<>> THEN {} ELSE IF ts[1].tok = "int" THEN Got(ts[1].int, Tail(ts)) ELSE {}

parse_scalar_value(ts) ==
    IF ts = <<>> THEN {}
    ELSE LET t == ts[1] IN
         CASE t.tok = "string" -> Got(string(t.text), Tail(ts))
           [] t.tok = "int"    -> Got(int(t.int), Tail(ts))
           [] t.tok = "float"  -> Got(float(t.bits), Tail(ts))
           [] t.tok = "ident"  -> Got(CASE t.word = <<"null">>  -> null
                                        [] t.word = <<"true">>  -> bool(TRUE)
                                        [] t.word = <<"false">> -> bool(FALSE)
                                        [] OTHER                -> string(t.word), Tail(ts))
           [] OTHER            -> {}

parse_cmp_scalar(ts) ==
    UNION {UNION {Got([op |-> c.got, scalar |-> s.got], s.rest) : s \in parse_scalar_value(c.rest)}
              : c \in expect_cmp(ts)}

parse_predicate(ts) ==
    IF ts = <<>> THEN {}
    ELSE IF ts[1].tok # "ident" THEN {}
    ELSE LET args == Tail(ts) IN
         CASE IsWord(ts, "path") -> UNION {Got([p |-> "path", glob |-> r.got], r.rest) : r \in expect_string_like(args)}
           [] IsWord(ts, "type") -> UNION {Got([p |-> "type", type |-> r.got], r.rest) : r \in expect_string_like(args)}
           [] IsWord(ts, "name") -> UNION {Got([p |-> "name", glob |-> r.got], r.rest) : r \in expect_string_like(args)}
           [] IsWord(ts, "has")  -> UNION {Got([p |-> "has", key |-> r.got], r.rest) : r \in expect_string_like(args)}
           [] IsWord(ts, "value") -> UNION {Got([p |-> "value", cmp |-> r.got], r.rest) : r \in parse_cmp_scalar(args)}
           [] IsWord(ts, "key")  -> UNION {Got([p |-> "key", cmp |-> r.got], r.rest) : r \in parse_cmp_scalar(args)}
           [] IsWord(ts, "contains") ->
                 UNION {Got([p |-> "contains", needle |-> r.got], r.rest) : r \in parse_scalar_value(args)}
           [] IsWord(ts, "at") ->
                 UNION {UNION {Got([p |-> "at", index |-> i.got, cmp |-> r.got], r.rest) :
                                  r \in parse_cmp_scalar(i.rest)}
                           : i \in {n \in expect_int(args) : n.got >= 0}}
           [] IsWord(ts, "size") ->
                 UNION {UNION {Got([p |-> "size", op |-> c.got, n |-> i.got], i.rest) :
                                  i \in expect_int(c.rest)} : c \in expect_cmp(args)}
           [] OTHER -> {}

RECURSIVE parse_expr(_), ParseRest(_, _), parse_term(_), parse_primary(_)
parse_expr(ts) == UNION {ParseRest(l.got, l.rest) : l \in parse_term(ts)}

(* The loop of parse_expr: from the left, AND and OR alike. *)
ParseRest(left, ts) ==
    IF IsWord(ts, "AND") \/ IsWord(ts, "OR")
    THEN UNION {ParseRest(IF IsWord(ts, "AND") THEN And(left, r.got) ELSE Or(left, r.got), r.rest) :
                   r \in parse_term(Tail(ts))}
    ELSE Got(left, ts)

parse_term(ts) ==
    IF IsWord(ts, "NOT") THEN UNION {Got(Not(r.got), r.rest) : r \in parse_primary(Tail(ts))}
    ELSE parse_primary(ts)

parse_primary(ts) ==
    IF ts # <<>> /\ ts[1] = LParen
    THEN UNION {Got(r.got, Tail(r.rest)) :
                   r \in {s \in parse_expr(Tail(ts)) : s.rest # <<>> /\ s.rest[1] = RParen}}
    ELSE UNION {Got(Pred(r.got), r.rest) : r \in parse_predicate(ts)}

(* A query that may go on after its expression. *)
parse_query_prefix(ts) == {r.got : r \in parse_expr(ts)}

parse_query(ts) == {r.got : r \in {s \in parse_expr(ts) : s.rest = <<>>}}

-----------------------------------------------------------------------------
(* Globs; the search is in module Glob. *)

path_glob_match(pattern, path) ==
    pattern \in {ANY_DEPTH, <<"/">> \o ANY_DEPTH}
      \/ match_segments(SelectSeq(Split(pattern), LAMBDA seg : seg # <<>>), path)

-----------------------------------------------------------------------------
(* Evaluation. *)

cmp_scalar(op, s, t) ==
    CASE op = <<"=">>      -> s = t
      [] op = <<"!", "=">> -> s # t
      [] op = <<"<">>      -> ScalarLess(s, t)
      [] op = <<"<", "=">> -> ScalarLess(s, t) \/ s = t
      [] op = <<">">>      -> ScalarLess(t, s)
      [] op = <<">", "=">> -> ScalarLess(t, s) \/ s = t

Holds(cmp, s) == cmp_scalar(cmp.op, s, cmp.scalar)

(* The members of a structured value, and how many there are. *)
MembersOf(v) ==
    CASE v.ty = "hash" -> {v.map[k] : k \in DOMAIN v.map}
      [] v.ty = "list" -> ToSet(v.items)
      [] v.ty = "set"  -> ToSet(v.members)
      [] v.ty = "tree" -> {v.entries[k] : k \in DOMAIN v.entries}
      [] OTHER         -> {}

SizeOf(v) ==
    CASE v.ty = "hash"   -> {Cardinality(DOMAIN v.map)}
      [] v.ty = "list"   -> {Len(v.items)}
      [] v.ty = "set"    -> {Len(v.members)}
      [] v.ty = "tree"   -> {Cardinality(DOMAIN v.entries)}
      [] v.ty = "string" -> {Len(v.text)}
      [] v.ty = "bytes"  -> {Len(v.bytes)}
      [] OTHER           -> {}

type_matches(t, v) == IF t = <<"scalar">> THEN IsScalar(v) ELSE t = <<v.ty>>

eval_pred(q, path, v) ==
    CASE q.p = "path"  -> path_glob_match(q.glob, path)
      [] q.p = "name"  -> glob_rec(q.glob, IF path = <<>> THEN <<>> ELSE Last(path))
      [] q.p = "type"  -> type_matches(q.type, v)
      [] q.p = "value" -> IsScalar(v) /\ Holds(q.cmp, v)
      [] q.p = "has"   -> \/ v.ty = "hash" /\ q.key \in DOMAIN v.map
                          \/ v.ty = "tree" /\ DOMAIN v.entries \cap
                               ({string(q.key)} \cup {int(n) : n \in ParseInt(q.key)}) # {}
      [] q.p = "contains" -> q.needle \in MembersOf(v)
      [] q.p = "at"    -> /\ v.ty = "list" /\ q.index < Len(v.items)
                          /\ IsScalar(v.items[q.index + 1]) /\ Holds(q.cmp, v.items[q.index + 1])
      [] q.p = "key"   -> v.ty = "tree" /\ \E k \in DOMAIN v.entries : Holds(q.cmp, k)
      [] q.p = "size"  -> \E n \in SizeOf(v) : cmp_scalar(q.op, int(n), int(q.n))

RECURSIVE eval_expr(_, _, _)
eval_expr(x, path, v) ==
    CASE x.e = "and"  -> eval_expr(x.l, path, v) /\ eval_expr(x.r, path, v)
      [] x.e = "or"   -> eval_expr(x.l, path, v) \/ eval_expr(x.r, path, v)
      [] x.e = "not"  -> ~eval_expr(x.x, path, v)
      [] x.e = "pred" -> eval_pred(x.pred, path, v)

(* A type that is required where it is only an alternative. *)
RECURSIVE required_type_of_any(_)
required_type_of_any(x) ==
    CASE x.e = "pred" -> IF x.pred.p = "type" /\ x.pred.type # <<"scalar">> THEN {x.pred.type} ELSE {}
      [] x.e \in {"and", "or"} -> LET ts == required_type_of_any(x.l) \cup required_type_of_any(x.r)
                                  IN  IF Cardinality(ts) = 1 THEN ts ELSE {}
      [] OTHER -> {}

(* The type that every hit must have: of a chain of ANDs, when its type      *)
(* predicates agree.                                                         *)
RECURSIVE required_concrete_type(_)
required_concrete_type(x) ==
    CASE x.e = "pred" -> IF x.pred.p = "type" /\ x.pred.type # <<"scalar">> THEN {x.pred.type} ELSE {}
      [] x.e = "and"  -> LET ts == required_concrete_type(x.l) \cup required_concrete_type(x.r)
                         IN  IF Cardinality(ts) = 1 THEN ts ELSE {}
      [] OTHER -> {}

(* Entries of the type index, which holds the paths of a type, or all. *)
candidates_for(t, x) ==
    IF required_concrete_type(x) = {} THEN DOMAIN t
    ELSE {p \in DOMAIN t : <<t[p].ty>> \in required_concrete_type(x)}

(* The hits of a query that parses. *)
execute(t, x) == {[path |-> p, type_name |-> t[p].ty] :
                     p \in {q \in candidates_for(t, x) : eval_expr(x, q, t[q])}}
=============================================================================
