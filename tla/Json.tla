-------------------------------- MODULE Json --------------------------------
(***************************************************************************)
(* Export and import, crates/alefs-namespace/src/db.rs: the namespace as    *)
(* JSON text, the parser of that text, and what a document has import do.   *)
(*                                                                         *)
(* A document is a sequence of tokens: the punctuation, words (numbers,     *)
(* null, true, false) and string literals, the last with the text between   *)
(* the quotes as it is written, escapes included. White space is left out.  *)
(***************************************************************************)
EXTENDS Codec

Punct(c) == [tok |-> c]
Word(s) == [tok |-> "word", chars |-> s]
Literal(s) == [tok |-> "literal", chars |-> s]

-----------------------------------------------------------------------------
(* Writing. *)

(* replace of backslashes and quotes, without the backslashes. *)
EscapeQuotes(s) == FlattenSeq([i \in DOMAIN s |->
                      IF s[i] = "\"" THEN <<"\\", s[i]>> ELSE <<s[i]>>])

Escape(s) == FlattenSeq([i \in DOMAIN s |->
                IF s[i] \in {"\\", "\""} THEN <<"\\", s[i]>> ELSE <<s[i]>>])

json_str(s) == <<Literal(Escape(s))>>

(* hex::encode_bytes and hex::decode_bytes, which takes either case. *)
UPPER == <<"0", "1", "2", "3", "4", "5", "6", "7", "8", "9", "A", "B", "C", "D", "E", "F">>
HEX == <<"0", "1", "2", "3", "4", "5", "6", "7", "8", "9", "a", "b", "c", "d", "e", "f">>
encode_bytes(b) ==
    FlattenSeq([i \in DOMAIN b |-> <<HEX[(b[i] \div 16) + 1], HEX[(b[i] % 16) + 1]>>])

FromHex(c) == (CHOOSE d \in DOMAIN HEX : c \in {HEX[d], UPPER[d]}) - 1
decode_bytes(s) ==
    IF Len(s) % 2 = 1 \/ \E i \in DOMAIN s : s[i] \notin ToSet(HEX \o UPPER) THEN {}
    ELSE {[i \in 1..(Len(s) \div 2) |-> 16 * FromHex(s[2 * i - 1]) + FromHex(s[2 * i])]}

(* parts.join(", "), between an opening and a closing bracket. *)
Bracketed(open, parts, close) ==
    <<Punct(open)>>
      \o FlattenSeq([i \in DOMAIN parts |-> (IF i = 1 THEN <<>> ELSE <<Punct(",")>>) \o parts[i]])
      \o <<Punct(close)>>

Pair(key, body) == json_str(key) \o <<Punct(":")>> \o body
Wrapped(key, body) == Bracketed("{", <<Pair(key, body)>>, "}")

F_KEY == <<"f", ":">>
B_KEY == <<"b", ":">>

scalar_key_str(s) ==
    CASE s.ty = "null"   -> NullText
      [] s.ty = "bool"   -> BoolText(s.bool)
      [] s.ty = "int"    -> ShowInt(s.int)
      [] s.ty = "float"  -> F_KEY \o FloatText(s.bits)
      [] s.ty = "string" -> s.text
      [] s.ty = "bytes"  -> B_KEY \o encode_bytes(s.bytes)

RECURSIVE value_to_json(_)
value_to_json(v) ==
    CASE v.ty = "null"   -> <<Word(NullText)>>
      [] v.ty = "bool"   -> <<Word(BoolText(v.bool))>>
      [] v.ty = "int"    -> <<Word(ShowInt(v.int))>>
      [] v.ty = "float"  -> IF IsFinite(v.bits) THEN <<Word(FloatText(v.bits))>>
                            ELSE json_str(<<"float:">> \o ShowNat(v.bits))
      [] v.ty = "string" -> json_str(v.text)
      [] v.ty = "bytes"  -> Wrapped(<<"__bytes">>, json_str(encode_bytes(v.bytes)))
      [] v.ty = "hash"   ->
            LET keys == SetToSortSeq(DOMAIN v.map, TextLess) IN
            Wrapped(<<"__hash">>, Bracketed("{", [i \in DOMAIN keys |->
                Pair(keys[i], value_to_json(v.map[keys[i]]))], "}"))
      [] v.ty = "list"   ->
            Bracketed("[", [i \in DOMAIN v.items |-> value_to_json(v.items[i])], "]")
      [] v.ty = "set"    ->
            Wrapped(<<"__set">>, Bracketed("[",
                [i \in DOMAIN v.members |-> value_to_json(v.members[i])], "]"))
      [] v.ty = "tree"   ->
            LET keys == SetToSortSeq(DOMAIN v.entries, ScalarLess) IN
            Wrapped(<<"__tree">>, Bracketed("{", [i \in DOMAIN keys |->
                Pair(scalar_key_str(keys[i]), value_to_json(v.entries[keys[i]]))], "}"))

(* The names below directory p of tree t, in order (list). *)
Children(t, p) ==
    SetToSortSeq({q[Len(q)] : q \in {r \in DOMAIN t : r # <<>> /\ Front(r) = p}}, TextLess)

RECURSIVE export_node(_, _)
export_node(t, p) ==
    IF t[p].ty # "directory" THEN value_to_json(t[p])
    ELSE Wrapped(<<"__dir">>, Bracketed("{", [i \in DOMAIN Children(t, p) |->
             Pair(Children(t, p)[i], export_node(t, Append(p, Children(t, p)[i])))], "}"))

export_json(t) == export_node(t, <<>>)

-----------------------------------------------------------------------------
(* Parsing: JsonVal, or nothing. *)

JNull      == [j |-> "null"]
JBool(b)   == [j |-> "bool", bool |-> b]
JNumber(n) == [j |-> "number", number |-> n]
JFloat(b)  == [j |-> "float", bits |-> b]
JString(s) == [j |-> "string", text |-> s]
JArray(vs) == [j |-> "array", array |-> vs]
JObject(ps) == [j |-> "object", pairs |-> ps]   \* in the order of the text

(* parse_string: what the characters between the quotes stand for. *)
RECURSIVE Unescape(_)
Unescape(s) ==
    IF s = <<>> THEN <<>>
    ELSE IF s[1] = "\\" /\ Len(s) > 1
    THEN <<CASE s[2] = "n" -> "\n" [] s[2] = "t" -> "\t" [] OTHER -> s[2]>>
           \o Unescape(SubSeq(s, 3, Len(s)))
    ELSE <<s[1]>> \o Unescape(Tail(s))

(* A quote without a backslash ends the string before its end. *)
RECURSIVE EndsWhereItShould(_)
EndsWhereItShould(s) ==
    IF s = <<>> THEN TRUE
    ELSE IF s[1] = "\"" THEN FALSE
    ELSE IF s[1] = "\\" THEN Len(s) > 1 /\ EndsWhereItShould(SubSeq(s, 3, Len(s)))
    ELSE EndsWhereItShould(Tail(s))

parse_string(token) ==
    IF token.tok = "literal" /\ EndsWhereItShould(token.chars) THEN {Unescape(token.chars)} ELSE {}

(* parse_null, parse_bool, parse_number *)
ParseWord(s) ==
    CASE s = NullText        -> {JNull}
      [] s = BoolText(TRUE)  -> {JBool(TRUE)}
      [] s = BoolText(FALSE) -> {JBool(FALSE)}
      [] OTHER -> IF ~(IsDigits(<<s[1]>>) \/ s[1] = "-") THEN {}
                  ELSE IF "." \in ToSet(s) THEN {JFloat(b) : b \in ParseFloat(s)}
                  ELSE {JNumber(n) : n \in ParseInt(s)}

StartsWithPunct(ts, c) == ts # <<>> /\ ts[1] = Punct(c)

(* parse_value, parse_array and parse_object; the lists are without the      *)
(* bracket that opens them.                                                  *)
RECURSIVE parse_value(_), ParseItems(_, _), ParsePairs(_, _)
parse_value(ts) ==
    IF ts = <<>> THEN {}
    ELSE CASE ts[1].tok = "word"    -> UNION {Got(v, Tail(ts)) : v \in ParseWord(ts[1].chars)}
           [] ts[1].tok = "literal" -> UNION {Got(JString(s), Tail(ts)) : s \in parse_string(ts[1])}
           [] ts[1].tok = "[" ->
                 IF StartsWithPunct(Tail(ts), "]") THEN Got(JArray(<<>>), SubSeq(ts, 3, Len(ts)))
                 ELSE UNION {Got(JArray(r.got), r.rest) : r \in ParseItems(Tail(ts), <<>>)}
           [] ts[1].tok = "{" ->
                 IF StartsWithPunct(Tail(ts), "}") THEN Got(JObject(<<>>), SubSeq(ts, 3, Len(ts)))
                 ELSE UNION {Got(JObject(r.got), r.rest) : r \in ParsePairs(Tail(ts), <<>>)}
           [] OTHER -> {}

ParseItems(ts, sofar) ==
    UNION {LET vs == Append(sofar, r.got) IN
           CASE StartsWithPunct(r.rest, ",") -> ParseItems(Tail(r.rest), vs)
             [] StartsWithPunct(r.rest, "]") -> Got(vs, Tail(r.rest))
             [] OTHER                        -> {}
           : r \in parse_value(ts)}

ParsePairs(ts, sofar) ==
    IF ts = <<>> \/ ~StartsWithPunct(Tail(ts), ":") THEN {}
    ELSE UNION {UNION {LET ps == Append(sofar, <<key, r.got>>) IN
           CASE StartsWithPunct(r.rest, ",") -> ParsePairs(Tail(r.rest), ps)
             [] StartsWithPunct(r.rest, "}") -> Got(ps, Tail(r.rest))
             [] OTHER                        -> {}
           : r \in parse_value(SubSeq(ts, 3, Len(ts)))} : key \in parse_string(ts[1])}

parse_json_value(ts) == {r.got : r \in {s \in parse_value(ts) : s.rest = <<>>}}

-----------------------------------------------------------------------------
(* From JSON to values. *)

HasPrefix(s, prefix) == Len(s) >= Len(prefix) /\ SubSeq(s, 1, Len(prefix)) = prefix
After(s, prefix) == SubSeq(s, Len(prefix) + 1, Len(s))

parse_scalar_key(s) ==
    CASE s = NullText        -> {null}
      [] s = BoolText(TRUE)  -> {bool(TRUE)}
      [] s = BoolText(FALSE) -> {bool(FALSE)}
      [] HasPrefix(s, F_KEY) -> {float(b) : b \in ParseFloat(After(s, F_KEY))}
      [] HasPrefix(s, B_KEY) -> {bytes(b) : b \in decode_bytes(After(s, B_KEY))}
      [] OTHER               -> IF ParseInt(s) # {} THEN {int(n) : n \in ParseInt(s)}
                                ELSE {string(s)}

(* The sequence of what options hold, unless one is none. *)
All(options) ==
    IF \E i \in DOMAIN options : options[i] = {} THEN {}
    ELSE {[i \in DOMAIN options |-> CHOOSE v \in options[i] : TRUE]}

Keyed(keys, vs) == MapOf([i \in DOMAIN keys |-> <<keys[i], vs[i]>>])

(* An object with one key may be one of the special forms. *)
RECURSIVE json_to_value(_)
json_to_value(v) ==
    LET Values(vs) == All([i \in DOMAIN vs |-> json_to_value(vs[i])])
        Second(ps) == [i \in DOMAIN ps |-> ps[i][2]]
        First(ps)  == [i \in DOMAIN ps |-> ps[i][1]]
        Form(key, j) == Len(v.pairs) = 1 /\ v.pairs[1][1] = <<key>> /\ v.pairs[1][2].j = j
        Inner == v.pairs[1][2]
    IN  CASE v.j = "null"   -> {null}
          [] v.j = "bool"   -> {bool(v.bool)}
          [] v.j = "number" -> {int(v.number)}
          [] v.j = "float"  -> {float(v.bits)}
          [] v.j = "string" -> {string(v.text)}
          [] v.j = "array"  -> {List(vs) : vs \in Values(v.array)}
          [] v.j = "object" ->
                CASE Form("__bytes", "string") -> {bytes(b) : b \in decode_bytes(Inner.text)}
                  [] Form("__set", "array")    -> {Set(vs) : vs \in Values(Inner.array)}
                  [] Form("__hash", "object")  ->
                        {Hash(Keyed(First(Inner.pairs), vs)) : vs \in Values(Second(Inner.pairs))}
                  [] Form("__tree", "object")  ->
                        LET keys == All([i \in DOMAIN Inner.pairs |->
                                            parse_scalar_key(Inner.pairs[i][1])])
                        IN  UNION {{Tree(Keyed(ks, vs)) : vs \in Values(Second(Inner.pairs))} :
                                      ks \in keys}
                  [] OTHER ->
                        {Hash(Keyed(First(v.pairs), vs)) : vs \in Values(Second(v.pairs))}

-----------------------------------------------------------------------------
(* Import. *)

(* DbPath::parse of a slash and a key, and DbPath::join: a key at the root   *)
(* may have slashes, or be empty and stand for the root itself.              *)
FORBIDDEN == {<<>>, <<".">>, <<".", ".">>}

parse(key) ==
    LET solid    == {i \in DOMAIN key : key[i] # "/"}
        segments == Split(SubSeq(key, 1, Max(solid)))
    IN  IF solid = {} THEN {<<>>}
        ELSE IF ToSet(segments) \cap FORBIDDEN # {} THEN {} ELSE {segments}

join(p, key) == IF key \in FORBIDDEN \/ "/" \in ToSet(key) THEN {} ELSE {Append(p, key)}

ChildPath(p, key) == IF p = <<>> THEN parse(key) ELSE join(p, key)

(* The steps of import_node, in their order: a directory to make unless      *)
(* there is something, a value to set, or an error, after which nothing is   *)
(* done.                                                                     *)
IsDirForm(v) == v.j = "object" /\ Len(v.pairs) = 1 /\ v.pairs[1][1] = <<"__dir">>
FAIL == [step |-> "fail"]

RECURSIVE import_node(_, _, _)
import_node(p, v, at_root) ==
    LET Child(pair) ==
            IF ChildPath(p, pair[1]) = {} THEN <<FAIL>>
            ELSE import_node(CHOOSE q \in ChildPath(p, pair[1]) : TRUE, pair[2], FALSE)
        Each(ps) == FlattenSeq([i \in DOMAIN ps |-> Child(ps[i])])
    IN  CASE IsDirForm(v) ->
                IF v.pairs[1][2].j # "object" THEN <<FAIL>>
                ELSE (IF p = <<>> THEN <<>> ELSE <<[step |-> "dir", path |-> p]>>)
                       \o Each(v.pairs[1][2].pairs)
          [] at_root /\ ~IsDirForm(v) -> IF v.j = "object" THEN Each(v.pairs) ELSE <<FAIL>>
          [] OTHER -> IF json_to_value(v) = {} THEN <<FAIL>>
                      ELSE <<[step |-> "set", path |-> p,
                              value |-> CHOOSE w \in json_to_value(v) : TRUE]>>

(* import_json; a document that does not parse has nothing done. *)
import_json(doc) ==
    IF parse_json_value(doc) = {} THEN <<FAIL>>
    ELSE import_node(<<>>, CHOOSE v \in parse_json_value(doc) : TRUE, TRUE)
=============================================================================
