------------------------------- MODULE Codec -------------------------------
(***************************************************************************)
(* The canonical encoding of values, crates/alefs-types/src/codec.rs, with  *)
(* its tags, its little-endian numbers at their width and its length        *)
(* prefixes. What is decoded is an option, a set of at most one result;     *)
(* which error it is when there is none does not matter to any caller.      *)
(***************************************************************************)
EXTENDS Values, SequencesExt

CODEC_VERSION == 1

TAG_NULL   == 0
TAG_BOOL   == 1
TAG_INT    == 2
TAG_FLOAT  == 3
TAG_STRING == 4
TAG_BYTES  == 5
TAG_HASH   == 16
TAG_SET    == 17
TAG_LIST   == 18
TAG_TREE   == 19

(* The characters of the model in the order of their codes, one byte each,   *)
(* as are runs that matter as a whole; none has the byte NOT_UTF8.           *)
CHARS == <<"\n", "\"", "-", ".", "/", "0", "1", "5", ":", "N", "\\", "__dir", "a", "b", "e", "f",
           "float:", "h", "l", "n", "r", "s", "t", "u", "x">>
NOT_UTF8 == 255
CharCode(c) == CHOOSE i \in DOMAIN CHARS : CHARS[i] = c
TextBytes(s) == [i \in DOMAIN s |-> CharCode(s[i])]
IsText(b) == \A i \in DOMAIN b : b[i] \in DOMAIN CHARS
TextOf(b) == [i \in DOMAIN b |-> CHARS[b[i]]]

-----------------------------------------------------------------------------
(* The order of byte strings, of strings and of scalars (derived: by the     *)
(* variant, then by the content; floats by their bits).                      *)

LexLess(s, t) ==
    \E n \in 0..Min({Len(s), Len(t)}) :
        /\ \A i \in 1..n : s[i] = t[i]
        /\ IF n = Len(s) THEN n < Len(t) ELSE n < Len(t) /\ s[n + 1] < t[n + 1]

TextLess(s, t) == LexLess(TextBytes(s), TextBytes(t))

VARIANTS == <<"null", "bool", "int", "float", "string", "bytes">>
Variant(s) == CHOOSE i \in DOMAIN VARIANTS : VARIANTS[i] = s.ty

ScalarLess(s, t) ==
    IF s.ty # t.ty THEN Variant(s) < Variant(t)
    ELSE CASE s.ty = "null"   -> FALSE
           [] s.ty = "bool"   -> ~s.bool /\ t.bool
           [] s.ty = "int"    -> s.int < t.int
           [] s.ty = "float"  -> s.bits < t.bits
           [] s.ty = "string" -> TextLess(s.text, t.text)
           [] s.ty = "bytes"  -> LexLess(s.bytes, t.bytes)

-----------------------------------------------------------------------------
(* Encoding. *)

(* to_le_bytes of a number, in width bytes: two's complement. *)
RECURSIVE LeBytes(_, _)
LeBytes(n, width) == IF width = 0 THEN <<>> ELSE <<n % 256>> \o LeBytes(n \div 256, width - 1)

write_u32(n) == LeBytes(n, 4)
write_str(s) == write_u32(Len(s)) \o TextBytes(s)

encode_scalar(s) ==
    CASE s.ty = "null"   -> <<TAG_NULL>>
      [] s.ty = "bool"   -> <<TAG_BOOL, IF s.bool THEN 1 ELSE 0>>
      [] s.ty = "int"    -> <<TAG_INT>> \o LeBytes(s.int, 8)
      [] s.ty = "float"  -> <<TAG_FLOAT>> \o LeBytes(s.bits, 8)
      [] s.ty = "string" -> <<TAG_STRING>> \o write_str(s.text)
      [] s.ty = "bytes"  -> <<TAG_BYTES>> \o write_u32(Len(s.bytes)) \o s.bytes

(* A set that is sorted and keeps what it has twice. *)
SetPayloadsWithDuplicates(payloads) == SortSeq(payloads, LexLess)

(* The payloads of a set's members, sorted and without duplicates. *)
SetPayloads(payloads) == SetToSortSeq(ToSet(payloads), LexLess)

(* encode_value, which is also encode_payload. *)
RECURSIVE encode_value(_)
encode_value(v) ==
    CASE IsScalar(v)   -> encode_scalar(v)
      [] v.ty = "hash" ->
            LET keys == SetToSortSeq(DOMAIN v.map, TextLess) IN
            <<TAG_HASH>> \o write_u32(Len(keys))
              \o FlattenSeq([i \in DOMAIN keys |-> write_str(keys[i]) \o encode_value(v.map[keys[i]])])
      [] v.ty = "set"  ->
            LET payloads == SetPayloads([i \in DOMAIN v.members |-> encode_value(v.members[i])]) IN
            <<TAG_SET>> \o write_u32(Len(payloads)) \o FlattenSeq(payloads)
      [] v.ty = "list" ->
            <<TAG_LIST>> \o write_u32(Len(v.items))
              \o FlattenSeq([i \in DOMAIN v.items |-> encode_value(v.items[i])])
      [] v.ty = "tree" ->
            LET keys == SetToSortSeq(DOMAIN v.entries, ScalarLess) IN
            <<TAG_TREE>> \o write_u32(Len(keys))
              \o FlattenSeq([i \in DOMAIN keys |->
                                encode_scalar(keys[i]) \o encode_value(v.entries[keys[i]])])

encode(v) == <<CODEC_VERSION>> \o encode_value(v)

-----------------------------------------------------------------------------
(* Decoding. A reader returns what it read and the bytes that are left.      *)

Got(v, rest) == {[got |-> v, rest |-> rest]}

(* from_le_bytes, with the sign of the last byte if it is signed. *)
RECURSIVE Number(_, _)
Number(b, high) == IF b = <<>> THEN high ELSE Number(Front(b), 256 * high + Last(b))
Signed(b) == Number(b, IF Last(b) >= 128 THEN -1 ELSE 0)

read_slice(b, len) ==
    IF Len(b) < len THEN {} ELSE Got(SubSeq(b, 1, len), SubSeq(b, len + 1, Len(b)))

read_u32(b) == UNION {Got(Number(r.got, 0), r.rest) : r \in read_slice(b, 4)}

read_bytes(b) == UNION {read_slice(r.rest, r.got) : r \in read_u32(b)}

read_str(b) == UNION {Got(TextOf(r.got), r.rest) : r \in {s \in read_bytes(b) : IsText(s.got)}}

decode_scalar(tag, b) ==
    CASE tag = TAG_NULL   -> Got(null, b)
      [] tag = TAG_BOOL   -> UNION {Got(bool(r.got[1] = 1), r.rest) :
                                       r \in {s \in read_slice(b, 1) : s.got[1] \in {0, 1}}}
      [] tag = TAG_INT    -> UNION {Got(int(Signed(r.got)), r.rest) : r \in read_slice(b, 8)}
      [] tag = TAG_FLOAT  -> UNION {Got(float(Number(r.got, 0)), r.rest) : r \in read_slice(b, 8)}
      [] tag = TAG_STRING -> UNION {Got(string(r.got), r.rest) : r \in read_str(b)}
      [] tag = TAG_BYTES  -> UNION {Got(bytes(r.got), r.rest) : r \in read_bytes(b)}
      [] OTHER            -> {}

(* The members of a decoded set come sorted and without duplicates. *)
InOrder(members) ==
    \A i \in 2..Len(members) : LexLess(encode_value(members[i - 1]), encode_value(members[i]))

MapOf(pairs) ==
    [k \in {pairs[i][1] : i \in DOMAIN pairs} |->
        pairs[Max({i \in DOMAIN pairs : pairs[i][1] = k})][2]]

(* The loops of decode_value read n values, or n keys and values: as long as *)
(* there are n.                                                              *)
RECURSIVE decode_value(_), DecodeSeq(_, _, _), DecodePairs(_, _, _, _)
decode_value(b) ==
    IF b = <<>> THEN {}
    ELSE LET tag == b[1]
             n   == read_u32(Tail(b))
         IN  CASE tag = TAG_HASH -> UNION {UNION {Got(Hash(MapOf(r.got)), r.rest) :
                                        r \in DecodePairs(c.got, c.rest, <<>>, FALSE)} : c \in n}
               [] tag = TAG_TREE -> UNION {UNION {Got(Tree(MapOf(r.got)), r.rest) :
                                        r \in DecodePairs(c.got, c.rest, <<>>, TRUE)} : c \in n}
               [] tag = TAG_LIST -> UNION {UNION {Got(List(r.got), r.rest) :
                                        r \in DecodeSeq(c.got, c.rest, <<>>)} : c \in n}
               [] tag = TAG_SET  -> UNION {UNION {Got(Set(r.got), r.rest) :
                                        r \in {s \in DecodeSeq(c.got, c.rest, <<>>) : InOrder(s.got)}}
                                           : c \in n}
               [] OTHER          -> decode_scalar(tag, Tail(b))

DecodeSeq(n, b, sofar) ==
    IF n = 0 THEN Got(sofar, b)
    ELSE UNION {DecodeSeq(n - 1, r.rest, Append(sofar, r.got)) : r \in decode_value(b)}

DecodePairs(n, b, sofar, scalarKeys) ==
    IF n = 0 THEN Got(sofar, b)
    ELSE LET keys == IF scalarKeys THEN {r \in decode_value(b) : IsScalar(r.got)} ELSE read_str(b)
         IN  UNION {UNION {DecodePairs(n - 1, r.rest, Append(sofar, <<k.got, r.got>>), scalarKeys) :
                              r \in decode_value(k.rest)} : k \in keys}

(* A decoder that does not mind bytes after the value. *)
decode_a_prefix(b) ==
    IF b = <<>> THEN {}
    ELSE IF b[1] # CODEC_VERSION THEN {}
    ELSE {r.got : r \in decode_value(Tail(b))}

decode(b) ==
    IF b = <<>> THEN {}
    ELSE IF b[1] # CODEC_VERSION THEN {}
    ELSE {r.got : r \in {s \in decode_value(Tail(b)) : s.rest = <<>>}}
=============================================================================
