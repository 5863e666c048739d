------------------------------- MODULE Values -------------------------------
(***************************************************************************)
(* The typed values of crates/alefs-types/src/value.rs, and the text that   *)
(* Rust's to_string and parse turn scalars into and back, which the file    *)
(* system and the JSON of export and import rely on.                        *)
(*                                                                         *)
(* A text is a sequence of characters. An optional result is a set with at  *)
(* most one element. Every type of value has a field name of its own, so    *)
(* that values of different types can be told apart.                        *)
(***************************************************************************)
EXTENDS Integers, Sequences, FiniteSetsExt

null      == [ty |-> "null"]
bool(b)   == [ty |-> "bool", bool |-> b]
int(n)    == [ty |-> "int", int |-> n]
float(b)  == [ty |-> "float", bits |-> b]
string(s) == [ty |-> "string", text |-> s]
bytes(b)  == [ty |-> "bytes", bytes |-> b]

(* A hash maps texts to values, a tree scalars to values; a set is the       *)
(* vector of its members, as a list is of its items.                         *)
Hash(m)     == [ty |-> "hash", map |-> m]
Set(vec)    == [ty |-> "set", members |-> vec]
List(items) == [ty |-> "list", items |-> items]
Tree(m)     == [ty |-> "tree", entries |-> m]

ScalarTypes == {"null", "bool", "int", "float", "string", "bytes"}
IsScalar(v) == v.ty \in ScalarTypes

(* Functions with one entry more, or changed, and with one less. *)
With(f, k, v) == [x \in DOMAIN f \cup {k} |-> IF x = k THEN v ELSE f[x]]
Drop(f, k) == [x \in DOMAIN f \ {k} |-> f[x]]

-----------------------------------------------------------------------------
(* Numbers as text. *)

DIGITS == <<"0", "1", "2", "3", "4", "5", "6", "7", "8", "9">>
IsDigits(s) == s # <<>> /\ \A i \in DOMAIN s : \E d \in DOMAIN DIGITS : s[i] = DIGITS[d]
DigitOf(c) == (CHOOSE d \in DOMAIN DIGITS : DIGITS[d] = c) - 1

NatOf(s) ==
    LET value[i \in 0..Len(s)] == IF i = 0 THEN 0 ELSE 10 * value[i - 1] + DigitOf(s[i])
    IN  value[Len(s)]

ShowNat(n) ==
    LET show[k \in Nat] ==
            IF k < 10 THEN <<DIGITS[k + 1]>> ELSE show[k \div 10] \o <<DIGITS[(k % 10) + 1]>>
    IN  show[n]

ShowInt(n) == IF n < 0 THEN <<"-">> \o ShowNat(-n) ELSE ShowNat(n)

StartsWith(s, c) == s # <<>> /\ s[1] = c

(* str::parse::<usize> and ::<i64>: a sign, then digits. *)
ParseNat(s) ==
    LET digits == IF StartsWith(s, "+") THEN Tail(s) ELSE s
    IN  IF IsDigits(digits) THEN {NatOf(digits)} ELSE {}

ParseInt(s) ==
    IF StartsWith(s, "-") /\ IsDigits(Tail(s)) THEN {-NatOf(Tail(s))} ELSE ParseNat(s)

(* Floats by their bits, in a format of halves: bits b stand for b/2, with   *)
(* the sign bit set for the negative of that, and one pattern is not finite. *)
(* As in IEEE-754, the patterns are ordered with the negatives last, and     *)
(* there are two zeros.                                                      *)
NAN == 50
SIGN == 100
IsFinite(bits) == bits % SIGN # NAN

FloatText(bits) ==
    IF ~IsFinite(bits) THEN <<"N", "a", "N">>
    ELSE LET half == bits % SIGN IN
         (IF bits >= SIGN THEN <<"-">> ELSE <<>>)
           \o ShowNat(half \div 2)
           \o (IF half % 2 = 1 THEN <<".", "5">> ELSE <<>>)

(* str::parse::<f64>, of the texts whose value the format has: digits with,  *)
(* perhaps, a point before the last one or after them.                       *)
ParseFloat(s) ==
    LET minus == StartsWith(s, "-")
        rest  == IF minus THEN Tail(s) ELSE s
        point == {i \in DOMAIN rest : rest[i] = "."}
        whole == IF point = {} THEN rest ELSE SubSeq(rest, 1, Min(point) - 1)
        part  == IF point = {} THEN <<>> ELSE SubSeq(rest, Min(point) + 1, Len(rest))
    IN  IF rest = FloatText(NAN) THEN {(IF minus THEN SIGN ELSE 0) + NAN}
        ELSE IF ~IsDigits(whole \o part) \/ part \notin {<<>>, <<"0">>, <<"5">>} THEN {}
        ELSE {(IF minus THEN SIGN ELSE 0) + 2 * NatOf(whole) + (IF part = <<"5">> THEN 1 ELSE 0)}

-----------------------------------------------------------------------------
(* str::split('/'): the text between one slash, or the start, and the next,  *)
(* or the end.                                                               *)
Split(s) ==
    LET slashes  == {i \in DOMAIN s : s[i] = "/"}
        Upto(i)  == Cardinality({j \in slashes : j <= i})
        start(k) == Max({0} \cup {i \in slashes : Upto(i) < k}) + 1
        end(k)   == Min({Len(s) + 1} \cup {i \in slashes : Upto(i) >= k}) - 1
    IN  [k \in 1..(Cardinality(slashes) + 1) |-> SubSeq(s, start(k), end(k))]

(* str::trim *)
SPACES == {" ", "\n", "\t"}
Trim(s) ==
    LET solid == {i \in DOMAIN s : s[i] \notin SPACES}
    IN  IF solid = {} THEN <<>> ELSE SubSeq(s, Min(solid), Max(solid))

BoolText(b) == IF b THEN <<"t", "r", "u", "e">> ELSE <<"f", "a", "l", "s", "e">>
NullText == <<"n", "u", "l", "l">>
=============================================================================
