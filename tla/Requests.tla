------------------------------ MODULE Requests ------------------------------
(***************************************************************************)
(* The requests that carry documents, queries and structured values, from   *)
(* the text a client sends to what is on disk: Database::set and ::get with *)
(* the codec between them, Export and Import with their JSON                *)
(* (crates/alefs-namespace/src/db.rs), and Query with its parser and        *)
(* evaluation (crates/alefs-query/src). What is stored of a value is its    *)
(* encoding; every reader decodes it.                                       *)
(*                                                                         *)
(* A job is what one client is about. How an import goes on from its parsed *)
(* document, with the kills between its commits, is module Import.          *)
(***************************************************************************)
EXTENDS Json, AlefQL, Import

CONSTANT
    Jobs        \* [do, tree] with values ("put"), doc ("import"), or query and the
                \* tokens that it consists of, if it does ("query"); and "copy"

VARIABLES
    job,        \* what the client is about
    doc,        \* the client's document, once it has one
    hits        \* what a query that succeeded returned

vars == <<job, doc, hits, importVars>>

-----------------------------------------------------------------------------
(* NodeRecord: a directory, or the encoding of a value; and back. *)
Record(v) == IF v = Dir THEN Dir ELSE [ty |-> "value", encoding |-> encode(v)]
Entry(rec) == IF rec = Dir THEN Dir ELSE CHOOSE v \in decode(rec.encoding) : TRUE

Store(t) == [p \in DOMAIN t |-> Record(t[p])]
View(ns) == [p \in DOMAIN ns |-> Entry(ns[p])]
EmptyTree == [p \in {<<>>} |-> Dir]

(* The file names of the values that a client puts. *)
SLOTS == <<<<<<"a">>>>, <<<<"b">>>>>>

(* The steps of a document: import_json, with the values as they are stored. *)
Plan(d) ==
    LET steps == import_json(d) IN
    [i \in DOMAIN steps |-> IF steps[i].step = "set"
                            THEN [steps[i] EXCEPT !.value = Record(@)] ELSE steps[i]]

Init ==
    /\ job \in Jobs
    /\ nodes = Store(job.tree) /\ before = nodes
    /\ doc = IF job.do = "import" THEN job.doc ELSE <<>>
    /\ plan = IF job.do = "import" THEN Plan(job.doc) ELSE <<>>
    /\ phase = IF job.do = "import" THEN "waiting" ELSE "idle"
    /\ done = 0
    /\ answer = "none"
    /\ hits = {}
    /\ kills = 0

-----------------------------------------------------------------------------
(* Put: the values of the job, one after the other. *)
Put ==
    LET slot == SLOTS[Cardinality(DOMAIN nodes)]
        set  == [op |-> "set", path |-> slot, value |-> Record(job.values[Cardinality(DOMAIN nodes)])]
    IN  /\ job.do = "put" /\ Cardinality(DOMAIN nodes) <= Len(job.values)
        /\ NT!Allowed(nodes, set)
        /\ nodes' = NT!Effect(nodes, set)
        /\ UNCHANGED <<job, doc, hits, plan, done, phase, answer, kills, before>>

(* A query, under the database's lock. *)
Parsed(text) == UNION {parse_query(ts) : ts \in tokenize(text)}

Query ==
    /\ job.do = "query" /\ answer = "none"
    /\ answer' = IF Parsed(job.query) = {} THEN "err" ELSE "ok"
    /\ hits' = UNION {execute(View(nodes), x) : x \in Parsed(job.query)}
    /\ UNCHANGED <<job, doc, nodes, plan, done, phase, kills, before>>

(* An export, and the import into the new data directory it is meant for. *)
Export ==
    /\ job.do = "copy" /\ phase = "idle" /\ doc = <<>>
    /\ doc' = export_json(View(nodes))
    /\ UNCHANGED <<job, hits, importVars>>

NewDatabase ==
    /\ job.do = "copy" /\ phase = "idle" /\ doc # <<>>
    /\ nodes' = Store(EmptyTree) /\ before' = nodes'
    /\ plan' = Plan(doc)
    /\ phase' = "waiting"
    /\ UNCHANGED <<job, doc, hits, done, answer, kills>>

Next ==
    \/ Put \/ Query \/ Export \/ NewDatabase
    \/ ImportNext /\ UNCHANGED <<job, doc, hits>>

Spec == Init /\ [][Next]_vars

-----------------------------------------------------------------------------
(* Properties. *)

(* What a value means: the vector of a set's members is one of many that     *)
(* stand for the set.                                                        *)
RECURSIVE Meaning(_)
Meaning(v) ==
    CASE v.ty = "set"  -> [ty |-> "set", meant |-> {Meaning(v.members[i]) : i \in DOMAIN v.members}]
      [] v.ty = "list" -> List([i \in DOMAIN v.items |-> Meaning(v.items[i])])
      [] v.ty = "hash" -> Hash([k \in DOMAIN v.map |-> Meaning(v.map[k])])
      [] v.ty = "tree" -> Tree([k \in DOMAIN v.entries |-> Meaning(v.entries[k])])
      [] OTHER         -> v

(* The slots that have been put. *)
Full == {n \in 1..2 : job.do = "put" /\ SLOTS[n] \in DOMAIN nodes}

(* The encoding is canonical (codec.rs): it decodes to what was put, and two *)
(* values have one encoding exactly if they mean the same, in whatever order *)
(* and however often a set's vectors name their members, at any depth.       *)
EncodingIsCanonical ==
    /\ \A n \in Full : {Meaning(v) : v \in decode(nodes[SLOTS[n]].encoding)} = {Meaning(job.values[n])}
    /\ \A m, n \in Full :
          nodes[SLOTS[m]] = nodes[SLOTS[n]] <=> Meaning(job.values[m]) = Meaning(job.values[n])

(* A record that was cut short, or that something follows, never decodes to  *)
(* another value (codec.rs, decode and its readers).                         *)
OnlyWholeEncodingsDecode ==
    \A n \in Full :
        LET e == nodes[SLOTS[n]].encoding IN
        /\ \A i \in 0..(Len(e) - 1) : decode(SubSeq(e, 1, i)) = {}
        /\ \A b \in {0, 1, NOT_UTF8} : decode(Append(e, b)) = {}

(* The values that JSON can carry: no float that is written as an integer or *)
(* as a string, no key of a tree that is a NaN but the one that its text is  *)
(* read as, and no string key that reads as another scalar.                  *)
RECURSIVE Survives(_)
Survives(v) ==
    CASE v.ty = "float" -> v.bits % 2 = 1
      [] v.ty = "set"   -> \A i \in DOMAIN v.members : Survives(v.members[i])
      [] v.ty = "list"  -> \A i \in DOMAIN v.items : Survives(v.items[i])
      [] v.ty = "hash"  -> \A k \in DOMAIN v.map : Survives(v.map[k])
      [] v.ty = "tree"  -> \A k \in DOMAIN v.entries :
                              /\ Survives(v.entries[k])
                              /\ k.ty = "float" => ParseFloat(FloatText(k.bits)) = {k.bits}
                              /\ k.ty = "string" =>
                                    /\ k.text \notin {NullText, BoolText(TRUE), BoolText(FALSE)}
                                    /\ ~HasPrefix(k.text, F_KEY) /\ ~HasPrefix(k.text, B_KEY)
                                    /\ ParseInt(k.text) = {}
      [] OTHER          -> TRUE

(* An export that is imported into a new database makes the same namespace,  *)
(* byte for byte, exactly if all its values survive; also if the import was  *)
(* killed and run again (db.rs, export_json and import_json).                *)
ImportRestoresExport ==
    job.do = "copy" /\ phase = "answered" =>
        ((\A p \in DOMAIN job.tree : Survives(job.tree[p]))
            <=> (answer = "ok" /\ nodes = Store(job.tree)))

(* The grammar of queries, as sets of expressions that a sequence of tokens  *)
(* can be read as: a chain of ANDs and ORs, the last of which is outermost,  *)
(* of terms, which are primaries or a NOT and a primary.                     *)
RECURSIVE Exprs(_), Terms(_), Primaries(_)
Exprs(ts) ==
    Terms(ts)
      \cup UNION {LET ls == Exprs(Upto(ts, i - 1))
                       rs == Terms(From(ts, i + 1))
                   IN  {IF ts[i] = Ident(<<"AND">>) THEN And(l, r) ELSE Or(l, r) : l \in ls, r \in rs}
                     : i \in {j \in DOMAIN ts : ts[j] \in {Ident(<<"AND">>), Ident(<<"OR">>)}}}

Terms(ts) ==
    Primaries(ts) \cup (IF IsWord(ts, "NOT") THEN {Not(x) : x \in Primaries(Tail(ts))} ELSE {})

Primaries(ts) ==
    {Pred(r.got) : r \in {s \in parse_predicate(ts) : s.rest = <<>>}}
      \cup (IF Len(ts) > 2 /\ ts[1] = LParen /\ Last(ts) = RParen
            THEN Exprs(SubSeq(ts, 2, Len(ts) - 1)) ELSE {})

(* The parser takes exactly the queries of the grammar, and reads each in    *)
(* the one way that there is (parse.rs, tokenize and parse_query).           *)
ParserIsGrammar ==
    job.do = "query" /\ answer = "none" =>
        Parsed(job.query) = UNION {Exprs(ts) : ts \in job.tokens}

(* The hits of a query are those of a walk over the whole namespace, also    *)
(* where the type index is used instead (eval.rs, candidates_for).           *)
HitsAreTheWalk ==
    job.do = "query" /\ answer # "none" =>
        \A x \in UNION {Exprs(ts) : ts \in job.tokens} :
            hits = {[path |-> p, type_name |-> job.tree[p].ty] :
                         p \in {q \in DOMAIN job.tree : eval_expr(x, q, job.tree[q])}}

Named(p) == IF p = <<>> THEN <<>> ELSE Last(p)

(* A path or name predicate finds exactly what its glob matches (eval.rs,    *)
(* glob_match and match_segments, which search by recursion).                *)
GlobIsMatching ==
    job.do = "query" /\ answer # "none" =>
        \A x \in UNION {Exprs(ts) : ts \in job.tokens} :
            x.e = "pred" /\ x.pred.p \in {"path", "name"} =>
                {hit.path : hit \in hits} =
                    {p \in DOMAIN job.tree :
                        IF x.pred.p = "name" THEN Matches(x.pred.glob, Named(p))
                        ELSE PathMatches(SelectSeq(Split(x.pred.glob), LAMBDA seg : seg # <<>>), p)}
=============================================================================
