------------------------------- MODULE Import -------------------------------
(***************************************************************************)
(* The import of a document (import_json and import_node of                 *)
(* crates/alefs-namespace/src/db.rs) as the database sees it: the document  *)
(* amounts to a plan of steps, each of which commits on its own. The        *)
(* process may be killed between two of them; the client then runs the      *)
(* whole import again, over whatever is there.                              *)
(***************************************************************************)
EXTENDS Naturals, Sequences

CONSTANT MaxKills    \* bound: kills in the middle of an import

ASSUME KillsAssumption == MaxKills \in Nat

VARIABLES
    nodes,      \* the paths that exist, each with its node record
    plan,       \* the steps that the document amounts to
    done,       \* how many of them this run of the import has behind it
    phase,      \* "idle", "waiting" (for the import to be run), "importing", "answered"
    answer,     \* the answer: "none" yet, "ok" or "err"
    kills,      \* how often the process was killed
    before      \* history: the nodes before the import was first run

importVars == <<nodes, plan, done, phase, answer, kills, before>>

NT == INSTANCE NamespaceTree WITH
        Ops <- {}, Txns <- {}, Trees <- {}, tree <- nodes

Dir == NT!Dir

-----------------------------------------------------------------------------
(* A tree of directories with records of values at its ends. *)
IsNamespace(t) ==
    /\ t = [p \in DOMAIN t |-> t[p]]
    /\ <<>> \in DOMAIN t /\ t[<<>>] = Dir
    /\ \A p \in DOMAIN t :
          /\ t[p] = Dir \/ t[p].ty = "value"
          /\ p # <<>> => NT!IsDirAt(t, NT!Parent(p))

(* The steps of import_node, in their order: a directory to make unless      *)
(* there is something, a value to set, or an error, after which nothing is   *)
(* done.                                                                     *)
IsPlan(steps) ==
    /\ Len(steps) \in Nat
    /\ \A i \in 1..Len(steps) :
          /\ steps[i].step \in {"dir", "set", "fail"}
          /\ steps[i].step = "set" => steps[i].value.ty = "value"

ImportInit ==
    /\ IsNamespace(before) /\ IsPlan(plan)
    /\ nodes = before
    /\ done = 0
    /\ phase = "waiting"
    /\ answer = "none"
    /\ kills = 0

-----------------------------------------------------------------------------
(* The document is parsed, and its nodes are imported in order. *)
Import ==
    /\ phase = "waiting"
    /\ done' = 0
    /\ phase' = "importing"
    /\ UNCHANGED <<nodes, plan, answer, kills, before>>

Step == plan[done + 1]

AtStep(step) == phase = "importing" /\ done < Len(plan) /\ Step.step = step

Skips ==
    /\ done' = done + 1
    /\ UNCHANGED <<nodes, plan, phase, answer, kills, before>>

Does(op) ==
    /\ nodes' = NT!Effect(nodes, op)
    /\ done' = done + 1
    /\ UNCHANGED <<plan, phase, answer, kills, before>>

Fails ==
    /\ phase' = "answered"
    /\ answer' = "err"
    /\ UNCHANGED <<nodes, plan, done, kills, before>>

(* A directory that is made whether or not there is one. *)
ImportDirAgain ==
    LET mkdir == [op |-> "mkdir", path |-> Step.path] IN
    /\ AtStep("dir")
    /\ IF NT!Allowed(nodes, mkdir) THEN Does(mkdir) ELSE Fails

ImportDir ==
    LET mkdir == [op |-> "mkdir", path |-> Step.path] IN
    /\ AtStep("dir")
    /\ \/ Step.path \in DOMAIN nodes /\ Skips
       \/ Step.path \notin DOMAIN nodes /\ NT!Allowed(nodes, mkdir) /\ Does(mkdir)
       \/ Step.path \notin DOMAIN nodes /\ ~NT!Allowed(nodes, mkdir) /\ Fails

(* A value that is set wherever its path leads. *)
ImportSetAnywhere ==
    /\ AtStep("set")
    /\ Does([op |-> "set", path |-> Step.path, value |-> Step.value])

ImportSet ==
    LET set == [op |-> "set", path |-> Step.path, value |-> Step.value] IN
    /\ AtStep("set")
    /\ \/ NT!Allowed(nodes, set) /\ Does(set)
       \/ ~NT!Allowed(nodes, set) /\ Fails

ImportFails == AtStep("fail") /\ Fails

ImportDone ==
    /\ phase = "importing" /\ done = Len(plan)
    /\ phase' = "answered"
    /\ answer' = "ok"
    /\ UNCHANGED <<nodes, plan, done, kills, before>>

(* The process is killed, and the client will ask again. *)
Kill ==
    /\ phase = "importing" /\ kills < MaxKills
    /\ kills' = kills + 1
    /\ done' = 0
    /\ phase' = "waiting"
    /\ UNCHANGED <<nodes, plan, answer, before>>

ImportNext ==
    \/ Import \/ ImportDir \/ ImportSet \/ ImportFails \/ ImportDone \/ Kill

ImportSpec == ImportInit /\ [][ImportNext]_importVars

-----------------------------------------------------------------------------
(* Types: the namespace stays a tree of directories with records at their    *)
(* ends, whatever an import was made to do (db.rs, set and mkdir).           *)
TypeOK ==
    /\ IsNamespace(nodes) /\ IsNamespace(before) /\ IsPlan(plan)
    /\ done \in 0..Len(plan)
    /\ phase \in {"idle", "waiting", "importing", "answered"}
    /\ answer \in {"none", "ok", "err"}
    /\ kills \in 0..MaxKills

(* An import that nothing stops: one step after the other, up to the first   *)
(* that fails.                                                               *)
OneStep(r, s) ==
    LET op == IF s.step = "dir" THEN [op |-> "mkdir", path |-> s.path]
              ELSE [op |-> "set", path |-> s.path, value |-> s.value]
    IN  IF r.answer = "err" \/ s.step = "fail" THEN [nodes |-> r.nodes, answer |-> "err"]
        ELSE IF s.step = "dir" /\ s.path \in DOMAIN r.nodes THEN r
        ELSE IF NT!Allowed(r.nodes, op) THEN [nodes |-> NT!Effect(r.nodes, op), answer |-> "ok"]
        ELSE [nodes |-> r.nodes, answer |-> "err"]

Uninterrupted(t, steps) ==
    LET run[n \in 0..Len(steps)] ==
            IF n = 0 THEN [nodes |-> t, answer |-> "ok"] ELSE OneStep(run[n - 1], steps[n])
    IN  run

(* An import that is killed after any of its commits and run again ends as   *)
(* if it had not been: the same namespace, the same answer, even if it is    *)
(* one that fails half way or names a path twice (db.rs, import_node).       *)
RetryFinishesImport ==
    phase = "answered" =>
        [nodes |-> nodes, answer |-> answer] = Uninterrupted(before, plan)[Len(plan)]

-----------------------------------------------------------------------------
(* Why it holds. Some run has come furthest, to step m. This one is at step  *)
(* done, and what it finds has the paths of the uninterrupted import after m *)
(* steps, with directories where that has directories: so its own steps up   *)
(* to m do what they did the first time. A value that no step up to m sets   *)
(* is untouched; one that this run has set is as the uninterrupted import    *)
(* had it after as many steps; any other may be of whatever run was killed   *)
(* last, and will be set again.                                              *)

SetBy(n, p) == \E i \in 1..n : plan[i].step = "set" /\ plan[i].path = p

Reached(m) ==
    LET far == Uninterrupted(before, plan)[m]
        own == Uninterrupted(before, plan)[done]
    IN  /\ far.answer = "ok"
        /\ DOMAIN nodes = DOMAIN far.nodes
        /\ \A p \in DOMAIN nodes :
              /\ nodes[p] = Dir <=> far.nodes[p] = Dir
              /\ SetBy(done, p) => nodes[p] = own.nodes[p]
              /\ ~SetBy(m, p) => nodes[p] = far.nodes[p]

(* Whenever an import is killed or goes on, what it leaves and finds is as   *)
(* far as some uninterrupted import would come, values to be set again aside *)
(* (db.rs, import_node).                                                     *)
ImportInv ==
    /\ phase \in {"waiting", "importing"} =>
          answer = "none" /\ \E m \in done..Len(plan) : Reached(m)
    /\ RetryFinishesImport
=============================================================================
