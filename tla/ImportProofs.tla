---------------------------- MODULE ImportProofs ----------------------------
(***************************************************************************)
(* For every namespace, every document and any number of kills: an import   *)
(* that is killed between any two of its commits and run again ends as if   *)
(* it had not been, with the same namespace and the same answer.            *)
(***************************************************************************)
EXTENDS Import, MaxProofs

-----------------------------------------------------------------------------
(* One entry of a namespace *)

(* Whether a step is one that import_node can take. *)
IsStep(s) ==
    /\ s.step \in {"dir", "set", "fail"}
    /\ s.step = "set" => s.value.ty = "value"

(* A value is not a directory. *)
LEMMA ValueIsNotDir ==
    ASSUME NEW v, v.ty = "value"
    PROVE  v # Dir
<1>1. Dir.ty = "directory"
  BY DEF Dir, NT!Dir
<1> QED BY <1>1

(* Putting a directory or a value where set and mkdir allow it leaves a      *)
(* namespace a namespace.                                                    *)
LEMMA WithNamespace ==
    ASSUME NEW t, IsNamespace(t), NEW p, NEW v, NT!MayHold(t, p),
           (v = Dir /\ p \notin DOMAIN t) \/ v.ty = "value"
    PROVE  IsNamespace(NT!With(t, p, v))
<1> DEFINE u == NT!With(t, p, v)
<1>1. DOMAIN u = DOMAIN t \cup {p} /\ u[p] = v
      /\ \A q \in DOMAIN t : q # p => u[q] = t[q]
  BY DEF NT!With
<1>2. u = [q \in DOMAIN u |-> u[q]]
  BY DEF NT!With
<1>3. p # <<>> /\ NT!IsDirAt(t, NT!Parent(p)) /\ ~NT!IsDirAt(t, p)
  BY DEF NT!MayHold
<1>4. /\ <<>> \in DOMAIN t /\ t[<<>>] = Dir
      /\ \A q \in DOMAIN t :
            /\ t[q] = Dir \/ t[q].ty = "value"
            /\ q # <<>> => NT!IsDirAt(t, NT!Parent(q))
  BY DEF IsNamespace
<1> HIDE DEF u
<1>5. \A q : NT!IsDirAt(t, q) => q # p /\ NT!IsDirAt(u, q)
  BY <1>1, <1>3 DEF NT!IsDirAt
<1>6. /\ <<>> \in DOMAIN u /\ u[<<>>] = Dir
      /\ \A q \in DOMAIN u :
            /\ u[q] = Dir \/ u[q].ty = "value"
            /\ q # <<>> => NT!IsDirAt(u, NT!Parent(q))
  BY <1>1, <1>3, <1>4, <1>5
<1> QED BY <1>2, <1>6 DEF IsNamespace, u

-----------------------------------------------------------------------------
(* One step of an import *)

(* Namespace u is what step s made of namespace t. *)
Grows(t, s, u) ==
    /\ IsNamespace(u)
    /\ DOMAIN t \subseteq DOMAIN u
    /\ \A q \in DOMAIN t :
          /\ u[q] = Dir <=> t[q] = Dir
          /\ ~(s.step = "set" /\ s.path = q) => u[q] = t[q]
    /\ s.step \in {"dir", "set"} => s.path \in DOMAIN u
    /\ s.step = "set" => u[s.path] = s.value /\ NT!MayHold(t, s.path)
    /\ s.step # "fail"

(* What mkdir does to a namespace. *)
LEMMA MkdirGrows ==
    ASSUME NEW t, IsNamespace(t), NEW s, s.step = "dir", s.path \notin DOMAIN t,
           NT!Allowed(t, [op |-> "mkdir", path |-> s.path])
    PROVE  Grows(t, s, NT!Effect(t, [op |-> "mkdir", path |-> s.path]))
<1> DEFINE op == [op |-> "mkdir", path |-> s.path]
           u == NT!With(t, s.path, Dir)
<1>1. s.path # <<>> /\ NT!MayHold(t, s.path)
  BY DEF NT!Allowed, IsNamespace
<1>2. NT!Effect(t, op) = u
  BY DEF NT!Effect, Dir
<1>3. IsNamespace(u)
  BY <1>1, WithNamespace
<1>4. DOMAIN u = DOMAIN t \cup {s.path} /\ \A q \in DOMAIN t : u[q] = t[q]
  BY DEF NT!With
<1> HIDE DEF u
<1>5. Grows(t, s, u)
  BY <1>3, <1>4 DEF Grows
<1> QED BY <1>2, <1>5

(* What set does to a namespace. *)
LEMMA SetGrows ==
    ASSUME NEW t, IsNamespace(t), NEW s, s.step = "set", s.value.ty = "value",
           NT!Allowed(t, [op |-> "set", path |-> s.path, value |-> s.value])
    PROVE  LET op == [op |-> "set", path |-> s.path, value |-> s.value] IN
           /\ NT!Effect(t, op) = NT!With(t, s.path, s.value)
           /\ Grows(t, s, NT!Effect(t, op))
<1> DEFINE op == [op |-> "set", path |-> s.path, value |-> s.value]
           u == NT!With(t, s.path, s.value)
<1>1. NT!MayHold(t, s.path)
  BY DEF NT!Allowed
<1>2. NT!Effect(t, op) = u
  BY DEF NT!Effect
<1>3. IsNamespace(u)
  BY <1>1, WithNamespace
<1>4. /\ DOMAIN u = DOMAIN t \cup {s.path} /\ u[s.path] = s.value
      /\ \A q \in DOMAIN t : q # s.path => u[q] = t[q]
  BY DEF NT!With
<1>5. s.value # Dir
  BY ValueIsNotDir
<1>6. s.path \in DOMAIN t => t[s.path] # Dir
  BY <1>1 DEF NT!MayHold, NT!IsDirAt, Dir
<1> HIDE DEF u
<1>7. Grows(t, s, u)
  BY <1>1, <1>3, <1>4, <1>5, <1>6 DEF Grows
<1> QED BY <1>2, <1>7 DEF u

Result(t, a) == [nodes |-> t, answer |-> a]

(* A step of an import that nothing stops succeeds and adds to the           *)
(* namespace, or fails and changes nothing.                                  *)
LEMMA OneStepOutcome ==
    ASSUME NEW t, IsNamespace(t), NEW s, IsStep(s)
    PROVE  \/ OneStep(Result(t, "ok"), s) = Result(t, "err")
           \/ \E u : OneStep(Result(t, "ok"), s) = Result(u, "ok") /\ Grows(t, s, u)
<1> DEFINE r == Result(t, "ok")
           mkdir == [op |-> "mkdir", path |-> s.path]
           set == [op |-> "set", path |-> s.path, value |-> s.value]
<1>0. r.nodes = t /\ r.answer = "ok" /\ "ok" # "err"
  BY DEF Result
<1>1. CASE s.step = "fail"
  <2>1. OneStep(r, s) = [nodes |-> r.nodes, answer |-> "err"]
    BY <1>1 DEF OneStep
  <2> QED BY <1>0, <2>1 DEF Result
<1>2. CASE s.step = "dir" /\ s.path \in DOMAIN t
  <2> HIDE DEF r
  <2>1. OneStep(r, s) = r
    BY <1>0, <1>2 DEF OneStep
  <2>2. Grows(t, s, t)
    BY <1>2 DEF Grows
  <2> QED BY <2>1, <2>2 DEF r
<1>3. CASE s.step = "dir" /\ s.path \notin DOMAIN t /\ NT!Allowed(t, mkdir)
  <2>1. Grows(t, s, NT!Effect(t, mkdir))
    BY <1>3, MkdirGrows
  <2> HIDE DEF r
  <2>2. OneStep(r, s) = [nodes |-> NT!Effect(t, mkdir), answer |-> "ok"]
    BY <1>0, <1>3 DEF OneStep
  <2> QED BY <2>1, <2>2 DEF r, Result
<1>4. CASE s.step = "dir" /\ s.path \notin DOMAIN t /\ ~NT!Allowed(t, mkdir)
  <2> HIDE DEF r
  <2>1. OneStep(r, s) = [nodes |-> t, answer |-> "err"]
    BY <1>0, <1>4 DEF OneStep
  <2> QED BY <2>1 DEF r, Result
<1>5. CASE s.step = "set" /\ NT!Allowed(t, set)
  <2>1. Grows(t, s, NT!Effect(t, set))
    BY <1>5, SetGrows DEF IsStep
  <2> HIDE DEF r
  <2>2. OneStep(r, s) = [nodes |-> NT!Effect(t, set), answer |-> "ok"]
    BY <1>0, <1>5 DEF OneStep
  <2> QED BY <2>1, <2>2 DEF r, Result
<1>6. CASE s.step = "set" /\ ~NT!Allowed(t, set)
  <2> HIDE DEF r
  <2>1. OneStep(r, s) = [nodes |-> t, answer |-> "err"]
    BY <1>0, <1>6 DEF OneStep
  <2> QED BY <2>1 DEF r, Result
<1> QED BY <1>1, <1>2, <1>3, <1>4, <1>5, <1>6 DEF IsStep

(* After an error nothing is done. *)
LEMMA OneStepAfterError ==
    ASSUME NEW t, NEW s
    PROVE  OneStep(Result(t, "err"), s) = Result(t, "err")
BY DEF OneStep, Result

-----------------------------------------------------------------------------
(* An import that nothing stops *)

IsRun(t, steps, f, m) ==
    f = [n \in 0..m |-> IF n = 0 THEN Result(t, "ok") ELSE OneStep(f[n - 1], steps[n])]

(* Such an import has an outcome after each of its steps. *)
LEMMA RunExists ==
    ASSUME NEW t, NEW steps, NEW m \in Nat
    PROVE  \E f : IsRun(t, steps, f, m)
<1> DEFINE Bad == {n \in Nat : ~\E f : IsRun(t, steps, f, n)}
<1>1. SUFFICES ASSUME Bad # {} PROVE FALSE
  OBVIOUS
<1>2. PICK n \in Bad : \A k \in Bad : n <= k
  BY <1>1, MinExists
<1>3. CASE n = 0
  <2> DEFINE f == [k \in 0..0 |-> Result(t, "ok")]
  <2>1. \A k \in 0..0 : k = 0
    OBVIOUS
  <2>2. IsRun(t, steps, f, 0)
    BY <2>1 DEF IsRun
  <2> QED BY <2>2, <1>2, <1>3
<1>4. CASE n # 0
  <2>1. n - 1 \in Nat /\ n - 1 \notin Bad /\ n \in Nat
    BY <1>2, <1>4
  <2>2. PICK f : IsRun(t, steps, f, n - 1)
    BY <2>1
  <2> DEFINE g == [k \in 0..n |-> IF k = n THEN OneStep(f[n - 1], steps[n]) ELSE f[k]]
  <2>3. \A k \in 0..(n - 1) : f[k] = IF k = 0 THEN Result(t, "ok") ELSE OneStep(f[k - 1], steps[k])
    BY <2>2 DEF IsRun
  <2>4. \A k \in 0..n : k # 0 => k - 1 \in 0..n /\ g[k - 1] = f[k - 1]
    BY <2>1
  <2>5. \A k \in 0..n : g[k] = IF k = 0 THEN Result(t, "ok") ELSE OneStep(f[k - 1], steps[k])
    BY <2>1, <2>3, <1>4
  <2>6. \A k \in 0..n : g[k] = IF k = 0 THEN Result(t, "ok") ELSE OneStep(g[k - 1], steps[k])
    <3> HIDE DEF g
    <3> QED BY <2>4, <2>5
  <2>7. g = [k \in 0..n |-> g[k]]
    OBVIOUS
  <2>8. IsRun(t, steps, g, n)
    <3> HIDE DEF g
    <3> QED BY <2>6, <2>7 DEF IsRun
  <2> QED BY <2>8, <1>2
<1> QED BY <1>3, <1>4

(* Each outcome is one step from the one before. *)
LEMMA UninterruptedDef ==
    ASSUME NEW t, NEW steps, Len(steps) \in Nat
    PROVE  \A n \in 0..Len(steps) : Uninterrupted(t, steps)[n] =
               IF n = 0 THEN Result(t, "ok") ELSE OneStep(Uninterrupted(t, steps)[n - 1], steps[n])
<1> DEFINE Is(f) == IsRun(t, steps, f, Len(steps))
<1>1. \E f : Is(f)
  BY RunExists
<1>2. Uninterrupted(t, steps) = CHOOSE f : Is(f)
  BY DEF Uninterrupted, IsRun, Result
<1> HIDE DEF Is
<1>3. Is(Uninterrupted(t, steps))
  BY <1>1, <1>2
<1> QED BY <1>3 DEF Is, IsRun

(* An outcome is a namespace and an answer. *)
IsOutcome(r) ==
    \E u : IsNamespace(u) /\ (r = Result(u, "ok") \/ r = Result(u, "err"))

(* What an outcome consists of. *)
LEMMA OutcomeParts ==
    ASSUME NEW r, IsOutcome(r)
    PROVE  /\ IsNamespace(r.nodes) /\ r.answer \in {"ok", "err"}
           /\ r = Result(r.nodes, r.answer)
<1>1. PICK u : IsNamespace(u) /\ (r = Result(u, "ok") \/ r = Result(u, "err"))
  BY DEF IsOutcome
<1>2. PICK a \in {"ok", "err"} : r = Result(u, a)
  BY <1>1
<1>3. r.nodes = u /\ r.answer = a
  BY <1>2 DEF Result
<1> QED BY <1>1, <1>2, <1>3

(* Every step of an uninterrupted import has such an outcome. *)
LEMMA RunOutcomes ==
    ASSUME NEW t, IsNamespace(t), NEW steps, IsPlan(steps)
    PROVE  \A n \in 0..Len(steps) : IsOutcome(Uninterrupted(t, steps)[n])
<1> DEFINE U == Uninterrupted(t, steps)
           Bad == {n \in 0..Len(steps) : ~IsOutcome(U[n])}
<1>0. Len(steps) \in Nat /\ \A i \in 1..Len(steps) : IsStep(steps[i])
  BY DEF IsPlan, IsStep
<1>1. \A n \in 0..Len(steps) : U[n] = IF n = 0 THEN Result(t, "ok") ELSE OneStep(U[n - 1], steps[n])
  BY <1>0, UninterruptedDef
<1> HIDE DEF U
<1>2. SUFFICES ASSUME Bad # {} PROVE FALSE
  BY DEF U
<1>3. PICK n \in Bad : \A k \in Bad : n <= k
  <2>1. Bad \subseteq Nat
    BY <1>0
  <2> HIDE DEF Bad
  <2> QED BY <1>2, <2>1, MinExists
<1>4. n # 0
  BY <1>1, <1>3 DEF IsOutcome
<1>5. n - 1 \in 0..Len(steps) /\ n \in 1..Len(steps) /\ IsOutcome(U[n - 1])
  BY <1>0, <1>3, <1>4
<1>6. PICK u : IsNamespace(u) /\ (U[n - 1] = Result(u, "ok") \/ U[n - 1] = Result(u, "err"))
  BY <1>5 DEF IsOutcome
<1>7. U[n] = OneStep(U[n - 1], steps[n])
  BY <1>1, <1>3, <1>4
<1>8. IsOutcome(U[n])
  <2>1. CASE U[n - 1] = Result(u, "err")
    BY <1>6, <1>7, <2>1, OneStepAfterError DEF IsOutcome
  <2>2. CASE U[n - 1] = Result(u, "ok")
    BY <1>0, <1>5, <1>6, <1>7, <2>2, OneStepOutcome DEF IsOutcome, Grows
  <2> QED BY <1>6, <2>1, <2>2
<1> QED BY <1>3, <1>8

(* One step further: an import that has not failed goes on or fails, and one *)
(* that has failed stays as it is.                                           *)
LEMMA RunStep ==
    ASSUME NEW t, IsNamespace(t), NEW steps, IsPlan(steps), NEW n \in 1..Len(steps)
    PROVE  LET U == Uninterrupted(t, steps) IN
           /\ U[n - 1].answer = "err" => U[n] = U[n - 1]
           /\ (U[n - 1].answer = "ok" /\ U[n].answer = "err") => U[n].nodes = U[n - 1].nodes
           /\ U[n].answer = "ok" =>
                 U[n - 1].answer = "ok" /\ Grows(U[n - 1].nodes, steps[n], U[n].nodes)
<1> DEFINE U == Uninterrupted(t, steps)
<1>0. /\ Len(steps) \in Nat /\ IsStep(steps[n])
      /\ n \in 0..Len(steps) /\ n # 0 /\ n - 1 \in 0..Len(steps)
  BY DEF IsPlan, IsStep
<1>1. U[n] = OneStep(U[n - 1], steps[n])
  BY <1>0, UninterruptedDef
<1>2. IsOutcome(U[n - 1])
  BY <1>0, RunOutcomes
<1> HIDE DEF U
<1>3. PICK u : IsNamespace(u) /\ (U[n - 1] = Result(u, "ok") \/ U[n - 1] = Result(u, "err"))
  BY <1>2 DEF IsOutcome
<1>4. \A v, a : Result(v, a).nodes = v /\ Result(v, a).answer = a
  BY DEF Result
<1>5. CASE U[n - 1] = Result(u, "err")
  <2>1. U[n] = U[n - 1]
    BY <1>1, <1>5, OneStepAfterError
  <2>2. U[n].answer = "err"
    BY <1>4, <1>5, <2>1
  <2> QED BY <1>4, <1>5, <2>1, <2>2 DEF U
<1>6. CASE U[n - 1] = Result(u, "ok")
  <2>1. U[n - 1].answer = "ok" /\ U[n - 1].nodes = u
    BY <1>4, <1>6
  <2>2. \/ U[n] = Result(u, "err")
        \/ \E v : U[n] = Result(v, "ok") /\ Grows(u, steps[n], v)
    BY <1>0, <1>1, <1>3, <1>6, OneStepOutcome
  <2> QED BY <1>4, <2>1, <2>2 DEF U
<1> QED BY <1>3, <1>5, <1>6

(* An import that has failed stays as it is to its end. *)
LEMMA ErrorStays ==
    ASSUME NEW t, IsNamespace(t), NEW steps, IsPlan(steps),
           NEW n \in 0..Len(steps), Uninterrupted(t, steps)[n].answer = "err",
           NEW k \in n..Len(steps)
    PROVE  Uninterrupted(t, steps)[k] = Uninterrupted(t, steps)[n]
<1> DEFINE U == Uninterrupted(t, steps)
           Bad == {i \in n..Len(steps) : U[i] # U[n]}
<1>0. Len(steps) \in Nat /\ n \in Nat
  BY DEF IsPlan
<1>1. \A i \in 1..Len(steps) : U[i - 1].answer = "err" => U[i] = U[i - 1]
  BY RunStep
<1>2. SUFFICES ASSUME Bad # {} PROVE FALSE
  OBVIOUS
<1> HIDE DEF U
<1>3. PICK i \in Bad : \A j \in Bad : i <= j
  <2>1. Bad \subseteq Nat
    BY <1>0
  <2> HIDE DEF Bad
  <2> QED BY <1>2, <2>1, MinExists
<1>4. i # n
  BY <1>3
<1>5. i - 1 \in n..Len(steps) /\ i \in 1..Len(steps) /\ U[i - 1] = U[n]
  BY <1>0, <1>3, <1>4
<1> QED BY <1>1, <1>3, <1>5 DEF U

(* The paths that the first n steps set. *)
SetWithin(steps, n, p) == \E i \in 1..n : steps[i].step = "set" /\ steps[i].path = p

(* What an import that has not failed has is there to stay: each path, and   *)
(* whether there is a directory.                                             *)
Contains(t, u) ==
    /\ DOMAIN t \subseteq DOMAIN u
    /\ \A q \in DOMAIN t : u[q] = Dir <=> t[q] = Dir

(* Nothing that an import did is undone by its later steps. *)
LEMMA RunGrows ==
    ASSUME NEW t, IsNamespace(t), NEW steps, IsPlan(steps),
           NEW k \in 0..Len(steps), Uninterrupted(t, steps)[k].answer = "ok",
           NEW n \in 0..k
    PROVE  LET U == Uninterrupted(t, steps) IN
           U[n].answer = "ok" /\ Contains(U[n].nodes, U[k].nodes)
<1> DEFINE U == Uninterrupted(t, steps)
           Bad == {i \in 0..k : i <= k /\ ~(U[k - i].answer = "ok" /\ Contains(U[k - i].nodes, U[k].nodes))}
<1>0. Len(steps) \in Nat /\ n \in Nat /\ k \in Nat
  BY DEF IsPlan
<1>1. \A i \in 1..Len(steps) : U[i].answer = "ok" =>
          U[i - 1].answer = "ok" /\ Contains(U[i - 1].nodes, U[i].nodes)
  BY RunStep DEF Grows, Contains
<1>2. SUFFICES ASSUME Bad # {} PROVE FALSE
  <2>1. k - n \in 0..k /\ k - (k - n) = n
    BY <1>0
  <2>2. k - n \notin Bad
    BY <1>2
  <2> HIDE DEF U
  <2> QED BY <2>1, <2>2 DEF U
<1> HIDE DEF U
<1>3. PICK i \in Bad : \A j \in Bad : i <= j
  <2>1. Bad \subseteq Nat
    BY <1>0
  <2> HIDE DEF Bad
  <2> QED BY <1>2, <2>1, MinExists
<1>4. i # 0
  <2>1. k - 0 = k
    BY <1>0
  <2> QED BY <1>3, <2>1 DEF Contains, U
<1>5. i - 1 \in 0..k /\ i - 1 \notin Bad /\ k - (i - 1) \in 1..Len(steps)
      /\ (k - (i - 1)) - 1 = k - i
  BY <1>0, <1>3, <1>4
<1>6. U[k - (i - 1)].answer = "ok" /\ Contains(U[k - (i - 1)].nodes, U[k].nodes)
  BY <1>0, <1>5
<1>7. U[k - i].answer = "ok" /\ Contains(U[k - i].nodes, U[k - (i - 1)].nodes)
  BY <1>1, <1>5, <1>6
<1>8. Contains(U[k - i].nodes, U[k].nodes)
  BY <1>6, <1>7 DEF Contains
<1> QED BY <1>3, <1>7, <1>8

(* What was set is there. *)
LEMMA SetIsThere ==
    ASSUME NEW t, IsNamespace(t), NEW steps, IsPlan(steps),
           NEW k \in 0..Len(steps), Uninterrupted(t, steps)[k].answer = "ok",
           NEW p, SetWithin(steps, k, p)
    PROVE  p \in DOMAIN Uninterrupted(t, steps)[k].nodes
<1> DEFINE U == Uninterrupted(t, steps)
<1>0. Len(steps) \in Nat /\ k \in Nat
  BY DEF IsPlan
<1>1. PICK i \in 1..k : steps[i].step = "set" /\ steps[i].path = p
  BY DEF SetWithin
<1>2. i \in 0..k /\ i \in 1..Len(steps)
  BY <1>0
<1>3. U[i].answer = "ok" /\ Contains(U[i].nodes, U[k].nodes)
  BY <1>2, RunGrows
<1>4. Grows(U[i - 1].nodes, steps[i], U[i].nodes)
  BY <1>2, <1>3, RunStep
<1> HIDE DEF U
<1> QED BY <1>1, <1>3, <1>4 DEF Grows, Contains, U

-----------------------------------------------------------------------------
(* Where a run of the import stands *)

(* Reached(m), of any namespace ns after d steps of a run. *)
ReachedBy(t, steps, ns, d, m) ==
    LET far == Uninterrupted(t, steps)[m]
        own == Uninterrupted(t, steps)[d]
    IN  /\ far.answer = "ok"
        /\ DOMAIN ns = DOMAIN far.nodes
        /\ \A p \in DOMAIN ns :
              /\ ns[p] = Dir <=> far.nodes[p] = Dir
              /\ SetWithin(steps, d, p) => ns[p] = own.nodes[p]
              /\ ~SetWithin(steps, m, p) => ns[p] = far.nodes[p]

(* The run that has come furthest is where the uninterrupted import is. *)
LEMMA AtTheFurthest ==
    ASSUME NEW t, IsNamespace(t), NEW steps, IsPlan(steps), NEW ns, IsNamespace(ns),
           NEW m \in 0..Len(steps), ReachedBy(t, steps, ns, m, m)
    PROVE  Uninterrupted(t, steps)[m] = Result(ns, "ok")
<1> DEFINE r == Uninterrupted(t, steps)[m]
<1>1. IsOutcome(r)
  BY RunOutcomes
<1>2. /\ r.answer = "ok" /\ DOMAIN ns = DOMAIN r.nodes
      /\ \A p \in DOMAIN ns : ns[p] = r.nodes[p]
  BY DEF ReachedBy
<1> HIDE DEF r
<1>3. IsNamespace(r.nodes) /\ r = Result(r.nodes, "ok")
  BY <1>1, <1>2, OutcomeParts
<1>4. ns = [p \in DOMAIN ns |-> ns[p]] /\ r.nodes = [p \in DOMAIN r.nodes |-> r.nodes[p]]
  BY <1>3 DEF IsNamespace
<1>5. ns = r.nodes
  BY <1>2, <1>4
<1> QED BY <1>3, <1>5 DEF r

(* And the other way round. *)
LEMMA FurthestIsReached ==
    ASSUME NEW t, IsNamespace(t), NEW steps, IsPlan(steps),
           NEW m \in 0..Len(steps), NEW ns, Uninterrupted(t, steps)[m] = Result(ns, "ok")
    PROVE  ReachedBy(t, steps, ns, m, m)
<1>1. Result(ns, "ok").nodes = ns /\ Result(ns, "ok").answer = "ok"
  BY DEF Result
<1> QED BY <1>1 DEF ReachedBy

(* Behind the furthest run there is no step that fails. *)
LEMMA BehindIsAllowed ==
    ASSUME NEW t, IsNamespace(t), NEW steps, IsPlan(steps), NEW ns, IsNamespace(ns),
           NEW m \in 1..Len(steps), NEW d \in 0..(m - 1), ReachedBy(t, steps, ns, d, m)
    PROVE  /\ d + 1 \in 1..m
           /\ steps[d + 1].step # "fail"
           /\ steps[d + 1].path \in DOMAIN ns
           /\ steps[d + 1].step = "set" => NT!MayHold(ns, steps[d + 1].path)
<1> DEFINE U == Uninterrupted(t, steps)
           s == steps[d + 1]
<1>0. /\ Len(steps) \in Nat /\ m \in 0..Len(steps) /\ d \in 0..m /\ d + 1 \in 0..m
      /\ d + 1 \in 1..Len(steps) /\ (d + 1) - 1 = d /\ d + 1 \in 1..m
  BY DEF IsPlan
<1>1. U[m].answer = "ok" /\ DOMAIN ns = DOMAIN U[m].nodes
      /\ \A p \in DOMAIN ns : ns[p] = Dir <=> U[m].nodes[p] = Dir
  BY DEF ReachedBy
<1>2. /\ U[d + 1].answer = "ok" /\ Contains(U[d + 1].nodes, U[m].nodes)
      /\ U[d].answer = "ok" /\ Contains(U[d].nodes, U[m].nodes)
  BY <1>0, <1>1, RunGrows
<1>3. Grows(U[d].nodes, s, U[d + 1].nodes)
  BY <1>0, <1>2, RunStep
<1>4. IsStep(s)
  BY <1>0 DEF IsPlan, IsStep
<1> HIDE DEF U, s
<1>5. s.step \in {"dir", "set"} /\ s.path \in DOMAIN U[d + 1].nodes /\ s.path \in DOMAIN ns
  BY <1>1, <1>2, <1>3, <1>4 DEF Grows, Contains, IsStep
<1>6. ASSUME s.step = "set" PROVE NT!MayHold(ns, s.path)
  <2>1. NT!MayHold(U[d].nodes, s.path) /\ U[d + 1].nodes[s.path] = s.value /\ s.value # Dir
    BY <1>3, <1>4, <1>6, ValueIsNotDir DEF Grows, IsStep
  <2>2. s.path # <<>> /\ NT!IsDirAt(U[d].nodes, NT!Parent(s.path))
    BY <2>1 DEF NT!MayHold
  <2>3. NT!IsDirAt(ns, NT!Parent(s.path))
    BY <1>1, <1>2, <2>2 DEF NT!IsDirAt, Contains, Dir
  <2>4. ns[s.path] # Dir
    BY <1>1, <1>2, <1>5, <2>1 DEF Contains
  <2> QED BY <2>2, <2>3, <2>4 DEF NT!MayHold, NT!IsDirAt, Dir
<1> QED BY <1>0, <1>4, <1>5, <1>6 DEF s, IsStep

(* A run behind the furthest one passes a directory, which is there. *)
LEMMA PassDir ==
    ASSUME NEW t, IsNamespace(t), NEW steps, IsPlan(steps), NEW ns, IsNamespace(ns),
           NEW m \in 1..Len(steps), NEW d \in 0..(m - 1), ReachedBy(t, steps, ns, d, m),
           steps[d + 1].step = "dir"
    PROVE  ReachedBy(t, steps, ns, d + 1, m)
<1> DEFINE U == Uninterrupted(t, steps)
<1>0. /\ Len(steps) \in Nat /\ m \in 0..Len(steps) /\ d \in 0..m /\ d + 1 \in 0..m
      /\ d + 1 \in 1..Len(steps) /\ (d + 1) - 1 = d /\ d \in 0..Len(steps) /\ d \in Nat
  BY DEF IsPlan
<1>1. U[m].answer = "ok" /\ U[d].answer = "ok" /\ U[d + 1].answer = "ok"
  BY <1>0, RunGrows DEF ReachedBy
<1>2. Grows(U[d].nodes, steps[d + 1], U[d + 1].nodes)
  BY <1>0, <1>1, RunStep
<1>3. ASSUME NEW p, SetWithin(steps, d + 1, p)
      PROVE  SetWithin(steps, d, p) /\ U[d + 1].nodes[p] = U[d].nodes[p]
  <2>1. SetWithin(steps, d, p)
    BY <1>0, <1>3 DEF SetWithin
  <2>2. p \in DOMAIN U[d].nodes
    BY <1>0, <1>1, <2>1, SetIsThere
  <2> HIDE DEF U
  <2> QED BY <1>2, <2>1, <2>2 DEF Grows
<1>4. /\ U[m].answer = "ok" /\ DOMAIN ns = DOMAIN U[m].nodes
      /\ \A p \in DOMAIN ns :
            /\ ns[p] = Dir <=> U[m].nodes[p] = Dir
            /\ SetWithin(steps, d, p) => ns[p] = U[d].nodes[p]
            /\ ~SetWithin(steps, m, p) => ns[p] = U[m].nodes[p]
  BY DEF ReachedBy
<1> HIDE DEF U
<1>5. \A p \in DOMAIN ns : SetWithin(steps, d + 1, p) => ns[p] = U[d + 1].nodes[p]
  BY <1>3, <1>4
<1> QED BY <1>4, <1>5 DEF ReachedBy, U

(* It sets a value again. *)
LEMMA SetAgain ==
    ASSUME NEW t, IsNamespace(t), NEW steps, IsPlan(steps), NEW ns, IsNamespace(ns),
           NEW m \in 1..Len(steps), NEW d \in 0..(m - 1), ReachedBy(t, steps, ns, d, m),
           steps[d + 1].step = "set"
    PROVE  ReachedBy(t, steps, NT!With(ns, steps[d + 1].path, steps[d + 1].value), d + 1, m)
<1> DEFINE U == Uninterrupted(t, steps)
           s == steps[d + 1]
           new == NT!With(ns, s.path, s.value)
<1>0. /\ Len(steps) \in Nat /\ m \in 0..Len(steps) /\ d \in 0..m /\ d + 1 \in 0..m
      /\ d + 1 \in 1..Len(steps) /\ (d + 1) - 1 = d /\ d \in 0..Len(steps) /\ d \in Nat
      /\ d + 1 \in 1..m
  BY DEF IsPlan
<1>1. U[m].answer = "ok" /\ U[d].answer = "ok" /\ U[d + 1].answer = "ok"
      /\ Contains(U[d + 1].nodes, U[m].nodes)
  BY <1>0, RunGrows DEF ReachedBy
<1>2. Grows(U[d].nodes, s, U[d + 1].nodes)
  BY <1>0, <1>1, RunStep
<1>3. s.path \in DOMAIN ns
  BY BehindIsAllowed
<1>4. DOMAIN new = DOMAIN ns /\ new[s.path] = s.value
      /\ \A p \in DOMAIN ns : p # s.path => new[p] = ns[p]
  BY <1>3 DEF NT!With
<1>5. s.value # Dir
  <2>1. IsStep(s)
    BY <1>0 DEF IsPlan, IsStep
  <2> QED BY <2>1, ValueIsNotDir DEF IsStep
<1>6. /\ U[m].answer = "ok" /\ DOMAIN ns = DOMAIN U[m].nodes
      /\ \A p \in DOMAIN ns :
            /\ ns[p] = Dir <=> U[m].nodes[p] = Dir
            /\ SetWithin(steps, d, p) => ns[p] = U[d].nodes[p]
            /\ ~SetWithin(steps, m, p) => ns[p] = U[m].nodes[p]
  BY DEF ReachedBy
<1>7. SetWithin(steps, m, s.path)
  BY <1>0 DEF SetWithin
<1>8. ASSUME NEW p, SetWithin(steps, d + 1, p), p # s.path
      PROVE  SetWithin(steps, d, p) /\ U[d + 1].nodes[p] = U[d].nodes[p]
  <2>1. SetWithin(steps, d, p)
    BY <1>0, <1>8 DEF SetWithin
  <2>2. p \in DOMAIN U[d].nodes
    BY <1>0, <1>1, <2>1, SetIsThere
  <2> HIDE DEF U, s
  <2> QED BY <1>2, <1>8, <2>1, <2>2 DEF Grows
<1>9. s.step = "set"
  OBVIOUS
<1> HIDE DEF U, s, new
<1>10. U[d + 1].nodes[s.path] = s.value /\ s.path \in DOMAIN U[d + 1].nodes
  BY <1>2, <1>9 DEF Grows
<1>11. U[m].nodes[s.path] # Dir
  BY <1>1, <1>5, <1>10 DEF Contains
<1>12. \A p \in DOMAIN new :
          /\ new[p] = Dir <=> U[m].nodes[p] = Dir
          /\ SetWithin(steps, d + 1, p) => new[p] = U[d + 1].nodes[p]
          /\ ~SetWithin(steps, m, p) => new[p] = U[m].nodes[p]
  BY <1>4, <1>5, <1>6, <1>7, <1>8, <1>10, <1>11
<1> QED BY <1>4, <1>6, <1>12 DEF ReachedBy, U, s, new

-----------------------------------------------------------------------------
(* The import as it runs *)

(* Reached in terms of the state. *)
LEMMA ReachedIs ==
    \A m : Reached(m) <=> ReachedBy(before, plan, nodes, done, m)
BY DEF Reached, ReachedBy, SetBy, SetWithin

(* The same after a step that leaves document and history alone. *)
LEMMA ReachedIsNext ==
    ASSUME plan' = plan, before' = before
    PROVE  \A m : Reached(m)' <=> ReachedBy(before, plan, nodes', done', m)
BY DEF Reached, ReachedBy, SetBy, SetWithin

(* What holds whenever the import is run. *)
Running == TypeOK /\ ImportInv /\ phase = "importing"

(* The furthest run, and where this one is. *)
LEMMA RunningFacts ==
    ASSUME Running
    PROVE  /\ IsNamespace(nodes) /\ IsNamespace(before) /\ IsPlan(plan)
           /\ Len(plan) \in Nat /\ done \in 0..Len(plan) /\ answer = "none"
           /\ \E m \in done..Len(plan) : ReachedBy(before, plan, nodes, done, m)
<1>1. IsNamespace(nodes) /\ IsNamespace(before) /\ IsPlan(plan) /\ done \in 0..Len(plan)
  BY DEF Running, TypeOK
<1>2. answer = "none" /\ \E m \in done..Len(plan) : Reached(m)
  BY DEF Running, ImportInv
<1> QED BY <1>1, <1>2, ReachedIs DEF IsPlan

(* A step of a run that is at the furthest: what comes of it is what comes   *)
(* of it in the uninterrupted import.                                        *)
LEMMA NextOutcome ==
    ASSUME Running, done < Len(plan), ReachedBy(before, plan, nodes, done, done)
    PROVE  /\ done + 1 \in 1..Len(plan)
           /\ IsStep(Step)
           /\ Uninterrupted(before, plan)[done + 1] = OneStep(Result(nodes, "ok"), Step)
<1>1. /\ IsNamespace(nodes) /\ IsNamespace(before) /\ IsPlan(plan)
      /\ Len(plan) \in Nat /\ done \in 0..Len(plan)
  BY RunningFacts
<1>2. done + 1 \in 1..Len(plan) /\ done + 1 \in 0..Len(plan) /\ done + 1 # 0 /\ (done + 1) - 1 = done
  BY <1>1
<1>3. Uninterrupted(before, plan)[done] = Result(nodes, "ok")
  BY <1>1, AtTheFurthest
<1>4. Uninterrupted(before, plan)[done + 1] = OneStep(Uninterrupted(before, plan)[done], plan[done + 1])
  BY <1>1, <1>2, UninterruptedDef
<1>5. IsStep(plan[done + 1])
  BY <1>1, <1>2 DEF IsPlan, IsStep
<1> QED BY <1>2, <1>3, <1>4, <1>5 DEF Step

(* A step that does something, or passes what is there. *)
LEMMA GoesOn ==
    ASSUME Running, done < Len(plan), IsNamespace(nodes'), done' = done + 1,
           UNCHANGED <<plan, phase, answer, kills, before>>,
           NEW m \in (done + 1)..Len(plan), ReachedBy(before, plan, nodes', done + 1, m)
    PROVE  TypeOK' /\ ImportInv'
<1>1. Len(plan) \in Nat /\ done \in 0..Len(plan) /\ done' \in 0..Len(plan)' /\ answer = "none"
  BY RunningFacts
<1>2. TypeOK'
  <2>1. IsNamespace(before)' /\ IsPlan(plan)'
    BY DEF Running, TypeOK
  <2>2. (phase \in {"idle", "waiting", "importing", "answered"})'
        /\ (answer \in {"none", "ok", "err"})' /\ (kills \in 0..MaxKills)'
    BY DEF Running, TypeOK
  <2> QED BY <1>1, <2>1, <2>2 DEF TypeOK
<1>3. Reached(m)' /\ m \in (done..Len(plan))'
  BY ReachedIsNext
<1>4. phase' = "importing" /\ answer' = "none"
  BY <1>1 DEF Running
<1>5. (\E k \in done..Len(plan) : Reached(k))'
  BY <1>3
<1> QED BY <1>2, <1>4, <1>5 DEF ImportInv, RetryFinishesImport

(* A step that fails fails in the uninterrupted import, too. *)
LEMMA FailsForGood ==
    ASSUME Running, done < Len(plan), ReachedBy(before, plan, nodes, done, done), Fails,
           OneStep(Result(nodes, "ok"), Step) = Result(nodes, "err")
    PROVE  TypeOK' /\ ImportInv'
<1> DEFINE U == Uninterrupted(before, plan)
<1>1. /\ IsNamespace(nodes) /\ IsNamespace(before) /\ IsPlan(plan)
      /\ Len(plan) \in Nat /\ done \in 0..Len(plan)
  BY RunningFacts
<1>2. U[done + 1] = Result(nodes, "err") /\ done + 1 \in 1..Len(plan)
  BY NextOutcome
<1>3. U[Len(plan)] = Result(nodes, "err")
  <2>1. U[done + 1].answer = "err"
    BY <1>2 DEF Result
  <2>2. done + 1 \in 0..Len(plan) /\ Len(plan) \in (done + 1)..Len(plan)
    BY <1>1, <1>2
  <2>3. U[Len(plan)] = U[done + 1]
    BY <1>1, <2>1, <2>2, ErrorStays
  <2> QED BY <1>2, <2>3
<1>4. TypeOK'
  BY <1>1 DEF Fails, Running, TypeOK
<1>5. nodes' = nodes /\ plan' = plan /\ before' = before /\ phase' = "answered" /\ answer' = "err"
  BY DEF Fails
<1>6. RetryFinishesImport'
  BY <1>3, <1>5 DEF RetryFinishesImport, Result
<1> QED BY <1>4, <1>5, <1>6 DEF ImportInv

(* A directory is made, or is there, or cannot be made. *)
LEMMA ImportDirStep ==
    ASSUME Running, ImportDir
    PROVE  TypeOK' /\ ImportInv'
<1> DEFINE mkdir == [op |-> "mkdir", path |-> Step.path]
           U == Uninterrupted(before, plan)
<1>1. /\ IsNamespace(nodes) /\ IsNamespace(before) /\ IsPlan(plan)
      /\ Len(plan) \in Nat /\ done \in 0..Len(plan)
  BY RunningFacts
<1>2. PICK m \in done..Len(plan) : ReachedBy(before, plan, nodes, done, m)
  BY RunningFacts
<1>3. done < Len(plan) /\ Step.step = "dir" /\ done + 1 \in 0..Len(plan)
  BY <1>1 DEF ImportDir, AtStep
<1>4. CASE done # m
  <2>1. m \in 1..Len(plan) /\ done \in 0..(m - 1) /\ m \in (done + 1)..Len(plan)
    BY <1>1, <1>2, <1>4
  <2>2. Step.path \in DOMAIN nodes
    BY <1>1, <1>2, <2>1, BehindIsAllowed DEF Step
  <2>3. nodes' = nodes /\ done' = done + 1 /\ UNCHANGED <<plan, phase, answer, kills, before>>
    BY <2>2 DEF ImportDir, Skips
  <2>4. ReachedBy(before, plan, nodes', done + 1, m)
    BY <1>1, <1>2, <1>3, <2>1, <2>3, PassDir DEF Step
  <2> QED BY <1>1, <1>3, <2>1, <2>3, <2>4, GoesOn
<1>5. CASE done = m
  <2>0. ReachedBy(before, plan, nodes, done, done)
    BY <1>2, <1>5
  <2>1. U[done + 1] = OneStep(Result(nodes, "ok"), Step) /\ IsStep(Step)
    BY <1>3, <2>0, NextOutcome
  <2>2. Result(nodes, "ok").nodes = nodes /\ Result(nodes, "ok").answer = "ok"
    BY DEF Result
  <2>3. ASSUME Step.path \notin DOMAIN nodes, ~NT!Allowed(nodes, mkdir), Fails
        PROVE  TypeOK' /\ ImportInv'
    <3>1. OneStep(Result(nodes, "ok"), Step) = Result(nodes, "err")
      BY <1>3, <2>2, <2>3 DEF OneStep, Result
    <3> QED BY <1>3, <2>0, <2>3, <3>1, FailsForGood
  <2>4. ASSUME NEW u, u = nodes', IsNamespace(u), U[done + 1] = Result(u, "ok"),
               done' = done + 1, UNCHANGED <<plan, phase, answer, kills, before>>
        PROVE  TypeOK' /\ ImportInv'
    <3>1. ReachedBy(before, plan, u, done + 1, done + 1)
      BY <1>1, <1>3, <2>4, FurthestIsReached
    <3>2. done + 1 \in (done + 1)..Len(plan)
      BY <1>1, <1>3
    <3> QED BY <1>3, <2>4, <3>1, <3>2, GoesOn
  <2>5. CASE Step.path \in DOMAIN nodes /\ Skips
    <3>1. OneStep(Result(nodes, "ok"), Step) = Result(nodes, "ok")
      BY <1>3, <2>2, <2>5 DEF OneStep
    <3> QED BY <1>1, <2>1, <2>4, <2>5, <3>1 DEF Skips
  <2>6. CASE Step.path \notin DOMAIN nodes /\ NT!Allowed(nodes, mkdir) /\ Does(mkdir)
    <3>1. OneStep(Result(nodes, "ok"), Step) = Result(NT!Effect(nodes, mkdir), "ok")
      BY <1>3, <2>2, <2>6 DEF OneStep, Result
    <3>2. IsNamespace(NT!Effect(nodes, mkdir))
      BY <1>1, <1>3, <2>6, MkdirGrows DEF Grows
    <3> QED BY <2>1, <2>4, <2>6, <3>1, <3>2 DEF Does
  <2> QED BY <2>3, <2>5, <2>6 DEF ImportDir
<1> QED BY <1>4, <1>5

(* A value is set, or cannot be. *)
LEMMA ImportSetStep ==
    ASSUME Running, ImportSet
    PROVE  TypeOK' /\ ImportInv'
<1> DEFINE set == [op |-> "set", path |-> Step.path, value |-> Step.value]
           U == Uninterrupted(before, plan)
<1>1. /\ IsNamespace(nodes) /\ IsNamespace(before) /\ IsPlan(plan)
      /\ Len(plan) \in Nat /\ done \in 0..Len(plan)
  BY RunningFacts
<1>2. PICK m \in done..Len(plan) : ReachedBy(before, plan, nodes, done, m)
  BY RunningFacts
<1>3. done < Len(plan) /\ Step.step = "set" /\ done + 1 \in 0..Len(plan) /\ done + 1 \in 1..Len(plan)
  BY <1>1 DEF ImportSet, AtStep
<1>4. Step.value.ty = "value"
  BY <1>1, <1>3 DEF IsPlan, Step
<1>5. ASSUME NT!Allowed(nodes, set)
      PROVE  /\ IsNamespace(NT!Effect(nodes, set))
             /\ NT!Effect(nodes, set) = NT!With(nodes, Step.path, Step.value)
             /\ Does(set)
  BY <1>1, <1>3, <1>4, <1>5, SetGrows DEF Grows, ImportSet
<1>6. CASE done # m
  <2>1. m \in 1..Len(plan) /\ done \in 0..(m - 1) /\ m \in (done + 1)..Len(plan)
    BY <1>1, <1>2, <1>6
  <2>2. NT!MayHold(nodes, Step.path)
    BY <1>1, <1>2, <1>3, <2>1, BehindIsAllowed DEF Step
  <2>3. NT!Allowed(nodes, set)
    BY <2>2 DEF NT!Allowed
  <2>4. ReachedBy(before, plan, NT!With(nodes, Step.path, Step.value), done + 1, m)
    BY <1>1, <1>2, <1>3, <2>1, SetAgain DEF Step
  <2>5. /\ IsNamespace(nodes') /\ ReachedBy(before, plan, nodes', done + 1, m)
        /\ done' = done + 1 /\ UNCHANGED <<plan, phase, answer, kills, before>>
    BY <1>5, <2>3, <2>4 DEF Does
  <2> QED BY <1>3, <2>1, <2>5, GoesOn
<1>7. CASE done = m
  <2>0. ReachedBy(before, plan, nodes, done, done)
    BY <1>2, <1>7
  <2>1. U[done + 1] = OneStep(Result(nodes, "ok"), Step) /\ IsStep(Step)
    BY <1>3, <2>0, NextOutcome
  <2>2. Result(nodes, "ok").nodes = nodes /\ Result(nodes, "ok").answer = "ok"
    BY DEF Result
  <2>3. CASE ~NT!Allowed(nodes, set)
    <3>1. OneStep(Result(nodes, "ok"), Step) = Result(nodes, "err")
      BY <1>3, <2>2, <2>3 DEF OneStep, Result
    <3>2. Fails
      BY <2>3 DEF ImportSet
    <3> QED BY <1>3, <2>0, <3>1, <3>2, FailsForGood
  <2>4. CASE NT!Allowed(nodes, set)
    <3>1. OneStep(Result(nodes, "ok"), Step) = Result(NT!Effect(nodes, set), "ok")
      BY <1>3, <2>2, <2>4 DEF OneStep, Result
    <3>2. /\ IsNamespace(nodes') /\ U[done + 1] = Result(nodes', "ok")
          /\ done' = done + 1 /\ UNCHANGED <<plan, phase, answer, kills, before>>
      BY <1>5, <2>1, <2>4, <3>1 DEF Does
    <3> DEFINE u == nodes'
    <3>3. IsNamespace(u) /\ U[done + 1] = Result(u, "ok")
      BY <3>2
    <3> HIDE DEF u, U
    <3>4. ReachedBy(before, plan, u, done + 1, done + 1)
      BY <1>1, <1>3, <3>3, FurthestIsReached DEF U
    <3>5. done + 1 \in (done + 1)..Len(plan)
      BY <1>1, <1>3
    <3> QED BY <1>3, <3>2, <3>4, <3>5, GoesOn DEF u
  <2> QED BY <2>3, <2>4
<1> QED BY <1>6, <1>7

(* An error of the document comes only at the furthest. *)
LEMMA ImportFailsStep ==
    ASSUME Running, ImportFails
    PROVE  TypeOK' /\ ImportInv'
<1>1. /\ IsNamespace(nodes) /\ IsNamespace(before) /\ IsPlan(plan)
      /\ Len(plan) \in Nat /\ done \in 0..Len(plan)
  BY RunningFacts
<1>2. PICK m \in done..Len(plan) : ReachedBy(before, plan, nodes, done, m)
  BY RunningFacts
<1>3. done < Len(plan) /\ Step.step = "fail" /\ Fails
  BY DEF ImportFails, AtStep
<1>4. done = m
  <2> SUFFICES ASSUME done # m PROVE FALSE
    OBVIOUS
  <2>1. m \in 1..Len(plan) /\ done \in 0..(m - 1)
    BY <1>1, <1>2
  <2> QED BY <1>1, <1>2, <1>3, <2>1, BehindIsAllowed DEF Step
<1>5. OneStep(Result(nodes, "ok"), Step) = Result(nodes, "err")
  BY <1>3 DEF OneStep, Result
<1> QED BY <1>2, <1>3, <1>4, <1>5, FailsForGood

(* The import is at its end. *)
LEMMA ImportDoneStep ==
    ASSUME Running, ImportDone
    PROVE  TypeOK' /\ ImportInv'
<1>1. /\ IsNamespace(nodes) /\ IsNamespace(before) /\ IsPlan(plan)
      /\ Len(plan) \in Nat /\ done \in 0..Len(plan)
  BY RunningFacts
<1>2. PICK m \in done..Len(plan) : ReachedBy(before, plan, nodes, done, m)
  BY RunningFacts
<1>3. done = Len(plan) /\ m = Len(plan)
  BY <1>1, <1>2 DEF ImportDone
<1>4. Uninterrupted(before, plan)[Len(plan)] = Result(nodes, "ok")
  <2>1. ReachedBy(before, plan, nodes, Len(plan), Len(plan)) /\ Len(plan) \in 0..Len(plan)
    BY <1>1, <1>2, <1>3
  <2> QED BY <1>1, <2>1, AtTheFurthest
<1>5. TypeOK'
  BY <1>1 DEF ImportDone, Running, TypeOK
<1>6. nodes' = nodes /\ plan' = plan /\ before' = before /\ phase' = "answered" /\ answer' = "ok"
  BY DEF ImportDone
<1>7. RetryFinishesImport'
  BY <1>4, <1>6 DEF RetryFinishesImport, Result
<1> QED BY <1>5, <1>6, <1>7 DEF ImportInv

(* The process is killed: this run is forgotten, what it did is not. *)
LEMMA KillStep ==
    ASSUME Running, Kill
    PROVE  TypeOK' /\ ImportInv'
<1>1. /\ IsNamespace(nodes) /\ IsNamespace(before) /\ IsPlan(plan) /\ answer = "none"
      /\ Len(plan) \in Nat /\ done \in 0..Len(plan)
  BY RunningFacts
<1>2. PICK m \in done..Len(plan) : ReachedBy(before, plan, nodes, done, m)
  BY RunningFacts
<1>3. /\ nodes' = nodes /\ plan' = plan /\ before' = before /\ phase' = "waiting"
      /\ answer' = answer /\ done' = 0 /\ kills' = kills + 1 /\ kills < MaxKills
  BY DEF Kill
<1>4. TypeOK'
  <2>1. kills' \in 0..MaxKills
    BY <1>3, KillsAssumption DEF Running, TypeOK
  <2> QED BY <1>1, <1>3, <2>1 DEF TypeOK
<1>5. ReachedBy(before, plan, nodes, 0, m)
  <2>1. \A p : ~SetWithin(plan, 0, p)
    BY DEF SetWithin
  <2> QED BY <1>2, <2>1 DEF ReachedBy
<1>6. Reached(m)' /\ m \in (done..Len(plan))'
  BY <1>1, <1>2, <1>3, <1>5, ReachedIsNext
<1> QED BY <1>1, <1>3, <1>4, <1>6 DEF ImportInv, RetryFinishesImport

-----------------------------------------------------------------------------
(* An import that is yet to be run. *)
LEMMA InitImport == ImportInit => TypeOK /\ ImportInv
<1> SUFFICES ASSUME ImportInit PROVE TypeOK /\ ImportInv
  OBVIOUS
<1>1. IsNamespace(before) /\ IsPlan(plan) /\ nodes = before /\ done = 0 /\ Len(plan) \in Nat
  BY DEF ImportInit, IsPlan
<1>2. TypeOK
  BY <1>1, KillsAssumption DEF ImportInit, TypeOK
<1>3. Uninterrupted(before, plan)[0] = Result(before, "ok")
  BY <1>1, UninterruptedDef
<1>4. ReachedBy(before, plan, nodes, 0, 0)
  BY <1>1, <1>3, FurthestIsReached
<1>5. Reached(0) /\ 0 \in done..Len(plan)
  BY <1>1, <1>4, ReachedIs
<1> QED BY <1>2, <1>5 DEF ImportInit, ImportInv, RetryFinishesImport

(* The import is run, for the first time or again. *)
LEMMA ImportStep ==
    ASSUME TypeOK, ImportInv, Import
    PROVE  TypeOK' /\ ImportInv'
<1>1. /\ nodes' = nodes /\ plan' = plan /\ before' = before /\ phase = "waiting"
      /\ phase' = "importing" /\ answer' = answer /\ done' = 0 /\ kills' = kills
  BY DEF Import
<1>2. Len(plan) \in Nat /\ done \in 0..Len(plan) /\ IsNamespace(nodes)
  BY DEF TypeOK, IsPlan
<1>3. TypeOK'
  BY <1>1, <1>2 DEF TypeOK
<1>4. answer = "none" /\ \E m \in done..Len(plan) : ReachedBy(before, plan, nodes, done, m)
  BY <1>1, ReachedIs DEF ImportInv
<1>5. PICK m \in done..Len(plan) : ReachedBy(before, plan, nodes, done, m)
  BY <1>4
<1>6. ReachedBy(before, plan, nodes, 0, m)
  <2>1. \A p : ~SetWithin(plan, 0, p)
    BY DEF SetWithin
  <2> QED BY <1>5, <2>1 DEF ReachedBy
<1>7. Reached(m)' /\ m \in (done..Len(plan))'
  BY <1>1, <1>2, <1>5, <1>6, ReachedIsNext
<1> QED BY <1>1, <1>3, <1>4, <1>7 DEF ImportInv, RetryFinishesImport

(* Every step keeps the invariant. *)
LEMMA NextImport == (TypeOK /\ ImportInv) /\ [ImportNext]_importVars => (TypeOK /\ ImportInv)'
<1> SUFFICES ASSUME TypeOK, ImportInv, [ImportNext]_importVars PROVE TypeOK' /\ ImportInv'
  OBVIOUS
<1>1. CASE UNCHANGED importVars
  <2>1. TypeOK'
    BY <1>1 DEF importVars, TypeOK
  <2>2. \A m : Reached(m)' <=> Reached(m)
    BY <1>1, ReachedIs, ReachedIsNext DEF importVars
  <2>3. ImportInv'
    BY <1>1, <2>2 DEF importVars, ImportInv, RetryFinishesImport
  <2> QED BY <2>1, <2>3
<1>2. CASE Import
  BY <1>2, ImportStep
<1>3. CASE ImportDir
  BY <1>3, ImportDirStep DEF Running, ImportDir, AtStep
<1>4. CASE ImportSet
  BY <1>4, ImportSetStep DEF Running, ImportSet, AtStep
<1>5. CASE ImportFails
  BY <1>5, ImportFailsStep DEF Running, ImportFails, AtStep
<1>6. CASE ImportDone
  BY <1>6, ImportDoneStep DEF Running, ImportDone
<1>7. CASE Kill
  BY <1>7, KillStep DEF Running, Kill
<1> QED BY <1>1, <1>2, <1>3, <1>4, <1>5, <1>6, <1>7 DEF ImportNext

(* Wherever an import is killed, what it leaves is as far as an              *)
(* uninterrupted one would have come, but for values that are set again.     *)
THEOREM ImportInvHolds == ImportSpec => []ImportInv
BY InitImport, NextImport, PTL DEF ImportSpec

(* No import makes a namespace that is not a tree, whatever its document     *)
(* says and wherever it is killed.                                           *)
THEOREM ImportTypeCorrect == ImportSpec => []TypeOK
BY InitImport, NextImport, PTL DEF ImportSpec

(* An import that is killed any number of times, after any of its commits,   *)
(* and run again ends with the namespace and the answer of one that was not. *)
THEOREM RetryHolds == ImportSpec => []RetryFinishesImport
<1>1. ImportInv => RetryFinishesImport
  BY DEF ImportInv
<1> QED BY <1>1, ImportInvHolds, PTL
=============================================================================
