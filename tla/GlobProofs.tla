----------------------------- MODULE GlobProofs -----------------------------
(***************************************************************************)
(* The recursive search of a glob finds a match exactly when there is one:  *)
(* glob_rec decides Matches for every pattern and text, match_segments      *)
(* decides PathMatches for every pattern and path. Both searches are one    *)
(* search for a route through a graph of places, G: the triple <<i, a, b>>  *)
(* is in G when the i-th item of the pattern can stand for what lies        *)
(* between the places a and b.                                              *)
(***************************************************************************)
EXTENDS Glob, MaxProofs

(* The places from which the last n of k items lead to the end, N, when S    *)
(* are the ones from which the last n - 1 do.                                *)
Places(k, N, G, n, S) ==
    IF n = 0 THEN {N}
    ELSE {j \in 0..N : \E i \in 0..N : <<k - n + 1, j, i>> \in G /\ i \in S}

(* f is the table that the search fills in, up to its m-th row. *)
IsTable(k, N, G, f, m) ==
    f = [n \in 0..m |-> Places(k, N, G, n, f[n - 1])]

(* c leads from the place j to the end in the last n steps of k. *)
Leads(k, N, G, c, n, j) ==
    /\ c \in [0..k -> 0..N] /\ c[k] = N /\ c[k - n] = j
    /\ \A i \in (k - n + 1)..k : <<i, c[i - 1], c[i]>> \in G

(* There is a table: each row comes from the one before. *)
LEMMA TableExists ==
    ASSUME NEW k, NEW N, NEW G, NEW m \in Nat
    PROVE  \E f : IsTable(k, N, G, f, m)
<1> DEFINE Bad == {n \in Nat : ~\E f : IsTable(k, N, G, f, n)}
<1>1. SUFFICES ASSUME Bad # {} PROVE FALSE
  OBVIOUS
<1>2. PICK n \in Bad : \A l \in Bad : n <= l
  BY <1>1, MinExists
<1>3. CASE n = 0
  <2> DEFINE f == [l \in 0..0 |-> {N}]
  <2>1. \A l \in 0..0 : l = 0
    OBVIOUS
  <2>2. IsTable(k, N, G, f, 0)
    BY <2>1 DEF IsTable, Places
  <2> QED BY <2>2, <1>2, <1>3
<1>4. CASE n # 0
  <2>1. n - 1 \in Nat /\ n - 1 \notin Bad /\ n \in Nat
    BY <1>2, <1>4
  <2>2. PICK f : IsTable(k, N, G, f, n - 1)
    BY <2>1
  <2> DEFINE g == [l \in 0..n |-> IF l = n THEN Places(k, N, G, n, f[n - 1]) ELSE f[l]]
  <2>3. \A l \in 0..(n - 1) : f[l] = Places(k, N, G, l, f[l - 1])
    BY <2>2 DEF IsTable
  <2>4. \A l \in 0..n : l # 0 => l - 1 \in 0..n /\ g[l - 1] = f[l - 1]
    BY <2>1
  <2>5. \A l \in 0..n : g[l] = Places(k, N, G, l, f[l - 1])
    BY <2>1, <2>3
  <2>6. \A l \in 0..n : g[l] = Places(k, N, G, l, g[l - 1])
    <3> SUFFICES ASSUME NEW l \in 0..n PROVE g[l] = Places(k, N, G, l, g[l - 1])
      OBVIOUS
    <3>1. CASE l = 0
      <4>1. Places(k, N, G, l, f[l - 1]) = {N} /\ Places(k, N, G, l, g[l - 1]) = {N}
        <5> HIDE DEF g
        <5> QED BY <3>1 DEF Places
      <4> HIDE DEF g
      <4> QED BY <4>1, <2>5
    <3>2. CASE l # 0
      <4>1. g[l - 1] = f[l - 1]
        BY <2>4, <3>2
      <4> HIDE DEF g
      <4> QED BY <4>1, <2>5
    <3> QED BY <3>1, <3>2
  <2>7. g = [l \in 0..n |-> g[l]]
    OBVIOUS
  <2>8. IsTable(k, N, G, g, n)
    <3> HIDE DEF g
    <3> QED BY <2>6, <2>7 DEF IsTable
  <2> QED BY <2>8, <1>2
<1> QED BY <1>3, <1>4

(* One step more at the front of a route. *)
LEMMA LeadsFurther ==
    ASSUME NEW k \in Nat, NEW N \in Nat, NEW G, NEW n \in 1..k, NEW j \in 0..N,
           NEW i \in 0..N, <<k - n + 1, j, i>> \in G, NEW c, Leads(k, N, G, c, n - 1, i)
    PROVE  Leads(k, N, G, [c EXCEPT ![k - n] = j], n, j)
<1> DEFINE d == [c EXCEPT ![k - n] = j]
<1>1. k - n \in 0..k /\ k - n # k /\ k - (n - 1) = k - n + 1 /\ k - n \in Int
  OBVIOUS
<1>2. c \in [0..k -> 0..N] /\ c[k] = N /\ c[k - n + 1] = i
  BY <1>1 DEF Leads
<1>3. \A x \in (k - n + 2)..k : <<x, c[x - 1], c[x]>> \in G
  BY <1>1 DEF Leads
<1>4. d \in [0..k -> 0..N] /\ d[k - n] = j
  BY <1>1, <1>2
<1>5. \A x \in 0..k : x # k - n => d[x] = c[x]
  BY <1>2
<1> HIDE DEF d
<1>6. d[k] = N
  BY <1>1, <1>2, <1>5
<1>7. \A x \in (k - n + 1)..k : <<x, d[x - 1], d[x]>> \in G
  <2> SUFFICES ASSUME NEW x \in (k - n + 1)..k PROVE <<x, d[x - 1], d[x]>> \in G
    OBVIOUS
  <2>1. CASE x = k - n + 1
    <3>1. x - 1 = k - n /\ x \in 0..k /\ x # k - n
      BY <2>1
    <3>2. d[x - 1] = j /\ d[x] = i
      BY <3>1, <1>2, <1>4, <1>5, <2>1
    <3> QED BY <3>2, <2>1
  <2>2. CASE x # k - n + 1
    <3>1. x \in (k - n + 2)..k /\ x \in 0..k /\ x - 1 \in 0..k /\ x # k - n /\ x - 1 # k - n
      BY <2>2
    <3>2. d[x - 1] = c[x - 1] /\ d[x] = c[x]
      BY <3>1, <1>5
    <3> QED BY <3>1, <3>2, <1>3
  <2> QED BY <2>1, <2>2
<1>8. Leads(k, N, G, d, n, j)
  BY <1>4, <1>6, <1>7 DEF Leads
<1> QED BY <1>8 DEF d

(* One step less. *)
LEMMA LeadsAfter ==
    ASSUME NEW k \in Nat, NEW N \in Nat, NEW G, NEW n \in 1..k, NEW j,
           NEW c, Leads(k, N, G, c, n, j)
    PROVE  /\ Leads(k, N, G, c, n - 1, c[k - n + 1])
           /\ c[k - n + 1] \in 0..N /\ <<k - n + 1, j, c[k - n + 1]>> \in G /\ j \in 0..N
<1>1. /\ k - n \in 0..k /\ k - (n - 1) = k - n + 1 /\ k - n + 1 \in (k - n + 1)..k
      /\ k - n + 1 \in 0..k /\ (k - n + 1) - 1 = k - n
  OBVIOUS
<1>2. /\ c \in [0..k -> 0..N] /\ c[k] = N /\ c[k - n] = j
      /\ \A i \in (k - n + 1)..k : <<i, c[i - 1], c[i]>> \in G
  BY DEF Leads
<1>3. <<k - n + 1, c[k - n], c[k - n + 1]>> \in G
  BY <1>1, <1>2
<1>4. \A i \in (k - (n - 1) + 1)..k : i \in (k - n + 1)..k
  OBVIOUS
<1>5. Leads(k, N, G, c, n - 1, c[k - n + 1])
  BY <1>1, <1>2, <1>4 DEF Leads
<1> QED BY <1>1, <1>2, <1>3, <1>5

(* A row of the table holds the places from which a route leads to the end. *)
LEMMA TableFindsRoutes ==
    ASSUME NEW k \in Nat, NEW N \in Nat, NEW G, NEW f, IsTable(k, N, G, f, k)
    PROVE  \A n \in 0..k : \A j : j \in f[n] <=> \E c : Leads(k, N, G, c, n, j)
<1> DEFINE Right(n) == \A j : j \in f[n] <=> \E c : Leads(k, N, G, c, n, j)
           Bad == {n \in 0..k : ~Right(n)}
<1>0. \A n \in 0..k : f[n] = Places(k, N, G, n, f[n - 1])
  BY DEF IsTable
<1>1. SUFFICES ASSUME Bad # {} PROVE FALSE
  OBVIOUS
<1>2. PICK n \in Bad : \A l \in Bad : n <= l
  <2>1. Bad \subseteq Nat
    OBVIOUS
  <2> HIDE DEF Bad
  <2> QED BY <1>1, <2>1, MinExists
<1>3. CASE n = 0
  <2>1. f[0] = {N}
    <3>1. 0 \in 0..k
      OBVIOUS
    <3>2. f[0] = Places(k, N, G, 0, f[0 - 1])
      BY <3>1, <1>0
    <3> QED BY <3>2 DEF Places
  <2>2. ASSUME NEW j, NEW c, Leads(k, N, G, c, 0, j) PROVE j = N
    BY <2>2 DEF Leads
  <2> DEFINE e == [x \in 0..k |-> N]
  <2>3. Leads(k, N, G, e, 0, N)
    BY DEF Leads
  <2>4. Right(0)
    <3> HIDE DEF e
    <3> QED BY <2>1, <2>2, <2>3
  <2> QED BY <2>4, <1>2, <1>3
<1>4. CASE n # 0
  <2>1. n \in 1..k /\ n - 1 \in 0..k /\ n - 1 \notin Bad
    BY <1>2, <1>4
  <2>2. Right(n - 1)
    BY <2>1
  <2>3. f[n] = {j \in 0..N : \E i \in 0..N : <<k - n + 1, j, i>> \in G /\ i \in f[n - 1]}
    BY <1>0, <2>1, <1>4 DEF Places
  <2>4. ASSUME NEW j, j \in f[n] PROVE \E c : Leads(k, N, G, c, n, j)
    <3>1. j \in 0..N
      BY <2>3, <2>4
    <3>2. PICK i \in 0..N : <<k - n + 1, j, i>> \in G /\ i \in f[n - 1]
      BY <2>3, <2>4
    <3>3. PICK c : Leads(k, N, G, c, n - 1, i)
      BY <3>2, <2>2
    <3>4. Leads(k, N, G, [c EXCEPT ![k - n] = j], n, j)
      BY <2>1, <3>1, <3>2, <3>3, LeadsFurther
    <3> QED BY <3>4
  <2>5. ASSUME NEW j, NEW c, Leads(k, N, G, c, n, j) PROVE j \in f[n]
    <3>1. /\ Leads(k, N, G, c, n - 1, c[k - n + 1])
          /\ c[k - n + 1] \in 0..N /\ <<k - n + 1, j, c[k - n + 1]>> \in G /\ j \in 0..N
      BY <2>1, <2>5, LeadsAfter
    <3>2. c[k - n + 1] \in f[n - 1]
      BY <3>1, <2>2
    <3> QED BY <3>1, <3>2, <2>3
  <2>6. Right(n)
    BY <2>4, <2>5
  <2> QED BY <2>6, <1>2
<1> QED BY <1>3, <1>4

(* The whole search: the first place is in the last row exactly when there   *)
(* is a cut whose pieces the items stand for, one by one.                    *)
LEMMA SearchFindsCuts ==
    ASSUME NEW k \in Nat, NEW N \in Nat, NEW G, NEW f, IsTable(k, N, G, f, k),
           \A x \in G : x[2] <= x[3]
    PROVE  0 \in f[k] <=> \E c \in Cuts(N, k) : \A i \in 1..k : <<i, c[i - 1], c[i]>> \in G
<1>1. 0 \in f[k] <=> \E c : Leads(k, N, G, c, k, 0)
  <2>1. k \in 0..k
    OBVIOUS
  <2> QED BY <2>1, TableFindsRoutes
<1>2. k - k = 0 /\ k - k + 1 = 1
  OBVIOUS
<1>3. ASSUME NEW c, Leads(k, N, G, c, k, 0)
      PROVE  c \in Cuts(N, k) /\ \A i \in 1..k : <<i, c[i - 1], c[i]>> \in G
  <2>1. /\ c \in [0..k -> 0..N] /\ c[k] = N /\ c[0] = 0
        /\ \A i \in 1..k : <<i, c[i - 1], c[i]>> \in G
    BY <1>2, <1>3 DEF Leads
  <2>2. \A i \in 1..k : c[i - 1] <= c[i]
    BY <2>1
  <2> QED BY <2>1, <2>2 DEF Cuts
<1>4. ASSUME NEW c \in Cuts(N, k), \A i \in 1..k : <<i, c[i - 1], c[i]>> \in G
      PROVE  Leads(k, N, G, c, k, 0)
  BY <1>2, <1>4 DEF Leads, Cuts
<1> QED BY <1>1, <1>3, <1>4
-----------------------------------------------------------------------------
(* The graph of a glob over a text, and of a pattern over a path. *)
GlobGraph(p, t) ==
    {x \in (1..Len(p)) \X (0..Len(t)) \X (0..Len(t)) :
        /\ x[2] <= x[3]
        /\ p[x[1]] = "*" \/ (x[3] = x[2] + 1 /\ p[x[1]] \in {"?", t[x[3]]})}

SegmentGraph(pat, path) ==
    {x \in (1..Len(pat)) \X (0..Len(path)) \X (0..Len(path)) :
        /\ x[2] <= x[3]
        /\ pat[x[1]] = ANY_DEPTH \/ (x[3] = x[2] + 1 /\ glob_rec(pat[x[1]], path[x[3]]))}

(* What glob_rec does for the last n characters, S the places of n - 1. *)
GlobPlaces(p, t, n, S) ==
    {j \in 0..Len(t) :
        IF n = 0 THEN j = Len(t)
        ELSE LET c == p[Len(p) - n + 1] IN
             CASE c = "*" -> \E i \in j..Len(t) : i \in S
               [] c = "?" -> j < Len(t) /\ j + 1 \in S
               [] OTHER   -> j < Len(t) /\ t[j + 1] = c /\ j + 1 \in S}

(* What match_segments does for the last n segments. *)
SegmentPlaces(pat, path, n, S) ==
    {j \in 0..Len(path) :
        IF n = 0 THEN j = Len(path)
        ELSE LET s == pat[Len(pat) - n + 1] IN
             IF s = ANY_DEPTH
             THEN n = 1 \/ \E i \in j..Len(path) : i \in S
             ELSE j < Len(path) /\ glob_rec(s, path[j + 1]) /\ j + 1 \in S}

(* A step of glob_rec is a step through the graph of the glob. *)
LEMMA GlobPlacesAreSteps ==
    ASSUME NEW p, NEW t, Len(p) \in Nat, Len(t) \in Nat, NEW n \in 0..Len(p), NEW S
    PROVE  GlobPlaces(p, t, n, S) = Places(Len(p), Len(t), GlobGraph(p, t), n, S)
<1> DEFINE k == Len(p)
           N == Len(t)
           G == GlobGraph(p, t)
<1>0. k \in Nat /\ N \in Nat
  OBVIOUS
<1>1. CASE n = 0
  BY <1>1 DEF GlobPlaces, Places
<1>2. CASE n # 0
  <2> DEFINE c == p[k - n + 1]
  <2>0. k - n + 1 \in 1..k
    BY <1>0, <1>2
  <2>1. \A j \in 0..N : \A i \in 0..N :
            <<k - n + 1, j, i>> \in G <=> j <= i /\ (c = "*" \/ (i = j + 1 /\ c \in {"?", t[i]}))
    BY <2>0 DEF GlobGraph
  <2>2. \A j : j \in GlobPlaces(p, t, n, S) <=>
            /\ j \in 0..N
            /\ CASE c = "*" -> \E i \in j..N : i \in S
                 [] c = "?" -> j < N /\ j + 1 \in S
                 [] OTHER   -> j < N /\ t[j + 1] = c /\ j + 1 \in S
    BY <1>2 DEF GlobPlaces
  <2>3. \A j : j \in Places(k, N, G, n, S) <=>
            j \in 0..N /\ \E i \in 0..N : <<k - n + 1, j, i>> \in G /\ i \in S
    BY <1>2 DEF Places
  <2> HIDE DEF k, N, G, c
  <2>4. ASSUME NEW j \in 0..N
        PROVE  j \in GlobPlaces(p, t, n, S) <=> j \in Places(k, N, G, n, S)
    <3>1. CASE c = "*"
      <4>1. j \in GlobPlaces(p, t, n, S) <=> \E i \in j..N : i \in S
        BY <2>2, <3>1
      <4>2. j \in Places(k, N, G, n, S) <=> \E i \in 0..N : j <= i /\ i \in S
        BY <2>1, <2>3, <3>1
      <4> QED BY <1>0, <4>1, <4>2
    <3>2. CASE c = "?"
      <4>1. j \in GlobPlaces(p, t, n, S) <=> j < N /\ j + 1 \in S
        BY <2>2, <3>2
      <4>2. j \in Places(k, N, G, n, S) <=> \E i \in 0..N : j <= i /\ i = j + 1 /\ i \in S
        BY <2>1, <2>3, <3>2
      <4> QED BY <1>0, <4>1, <4>2
    <3>3. CASE c # "*" /\ c # "?"
      <4>1. j \in GlobPlaces(p, t, n, S) <=> j < N /\ t[j + 1] = c /\ j + 1 \in S
        BY <2>2, <3>3
      <4>2. j \in Places(k, N, G, n, S) <=>
                \E i \in 0..N : j <= i /\ i = j + 1 /\ c = t[i] /\ i \in S
        BY <2>1, <2>3, <3>3
      <4> QED BY <1>0, <4>1, <4>2
    <3> QED BY <3>1, <3>2, <3>3
  <2>5. GlobPlaces(p, t, n, S) = Places(k, N, G, n, S)
    BY <2>2, <2>3, <2>4
  <2> QED BY <2>5 DEF k, N, G
<1> QED BY <1>1, <1>2

(* The table glob_rec fills in is the table of its graph. *)
LEMMA GlobFromIsTable ==
    ASSUME NEW p, NEW t, Len(p) \in Nat, Len(t) \in Nat
    PROVE  IsTable(Len(p), Len(t), GlobGraph(p, t), GlobFrom(p, t), Len(p))
<1> DEFINE Is(f) == f = [n \in 0..Len(p) |-> GlobPlaces(p, t, n, f[n - 1])]
<1>1. \A f : IsTable(Len(p), Len(t), GlobGraph(p, t), f, Len(p)) <=> Is(f)
  BY GlobPlacesAreSteps DEF IsTable
<1>2. \E f : Is(f)
  <2>1. PICK f : IsTable(Len(p), Len(t), GlobGraph(p, t), f, Len(p))
    BY TableExists
  <2> QED BY <1>1, <2>1
<1>3. GlobFrom(p, t) = CHOOSE f : Is(f)
  BY DEF GlobFrom, GlobPlaces
<1> HIDE DEF Is
<1>4. Is(GlobFrom(p, t))
  BY <1>2, <1>3
<1> QED BY <1>1, <1>4

(* glob_rec (eval.rs) accepts a text for a glob exactly when the text can be *)
(* cut into pieces that the characters of the glob stand for, whatever the   *)
(* glob and the text: the backtracking at a star misses no match and         *)
(* invents none.                                                             *)
THEOREM GlobRecIsMatching ==
    ASSUME NEW p, NEW t, Len(p) \in Nat, Len(t) \in Nat
    PROVE  glob_rec(p, t) <=> Matches(p, t)
<1> DEFINE G == GlobGraph(p, t)
<1>1. \A x \in G : x[2] <= x[3]
  BY DEF GlobGraph
<1>2. glob_rec(p, t) <=>
          \E c \in Cuts(Len(t), Len(p)) : \A i \in 1..Len(p) : <<i, c[i - 1], c[i]>> \in G
  BY <1>1, GlobFromIsTable, SearchFindsCuts DEF glob_rec
<1>3. ASSUME NEW c \in Cuts(Len(t), Len(p)), NEW i \in 1..Len(p)
      PROVE  <<i, c[i - 1], c[i]>> \in G <=>
                 p[i] = "*" \/ (c[i] = c[i - 1] + 1 /\ p[i] \in {"?", t[c[i]]})
  <2>1. i - 1 \in 0..Len(p) /\ i \in 0..Len(p)
    OBVIOUS
  <2>2. c[i - 1] \in 0..Len(t) /\ c[i] \in 0..Len(t) /\ c[i - 1] <= c[i]
    BY <2>1 DEF Cuts
  <2> QED BY <2>2 DEF GlobGraph
<1> HIDE DEF G
<1> QED BY <1>2, <1>3 DEF Matches

-----------------------------------------------------------------------------
(* A step of match_segments is a step through the graph of the pattern; a    *)
(* last ** may stop at once, for the end is among the places of no segment.  *)
LEMMA SegmentPlacesAreSteps ==
    ASSUME NEW pat, NEW path, Len(pat) \in Nat, Len(path) \in Nat,
           NEW n \in 0..Len(pat), NEW S, n = 1 => S = {Len(path)}
    PROVE  SegmentPlaces(pat, path, n, S) =
               Places(Len(pat), Len(path), SegmentGraph(pat, path), n, S)
<1> DEFINE k == Len(pat)
           N == Len(path)
           G == SegmentGraph(pat, path)
<1>0. k \in Nat /\ N \in Nat /\ (n = 1 => S = {N})
  OBVIOUS
<1>1. CASE n = 0
  BY <1>1 DEF SegmentPlaces, Places
<1>2. CASE n # 0
  <2> DEFINE s == pat[k - n + 1]
  <2>0. k - n + 1 \in 1..k
    BY <1>0, <1>2
  <2>1. \A j \in 0..N : \A i \in 0..N :
            <<k - n + 1, j, i>> \in G <=>
                j <= i /\ (s = ANY_DEPTH \/ (i = j + 1 /\ glob_rec(s, path[i])))
    BY <2>0 DEF SegmentGraph
  <2>2. \A j : j \in SegmentPlaces(pat, path, n, S) <=>
            /\ j \in 0..N
            /\ IF s = ANY_DEPTH
               THEN n = 1 \/ \E i \in j..N : i \in S
               ELSE j < N /\ glob_rec(s, path[j + 1]) /\ j + 1 \in S
    BY <1>2 DEF SegmentPlaces
  <2>3. \A j : j \in Places(k, N, G, n, S) <=>
            j \in 0..N /\ \E i \in 0..N : <<k - n + 1, j, i>> \in G /\ i \in S
    BY <1>2 DEF Places
  <2> HIDE DEF k, N, G, s
  <2>4. ASSUME NEW j \in 0..N
        PROVE  j \in SegmentPlaces(pat, path, n, S) <=> j \in Places(k, N, G, n, S)
    <3>1. CASE s = ANY_DEPTH
      <4>1. j \in SegmentPlaces(pat, path, n, S) <=> n = 1 \/ \E i \in j..N : i \in S
        BY <2>2, <3>1
      <4>2. j \in Places(k, N, G, n, S) <=> \E i \in 0..N : j <= i /\ i \in S
        BY <2>1, <2>3, <3>1
      <4>3. n = 1 => \E i \in j..N : i \in S
        BY <1>0
      <4> QED BY <1>0, <4>1, <4>2, <4>3
    <3>2. CASE s # ANY_DEPTH
      <4>1. j \in SegmentPlaces(pat, path, n, S) <=>
                j < N /\ glob_rec(s, path[j + 1]) /\ j + 1 \in S
        BY <2>2, <3>2
      <4>2. j \in Places(k, N, G, n, S) <=>
                \E i \in 0..N : j <= i /\ i = j + 1 /\ glob_rec(s, path[i]) /\ i \in S
        BY <2>1, <2>3, <3>2
      <4> QED BY <1>0, <4>1, <4>2
    <3> QED BY <3>1, <3>2
  <2>5. SegmentPlaces(pat, path, n, S) = Places(k, N, G, n, S)
    BY <2>2, <2>3, <2>4
  <2> QED BY <2>5 DEF k, N, G
<1> QED BY <1>1, <1>2

(* The table match_segments fills in is the table of its graph. *)
LEMMA SegmentsFromIsTable ==
    ASSUME NEW pat, NEW path, Len(pat) \in Nat, Len(path) \in Nat
    PROVE  IsTable(Len(pat), Len(path), SegmentGraph(pat, path), SegmentsFrom(pat, path), Len(pat))
<1> DEFINE k == Len(pat)
           N == Len(path)
           G == SegmentGraph(pat, path)
           Is(f) == f = [n \in 0..k |-> SegmentPlaces(pat, path, n, f[n - 1])]
<1>1. ASSUME NEW f, f = [n \in 0..k |-> f[n]], f[0] = {N}
      PROVE  IsTable(k, N, G, f, k) <=> Is(f)
  <2>1. \A n \in 0..k : n = 1 => f[n - 1] = {N}
    BY <1>1
  <2>2. \A n \in 0..k : SegmentPlaces(pat, path, n, f[n - 1]) = Places(k, N, G, n, f[n - 1])
    BY <2>1, SegmentPlacesAreSteps
  <2> QED BY <2>2 DEF IsTable
<1>2. ASSUME NEW f, IsTable(k, N, G, f, k) \/ Is(f)
      PROVE  f = [n \in 0..k |-> f[n]] /\ f[0] = {N}
  <2>1. 0 \in 0..k
    OBVIOUS
  <2>2. CASE IsTable(k, N, G, f, k)
    <3>1. f[0] = Places(k, N, G, 0, f[0 - 1]) /\ f = [n \in 0..k |-> f[n]]
      BY <2>1, <2>2 DEF IsTable
    <3> QED BY <3>1 DEF Places
  <2>3. CASE Is(f)
    <3>1. f[0] = SegmentPlaces(pat, path, 0, f[0 - 1]) /\ f = [n \in 0..k |-> f[n]]
      BY <2>1, <2>3
    <3> QED BY <3>1 DEF SegmentPlaces
  <2> QED BY <1>2, <2>2, <2>3
<1>3. \E f : Is(f)
  <2>1. PICK f : IsTable(k, N, G, f, k)
    BY TableExists
  <2> HIDE DEF Is
  <2> QED BY <1>1, <1>2, <2>1
<1>4. SegmentsFrom(pat, path) = CHOOSE f : Is(f)
  BY DEF SegmentsFrom, SegmentPlaces
<1> HIDE DEF Is
<1>5. Is(SegmentsFrom(pat, path))
  BY <1>3, <1>4
<1> HIDE DEF k, N, G
<1>6. IsTable(k, N, G, SegmentsFrom(pat, path), k)
  BY <1>1, <1>2, <1>5
<1> QED BY <1>6 DEF k, N, G

(* match_segments (eval.rs) accepts a path for a pattern exactly when the    *)
(* path can be cut into pieces that the segments of the pattern stand for,   *)
(* ** for any number of names and any other segment for one name its glob    *)
(* matches, whatever the pattern and the path. The early return at a last    *)
(* ** changes nothing.                                                       *)
THEOREM MatchSegmentsIsMatching ==
    ASSUME NEW pat, NEW path, Len(pat) \in Nat, Len(path) \in Nat,
           \A i \in 1..Len(pat) : Len(pat[i]) \in Nat,
           \A i \in 1..Len(path) : Len(path[i]) \in Nat
    PROVE  match_segments(pat, path) <=> PathMatches(pat, path)
<1> DEFINE G == SegmentGraph(pat, path)
<1>1. \A x \in G : x[2] <= x[3]
  BY DEF SegmentGraph
<1>2. match_segments(pat, path) <=>
          \E c \in Cuts(Len(path), Len(pat)) : \A i \in 1..Len(pat) : <<i, c[i - 1], c[i]>> \in G
  BY <1>1, SegmentsFromIsTable, SearchFindsCuts DEF match_segments
<1>3. ASSUME NEW c \in Cuts(Len(path), Len(pat)), NEW i \in 1..Len(pat)
      PROVE  <<i, c[i - 1], c[i]>> \in G <=>
                 pat[i] = ANY_DEPTH \/ (c[i] = c[i - 1] + 1 /\ Matches(pat[i], path[c[i]]))
  <2>1. i - 1 \in 0..Len(pat) /\ i \in 0..Len(pat)
    OBVIOUS
  <2>2. c[i - 1] \in 0..Len(path) /\ c[i] \in 0..Len(path) /\ c[i - 1] <= c[i]
    BY <2>1 DEF Cuts
  <2>3. <<i, c[i - 1], c[i]>> \in G <=>
            pat[i] = ANY_DEPTH \/ (c[i] = c[i - 1] + 1 /\ glob_rec(pat[i], path[c[i]]))
    BY <2>2 DEF SegmentGraph
  <2>4. c[i] = c[i - 1] + 1 => (glob_rec(pat[i], path[c[i]]) <=> Matches(pat[i], path[c[i]]))
    <3>1. c[i] = c[i - 1] + 1 => c[i] \in 1..Len(path)
      BY <2>2
    <3> QED BY <3>1, GlobRecIsMatching
  <2> QED BY <2>3, <2>4
<1> HIDE DEF G
<1> QED BY <1>2, <1>3 DEF PathMatches
=============================================================================
