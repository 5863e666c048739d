---------------------------- MODULE FuseFsProofs ----------------------------
(***************************************************************************)
(* The mounted file system, for every namespace of well-formed values,      *)
(* every other client of the daemon and any number of files, names and      *)
(* writes, whichever commits fail: inode numbers stay with their paths,     *)
(* buffers hold what was written, and a flush or fsync commits just that.   *)
(* The namespace stays one, the handlers agree on what there is, and what   *)
(* unlink removes is what lookup shows.                                     *)
(***************************************************************************)
EXTENDS FuseFs, MaxProofs, FunctionTheorems, FiniteSetTheorems, SequenceTheorems

-----------------------------------------------------------------------------
(* Paths *)

(* Whatever its segments are, a sequence is one. *)
LEMMA SequenceType ==
    ASSUME NEW S, NEW p \in Seq(S)
    PROVE  IsSequence(p)
<1>1. p \in [1..Len(p) -> {p[i] : i \in DOMAIN p}] /\ Len(p) \in Nat
  OBVIOUS
<1> QED BY <1>1, SeqDef DEF IsSequence

(* A path below another one is not the root. *)
LEMMA ChildType ==
    ASSUME NEW p, IsSequence(p), NEW name
    PROVE  IsSequence(Append(p, name)) /\ Append(p, name) # <<>>
<1> DEFINE S == {p[i] : i \in DOMAIN p} \cup {name}
<1>1. p \in Seq(S) /\ name \in S
  <2>1. p \in Seq({p[i] : i \in DOMAIN p})
    BY DEF IsSequence
  <2> QED BY <2>1, SeqMonotonic
<1> HIDE DEF S
<1>2. Append(p, name) \in Seq(S) /\ Len(Append(p, name)) = Len(p) + 1 /\ Len(p) \in Nat
  BY <1>1
<1>3. IsSequence(Append(p, name))
  BY <1>2, SequenceType
<1>4. Append(p, name) # <<>>
  BY <1>2
<1> QED BY <1>3, <1>4

-----------------------------------------------------------------------------
(* Numbering *)

(* The paths of a finite set can be given distinct numbers from next on. *)
LEMMA NumberingExists ==
    ASSUME NEW fresh, IsFiniteSet(fresh), NEW next \in Nat
    PROVE  /\ Cardinality(fresh) \in Nat
           /\ \E num \in [fresh -> next..(next + Cardinality(fresh) - 1)] :
                 \A p, q \in fresh : num[p] = num[q] => p = q
<1>1. PICK c \in Nat : ExistsBijection(1..c, fresh)
  BY FS_NatBijection
<1>2. Cardinality(fresh) = c
  BY <1>1, FS_CountingElements
<1>3. ExistsBijection(fresh, 1..c)
  BY <1>1, Fun_ExistsBijSymmetric
<1>4. PICK f \in Bijection(fresh, 1..c) : TRUE
  BY <1>3 DEF ExistsBijection
<1>5. f \in [fresh -> 1..c] /\ \A p, q \in fresh : f[p] = f[q] => p = q
  BY <1>4 DEF Bijection, Injection, IsInjective
<1> DEFINE num == [p \in fresh |-> next + f[p] - 1]
<1>6. num \in [fresh -> next..(next + c - 1)]
  BY <1>5
<1>7. \A p, q \in fresh : num[p] = num[q] => p = q
  BY <1>5
<1> QED BY <1>2, <1>6, <1>7

(* So Numbering gives them. *)
LEMMA NumberingType ==
    ASSUME NEW fresh, IsFiniteSet(fresh), next_ino \in Nat
    PROVE  /\ Cardinality(fresh) \in Nat
           /\ \A p \in fresh : Numbering(fresh)[p] \in next_ino..(next_ino + Cardinality(fresh) - 1)
           /\ \A p, q \in fresh : Numbering(fresh)[p] = Numbering(fresh)[q] => p = q
<1> DEFINE Good(num) == \A p, q \in fresh : num[p] = num[q] => p = q
           N == [fresh -> next_ino..(next_ino + Cardinality(fresh) - 1)]
<1>1. Cardinality(fresh) \in Nat /\ \E num \in N : Good(num)
  BY NumberingExists
<1>2. Numbering(fresh) = CHOOSE num \in N : Good(num)
  BY DEF Numbering
<1> HIDE DEF Good
<1>3. Numbering(fresh) \in N /\ Good(Numbering(fresh))
  BY <1>1, <1>2
<1> QED BY <1>1, <1>3 DEF Good

(* What giving numbers to paths does to the tables. *)
LEMMA NumbersStep ==
    ASSUME TypeOK, InodesNameOnePath, NEW paths, ino_for_path(paths),
           \A p \in paths : IsSequence(p)
    PROVE  /\ InodesNameOnePath'
           /\ DOMAIN ino_to_path \subseteq DOMAIN ino_to_path'
           /\ DOMAIN ino_to_path' \subseteq Inos
           /\ \A n \in DOMAIN ino_to_path' : IsSequence(ino_to_path'[n])
           /\ next_ino' \in Inos \cup {MaxIno + 1}
           /\ \A p \in paths : path_to_ino'[p] \in DOMAIN ino_to_path'
           /\ \A p \in paths : p # <<>> => path_to_ino'[p] # FUSE_ROOT_ID
<1> DEFINE fresh == paths \ DOMAIN path_to_ino
           num   == Numbering(fresh)
           c     == Cardinality(fresh)
<1>1. MaxIno \in Nat /\ MaxIno # 0 /\ next_ino \in Nat /\ 1 <= next_ino /\ next_ino <= MaxIno + 1
  BY FuseAssumption DEF TypeOK, Inos, FUSE_ROOT_ID
<1>2. /\ IsFiniteSet(fresh) /\ next_ino + c <= MaxIno + 1
      /\ path_to_ino' = [p \in DOMAIN path_to_ino \cup fresh |->
                            IF p \in fresh THEN num[p] ELSE path_to_ino[p]]
      /\ ino_to_path' = [n \in DOMAIN ino_to_path \cup {num[p] : p \in fresh} |->
                            IF \E p \in fresh : num[p] = n
                            THEN CHOOSE p \in fresh : num[p] = n ELSE ino_to_path[n]]
      /\ next_ino' = next_ino + c
  BY DEF ino_for_path
<1>3. /\ c \in Nat
      /\ \A p \in fresh : num[p] \in next_ino..(next_ino + c - 1)
      /\ \A p, q \in fresh : num[p] = num[q] => p = q
  BY <1>1, <1>2, NumberingType
<1>4. /\ \A p \in fresh : p \notin DOMAIN path_to_ino /\ p \in paths
      /\ \A p \in paths : p \in fresh \/ p \in DOMAIN path_to_ino
  OBVIOUS
<1> HIDE DEF fresh, num, c
<1>5. /\ FUSE_ROOT_ID \in DOMAIN ino_to_path /\ ino_to_path[FUSE_ROOT_ID] = <<>>
      /\ DOMAIN path_to_ino = {ino_to_path[n] : n \in DOMAIN ino_to_path}
      /\ \A n \in DOMAIN ino_to_path : path_to_ino[ino_to_path[n]] = n /\ n < next_ino
      /\ \A p \in DOMAIN path_to_ino :
            path_to_ino[p] \in DOMAIN ino_to_path /\ ino_to_path[path_to_ino[p]] = p
  BY DEF InodesNameOnePath
<1>6. \A n \in DOMAIN ino_to_path : n \in Nat /\ n < next_ino /\ 1 <= n
  BY <1>1, <1>5 DEF TypeOK, Inos, FUSE_ROOT_ID
<1>7. /\ DOMAIN ino_to_path' = DOMAIN ino_to_path \cup {num[p] : p \in fresh}
      /\ DOMAIN path_to_ino' = DOMAIN path_to_ino \cup fresh
  BY <1>2
<1>8. \A n \in DOMAIN ino_to_path : ino_to_path'[n] = ino_to_path[n]
  <2> TAKE n \in DOMAIN ino_to_path
  <2>1. \A p \in fresh : num[p] # n
    BY <1>1, <1>3, <1>6
  <2> QED BY <1>2, <2>1
<1>9. \A p \in fresh : ino_to_path'[num[p]] = p
  <2> TAKE p \in fresh
  <2>1. num[p] \in DOMAIN ino_to_path'
    BY <1>7
  <2>2. (CHOOSE q \in fresh : num[q] = num[p]) = p
    BY <1>3
  <2> QED BY <1>2, <2>1, <2>2
<1>10. /\ \A p \in fresh : path_to_ino'[p] = num[p]
       /\ \A p \in DOMAIN path_to_ino : path_to_ino'[p] = path_to_ino[p]
  BY <1>2, <1>4
<1>11. \A n \in DOMAIN ino_to_path' : n \in Nat /\ 1 <= n /\ n < next_ino'
  BY <1>1, <1>2, <1>3, <1>6, <1>7
<1>12. InodesNameOnePath'
  <2>1. FUSE_ROOT_ID \in DOMAIN ino_to_path' /\ ino_to_path'[FUSE_ROOT_ID] = <<>>
    BY <1>5, <1>7, <1>8
  <2>2. DOMAIN path_to_ino' = {ino_to_path'[n] : n \in DOMAIN ino_to_path'}
    <3>1. ASSUME NEW p \in DOMAIN path_to_ino'
          PROVE  \E n \in DOMAIN ino_to_path' : ino_to_path'[n] = p
      <4>1. CASE p \in fresh
        BY <1>7, <1>9, <4>1
      <4>2. CASE p \in DOMAIN path_to_ino
        BY <1>5, <1>7, <1>8, <4>2
      <4> QED BY <1>7, <4>1, <4>2
    <3>2. ASSUME NEW n \in DOMAIN ino_to_path'
          PROVE  ino_to_path'[n] \in DOMAIN path_to_ino'
      <4>1. CASE n \in DOMAIN ino_to_path
        BY <1>5, <1>7, <1>8, <4>1
      <4>2. CASE \E p \in fresh : n = num[p]
        BY <1>7, <1>9, <4>2
      <4> QED BY <1>7, <4>1, <4>2
    <3> QED BY <3>1, <3>2
  <2>3. \A n \in DOMAIN ino_to_path' : path_to_ino'[ino_to_path'[n]] = n /\ n < next_ino'
    <3> TAKE n \in DOMAIN ino_to_path'
    <3>1. CASE n \in DOMAIN ino_to_path
      BY <1>5, <1>8, <1>10, <1>11, <3>1
    <3>2. CASE \E p \in fresh : n = num[p]
      BY <1>9, <1>10, <1>11, <3>2
    <3> QED BY <1>7, <3>1, <3>2
  <2>4. \A p \in DOMAIN path_to_ino' :
           path_to_ino'[p] \in DOMAIN ino_to_path' /\ ino_to_path'[path_to_ino'[p]] = p
    <3> TAKE p \in DOMAIN path_to_ino'
    <3>1. CASE p \in DOMAIN path_to_ino
      BY <1>5, <1>7, <1>8, <1>10, <3>1
    <3>2. CASE p \in fresh
      BY <1>7, <1>9, <1>10, <3>2
    <3> QED BY <1>7, <3>1, <3>2
  <2> QED BY <2>1, <2>2, <2>3, <2>4 DEF InodesNameOnePath
<1>13. DOMAIN ino_to_path' \subseteq Inos /\ next_ino' \in Inos \cup {MaxIno + 1}
  BY <1>1, <1>2, <1>3, <1>11 DEF Inos, FUSE_ROOT_ID
<1>14. \A n \in DOMAIN ino_to_path' : IsSequence(ino_to_path'[n])
  <2> TAKE n \in DOMAIN ino_to_path'
  <2>1. CASE n \in DOMAIN ino_to_path
    BY <1>8, <2>1 DEF TypeOK
  <2>2. CASE \E p \in fresh : n = num[p]
    BY <1>4, <1>9, <2>2
  <2> QED BY <1>7, <2>1, <2>2
<1>15. \A p \in paths : p \in DOMAIN path_to_ino'
  BY <1>4, <1>7
<1>16. \A p \in paths : path_to_ino'[p] \in DOMAIN ino_to_path' /\ ino_to_path'[path_to_ino'[p]] = p
  BY <1>12, <1>15 DEF InodesNameOnePath
<1>17. \A p \in paths : p # <<>> => path_to_ino'[p] # FUSE_ROOT_ID
  BY <1>12, <1>16 DEF InodesNameOnePath
<1> QED BY <1>7, <1>12, <1>13, <1>14, <1>16, <1>17
-----------------------------------------------------------------------------
(* Buffers *)

(* A write is somewhere and not empty. *)
LEMMA WriteType ==
    ASSUME NEW w \in Writes
    PROVE  w.offset \in Nat /\ Len(w.data) \in Nat /\ Len(w.data) # 0
BY FuseAssumption DEF Writes

(* The greatest element of a set is its maximum. *)
LEMMA MaxIs ==
    ASSUME NEW S, S \subseteq Nat, NEW m \in S, \A e \in S : e <= m
    PROVE  Max(S) = m
<1>1. \E x \in S : \A y \in S : x >= y
  OBVIOUS
<1>2. Max(S) \in S /\ \A y \in S : Max(S) >= y
  BY <1>1 DEF Max
<1>3. Max(S) \in Nat /\ m \in Nat /\ Max(S) <= m /\ Max(S) >= m
  BY <1>2
<1> HIDE DEF Max
<1> QED BY <1>3

(* The length of a buffer. *)
LEMMA LenIs ==
    ASSUME NEW n \in Nat, NEW f, f = [i \in 1..n |-> f[i]]
    PROVE  Len(f) = n
<1> DEFINE S == {f[i] : i \in 1..n}
<1>1. f \in [1..n -> S]
  OBVIOUS
<1>2. f \in Seq(S)
  BY <1>1, SeqDef
<1> HIDE DEF S
<1>3. DOMAIN f = 1..n /\ DOMAIN f = 1..Len(f) /\ Len(f) \in Nat
  BY <1>1, <1>2
<1> QED BY <1>3

(* The writes ws reach as far as position m of the file. *)
EndsAt(ws, m) == m \in Nat /\ m \in Ends(ws) /\ \A e \in Ends(ws) : e \in Nat /\ e <= m

(* A buffer holds what was written so far. *)
Holds(buf, ws) ==
    \/ ws = <<>> /\ buf = <<>>
    \/ ws # <<>> /\ buf = Overlay(ws) /\ \E m \in Nat : EndsAt(ws, m)

(* Where the last write on top of a position is. *)
LEMMA CoveringType ==
    ASSUME NEW ws \in Seq(Writes), NEW i
    PROVE  /\ Covering(ws, i) \subseteq 1..Len(ws)
           /\ Covering(ws, i) # {} => Max(Covering(ws, i)) \in Covering(ws, i)
<1>1. Covering(ws, i) \subseteq 1..Len(ws) /\ Len(ws) \in Nat
  BY DEF Covering
<1> QED BY <1>1, MaxIn

(* How far the writes reach with one more. *)
LEMMA EndsAppend ==
    ASSUME NEW ws \in Seq(Writes), NEW w \in Writes, NEW l \in Nat,
           (ws = <<>> /\ l = 0) \/ (ws # <<>> /\ EndsAt(ws, l))
    PROVE  LET e == w.offset + Len(w.data)
           IN  EndsAt(Append(ws, w), IF e > l THEN e ELSE l)
<1> DEFINE e == w.offset + Len(w.data)
           a == Append(ws, w)
           n == Len(ws)
<1>1. e \in Nat /\ e > 0 /\ n \in Nat
  BY WriteType
<1>2. /\ a \in Seq(Writes) /\ Len(a) = n + 1 /\ a[n + 1] = w
      /\ \A k \in 1..n : a[k] = ws[k]
      /\ DOMAIN a = 1..(n + 1) /\ DOMAIN ws = 1..n
  OBVIOUS
<1> HIDE DEF a
<1>3. Ends(a) = Ends(ws) \cup {e}
  <2>1. Ends(a) = {a[k].offset + Len(a[k].data) : k \in 1..n} \cup {e}
    BY <1>1, <1>2 DEF Ends
  <2>2. {a[k].offset + Len(a[k].data) : k \in 1..n} = Ends(ws)
    BY <1>2 DEF Ends
  <2> QED BY <2>1, <2>2
<1> HIDE DEF e, n
<1>4. CASE ws = <<>> /\ l = 0
  <2>1. Ends(ws) = {}
    BY <1>4 DEF Ends
  <2> QED BY <1>1, <1>3, <1>4, <2>1 DEF EndsAt, a, e
<1>5. CASE ws # <<>> /\ EndsAt(ws, l)
  BY <1>1, <1>3, <1>5 DEF EndsAt, a, e
<1> QED BY <1>4, <1>5

(* One more write, spliced into the buffer, is the last one on top. *)
LEMMA SpliceAppends ==
    ASSUME NEW ws \in Seq(Writes), NEW w \in Writes, NEW buf, Holds(buf, ws)
    PROVE  Holds(Splice(buf, w.offset, w.data), Append(ws, w))
<1> DEFINE o == w.offset
           e == w.offset + Len(w.data)
           a == Append(ws, w)
           n == Len(ws)
<1>1. o \in Nat /\ e \in Nat /\ e > o /\ n \in Nat
  BY WriteType
<1>2. PICK l \in Nat : /\ (ws = <<>> /\ l = 0) \/ (ws # <<>> /\ EndsAt(ws, l))
                       /\ Len(buf) = l
                       /\ ws # <<>> => buf = Overlay(ws) /\ Max(Ends(ws)) = l
  <2>1. CASE ws = <<>> /\ buf = <<>>
    BY <2>1
  <2>2. CASE ws # <<>> /\ buf = Overlay(ws) /\ \E m \in Nat : EndsAt(ws, m)
    <3>1. PICK m \in Nat : EndsAt(ws, m)
      BY <2>2
    <3>2. Max(Ends(ws)) = m
      BY <3>1, MaxIs DEF EndsAt
    <3>3. Len(buf) = m
      BY <2>2, <3>2, LenIs DEF Overlay
    <3> QED BY <2>2, <3>1, <3>2, <3>3
  <2> QED BY <2>1, <2>2 DEF Holds
<1> DEFINE m == IF e > l THEN e ELSE l
<1>3. EndsAt(a, m) /\ m \in Nat
  BY <1>1, <1>2, EndsAppend
<1>4. Max(Ends(a)) = m /\ Max({l, e}) = m
  <2>1. Max(Ends(a)) = m
    BY <1>3, MaxIs DEF EndsAt
  <2>2. {l, e} \subseteq Nat /\ m \in {l, e} /\ \A x \in {l, e} : x <= m
    BY <1>1
  <2>3. Max({l, e}) = m
    BY <2>2, MaxIs
  <2> QED BY <2>1, <2>3
<1>5. /\ a \in Seq(Writes) /\ Len(a) = n + 1 /\ a[n + 1] = w /\ a # <<>>
      /\ \A k \in 1..n : a[k] = ws[k]
      /\ DOMAIN a = 1..(n + 1) /\ DOMAIN ws = 1..n
  OBVIOUS
<1> HIDE DEF a, m
<1>6. ASSUME NEW i \in 1..m
      PROVE  Covering(a, i) = Covering(ws, i) \cup (IF i \in (o + 1)..e THEN {n + 1} ELSE {})
  BY <1>1, <1>5 DEF Covering
<1>7. ASSUME NEW i \in 1..m
      PROVE  Splice(buf, o, w.data)[i] = Overlay(a)[i]
  <2>1. /\ Splice(buf, o, w.data)[i] =
              IF i \in (o + 1)..e THEN w.data[i - o] ELSE IF i <= l THEN buf[i] ELSE NUL
        /\ Overlay(a)[i] = IF Covering(a, i) = {} THEN NUL
                           ELSE a[Max(Covering(a, i))].data[i - a[Max(Covering(a, i))].offset]
    BY <1>2, <1>4 DEF Splice, Overlay
  <2>2. Covering(ws, i) \subseteq 1..n
    BY CoveringType
  <2>3. CASE i \in (o + 1)..e
    <3>1. Covering(a, i) \subseteq Nat /\ n + 1 \in Covering(a, i) /\ \A k \in Covering(a, i) : k <= n + 1
      BY <1>1, <1>6, <2>2, <2>3
    <3>2. Max(Covering(a, i)) = n + 1
      BY <3>1, MaxIs
    <3> QED BY <1>5, <2>1, <2>3, <3>1, <3>2
  <2>4. CASE i \notin (o + 1)..e /\ Covering(ws, i) = {}
    <3>1. Overlay(a)[i] = NUL
      BY <1>6, <2>1, <2>4
    <3>2. i <= l => buf[i] = NUL
      BY <1>2, <1>3, <2>4 DEF Overlay
    <3> QED BY <2>1, <2>4, <3>1, <3>2
  <2>5. CASE i \notin (o + 1)..e /\ Covering(ws, i) # {}
    <3> DEFINE k == Max(Covering(ws, i))
    <3>1. k \in Covering(ws, i) /\ k \in 1..n
      BY <2>2, <2>5, CoveringType
    <3>2. Covering(a, i) = Covering(ws, i) /\ a[k] = ws[k]
      BY <1>5, <1>6, <2>5, <3>1
    <3>3. ws # <<>> /\ i <= l
      <4>1. ws # <<>>
        BY <3>1, <1>5
      <4> DEFINE end == ws[k].offset + Len(ws[k].data)
      <4> HIDE DEF k
      <4>2. i \in (ws[k].offset + 1)..end /\ end \in Ends(ws)
        BY <1>5, <3>1 DEF Covering, Ends
      <4>3. end \in Nat /\ end <= l
        BY <1>2, <4>1, <4>2 DEF EndsAt
      <4>4. ws[k].offset \in Nat
        BY <1>5, <3>1, WriteType
      <4> HIDE DEF end
      <4> QED BY <1>3, <4>1, <4>2, <4>3, <4>4
    <3>4. buf[i] = ws[k].data[i - ws[k].offset]
      BY <1>2, <1>3, <2>5, <3>3 DEF Overlay
    <3> HIDE DEF k
    <3> QED BY <2>1, <2>5, <3>2, <3>3, <3>4 DEF k
  <2> QED BY <2>3, <2>4, <2>5
<1>8. Splice(buf, o, w.data) = Overlay(a)
  <2>1. Splice(buf, o, w.data) = [i \in 1..m |-> Splice(buf, o, w.data)[i]]
    BY <1>2, <1>4 DEF Splice
  <2>2. Overlay(a) = [i \in 1..m |-> Overlay(a)[i]]
    BY <1>4 DEF Overlay
  <2> QED BY <1>7, <2>1, <2>2
<1> QED BY <1>3, <1>5, <1>8 DEF Holds, a

-----------------------------------------------------------------------------
(* The inductive invariant. A buffer is what was written, and the writes     *)
(* reach to its end: Overlay of no matter what would say little.             *)

BuffersHold ==
    \A n \in Inos :
        /\ Holds(Pending(n), written[n])
        /\ written[n] = <<>> <=> n \notin DOMAIN dirty

FuseInv == TypeOK /\ InodesNameOnePath /\ BuffersHold

(* What FuseInv says of the buffers. *)
LEMMA BuffersAreWhatWasWritten == BuffersHold => DirtyIsWhatWasWritten
BY DEF BuffersHold, DirtyIsWhatWasWritten, Holds, Pending

(* A mount that is new. *)
Mounted ==
    /\ \A t \in {tree} \cup reopened : NS!IsDirAt(t, <<>>)
    /\ ino_to_path = Fresh.ino_to_path
    /\ path_to_ino = Fresh.path_to_ino
    /\ next_ino = Fresh.next_ino
    /\ dirty = Fresh.dirty
    /\ files = Fresh.files
    /\ written = Fresh.written
    /\ errno = "ok"

(* Its tables know the root, and its buffers are empty. *)
LEMMA MountedInv == Mounted => FuseInv
<1> SUFFICES ASSUME Mounted PROVE FuseInv
  OBVIOUS
<1>1. /\ DOMAIN ino_to_path = {1} /\ ino_to_path[1] = <<>>
      /\ DOMAIN path_to_ino = {<<>>} /\ path_to_ino[<<>>] = 1
      /\ next_ino = 2 /\ DOMAIN dirty = {} /\ files = {} /\ written = [n \in Inos |-> <<>>]
  BY DEF Mounted, Fresh, FUSE_ROOT_ID
<1>2. MaxIno \in Nat /\ MaxIno >= 1 /\ MaxWrites \in Nat
  BY FuseAssumption
<1>3. IsSequence(<<>>)
  BY EmptySeq, SequenceType
<1>4. PendingWrites = {}
  BY <1>1 DEF PendingWrites
<1>5. IsFiniteSet(PendingWrites) /\ Cardinality(PendingWrites) <= MaxWrites
  BY <1>2, <1>4, FS_EmptySet
<1>6. written \in [Inos -> Seq(Writes)]
  BY <1>1
<1>7. DOMAIN ino_to_path \subseteq Inos /\ next_ino \in Inos \cup {MaxIno + 1}
  BY <1>1, <1>2 DEF Inos, FUSE_ROOT_ID
<1>8. TypeOK
  BY <1>1, <1>3, <1>5, <1>6, <1>7 DEF TypeOK, Mounted
<1>9. InodesNameOnePath
  BY <1>1 DEF InodesNameOnePath, FUSE_ROOT_ID
<1>10. BuffersHold
  BY <1>1 DEF BuffersHold, Holds, Pending
<1> QED BY <1>8, <1>9, <1>10 DEF FuseInv
-----------------------------------------------------------------------------
(* Numbers as text: what is written in digits is read back *)

Digits == {DIGITS[d] : d \in DOMAIN DIGITS}

(* The ten digits, and what each stands for. *)
LEMMA DigitFacts ==
    /\ DOMAIN DIGITS = 1..10
    /\ \A n \in 0..9 : DIGITS[n + 1] \in Digits /\ DigitOf(DIGITS[n + 1]) = n
    /\ \A c \in Digits : DigitOf(c) \in 0..9 /\ c # "+" /\ c # "-"
<1>1. DOMAIN DIGITS = 1..10
  BY DEF DIGITS
<1>2. \A d, e \in 1..10 : DIGITS[d] = DIGITS[e] => d = e
  BY DEF DIGITS
<1>3. \A d \in 1..10 : DIGITS[d] # "+" /\ DIGITS[d] # "-"
  BY DEF DIGITS
<1>4. \A n \in 0..9 : n + 1 \in 1..10
  OBVIOUS
<1>5. ASSUME NEW d \in 1..10 PROVE (CHOOSE e \in 1..10 : DIGITS[e] = DIGITS[d]) = d
  BY <1>2
<1>6. \A n \in 0..9 : DigitOf(DIGITS[n + 1]) = n
  <2> TAKE n \in 0..9
  <2>1. n + 1 \in 1..10 /\ (n + 1) - 1 = n
    OBVIOUS
  <2>2. DigitOf(DIGITS[n + 1]) = (CHOOSE e \in 1..10 : DIGITS[e] = DIGITS[n + 1]) - 1
    BY <1>1 DEF DigitOf
  <2>3. (CHOOSE e \in 1..10 : DIGITS[e] = DIGITS[n + 1]) = n + 1
    BY <2>1, <1>5
  <2> QED BY <2>1, <2>2, <2>3
<1>7. \A c \in Digits : \E n \in 0..9 : c = DIGITS[n + 1]
  <2> SUFFICES ASSUME NEW d \in 1..10 PROVE \E n \in 0..9 : DIGITS[d] = DIGITS[n + 1]
    BY <1>1 DEF Digits
  <2>1. d - 1 \in 0..9 /\ (d - 1) + 1 = d
    OBVIOUS
  <2> QED BY <2>1
<1> QED BY <1>1, <1>3, <1>4, <1>6, <1>7 DEF Digits

(* f is what a recursion computes for the first m numbers, from base on. *)
IsRecursion(V, base, step, f, m) ==
    f \in [0..m -> V] /\ f[0] = base /\ \A i \in 1..m : f[i] = step[i][f[i - 1]]

(* A recursion by steps that stay within a set has a result. *)
LEMMA RecursionExists ==
    ASSUME NEW V, NEW base \in V, NEW m \in Nat, NEW step \in [1..m -> [V -> V]]
    PROVE  \E f : IsRecursion(V, base, step, f, m)
<1> USE DEF IsRecursion
<1> DEFINE Is(f, n) == IsRecursion(V, base, step, f, n)
           Bad == {n \in 0..m : ~\E f : Is(f, n)}
<1>1. SUFFICES ASSUME Bad # {} PROVE FALSE
  <2>1. m \in 0..m
    OBVIOUS
  <2> QED BY <2>1
<1>2. PICK n \in Bad : \A l \in Bad : n <= l
  <2>1. Bad \subseteq Nat
    OBVIOUS
  <2> HIDE DEF Bad
  <2> QED BY <1>1, <2>1, MinExists
<1>3. CASE n = 0
  <2> DEFINE f == [i \in 0..0 |-> base]
  <2>1. Is(f, 0)
    OBVIOUS
  <2> QED BY <2>1, <1>2, <1>3
<1>4. CASE n # 0
  <2>1. n \in 1..m /\ n - 1 \in 0..m /\ n - 1 \in Nat /\ n - 1 \notin Bad
    <3>1. n \in 0..m
      BY <1>2
    <3> HIDE DEF Bad
    <3> QED BY <1>2, <1>4, <3>1
  <2>2. PICK f : Is(f, n - 1)
    BY <2>1
  <2>3. f[n - 1] \in V /\ step[n][f[n - 1]] \in V
    <3>1. n - 1 \in 0..(n - 1)
      BY <2>1
    <3> QED BY <2>1, <2>2, <3>1
  <2> DEFINE g == [i \in 0..n |-> IF i = n THEN step[n][f[n - 1]] ELSE f[i]]
  <2>4. g \in [0..n -> V] /\ g[0] = base
    BY <2>1, <2>2, <2>3
  <2>5. \A i \in 1..n : g[i] = step[i][g[i - 1]]
    <3> SUFFICES ASSUME NEW i \in 1..n PROVE g[i] = step[i][g[i - 1]]
      OBVIOUS
    <3>1. i - 1 \in 0..n /\ i - 1 # n /\ i \in 0..n
      BY <2>1
    <3>2. g[i - 1] = f[i - 1]
      BY <3>1
    <3>3. CASE i = n
      BY <3>1, <3>2, <3>3
    <3>4. CASE i # n
      <4>1. i \in 1..(n - 1)
        BY <2>1, <3>4
      <4>2. g[i] = f[i]
        BY <3>1, <3>4
      <4> HIDE DEF g
      <4> QED BY <2>2, <3>2, <4>1, <4>2
    <3> QED BY <3>3, <3>4
  <2>6. Is(g, n)
    BY <2>4, <2>5
  <2> HIDE DEF g, Is
  <2> QED BY <2>6, <1>2
<1> QED BY <1>3, <1>4

-----------------------------------------------------------------------------
(* The numbers that the first digits of a text stand for. *)
IsValueOf(s, f, m) ==
    f = [i \in 0..m |-> IF i = 0 THEN 0 ELSE 10 * f[i - 1] + DigitOf(s[i])]

NatTable(s) == CHOOSE f : IsValueOf(s, f, Len(s))

(* A text of digits stands for a number. *)
LEMMA NatTableIs ==
    ASSUME NEW s \in Seq(Digits)
    PROVE  /\ NatOf(s) = NatTable(s)[Len(s)]
           /\ NatTable(s) \in [0..Len(s) -> Nat]
           /\ NatTable(s)[0] = 0
           /\ \A i \in 1..Len(s) : NatTable(s)[i] = 10 * NatTable(s)[i - 1] + DigitOf(s[i])
<1> DEFINE m == Len(s)
           step == [i \in 1..m |-> [x \in Nat |-> 10 * x + DigitOf(s[i])]]
<1>1. m \in Nat /\ \A i \in 1..m : DigitOf(s[i]) \in Nat
  <2>1. m \in Nat /\ \A i \in 1..m : s[i] \in Digits
    OBVIOUS
  <2> QED BY <2>1, DigitFacts
<1>2. step \in [1..m -> [Nat -> Nat]]
  BY <1>1
<1>3. PICK f \in [0..m -> Nat] : f[0] = 0 /\ \A i \in 1..m : f[i] = step[i][f[i - 1]]
  <2>1. 0 \in Nat
    OBVIOUS
  <2> HIDE DEF m, step
  <2>2. PICK f : IsRecursion(Nat, 0, step, f, m)
    BY <1>1, <1>2, <2>1, RecursionExists
  <2> QED BY <2>2 DEF IsRecursion
<1>4. IsValueOf(s, f, m)
  <2>1. \A i \in 1..m : i - 1 \in 0..m
    BY <1>1
  <2>2. \A i \in 1..m : f[i] = 10 * f[i - 1] + DigitOf(s[i])
    BY <1>3, <2>1
  <2> HIDE DEF step
  <2> QED BY <1>1, <1>3, <2>2 DEF IsValueOf
<1> DEFINE t == NatTable(s)
<1>5. IsValueOf(s, t, m)
  <2> DEFINE Is(g) == IsValueOf(s, g, m)
  <2>1. \E g : Is(g)
    BY <1>4
  <2>2. t = CHOOSE g : Is(g)
    BY DEF NatTable
  <2> HIDE DEF Is, t
  <2>3. Is(t)
    BY <2>1, <2>2
  <2> QED BY <2>3 DEF Is
<1> HIDE DEF t
<1>6. /\ t = [i \in 0..m |-> t[i]] /\ t[0] = 0
      /\ \A i \in 1..m : t[i] = 10 * t[i - 1] + DigitOf(s[i])
  BY <1>1, <1>5 DEF IsValueOf
<1>7. \A i \in 0..m : t[i] \in Nat
  <2> DEFINE Bad == {i \in 0..m : t[i] \notin Nat}
  <2>1. SUFFICES ASSUME Bad # {} PROVE FALSE
    OBVIOUS
  <2>2. PICK i \in Bad : \A j \in Bad : i <= j
    <3>1. Bad \subseteq Nat
      BY <1>1
    <3> HIDE DEF Bad
    <3> QED BY <2>1, <3>1, MinExists
  <2>3. i # 0
    BY <1>6, <2>2
  <2>4. i \in 1..m /\ i - 1 \in 0..m /\ i - 1 \notin Bad
    BY <1>1, <2>2, <2>3
  <2>5. t[i - 1] \in Nat
    BY <2>4
  <2>6. t[i] = 10 * t[i - 1] + DigitOf(s[i]) /\ DigitOf(s[i]) \in Nat
    BY <1>1, <1>6, <2>4
  <2>7. t[i] \in Nat
    BY <2>5, <2>6
  <2> QED BY <2>2, <2>7
<1>8. NatOf(s) = t[m]
  BY DEF NatOf, NatTable, IsValueOf, t
<1> QED BY <1>6, <1>7, <1>8 DEF t

(* Digits stand for a number. *)
LEMMA NatOfType ==
    ASSUME NEW s \in Seq(Digits)
    PROVE  NatOf(s) \in Nat
<1>1. Len(s) \in 0..Len(s)
  OBVIOUS
<1> QED BY <1>1, NatTableIs

(* One digit more. *)
LEMMA NatOfAppend ==
    ASSUME NEW s \in Seq(Digits), NEW c \in Digits
    PROVE  NatOf(s \o <<c>>) = 10 * NatOf(s) + DigitOf(c)
<1> DEFINE u == s \o <<c>>
           m == Len(s)
<1>1. u \in Seq(Digits) /\ Len(u) = m + 1 /\ m \in Nat /\ u[m + 1] = c
  OBVIOUS
<1>2. \A i \in 1..m : u[i] = s[i]
  OBVIOUS
<1> HIDE DEF u
<1>3. /\ NatOf(u) = NatTable(u)[m + 1] /\ NatTable(u)[0] = 0
      /\ \A i \in 1..(m + 1) : NatTable(u)[i] = 10 * NatTable(u)[i - 1] + DigitOf(u[i])
  BY <1>1, NatTableIs
<1>4. /\ NatOf(s) = NatTable(s)[m] /\ NatTable(s)[0] = 0
      /\ \A i \in 1..m : NatTable(s)[i] = 10 * NatTable(s)[i - 1] + DigitOf(s[i])
  BY NatTableIs
<1> DEFINE Bad == {i \in 0..m : NatTable(u)[i] # NatTable(s)[i]}
<1>5. Bad = {}
  <2>1. SUFFICES ASSUME Bad # {} PROVE FALSE
    OBVIOUS
  <2>2. PICK i \in Bad : \A j \in Bad : i <= j
    <3>1. Bad \subseteq Nat
      BY <1>1
    <3> HIDE DEF Bad
    <3> QED BY <2>1, <3>1, MinExists
  <2>3. i # 0
    BY <1>3, <1>4, <2>2
  <2>4. i \in 1..m /\ i \in 1..(m + 1) /\ i - 1 \in 0..m /\ i - 1 \notin Bad
    BY <1>1, <2>2, <2>3
  <2>5. NatTable(u)[i] = NatTable(s)[i]
    BY <1>2, <1>3, <1>4, <2>4
  <2> QED BY <2>2, <2>5
<1>6. NatTable(u)[m] = NatOf(s)
  BY <1>1, <1>4, <1>5
<1>7. m + 1 \in 1..(m + 1) /\ (m + 1) - 1 = m
  BY <1>1
<1>8. NatOf(u) = 10 * NatOf(s) + DigitOf(c)
  BY <1>1, <1>3, <1>6, <1>7
<1> QED BY <1>8 DEF u
-----------------------------------------------------------------------------
(* One digit after another: what to_string writes for k, given what f has    *)
(* for smaller numbers.                                                      *)
ShowStep(f, k) ==
    IF k < 10 THEN <<DIGITS[k + 1]>> ELSE f[k \div 10] \o <<DIGITS[(k % 10) + 1]>>

IsShown(f, m) == f = [k \in 0..m |-> ShowStep(f, k)]

(* What division by ten does. *)
LEMMA DivFacts ==
    ASSUME NEW n \in Nat, ~(n < 10)
    PROVE  /\ n \div 10 \in Nat /\ n \div 10 < n
           /\ n % 10 \in 0..9 /\ n = 10 * (n \div 10) + (n % 10)
OBVIOUS

(* A step depends on the digits before only. *)
LEMMA ShowStepSame ==
    ASSUME NEW f, NEW g, NEW k \in Nat, ~(k < 10) => f[k \div 10] = g[k \div 10]
    PROVE  ShowStep(f, k) = ShowStep(g, k)
BY DEF ShowStep

(* Numbers up to m have digits, ... *)
LEMMA ShownExists ==
    ASSUME NEW m \in Nat
    PROVE  \E f : IsShown(f, m)
<1> DEFINE Bad == {n \in Nat : ~\E f : IsShown(f, n)}
<1>1. SUFFICES ASSUME Bad # {} PROVE FALSE
  OBVIOUS
<1>2. PICK n \in Bad : \A l \in Bad : n <= l
  BY <1>1, MinExists
<1>3. CASE n = 0
  <2> DEFINE f == [l \in 0..0 |-> <<DIGITS[0 + 1]>>]
  <2>1. \A l \in 0..0 : l = 0
    OBVIOUS
  <2>2. IsShown(f, 0)
    BY <2>1 DEF IsShown, ShowStep
  <2> QED BY <2>2, <1>2, <1>3
<1>4. CASE n # 0
  <2>1. n - 1 \in Nat /\ n - 1 \notin Bad /\ n \in Nat
    BY <1>2, <1>4
  <2>2. PICK f : IsShown(f, n - 1)
    BY <2>1
  <2> DEFINE g == [l \in 0..n |-> IF l = n THEN ShowStep(f, n) ELSE f[l]]
  <2>3. \A l \in 0..(n - 1) : f[l] = ShowStep(f, l)
    BY <2>2 DEF IsShown
  <2>4. \A l \in 0..n : g[l] = ShowStep(f, l)
    BY <2>1, <2>3
  <2>5. \A l \in 0..(n - 1) : g[l] = f[l]
    BY <2>1
  <2>6. g = [l \in 0..n |-> g[l]]
    OBVIOUS
  <2> HIDE DEF g
  <2>7. \A l \in 0..n : g[l] = ShowStep(g, l)
    <3> SUFFICES ASSUME NEW l \in 0..n PROVE ShowStep(f, l) = ShowStep(g, l)
      BY <2>4
    <3>1. l \in Nat
      BY <2>1
    <3>2. ASSUME ~(l < 10) PROVE g[l \div 10] = f[l \div 10]
      <4>1. l \div 10 \in Nat /\ l \div 10 < l
        BY <3>1, <3>2, DivFacts
      <4>2. l \div 10 \in 0..(n - 1)
        BY <2>1, <3>1, <4>1
      <4> QED BY <2>5, <4>2
    <3> QED BY <3>1, <3>2, ShowStepSame
  <2>8. IsShown(g, n)
    BY <2>6, <2>7 DEF IsShown
  <2> QED BY <2>8, <1>2
<1> QED BY <1>3, <1>4

(* ... and the same ones in every table. *)
LEMMA ShownUnique ==
    ASSUME NEW m \in Nat, NEW n \in Nat, NEW f, NEW g, IsShown(f, m), IsShown(g, n)
    PROVE  \A k \in Nat : k <= m /\ k <= n => f[k] = g[k]
<1> DEFINE Bad == {k \in Nat : k <= m /\ k <= n /\ f[k] # g[k]}
<1>1. SUFFICES ASSUME Bad # {} PROVE FALSE
  OBVIOUS
<1>2. PICK k \in Bad : \A l \in Bad : k <= l
  BY <1>1, MinExists
<1>3. k \in Nat /\ k \in 0..m /\ k \in 0..n /\ f[k] # g[k]
  BY <1>2
<1>4. f[k] = ShowStep(f, k) /\ g[k] = ShowStep(g, k)
  BY <1>3 DEF IsShown
<1>5. ASSUME ~(k < 10) PROVE f[k \div 10] = g[k \div 10]
  <2>1. k \div 10 \in Nat /\ k \div 10 < k
    BY <1>3, <1>5, DivFacts
  <2>2. k \div 10 \notin Bad
    <3> HIDE DEF Bad
    <3> QED BY <1>2, <1>3, <2>1
  <2>3. k \div 10 <= m /\ k \div 10 <= n
    BY <1>3, <2>1
  <2> QED BY <2>1, <2>2, <2>3
<1>6. ShowStep(f, k) = ShowStep(g, k)
  BY <1>3, <1>5, ShowStepSame
<1> QED BY <1>3, <1>4, <1>6

(* to_string writes the digits of a number up to the last one, and that. *)
LEMMA ShowNatDef ==
    ASSUME NEW n \in Nat
    PROVE  ShowNat(n) = IF n < 10 THEN <<DIGITS[n + 1]>>
                        ELSE ShowNat(n \div 10) \o <<DIGITS[(n % 10) + 1]>>
<1> DEFINE Is(s) == s = [k \in Nat |-> ShowStep(s, k)]
           upTo(m) == CHOOSE f : IsShown(f, m)
           g == [k \in Nat |-> upTo(k)[k]]
<1>1. \A m \in Nat : IsShown(upTo(m), m)
  BY ShownExists
<1> HIDE DEF upTo
<1>2. \A k \in Nat : g[k] = upTo(k)[k] /\ upTo(k)[k] = ShowStep(upTo(k), k)
  BY <1>1 DEF IsShown
<1>3. \A k \in Nat : ShowStep(upTo(k), k) = ShowStep(g, k)
  <2> TAKE k \in Nat
  <2>1. ASSUME ~(k < 10) PROVE upTo(k)[k \div 10] = g[k \div 10]
    <3>1. k \div 10 \in Nat /\ k \div 10 <= k /\ k \div 10 <= k \div 10
      BY <2>1, DivFacts
    <3>2. g[k \div 10] = upTo(k \div 10)[k \div 10]
      BY <1>2, <3>1
    <3>3. upTo(k)[k \div 10] = upTo(k \div 10)[k \div 10]
      BY <1>1, <3>1, ShownUnique
    <3> QED BY <3>2, <3>3
  <2> HIDE DEF g
  <2> QED BY <2>1, ShowStepSame
<1>4. Is(g)
  <2>1. g = [k \in Nat |-> g[k]]
    OBVIOUS
  <2> HIDE DEF g
  <2> QED BY <1>2, <1>3, <2>1
<1> DEFINE show == CHOOSE s : Is(s)
<1>5. Is(show)
  <2> HIDE DEF Is, g
  <2> QED BY <1>4
<1>6. \A k : ShowNat(k) = show[k]
  BY DEF ShowNat, ShowStep
<1> HIDE DEF show, g
<1>7. show[n] = ShowStep(show, n)
  BY <1>5
<1> HIDE DEF Is
<1> QED BY <1>6, <1>7 DEF ShowStep
-----------------------------------------------------------------------------
(* Digits are read as the number that they were written for. *)
LEMMA ShowNatRead ==
    ASSUME NEW n \in Nat
    PROVE  ShowNat(n) \in Seq(Digits) /\ ShowNat(n) # <<>> /\ NatOf(ShowNat(n)) = n
<1> DEFINE Good(k) == ShowNat(k) \in Seq(Digits) /\ ShowNat(k) # <<>> /\ NatOf(ShowNat(k)) = k
           Bad == {k \in Nat : ~Good(k)}
<1>0. \A k \in 0..9 : DIGITS[k + 1] \in Digits /\ DigitOf(DIGITS[k + 1]) = k
  BY DigitFacts
<1>1. SUFFICES ASSUME Bad # {} PROVE FALSE
  OBVIOUS
<1>2. PICK k \in Bad : \A l \in Bad : k <= l
  <2>1. Bad \subseteq Nat
    OBVIOUS
  <2> HIDE DEF Bad
  <2> QED BY <1>1, <2>1, MinExists
<1>3. k \in Nat /\ ~Good(k)
  BY <1>2
<1>4. CASE k < 10
  <2> DEFINE c == DIGITS[k + 1]
  <2>1. k \in 0..9
    BY <1>3, <1>4
  <2>2. c \in Digits /\ DigitOf(c) = k
    BY <1>0, <2>1
  <2>3. ShowNat(k) = <<c>>
    BY <1>3, <1>4, ShowNatDef
  <2> HIDE DEF c
  <2>4. <<>> \in Seq(Digits) /\ <<>> \o <<c>> = <<c>> /\ <<c>> \in Seq(Digits) /\ <<c>> # <<>>
    BY <2>2
  <2>5. NatOf(<<>>) = 0
    <3>1. Len(<<>>) = 0
      OBVIOUS
    <3> QED BY <2>4, <3>1, NatTableIs
  <2>6. NatOf(<<c>>) = 10 * 0 + k
    BY <2>2, <2>4, <2>5, NatOfAppend
  <2> QED BY <1>3, <2>3, <2>4, <2>6
<1>5. CASE ~(k < 10)
  <2> DEFINE h == k \div 10
             c == DIGITS[(k % 10) + 1]
  <2>1. h \in Nat /\ h < k /\ k % 10 \in 0..9 /\ k = 10 * h + (k % 10)
    BY <1>3, <1>5, DivFacts
  <2>2. c \in Digits /\ DigitOf(c) = k % 10
    BY <1>0, <2>1
  <2>3. ShowNat(k) = ShowNat(h) \o <<c>>
    BY <1>3, <1>5, ShowNatDef
  <2> HIDE DEF h, c
  <2>4. h \notin Bad
    <3> HIDE DEF Bad
    <3> QED BY <1>2, <1>3, <2>1
  <2>5. Good(h)
    BY <2>1, <2>4
  <2>6. NatOf(ShowNat(h) \o <<c>>) = 10 * h + (k % 10)
    BY <2>2, <2>5, NatOfAppend
  <2>7. ShowNat(h) \o <<c>> \in Seq(Digits) /\ ShowNat(h) \o <<c>> # <<>>
    BY <2>2, <2>5
  <2> QED BY <1>3, <2>1, <2>3, <2>6, <2>7
<1> QED BY <1>4, <1>5

(* What consists of digits. *)
LEMMA IsDigitsMeans ==
    ASSUME NEW S, NEW s \in Seq(S)
    PROVE  IsDigits(s) <=> s # <<>> /\ s \in Seq(Digits)
<1>1. DOMAIN s = 1..Len(s) /\ Len(s) \in Nat
  OBVIOUS
<1>2. IsDigits(s) <=> s # <<>> /\ \A i \in 1..Len(s) : s[i] \in Digits
  BY <1>1 DEF IsDigits, Digits
<1>3. (\A i \in 1..Len(s) : s[i] \in Digits) => s \in Seq(Digits)
  <2> HAVE \A i \in 1..Len(s) : s[i] \in Digits
  <2>1. s = [i \in 1..Len(s) |-> s[i]]
    OBVIOUS
  <2> QED BY <1>1, <2>1, IsASeq
<1>4. s \in Seq(Digits) => \A i \in 1..Len(s) : s[i] \in Digits
  OBVIOUS
<1> QED BY <1>2, <1>3, <1>4

(* A text is read as one number or none; what is read without a sign is      *)
(* read as the same number where a sign may be.                              *)
LEMMA ParseFacts ==
    ASSUME NEW S, NEW s \in Seq(S)
    PROVE  /\ ParseNat(s) \subseteq Nat /\ ParseInt(s) \subseteq Int
           /\ \A a, b \in ParseNat(s) : a = b
           /\ \A a, b \in ParseInt(s) : a = b
           /\ ParseNat(s) # {} => ParseInt(s) = ParseNat(s)
<1> DEFINE digits == IF StartsWith(s, "+") THEN Tail(s) ELSE s
<1>1. digits \in Seq(S) /\ (StartsWith(s, "-") => Tail(s) \in Seq(S))
  BY DEF StartsWith
<1>2. ASSUME NEW d, d \in Seq(S), IsDigits(d) PROVE NatOf(d) \in Nat
  BY <1>2, IsDigitsMeans, NatOfType
<1>3. ParseNat(s) = IF IsDigits(digits) THEN {NatOf(digits)} ELSE {}
  BY DEF ParseNat
<1>4. ParseInt(s) = IF StartsWith(s, "-") /\ IsDigits(Tail(s)) THEN {-NatOf(Tail(s))} ELSE ParseNat(s)
  BY DEF ParseInt
<1>5. IsDigits(digits) => ~StartsWith(s, "-")
  <2> SUFFICES ASSUME IsDigits(digits), StartsWith(s, "-") PROVE FALSE
    OBVIOUS
  <2>1. digits = s /\ s # <<>> /\ s[1] = "-"
    BY DEF StartsWith
  <2>2. s \in Seq(Digits)
    BY <2>1, IsDigitsMeans
  <2>3. s[1] \in Digits
    BY <2>1, <2>2
  <2> QED BY <2>1, <2>3, DigitFacts
<1> HIDE DEF digits
<1>6. ParseNat(s) \subseteq Nat /\ \A a, b \in ParseNat(s) : a = b
  BY <1>1, <1>2, <1>3
<1>7. ParseInt(s) \subseteq Int /\ \A a, b \in ParseInt(s) : a = b
  <2>1. CASE StartsWith(s, "-") /\ IsDigits(Tail(s))
    <3>1. NatOf(Tail(s)) \in Nat
      BY <1>1, <1>2, <2>1
    <3>2. -NatOf(Tail(s)) \in Int
      BY <3>1
    <3> QED BY <1>4, <2>1, <3>2
  <2>2. CASE ~(StartsWith(s, "-") /\ IsDigits(Tail(s)))
    BY <1>4, <1>6, <2>2
  <2> QED BY <2>1, <2>2
<1>8. ParseNat(s) # {} => ParseInt(s) = ParseNat(s)
  BY <1>3, <1>4, <1>5
<1> QED BY <1>6, <1>7, <1>8

(* parse reads what to_string writes. *)
LEMMA ReadNat ==
    ASSUME NEW n \in Nat
    PROVE  ParseNat(ShowNat(n)) = {n} /\ ParseInt(ShowNat(n)) = {n}
<1> DEFINE s == ShowNat(n)
<1>1. s \in Seq(Digits) /\ s # <<>> /\ NatOf(s) = n
  BY ShowNatRead
<1> HIDE DEF s
<1>2. s[1] \in Digits
  BY <1>1
<1>3. ~StartsWith(s, "+") /\ IsDigits(s)
  BY <1>1, <1>2, DigitFacts, IsDigitsMeans DEF StartsWith
<1>4. ParseNat(s) = {n}
  BY <1>1, <1>3 DEF ParseNat
<1>5. ParseInt(s) = {n}
  BY <1>1, <1>4, ParseFacts
<1> QED BY <1>4, <1>5 DEF s

(* An integer, with its sign, is read back from its text. *)
LEMMA ReadInt ==
    ASSUME NEW n \in Int
    PROVE  ParseInt(ShowInt(n)) = {n} /\ \E S : ShowInt(n) \in Seq(S)
<1>1. CASE n < 0
  <2> DEFINE t == ShowNat(-n)
             s == <<"-">> \o t
             S == Digits \cup {"-"}
  <2>1. -n \in Nat
    BY <1>1
  <2>2. t \in Seq(Digits) /\ t # <<>> /\ NatOf(t) = -n
    BY <2>1, ShowNatRead
  <2> HIDE DEF t
  <2>3. t \in Seq(S) /\ <<"-">> \in Seq(S)
    <3>1. t \in Seq(S)
      BY <2>2, SeqMonotonic
    <3> QED BY <3>1
  <2>4. s \in Seq(S) /\ s # <<>> /\ s[1] = "-" /\ Len(s) = Len(t) + 1 /\ Len(t) \in Nat
    <3> HIDE DEF S
    <3> QED BY <2>3
  <2>5. Tail(s) = t
    <3>1. Tail(s) \in Seq(S) /\ Len(Tail(s)) = Len(t)
      BY <2>4
    <3>2. \A i \in 1..Len(t) : Tail(s)[i] = t[i]
      BY <2>3, <2>4
    <3> HIDE DEF s, S
    <3> QED BY <2>3, <3>1, <3>2, SeqEqual
  <2>6. IsDigits(t)
    BY <2>2, IsDigitsMeans
  <2>7. ShowInt(n) = s
    BY <1>1 DEF ShowInt, t
  <2> HIDE DEF s, S
  <2>8. ParseInt(s) = {-NatOf(t)}
    BY <2>4, <2>5, <2>6 DEF ParseInt, StartsWith
  <2>9. -(-n) = n
    OBVIOUS
  <2> QED BY <2>2, <2>4, <2>7, <2>8, <2>9
<1>2. CASE ~(n < 0)
  <2>1. n \in Nat /\ ShowInt(n) = ShowNat(n)
    BY <1>2 DEF ShowInt
  <2> QED BY <2>1, ReadNat, ShowNatRead
<1> QED BY <1>1, <1>2

-----------------------------------------------------------------------------
(* Scalars as text *)

(* The least element of a set of positions. *)
LEMMA MinIn ==
    ASSUME NEW n \in Nat, NEW S, S \subseteq 1..n, S # {}
    PROVE  Min(S) \in S /\ Min(S) \in 1..n /\ \A y \in S : Min(S) <= y
<1>1. S \subseteq Nat
  OBVIOUS
<1>2. \E x \in S : \A y \in S : x <= y
  BY <1>1, MinExists
<1> QED BY <1>2 DEF Min

(* What is left of a text without the spaces around it is one. *)
LEMMA TrimType ==
    ASSUME NEW S, NEW s \in Seq(S)
    PROVE  Trim(s) \in Seq(S)
<1> DEFINE solid == {i \in DOMAIN s : s[i] \notin SPACES}
<1>1. DOMAIN s = 1..Len(s) /\ Len(s) \in Nat /\ solid \subseteq 1..Len(s)
  OBVIOUS
<1>2. Trim(s) = IF solid = {} THEN <<>> ELSE SubSeq(s, Min(solid), Max(solid))
  BY DEF Trim
<1> HIDE DEF solid
<1>3. CASE solid = {}
  BY <1>2, <1>3
<1>4. CASE solid # {}
  <2>1. Min(solid) \in 1..Len(s) /\ Max(solid) \in 1..Len(s)
    BY <1>1, <1>4, MinIn, MaxIn
  <2>2. SubSeq(s, Min(solid), Max(solid)) \in Seq(S)
    <3> HIDE DEF Min, Max
    <3> QED BY <1>1, <2>1
  <2> QED BY <1>2, <1>4, <2>2
<1> QED BY <1>3, <1>4

(* What is read as a float is the bits of one. *)
LEMMA ParseFloatType ==
    ASSUME NEW S, NEW s \in Seq(S)
    PROVE  ParseFloat(s) \subseteq Nat
<1> DEFINE minus == StartsWith(s, "-")
           rest  == IF minus THEN Tail(s) ELSE s
           point == {i \in DOMAIN rest : rest[i] = "."}
           whole == IF point = {} THEN rest ELSE SubSeq(rest, 1, Min(point) - 1)
           part  == IF point = {} THEN <<>> ELSE SubSeq(rest, Min(point) + 1, Len(rest))
<1>1. rest \in Seq(S)
  BY DEF StartsWith
<1>2. ParseFloat(s) = IF rest = FloatText(NAN) THEN {(IF minus THEN SIGN ELSE 0) + NAN}
          ELSE IF ~IsDigits(whole \o part) \/ part \notin {<<>>, <<"0">>, <<"5">>} THEN {}
          ELSE {(IF minus THEN SIGN ELSE 0) + 2 * NatOf(whole) + (IF part = <<"5">> THEN 1 ELSE 0)}
  BY DEF ParseFloat
<1> HIDE DEF minus, rest
<1>3. DOMAIN rest = 1..Len(rest) /\ Len(rest) \in Nat /\ point \subseteq 1..Len(rest)
  BY <1>1
<1> HIDE DEF point
<1>4. whole \in Seq(S) /\ part \in Seq(S)
  <2>1. CASE point = {}
    BY <1>1, <2>1
  <2>2. CASE point # {}
    <3>1. Min(point) \in 1..Len(rest)
      BY <1>3, <2>2, MinIn
    <3> HIDE DEF Min
    <3> QED BY <1>1, <1>3, <2>2, <3>1
  <2> QED BY <2>1, <2>2
<1> HIDE DEF whole, part
<1>5. ASSUME IsDigits(whole \o part) PROVE NatOf(whole) \in Nat
  <2>1. whole \o part \in Seq(S)
    BY <1>4
  <2>2. whole \o part \in Seq(Digits)
    BY <1>5, <2>1, IsDigitsMeans
  <2>3. \A i \in 1..Len(whole) : whole[i] = (whole \o part)[i] /\ i \in 1..Len(whole \o part)
    BY <1>4
  <2>4. \A i \in 1..Len(whole) : whole[i] \in Digits
    BY <2>2, <2>3
  <2>5. whole = [i \in 1..Len(whole) |-> whole[i]] /\ Len(whole) \in Nat
    BY <1>4
  <2>6. whole \in Seq(Digits)
    BY <2>4, <2>5, IsASeq
  <2> QED BY <2>6, NatOfType
<1>6. NAN \in Nat /\ SIGN \in Nat
  BY DEF NAN, SIGN
<1>7. ASSUME IsDigits(whole \o part)
      PROVE  (IF minus THEN SIGN ELSE 0) + 2 * NatOf(whole) + (IF part = <<"5">> THEN 1 ELSE 0) \in Nat
  BY <1>5, <1>6, <1>7
<1> QED BY <1>2, <1>6, <1>7

(* Floats and all other scalars have a text. *)
LEMMA FloatTextType ==
    ASSUME NEW b \in Nat
    PROVE  IsSequence(FloatText(b))
<1> DEFINE S == Digits \cup {"-", ".", "5", "N", "a"}
           h == b % SIGN
<1>1. h \in Nat /\ h \div 2 \in Nat
  BY DEF SIGN
<1>2. ShowNat(h \div 2) \in Seq(S)
  <2>1. ShowNat(h \div 2) \in Seq(Digits)
    BY <1>1, ShowNatRead
  <2> QED BY <2>1, SeqMonotonic
<1>3. <<"N", "a", "N">> \in Seq(S) /\ <<"-">> \in Seq(S) /\ <<>> \in Seq(S) /\ <<".", "5">> \in Seq(S)
  OBVIOUS
<1> HIDE DEF S
<1>4. FloatText(b) \in Seq(S)
  BY <1>2, <1>3 DEF FloatText
<1> QED BY <1>4, SequenceType

(* The content of a file that is a scalar is a text. *)
LEMMA ScalarBytesType ==
    ASSUME NEW v, IsScalarValue(v)
    PROVE  IsSequence(scalar_bytes(v)) /\ IsScalar(v)
<1>1. CASE v = null
  <2>1. NullText \in Seq({"n", "u", "l"})
    BY DEF NullText
  <2>2. scalar_bytes(v) = NullText
    BY <1>1 DEF scalar_bytes, null
  <2> QED BY <1>1, <2>1, <2>2, SequenceType DEF null, IsScalar, ScalarTypes
<1>2. CASE v.ty = "bool" /\ v.bool \in BOOLEAN
  <2>1. \A b \in BOOLEAN : \E S : BoolText(b) \in Seq(S)
    <3>1. <<"t", "r", "u", "e">> \in Seq({"t", "r", "u", "e"})
      OBVIOUS
    <3>2. <<"f", "a", "l", "s", "e">> \in Seq({"f", "a", "l", "s", "e"})
      OBVIOUS
    <3> QED BY <3>1, <3>2 DEF BoolText
  <2>2. scalar_bytes(v) = BoolText(v.bool)
    BY <1>2 DEF scalar_bytes
  <2> QED BY <1>2, <2>1, <2>2, SequenceType DEF IsScalar, ScalarTypes
<1>3. CASE v.ty = "int" /\ v.int \in Int
  <2>1. scalar_bytes(v) = ShowInt(v.int)
    BY <1>3 DEF scalar_bytes
  <2>2. PICK S : ShowInt(v.int) \in Seq(S)
    BY <1>3, ReadInt
  <2> QED BY <1>3, <2>1, <2>2, SequenceType DEF IsScalar, ScalarTypes
<1>4. CASE v.ty = "float" /\ v.bits \in Nat
  <2>1. scalar_bytes(v) = FloatText(v.bits)
    BY <1>4 DEF scalar_bytes
  <2> QED BY <1>4, <2>1, FloatTextType DEF IsScalar, ScalarTypes
<1>5. CASE v.ty = "string" /\ IsSequence(v.text)
  BY <1>5 DEF scalar_bytes, IsScalar, ScalarTypes
<1>6. CASE v.ty = "bytes" /\ IsSequence(v.bytes)
  BY <1>6 DEF scalar_bytes, IsScalar, ScalarTypes
<1> QED BY <1>1, <1>2, <1>3, <1>4, <1>5, <1>6 DEF IsScalarValue

(* Records that are scalars. *)
LEMMA ScalarForms ==
    /\ IsScalarValue(null)
    /\ \A b \in BOOLEAN : IsScalarValue(bool(b))
    /\ \A n \in Int : IsScalarValue(int(n))
    /\ \A b \in Nat : IsScalarValue(float(b))
    /\ \A s : IsSequence(s) => IsScalarValue(string(s)) /\ IsScalarValue(bytes(s))
<1>1. IsScalarValue(null)
  BY DEF IsScalarValue
<1>2. \A b \in BOOLEAN : IsScalarValue(bool(b))
  BY DEF IsScalarValue, bool
<1>3. \A n \in Int : IsScalarValue(int(n))
  BY DEF IsScalarValue, int
<1>4. \A b \in Nat : IsScalarValue(float(b))
  BY DEF IsScalarValue, float
<1>5. \A s : IsSequence(s) => IsScalarValue(string(s))
  BY DEF IsScalarValue, string
<1>6. \A s : IsSequence(s) => IsScalarValue(bytes(s))
  BY DEF IsScalarValue, bytes
<1> QED BY <1>1, <1>2, <1>3, <1>4, <1>5, <1>6

(* What is parsed is a scalar. *)
LEMMA ParsedIsScalar ==
    ASSUME NEW old, IsScalar(old), NEW data, IsSequence(data), NEW v \in parse_scalar_text(old, data)
    PROVE  IsScalarValue(v)
<1> DEFINE S == {data[i] : i \in DOMAIN data}
           s == Trim(data)
<1>1. data \in Seq(S)
  BY DEF IsSequence
<1>2. s \in Seq(S)
  BY <1>1, TrimType
<1>3. IsSequence(s) /\ ParseInt(s) \subseteq Int /\ ParseFloat(s) \subseteq Nat
  BY <1>2, SequenceType, ParseFacts, ParseFloatType
<1>4. CASE old.ty = "bytes"
  BY <1>4, ScalarForms DEF parse_scalar_text
<1>5. CASE old.ty = "string"
  BY <1>5, ScalarForms DEF parse_scalar_text
<1>6. CASE old.ty = "int"
  <2>1. \E n \in ParseInt(s) : v = int(n)
    BY <1>6 DEF parse_scalar_text
  <2> QED BY <1>3, <2>1, ScalarForms
<1>7. CASE old.ty = "float"
  <2>1. \E n \in ParseFloat(s) : v = float(n)
    BY <1>7 DEF parse_scalar_text
  <2> QED BY <1>3, <2>1, ScalarForms
<1>8. CASE old.ty = "bool"
  <2>1. \E b \in BOOLEAN : v = bool(b)
    BY <1>8 DEF parse_scalar_text
  <2> QED BY <2>1, ScalarForms
<1>9. CASE old.ty = "null"
  <2>1. v = null
    BY <1>9 DEF parse_scalar_text
  <2> QED BY <2>1, ScalarForms
<1> QED BY <1>4, <1>5, <1>6, <1>7, <1>8, <1>9 DEF IsScalar, ScalarTypes
-----------------------------------------------------------------------------
(* A list, or the vector of a set, without one item. *)
LEMMA WithoutItemIs ==
    ASSUME NEW S, NEW s \in Seq(S), NEW j \in 1..Len(s)
    PROVE  /\ WithoutItem(s, j) \in Seq(S) /\ Len(WithoutItem(s, j)) = Len(s) - 1
           /\ \A i \in 1..(Len(s) - 1) : WithoutItem(s, j)[i] = IF i < j THEN s[i] ELSE s[i + 1]
<1> DEFINE a == SubSeq(s, 1, j - 1)
           b == SubSeq(s, j + 1, Len(s))
<1>0. Len(s) \in Nat /\ j \in Nat
  OBVIOUS
<1>1. a \in Seq(S) /\ Len(a) = j - 1 /\ \A i \in 1..(j - 1) : a[i] = s[i]
  OBVIOUS
<1>2. b \in Seq(S) /\ Len(b) = Len(s) - j /\ \A i \in 1..(Len(s) - j) : b[i] = s[j + i]
  <2>1. CASE j = Len(s)
    BY <2>1, <1>0
  <2>2. CASE j # Len(s)
    <3>1. b \in Seq(S) /\ Len(b) = Len(s) - j
      BY <2>2, <1>0
    <3>2. \A i \in 1..(Len(s) - j) : b[i] = s[(j + 1) + i - 1]
      BY <2>2, <1>0
    <3>3. \A i \in 1..(Len(s) - j) : (j + 1) + i - 1 = j + i
      BY <1>0
    <3> QED BY <3>1, <3>2, <3>3
  <2> QED BY <2>1, <2>2
<1>3. WithoutItem(s, j) = a \o b
  BY DEF WithoutItem
<1> HIDE DEF a, b
<1>4. a \o b \in Seq(S) /\ Len(a \o b) = Len(s) - 1
  <2>1. a \in Seq(S) /\ b \in Seq(S) /\ Len(a) = j - 1 /\ Len(b) = Len(s) - j
    BY <1>1, <1>2
  <2>2. a \o b \in Seq(S) /\ Len(a \o b) = Len(a) + Len(b)
    BY <2>1, ConcatProperties
  <2>3. (j - 1) + (Len(s) - j) = Len(s) - 1
    BY <1>0
  <2> QED BY <2>1, <2>2, <2>3
<1>5. \A i \in 1..(Len(s) - 1) : (a \o b)[i] = IF i < j THEN s[i] ELSE s[i + 1]
  <2> TAKE i \in 1..(Len(s) - 1)
  <2>1. CASE i < j
    <3>1. i \in 1..(j - 1)
      BY <1>0, <2>1
    <3>2. (a \o b)[i] = a[i]
      BY <1>0, <1>1, <1>2, <3>1
    <3> QED BY <1>1, <2>1, <3>1, <3>2
  <2>2. CASE ~(i < j)
    <3>1. i - (j - 1) \in 1..(Len(s) - j) /\ j + (i - (j - 1)) = i + 1
      BY <1>0, <2>2
    <3>2. (a \o b)[i] = b[i - (j - 1)]
      BY <1>0, <1>1, <1>2, <2>2
    <3>3. b[i - (j - 1)] = s[j + (i - (j - 1))]
      BY <1>2, <3>1
    <3> QED BY <2>2, <3>1, <3>2, <3>3
  <2> QED BY <2>1, <2>2
<1> QED BY <1>3, <1>4, <1>5

(* retain takes out the one member that has the name. *)
LEMMA RetainedIs ==
    ASSUME NEW S, NEW s \in Seq(S), NEW j \in 1..Len(s), NEW name, set_member_name(s[j]) = name,
           \A i \in 1..Len(s) : set_member_name(s[i]) = name => i = j
    PROVE  Retained(s, name) = WithoutItem(s, j)
<1> DEFINE m == Len(s)
           Kept(x, i) == IF set_member_name(s[i]) = name THEN x ELSE Append(x, s[i])
           Is(f) == f = [i \in 0..m |-> IF i = 0 THEN <<>> ELSE Kept(f[i - 1], i)]
           step == [i \in 1..m |-> [x \in Seq(S) |-> Kept(x, i)]]
           kept == CHOOSE f : Is(f)
<1>0. m \in Nat /\ j \in Nat /\ <<>> \in Seq(S) /\ \A i \in 1..m : s[i] \in S
  OBVIOUS
<1>1. Retained(s, name) = kept[m]
  BY DEF Retained
<1>2. step \in [1..m -> [Seq(S) -> Seq(S)]]
  <2>1. \A i \in 1..m : \A x \in Seq(S) : Kept(x, i) \in Seq(S)
    BY <1>0
  <2> HIDE DEF Kept
  <2> QED BY <2>1
<1>3. PICK f : IsRecursion(Seq(S), <<>>, step, f, m)
  <2> HIDE DEF step, m
  <2> QED BY <1>0, <1>2, RecursionExists
<1>4. Is(f)
  <2>1. f \in [0..m -> Seq(S)] /\ f[0] = <<>> /\ \A i \in 1..m : f[i] = step[i][f[i - 1]]
    BY <1>3 DEF IsRecursion
  <2>2. \A i \in 1..m : i - 1 \in 0..m
    BY <1>0
  <2>3. \A i \in 1..m : f[i] = Kept(f[i - 1], i)
    <3> HIDE DEF Kept
    <3> QED BY <2>1, <2>2
  <2> HIDE DEF step, Kept
  <2> QED BY <1>0, <2>1, <2>3
<1>5. Is(kept)
  <2> HIDE DEF Is
  <2> QED BY <1>4
<1> HIDE DEF kept
<1>6. kept[0] = <<>> /\ \A i \in 1..m : kept[i] = Kept(kept[i - 1], i)
  <2> HIDE DEF Kept
  <2> QED BY <1>0, <1>5
<1> DEFINE L(i) == IF i < j THEN i ELSE i - 1
           Good(i) == /\ kept[i] \in Seq(S) /\ Len(kept[i]) = L(i)
                      /\ \A x \in 1..L(i) : kept[i][x] = IF x < j THEN s[x] ELSE s[x + 1]
           Bad == {i \in 0..m : ~Good(i)}
<1>7. Bad = {}
  <2>1. SUFFICES ASSUME Bad # {} PROVE FALSE
    OBVIOUS
  <2>2. PICK i \in Bad : \A l \in Bad : i <= l
    <3>1. Bad \subseteq Nat
      BY <1>0
    <3> HIDE DEF Bad
    <3> QED BY <2>1, <3>1, MinExists
  <2>3. i \in 0..m /\ ~Good(i)
    BY <2>2
  <2>4. i # 0
    <3>1. L(0) = 0 /\ 1..L(0) = {}
      BY <1>0
    <3>2. Len(<<>>) = 0
      OBVIOUS
    <3> HIDE DEF L
    <3>3. Good(0)
      BY <1>0, <1>6, <3>1, <3>2
    <3> QED BY <2>3, <3>3
  <2>5. i \in 1..m /\ i - 1 \in 0..m /\ i - 1 \notin Bad
    <3> HIDE DEF Bad
    <3> QED BY <1>0, <2>2, <2>3, <2>4
  <2>6. Good(i - 1)
    BY <2>5
  <2> DEFINE k == kept[i - 1]
  <2>7. kept[i] = Kept(k, i) /\ s[i] \in S
    BY <1>0, <1>6, <2>5
  <2>8. CASE i = j
    <3>1. kept[i] = k /\ L(i) = L(i - 1)
      BY <2>7, <2>8, <1>0
    <3> QED BY <2>3, <2>6, <3>1
  <2>9. CASE i # j
    <3>1. kept[i] = Append(k, s[i])
      BY <2>5, <2>7, <2>9
    <3>2. k \in Seq(S) /\ Len(k) = L(i - 1) /\ L(i) = L(i - 1) + 1 /\ L(i) \in Nat
      BY <1>0, <2>5, <2>6, <2>9
    <3>3. \A x \in 1..L(i - 1) : k[x] = IF x < j THEN s[x] ELSE s[x + 1]
      BY <2>6
    <3>4. s[i] = IF L(i) < j THEN s[L(i)] ELSE s[L(i) + 1]
      BY <1>0, <2>5, <2>9
    <3> HIDE DEF L, k
    <3>5. kept[i] \in Seq(S) /\ Len(kept[i]) = L(i)
      BY <2>7, <3>1, <3>2
    <3>6. \A x \in 1..L(i) : kept[i][x] = IF x < j THEN s[x] ELSE s[x + 1]
      <4> TAKE x \in 1..L(i)
      <4>1. CASE x = L(i)
        BY <2>7, <3>1, <3>2, <3>4, <4>1
      <4>2. CASE x # L(i)
        <5>1. x \in 1..L(i - 1)
          BY <3>2, <4>2
        <5>2. kept[i][x] = k[x]
          BY <2>7, <3>1, <3>2, <5>1
        <5> QED BY <3>3, <5>1, <5>2
      <4> QED BY <4>1, <4>2
    <3>7. Good(i)
      BY <3>5, <3>6
    <3> QED BY <2>3, <3>7
  <2> QED BY <2>8, <2>9
<1>8. Good(m)
  <2>1. m \in 0..m
    BY <1>0
  <2> QED BY <1>7, <2>1
<1>9. L(m) = m - 1
  BY <1>0
<1>10. /\ kept[m] \in Seq(S) /\ Len(kept[m]) = m - 1
       /\ \A x \in 1..(m - 1) : kept[m][x] = IF x < j THEN s[x] ELSE s[x + 1]
  BY <1>8, <1>9
<1>11. /\ WithoutItem(s, j) \in Seq(S) /\ Len(WithoutItem(s, j)) = m - 1
       /\ \A x \in 1..(m - 1) : WithoutItem(s, j)[x] = IF x < j THEN s[x] ELSE s[x + 1]
  BY WithoutItemIs
<1> HIDE DEF Good, L, Kept
<1>12. kept[m] = WithoutItem(s, j)
  <2> DEFINE a == kept[m]
             b == WithoutItem(s, j)
  <2>1. a \in Seq(S) /\ b \in Seq(S) /\ Len(a) = Len(b)
    BY <1>10, <1>11
  <2>2. \A x \in 1..Len(a) : a[x] = b[x]
    BY <1>10, <1>11
  <2> HIDE DEF a, b
  <2>3. a = b
    BY <2>1, <2>2, SeqEqual
  <2> QED BY <2>3 DEF a, b
<1> QED BY <1>1, <1>12
-----------------------------------------------------------------------------
(* Namespaces *)

(* Paths: what is below one, and what a path is below. *)
LEMMA PathFacts ==
    ASSUME NEW p, IsSequence(p)
    PROVE  /\ Len(p) \in Nat
           /\ \A name : /\ Parent(Append(p, name)) = p /\ Last(Append(p, name)) = name
                        /\ Len(Append(p, name)) = Len(p) + 1
           /\ p # <<>> => /\ Append(Parent(p), Last(p)) = p /\ IsSequence(Parent(p))
                          /\ Len(p) = Len(Parent(p)) + 1
<1> DEFINE S == {p[i] : i \in DOMAIN p}
<1>1. p \in Seq(S)
  BY DEF IsSequence
<1> HIDE DEF S
<1>2. Len(p) \in Nat
  BY <1>1
<1>3. ASSUME NEW name
      PROVE  /\ Parent(Append(p, name)) = p /\ Last(Append(p, name)) = name
             /\ Len(Append(p, name)) = Len(p) + 1
  <2> DEFINE T == S \cup {name}
             q == Append(p, name)
  <2>1. p \in Seq(T) /\ name \in T
    BY <1>1, SeqMonotonic
  <2> HIDE DEF T
  <2>2. q \in Seq(T) /\ Len(q) = Len(p) + 1 /\ q[Len(p) + 1] = name /\ \A i \in 1..Len(p) : q[i] = p[i]
    BY <2>1
  <2> HIDE DEF q
  <2>3. Len(q) - 1 = Len(p) /\ Len(p) <= Len(q)
    BY <1>2, <2>2
  <2>4. /\ SubSeq(q, 1, Len(p)) \in Seq(T) /\ Len(SubSeq(q, 1, Len(p))) = Len(p)
        /\ \A i \in 1..Len(p) : SubSeq(q, 1, Len(p))[i] = q[i]
    BY <1>2, <2>2, <2>3
  <2>5. SubSeq(q, 1, Len(p)) = p
    <3> DEFINE r == SubSeq(q, 1, Len(p))
    <3>1. r \in Seq(T) /\ Len(r) = Len(p) /\ \A i \in 1..Len(r) : r[i] = p[i]
      BY <2>2, <2>4
    <3> HIDE DEF r
    <3>2. r = p
      BY <2>1, <3>1, SeqEqual
    <3> QED BY <3>2 DEF r
  <2>6. Parent(q) = p /\ Last(q) = name
    BY <2>2, <2>3, <2>5 DEF Parent, Last
  <2> QED BY <2>2, <2>6 DEF q
<1>4. ASSUME p # <<>>
      PROVE  /\ Append(Parent(p), Last(p)) = p /\ IsSequence(Parent(p))
             /\ Len(p) = Len(Parent(p)) + 1
  <2>1. Len(p) # 0 /\ Len(p) - 1 \in Nat /\ p[Len(p)] \in S
    BY <1>1, <1>4
  <2> DEFINE m == Len(p) - 1
             u == SubSeq(p, 1, m)
             q == Append(u, p[Len(p)])
  <2>3. Len(p) = m + 1 /\ m \in Nat /\ m <= Len(p)
    BY <1>2, <2>1
  <2> HIDE DEF m
  <2>2. u \in Seq(S) /\ Len(u) = m /\ \A i \in 1..m : u[i] = p[i]
    BY <1>1, <2>3
  <2> HIDE DEF u
  <2>4. q \in Seq(S) /\ Len(q) = m + 1 /\ q[m + 1] = p[Len(p)] /\ \A i \in 1..m : q[i] = u[i]
    BY <2>1, <2>2
  <2> HIDE DEF q
  <2>5. \A i \in 1..Len(q) : q[i] = p[i]
    <3> TAKE i \in 1..Len(q)
    <3>1. i \in 1..m \/ i = m + 1
      BY <2>3, <2>4
    <3> QED BY <2>2, <2>3, <2>4, <3>1
  <2>6. q = p
    BY <1>1, <2>3, <2>4, <2>5, SeqEqual
  <2>7. IsSequence(u)
    BY <2>2, SequenceType
  <2> QED BY <2>2, <2>3, <2>6, <2>7 DEF q, u, m, Parent, Last
<1> QED BY <1>2, <1>3, <1>4

(* Below a directory, a directory or a value can be put where there is none, *)
(* and a value can replace a value.                                          *)
LEMMA WithIsNamespace ==
    ASSUME NEW t, IsNamespace(t), NEW p, IsDbPath(p), NS!MayHold(t, p), NEW v,
           IsValue(v) \/ (v = NS!Dir /\ p \notin DOMAIN t)
    PROVE  IsNamespace(NS!With(t, p, v))
<1> DEFINE w == NS!With(t, p, v)
<1>1. /\ w = [q \in DOMAIN w |-> w[q]] /\ DOMAIN w = DOMAIN t \cup {p}
      /\ w[p] = v /\ \A q \in DOMAIN t : q # p => w[q] = t[q]
  BY DEF NS!With
<1> HIDE DEF w
<1>2. p # <<>> /\ NS!IsDirAt(t, NS!Parent(p)) /\ ~NS!IsDirAt(t, p)
  BY DEF NS!MayHold
<1>3. \A q : NS!IsDirAt(t, q) => NS!IsDirAt(w, q)
  BY <1>1, <1>2 DEF NS!IsDirAt
<1>4. ASSUME NEW q \in DOMAIN w
      PROVE  /\ IsDbPath(q)
             /\ w[q] = NS!Dir \/ IsValue(w[q])
             /\ q # <<>> => NS!IsDirAt(w, NS!Parent(q))
  <2>1. CASE q = p
    BY <1>1, <1>2, <1>3, <2>1
  <2>2. CASE q # p
    BY <1>1, <1>3, <1>4, <2>2 DEF IsNamespace
  <2> QED BY <2>1, <2>2
<1>5. NS!IsDirAt(w, <<>>)
  BY <1>3 DEF IsNamespace
<1>6. IsNamespace(w)
  BY <1>1, <1>4, <1>5 DEF IsNamespace
<1> QED BY <1>6 DEF w

(* What has nothing below it can be taken away, the root excepted. *)
LEMMA WithoutIsNamespace ==
    ASSUME NEW t, IsNamespace(t), NEW p, p # <<>>, NS!Below(t, p) = {}
    PROVE  IsNamespace(NS!Without(t, p))
<1> DEFINE w == NS!Without(t, p)
<1>1. /\ w = [q \in DOMAIN w |-> w[q]] /\ DOMAIN w = DOMAIN t \ {p}
      /\ \A q \in DOMAIN w : w[q] = t[q]
  BY DEF NS!Without
<1> HIDE DEF w
<1>2. \A q : NS!IsDirAt(t, q) /\ q # p => NS!IsDirAt(w, q)
  BY <1>1 DEF NS!IsDirAt
<1>3. ASSUME NEW q \in DOMAIN w, q # <<>> PROVE NS!Parent(q) # p
  <2>1. q \in DOMAIN t /\ IsSequence(q)
    BY <1>1 DEF IsNamespace, IsDbPath, IsPath
  <2>2. Len(q) = Len(Parent(q)) + 1
    BY <1>3, <2>1, PathFacts
  <2>3. Parent(q) = NS!Parent(q)
    BY DEF Parent, NS!Parent
  <2> HIDE DEF NS!Parent, Parent
  <2> QED BY <2>1, <2>2, <2>3 DEF NS!Below
<1>4. ASSUME NEW q \in DOMAIN w
      PROVE  /\ IsDbPath(q)
             /\ w[q] = NS!Dir \/ IsValue(w[q])
             /\ q # <<>> => NS!IsDirAt(w, NS!Parent(q))
  <2>1. /\ q \in DOMAIN t /\ IsDbPath(q) /\ w[q] = t[q]
        /\ t[q] = NS!Dir \/ IsValue(t[q])
        /\ q # <<>> => NS!IsDirAt(t, NS!Parent(q))
    BY <1>1, <1>4 DEF IsNamespace
  <2> QED BY <1>2, <1>3, <1>4, <2>1
<1>5. NS!IsDirAt(w, <<>>)
  BY <1>2 DEF IsNamespace
<1>6. IsNamespace(w)
  BY <1>1, <1>4, <1>5 DEF IsNamespace
<1> QED BY <1>6 DEF w

(* An operation, as the handlers and the daemon's other clients use it. *)
IsCall(o) ==
    /\ o.op \in {"mkdir", "set", "delete"} /\ IsDbPath(o.path)
    /\ o.op = "set" => IsValue(o.value)

(* Such operations leave a namespace. *)
LEMMA EffectIsNamespace ==
    ASSUME NEW t, IsNamespace(t), NEW o, IsCall(o), NS!Allowed(t, o)
    PROVE  IsNamespace(NS!Effect(t, o))
<1>1. CASE o.op = "mkdir"
  <2>1. NS!Effect(t, o) = IF o.path \in DOMAIN t THEN t ELSE NS!With(t, o.path, NS!Dir)
    BY <1>1 DEF NS!Effect
  <2>2. o.path = <<>> \/ (o.path \notin DOMAIN t /\ NS!MayHold(t, o.path))
    BY <1>1 DEF NS!Allowed
  <2>3. <<>> \in DOMAIN t
    BY DEF IsNamespace, NS!IsDirAt
  <2> QED BY <2>1, <2>2, <2>3, WithIsNamespace DEF IsCall
<1>2. CASE o.op = "set"
  <2>1. NS!Effect(t, o) = NS!With(t, o.path, o.value)
    BY <1>2 DEF NS!Effect
  <2>2. NS!MayHold(t, o.path)
    BY <1>2 DEF NS!Allowed
  <2> QED BY <1>2, <2>1, <2>2, WithIsNamespace DEF IsCall
<1>3. CASE o.op = "delete"
  <2>1. NS!Effect(t, o) = NS!Without(t, o.path)
    BY <1>3 DEF NS!Effect
  <2>2. o.path # <<>> /\ NS!Below(t, o.path) = {}
    BY <1>3 DEF NS!Allowed
  <2> QED BY <2>1, <2>2, WithoutIsNamespace
<1> QED BY <1>1, <1>2, <1>3 DEF IsCall

(* What a value of each type is. *)
LEMMA ValueForms ==
    ASSUME NEW v, IsValue(v)
    PROVE  /\ IsMember(v) /\ v # NS!Dir
           /\ IsScalar(v) \/ v.ty \in {"hash", "list", "set", "tree"}
           /\ v.ty = "hash" => IsMap(v.map) /\ \A k \in DOMAIN v.map : IsSequence(k)
           /\ v.ty = "list" => IsSequence(v.items) /\ \A i \in DOMAIN v.items : IsMember(v.items[i])
           /\ v.ty = "set" =>
                 /\ IsSequence(v.members)
                 /\ \A i \in DOMAIN v.members :
                       IsMember(v.members[i]) /\ IsSequence(set_member_name(v.members[i]))
                 /\ \A i, j \in DOMAIN v.members :
                       set_member_name(v.members[i]) = set_member_name(v.members[j]) => i = j
           /\ v.ty = "tree" => IsMap(v.entries) /\ \A k \in DOMAIN v.entries : IsScalarValue(k)
<1>1. CASE IsScalarValue(v)
  <2>1. IsScalar(v) /\ v.ty \in ScalarTypes
    BY <1>1, ScalarBytesType DEF IsScalar
  <2>2. v.ty \notin {"hash", "list", "set", "tree", "directory"}
    BY <2>1 DEF ScalarTypes
  <2> QED BY <1>1, <2>1, <2>2 DEF IsMember, NS!Dir
<1>2. CASE ~IsScalarValue(v)
  <2>1. v.ty \in {"hash", "list", "set", "tree"}
    BY <1>2 DEF IsValue
  <2>2. v.ty \notin ScalarTypes /\ v.ty # "directory"
    BY <2>1 DEF ScalarTypes
  <2>3. v # NS!Dir /\ IsMember(v)
    BY <2>2 DEF NS!Dir, IsMember, IsScalar
  <2>4. CASE v.ty = "hash"
    BY <1>2, <2>1, <2>3, <2>4 DEF IsValue
  <2>5. CASE v.ty = "list"
    BY <1>2, <2>1, <2>3, <2>5 DEF IsValue
  <2>6. CASE v.ty = "set"
    BY <1>2, <2>1, <2>3, <2>6 DEF IsValue
  <2>7. CASE v.ty = "tree"
    BY <1>2, <2>1, <2>3, <2>7 DEF IsValue
  <2> QED BY <2>1, <2>4, <2>5, <2>6, <2>7
<1> QED BY <1>1, <1>2

(* What makes a hash a value, ... *)
LEMMA HashIsValue ==
    ASSUME NEW m, IsMap(m), \A k \in DOMAIN m : IsSequence(k)
    PROVE  IsValue(Hash(m)) /\ Hash(m).ty = "hash" /\ Hash(m).map = m
BY DEF IsValue, Hash

(* ... a tree, ... *)
LEMMA TreeIsValue ==
    ASSUME NEW m, IsMap(m), \A k \in DOMAIN m : IsScalarValue(k)
    PROVE  IsValue(Tree(m)) /\ Tree(m).ty = "tree" /\ Tree(m).entries = m
BY DEF IsValue, Tree

(* ... a list, ... *)
LEMMA ListIsValue ==
    ASSUME NEW s, IsSequence(s), \A i \in DOMAIN s : IsMember(s[i])
    PROVE  IsValue(List(s)) /\ List(s).ty = "list" /\ List(s).items = s
BY DEF IsValue, List

(* ... and a set. *)
LEMMA SetIsValue ==
    ASSUME NEW s, IsSequence(s),
           \A i \in DOMAIN s : IsMember(s[i]) /\ IsSequence(set_member_name(s[i])),
           \A i, j \in DOMAIN s : set_member_name(s[i]) = set_member_name(s[j]) => i = j
    PROVE  IsValue(Set(s)) /\ Set(s).ty = "set" /\ Set(s).members = s
BY DEF IsValue, Set

(* Maps with one entry more or less. *)
LEMMA MapChange ==
    ASSUME NEW m, IsMap(m), NEW k
    PROVE  /\ IsMap(Drop(m, k))
           /\ \A v : IsMember(v) => IsMap(With(m, k, v))
<1>1. IsFiniteSet(DOMAIN m) /\ \A x \in DOMAIN m : IsMember(m[x])
  BY DEF IsMap
<1>2. IsFiniteSet(DOMAIN m \ {k}) /\ IsFiniteSet(DOMAIN m \cup {k})
  BY <1>1, FS_AddElement, FS_RemoveElement
<1>3. IsMap(Drop(m, k))
  BY <1>1, <1>2 DEF IsMap, Drop
<1>4. ASSUME NEW v, IsMember(v) PROVE IsMap(With(m, k, v))
  BY <1>1, <1>2, <1>4 DEF IsMap, With
<1> QED BY <1>3, <1>4

(* The index of a list that a name means. *)
LEMMA IndexType ==
    ASSUME NEW v, IsSequence(v.items), NEW name, IsSequence(name), NEW i \in Index(v, name)
    PROVE  i \in 1..Len(v.items) /\ Len(v.items) \in Nat /\ i - 1 \in Nat /\ ParseNat(name) = {i - 1}
<1>1. ParseNat(name) \subseteq Nat /\ \A a, b \in ParseNat(name) : a = b
  BY ParseFacts DEF IsSequence
<1>2. PICK n \in ParseNat(name) : i = n + 1 /\ i <= Len(v.items)
  BY DEF Index
<1>3. n \in Nat /\ Len(v.items) \in Nat
  BY <1>1, <1>2, PathFacts
<1>4. ParseNat(name) = {n}
  BY <1>1, <1>2
<1>5. n = i - 1
  BY <1>2, <1>3
<1> QED BY <1>2, <1>3, <1>4, <1>5

(* The member of a set that a name means: its digest is no other's. *)
LEMMA NamedIs ==
    ASSUME NEW v, IsValue(v), v.ty = "set", NEW name, NEW j \in Named(v, name)
    PROVE  /\ j \in 1..Len(v.members) /\ Named(v, name) = {j} /\ Min(Named(v, name)) = j
           /\ Retained(v.members, name) = WithoutItem(v.members, j)
<1> DEFINE s == v.members
           S == {s[i] : i \in DOMAIN s}
<1>1. s \in Seq(S) /\ \A i, l \in DOMAIN s : set_member_name(s[i]) = set_member_name(s[l]) => i = l
  BY ValueForms DEF IsSequence
<1>2. DOMAIN s = 1..Len(s)
  BY <1>1
<1>3. j \in 1..Len(s) /\ set_member_name(s[j]) = name
  BY <1>2 DEF Named
<1>4. \A i \in 1..Len(s) : set_member_name(s[i]) = name => i = j
  BY <1>1, <1>2, <1>3
<1> HIDE DEF S
<1>5. Retained(s, name) = WithoutItem(s, j)
  BY <1>1, <1>3, <1>4, RetainedIs
<1>6. Named(v, name) = {j}
  BY <1>2, <1>3, <1>4 DEF Named
<1>7. Min({j}) = j
  <2>1. j \in Nat
    BY <1>3
  <2> QED BY <2>1 DEF Min
<1> QED BY <1>3, <1>5, <1>6, <1>7

(* What unlink makes of a structured value is one. *)
LEMMA UnlinkIsValue ==
    ASSUME NEW v, IsValue(v), NEW name, v.ty = "list" => IsSequence(name),
           NEW w \in project_unlink(v, name)
    PROVE  IsValue(w) /\ w.ty = v.ty
<1>1. CASE v.ty = "hash"
  <2>1. PICK k : w = Hash(Drop(v.map, k))
    BY <1>1 DEF project_unlink
  <2>2. IsMap(v.map) /\ \A x \in DOMAIN v.map : IsSequence(x)
    BY <1>1, ValueForms
  <2>3. DOMAIN Drop(v.map, k) \subseteq DOMAIN v.map
    BY DEF Drop
  <2> QED BY <1>1, <2>1, <2>2, <2>3, MapChange, HashIsValue
<1>2. CASE v.ty = "tree"
  <2>1. PICK k : w = Tree(Drop(v.entries, k))
    BY <1>2 DEF project_unlink
  <2>2. IsMap(v.entries) /\ \A x \in DOMAIN v.entries : IsScalarValue(x)
    BY <1>2, ValueForms
  <2>3. DOMAIN Drop(v.entries, k) \subseteq DOMAIN v.entries
    BY DEF Drop
  <2> QED BY <1>2, <2>1, <2>2, <2>3, MapChange, TreeIsValue
<1>3. CASE v.ty = "list"
  <2> DEFINE s == v.items
             S == {s[i] : i \in DOMAIN s}
  <2>1. PICK j \in Index(v, name) : w = List(WithoutItem(s, j))
    BY <1>3 DEF project_unlink
  <2>2. s \in Seq(S) /\ IsSequence(s) /\ \A i \in DOMAIN s : IsMember(s[i])
    BY <1>3, ValueForms DEF IsSequence
  <2>3. j \in 1..Len(s) /\ Len(s) \in Nat /\ \A x \in S : IsMember(x)
    BY <1>3, <2>1, <2>2, IndexType
  <2> HIDE DEF S
  <2> DEFINE z == WithoutItem(s, j)
  <2>4. z \in Seq(S)
    BY <2>2, <2>3, WithoutItemIs
  <2> HIDE DEF z
  <2>5. \A i \in DOMAIN z : z[i] \in S
    BY <2>4
  <2>6. IsValue(List(z)) /\ List(z).ty = "list"
    BY <2>3, <2>4, <2>5, SequenceType, ListIsValue
  <2> QED BY <1>3, <2>1, <2>6 DEF z
<1>4. CASE v.ty = "set"
  <2> DEFINE s == v.members
             S == {s[i] : i \in DOMAIN s}
  <2>1. PICK j \in Named(v, name) : w = Set(Retained(s, name))
    BY <1>4 DEF project_unlink
  <2>2. /\ s \in Seq(S) /\ \A i \in DOMAIN s : IsMember(s[i]) /\ IsSequence(set_member_name(s[i]))
        /\ \A i, l \in DOMAIN s : set_member_name(s[i]) = set_member_name(s[l]) => i = l
    BY <1>4, ValueForms DEF IsSequence
  <2>3. j \in 1..Len(s) /\ Len(s) \in Nat /\ \A x \in S : IsMember(x) /\ IsSequence(set_member_name(x))
    BY <1>4, <2>1, <2>2, NamedIs
  <2> HIDE DEF S
  <2> DEFINE z == WithoutItem(s, j)
  <2>4. /\ z \in Seq(S) /\ Len(z) = Len(s) - 1
        /\ \A i \in 1..(Len(s) - 1) : z[i] = IF i < j THEN s[i] ELSE s[i + 1]
    BY <2>2, <2>3, WithoutItemIs
  <2>5. w = Set(z)
    BY <1>4, <2>1, NamedIs
  <2> HIDE DEF z
  <2>6. \A i \in DOMAIN z : z[i] \in S /\ i \in 1..(Len(s) - 1)
    BY <2>3, <2>4
  <2>7. \A i, l \in DOMAIN z : set_member_name(z[i]) = set_member_name(z[l]) => i = l
    <3> TAKE i, l \in DOMAIN z
    <3> DEFINE a == IF i < j THEN i ELSE i + 1
               b == IF l < j THEN l ELSE l + 1
    <3>1. i \in 1..(Len(s) - 1) /\ l \in 1..(Len(s) - 1) /\ j \in Nat /\ DOMAIN s = 1..Len(s)
      BY <2>2, <2>3, <2>6
    <3>2. a \in 1..Len(s) /\ b \in 1..Len(s) /\ (a = b => i = l)
      BY <2>3, <3>1
    <3>3. z[i] = s[a] /\ z[l] = s[b]
      BY <2>4, <3>1
    <3> HIDE DEF a, b
    <3> QED BY <2>2, <3>1, <3>2, <3>3
  <2>8. IsValue(Set(z)) /\ Set(z).ty = "set"
    BY <2>3, <2>4, <2>6, <2>7, SequenceType, SetIsValue
  <2> QED BY <1>4, <2>5, <2>8
<1>5. CASE v.ty \notin {"hash", "list", "set", "tree"}
  <2>1. project_unlink(v, name) = {}
    BY <1>5 DEF project_unlink
  <2> QED BY <2>1
<1> QED BY <1>1, <1>2, <1>3, <1>4, <1>5

-----------------------------------------------------------------------------
(* Paths as the database takes them *)

(* The places of a sequence. *)
LEMMA SequenceDomain ==
    ASSUME NEW s, IsSequence(s)
    PROVE  DOMAIN s = 1..Len(s) /\ Len(s) \in Nat
<1> DEFINE S == {s[i] : i \in DOMAIN s}
<1>1. s \in Seq(S)
  BY DEF IsSequence
<1> HIDE DEF S
<1> QED BY <1>1

(* A part of a sequence is one, wherever it starts and ends. *)
LEMMA PartIs ==
    ASSUME NEW s, IsSequence(s), NEW m \in Int, NEW n \in Int, 1 <= m, n <= Len(s)
    PROVE  IsSequence(SubSeq(s, m, n))
<1> DEFINE S == {s[i] : i \in DOMAIN s}
<1>1. DOMAIN s = 1..Len(s) /\ Len(s) \in Nat
  BY SequenceDomain
<1>2. \A i \in m..n : i \in DOMAIN s
  BY <1>1
<1>3. \A i \in m..n : s[i] \in S
  BY <1>2
<1> HIDE DEF S
<1>4. SubSeq(s, m, n) \in Seq(S)
  BY <1>3, SubSeqProperties
<1> QED BY <1>4, SequenceType

(* What is parsed is the path up to a place, behind which it is empty. *)
LEMMA ParsedUpTo ==
    ASSUME NEW p, IsSequence(p), NEW m \in 0..Len(p)
    PROVE  /\ IsSequence(SubSeq(p, 1, m)) /\ Len(SubSeq(p, 1, m)) = m
           /\ DOMAIN SubSeq(p, 1, m) = 1..m /\ \A i \in 1..m : SubSeq(p, 1, m)[i] = p[i]
<1> DEFINE c == SubSeq(p, 1, m)
           S == {p[i] : i \in DOMAIN p}
<1>1. DOMAIN p = 1..Len(p) /\ Len(p) \in Nat
  BY SequenceDomain
<1>2. m \in Nat /\ m <= Len(p)
  BY <1>1
<1>3. \A i \in 1..m : p[i] \in S
  BY <1>1, <1>2
<1> HIDE DEF S
<1>4. /\ c \in Seq(S) /\ Len(c) = IF 1 <= m THEN m - 1 + 1 ELSE 0
      /\ \A i \in 1..(m - 1 + 1) : c[i] = p[1 + i - 1]
  BY <1>2, <1>3, SubSeqProperties
<1> HIDE DEF c
<1>5. Len(c) = m
  BY <1>2, <1>4
<1>6. \A i \in 1..m : c[i] = p[i]
  <2> TAKE i \in 1..m
  <2>1. i \in 1..(m - 1 + 1) /\ 1 + i - 1 = i
    BY <1>2
  <2> QED BY <1>4, <2>1
<1>7. IsSequence(c) /\ DOMAIN c = 1..m
  BY <1>4, <1>5, SequenceType
<1> QED BY <1>5, <1>6, <1>7 DEF c

(* The paths of the database are what is parsed. *)
LEMMA ParsedIs ==
    ASSUME NEW p, IsPath(p), NEW c \in parse(p)
    PROVE  IsDbPath(c)
<1>1. PICK m \in 0..Len(p) : c = SubSeq(p, 1, m) /\ \A i \in 1..m : IsSegment(p[i])
  BY DEF parse
<1>2. IsSequence(p) /\ DOMAIN p = 1..Len(p) /\ Len(p) \in Nat
  BY SequenceDomain DEF IsPath
<1>3. IsSequence(c) /\ DOMAIN c = 1..m /\ \A i \in 1..m : c[i] = p[i]
  BY <1>1, <1>2, ParsedUpTo
<1>4. \A i \in 1..m : i \in DOMAIN p
  BY <1>2
<1>5. \A i \in DOMAIN c : IsSequence(c[i]) /\ IsSegment(c[i])
  BY <1>1, <1>3, <1>4 DEF IsPath
<1> QED BY <1>3, <1>5 DEF IsDbPath, IsPath

(* Only one is: an empty segment is none. *)
LEMMA ParseOne ==
    ASSUME NEW p, IsSequence(p), NEW c \in parse(p), NEW d \in parse(p)
    PROVE  c = d
<1>0. Len(p) \in Nat
  BY SequenceDomain
<1>1. PICK m \in 0..Len(p) : /\ c = SubSeq(p, 1, m) /\ \A i \in 1..m : IsSegment(p[i])
                             /\ \A i \in (m + 1)..Len(p) : p[i] = <<>>
  BY DEF parse
<1>2. PICK n \in 0..Len(p) : /\ d = SubSeq(p, 1, n) /\ \A i \in 1..n : IsSegment(p[i])
                             /\ \A i \in (n + 1)..Len(p) : p[i] = <<>>
  BY DEF parse
<1>3. ~IsSegment(<<>>)
  BY DEF IsSegment
<1>4. ~(m < n)
  <2> SUFFICES ASSUME m < n PROVE FALSE
    OBVIOUS
  <2>1. m + 1 \in 1..n /\ m + 1 \in (m + 1)..Len(p)
    BY <1>0
  <2>2. IsSegment(p[m + 1]) /\ p[m + 1] = <<>>
    BY <1>1, <1>2, <2>1
  <2> QED BY <1>3, <2>2
<1>5. ~(n < m)
  <2> SUFFICES ASSUME n < m PROVE FALSE
    OBVIOUS
  <2>1. n + 1 \in 1..m /\ n + 1 \in (n + 1)..Len(p)
    BY <1>0
  <2>2. IsSegment(p[n + 1]) /\ p[n + 1] = <<>>
    BY <1>1, <1>2, <2>1
  <2> QED BY <1>3, <2>2
<1>6. m = n
  BY <1>0, <1>4, <1>5
<1> QED BY <1>1, <1>2, <1>6

(* What a handler parses, if it can. *)
LEMMA PathOfIs ==
    ASSUME NEW p, IsPath(p), parse(p) # {}
    PROVE  parse(p) = {PathOf(p)} /\ IsDbPath(PathOf(p))
<1>1. PathOf(p) \in parse(p)
  BY DEF PathOf
<1> HIDE DEF PathOf
<1>2. \A c \in parse(p) : c = PathOf(p)
  BY <1>1, ParseOne DEF IsPath
<1>3. IsDbPath(PathOf(p))
  BY <1>1, ParsedIs
<1> QED BY <1>1, <1>2, <1>3

(* A path of the database is parsed as it is. *)
LEMMA ParseSame ==
    ASSUME NEW p, IsDbPath(p)
    PROVE  parse(p) = {p} /\ PathOf(p) = p
<1>1. IsPath(p) /\ IsSequence(p) /\ DOMAIN p = 1..Len(p) /\ Len(p) \in Nat
  BY SequenceDomain DEF IsDbPath, IsPath
<1>2. SubSeq(p, 1, Len(p)) = p
  <2> DEFINE c == SubSeq(p, 1, Len(p))
             S == {p[i] : i \in DOMAIN p}
  <2>1. /\ Len(p) \in 0..Len(p) /\ p \in Seq(S)
    BY <1>1 DEF IsSequence
  <2>2. Len(c) = Len(p) /\ IsSequence(c) /\ \A i \in 1..Len(p) : c[i] = p[i]
    BY <1>1, <2>1, ParsedUpTo
  <2>3. c \in Seq({c[i] : i \in DOMAIN c}) /\ DOMAIN c = 1..Len(p)
    BY <2>2, SequenceDomain DEF IsSequence
  <2>4. \A i \in DOMAIN c : c[i] \in S
    BY <1>1, <2>2, <2>3
  <2> HIDE DEF S
  <2>5. {c[i] : i \in DOMAIN c} \subseteq S
    BY <2>4
  <2>6. c \in Seq(S)
    BY <2>3, <2>5, SeqMonotonic
  <2> HIDE DEF c
  <2>7. c = p
    BY <2>1, <2>2, <2>6, SeqEqual
  <2> QED BY <2>7 DEF c
<1>3. p \in parse(p)
  <2>1. Len(p) \in 0..Len(p) /\ \A i \in (Len(p) + 1)..Len(p) : p[i] = <<>>
    BY <1>1
  <2>2. \A i \in 1..Len(p) : IsSegment(p[i])
    BY <1>1 DEF IsDbPath
  <2> QED BY <1>2, <2>1, <2>2 DEF parse
<1>4. parse(p) = {PathOf(p)}
  BY <1>1, <1>3, PathOfIs
<1> QED BY <1>3, <1>4

(* The segments of a path are texts. *)
LEMMA LastIsText ==
    ASSUME NEW p, IsPath(p), p # <<>>
    PROVE  IsSequence(Last(p)) /\ (IsDbPath(p) => IsSegment(Last(p)))
<1>1. p \in Seq({p[i] : i \in DOMAIN p})
  BY DEF IsPath, IsSequence
<1>2. Len(p) \in DOMAIN p
  <2> HIDE DEF IsPath, IsSequence
  <2> QED BY <1>1
<1> QED BY <1>2 DEF IsPath, IsDbPath, Last

(* So are those of a path below it, ... *)
LEMMA ChildIsPath ==
    ASSUME NEW p, IsPath(p), NEW name, IsSequence(name)
    PROVE  IsPath(Append(p, name))
<1> DEFINE S == {p[i] : i \in DOMAIN p} \cup {name}
<1>1. p \in Seq(S) /\ \A x \in S : IsSequence(x)
  <2>1. p \in Seq({p[i] : i \in DOMAIN p})
    BY DEF IsPath, IsSequence
  <2> QED BY <2>1, SeqMonotonic DEF IsPath
<1>2. name \in S
  OBVIOUS
<1> HIDE DEF S
<1>3. \A i \in DOMAIN Append(p, name) : Append(p, name)[i] \in S
  BY <1>1, <1>2
<1>4. IsSequence(Append(p, name))
  BY ChildType DEF IsPath
<1> QED BY <1>1, <1>3, <1>4 DEF IsPath

(* ... which is one of the database, if its name is a segment. *)
LEMMA ChildIsDbPath ==
    ASSUME NEW p, IsDbPath(p), NEW name, IsSequence(name), IsSegment(name)
    PROVE  IsDbPath(Append(p, name))
<1> DEFINE S == {p[i] : i \in DOMAIN p} \cup {name}
<1>1. p \in Seq(S) /\ \A x \in S : IsSegment(x)
  <2>1. p \in Seq({p[i] : i \in DOMAIN p})
    BY DEF IsDbPath, IsPath, IsSequence
  <2> QED BY <2>1, SeqMonotonic DEF IsDbPath
<1>2. name \in S
  OBVIOUS
<1> HIDE DEF S
<1>3. \A i \in DOMAIN Append(p, name) : Append(p, name)[i] \in S
  BY <1>1, <1>2
<1>4. IsPath(Append(p, name))
  BY ChildIsPath DEF IsDbPath
<1> QED BY <1>1, <1>3, <1>4 DEF IsDbPath

(* A text is cut into texts. *)
LEMMA SplitIsPath ==
    ASSUME NEW s, IsSequence(s)
    PROVE  IsPath(Split(s))
<1> DEFINE slashes  == {i \in DOMAIN s : s[i] = "/"}
           Upto(i)  == Cardinality({j \in slashes : j <= i})
           before(k) == {i \in slashes : Upto(i) < k}
           behind(k) == {i \in slashes : Upto(i) >= k}
           start(k) == Max({0} \cup before(k)) + 1
           end(k)   == Min({Len(s) + 1} \cup behind(k)) - 1
           n == Cardinality(slashes) + 1
           parts == [k \in 1..n |-> SubSeq(s, start(k), end(k))]
<1>1. Split(s) = parts
  BY DEF Split
<1>2. DOMAIN s = 1..Len(s) /\ Len(s) \in Nat
  BY SequenceDomain
<1>3. slashes \subseteq 1..Len(s)
  BY <1>2
<1>4. n \in Nat
  <2>1. IsFiniteSet(1..Len(s))
    BY <1>2, FS_Interval
  <2>2. IsFiniteSet(slashes)
    BY <1>3, <2>1, FS_Subset
  <2> QED BY <2>2, FS_CardinalityType
<1>5. ASSUME NEW k PROVE IsSequence(SubSeq(s, start(k), end(k)))
  <2>1. before(k) \subseteq 1..Len(s) /\ behind(k) \subseteq 1..Len(s)
    BY <1>3
  <2> DEFINE B == before(k)
             A == {Len(s) + 1} \cup behind(k)
  <2>2. B \subseteq 1..Len(s) /\ A \subseteq 1..(Len(s) + 1) /\ A # {}
    BY <1>2, <2>1
  <2> HIDE DEF A, B
  <2>3. Max({0} \cup B) \in Nat
    <3>1. CASE B = {}
      <4>1. Max({0}) = 0
        BY MaxIs
      <4> QED BY <3>1, <4>1
    <3>2. CASE B # {}
      <4>1. PICK x \in B : \A y \in B : x >= y
        BY <1>2, <2>2, <3>2, MaxExists
      <4>2. {0} \cup B \subseteq Nat /\ x \in {0} \cup B /\ \A y \in {0} \cup B : y <= x
        BY <2>2, <4>1
      <4>3. Max({0} \cup B) = x
        BY <4>2, MaxIs
      <4> QED BY <4>2, <4>3
    <3> QED BY <3>1, <3>2
  <2>4. Min(A) \in 1..(Len(s) + 1)
    <3> DEFINE l == Len(s) + 1
    <3>1. l \in Nat /\ A \subseteq 1..l
      BY <1>2, <2>2
    <3> HIDE DEF l
    <3>2. Min(A) \in 1..l
      BY <2>2, <3>1, MinIn
    <3> QED BY <3>2 DEF l
  <2> DEFINE b == Max({0} \cup B) + 1
             e == Min(A) - 1
  <2>5. b \in Int /\ e \in Int /\ 1 <= b /\ e <= Len(s)
    BY <1>2, <2>3, <2>4
  <2> HIDE DEF b, e
  <2>6. IsSequence(SubSeq(s, b, e))
    BY <2>5, PartIs
  <2> QED BY <2>6 DEF b, e, A, B
<1> HIDE DEF n, start, end
<1> DEFINE S == {parts[i] : i \in 1..n}
<1>6. parts = [i \in 1..n |-> parts[i]] /\ DOMAIN parts = 1..n
  OBVIOUS
<1>7. \A i \in DOMAIN parts : IsSequence(parts[i])
  BY <1>5
<1> HIDE DEF parts
<1>8. parts \in Seq(S)
  BY <1>4, <1>6, IsASeq
<1> HIDE DEF S
<1> QED BY <1>1, <1>7, <1>8, SequenceType DEF IsPath

(* A listed child has a path. *)
LEMMA ListedIsPath ==
    ASSUME NEW p, IsPath(p), NEW name, IsSequence(name)
    PROVE  IsPath(child_path(p, name))
<1> DEFINE q == Split(name)
           S == {p[i] : i \in DOMAIN p} \cup {q[i] : i \in DOMAIN q}
<1>1. IsPath(q)
  BY SplitIsPath
<1> HIDE DEF q
<1>2. p \in Seq(S) /\ q \in Seq(S) /\ \A x \in S : IsSequence(x)
  <2>1. p \in Seq({p[i] : i \in DOMAIN p}) /\ q \in Seq({q[i] : i \in DOMAIN q})
    BY <1>1 DEF IsPath, IsSequence
  <2>2. \A x \in S : IsSequence(x)
    BY <1>1 DEF IsPath
  <2> QED BY <2>1, <2>2, SeqMonotonic
<1> HIDE DEF S
<1>3. p \o q \in Seq(S)
  BY <1>2
<1>4. \A i \in DOMAIN (p \o q) : (p \o q)[i] \in S
  BY <1>3
<1>5. IsPath(p \o q)
  BY <1>2, <1>3, <1>4, SequenceType DEF IsPath
<1> QED BY <1>5 DEF child_path, q

-----------------------------------------------------------------------------
(* Commits *)

Errnos == {"ok", "ENOENT", "EINVAL", "EPERM", "EIO", "ENOTSUP"}

(* What a batch that makes t of the tree may come to: all of it or nothing,  *)
(* the map and the log each, and all of it if it is answered ok.             *)
Changes(r, t) ==
    /\ r.errno \in {"ok", "EIO"}
    /\ r.errno = "ok" => r.tree = t
    /\ r.tree \in {tree, t}
    /\ r.reopened \subseteq reopened \cup {t}

(* What a handler does that gives up. *)
LEMMA UnchangedIs ==
    ASSUME NEW e
    PROVE  Unchanged(e).errno = e /\ Unchanged(e).tree = tree /\ Unchanged(e).reopened = reopened
BY DEF Unchanged, Outcome

(* A commit, whatever fails in it. *)
LEMMA CommitIs ==
    ASSUME NEW t, NEW fault \in Faults
    PROVE  Changes(Commit(t, fault), t)
<1>1. /\ Replayed({t}) \subseteq reopened \cup {t}
      /\ Replayed({tree, t}) \subseteq reopened \cup {t}
  BY DEF Replayed
<1>2. CASE fault = "none"
  <2>1. Commit(t, fault) = Outcome("ok", t, Replayed({t}))
    BY <1>2 DEF Commit
  <2> QED BY <1>1, <2>1 DEF Changes, Outcome
<1>3. CASE fault = "write"
  <2>1. Commit(t, fault) = Outcome("EIO", tree, {})
    BY <1>3 DEF Commit
  <2> QED BY <2>1 DEF Changes, Outcome
<1>4. CASE fault = "sync"
  <2>1. Commit(t, fault) = Outcome("EIO", tree, Replayed({tree, t}))
    BY <1>4 DEF Commit
  <2> QED BY <1>1, <2>1 DEF Changes, Outcome
<1>5. CASE fault = "compact"
  <2>1. Commit(t, fault) = Outcome("EIO", t, Replayed({t}))
    BY <1>5 DEF Commit
  <2> QED BY <1>1, <2>1 DEF Changes, Outcome
<1> QED BY <1>2, <1>3, <1>4, <1>5 DEF Faults

(* What the handlers' calls of the database come to. *)
LEMMA DbIs ==
    ASSUME NEW o, NEW fault \in Faults
    PROVE  \/ NS!Allowed(tree, o) /\ Changes(Db(o, fault), NS!Effect(tree, o))
           \/ Db(o, fault) = Unchanged("EIO")
BY CommitIs DEF Db

(* Above all of its set. *)
LEMMA DbSetIs ==
    ASSUME NEW c, NEW v, NEW fault \in Faults
    PROVE  \/ NS!MayHold(tree, c) /\ Changes(DbSet(c, v, fault), With(tree, c, v))
           \/ DbSet(c, v, fault) = Unchanged("EIO")
<1> DEFINE o == [op |-> "set", path |-> c, value |-> v]
<1>1. o.op = "set" /\ o.path = c /\ o.value = v /\ DbSet(c, v, fault) = Db(o, fault)
  BY DEF DbSet
<1> HIDE DEF o
<1>2. NS!Effect(tree, o) = NS!With(tree, c, v) /\ (NS!Allowed(tree, o) <=> NS!MayHold(tree, c))
  BY <1>1 DEF NS!Effect, NS!Allowed
<1>3. NS!With(tree, c, v) = With(tree, c, v)
  BY DEF NS!With, With
<1> QED BY <1>1, <1>2, <1>3, DbIs

-----------------------------------------------------------------------------
(* The tree stays a namespace *)

(* What a handler leaves is whole. *)
Whole(r) ==
    /\ r.errno \in Errnos
    /\ \A t \in {r.tree} \cup r.reopened : IsNamespace(t)

WholeTrees == \A t \in {tree} \cup reopened : IsNamespace(t)

(* Such as what is left as it is, ... *)
LEMMA UnchangedIsWhole ==
    ASSUME WholeTrees, NEW e \in Errnos
    PROVE  Whole(Unchanged(e))
BY UnchangedIs DEF Whole, WholeTrees

(* ... or what a batch has made of it. *)
LEMMA ChangesIsWhole ==
    ASSUME WholeTrees, NEW t, IsNamespace(t), NEW r, Changes(r, t)
    PROVE  Whole(r)
BY DEF Whole, WholeTrees, Changes, Errnos

(* What the handlers' calls of the database leave. *)
LEMMA DbIsWhole ==
    ASSUME WholeTrees, NEW o, IsCall(o), NEW fault \in Faults
    PROVE  Whole(Db(o, fault))
<1>1. CASE NS!Allowed(tree, o) /\ Changes(Db(o, fault), NS!Effect(tree, o))
  <2>1. IsNamespace(NS!Effect(tree, o))
    BY <1>1, EffectIsNamespace DEF WholeTrees
  <2> QED BY <1>1, <2>1, ChangesIsWhole
<1>2. CASE Db(o, fault) = Unchanged("EIO")
  BY <1>2, UnchangedIsWhole DEF Errnos
<1> QED BY <1>1, <1>2, DbIs

(* A set. *)
LEMMA DbSetIsWhole ==
    ASSUME WholeTrees, NEW c, IsDbPath(c), NEW v, IsValue(v), NEW fault \in Faults
    PROVE  Whole(DbSet(c, v, fault))
<1> DEFINE o == [op |-> "set", path |-> c, value |-> v]
<1>1. IsCall(o)
  BY DEF IsCall
<1> HIDE DEF o
<1> QED BY <1>1, DbIsWhole DEF DbSet, o

(* mkdir and delete, of what can be parsed. *)
LEMMA DbOpIsWhole ==
    ASSUME WholeTrees, NEW p, IsPath(p), NEW op \in {"mkdir", "delete"}, NEW fault \in Faults
    PROVE  Whole(IF parse(p) = {} THEN Unchanged("EINVAL")
                 ELSE Db([op |-> op, path |-> PathOf(p)], fault))
<1>1. CASE parse(p) = {}
  BY <1>1, UnchangedIsWhole DEF Errnos
<1>2. CASE parse(p) # {}
  <2> DEFINE o == [op |-> op, path |-> PathOf(p)]
  <2>1. IsDbPath(PathOf(p))
    BY <1>2, PathOfIs
  <2>2. IsCall(o)
    BY <2>1 DEF IsCall
  <2> HIDE DEF o
  <2>3. Whole(Db(o, fault))
    BY <2>2, DbIsWhole
  <2> QED BY <1>2, <2>3 DEF o
<1> QED BY <1>1, <1>2

(* A call that is followed by another one. *)
LEMMA AboveOrElseIsWhole ==
    ASSUME NEW above, \A r \in above : Whole(r), NEW below, Whole(below)
    PROVE  Whole(AboveOrElse(above, below))
<1>1. CASE above = {}
  BY <1>1 DEF AboveOrElse
<1>2. CASE above # {}
  <2> DEFINE r == CHOOSE x \in above : TRUE
             z == Outcome(below.errno, r.tree, r.reopened)
  <2>1. Whole(r)
    BY <1>2
  <2>2. AboveOrElse(above, below) = IF r.errno = "ok" THEN r ELSE z
    BY <1>2 DEF AboveOrElse
  <2> HIDE DEF r
  <2>3. z.errno = below.errno /\ z.tree = r.tree /\ z.reopened = r.reopened
    BY DEF Outcome
  <2> HIDE DEF z
  <2>4. Whole(z)
    BY <2>1, <2>3 DEF Whole
  <2> QED BY <2>1, <2>2, <2>4
<1> QED BY <1>1, <1>2

(* A buffer holds a text. *)
LEMMA BufferIsSequence ==
    ASSUME FuseInv, NEW n \in DOMAIN dirty
    PROVE  IsSequence(dirty[n])
<1>1. n \in Inos /\ Pending(n) = dirty[n] /\ written[n] # <<>> /\ Holds(Pending(n), written[n])
  BY DEF FuseInv, TypeOK, BuffersHold, Pending
<1>2. PICK m \in Nat : EndsAt(written[n], m)
  BY <1>1 DEF Holds
<1>3. Ends(written[n]) \subseteq Nat /\ m \in Ends(written[n]) /\ \A e \in Ends(written[n]) : e <= m
  BY <1>2 DEF EndsAt
<1>4. Max(Ends(written[n])) = m
  BY <1>3, MaxIs
<1> DEFINE f == dirty[n]
           S == {f[i] : i \in 1..m}
<1>5. f = Overlay(written[n])
  BY <1>1 DEF Holds
<1>6. f = [i \in 1..m |-> f[i]]
  BY <1>4, <1>5 DEF Overlay
<1> HIDE DEF f
<1>7. f \in [1..m -> S]
  BY <1>6
<1>8. f \in Seq(S)
  BY <1>7, SeqDef
<1>9. IsSequence(f)
  BY <1>8, SequenceType
<1> QED BY <1>9 DEF f

(* What is at a path, unless it is a directory, is a value. *)
LEMMA ValueAtIs ==
    ASSUME IsNamespace(tree), NEW p, NEW v \in ValueAt(p)
    PROVE  p \in DOMAIN tree /\ v = tree[p] /\ IsValue(v) /\ IsDbPath(p)
<1>1. p \in DOMAIN tree /\ v = tree[p] /\ tree[p] # NS!Dir
  BY DEF ValueAt
<1> QED BY <1>1 DEF IsNamespace

(* The same, of what can be parsed. *)
LEMMA ValuesAtIs ==
    ASSUME IsNamespace(tree), NEW p, IsPath(p), NEW v \in ValuesAt(p)
    PROVE  PathOf(p) \in DOMAIN tree /\ v = tree[PathOf(p)] /\ IsValue(v) /\ IsDbPath(PathOf(p))
<1>1. PICK c \in parse(p) : v \in ValueAt(c)
  BY DEF ValuesAt
<1>2. c = PathOf(p)
  BY <1>1, PathOfIs
<1> QED BY <1>1, <1>2, ValueAtIs

(* A flush or fsync. *)
LEMMA CommitToIsWhole ==
    ASSUME WholeTrees, NEW p, IsPath(p), NEW data, IsSequence(data), NEW fault \in Faults
    PROVE  Whole(CommitTo(p, data, fault))
<1>1. \A e \in Errnos : Whole(Unchanged(e))
  BY UnchangedIsWhole
<1>2. IsNamespace(tree)
  BY DEF WholeTrees
<1>3. ASSUME NEW old, NEW rs, IsScalar(old) => \A r \in rs : Whole(r),
             parse_scalar_text(old, data) # {} => rs # {}
      PROVE  Whole(Replaced(old, data, rs))
  BY <1>1, <1>3 DEF Replaced, Errnos
<1>4. ASSUME NEW c, IsDbPath(c) PROVE Whole(CommitScalar(c, data, fault))
  <2> DEFINE rs == {DbSet(c, s, fault) : s \in parse_scalar_text(tree[c], data)}
  <2>1. ASSUME IsScalar(tree[c]) PROVE \A r \in rs : Whole(r)
    <3>1. \A s \in parse_scalar_text(tree[c], data) : IsValue(s)
      BY <2>1, ParsedIsScalar DEF IsValue
    <3> QED BY <1>4, <3>1, DbSetIsWhole
  <2>2. parse_scalar_text(tree[c], data) # {} => rs # {}
    OBVIOUS
  <2>3. CommitScalar(c, data, fault) = Replaced(tree[c], data, rs)
    BY DEF CommitScalar
  <2> HIDE DEF rs
  <2> QED BY <1>3, <2>1, <2>2, <2>3
<1>5. ASSUME NEW c, NEW m, IsMap(m), \A k \in DOMAIN m : IsSequence(k), IsDbPath(Parent(c)),
             IsSequence(Last(c))
      PROVE  Whole(CommitMember(c, m, data, fault))
  <2> DEFINE old == Member(m, Last(c))
             rs == {DbSet(Parent(c), Hash(With(m, Last(c), s)), fault) :
                       s \in parse_scalar_text(old, data)}
  <2>1. ASSUME IsScalar(old) PROVE \A r \in rs : Whole(r)
    <3>1. \A s \in parse_scalar_text(old, data) : IsScalarValue(s)
      BY <2>1, ParsedIsScalar
    <3> HIDE DEF old
    <3>2. \A s : \A k \in DOMAIN With(m, Last(c), s) : IsSequence(k)
      BY <1>5 DEF With
    <3>3. \A s \in parse_scalar_text(old, data) : IsValue(Hash(With(m, Last(c), s)))
      BY <1>5, <3>1, <3>2, MapChange, HashIsValue DEF IsMember
    <3> QED BY <1>5, <3>3, DbSetIsWhole
  <2>2. parse_scalar_text(old, data) # {} => rs # {}
    OBVIOUS
  <2>3. CommitMember(c, m, data, fault) = Replaced(old, data, rs)
    BY DEF CommitMember
  <2> HIDE DEF rs, old
  <2> QED BY <1>3, <2>1, <2>2, <2>3
<1>6. ASSUME NEW c, IsDbPath(c), HashAbove(c) # {}
      PROVE  LET m == (CHOOSE v \in HashAbove(c) : TRUE).map
             IN  /\ IsMap(m) /\ \A k \in DOMAIN m : IsSequence(k)
                 /\ IsDbPath(Parent(c)) /\ IsSequence(Last(c))
  <2> DEFINE v == CHOOSE x \in HashAbove(c) : TRUE
  <2>1. v \in HashAbove(c)
    BY <1>6
  <2> HIDE DEF v
  <2>2. v \in ValueAt(Parent(c)) /\ v.ty = "hash" /\ c # <<>>
    BY <2>1 DEF HashAbove
  <2>3. IsMap(v.map) /\ (\A k \in DOMAIN v.map : IsSequence(k)) /\ IsDbPath(Parent(c))
    BY <1>2, <2>2, ValueAtIs, ValueForms
  <2>4. IsSequence(Last(c))
    BY <1>6, <2>2, LastIsText DEF IsDbPath
  <2> QED BY <2>3, <2>4 DEF v
<1>7. CASE parse(p) = {}
  BY <1>1, <1>7 DEF CommitTo, Errnos
<1>8. CASE parse(p) # {}
  <2> DEFINE c == PathOf(p)
  <2>1. IsDbPath(c)
    BY <1>8, PathOfIs
  <2>2. CommitTo(p, data, fault) =
          IF c \in DOMAIN tree THEN CommitScalar(c, data, fault)
          ELSE IF HashAbove(c) = {} THEN Unchanged("ENOENT")
          ELSE CommitMember(c, (CHOOSE v \in HashAbove(c) : TRUE).map, data, fault)
    BY <1>8 DEF CommitTo
  <2> HIDE DEF c
  <2>3. CASE c \in DOMAIN tree
    BY <1>4, <2>1, <2>2, <2>3
  <2>4. CASE c \notin DOMAIN tree /\ HashAbove(c) = {}
    BY <1>1, <2>2, <2>4 DEF Errnos
  <2>5. CASE c \notin DOMAIN tree /\ HashAbove(c) # {}
    BY <1>5, <1>6, <2>1, <2>2, <2>5
  <2> QED BY <2>3, <2>4, <2>5
<1> QED BY <1>7, <1>8

(* An unlink or rmdir. *)
LEMMA UnlinkedIsWhole ==
    ASSUME WholeTrees, NEW p, IsPath(p), NEW name, IsSequence(name), NEW fault \in Faults
    PROVE  Whole(Unlinked(p, name, fault))
<1> DEFINE vs == UNION {project_unlink(w, name) : w \in ValuesAt(p)}
           above == {DbSet(PathOf(p), v, fault) : v \in vs}
           child == Append(p, name)
           below == IF parse(child) = {} THEN Unchanged("EINVAL")
                    ELSE Db([op |-> "delete", path |-> PathOf(child)], fault)
<1>1. \A v \in vs : IsValue(v) /\ IsDbPath(PathOf(p))
  BY ValuesAtIs, UnlinkIsValue DEF WholeTrees
<1>2. Unlinked(p, name, fault) = AboveOrElse(above, below)
  BY DEF Unlinked
<1> HIDE DEF vs
<1>3. \A r \in above : Whole(r)
  BY <1>1, DbSetIsWhole
<1>4. Whole(below)
  BY ChildIsPath, DbOpIsWhole
<1> HIDE DEF above, below
<1> QED BY <1>2, <1>3, <1>4, AboveOrElseIsWhole

(* The empty text is one, and an empty string a value. *)
LEMMA EmptyString == IsScalarValue(string(<<>>)) /\ IsValue(string(<<>>)) /\ IsMember(string(<<>>))
<1>1. <<>> \in Seq({})
  OBVIOUS
<1>2. IsSequence(<<>>)
  BY <1>1, SequenceType
<1> QED BY <1>2, ScalarForms DEF IsValue, IsMember

(* A create. *)
LEMMA CreatedIsWhole ==
    ASSUME WholeTrees, NEW p, IsPath(p), NEW name, IsSequence(name), NEW fault \in Faults
    PROVE  Whole(Created(p, name, fault))
<1> DEFINE hs    == {w \in ValuesAt(p) : w.ty = "hash"}
           above == {DbSet(PathOf(p), Hash(With(v.map, name, string(<<>>))), fault) : v \in hs}
           child == Append(p, name)
           below == IF parse(child) = {} THEN Unchanged("EINVAL")
                    ELSE DbSet(PathOf(child), string(<<>>), fault)
<1>1. Created(p, name, fault) = AboveOrElse(above, below)
  BY DEF Created
<1>2. \A v \in hs : IsValue(Hash(With(v.map, name, string(<<>>)))) /\ IsDbPath(PathOf(p))
  <2> TAKE v \in hs
  <2>1. IsMap(v.map) /\ (\A k \in DOMAIN v.map : IsSequence(k)) /\ IsDbPath(PathOf(p))
    BY ValuesAtIs, ValueForms DEF WholeTrees
  <2>2. \A k \in DOMAIN With(v.map, name, string(<<>>)) : IsSequence(k)
    BY <2>1 DEF With
  <2> QED BY <2>1, <2>2, EmptyString, MapChange, HashIsValue
<1> HIDE DEF hs
<1>3. \A r \in above : Whole(r)
  BY <1>2, DbSetIsWhole
<1>4. Whole(below)
  <2>1. CASE parse(child) = {}
    BY <2>1, UnchangedIsWhole DEF Errnos
  <2>2. CASE parse(child) # {}
    <3>1. IsDbPath(PathOf(child))
      BY <2>2, ChildIsPath, PathOfIs
    <3> QED BY <2>2, <3>1, EmptyString, DbSetIsWhole
  <2> QED BY <2>1, <2>2
<1> HIDE DEF above, below
<1> QED BY <1>1, <1>3, <1>4, AboveOrElseIsWhole

(* The names that processes use are texts. *)
LEMMA NamesAreTexts ==
    ASSUME NEW p, IsSequence(p), NEW name \in NamesBelow(p)
    PROVE  IsSequence(name)
<1>1. Len(p) \in Nat /\ MaxDepth \in Nat
  BY PathFacts, FuseAssumption
<1>2. Len(p) < MaxDepth /\ name \in Names[Len(p) + 1]
  BY DEF NamesBelow
<1>3. Len(p) + 1 \in DOMAIN Names
  BY <1>1, <1>2, FuseAssumption
<1> QED BY <1>2, <1>3, ValueAssumption

(* The root's path has no segments. *)
LEMMA RootIsPath == IsPath(<<>>)
<1>1. <<>> \in Seq({})
  OBVIOUS
<1>2. IsSequence(<<>>)
  BY <1>1, SequenceType
<1>3. DOMAIN <<>> = {}
  OBVIOUS
<1> QED BY <1>2, <1>3 DEF IsPath

(* The names below a tree's value or a directory are texts. *)
LEMMA KeyNameIsText ==
    ASSUME NEW k, IsScalarValue(k)
    PROVE  IsSequence(key_name(k))
<1>1. CASE k.ty = "string"
  <2>1. IsSequence(k.text)
    BY <1>1 DEF IsScalarValue, null
  <2> QED BY <1>1, <2>1 DEF key_name
<1>2. CASE k.ty = "int"
  <2>1. k.int \in Int
    BY <1>2 DEF IsScalarValue, null
  <2>2. PICK S : ShowInt(k.int) \in Seq(S)
    BY <2>1, ReadInt
  <2>3. key_name(k) = ShowInt(k.int)
    BY <1>2 DEF key_name
  <2> QED BY <2>2, <2>3, SequenceType
<1>3. CASE k.ty # "string" /\ k.ty # "int"
  <2>1. key_name(k) = <<"Debug", k.ty>>
    BY <1>3 DEF key_name
  <2>2. <<"Debug", k.ty>> \in Seq({"Debug", k.ty})
    OBVIOUS
  <2> QED BY <2>1, <2>2, SequenceType
<1> QED BY <1>1, <1>2, <1>3

(* What readdir lists of each type of value. *)
LEMMA ListingIs ==
    ASSUME IsNamespace(tree), NEW p \in DOMAIN tree
    PROVE  LET v == tree[p] IN
           \/ v = NS!Dir /\ v.ty = "directory" /\ ValueAt(p) = {}
                /\ Listing(p) = {<<Last(q), FileType(tree[q])>> : q \in NS!Below(tree, p)}
           \/ v # NS!Dir /\ IsValue(v) /\ ValueAt(p) = {v} /\ Listing(p) = project_listing(v)
<1>1. CASE tree[p] = NS!Dir
  <2>1. ValueAt(p) = {}
    BY <1>1 DEF ValueAt
  <2>2. tree[p].ty = "directory"
    BY <1>1 DEF NS!Dir
  <2> QED BY <1>1, <2>1, <2>2 DEF Listing
<1>2. CASE tree[p] # NS!Dir
  <2>1. IsValue(tree[p])
    BY <1>2 DEF IsNamespace
  <2>2. ValueAt(p) = {tree[p]}
    BY <1>2 DEF ValueAt
  <2> QED BY <1>2, <2>1, <2>2 DEF Listing
<1> QED BY <1>1, <1>2

(* The names that readdir lists are texts. *)
LEMMA ListedIsText ==
    ASSUME IsNamespace(tree), NEW p \in DOMAIN tree, NEW e \in Listing(p)
    PROVE  IsSequence(e[1])
<1> DEFINE v == tree[p]
<1>1. CASE v = NS!Dir
  <2>1. PICK q \in NS!Below(tree, p) : e = <<Last(q), FileType(tree[q])>>
    BY <1>1, ListingIs
  <2>2. q \in DOMAIN tree /\ Len(q) = Len(p) + 1
    BY DEF NS!Below
  <2>3. Len(p) \in Nat /\ IsPath(q)
    BY <2>2, PathFacts DEF IsNamespace, IsDbPath, IsPath
  <2>4. q # <<>>
    BY <2>2, <2>3
  <2> QED BY <2>1, <2>3, <2>4, LastIsText
<1>2. CASE v # NS!Dir
  <2>1. IsValue(v) /\ e \in project_listing(v)
    BY <1>2, ListingIs
  <2> HIDE DEF v
  <2>2. CASE v.ty = "hash"
    <3>1. PICK k \in DOMAIN v.map : e = <<k, FileType(v.map[k])>>
      BY <2>1, <2>2 DEF project_listing
    <3> QED BY <2>1, <2>2, <3>1, ValueForms
  <2>3. CASE v.ty = "list"
    <3>1. PICK i \in DOMAIN v.items : e = <<ShowNat(i - 1), FileType(v.items[i])>>
      BY <2>1, <2>3 DEF project_listing
    <3>2. v.items \in Seq({v.items[j] : j \in DOMAIN v.items})
      BY <2>1, <2>3, ValueForms DEF IsSequence
    <3>3. i - 1 \in Nat
      BY <3>2
    <3> QED BY <3>1, <3>3, ShowNatRead, SequenceType
  <2>4. CASE v.ty = "set"
    <3>1. PICK i \in DOMAIN v.members : e = <<set_member_name(v.members[i]), "file">>
      BY <2>1, <2>4 DEF project_listing
    <3> QED BY <2>1, <2>4, <3>1, ValueForms
  <2>5. CASE v.ty = "tree"
    <3>1. PICK k \in DOMAIN v.entries : e = <<key_name(k), "file">>
      BY <2>1, <2>5 DEF project_listing
    <3> QED BY <2>1, <2>5, <3>1, ValueForms, KeyNameIsText
  <2>6. CASE v.ty \notin {"hash", "list", "set", "tree"}
    BY <2>1, <2>6 DEF project_listing
  <2> QED BY <2>2, <2>3, <2>4, <2>5, <2>6
<1> QED BY <1>1, <1>2

(* New numbers are given to paths. *)
LEMMA NumbersArePaths ==
    ASSUME FuseInv, \A n \in DOMAIN ino_to_path : IsPath(ino_to_path[n]),
           NEW paths, ino_for_path(paths), \A p \in paths : IsPath(p)
    PROVE  \A n \in DOMAIN ino_to_path' : IsPath(ino_to_path'[n])
<1>1. InodesNameOnePath'
  BY NumbersStep DEF FuseInv, IsPath
<1>2. DOMAIN path_to_ino' \subseteq DOMAIN path_to_ino \cup paths
  BY DEF ino_for_path
<1>3. \A p \in DOMAIN path_to_ino : IsPath(p)
  BY DEF FuseInv, InodesNameOnePath
<1>4. \A n \in DOMAIN ino_to_path' : ino_to_path'[n] \in DOMAIN path_to_ino'
  BY <1>1 DEF InodesNameOnePath
<1> QED BY <1>2, <1>3, <1>4

(* What a handler leaves. *)
LEMMA LeaveIsWhole ==
    ASSUME NEW r, Whole(r), Leave(r)
    PROVE  WholeTrees' /\ errno' \in Errnos
<1>1. tree' = r.tree /\ reopened' = r.reopened /\ errno' = r.errno
  BY DEF Leave
<1> QED BY <1>1 DEF Whole, WholeTrees

(* Every step keeps the tree a namespace, and what is found after a restart. *)
LEMMA NextWhole ==
    FuseInv /\ NamespaceStaysWhole /\ [Next]_vars => WholeTrees' /\ errno' \in Errnos
<1> SUFFICES ASSUME FuseInv, NamespaceStaysWhole, [Next]_vars PROVE WholeTrees' /\ errno' \in Errnos
  OBVIOUS
<1> DEFINE Good == WholeTrees' /\ errno' \in Errnos
<1>0. /\ WholeTrees /\ errno \in Errnos
      /\ \A n \in DOMAIN ino_to_path : IsPath(ino_to_path[n])
  BY DEF NamespaceStaysWhole, WholeTrees, FuseInv, TypeOK, Errnos
<1>1. ASSUME tree' = tree, reopened' = reopened, errno' \in Errnos PROVE Good
  BY <1>0, <1>1 DEF WholeTrees
<1>2. ASSUME NEW r, Whole(r), Leave(r) PROVE Good
  BY <1>2, LeaveIsWhole
<1>3. ASSUME NEW e \in Errnos, Reply(e) \/ Leave(Unchanged(e)) PROVE Good
  BY <1>1, <1>3, UnchangedIs DEF Reply, Leave
<1>4. \A r, child, kind : Made(r, child, kind) => Leave(r)
  BY DEF Made
<1> HIDE DEF Good
<1>5. ASSUME NEW n \in DOMAIN ino_to_path, NEW name \in NamesBelow(ino_to_path[n])
      PROVE  IsPath(ino_to_path[n]) /\ IsSequence(name) /\ IsPath(Append(ino_to_path[n], name))
  BY <1>0, <1>5, NamesAreTexts, ChildIsPath DEF IsPath
<1>6. ASSUME NEW n \in DOMAIN ino_to_path, NEW name \in NamesBelow(ino_to_path[n]), lookup(n, name)
      PROVE  Good
  <2>1. Reply("ENOENT") \/ Leave(Unchanged("ok"))
    BY <1>6 DEF lookup
  <2> QED BY <1>3, <2>1 DEF Errnos
<1>7. ASSUME NEW n \in DOMAIN ino_to_path, NEW name \in NamesBelow(ino_to_path[n]),
             NEW fault \in Faults, mkdir(n, name, fault)
      PROVE  Good
  <2> DEFINE child == Append(ino_to_path[n], name)
             made  == IF parse(child) = {} THEN Unchanged("EINVAL")
                      ELSE Db([op |-> "mkdir", path |-> PathOf(child)], fault)
  <2>1. Made(made, child, "dir")
    BY <1>7 DEF mkdir
  <2>2. Whole(made)
    BY <1>0, <1>5, <1>7, DbOpIsWhole
  <2> HIDE DEF made
  <2> QED BY <1>2, <1>4, <2>1, <2>2
<1>8. ASSUME NEW n \in DOMAIN ino_to_path, NEW name \in NamesBelow(ino_to_path[n]),
             NEW fault \in Faults, unlink(n, name, fault)
      PROVE  Good
  <2> DEFINE r == Unlinked(ino_to_path[n], name, fault)
  <2>1. Leave(r)
    BY <1>8 DEF unlink
  <2>2. Whole(r)
    BY <1>0, <1>5, <1>8, UnlinkedIsWhole
  <2> HIDE DEF r
  <2> QED BY <1>2, <2>1, <2>2
<1>9. ASSUME NEW n \in DOMAIN ino_to_path, NEW name \in NamesBelow(ino_to_path[n]),
             NEW fault \in Faults, create(n, name, fault)
      PROVE  Good
  <2> DEFINE r == Created(ino_to_path[n], name, fault)
  <2>1. Made(r, Append(ino_to_path[n], name), "file")
    BY <1>9 DEF create
  <2>2. Whole(r)
    BY <1>0, <1>5, <1>9, CreatedIsWhole
  <2> HIDE DEF r
  <2> QED BY <1>2, <1>4, <2>1, <2>2
<1>10. ASSUME NEW n \in DOMAIN ino_to_path, readdir(n) PROVE Good
  <2>1. Reply("ENOENT") \/ Leave(Unchanged("ok"))
    BY <1>10 DEF readdir
  <2> QED BY <1>3, <2>1 DEF Errnos
<1>11. ASSUME NEW n \in files, NEW fault \in Faults, commit_dirty(n, fault) PROVE Good
  <2> DEFINE r == IF n \notin DOMAIN dirty THEN Unchanged("ok")
                  ELSE CommitTo(ino_to_path[n], dirty[n], fault)
  <2>1. Leave(r)
    BY <1>11 DEF commit_dirty
  <2>2. CASE n \notin DOMAIN dirty
    <3>1. r = Unchanged("ok")
      BY <2>2
    <3> HIDE DEF r
    <3> QED BY <1>3, <2>1, <3>1 DEF Errnos
  <2>3. CASE n \in DOMAIN dirty
    <3>1. IsPath(ino_to_path[n]) /\ IsSequence(dirty[n])
      BY <1>0, <1>11, <2>3, BufferIsSequence DEF FuseInv, TypeOK
    <3>2. Whole(CommitTo(ino_to_path[n], dirty[n], fault))
      BY <1>0, <1>11, <3>1, CommitToIsWhole
    <3>3. Whole(r)
      BY <2>3, <3>2
    <3> HIDE DEF r
    <3> QED BY <1>2, <2>1, <3>3
  <2> QED BY <2>2, <2>3
<1>12. ASSUME NEW n, NEW offset, NEW data, write(n, offset, data) PROVE Good
  BY <1>3, <1>12 DEF write, Errnos
<1>13. ASSUME rename PROVE Good
  BY <1>3, <1>13 DEF rename, Errnos
<1>14. ASSUME NEW o \in RpcOps, NEW fault \in Faults, Rpc(o, fault) PROVE Good
  <2> DEFINE r == Db(o, fault)
  <2>1. tree' = r.tree /\ reopened' = r.reopened /\ errno' = errno
    BY <1>14 DEF Rpc
  <2>2. IsCall(o)
    BY <1>14, ValueAssumption DEF IsCall
  <2>3. Whole(r)
    BY <1>0, <1>14, <2>2, DbIsWhole
  <2> HIDE DEF r
  <2> QED BY <1>0, <2>1, <2>3 DEF Whole, WholeTrees, Good
<1>15. ASSUME Remount PROVE Good
  BY <1>0, <1>15 DEF Remount, WholeTrees, Good, Errnos
<1>16. ASSUME UNCHANGED vars PROVE Good
  BY <1>0, <1>1, <1>16 DEF vars
<1>17. Good
  BY <1>6, <1>7, <1>8, <1>9, <1>10, <1>11, <1>12, <1>13, <1>14, <1>15, <1>16
     DEF Next, rmdir, flush, fsync
<1> QED BY <1>17 DEF Good

(* And numbers are given to paths only. *)
LEMMA NextPaths ==
    FuseInv /\ NamespaceStaysWhole /\ [Next]_vars
        => \A n \in DOMAIN ino_to_path' : IsPath(ino_to_path'[n])
<1> SUFFICES ASSUME FuseInv, NamespaceStaysWhole, [Next]_vars
             PROVE  \A n \in DOMAIN ino_to_path' : IsPath(ino_to_path'[n])
  OBVIOUS
<1>0. IsNamespace(tree) /\ \A n \in DOMAIN ino_to_path : IsPath(ino_to_path[n])
  BY DEF NamespaceStaysWhole
<1> DEFINE Good == \A n \in DOMAIN ino_to_path' : IsPath(ino_to_path'[n])
<1>1. ASSUME ino_to_path' = ino_to_path PROVE Good
  BY <1>0, <1>1
<1>2. ASSUME NEW paths, ino_for_path(paths), \A p \in paths : IsPath(p) PROVE Good
  BY <1>0, <1>2, NumbersArePaths
<1>3. \A e : Reply(e) => ino_to_path' = ino_to_path
  BY DEF Reply, Tables
<1>4. \A p : \A kind : Entry(p, kind) => ino_for_path({p})
  BY DEF Entry
<1>5. \A r, child, kind : Made(r, child, kind) =>
          ino_to_path' = ino_to_path \/ ino_for_path({child})
  BY <1>4 DEF Made, Tables
<1> HIDE DEF Good
<1>6. ASSUME NEW n \in DOMAIN ino_to_path, NEW name \in NamesBelow(ino_to_path[n]),
             lookup(n, name) \/ \E fault : mkdir(n, name, fault) \/ create(n, name, fault)
      PROVE  Good
  <2> DEFINE child == Append(ino_to_path[n], name)
  <2>1. ino_to_path' = ino_to_path \/ ino_for_path({child})
    <3>1. CASE lookup(n, name)
      BY <1>3, <1>4, <3>1 DEF lookup
    <3>2. ASSUME NEW fault, mkdir(n, name, fault) PROVE <2>1!:
      BY <1>5, <3>2 DEF mkdir
    <3>3. ASSUME NEW fault, create(n, name, fault) PROVE <2>1!:
      BY <1>5, <3>3 DEF create
    <3> QED BY <1>6, <3>1, <3>2, <3>3
  <2>2. IsPath(child)
    BY <1>0, <1>6, NamesAreTexts, ChildIsPath DEF IsPath
  <2> HIDE DEF child
  <2> QED BY <1>1, <1>2, <2>1, <2>2
<1>7. ASSUME NEW n \in DOMAIN ino_to_path, readdir(n) PROVE Good
  <2> DEFINE p  == ino_to_path[n]
             ps == {p} \cup {child_path(p, e[1]) : e \in UNION Listings(p)}
  <2>1. CASE Listings(p) = {}
    BY <1>1, <1>3, <1>7, <2>1 DEF readdir
  <2>2. CASE Listings(p) # {}
    <3>1. ino_for_path(ps)
      BY <1>7, <2>2 DEF readdir
    <3>2. \A q \in ps : IsPath(q)
      <4>1. \A e \in UNION Listings(p) : IsSequence(e[1])
        BY <1>0, ListedIsText DEF Listings
      <4>2. IsPath(p)
        BY <1>0, <1>7
      <4> HIDE DEF p
      <4> QED BY <4>1, <4>2, ListedIsPath
    <3> HIDE DEF ps
    <3> QED BY <1>2, <3>1, <3>2
  <2> QED BY <2>1, <2>2
<1>8. ASSUME NEW n, NEW name, NEW fault, unlink(n, name, fault) \/ rmdir(n, name, fault) PROVE Good
  BY <1>1, <1>8 DEF rmdir, unlink, Tables
<1>9. ASSUME NEW n, NEW fault, flush(n, fault) \/ fsync(n, fault) PROVE Good
  BY <1>1, <1>9 DEF flush, fsync, commit_dirty, Tables
<1>10. ASSUME NEW n, NEW offset, NEW data, write(n, offset, data) PROVE Good
  BY <1>1, <1>3, <1>10 DEF write
<1>11. ASSUME rename \/ UNCHANGED vars PROVE Good
  <2>1. CASE rename
    BY <1>1, <1>3, <2>1 DEF rename
  <2>2. CASE UNCHANGED vars
    BY <1>1, <2>2 DEF vars
  <2> QED BY <1>11, <2>1, <2>2
<1>12. ASSUME NEW o, NEW fault, Rpc(o, fault) PROVE Good
  BY <1>1, <1>12 DEF Rpc, Tables
<1>13. ASSUME Remount PROVE Good
  <2>1. DOMAIN ino_to_path' = {FUSE_ROOT_ID} /\ ino_to_path'[FUSE_ROOT_ID] = <<>>
    BY <1>13 DEF Remount, Fresh
  <2>2. IsPath(<<>>)
    BY RootIsPath
  <2> QED BY <2>1, <2>2 DEF Good
<1>14. Good
  BY <1>6, <1>7, <1>8, <1>9, <1>10, <1>11, <1>12, <1>13 DEF Next
<1> QED BY <1>14 DEF Good

-----------------------------------------------------------------------------
(* Tables and buffers, step by step *)

(* What the steps so far leave the trees and the answer. *)
Answered == (\A t \in {tree} \cup reopened : NS!IsDirAt(t, <<>>)) /\ errno \in Errnos

(* Whoever leaves the tables and the buffers alone. *)
LEMMA TreeStep ==
    ASSUME FuseInv, Answered', UNCHANGED <<Tables, files, dirty, written>>
    PROVE  FuseInv'
<1>1. /\ ino_to_path' = ino_to_path /\ path_to_ino' = path_to_ino /\ next_ino' = next_ino
      /\ files' = files /\ dirty' = dirty /\ written' = written
  BY DEF Tables
<1>2. PendingWrites' = PendingWrites
  BY <1>1 DEF PendingWrites
<1>3. TypeOK'
  BY <1>1, <1>2 DEF FuseInv, TypeOK, Answered, Errnos
<1>4. InodesNameOnePath'
  BY <1>1 DEF FuseInv, InodesNameOnePath
<1>5. BuffersHold'
  BY <1>1 DEF FuseInv, BuffersHold, Pending
<1> QED BY <1>3, <1>4, <1>5 DEF FuseInv

(* A handler that answers with numbers for paths. *)
LEMMA EntriesStep ==
    ASSUME FuseInv, Answered', UNCHANGED <<dirty, written>>,
           NEW paths, ino_for_path(paths), \A p \in paths : IsSequence(p),
           files' = files \/ \E p \in paths : p # <<>> /\ files' = files \cup {path_to_ino'[p]}
    PROVE  FuseInv'
<1>1. /\ InodesNameOnePath' /\ DOMAIN ino_to_path \subseteq DOMAIN ino_to_path'
      /\ DOMAIN ino_to_path' \subseteq Inos
      /\ \A n \in DOMAIN ino_to_path' : IsSequence(ino_to_path'[n])
      /\ next_ino' \in Inos \cup {MaxIno + 1}
      /\ \A p \in paths : path_to_ino'[p] \in DOMAIN ino_to_path'
      /\ \A p \in paths : p # <<>> => path_to_ino'[p] # FUSE_ROOT_ID
  BY NumbersStep DEF FuseInv
<1>2. PendingWrites' = PendingWrites
  BY DEF PendingWrites
<1>3. files \subseteq files' /\ files' \subseteq DOMAIN ino_to_path' \ {FUSE_ROOT_ID}
  BY <1>1 DEF FuseInv, TypeOK
<1>4. TypeOK'
  BY <1>1, <1>2, <1>3 DEF FuseInv, TypeOK, Answered, Errnos
<1>5. BuffersHold'
  BY DEF FuseInv, BuffersHold, Pending
<1> QED BY <1>1, <1>4, <1>5 DEF FuseInv

(* lookup, mkdir and create answer with the number of one path. *)
LEMMA EntryStep ==
    ASSUME FuseInv, Answered', UNCHANGED <<dirty, written>>,
           NEW n \in DOMAIN ino_to_path, NEW name, NEW kind,
           Entry(Append(ino_to_path[n], name), kind)
    PROVE  FuseInv'
<1> DEFINE p == Append(ino_to_path[n], name)
<1>1. IsSequence(p) /\ p # <<>>
  BY ChildType DEF FuseInv, TypeOK
<1>2. /\ ino_for_path({p})
      /\ files' = files \/ files' = files \cup {path_to_ino'[p]}
  BY DEF Entry
<1> HIDE DEF p
<1> QED BY <1>1, <1>2, EntriesStep

(* One more pending write. *)
LEMMA PendingWritesAdd ==
    ASSUME TypeOK, NEW ino \in Inos, NEW w,
           written' = [written EXCEPT ![ino] = Append(@, w)]
    PROVE  PendingWrites' = PendingWrites \cup {<<ino, Len(written[ino]) + 1>>}
<1>1. \A n \in Inos : written[n] \in Seq(Writes)
  BY DEF TypeOK
<1> DEFINE l == Len(written[ino])
<1>2. l \in Nat /\ DOMAIN written[ino] = 1..l
  BY <1>1
<1>3. /\ written'[ino] = Append(written[ino], w)
      /\ \A n \in Inos \ {ino} : written'[n] = written[n]
  BY DEF TypeOK
<1>4. DOMAIN written'[ino] = 1..(l + 1)
  <2>1. Append(written[ino], w) \in Seq(Writes \cup {w}) /\ Len(Append(written[ino], w)) = l + 1
    <3>1. written[ino] \in Seq(Writes \cup {w}) /\ w \in Writes \cup {w}
      BY <1>1, SeqMonotonic
    <3> QED BY <3>1, AppendProperties
  <2> QED BY <1>3, <2>1
<1>5. DOMAIN written'[ino] = DOMAIN written[ino] \cup {l + 1}
  BY <1>2, <1>4
<1> HIDE DEF l
<1> QED BY <1>3, <1>5 DEF PendingWrites, l

(* write *)
LEMMA WriteStep ==
    ASSUME FuseInv, Answered', NEW ino \in files, NEW c \in Chunks, write(ino, c.offset, c.data)
    PROVE  FuseInv'
<1> DEFINE w == [offset |-> c.offset, data |-> c.data]
<1>1. w \in Writes /\ w.offset = c.offset /\ w.data = c.data
  BY DEF Writes
<1>2. /\ Cardinality(PendingWrites) < MaxWrites
      /\ dirty' = With(dirty, ino, Splice(Pending(ino), w.offset, w.data))
      /\ written' = [written EXCEPT ![ino] = Append(@, w)]
      /\ files' = files
      /\ ino_to_path' = ino_to_path /\ path_to_ino' = path_to_ino /\ next_ino' = next_ino
  BY DEF write, Reply, Tables
<1> HIDE DEF w
<1>3. ino \in Inos /\ TypeOK /\ written \in [Inos -> Seq(Writes)]
  BY DEF FuseInv, TypeOK
<1>4. /\ written' \in [Inos -> Seq(Writes)]
      /\ written'[ino] = Append(written[ino], w)
      /\ \A n \in Inos \ {ino} : written'[n] = written[n]
      /\ written'[ino] # <<>>
  <2> DEFINE ws == Append(written[ino], w)
  <2>0. written[ino] \in Seq(Writes) /\ w \in Writes
    BY <1>1, <1>3
  <2>1. ws \in Seq(Writes) /\ ws # <<>>
    BY <2>0
  <2> HIDE DEF ws
  <2>2. written' = [written EXCEPT ![ino] = ws]
    BY <1>2 DEF ws
  <2> QED BY <1>3, <2>1, <2>2 DEF ws
<1>5. IsFiniteSet(PendingWrites') /\ Cardinality(PendingWrites') <= MaxWrites
  <2>1. PendingWrites' = PendingWrites \cup {<<ino, Len(written[ino]) + 1>>}
    BY <1>2, <1>3, PendingWritesAdd
  <2>2. IsFiniteSet(PendingWrites) /\ Cardinality(PendingWrites) \in Nat /\ MaxWrites \in Nat
    BY <1>3, FS_CardinalityType, FuseAssumption DEF TypeOK
  <2>3. ASSUME NEW x
        PROVE  /\ IsFiniteSet(PendingWrites \cup {x})
               /\ \/ Cardinality(PendingWrites \cup {x}) = Cardinality(PendingWrites)
                  \/ Cardinality(PendingWrites \cup {x}) = Cardinality(PendingWrites) + 1
    BY <2>2, FS_AddElement
  <2>4. /\ IsFiniteSet(PendingWrites')
        /\ \/ Cardinality(PendingWrites') = Cardinality(PendingWrites)
           \/ Cardinality(PendingWrites') = Cardinality(PendingWrites) + 1
    BY <2>1, <2>3
  <2> QED BY <1>2, <2>2, <2>4
<1>6. DOMAIN dirty' = DOMAIN dirty \cup {ino}
  BY <1>2 DEF With
<1>7. TypeOK'
  BY <1>2, <1>4, <1>5, <1>6 DEF FuseInv, TypeOK, Answered, Errnos
<1>8. InodesNameOnePath'
  BY <1>2 DEF FuseInv, InodesNameOnePath
<1>9. BuffersHold'
  <2> SUFFICES ASSUME NEW n \in Inos
               PROVE  Holds(Pending(n)', written'[n]) /\ (written'[n] = <<>> <=> n \notin DOMAIN dirty')
    BY DEF BuffersHold
  <2>1. CASE n = ino
    <3>1. Holds(Pending(ino), written[ino])
      BY <1>3 DEF FuseInv, BuffersHold
    <3>2. Pending(ino)' = Splice(Pending(ino), w.offset, w.data)
      BY <1>2, <1>6 DEF Pending, With
    <3>3. Holds(Pending(ino)', Append(written[ino], w))
      BY <1>1, <1>3, <3>1, <3>2, SpliceAppends
    <3> QED BY <1>4, <1>6, <2>1, <3>3
  <2>2. CASE n # ino
    <3>1. Pending(n)' = Pending(n)
      BY <1>2, <1>6, <2>2 DEF Pending, With
    <3> QED BY <1>4, <1>6, <2>2, <3>1 DEF FuseInv, BuffersHold
  <2> QED BY <2>1, <2>2
<1> QED BY <1>7, <1>8, <1>9 DEF FuseInv

(* flush and fsync *)
LEMMA CommitDirtyStep ==
    ASSUME FuseInv, Answered', NEW ino \in files, NEW fault, commit_dirty(ino, fault)
    PROVE  FuseInv'
<1>1. /\ dirty' = Drop(dirty, ino)
      /\ written' = [written EXCEPT ![ino] = <<>>] /\ files' = files
      /\ ino_to_path' = ino_to_path /\ path_to_ino' = path_to_ino /\ next_ino' = next_ino
  BY DEF commit_dirty, Tables
<1>3. ino \in Inos /\ written \in [Inos -> Seq(Writes)]
  BY DEF FuseInv, TypeOK
<1>4. /\ written' \in [Inos -> Seq(Writes)] /\ written'[ino] = <<>>
      /\ \A n \in Inos \ {ino} : written'[n] = written[n]
  BY <1>1, <1>3
<1>5. IsFiniteSet(PendingWrites') /\ Cardinality(PendingWrites') <= MaxWrites
  <2>1. PendingWrites' \subseteq PendingWrites
    BY <1>4 DEF PendingWrites
  <2>2. IsFiniteSet(PendingWrites) /\ Cardinality(PendingWrites) <= MaxWrites /\ MaxWrites \in Nat
    BY FuseAssumption DEF FuseInv, TypeOK
  <2>3. /\ IsFiniteSet(PendingWrites') /\ Cardinality(PendingWrites') <= Cardinality(PendingWrites)
        /\ Cardinality(PendingWrites') \in Nat /\ Cardinality(PendingWrites) \in Nat
    BY <2>1, <2>2, FS_Subset, FS_CardinalityType
  <2> QED BY <2>2, <2>3
<1>6. DOMAIN dirty' = DOMAIN dirty \ {ino}
  BY <1>1 DEF Drop
<1>7. TypeOK'
  BY <1>1, <1>4, <1>5, <1>6 DEF FuseInv, TypeOK, Answered, Errnos
<1>8. InodesNameOnePath'
  BY <1>1 DEF FuseInv, InodesNameOnePath
<1>9. BuffersHold'
  <2> SUFFICES ASSUME NEW n \in Inos
               PROVE  Holds(Pending(n)', written'[n]) /\ (written'[n] = <<>> <=> n \notin DOMAIN dirty')
    BY DEF BuffersHold
  <2>1. CASE n = ino
    BY <1>4, <1>6, <2>1 DEF Holds, Pending
  <2>2. CASE n # ino
    <3>1. Pending(n)' = Pending(n)
      BY <1>1, <1>6, <2>2 DEF Pending, Drop
    <3> QED BY <1>4, <1>6, <2>2, <3>1 DEF FuseInv, BuffersHold
  <2> QED BY <2>1, <2>2
<1> QED BY <1>7, <1>8, <1>9 DEF FuseInv

(* Every handler, every other client of the daemon and every remount         *)
(* preserves the invariant.                                                  *)
LEMMA NextFuseInv == FuseInv /\ NamespaceStaysWhole /\ [Next]_vars => FuseInv'
<1> SUFFICES ASSUME FuseInv, NamespaceStaysWhole, [Next]_vars PROVE FuseInv'
  OBVIOUS
<1>0. Answered' /\ TypeOK
  <2>1. WholeTrees' /\ errno' \in Errnos
    BY NextWhole
  <2> QED BY <2>1 DEF WholeTrees, IsNamespace, Answered, FuseInv
<1>1. ASSUME UNCHANGED <<Tables, files, dirty, written>> PROVE FuseInv'
  BY <1>0, <1>1, TreeStep
<1>2. ASSUME NEW e, Reply(e), UNCHANGED <<dirty, written>> PROVE FuseInv'
  BY <1>1, <1>2 DEF Reply
<1>3. ASSUME NEW n \in DOMAIN ino_to_path, NEW name, NEW kind, UNCHANGED <<dirty, written>>,
             Entry(Append(ino_to_path[n], name), kind)
      PROVE  FuseInv'
  BY <1>0, <1>3, EntryStep
<1>4. ASSUME NEW n \in DOMAIN ino_to_path, NEW name, NEW r, NEW kind,
             Made(r, Append(ino_to_path[n], name), kind)
      PROVE  FuseInv'
  BY <1>1, <1>3, <1>4 DEF Made
<1>5. ASSUME NEW n \in DOMAIN ino_to_path, NEW name, lookup(n, name) PROVE FuseInv'
  BY <1>2, <1>3, <1>5 DEF lookup
<1>6. ASSUME NEW n \in DOMAIN ino_to_path, NEW name, NEW fault,
             mkdir(n, name, fault) \/ create(n, name, fault)
      PROVE  FuseInv'
  <2>1. \E r, kind : Made(r, Append(ino_to_path[n], name), kind)
    BY <1>6 DEF mkdir, create
  <2> QED BY <1>4, <2>1
<1>7. ASSUME NEW n, NEW name, NEW fault, unlink(n, name, fault) PROVE FuseInv'
  BY <1>1, <1>7 DEF unlink
<1>8. ASSUME NEW n \in DOMAIN ino_to_path, readdir(n) PROVE FuseInv'
  <2> DEFINE p  == ino_to_path[n]
             ps == {p} \cup {child_path(p, e[1]) : e \in UNION Listings(p)}
  <2>1. CASE Listings(p) = {}
    BY <1>2, <1>8, <2>1 DEF readdir
  <2>2. CASE Listings(p) # {}
    <3>1. ino_for_path(ps) /\ UNCHANGED <<files, dirty, written>>
      BY <1>8, <2>2 DEF readdir
    <3>2. \A q \in ps : IsSequence(q)
      <4>1. IsPath(p) /\ \A e \in UNION Listings(p) : IsSequence(e[1])
        BY <1>8, ListedIsText DEF Listings, NamespaceStaysWhole
      <4> HIDE DEF p
      <4> QED BY <4>1, ListedIsPath DEF IsPath
    <3> HIDE DEF ps
    <3> QED BY <1>0, <3>1, <3>2, EntriesStep
  <2> QED BY <2>1, <2>2
<1>9. ASSUME NEW n \in files, NEW fault, flush(n, fault) \/ fsync(n, fault) PROVE FuseInv'
  BY <1>0, <1>9, CommitDirtyStep DEF flush, fsync
<1>10. ASSUME NEW n \in files, NEW c \in Chunks, write(n, c.offset, c.data) PROVE FuseInv'
  BY <1>0, <1>10, WriteStep
<1>11. ASSUME NEW o, NEW fault, Rpc(o, fault) PROVE FuseInv'
  BY <1>1, <1>11 DEF Rpc
<1>12. ASSUME rename \/ UNCHANGED vars PROVE FuseInv'
  BY <1>1, <1>2, <1>12 DEF rename, vars, Tables
<1>13. ASSUME Remount PROVE FuseInv'
  <2>1. Mounted'
    BY <1>0, <1>13 DEF Remount, Mounted, Answered
  <2>2. Mounted' => FuseInv'
    BY MountedInv, PTL
  <2> QED BY <2>1, <2>2
<1> QED BY <1>5, <1>6, <1>7, <1>8, <1>9, <1>10, <1>11, <1>12, <1>13 DEF Next, rmdir

(* The invariant of the mount, whatever its handlers and the daemon's other  *)
(* clients do and whichever commits fail: that the trees are whole is needed *)
(* for the tables, which hold what was listed of them, and that buffers are  *)
(* texts for the trees.                                                      *)
THEOREM MountInvHolds == Spec => [](FuseInv /\ NamespaceStaysWhole)
<1>1. Init => FuseInv /\ NamespaceStaysWhole
  <2> SUFFICES ASSUME Init PROVE FuseInv /\ NamespaceStaysWhole
    OBVIOUS
  <2>1. DOMAIN ino_to_path = {FUSE_ROOT_ID} /\ ino_to_path[FUSE_ROOT_ID] = <<>>
    BY DEF Init, Fresh
  <2>2. IsNamespace(tree) /\ reopened = {tree}
    BY ValueAssumption DEF Init
  <2>3. NamespaceStaysWhole
    BY <2>1, <2>2, RootIsPath DEF NamespaceStaysWhole
  <2>4. Mounted
    BY <2>2 DEF Init, Mounted, IsNamespace
  <2> QED BY <2>3, <2>4, MountedInv
<1>2. FuseInv /\ NamespaceStaysWhole /\ [Next]_vars => FuseInv' /\ NamespaceStaysWhole'
  BY NextFuseInv, NextWhole, NextPaths DEF NamespaceStaysWhole, WholeTrees
<1> QED BY <1>1, <1>2, PTL DEF Spec

(* Every table and buffer keeps its type: no file is open that has no        *)
(* number, none has a buffer that is not open, and the root is no file.      *)
THEOREM TypeCorrect == Spec => []TypeOK
<1>1. FuseInv => TypeOK
  BY DEF FuseInv
<1> QED BY <1>1, MountInvHolds, PTL

(* ino_for_path never gives a number to two paths nor two numbers to a path, *)
(* through every lookup, readdir, mkdir, create and remount.                 *)
THEOREM InodesHold == Spec => []InodesNameOnePath
<1>1. FuseInv => InodesNameOnePath
  BY DEF FuseInv
<1> QED BY <1>1, MountInvHolds, PTL

(* Whatever the order, the places and the lengths of the writes, the buffer  *)
(* of a file is what the writes since its last sync leave.                   *)
THEOREM BuffersHoldTheWrites == Spec => []DirtyIsWhatWasWritten
<1>1. FuseInv => DirtyIsWhatWasWritten
  BY BuffersAreWhatWasWritten DEF FuseInv
<1> QED BY <1>1, MountInvHolds, PTL

(* The handlers and the daemon's other clients keep the namespace whole,     *)
(* after whatever bytes a process has written into which file and whichever  *)
(* commits have failed, and find it whole after a restart.                   *)
THEOREM NamespaceHolds == Spec => []NamespaceStaysWhole
BY MountInvHolds, PTL

-----------------------------------------------------------------------------
(* What a sync commits *)

(* Text is parsed for the type that the scalar has. *)
LEMMA ParseKeepsType ==
    ASSUME NEW old, IsScalar(old), NEW data, NEW s \in parse_scalar_text(old, data)
    PROVE  s.ty = old.ty
<1>1. CASE old.ty = "bytes"
  BY <1>1 DEF parse_scalar_text, bytes
<1>2. CASE old.ty = "string"
  BY <1>2 DEF parse_scalar_text, string
<1>3. CASE old.ty = "int"
  BY <1>3 DEF parse_scalar_text, int
<1>4. CASE old.ty = "float"
  BY <1>4 DEF parse_scalar_text, float
<1>5. CASE old.ty = "bool"
  BY <1>5 DEF parse_scalar_text, bool
<1>6. CASE old.ty = "null"
  BY <1>6 DEF parse_scalar_text, null
<1> QED BY <1>1, <1>2, <1>3, <1>4, <1>5, <1>6 DEF IsScalar, ScalarTypes

(* What a sync of file n may come to: ok, or an error with the writes stored *)
(* all the same, or one with nothing changed.                                *)
Syncs(n, r) ==
    /\ CASE r.errno = "ok"  -> Stored(n, r.tree)
         [] r.errno = "EIO" -> r.tree = tree \/ Stored(n, r.tree)
         [] OTHER           -> r.tree = tree /\ r.reopened = reopened
    /\ \A t \in r.reopened \ reopened : Stored(n, t)

(* A sync that gives up. *)
LEMMA UnchangedSyncs ==
    ASSUME NEW n, NEW e, e # "ok"
    PROVE  Syncs(n, Unchanged(e))
BY UnchangedIs DEF Syncs

(* A sync that commits what is written, whatever fails in the commit. *)
LEMMA SetSyncs ==
    ASSUME NEW n, NEW c, NEW v, NEW fault \in Faults, Stored(n, With(tree, c, v))
    PROVE  Syncs(n, DbSet(c, v, fault))
<1> DEFINE r == DbSet(c, v, fault)
           t == With(tree, c, v)
<1>1. CASE Changes(r, t)
  <2> HIDE DEF r, t
  <2>1. /\ r.errno \in {"ok", "EIO"} /\ (r.errno = "ok" => r.tree = t)
        /\ r.tree \in {tree, t} /\ r.reopened \subseteq reopened \cup {t}
    BY <1>1 DEF Changes
  <2>2. Stored(n, t)
    BY DEF t
  <2>3. \A x \in r.reopened \ reopened : Stored(n, x)
    BY <2>1, <2>2
  <2>4. ASSUME r.errno = "ok" PROVE Syncs(n, r)
    BY <2>1, <2>2, <2>3, <2>4 DEF Syncs
  <2>5. ASSUME r.errno = "EIO" PROVE Syncs(n, r)
    <3>1. r.tree = tree \/ Stored(n, r.tree)
      BY <2>1, <2>2
    <3> QED BY <2>3, <2>5, <3>1 DEF Syncs
  <2>6. Syncs(n, r)
    BY <2>1, <2>4, <2>5
  <2> QED BY <2>6 DEF r
<1>2. CASE r = Unchanged("EIO")
  BY <1>2, UnchangedSyncs
<1> QED BY <1>1, <1>2, DbSetIs

(* What is parsed is committed, or nothing is. *)
LEMMA ReplacedSyncs ==
    ASSUME NEW n, NEW old, NEW data, NEW rs,
           IsScalar(old) => \A r \in rs : Syncs(n, r),
           parse_scalar_text(old, data) # {} => rs # {}
    PROVE  Syncs(n, Replaced(old, data, rs))
<1>1. Syncs(n, Unchanged("EPERM")) /\ Syncs(n, Unchanged("EINVAL"))
  BY UnchangedSyncs
<1> QED BY <1>1 DEF Replaced

(* The scalar at c is replaced. *)
LEMMA CommitScalarSyncs ==
    ASSUME NEW n, NEW c \in parse(ino_to_path[n]), c \in DOMAIN tree, NEW fault \in Faults
    PROVE  Syncs(n, CommitScalar(c, Overlay(written[n]), fault))
<1> DEFINE data == Overlay(written[n])
           old  == tree[c]
           rs   == {DbSet(c, s, fault) : s \in parse_scalar_text(old, data)}
<1>1. CommitScalar(c, data, fault) = Replaced(old, data, rs)
  BY DEF CommitScalar
<1>2. ASSUME IsScalar(old), NEW s \in parse_scalar_text(old, data)
      PROVE  Stored(n, With(tree, c, s))
  <2>1. s.ty = old.ty
    BY <1>2, ParseKeepsType
  <2> DEFINE t == With(tree, c, s)
  <2>2. /\ DOMAIN t = DOMAIN tree /\ t[c] = s
        /\ \A q \in DOMAIN tree \ {c} : t[q] = tree[q]
    BY DEF With
  <2> HIDE DEF t
  <2>3. Leaf(tree, c) = {old} /\ Leaf(t, c) = {s}
    BY <2>2 DEF Leaf
  <2>4. Leaf(tree, c) # {} /\ (CHOOSE v \in Leaf(tree, c) : TRUE) = old
    BY <2>3
  <2>5. StoredAt(c, written[n], t)
    BY <1>2, <2>1, <2>2, <2>3, <2>4 DEF StoredAt
  <2> QED BY <2>5 DEF Stored, t
<1>3. IsScalar(old) => \A r \in rs : Syncs(n, r)
  BY <1>2, SetSyncs
<1>4. parse_scalar_text(old, data) # {} => rs # {}
  OBVIOUS
<1> HIDE DEF rs, old, data
<1>5. Syncs(n, Replaced(old, data, rs))
  BY <1>3, <1>4, ReplacedSyncs
<1> QED BY <1>1, <1>5 DEF data

(* The member that c names, of the hash above c, is replaced or added. *)
LEMMA CommitMemberSyncs ==
    ASSUME NEW n, NEW c \in parse(ino_to_path[n]), c \notin DOMAIN tree, NEW fault \in Faults,
           HashAbove(c) # {}
    PROVE  LET m == (CHOOSE v \in HashAbove(c) : TRUE).map
           IN  Syncs(n, CommitMember(c, m, Overlay(written[n]), fault))
<1> DEFINE up   == Parent(c)
           name == Last(c)
           data == Overlay(written[n])
           m    == (CHOOSE v \in HashAbove(c) : TRUE).map
           old  == Member(m, name)
           rs   == {DbSet(up, Hash(With(m, name, s)), fault) : s \in parse_scalar_text(old, data)}
<1>1. CommitMember(c, m, data, fault) = Replaced(old, data, rs)
  BY DEF CommitMember
<1>2. c # <<>> /\ up \in DOMAIN tree /\ tree[up].ty = "hash" /\ m = tree[up].map
  BY DEF HashAbove, ValueAt
<1>3. ASSUME IsScalar(old), NEW s \in parse_scalar_text(old, data)
      PROVE  Stored(n, With(tree, up, Hash(With(m, name, s))))
  <2>1. s.ty = old.ty
    BY <1>3, ParseKeepsType
  <2> DEFINE t == With(tree, up, Hash(With(m, name, s)))
  <2> HIDE DEF rs, m, old, up, name
  <2>5. /\ DOMAIN t = DOMAIN tree /\ t[up] = Hash(With(m, name, s))
        /\ \A q \in DOMAIN tree \ {up} : t[q] = tree[q]
    BY <1>2 DEF With
  <2> HIDE DEF t
  <2>6. t[up].ty = "hash" /\ t[up].map = With(m, name, s)
    BY <2>5 DEF Hash
  <2>7. Leaf(t, c) = {s}
    <3>1. Leaf(t, c) = project_child_value(t[up], name)
      BY <1>2, <2>5 DEF Leaf, up, name
    <3>2. project_child_value(t[up], name) = {t[up].map[k] : k \in {name} \cap DOMAIN t[up].map}
      BY <2>6 DEF project_child_value
    <3>3. name \in DOMAIN t[up].map /\ t[up].map[name] = s
      BY <2>6 DEF With
    <3> QED BY <3>1, <3>2, <3>3
  <2>8. old = IF Leaf(tree, c) = {} THEN string(<<>>) ELSE CHOOSE v \in Leaf(tree, c) : TRUE
    <3>1. Leaf(tree, c) = project_child_value(tree[up], name)
      BY <1>2 DEF Leaf, up, name
    <3>2. project_child_value(tree[up], name) = {m[k] : k \in {name} \cap DOMAIN m}
      BY <1>2 DEF project_child_value
    <3>3. CASE name \in DOMAIN m
      <4>1. Leaf(tree, c) = {m[name]} /\ old = m[name]
        BY <3>1, <3>2, <3>3 DEF old, Member
      <4> QED BY <4>1
    <3>4. CASE name \notin DOMAIN m
      <4>1. Leaf(tree, c) = {} /\ old = string(<<>>)
        BY <3>1, <3>2, <3>4 DEF old, Member
      <4> QED BY <4>1
    <3> QED BY <3>3, <3>4
  <2>9. Drop(t[up].map, name) = Drop(tree[up].map, name)
    <3>1. DOMAIN With(m, name, s) = DOMAIN m \cup {name}
      BY DEF With
    <3>2. \A k \in DOMAIN m \ {name} : With(m, name, s)[k] = m[k]
      BY DEF With
    <3>3. (DOMAIN m \cup {name}) \ {name} = DOMAIN m \ {name}
      OBVIOUS
    <3> QED BY <1>2, <2>6, <3>1, <3>2, <3>3 DEF Drop
  <2>10. \A q \in DOMAIN tree \ {c} :
            t[q] # tree[q] =>
               /\ c \notin DOMAIN tree /\ q = up /\ tree[q].ty = "hash" /\ t[q].ty = "hash"
               /\ Drop(t[q].map, name) = Drop(tree[q].map, name)
    BY <1>2, <2>5, <2>6, <2>9
  <2>11. StoredAt(c, written[n], t)
    BY <1>3, <2>1, <2>5, <2>7, <2>8, <2>10 DEF StoredAt, up, name
  <2> QED BY <2>11 DEF Stored, t
<1>4. IsScalar(old) => \A r \in rs : Syncs(n, r)
  <2> HIDE DEF m, old, data, up, name
  <2> QED BY <1>3, SetSyncs
<1>5. parse_scalar_text(old, data) # {} => rs # {}
  OBVIOUS
<1> HIDE DEF rs, old, data, m
<1>6. Syncs(n, Replaced(old, data, rs))
  BY <1>4, <1>5, ReplacedSyncs
<1> QED BY <1>1, <1>6 DEF data, m

(* flush and fsync commit what was written. *)
LEMMA CommitToSyncs ==
    ASSUME NEW n, IsPath(ino_to_path[n]), NEW fault \in Faults
    PROVE  Syncs(n, CommitTo(ino_to_path[n], Overlay(written[n]), fault))
<1> DEFINE p == ino_to_path[n]
           c == PathOf(p)
           data == Overlay(written[n])
<1>1. CommitTo(p, data, fault) =
        IF parse(p) = {} THEN Unchanged("EINVAL")
        ELSE IF c \in DOMAIN tree THEN CommitScalar(c, data, fault)
        ELSE IF HashAbove(c) = {} THEN Unchanged("ENOENT")
        ELSE CommitMember(c, (CHOOSE v \in HashAbove(c) : TRUE).map, data, fault)
  BY DEF CommitTo
<1>2. Syncs(n, Unchanged("EINVAL")) /\ Syncs(n, Unchanged("ENOENT"))
  BY UnchangedSyncs
<1>3. parse(p) # {} => c \in parse(p)
  BY PathOfIs
<1> HIDE DEF c
<1>4. ASSUME parse(p) # {}, c \in DOMAIN tree PROVE Syncs(n, CommitScalar(c, data, fault))
  BY <1>3, <1>4, CommitScalarSyncs
<1>5. ASSUME parse(p) # {}, c \notin DOMAIN tree, HashAbove(c) # {}
      PROVE  Syncs(n, CommitMember(c, (CHOOSE v \in HashAbove(c) : TRUE).map, data, fault))
  BY <1>3, <1>5, CommitMemberSyncs
<1> HIDE DEF p, data
<1>6. Syncs(n, CommitTo(p, data, fault))
  BY <1>1, <1>2, <1>4, <1>5
<1> QED BY <1>6 DEF p, data

(* A step that takes the writes of a file is a sync of that file. *)
LEMMA SyncStep == FuseInv /\ NamespaceStaysWhole /\ [Next]_vars => [SyncIsExact]_vars
<1> DEFINE Exact(n) ==
             /\ CASE errno' = "ok"  -> Stored(n, tree')
                  [] errno' = "EIO" -> tree' = tree \/ Stored(n, tree')
                  [] OTHER          -> tree' = tree /\ reopened' = reopened
             /\ \A t \in reopened' \ reopened : Stored(n, t)
<1> SUFFICES ASSUME FuseInv, NamespaceStaysWhole, Next, NEW n \in Inos,
                    written[n] # <<>>, written'[n] = <<>>, ino_to_path' = ino_to_path
             PROVE  Exact(n)
  BY DEF SyncIsExact
<1> HIDE DEF Exact
<1>1. /\ n \in DOMAIN dirty /\ n \in files /\ n # FUSE_ROOT_ID /\ n \in DOMAIN ino_to_path
      /\ dirty[n] = Overlay(written[n]) /\ written \in [Inos -> Seq(Writes)]
  BY DEF FuseInv, TypeOK, BuffersHold, Holds, Pending
<1>2. ASSUME NEW ino \in files, NEW fault \in Faults, commit_dirty(ino, fault)
      PROVE  Exact(n)
  <2>1. n = ino
    BY <1>1, <1>2 DEF commit_dirty
  <2> DEFINE r == CommitTo(ino_to_path[n], Overlay(written[n]), fault)
  <2>2. Leave(r)
    BY <1>1, <1>2, <2>1 DEF commit_dirty
  <2>3. IsPath(ino_to_path[n])
    BY <1>1 DEF NamespaceStaysWhole
  <2>4. Syncs(n, r)
    BY <1>2, <2>3, CommitToSyncs
  <2> HIDE DEF r
  <2>5. tree' = r.tree /\ errno' = r.errno /\ reopened' = r.reopened
    BY <2>2 DEF Leave
  <2> QED BY <2>4, <2>5 DEF Syncs, Exact
<1>3. ASSUME NEW ino \in files, NEW c \in Chunks, write(ino, c.offset, c.data)
      PROVE  FALSE
  <2> DEFINE w == [offset |-> c.offset, data |-> c.data]
  <2>1. w \in Writes /\ written' = [written EXCEPT ![ino] = Append(@, w)]
    BY <1>3 DEF write, Writes
  <2>2. written[n] \in Seq(Writes)
    BY <1>1
  <2>3. Append(written[n], w) # <<>>
    BY <2>1, <2>2
  <2> HIDE DEF w
  <2> QED BY <1>1, <2>1, <2>3
<1>4. ASSUME Remount PROVE FALSE
  <2>1. DOMAIN ino_to_path = {FUSE_ROOT_ID}
    BY <1>4 DEF Remount, Fresh
  <2> QED BY <1>1, <2>1
<1>5. \A r, child, kind : Made(r, child, kind) => written' = written
  BY DEF Made
<1>6. ASSUME NEW m, NEW name, NEW fault, mkdir(m, name, fault) \/ create(m, name, fault)
      PROVE  written' = written
  BY <1>5, <1>6 DEF mkdir, create
<1>7. written' = written => FALSE
  OBVIOUS
<1> QED BY <1>2, <1>3, <1>4, <1>6, <1>7
        DEF Next, lookup, unlink, rmdir, readdir, flush, fsync, rename, Rpc

(* Whatever other clients did to the entry since the file was opened, a      *)
(* flush or fsync that answers ok has replaced the scalar that is there by   *)
(* exactly what was written, in its type. If it answers EIO, it has done     *)
(* just that or nothing, and so has what is found after a restart; if it     *)
(* answers another error, it has done nothing.                               *)
THEOREM SyncHolds == Spec => SyncCommitsTheWrites
BY MountInvHolds, SyncStep, PTL DEF Spec, SyncCommitsTheWrites

-----------------------------------------------------------------------------
(* What the handlers answer *)

(* The names that are worth asking for are texts, and segments of a path. *)
LEMMA AskedIsText ==
    ASSUME IsNamespace(tree), NEW p \in DOMAIN tree, NEW name \in Asked(p)
    PROVE  IsSequence(name) /\ IsSegment(name)
<1> DEFINE listed == {e[1] : e \in Listing(p)}
<1>1. \A x \in listed : IsSequence(x)
  BY ListedIsText
<1>2. ASSUME NEW x, IsSequence(x) PROVE IsSequence(<<"0">> \o x)
  <2> DEFINE S == {x[i] : i \in DOMAIN x} \cup {"0"}
  <2>1. x \in Seq({x[i] : i \in DOMAIN x})
    BY <1>2 DEF IsSequence
  <2>2. x \in Seq(S) /\ <<"0">> \in Seq(S)
    BY <2>1, SeqMonotonic
  <2> HIDE DEF S
  <2>3. <<"0">> \o x \in Seq(S)
    BY <2>2
  <2> QED BY <2>3, SequenceType
<1>3. name \in NamesBelow(p) \cup listed \cup {<<"0">> \o x : x \in listed} /\ IsSegment(name)
  BY DEF Asked
<1>4. IsSequence(p)
  BY DEF IsNamespace, IsDbPath, IsPath
<1> HIDE DEF listed
<1> QED BY <1>1, <1>2, <1>3, <1>4, NamesAreTexts

(* A name means at most one member of a structured value. *)
LEMMA MemberIs ==
    ASSUME NEW v, IsValue(v), NEW name, IsSequence(name), NEW m \in project_child_value(v, name)
    PROVE  IsMember(m) /\ project_child_value(v, name) = {m}
<1>1. CASE v.ty = "hash"
  <2>1. project_child_value(v, name) = {v.map[k] : k \in {name} \cap DOMAIN v.map}
    BY <1>1 DEF project_child_value
  <2>2. name \in DOMAIN v.map /\ m = v.map[name]
    BY <2>1
  <2>3. IsMember(m)
    BY <1>1, <2>2, ValueForms DEF IsMap
  <2> QED BY <2>1, <2>2, <2>3
<1>2. CASE v.ty = "list"
  <2>1. project_child_value(v, name) = {v.items[i] : i \in Index(v, name)}
    BY <1>2 DEF project_child_value
  <2>2. PICK i \in Index(v, name) : m = v.items[i]
    BY <2>1
  <2>3. IsSequence(v.items) /\ \A j \in DOMAIN v.items : IsMember(v.items[j])
    BY <1>2, ValueForms
  <2>4. i \in 1..Len(v.items) /\ ParseNat(name) = {i - 1} /\ i - 1 \in Nat
    BY <2>2, <2>3, IndexType
  <2>5. DOMAIN v.items = 1..Len(v.items)
    BY <2>3, SequenceDomain
  <2>6. Index(v, name) = {i}
    BY <2>2, <2>4 DEF Index
  <2> QED BY <2>1, <2>2, <2>3, <2>4, <2>5, <2>6
<1>3. CASE v.ty = "set"
  <2>1. PICK j \in Named(v, name) : TRUE
    BY <1>3 DEF project_child_value
  <2>2. Min(Named(v, name)) = j /\ j \in DOMAIN v.members
    BY <1>3, NamedIs DEF Named
  <2>3. project_child_value(v, name) = {v.members[j]}
    BY <1>3, <2>1, <2>2 DEF project_child_value
  <2> QED BY <1>3, <2>2, <2>3, ValueForms
<1>4. CASE v.ty = "tree"
  <2> DEFINE K == IF IntKey(v, name) # {} THEN IntKey(v, name) ELSE StringKey(v, name)
  <2>1. project_child_value(v, name) = {v.entries[k] : k \in K}
    BY <1>4 DEF project_child_value
  <2>2. \A a, b \in K : a = b
    <3>1. \A a, b \in ParseInt(name) : a = b
      BY ParseFacts DEF IsSequence
    <3>2. \A a, b \in IntKey(v, name) : a = b
      BY <3>1 DEF IntKey
    <3>3. \A a, b \in StringKey(v, name) : a = b
      BY DEF StringKey
    <3> QED BY <3>2, <3>3
  <2>3. K \subseteq DOMAIN v.entries
    BY DEF IntKey, StringKey
  <2> HIDE DEF K
  <2>4. PICK k \in K : m = v.entries[k]
    BY <2>1
  <2>5. IsMember(m)
    BY <1>4, <2>3, <2>4, ValueForms DEF IsMap
  <2> QED BY <2>1, <2>2, <2>4, <2>5
<1>5. CASE v.ty \notin {"hash", "list", "set", "tree"}
  <2>1. project_child_value(v, name) = {}
    BY <1>5 DEF project_child_value
  <2> QED BY <2>1
<1> QED BY <1>1, <1>2, <1>3, <1>4, <1>5

(* So does a path. *)
LEMMA ProjectedIs ==
    ASSUME IsNamespace(tree), NEW p, IsPath(p), NEW m \in Projected(p)
    PROVE  IsMember(m) /\ Projected(p) = {m}
<1>1. p # <<>>
  BY DEF Projected
<1>2. Projected(p) = UNION {project_child_value(v, Last(p)) : v \in ValueAt(Parent(p))}
  BY <1>1 DEF Projected
<1>3. PICK v \in ValueAt(Parent(p)) : m \in project_child_value(v, Last(p))
  BY <1>2
<1>4. ValueAt(Parent(p)) = {v} /\ IsValue(v)
  BY <1>3, ValueAtIs
<1>5. IsSequence(Last(p))
  BY <1>1, LastIsText
<1>6. IsMember(m) /\ project_child_value(v, Last(p)) = {m}
  BY <1>3, <1>4, <1>5, MemberIs
<1> QED BY <1>2, <1>4, <1>6

(* Nothing is projected where there is an entry. *)
LEMMA EntryIsNotProjected ==
    ASSUME IsNamespace(tree), NEW p \in DOMAIN tree
    PROVE  Projected(p) = {}
<1>1. CASE p = <<>>
  BY <1>1 DEF Projected
<1>2. CASE p # <<>>
  <2>1. NS!IsDirAt(tree, Parent(p))
    BY <1>2 DEF IsNamespace, Parent, NS!Parent
  <2>2. ValueAt(Parent(p)) = {}
    BY <2>1 DEF NS!IsDirAt, ValueAt
  <2> QED BY <1>2, <2>2 DEF Projected
<1> QED BY <1>1, <1>2

(* lookup finds the entries of a directory and the members of a value. *)
LEMMA LookupBelow ==
    ASSUME IsNamespace(tree), NEW p \in DOMAIN tree, NEW name, IsSequence(name), IsSegment(name)
    PROVE  LET child == Append(p, name) IN
           IF tree[p] = NS!Dir THEN LookupAttr(child) = EntryAttr(child)
           ELSE /\ child \notin DOMAIN tree
                /\ LookupAttr(child) = {attr_for(m) : m \in project_child_value(tree[p], name)}
<1> DEFINE child == Append(p, name)
<1>1. child # <<>> /\ Parent(child) = p /\ Last(child) = name
  BY ChildType, PathFacts DEF IsNamespace, IsDbPath, IsPath
<1>5. parse(child) = {child}
  BY ChildIsDbPath, ParseSame DEF IsNamespace
<1> HIDE DEF child
<1>6. LookupAttr(child) = IF ProjectedAttr(child) # {} THEN ProjectedAttr(child) ELSE EntryAttr(child)
  BY <1>5 DEF LookupAttr
<1>2. Projected(child) = UNION {project_child_value(v, name) : v \in ValueAt(p)}
  BY <1>1 DEF Projected
<1>3. CASE tree[p] = NS!Dir
  <2>1. Projected(child) = {}
    BY <1>2, <1>3, ListingIs
  <2> QED BY <1>3, <1>6, <2>1 DEF ProjectedAttr, child
<1>4. CASE tree[p] # NS!Dir
  <2>1. ValueAt(p) = {tree[p]}
    BY <1>4, ListingIs
  <2>2. Projected(child) = project_child_value(tree[p], name)
    BY <1>2, <2>1
  <2>3. child \notin DOMAIN tree
    BY <1>1, <1>4 DEF IsNamespace, NS!IsDirAt, Parent, NS!Parent
  <2>4. EntryAttr(child) = {}
    BY <2>3 DEF EntryAttr
  <2>5. LookupAttr(child) = ProjectedAttr(child)
    BY <1>6, <2>4
  <2> QED BY <1>4, <2>2, <2>3, <2>5 DEF ProjectedAttr, child
<1> QED BY <1>3, <1>4

(* readdir lists, under its kind, what lookup finds. *)
LEMMA ListedIsFound ==
    ASSUME IsNamespace(tree), NEW p \in DOMAIN tree, NEW e \in Listing(p), IsSegment(e[1])
    PROVE  \/ Nameless(p, e[1])
           \/ \E attr \in LookupAttr(Append(p, e[1])) :
                 attr.kind = e[2] \/ (tree[p].ty \in {"set", "tree"} /\ e[2] = "file")
<1> DEFINE v == tree[p]
           name == e[1]
<1>0. (\A m : attr_for(m).kind = FileType(m)) /\ IsSequence(name)
  BY ListedIsText DEF attr_for
<1>1. CASE v = NS!Dir
  <2>1. PICK q \in NS!Below(tree, p) : e = <<Last(q), FileType(tree[q])>>
    BY <1>1, ListingIs
  <2>2. q \in DOMAIN tree /\ Parent(q) = p /\ Len(q) = Len(p) + 1
    BY DEF NS!Below, Parent, NS!Parent
  <2>3. IsSequence(q) /\ Len(p) \in Nat
    BY <2>2, PathFacts DEF IsNamespace, IsDbPath, IsPath
  <2>4. q # <<>>
    BY <2>2, <2>3
  <2>5. Append(p, name) = q
    BY <2>1, <2>2, <2>3, <2>4, PathFacts
  <2>6. attr_for(tree[q]) \in LookupAttr(Append(p, name))
    <3>1. LookupAttr(q) = EntryAttr(q)
      BY <1>0, <1>1, <2>5, LookupBelow
    <3>2. attr_for(tree[q]) \in EntryAttr(q)
      BY <2>2 DEF EntryAttr
    <3> QED BY <2>5, <3>1, <3>2
  <2> QED BY <1>0, <2>1, <2>6
<1>2. CASE v # NS!Dir
  <2>1. /\ IsValue(v) /\ e \in project_listing(v)
        /\ LookupAttr(Append(p, name)) = {attr_for(m) : m \in project_child_value(v, name)}
    BY <1>0, <1>2, ListingIs, LookupBelow
  <2>2. SUFFICES ASSUME ~Nameless(p, name)
                 PROVE  \E m \in project_child_value(v, name) :
                           FileType(m) = e[2] \/ (v.ty \in {"set", "tree"} /\ e[2] = "file")
    BY <1>0, <2>1
  <2>3. CASE v.ty = "hash"
    <3>1. PICK k \in DOMAIN v.map : e = <<k, FileType(v.map[k])>>
      BY <2>1, <2>3 DEF project_listing
    <3>2. v.map[k] \in project_child_value(v, name)
      BY <2>3, <3>1 DEF project_child_value
    <3> QED BY <3>1, <3>2
  <2>4. CASE v.ty = "list"
    <3>1. PICK i \in DOMAIN v.items : e = <<ShowNat(i - 1), FileType(v.items[i])>>
      BY <2>1, <2>4 DEF project_listing
    <3>2. DOMAIN v.items = 1..Len(v.items) /\ Len(v.items) \in Nat
      BY <2>1, <2>4, ValueForms, SequenceDomain
    <3>3. i - 1 \in Nat /\ (i - 1) + 1 = i /\ i <= Len(v.items)
      BY <3>1, <3>2
    <3>4. ParseNat(name) = {i - 1}
      BY <3>1, <3>3, ReadNat
    <3>5. i \in Index(v, name)
      BY <3>3, <3>4 DEF Index
    <3>6. v.items[i] \in project_child_value(v, name)
      BY <2>4, <3>5 DEF project_child_value
    <3> QED BY <3>1, <3>6
  <2>5. CASE v.ty = "set"
    <3>1. PICK i \in DOMAIN v.members : e = <<set_member_name(v.members[i]), "file">>
      BY <2>1, <2>5 DEF project_listing
    <3>2. i \in Named(v, name)
      BY <3>1 DEF Named
    <3>3. v.members[Min(Named(v, name))] \in project_child_value(v, name)
      BY <2>5, <3>2 DEF project_child_value
    <3> QED BY <2>5, <3>1, <3>3
  <2>6. CASE v.ty = "tree"
    <3>1. PICK k \in DOMAIN v.entries : e = <<key_name(k), "file">>
      BY <2>1, <2>6 DEF project_listing
    <3>2. k.ty \in {"int", "string"} /\ IsScalarValue(k)
      BY <2>1, <2>2, <2>6, <3>1, ValueForms DEF Nameless
    <3>3. IntKey(v, name) # {} \/ StringKey(v, name) # {}
      <4>1. CASE k.ty = "int"
        <5>1. k.int \in Int /\ k = int(k.int)
          BY <3>2, <4>1 DEF IsScalarValue, null
        <5>2. name = ShowInt(k.int)
          BY <3>1, <4>1 DEF key_name
        <5>3. ParseInt(name) = {k.int}
          BY <5>1, <5>2, ReadInt
        <5>4. k \in IntKey(v, name)
          BY <3>1, <5>1, <5>3 DEF IntKey
        <5> QED BY <5>4
      <4>2. CASE k.ty = "string"
        <5>1. k = string(k.text) /\ name = k.text
          BY <3>1, <3>2, <4>2 DEF IsScalarValue, null, key_name
        <5> QED BY <3>1, <5>1 DEF StringKey
      <4> QED BY <3>2, <4>1, <4>2
    <3>4. project_child_value(v, name) # {}
      BY <2>6, <3>3 DEF project_child_value
    <3> QED BY <2>6, <3>1, <3>4
  <2>7. CASE v.ty \notin {"hash", "list", "set", "tree"}
    BY <2>1, <2>7 DEF project_listing
  <2> QED BY <2>3, <2>4, <2>5, <2>6, <2>7
<1> QED BY <1>1, <1>2

(* What lookup finds, readdir lists, if in another spelling of a number. *)
LEMMA FoundIsListed ==
    ASSUME IsNamespace(tree), NEW p \in DOMAIN tree, NEW name, IsSequence(name), IsSegment(name),
           LookupAttr(Append(p, name)) # {}
    PROVE  \E e \in Listing(p) :
              e[1] = name \/ (ParseInt(name) # {} /\ ParseInt(name) = ParseInt(e[1]))
<1> DEFINE v == tree[p]
<1>1. CASE v = NS!Dir
  <2> DEFINE q == Append(p, name)
  <2>0. EntryAttr(q) # {}
    BY <1>1, LookupBelow
  <2>1. q \in DOMAIN tree
    <3> HIDE DEF q
    <3> QED BY <2>0 DEF EntryAttr
  <2>2. Parent(q) = p /\ Last(q) = name /\ Len(q) = Len(p) + 1
    BY PathFacts DEF IsNamespace, IsDbPath, IsPath
  <2> HIDE DEF q
  <2>3. q \in NS!Below(tree, p)
    BY <2>1, <2>2 DEF NS!Below, Parent, NS!Parent
  <2>4. <<name, FileType(tree[q])>> \in Listing(p)
    BY <1>1, <2>2, <2>3, ListingIs
  <2> QED BY <2>4
<1>2. CASE v # NS!Dir
  <2>1. IsValue(v) /\ Listing(p) = project_listing(v) /\ project_child_value(v, name) # {}
    BY <1>2, ListingIs, LookupBelow
  <2>2. CASE v.ty = "hash"
    <3>1. name \in DOMAIN v.map
      BY <2>1, <2>2 DEF project_child_value
    <3>2. <<name, FileType(v.map[name])>> \in project_listing(v)
      BY <2>2, <3>1 DEF project_listing
    <3> QED BY <2>1, <3>2
  <2>3. CASE v.ty = "list"
    <3>1. PICK i \in Index(v, name) : TRUE
      BY <2>1, <2>3 DEF project_child_value
    <3>2. IsSequence(v.items)
      BY <2>1, <2>3, ValueForms
    <3>3. i \in 1..Len(v.items) /\ ParseNat(name) = {i - 1} /\ i - 1 \in Nat
      BY <3>1, <3>2, IndexType
    <3>4. i \in DOMAIN v.items
      BY <3>2, <3>3, SequenceDomain
    <3>5. <<ShowNat(i - 1), FileType(v.items[i])>> \in project_listing(v)
      BY <2>3, <3>4 DEF project_listing
    <3>6. ParseInt(name) = {i - 1}
      BY <3>3, ParseFacts DEF IsSequence
    <3>7. ParseInt(ShowNat(i - 1)) = {i - 1}
      BY <3>3, ReadNat
    <3> QED BY <2>1, <3>5, <3>6, <3>7
  <2>4. CASE v.ty = "set"
    <3>1. PICK i \in DOMAIN v.members : set_member_name(v.members[i]) = name
      BY <2>1, <2>4 DEF project_child_value, Named
    <3>2. <<name, "file">> \in project_listing(v)
      BY <2>4, <3>1 DEF project_listing
    <3> QED BY <2>1, <3>2
  <2>5. CASE v.ty = "tree"
    <3>1. \A k \in DOMAIN v.entries : <<key_name(k), "file">> \in project_listing(v)
      BY <2>5 DEF project_listing
    <3>2. IntKey(v, name) # {} \/ StringKey(v, name) # {}
      BY <2>1, <2>5 DEF project_child_value
    <3>3. CASE IntKey(v, name) # {}
      <4>1. PICK n \in ParseInt(name) : int(n) \in DOMAIN v.entries
        BY <3>3 DEF IntKey
      <4>2. n \in Int /\ ParseInt(name) = {n}
        BY <4>1, ParseFacts DEF IsSequence
      <4>3. key_name(int(n)) = ShowInt(n)
        BY DEF key_name, int
      <4>4. ParseInt(ShowInt(n)) = {n}
        BY <4>2, ReadInt
      <4> DEFINE e == <<ShowInt(n), "file">>
      <4>5. e \in Listing(p) /\ e[1] = ShowInt(n)
        BY <2>1, <3>1, <4>1, <4>3
      <4> HIDE DEF e
      <4> QED BY <4>2, <4>4, <4>5
    <3>4. CASE StringKey(v, name) # {}
      <4>1. string(name) \in DOMAIN v.entries
        BY <3>4 DEF StringKey
      <4>2. key_name(string(name)) = name
        BY DEF key_name, string
      <4> DEFINE e == <<name, "file">>
      <4>3. e \in Listing(p) /\ e[1] = name
        BY <2>1, <3>1, <4>1, <4>2
      <4> HIDE DEF e
      <4> QED BY <4>3
    <3> QED BY <3>2, <3>3, <3>4
  <2>6. CASE v.ty \notin {"hash", "list", "set", "tree"}
    BY <2>1, <2>6 DEF project_child_value
  <2> QED BY <2>2, <2>3, <2>4, <2>5, <2>6
<1> QED BY <1>1, <1>2

(* An entry that lookup finds can be listed. *)
LEMMA FoundIsListable ==
    ASSUME IsNamespace(tree), NEW p \in DOMAIN tree, tree[p] = NS!Dir,
           NEW name, IsSequence(name), IsSegment(name), LookupAttr(Append(p, name)) # {}
    PROVE  Listings(Append(p, name)) # {}
<1> DEFINE child == Append(p, name)
<1>1. parse(child) = {child}
  BY ChildIsDbPath, ParseSame DEF IsNamespace
<1>2. EntryAttr(child) # {}
  BY LookupBelow
<1> HIDE DEF child
<1>3. child \in DOMAIN tree
  BY <1>2 DEF EntryAttr
<1>4. Listing(child) \in Listings(child)
  BY <1>1, <1>3 DEF Listings
<1> QED BY <1>4 DEF child

(* A read from the start that asks for more than there is gets all of it. *)
LEMMA SliceAll ==
    ASSUME NEW data, IsSequence(data)
    PROVE  Slice(data, 0, Len(data) + 1) = data
<1> DEFINE n == Len(data)
           S == {data[i] : i \in DOMAIN data}
<1>1. data \in Seq(S) /\ n \in Nat
  BY SequenceDomain DEF IsSequence
<1> HIDE DEF S
<1>2. Slice(data, 0, n + 1) = IF 0 >= n THEN <<>> ELSE SubSeq(data, 0 + 1, Min({0 + (n + 1), n}))
  BY DEF Slice
<1>3. CASE n = 0
  BY <1>1, <1>2, <1>3
<1>4. CASE n # 0
  <2>1. Min({0 + (n + 1), n}) = n
    <3>1. \A x \in {0 + (n + 1), n} : n <= x
      BY <1>1
    <3>2. \A x \in {0 + (n + 1), n} : x <= n => x = n
      BY <1>1
    <3> HIDE DEF n
    <3> QED BY <3>1, <3>2 DEF Min
  <2>2. ~(0 >= n) /\ 0 + 1 = 1
    BY <1>1, <1>4
  <2>3. Slice(data, 0, n + 1) = SubSeq(data, 1, n)
    BY <1>2, <2>1, <2>2
  <2>4. SubSeq(data, 1, n) = data
    <3> DEFINE r == SubSeq(data, 1, n)
    <3>1. r \in Seq(S) /\ Len(r) = n /\ \A i \in 1..n : r[i] = data[i]
      BY <1>1
    <3> HIDE DEF r
    <3>2. r = data
      BY <1>1, <3>1, SeqEqual
    <3> QED BY <3>2 DEF r
  <2> QED BY <2>3, <2>4
<1> QED BY <1>3, <1>4

(* The attributes of what is at a path, and the bytes that are read there. *)
LEMMA AttrIs ==
    ASSUME NEW m, IsMember(m) \/ m = NS!Dir
    PROVE  /\ attr_for(m).kind = "file" <=> IsScalar(m)
           /\ IsScalar(m) => /\ IsSequence(scalar_bytes(m)) /\ m # NS!Dir
                             /\ attr_for(m).size = Len(scalar_bytes(m))
           /\ IsScalar(m) <=> m.ty \in ScalarTypes
<1>1. attr_for(m).kind = "file" <=> IsScalar(m)
  BY DEF attr_for, FileType
<1>2. ASSUME IsScalar(m)
      PROVE  /\ IsSequence(scalar_bytes(m)) /\ m # NS!Dir
             /\ attr_for(m).size = Len(scalar_bytes(m))
  <2>1. m # NS!Dir
    BY <1>2 DEF IsScalar, ScalarTypes, NS!Dir
  <2>2. IsScalarValue(m)
    BY <1>2, <2>1 DEF IsMember
  <2> QED BY <1>2, <2>1, <2>2, ScalarBytesType DEF attr_for
<1> QED BY <1>1, <1>2 DEF IsScalar

(* What read and the type attribute answer, for one attribute of a file or   *)
(* directory.                                                                *)
ReadsAs(n, attr) ==
    /\ attr.kind = "file" <=> read(n, 0, attr.size + 1) # {}
    /\ \A data \in read(n, 0, attr.size + 1) : Len(data) = attr.size
    /\ n \notin DOMAIN dirty =>
          \E ty \in type_xattr(ino_to_path[n]) : attr.kind = "file" <=> ty \in ScalarTypes

(* Where m is at a path that has no buffer, read reads its bytes. *)
LEMMA ReadsMember ==
    ASSUME NEW n, n \notin DOMAIN dirty, NEW m, IsMember(m) \/ m = NS!Dir,
           \A size : read(n, 0, size) =
                        {Slice(scalar_bytes(v), 0, size) : v \in {x \in {m} : IsScalar(x)}},
           type_xattr(ino_to_path[n]) = {m.ty}
    PROVE  ReadsAs(n, attr_for(m))
<1> DEFINE attr == attr_for(m)
<1>1. /\ attr.kind = "file" <=> IsScalar(m)
      /\ IsScalar(m) => IsSequence(scalar_bytes(m)) /\ attr.size = Len(scalar_bytes(m))
      /\ IsScalar(m) <=> m.ty \in ScalarTypes
  BY AttrIs
<1> HIDE DEF attr
<1>2. CASE IsScalar(m)
  <2>1. Slice(scalar_bytes(m), 0, attr.size + 1) = scalar_bytes(m)
    BY <1>1, <1>2, SliceAll
  <2>2. read(n, 0, attr.size + 1) = {scalar_bytes(m)}
    BY <1>2, <2>1
  <2>3. ReadsAs(n, attr)
    BY <1>1, <1>2, <2>2 DEF ReadsAs
  <2> QED BY <2>3 DEF attr
<1>3. CASE ~IsScalar(m)
  <2>1. read(n, 0, attr.size + 1) = {}
    BY <1>3
  <2>2. ReadsAs(n, attr)
    BY <1>1, <1>3, <2>1 DEF ReadsAs
  <2> QED BY <2>2 DEF attr
<1> QED BY <1>2, <1>3

(* getattr answers as lookup does, and read and the attributes as getattr. *)
LEMMA InodeAgrees ==
    ASSUME FuseInv, NamespaceStaysWhole, NEW n \in DOMAIN ino_to_path
    PROVE  /\ n \notin DOMAIN dirty => getattr(n) = LookupAttr(ino_to_path[n])
           /\ \A attr \in getattr(n) : ReadsAs(n, attr)
<1> DEFINE p == ino_to_path[n]
           c == PathOf(p)
<1>1. IsNamespace(tree) /\ IsPath(p)
  BY DEF NamespaceStaysWhole
<1>2. CASE n \in DOMAIN dirty
  <2> DEFINE data == dirty[n]
             attr == [kind |-> "file", size |-> Len(data)]
  <2>1. getattr(n) = {attr}
    BY <1>2 DEF getattr
  <2>2. \A size : read(n, 0, size) = {Slice(data, 0, size)}
    BY <1>2 DEF read
  <2>3. IsSequence(data)
    BY <1>2, BufferIsSequence
  <2>4. attr.kind = "file" /\ attr.size = Len(data)
    OBVIOUS
  <2>5. read(n, 0, attr.size + 1) = {data}
    BY <2>2, <2>3, <2>4, SliceAll
  <2> HIDE DEF data, attr
  <2>6. ReadsAs(n, attr)
    BY <1>2, <2>4, <2>5 DEF ReadsAs
  <2> QED BY <1>2, <2>1, <2>6
<1>3. CASE n \notin DOMAIN dirty /\ parse(p) = {}
  <2>1. getattr(n) = {} /\ LookupAttr(p) = {}
    BY <1>3 DEF getattr, LookupAttr
  <2> QED BY <2>1
<1>4. ASSUME n \notin DOMAIN dirty, parse(p) # {}
      PROVE  /\ parse(p) = {c} /\ IsDbPath(c)
             /\ getattr(n) = IF EntryAttr(c) # {} THEN EntryAttr(c) ELSE ProjectedAttr(c)
             /\ LookupAttr(p) = IF ProjectedAttr(c) # {} THEN ProjectedAttr(c) ELSE EntryAttr(c)
             /\ type_xattr(p) = IF c \in DOMAIN tree THEN {tree[c].ty} ELSE {v.ty : v \in Projected(c)}
             /\ \A size : read(n, 0, size) = {Slice(data, 0, size) : data \in Contents(c)}
  <2>1. parse(p) = {c} /\ IsDbPath(c)
    BY <1>1, <1>4, PathOfIs
  <2> HIDE DEF c
  <2>2. /\ getattr(n) = IF EntryAttr(c) # {} THEN EntryAttr(c) ELSE ProjectedAttr(c)
        /\ LookupAttr(p) = IF ProjectedAttr(c) # {} THEN ProjectedAttr(c) ELSE EntryAttr(c)
        /\ type_xattr(p) = IF c \in DOMAIN tree THEN {tree[c].ty} ELSE {v.ty : v \in Projected(c)}
    BY <1>4, <2>1 DEF getattr, LookupAttr, type_xattr
  <2>3. UNION {Contents(d) : d \in parse(p)} = Contents(c)
    BY <2>1
  <2>4. \A size : read(n, 0, size) = {Slice(data, 0, size) : data \in Contents(c)}
    BY <1>4, <2>3 DEF read
  <2> QED BY <2>1, <2>2, <2>4
<1> HIDE DEF c
<1>5. CASE n \notin DOMAIN dirty /\ parse(p) # {} /\ c \in DOMAIN tree
  <2> DEFINE m == tree[c]
  <2>1. Projected(c) = {}
    BY <1>1, <1>5, EntryIsNotProjected
  <2>2. EntryAttr(c) = {attr_for(m)} /\ ProjectedAttr(c) = {}
    BY <1>5, <2>1 DEF EntryAttr, ProjectedAttr
  <2>3. getattr(n) = {attr_for(m)} /\ LookupAttr(p) = {attr_for(m)}
    BY <1>4, <1>5, <2>2
  <2>4. IsMember(m) \/ m = NS!Dir
    BY <1>1, <1>5, ValueForms DEF IsNamespace
  <2>5. type_xattr(p) = {m.ty}
    BY <1>4, <1>5
  <2>6. IsScalar(m) => m # NS!Dir
    BY <2>4, AttrIs
  <2>7. {v \in ValueAt(c) : IsScalar(v)} = {x \in {m} : IsScalar(x)}
    BY <1>5, <2>6 DEF ValueAt
  <2>8. Contents(c) = {scalar_bytes(v) : v \in {x \in {m} : IsScalar(x)}}
    <3> DEFINE scalars == {x \in {m} : IsScalar(x)}
    <3>1. Contents(c) = {scalar_bytes(s) : s \in IF scalars # {} THEN scalars
                                                 ELSE {x \in Projected(c) : IsScalar(x)}}
      BY <2>7 DEF Contents
    <3>2. {x \in Projected(c) : IsScalar(x)} = {}
      BY <2>1
    <3> HIDE DEF scalars
    <3>3. Contents(c) = {scalar_bytes(s) : s \in scalars}
      BY <3>1, <3>2
    <3> QED BY <3>3 DEF scalars
  <2>9. ASSUME NEW size
        PROVE  read(n, 0, size) = {Slice(scalar_bytes(v), 0, size) : v \in {x \in {m} : IsScalar(x)}}
    BY <1>4, <1>5, <2>8
  <2> HIDE DEF m
  <2>10. ReadsAs(n, attr_for(m))
    BY <1>5, <2>4, <2>5, <2>9, ReadsMember
  <2> QED BY <2>3, <2>10
<1>6. CASE n \notin DOMAIN dirty /\ parse(p) # {} /\ c \notin DOMAIN tree
  <2>1. EntryAttr(c) = {} /\ ValueAt(c) = {}
    BY <1>6 DEF EntryAttr, ValueAt
  <2>2. getattr(n) = ProjectedAttr(c) /\ LookupAttr(p) = ProjectedAttr(c)
    BY <1>4, <1>6, <2>1
  <2>3. ASSUME NEW attr \in getattr(n) PROVE ReadsAs(n, attr)
    <3>1. PICK m \in Projected(c) : attr = attr_for(m)
      BY <2>2, <2>3 DEF ProjectedAttr
    <3>2. IsMember(m) /\ Projected(c) = {m}
      BY <1>1, <1>4, <1>6, <3>1, ProjectedIs DEF IsDbPath
    <3>3. type_xattr(p) = {m.ty}
      BY <1>4, <1>6, <3>2
    <3>4. Contents(c) = {scalar_bytes(v) : v \in {x \in {m} : IsScalar(x)}}
      <4>1. {v \in ValueAt(c) : IsScalar(v)} = {}
        BY <2>1
      <4> QED BY <3>2, <4>1 DEF Contents
    <3>5. ASSUME NEW size
          PROVE  read(n, 0, size) = {Slice(scalar_bytes(v), 0, size) : v \in {x \in {m} : IsScalar(x)}}
      BY <1>4, <1>6, <3>4
    <3> QED BY <1>6, <3>1, <3>2, <3>3, <3>5, ReadsMember
  <2> QED BY <2>2, <2>3
<1> QED BY <1>2, <1>3, <1>5, <1>6

(* What is listed below a set has the member attribute. *)
LEMMA MemberAttribute ==
    ASSUME IsNamespace(tree), NEW c
    PROVE  MembersOfSet(c) # {} <=>
              /\ c # <<>>
              /\ \E v \in ValueAt(Parent(c)) :
                    v.ty = "set" /\ <<Last(c), "file">> \in Listing(Parent(c))
<1>1. CASE c = <<>>
  BY <1>1 DEF MembersOfSet
<1>2. CASE c # <<>>
  <2> DEFINE u    == Parent(c)
             name == Last(c)
             sets == {w \in ValueAt(u) : w.ty = "set"}
  <2>1. MembersOfSet(c) = UNION {project_child_value(v, name) : v \in sets}
    BY <1>2 DEF MembersOfSet
  <2>2. MembersOfSet(c) # {} <=> \E v \in sets : project_child_value(v, name) # {}
    BY <2>1
  <2>3. ASSUME NEW v \in ValueAt(u), v.ty = "set"
        PROVE  project_child_value(v, name) # {} <=> <<name, "file">> \in Listing(u)
    <3>1. u \in DOMAIN tree /\ v = tree[u] /\ v # NS!Dir
      BY <2>3 DEF ValueAt
    <3>2. Listing(u) = project_listing(v)
      BY <3>1, ListingIs
    <3>3. <<name, "file">> \in project_listing(v) <=> Named(v, name) # {}
      BY <2>3 DEF project_listing, Named
    <3>4. project_child_value(v, name) # {} <=> Named(v, name) # {}
      BY <2>3 DEF project_child_value
    <3> QED BY <3>2, <3>3, <3>4
  <2> QED BY <1>2, <2>2, <2>3
<1> QED BY <1>1, <1>2

(* So the handlers agree. *)
LEMMA Agreement == FuseInv /\ NamespaceStaysWhole => HandlersAgree
<1> SUFFICES ASSUME FuseInv, NamespaceStaysWhole PROVE HandlersAgree
  OBVIOUS
<1>1. IsNamespace(tree)
  BY DEF NamespaceStaysWhole
<1>2. ASSUME NEW p \in DOMAIN tree
      PROVE  /\ \A e \in Listing(p) :
                   \/ ~IsSegment(e[1])
                   \/ Nameless(p, e[1])
                   \/ \E attr \in LookupAttr(Append(p, e[1])) :
                         attr.kind = e[2] \/ (tree[p].ty \in {"set", "tree"} /\ e[2] = "file")
             /\ \A name \in Asked(p) : \A attr \in LookupAttr(Append(p, name)) :
                   /\ \E e \in Listing(p) :
                         e[1] = name \/ (ParseInt(name) # {} /\ ParseInt(name) = ParseInt(e[1]))
                   /\ attr.kind = "dir" /\ tree[p] = NS!Dir => Listings(Append(p, name)) # {}
  <2>1. ASSUME NEW e \in Listing(p), IsSegment(e[1])
        PROVE  \/ Nameless(p, e[1])
               \/ \E attr \in LookupAttr(Append(p, e[1])) :
                     attr.kind = e[2] \/ (tree[p].ty \in {"set", "tree"} /\ e[2] = "file")
    BY <1>1, <2>1, ListedIsFound
  <2>2. ASSUME NEW name \in Asked(p), LookupAttr(Append(p, name)) # {}
        PROVE  /\ \E e \in Listing(p) :
                     e[1] = name \/ (ParseInt(name) # {} /\ ParseInt(name) = ParseInt(e[1]))
               /\ tree[p] = NS!Dir => Listings(Append(p, name)) # {}
    <3>1. IsSequence(name) /\ IsSegment(name)
      BY <1>1, <2>2, AskedIsText
    <3> QED BY <1>1, <2>2, <3>1, FoundIsListed, FoundIsListable
  <2> QED BY <2>1, <2>2
<1>3. ASSUME NEW p
      PROVE  member_xattr(p) # {} <=>
                \E c \in parse(p) :
                   /\ c # <<>>
                   /\ \E v \in ValueAt(Parent(c)) :
                         v.ty = "set" /\ <<Last(c), "file">> \in Listing(Parent(c))
  <2>1. member_xattr(p) # {} <=> \E c \in parse(p) : MembersOfSet(c) # {}
    BY DEF member_xattr
  <2> QED BY <1>1, <2>1, MemberAttribute
<1>4. ASSUME NEW n \in DOMAIN ino_to_path
      PROVE  LET p == ino_to_path[n] IN
             /\ (n \notin DOMAIN dirty /\ p # <<>> /\ IsSegment(Last(p))) => getattr(n) = LookupAttr(p)
             /\ member_xattr(p) # {} <=>
                   \E c \in parse(p) :
                      /\ c # <<>>
                      /\ \E v \in ValueAt(Parent(c)) :
                            v.ty = "set" /\ <<Last(c), "file">> \in Listing(Parent(c))
             /\ \A attr \in getattr(n) :
                   /\ attr.kind = "file" <=> read(n, 0, attr.size + 1) # {}
                   /\ \A data \in read(n, 0, attr.size + 1) : Len(data) = attr.size
                   /\ n \notin DOMAIN dirty =>
                         \E ty \in type_xattr(p) : attr.kind = "file" <=> ty \in ScalarTypes
  BY <1>3, InodeAgrees DEF ReadsAs
<1> QED BY <1>2, <1>4, Zenon DEF HandlersAgree

(* readdir, lookup, getattr, read and getxattr agree on what there is, in    *)
(* every namespace that the handlers and the daemon's other clients make:    *)
(* except for tree keys that are printed for debugging and for keys that are *)
(* no segment of a path, which are listed and cannot be looked up, and but   *)
(* for the directories that members of structured values are shown as, which *)
(* cannot be listed.                                                         *)
THEOREM HandlersAgreeHold == Spec => []HandlersAgree
BY MountInvHolds, Agreement, PTL

-----------------------------------------------------------------------------
(* What unlink removes *)

(* w is v without the member that lookup shows as name, and with every other *)
(* one.                                                                      *)
Removed(v, name, w) ==
    /\ w.ty = v.ty
    /\ Size(w) = Size(v) - 1
    /\ \A other : (IsSequence(other) /\ other # name /\ ParseInt(other) \cap ParseInt(name) = {}) =>
          project_child_value(w, other) = project_child_value(v, NameBefore(v, name, other))

(* A map with an entry less has one entry less. *)
LEMMA DropSize ==
    ASSUME NEW m, IsMap(m), NEW k \in DOMAIN m
    PROVE  Cardinality(DOMAIN Drop(m, k)) = Cardinality(DOMAIN m) - 1
<1>1. DOMAIN Drop(m, k) = DOMAIN m \ {k}
  BY DEF Drop
<1> QED BY <1>1, FS_RemoveElement DEF IsMap

(* A field of a hash. *)
LEMMA HashUnlink ==
    ASSUME NEW v, IsValue(v), v.ty = "hash", NEW name, NEW w \in project_unlink(v, name)
    PROVE  Removed(v, name, w)
<1>1. name \in DOMAIN v.map /\ w = Hash(Drop(v.map, name))
  BY DEF project_unlink
<1>2. w.ty = "hash" /\ w.map = Drop(v.map, name)
  BY <1>1 DEF Hash
<1>3. Size(v) = Cardinality(DOMAIN v.map) /\ Size(w) = Cardinality(DOMAIN w.map)
  BY <1>2 DEF Size
<1>4. Size(w) = Size(v) - 1
  BY <1>1, <1>2, <1>3, DropSize, ValueForms
<1>5. ASSUME NEW other, other # name
      PROVE  project_child_value(w, other) = project_child_value(v, NameBefore(v, name, other))
  <2>1. NameBefore(v, name, other) = other
    BY DEF NameBefore
  <2>2. /\ project_child_value(w, other) = {w.map[k] : k \in {other} \cap DOMAIN w.map}
        /\ project_child_value(v, other) = {v.map[k] : k \in {other} \cap DOMAIN v.map}
    BY <1>2 DEF project_child_value
  <2>3. /\ {other} \cap DOMAIN w.map = {other} \cap DOMAIN v.map
        /\ other \in DOMAIN v.map => w.map[other] = v.map[other]
    BY <1>2, <1>5 DEF Drop
  <2> QED BY <2>1, <2>2, <2>3
<1> QED BY <1>2, <1>4, <1>5 DEF Removed

(* A key of a tree. *)
LEMMA TreeUnlink ==
    ASSUME NEW v, IsValue(v), v.ty = "tree", NEW name, NEW w \in project_unlink(v, name)
    PROVE  Removed(v, name, w)
<1> DEFINE K == IF ParseInt(name) # {} THEN IntKey(v, name) ELSE StringKey(v, name)
<1>1. PICK k \in K : w = Tree(Drop(v.entries, k))
  BY DEF project_unlink
<1>2. w.ty = "tree" /\ w.entries = Drop(v.entries, k)
  BY <1>1 DEF Tree
<1>3. k \in DOMAIN v.entries
  BY <1>1 DEF IntKey, StringKey
<1>4. Size(v) = Cardinality(DOMAIN v.entries) /\ Size(w) = Cardinality(DOMAIN w.entries)
  BY <1>2 DEF Size
<1>5. Size(w) = Size(v) - 1
  BY <1>2, <1>3, <1>4, DropSize, ValueForms
<1>6. (\E n \in ParseInt(name) : k = int(n)) \/ k = string(name)
  BY <1>1 DEF IntKey, StringKey
<1> HIDE DEF K
<1>7. ASSUME NEW other, other # name, ParseInt(other) \cap ParseInt(name) = {}
      PROVE  project_child_value(w, other) = project_child_value(v, NameBefore(v, name, other))
  <2>1. NameBefore(v, name, other) = other
    BY DEF NameBefore
  <2>2. string(other) # k
    <3>1. \A n : int(n) # string(other)
      BY DEF int, string
    <3>2. string(name) # string(other)
      <4>1. string(name).text = name /\ string(other).text = other
        BY DEF string
      <4> QED BY <1>7, <4>1
    <3> QED BY <1>6, <3>1, <3>2
  <2>3. \A n \in ParseInt(other) : int(n) # k
    <3> TAKE n \in ParseInt(other)
    <3>1. int(n) # string(name)
      BY DEF int, string
    <3>2. \A l \in ParseInt(name) : int(l) # int(n)
      <4>1. \A l : int(l).int = l
        BY DEF int
      <4>2. n \notin ParseInt(name)
        BY <1>7
      <4> QED BY <4>1, <4>2
    <3> QED BY <1>6, <3>1, <3>2
  <2>4. DOMAIN w.entries = DOMAIN v.entries \ {k} /\ \A x \in DOMAIN w.entries : w.entries[x] = v.entries[x]
    BY <1>2 DEF Drop
  <2>5. IntKey(w, other) = IntKey(v, other)
    BY <2>3, <2>4 DEF IntKey
  <2>6. StringKey(w, other) = StringKey(v, other)
    BY <2>2, <2>4 DEF StringKey
  <2> DEFINE L == IF IntKey(v, other) # {} THEN IntKey(v, other) ELSE StringKey(v, other)
  <2>7. /\ project_child_value(w, other) = {w.entries[x] : x \in L}
        /\ project_child_value(v, other) = {v.entries[x] : x \in L}
    BY <1>2, <2>5, <2>6 DEF project_child_value
  <2>8. L \subseteq DOMAIN w.entries
    BY <2>5, <2>6 DEF IntKey, StringKey
  <2> HIDE DEF L
  <2> QED BY <2>1, <2>4, <2>7, <2>8
<1> QED BY <1>2, <1>5, <1>7 DEF Removed

(* An item of a list: the names of those after it move. *)
LEMMA ListUnlink ==
    ASSUME NEW v, IsValue(v), v.ty = "list", NEW name, IsSequence(name),
           NEW w \in project_unlink(v, name)
    PROVE  Removed(v, name, w)
<1> DEFINE s == v.items
           S == {s[i] : i \in DOMAIN s}
<1>1. PICK j \in Index(v, name) : w = List(WithoutItem(s, j))
  BY DEF project_unlink
<1>2. IsSequence(s) /\ s \in Seq(S)
  BY ValueForms DEF IsSequence
<1>3. j \in 1..Len(s) /\ Len(s) \in Nat /\ j - 1 \in Nat /\ ParseNat(name) = {j - 1}
  BY <1>1, <1>2, IndexType
<1>4. w.ty = "list" /\ w.items = WithoutItem(s, j)
  BY <1>1 DEF List
<1> HIDE DEF S
<1>5. /\ Len(w.items) = Len(s) - 1
      /\ \A i \in 1..(Len(s) - 1) : w.items[i] = IF i < j THEN s[i] ELSE s[i + 1]
  BY <1>2, <1>3, <1>4, WithoutItemIs
<1>6. Size(w) = Size(v) - 1
  BY <1>4, <1>5 DEF Size
<1>7. ParseInt(name) = {j - 1}
  BY <1>3, ParseFacts DEF IsSequence
<1>8. ASSUME NEW other, IsSequence(other), ParseInt(other) \cap ParseInt(name) = {}
      PROVE  project_child_value(w, other) = project_child_value(v, NameBefore(v, name, other))
  <2>1. /\ \A x : project_child_value(w, x) = {w.items[i] : i \in Index(w, x)}
        /\ \A x : project_child_value(v, x) = {s[i] : i \in Index(v, x)}
    BY <1>4 DEF project_child_value
  <2>2. CASE ParseNat(other) = {}
    <3>1. NameBefore(v, name, other) = other
      BY <2>2 DEF NameBefore
    <3>2. Index(w, other) = {} /\ Index(v, other) = {}
      BY <2>2 DEF Index
    <3> QED BY <2>1, <3>1, <3>2
  <2>3. CASE ParseNat(other) # {}
    <3>1. PICK n \in ParseNat(other) : TRUE
      BY <2>3
    <3>2. ParseNat(other) = {n} /\ n \in Nat /\ ParseInt(other) = {n}
      <4>1. other \in Seq({other[i] : i \in DOMAIN other})
        BY <1>8 DEF IsSequence
      <4>2. /\ ParseNat(other) \subseteq Nat /\ \A a, b \in ParseNat(other) : a = b
            /\ ParseInt(other) = ParseNat(other)
        BY <2>3, <4>1, ParseFacts
      <4> QED BY <3>1, <4>2
    <3>3. n # j - 1
      BY <1>7, <1>8, <3>2
    <3>4. Index(w, other) = {i \in {n + 1} : i <= Len(s) - 1}
      BY <1>5, <3>2 DEF Index
    <3>5. CASE n < j - 1
      <4>1. ~(n >= j - 1) /\ n + 1 \in 1..(Len(s) - 1) /\ n + 1 <= Len(s) /\ n + 1 < j
        BY <1>3, <3>2, <3>5
      <4>2. NameBefore(v, name, other) = other
        BY <1>3, <3>2, <4>1 DEF NameBefore
      <4>3. Index(w, other) = {n + 1} /\ Index(v, other) = {n + 1}
        BY <3>2, <3>4, <4>1 DEF Index
      <4>4. w.items[n + 1] = s[n + 1]
        BY <1>5, <4>1
      <4>5. project_child_value(w, other) = {s[n + 1]} /\ project_child_value(v, other) = {s[n + 1]}
        <5>1. project_child_value(w, other) = {w.items[i] : i \in Index(w, other)}
          BY <2>1
        <5>2. project_child_value(v, other) = {s[i] : i \in Index(v, other)}
          BY <2>1
        <5> QED BY <4>3, <4>4, <5>1, <5>2
      <4> QED BY <4>2, <4>5
    <3>6. CASE ~(n < j - 1)
      <4>1. n >= j - 1 /\ ~(n + 1 < j) /\ 1 + n \in Nat /\ (1 + n) + 1 = (n + 1) + 1
        BY <1>3, <3>2, <3>3, <3>6
      <4>2. (CHOOSE i \in ParseNat(other) : TRUE) = n
        BY <3>2
      <4>3. NameBefore(v, name, other) = ShowNat(1 + n)
        BY <1>3, <3>2, <4>1, <4>2 DEF NameBefore
      <4>4. ParseNat(ShowNat(1 + n)) = {1 + n}
        BY <4>1, ReadNat
      <4>5. Index(v, ShowNat(1 + n)) = {i \in {(n + 1) + 1} : i <= Len(s)}
        BY <4>1, <4>4 DEF Index
      <4>6. CASE n + 1 <= Len(s) - 1
        <5>1. n + 1 \in 1..(Len(s) - 1) /\ (n + 1) + 1 <= Len(s)
          BY <1>3, <3>2, <4>6
        <5>2. Index(w, other) = {n + 1} /\ Index(v, ShowNat(1 + n)) = {(n + 1) + 1}
          BY <3>4, <4>5, <4>6, <5>1
        <5>3. w.items[n + 1] = s[(n + 1) + 1]
          BY <1>5, <4>1, <5>1
        <5>4. project_child_value(w, other) = {s[(n + 1) + 1]}
          <6>1. project_child_value(w, other) = {w.items[i] : i \in Index(w, other)}
            BY <2>1
          <6> QED BY <5>2, <5>3, <6>1
        <5>5. project_child_value(v, ShowNat(1 + n)) = {s[(n + 1) + 1]}
          <6>1. project_child_value(v, ShowNat(1 + n)) = {s[i] : i \in Index(v, ShowNat(1 + n))}
            BY <2>1
          <6> QED BY <5>2, <6>1
        <5> QED BY <4>3, <5>4, <5>5
      <4>7. CASE ~(n + 1 <= Len(s) - 1)
        <5>1. ~((n + 1) + 1 <= Len(s))
          BY <1>3, <3>2, <4>7
        <5>2. Index(w, other) = {} /\ Index(v, ShowNat(1 + n)) = {}
          BY <3>4, <4>5, <4>7, <5>1
        <5> QED BY <2>1, <4>3, <5>2
      <4> QED BY <4>6, <4>7
    <3> QED BY <3>5, <3>6
  <2> QED BY <2>2, <2>3
<1> QED BY <1>4, <1>6, <1>8 DEF Removed

(* A member of a set. *)
LEMMA SetUnlink ==
    ASSUME NEW v, IsValue(v), v.ty = "set", NEW name, NEW w \in project_unlink(v, name)
    PROVE  Removed(v, name, w)
<1> DEFINE s == v.members
           S == {s[i] : i \in DOMAIN s}
<1>1. PICK j \in Named(v, name) : w = Set(Retained(s, name))
  BY DEF project_unlink
<1>2. j \in 1..Len(s) /\ Named(v, name) = {j} /\ Retained(s, name) = WithoutItem(s, j)
  BY <1>1, NamedIs
<1>3. s \in Seq(S) /\ IsSequence(s)
  BY ValueForms DEF IsSequence
<1>4. Len(s) \in Nat /\ DOMAIN s = 1..Len(s)
  BY <1>3, SequenceDomain
<1>5. w.ty = "set" /\ w.members = WithoutItem(s, j)
  BY <1>1, <1>2 DEF Set
<1> HIDE DEF S
<1>6. /\ w.members \in Seq(S) /\ Len(w.members) = Len(s) - 1
      /\ \A i \in 1..(Len(s) - 1) : w.members[i] = IF i < j THEN s[i] ELSE s[i + 1]
  BY <1>2, <1>3, <1>5, WithoutItemIs
<1>7. Size(w) = Size(v) - 1
  BY <1>5, <1>6 DEF Size
<1>8. IsValue(w)
  BY UnlinkIsValue
<1>9. ASSUME NEW other, other # name
      PROVE  project_child_value(w, other) = project_child_value(v, NameBefore(v, name, other))
  <2>1. NameBefore(v, name, other) = other
    BY DEF NameBefore
  <2>2. DOMAIN w.members = 1..(Len(s) - 1)
    BY <1>6
  <2>3. /\ \A x \in Named(w, other) : x \in 1..(Len(s) - 1) /\ set_member_name(w.members[x]) = other
        /\ \A x \in 1..(Len(s) - 1) : set_member_name(w.members[x]) = other => x \in Named(w, other)
        /\ \A x \in Named(v, other) : x \in 1..Len(s) /\ set_member_name(s[x]) = other
        /\ \A x \in 1..Len(s) : set_member_name(s[x]) = other => x \in Named(v, other)
    BY <1>4, <2>2 DEF Named
  <2>4. \A i \in Named(v, other) : (IF i < j THEN i ELSE i - 1) \in Named(w, other)
    <3> TAKE i \in Named(v, other)
    <3>1. i \in 1..Len(s) /\ set_member_name(s[i]) = other
      BY <2>3
    <3>2. i # j
      BY <1>1, <1>9, <3>1 DEF Named
    <3>3. CASE i < j
      <4>1. i \in 1..(Len(s) - 1)
        BY <1>2, <1>4, <3>1, <3>3
      <4>2. w.members[i] = s[i]
        BY <1>6, <3>3, <4>1
      <4> QED BY <2>3, <3>1, <3>3, <4>1, <4>2
    <3>4. CASE ~(i < j)
      <4>1. i - 1 \in 1..(Len(s) - 1) /\ ~(i - 1 < j) /\ (i - 1) + 1 = i
        BY <1>2, <1>4, <3>1, <3>2, <3>4
      <4>2. w.members[i - 1] = s[i]
        BY <1>6, <4>1
      <4> QED BY <2>3, <3>1, <3>4, <4>1, <4>2
    <3> QED BY <3>3, <3>4
  <2>5. \A i \in Named(w, other) :
           \E x \in Named(v, other) : w.members[i] = s[x]
    <3> TAKE i \in Named(w, other)
    <3>1. i \in 1..(Len(s) - 1) /\ set_member_name(w.members[i]) = other
      BY <2>3
    <3> DEFINE x == IF i < j THEN i ELSE i + 1
    <3>2. w.members[i] = s[x]
      BY <1>6, <3>1
    <3>3. x \in 1..Len(s)
      BY <1>2, <1>4, <3>1
    <3> HIDE DEF x
    <3> QED BY <2>3, <3>1, <3>2, <3>3
  <2>6. CASE Named(w, other) = {}
    <3>1. Named(v, other) = {}
      BY <2>4, <2>6
    <3> QED BY <1>5, <2>1, <2>6, <3>1 DEF project_child_value
  <2>7. CASE Named(w, other) # {}
    <3>1. PICK i \in Named(w, other) : TRUE
      BY <2>7
    <3>2. PICK x \in Named(v, other) : w.members[i] = s[x]
      BY <2>5, <3>1
    <3>3. Min(Named(w, other)) = i /\ Min(Named(v, other)) = x
      BY <1>5, <1>8, <3>1, <3>2, NamedIs
    <3>4. project_child_value(w, other) = {w.members[i]} /\ project_child_value(v, other) = {s[x]}
      BY <1>5, <3>1, <3>2, <3>3 DEF project_child_value
    <3> QED BY <2>1, <3>2, <3>4
  <2> QED BY <2>6, <2>7
<1> QED BY <1>5, <1>7, <1>9 DEF Removed

(* A member of a structured value. *)
LEMMA UnlinkRemoves ==
    ASSUME NEW v, IsValue(v), NEW name, IsSequence(name), NEW w \in project_unlink(v, name)
    PROVE  Removed(v, name, w)
<1>1. v.ty \in {"hash", "list", "set", "tree"}
  BY DEF project_unlink
<1> QED BY <1>1, HashUnlink, ListUnlink, SetUnlink, TreeUnlink

(* unlink finds the member that lookup finds, with the exception of trees. *)
LEMMA UnlinkFinds ==
    ASSUME NEW v, IsValue(v), NEW name
    PROVE  project_unlink(v, name) # {} <=>
              /\ project_child_value(v, name) # {}
              /\ (v.ty = "tree" /\ ParseInt(name) # {}) => IntKey(v, name) # {}
<1>1. CASE v.ty = "hash"
  <2>1. project_unlink(v, name) # {} <=> {name} \cap DOMAIN v.map # {}
    BY <1>1 DEF project_unlink
  <2>2. project_child_value(v, name) # {} <=> {name} \cap DOMAIN v.map # {}
    BY <1>1 DEF project_child_value
  <2> QED BY <1>1, <2>1, <2>2
<1>2. CASE v.ty = "list"
  <2>1. project_unlink(v, name) # {} <=> Index(v, name) # {}
    BY <1>2 DEF project_unlink
  <2>2. project_child_value(v, name) # {} <=> Index(v, name) # {}
    BY <1>2 DEF project_child_value
  <2> QED BY <1>2, <2>1, <2>2
<1>3. CASE v.ty = "set"
  <2>1. project_unlink(v, name) # {} <=> Named(v, name) # {}
    BY <1>3 DEF project_unlink
  <2>2. project_child_value(v, name) # {} <=> Named(v, name) # {}
    BY <1>3 DEF project_child_value
  <2> QED BY <1>3, <2>1, <2>2
<1>4. CASE v.ty = "tree"
  <2>1. project_unlink(v, name) # {} <=>
           (IF ParseInt(name) # {} THEN IntKey(v, name) ELSE StringKey(v, name)) # {}
    BY <1>4 DEF project_unlink
  <2>2. project_child_value(v, name) # {} <=>
           (IF IntKey(v, name) # {} THEN IntKey(v, name) ELSE StringKey(v, name)) # {}
    BY <1>4 DEF project_child_value
  <2>3. ParseInt(name) = {} => IntKey(v, name) = {}
    BY DEF IntKey
  <2> QED BY <1>4, <2>1, <2>2, <2>3
<1>5. CASE v.ty \notin {"hash", "list", "set", "tree"}
  BY <1>5 DEF project_unlink, project_child_value
<1> QED BY <1>1, <1>2, <1>3, <1>4, <1>5

(* What an unlink of name below p has to do, if it answers ok. *)
Unlinks(p, name, t) ==
    /\ \A q \in DOMAIN tree \ {p, Append(p, name)} : q \in DOMAIN t /\ t[q] = tree[q]
    /\ DOMAIN t = DOMAIN tree \ {Append(p, name)}
    /\ t[p].ty = tree[p].ty
    /\ Size(t[p]) = Size(tree[p]) - (IF tree[p] = NS!Dir THEN 0 ELSE 1)
    /\ \A other \in Asked(p) :
          (other # name /\ ParseInt(other) \cap ParseInt(name) = {}) =>
             (Leaf(t, Append(p, other)) = Leaf(tree, Append(p, NameBefore(tree[p], name, other))))

(* When it answers ok. *)
MayUnlink(p, name) ==
    /\ Leaf(tree, Append(p, name)) # {}
    /\ NS!Below(tree, Append(p, name)) = {}
    /\ (tree[p].ty = "tree" /\ ParseInt(name) # {}) => IntKey(tree[p], name) # {}

(* The answer and what it leaves. *)
AsShown(p, name, r) ==
    /\ r.errno = "ok" <=> MayUnlink(p, name)
    /\ r.errno = "ok" => Unlinks(p, name, r.tree)
    /\ r.errno # "ok" => r.tree = tree

(* What there is below a path. *)
LEMMA LeafBelow ==
    ASSUME NEW t, NEW p, IsSequence(p), p \in DOMAIN t, NEW name
    PROVE  Leaf(t, Append(p, name)) =
              IF Append(p, name) \in DOMAIN t THEN {t[Append(p, name)]}
              ELSE project_child_value(t[p], name)
<1> DEFINE q == Append(p, name)
<1>1. q # <<>> /\ Parent(q) = p /\ Last(q) = name
  BY ChildType, PathFacts
<1> HIDE DEF q
<1>2. Leaf(t, q) = IF q \in DOMAIN t THEN {t[q]} ELSE project_child_value(t[p], name)
  BY <1>1 DEF Leaf
<1> QED BY <1>2 DEF q

(* An entry of a directory. *)
LEMMA UnlinkEntry ==
    ASSUME IsNamespace(tree), NEW p \in DOMAIN tree, tree[p] = NS!Dir,
           NEW name, IsSequence(name), IsSegment(name)
    PROVE  AsShown(p, name, Unlinked(p, name, "none"))
<1> DEFINE child == Append(p, name)
           o == [op |-> "delete", path |-> child]
           r == Unlinked(p, name, "none")
<1>1. IsSequence(p) /\ child # <<>> /\ Parent(child) = p /\ Last(child) = name
  BY ChildType, PathFacts DEF IsNamespace, IsDbPath, IsPath
<1>2. Len(child) = Len(p) + 1 /\ Len(p) \in Nat
  BY <1>1, PathFacts
<1>3. child # p
  <2> HIDE DEF child
  <2> QED BY <1>2
<1>4. tree[p].ty = "directory"
  BY DEF NS!Dir
<1>5. parse(p) = {p} /\ parse(child) = {child} /\ PathOf(child) = child
  BY ChildIsDbPath, ParseSame DEF IsNamespace
<1>6. r = Db(o, "none")
  <2>1. ValueAt(p) = {}
    BY DEF ValueAt
  <2>2. ValuesAt(p) = {}
    BY <1>5, <2>1 DEF ValuesAt
  <2> DEFINE above == {DbSet(PathOf(p), v, "none") : v \in UNION {project_unlink(w, name) : w \in ValuesAt(p)}}
             below == IF parse(child) = {} THEN Unchanged("EINVAL")
                      ELSE Db([op |-> "delete", path |-> PathOf(child)], "none")
  <2>3. r = AboveOrElse(above, below)
    BY DEF Unlinked
  <2>4. above = {}
    BY <2>2
  <2>5. below = Db(o, "none")
    BY <1>5
  <2> HIDE DEF above, below, o, r
  <2> QED BY <2>3, <2>4, <2>5 DEF AboveOrElse
<1>7. o.op = "delete" /\ o.path = child
  OBVIOUS
<1> HIDE DEF o, r
<1>8. /\ NS!Allowed(tree, o) <=> (child \in DOMAIN tree /\ NS!Below(tree, child) = {})
      /\ NS!Effect(tree, o) = NS!Without(tree, child)
  BY <1>1, <1>7 DEF NS!Allowed, NS!Effect
<1>9. \A name2 : project_child_value(tree[p], name2) = {}
  BY <1>4 DEF project_child_value
<1>10. MayUnlink(p, name) <=> child \in DOMAIN tree /\ NS!Below(tree, child) = {}
  BY <1>1, <1>4, <1>9, LeafBelow DEF MayUnlink
<1>11. CASE child \in DOMAIN tree /\ NS!Below(tree, child) = {}
  <2> DEFINE t == NS!Without(tree, child)
  <2>1. r.errno = "ok" /\ r.tree = t
    <3>1. r = Commit(t, "none")
      BY <1>6, <1>8, <1>11 DEF Db
    <3>2. r = Outcome("ok", t, Replayed({t}))
      BY <3>1 DEF Commit
    <3> QED BY <3>2 DEF Outcome
  <2>2. DOMAIN t = DOMAIN tree \ {child} /\ \A q \in DOMAIN t : t[q] = tree[q]
    BY DEF NS!Without
  <2> HIDE DEF t
  <2>3. t[p] = tree[p] /\ p \in DOMAIN t
    BY <1>3, <2>2
  <2>4. Size(tree[p]) = 0
    BY <1>4 DEF Size
  <2>5. ASSUME NEW other, other # name
        PROVE  Leaf(t, Append(p, other)) = Leaf(tree, Append(p, NameBefore(tree[p], name, other)))
    <3>1. NameBefore(tree[p], name, other) = other
      BY <1>4 DEF NameBefore
    <3> DEFINE q == Append(p, other)
    <3>2. q # child
      BY <1>1, <2>5, PathFacts
    <3>3. q \in DOMAIN t <=> q \in DOMAIN tree
      BY <2>2, <3>2
    <3>4. q \in DOMAIN t => t[q] = tree[q]
      BY <2>2
    <3>5. Leaf(t, q) = IF q \in DOMAIN t THEN {t[q]} ELSE {}
      BY <1>1, <1>9, <2>3, LeafBelow
    <3>6. Leaf(tree, q) = IF q \in DOMAIN tree THEN {tree[q]} ELSE {}
      BY <1>1, <1>9, LeafBelow
    <3> HIDE DEF q
    <3>7. Leaf(t, q) = Leaf(tree, q)
      BY <3>3, <3>4, <3>5, <3>6
    <3> QED BY <3>1, <3>7 DEF q
  <2>6. Unlinks(p, name, t)
    BY <2>2, <2>3, <2>4, <2>5 DEF Unlinks
  <2> QED BY <1>10, <1>11, <2>1, <2>6 DEF AsShown, r
<1>12. CASE ~(child \in DOMAIN tree /\ NS!Below(tree, child) = {})
  <2>1. r = Unchanged("EIO")
    BY <1>6, <1>8, <1>12 DEF Db
  <2>2. r.errno = "EIO" /\ r.tree = tree
    BY <2>1, UnchangedIs
  <2> QED BY <1>10, <1>12, <2>2 DEF AsShown, r
<1> QED BY <1>11, <1>12

(* A member of a structured value. *)
LEMMA UnlinkMember ==
    ASSUME IsNamespace(tree), NEW p \in DOMAIN tree, tree[p] # NS!Dir,
           NEW name, IsSequence(name), IsSegment(name)
    PROVE  AsShown(p, name, Unlinked(p, name, "none"))
<1> DEFINE v == tree[p]
           child == Append(p, name)
           vs == project_unlink(v, name)
           o == [op |-> "delete", path |-> child]
           above == {DbSet(PathOf(p), w, "none") : w \in vs}
           r == Unlinked(p, name, "none")
<1>1. IsValue(v) /\ ValueAt(p) = {v}
  BY ListingIs
<1>2. IsSequence(p) /\ p # <<>>
  BY DEF IsNamespace, IsDbPath, IsPath, NS!IsDirAt
<1>3. ASSUME NEW x PROVE Append(p, x) \notin DOMAIN tree
  <2> DEFINE q == Append(p, x)
  <2>1. q # <<>> /\ Parent(q) = p
    BY <1>2, ChildType, PathFacts
  <2> HIDE DEF q
  <2>2. q \notin DOMAIN tree
    BY <2>1 DEF IsNamespace, NS!IsDirAt, Parent, NS!Parent
  <2> QED BY <2>2 DEF q
<1>4. NS!MayHold(tree, p)
  BY <1>2 DEF IsNamespace, NS!MayHold, NS!IsDirAt
<1>5. /\ parse(p) = {p} /\ PathOf(p) = p
      /\ parse(child) = {child} /\ PathOf(child) = child
  BY ChildIsDbPath, ParseSame DEF IsNamespace
<1>6. ASSUME NEW w
      PROVE  DbSet(p, w, "none").errno = "ok" /\ DbSet(p, w, "none").tree = With(tree, p, w)
  <2> DEFINE a == [op |-> "set", path |-> p, value |-> w]
             t == With(tree, p, w)
  <2>1. a.op = "set" /\ a.path = p /\ a.value = w
    OBVIOUS
  <2>2. DbSet(p, w, "none") = Db(a, "none")
    BY DEF DbSet
  <2>3. NS!With(tree, p, w) = t
    BY DEF With, NS!With
  <2> HIDE DEF a, t
  <2>4. NS!Allowed(tree, a) /\ NS!Effect(tree, a) = t
    BY <1>4, <2>1, <2>3 DEF NS!Allowed, NS!Effect
  <2>5. Db(a, "none") = Commit(t, "none")
    BY <2>4 DEF Db
  <2>6. Db(a, "none") = Outcome("ok", t, Replayed({t}))
    BY <2>5 DEF Commit
  <2>7. Db(a, "none").errno = "ok" /\ Db(a, "none").tree = t
    BY <2>6 DEF Outcome
  <2> QED BY <2>2, <2>7 DEF t
<1>7. Db(o, "none") = Unchanged("EIO")
  <2>1. o.op = "delete" /\ o.path = child
    OBVIOUS
  <2> HIDE DEF o
  <2>2. ~NS!Allowed(tree, o)
    BY <1>3, <2>1 DEF NS!Allowed
  <2> QED BY <2>2 DEF Db
<1>8. r = AboveOrElse(above, Db(o, "none"))
  <2>1. UNION {project_unlink(w, name) : w \in ValuesAt(p)} = vs
    BY <1>1, <1>5 DEF ValuesAt
  <2> QED BY <1>5, <2>1 DEF Unlinked
<1>9. NS!Below(tree, child) = {}
  <2>1. SUFFICES ASSUME NEW q \in NS!Below(tree, child) PROVE FALSE
    OBVIOUS
  <2>2. q \in DOMAIN tree /\ NS!Parent(q) = child /\ Len(q) = Len(child) + 1
    BY DEF NS!Below
  <2>3. Len(child) \in Nat
    BY <1>2, ChildType, PathFacts
  <2>4. q # <<>>
    <3> HIDE DEF child
    <3> QED BY <2>2, <2>3
  <2> QED BY <1>3, <2>2, <2>4 DEF IsNamespace, NS!IsDirAt
<1>10. Leaf(tree, child) = project_child_value(v, name)
  BY <1>2, <1>3, LeafBelow
<1>11. MayUnlink(p, name) <=> vs # {}
  BY <1>1, <1>9, <1>10, UnlinkFinds DEF MayUnlink
<1> HIDE DEF vs, o, r
<1>12. CASE vs = {}
  <2>1. above = {}
    BY <1>12
  <2> HIDE DEF above
  <2>2. r = Unchanged("EIO")
    BY <1>7, <1>8, <2>1 DEF AboveOrElse
  <2>3. r.errno = "EIO" /\ r.tree = tree
    BY <2>2, UnchangedIs
  <2> QED BY <1>11, <1>12, <2>3 DEF AsShown, r
<1>13. CASE vs # {}
  <2>1. above # {} /\ \A x \in above : \E w \in vs : x = DbSet(p, w, "none")
    BY <1>5, <1>13
  <2> DEFINE x == CHOOSE y \in above : TRUE
  <2>2. PICK w \in vs : x = DbSet(p, w, "none")
    BY <2>1
  <2>3. x.errno = "ok" /\ x.tree = With(tree, p, w)
    BY <1>6, <2>2
  <2>4. r = x
    <3> HIDE DEF above
    <3>1. r = IF x.errno = "ok" THEN x ELSE Outcome(Db(o, "none").errno, x.tree, x.reopened)
      BY <1>8, <2>1 DEF AboveOrElse
    <3> HIDE DEF x
    <3> QED BY <2>3, <3>1
  <2> HIDE DEF above, x
  <2> DEFINE t == With(tree, p, w)
  <2>5. Removed(v, name, w)
    BY <1>1, <2>2, UnlinkRemoves DEF vs
  <2>6. DOMAIN t = DOMAIN tree /\ t[p] = w /\ \A q \in DOMAIN tree : q # p => t[q] = tree[q]
    BY DEF With
  <2> HIDE DEF t, v
  <2>7. ASSUME NEW other, IsSequence(other), other # name, ParseInt(other) \cap ParseInt(name) = {}
        PROVE  Leaf(t, Append(p, other)) = Leaf(tree, Append(p, NameBefore(v, name, other)))
    <3>1. Leaf(t, Append(p, other)) = project_child_value(w, other)
      BY <1>2, <1>3, <2>6, LeafBelow
    <3>2. Leaf(tree, Append(p, NameBefore(v, name, other)))
            = project_child_value(v, NameBefore(v, name, other))
      BY <1>2, <1>3, LeafBelow DEF v
    <3> QED BY <2>5, <2>7, <3>1, <3>2 DEF Removed
  <2>8. \A other \in Asked(p) : IsSequence(other)
    BY AskedIsText
  <2>9. child \notin DOMAIN tree
    BY <1>3
  <2>10. DOMAIN t = DOMAIN tree \ {child}
    BY <2>6, <2>9
  <2>11. t[p].ty = v.ty /\ Size(t[p]) = Size(v) - 1
    BY <2>5, <2>6 DEF Removed
  <2>12. Unlinks(p, name, t)
    BY <2>6, <2>7, <2>8, <2>10, <2>11 DEF Unlinks, v
  <2> QED BY <1>11, <1>13, <2>3, <2>4, <2>12 DEF AsShown, r, t
<1> QED BY <1>12, <1>13

(* So unlink and rmdir remove what lookup shows. *)
LEMMA Unlinking == NamespaceStaysWhole => UnlinkRemovesWhatLookupShows
<1>1. SUFFICES ASSUME NamespaceStaysWhole, NEW p \in DOMAIN tree, NEW name \in Asked(p)
               PROVE  LET r     == Unlinked(p, name, "none")
                          child == Append(p, name)
                      IN  /\ r.errno = "ok" =>
                                /\ Leaf(tree, child) # {} /\ NS!Below(tree, child) = {}
                                /\ Unlinks(p, name, r.tree)
                          /\ r.errno # "ok" => r.tree = tree
                          /\ (Leaf(tree, child) # {} /\ NS!Below(tree, child) = {} /\ tree[p].ty # "tree") =>
                                r.errno = "ok"
  BY Zenon DEF UnlinkRemovesWhatLookupShows, Unlinks
<1>2. IsNamespace(tree)
  BY <1>1 DEF NamespaceStaysWhole
<1>3. IsSequence(name) /\ IsSegment(name)
  BY <1>1, <1>2, AskedIsText
<1>4. AsShown(p, name, Unlinked(p, name, "none"))
  BY <1>1, <1>2, <1>3, UnlinkEntry, UnlinkMember
<1> QED BY <1>4 DEF AsShown, MayUnlink

(* What unlink and rmdir remove is the one member that lookup shows under    *)
(* the name, for every structured value and every name; with an error they   *)
(* remove nothing; and from directories, hashes, lists and sets they remove  *)
(* whatever it shows that is not a directory with entries. The members of    *)
(* trees that they leave are those whose key is a string that reads as a     *)
(* number (MayUnlink), which lookup shows.                                   *)
THEOREM UnlinkHolds == Spec => []UnlinkRemovesWhatLookupShows
BY NamespaceHolds, Unlinking, PTL
=============================================================================
