-------------------------- MODULE WalStorageProofs --------------------------
(***************************************************************************)
(* What applying a batch and replaying a log compute, for every log. Then,  *)
(* for every set of keys, values and batches, every compaction threshold,   *)
(* every way of cutting writes short and any number of commits, kills and   *)
(* I/O errors: what reopening the store finds is what its callers were      *)
(* promised. The machine keeps its power here; DurableStoreProofs is about  *)
(* the loss of it.                                                          *)
(***************************************************************************)
EXTENDS WalStorage, MaxProofs, FiniteSetTheorems, SequenceTheorems

-----------------------------------------------------------------------------
(* Batches and records *)

(* A batch is a sequence of operations. *)
LEMMA BatchType ==
    ASSUME NEW ops \in Batches
    PROVE  /\ ops \in Seq(BatchOp)
           /\ Len(ops) \in Nat /\ DOMAIN ops = 1..Len(ops)
           /\ \A i \in DOMAIN ops : ops[i] \in BatchOp
BY BatchAssumption

(* The last write to a key is an operation of the batch. *)
LEMMA LastWriteType ==
    ASSUME NEW ops \in Batches, NEW k, Writing(ops, k) # {}
    PROVE  LastWrite(ops, k) \in Values \cup {Absent}
<1>1. Writing(ops, k) \subseteq 1..Len(ops) /\ Len(ops) \in Nat
  BY BatchType DEF Writing
<1>2. Max(Writing(ops, k)) \in Writing(ops, k)
  BY <1>1, MaxIn
<1> QED BY <1>2, BatchType DEF Writing, LastWrite, BatchOp

(* apply_ops keeps a map a map. *)
LEMMA ApplyType ==
    ASSUME NEW m \in Map, NEW ops \in Batches
    PROVE  apply_ops(m, ops) \in Map
BY LastWriteType DEF apply_ops, Map

(* A record is longer than its header. *)
LEMMA RecordLenType ==
    ASSUME NEW ops \in Batches
    PROVE  RecordLen(ops) \in Nat /\ RecordLen(ops) > HeaderLen
<1> DEFINE c == Cardinality(DOMAIN ops)
           p == Cardinality(Puts(ops))
<1>1. IsFiniteSet(DOMAIN ops)
  BY BatchType, FS_Interval
<1>2. IsFiniteSet(Puts(ops))
  BY <1>1, FS_Subset DEF Puts
<1>3. c \in Nat /\ p \in Nat
  BY <1>1, <1>2, FS_CardinalityType
<1>4. (5 + KeyLen) * c \in Nat /\ (4 + ValueLen) * p \in Nat
  BY <1>3, LengthAssumption
<1> HIDE DEF c, p
<1>5. RecordLen(ops) = 9 + 5 + 4 + (5 + KeyLen) * c + (4 + ValueLen) * p
  BY DEF RecordLen, HeaderLen, FooterLen, c, p
<1> QED BY <1>4, <1>5 DEF HeaderLen

-----------------------------------------------------------------------------
(* Appending to a log *)

(* The fields of the pieces of a log. *)
LEMMA ChunkType ==
    ASSUME NEW w \in Seq(Chunk), NEW i \in 1..Len(w)
    PROVE  w[i] \in Chunk /\ w[i].ops \in Batches /\ w[i].at \in Nat /\ w[i].len \in Nat
<1>1. w[i] \in Chunk
  OBVIOUS
<1> QED BY <1>1 DEF Chunk

(* A log file has a length. *)
LEMMA FileLenType ==
    ASSUME NEW w \in Seq(Chunk)
    PROVE  FileLen(w) \in Nat
<1>1. CASE w = <<>>
  BY <1>1 DEF FileLen
<1>2. CASE w # <<>>
  <2>1. Len(w) \in 1..Len(w)
    BY <1>2
  <2> QED BY <1>2, <2>1, ChunkType DEF FileLen
<1> QED BY <1>1, <1>2

(* Log a is log w and, behind it, some bytes of the record of b. *)
Lengthened(a, w, b, bytes) ==
    /\ a \in Seq(Chunk)
    /\ Len(w) \in Nat
    /\ Len(a) = Len(w) + 1
    /\ \A i \in 1..Len(w) : a[i] = w[i]
    /\ a[Len(w) + 1].ops = b
    /\ a[Len(w) + 1].len = bytes

(* What an append leaves of the log, and what it adds. *)
LEMMA AppendedType ==
    ASSUME NEW w \in Seq(Chunk), NEW b \in Batches, NEW bytes \in Nat
    PROVE  Lengthened(Appended(w, b, bytes), w, b, bytes)
<1> DEFINE c == [ops |-> b, at |-> FileLen(w), len |-> bytes]
<1>1. c \in Chunk
  BY FileLenType DEF Chunk
<1>2. c.ops = b /\ c.len = bytes
  OBVIOUS
<1>3. Appended(w, b, bytes) = Append(w, c)
  BY DEF Appended
<1> HIDE DEF c
<1>4. /\ Append(w, c) \in Seq(Chunk)
      /\ Len(w) \in Nat
      /\ Len(Append(w, c)) = Len(w) + 1
      /\ \A i \in 1..Len(w) : Append(w, c)[i] = w[i]
      /\ Append(w, c)[Len(w) + 1] = c
  BY <1>1
<1> QED BY <1>2, <1>3, <1>4 DEF Lengthened

(* Only a log without fragments stays healthy when it is appended to. *)
LEMMA HealthyAppended ==
    ASSUME NEW w \in Seq(Chunk), NEW b \in Batches, NEW bytes \in Nat,
           Healthy(Appended(w, b, bytes))
    PROVE  /\ \A i \in 1..Len(w) : Complete(w[i])
           /\ Healthy(w)
<1> DEFINE a == Appended(w, b, bytes)
<1>0. Lengthened(a, w, b, bytes) /\ Healthy(a)
  BY AppendedType
<1> HIDE DEF a
<1>1. Len(w) \in Nat /\ Len(a) = Len(w) + 1 /\ \A i \in 1..Len(w) : a[i] = w[i]
  BY <1>0 DEF Lengthened
<1>2. \A i \in 1..(Len(a) - 1) : Complete(a[i])
  BY <1>0 DEF Healthy
<1>3. \A i \in 1..Len(w) : Complete(w[i])
  BY <1>1, <1>2
<1> QED BY <1>1, <1>3 DEF Healthy

-----------------------------------------------------------------------------
(* Replaying a log *)

(* replay_wal yields a map. *)
LEMMA ReplayType ==
    ASSUME NEW m \in Map, NEW w \in Seq(Chunk)
    PROVE  replay_wal(m, w) \in Map
<1>1. ASSUME NEW k \in Keys, Touching(w, k) # {}
      PROVE  LastWrite(w[Max(Touching(w, k))].ops, k) \in Values \cup {Absent}
  <2>1. Touching(w, k) \subseteq 1..Len(w) /\ Len(w) \in Nat
    BY DEF Touching, Reached
  <2>2. Max(Touching(w, k)) \in Touching(w, k)
    BY <1>1, <2>1, MaxIn
  <2> DEFINE t == Max(Touching(w, k))
  <2>3. t \in 1..Len(w) /\ Writing(w[t].ops, k) # {}
    BY <2>1, <2>2 DEF Touching
  <2> HIDE DEF t
  <2>4. w[t].ops \in Batches
    BY <2>3, ChunkType
  <2> QED BY <2>3, <2>4, LastWriteType DEF t
<1> QED BY <1>1 DEF replay_wal, Map

(* Replaying an empty log changes nothing. *)
LEMMA ReplayEmpty ==
    ASSUME NEW m \in Map
    PROVE  replay_wal(m, <<>>) = m
BY DEF replay_wal, Touching, Reached, Map

(* Replay depends on the base only where the log has no operation. *)
LEMMA ReplayAgree ==
    ASSUME NEW m \in Map, NEW n \in Map, NEW w \in Seq(Chunk),
           \A k \in Keys : Touching(w, k) = {} => m[k] = n[k]
    PROVE  replay_wal(m, w) = replay_wal(n, w)
BY DEF replay_wal

(* Replaying a log again over its own outcome changes nothing: a crash      *)
(* between compact's rename and its set_len(0) is harmless.                 *)
THEOREM ReplayIdempotent ==
    ASSUME NEW m \in Map, NEW w \in Seq(Chunk)
    PROVE  replay_wal(replay_wal(m, w), w) = replay_wal(m, w)
<1>1. replay_wal(m, w) \in Map
  BY ReplayType
<1>2. \A k \in Keys : Touching(w, k) = {} => replay_wal(m, w)[k] = m[k]
  BY DEF replay_wal
<1> QED BY <1>1, <1>2, ReplayAgree

(* A fragment at the end adds nothing to what a log says. *)
LEMMA FragmentIgnored ==
    ASSUME NEW m \in Map, NEW w \in Seq(Chunk), NEW b \in Batches,
           NEW bytes \in Nat, bytes < RecordLen(b),
           NEW a, Lengthened(a, w, b, bytes)
    PROVE  /\ \A k \in Keys : Touching(a, k) = Touching(w, k)
           /\ replay_wal(m, a) = replay_wal(m, w)
<1>1. /\ a \in Seq(Chunk) /\ Len(a) = Len(w) + 1 /\ \A i \in 1..Len(w) : a[i] = w[i]
      /\ ~Complete(a[Len(w) + 1])
  <2>1. RecordLen(b) \in Nat
    BY RecordLenType
  <2>2. a[Len(w) + 1].ops = b /\ a[Len(w) + 1].len = bytes
    BY DEF Lengthened
  <2>3. ~Complete(a[Len(w) + 1])
    BY <2>1, <2>2 DEF Complete
  <2> QED BY <2>3 DEF Lengthened
<1>2. Reached(a) = Reached(w)
  BY <1>1 DEF Reached
<1>3. Reached(w) \subseteq 1..Len(w)
  BY DEF Reached
<1>4. \A k \in Keys : Touching(a, k) = Touching(w, k)
  BY <1>1, <1>2, <1>3 DEF Touching
<1>5. ASSUME NEW k \in Keys, Touching(w, k) # {}
      PROVE  a[Max(Touching(w, k))] = w[Max(Touching(w, k))]
  <2>1. Touching(w, k) \subseteq 1..Len(w) /\ Len(w) \in Nat
    BY <1>3 DEF Touching
  <2> QED BY <1>1, <1>5, <2>1, MaxIn
<1>6. replay_wal(m, a) = replay_wal(m, w)
  BY <1>4, <1>5 DEF replay_wal
<1> QED BY <1>4, <1>6

(* So a write that was cut short adds nothing. *)
LEMMA ReplayFragment ==
    ASSUME NEW m \in Map, NEW w \in Seq(Chunk), NEW b \in Batches,
           NEW bytes \in Nat, bytes < RecordLen(b)
    PROVE  /\ \A k \in Keys : Touching(Appended(w, b, bytes), k) = Touching(w, k)
           /\ replay_wal(m, Appended(w, b, bytes)) = replay_wal(m, w)
BY AppendedType, FragmentIgnored

(* Appending a whole record to a log without fragments is applying its batch *)
(* to what the log says.                                                     *)
LEMMA ReplayAppend ==
    ASSUME NEW m \in Map, NEW w \in Seq(Chunk), NEW b \in Batches,
           \A i \in 1..Len(w) : Complete(w[i])
    PROVE  LET a == Appended(w, b, RecordLen(b))
           IN  /\ \A k \in Keys : Touching(a, k) = {} <=>
                       (Touching(w, k) = {} /\ Writing(b, k) = {})
               /\ replay_wal(m, a) = apply_ops(replay_wal(m, w), b)
<1> DEFINE a == Appended(w, b, RecordLen(b))
           n == Len(w)
<1>0. Lengthened(a, w, b, RecordLen(b))
  BY RecordLenType, AppendedType
<1> HIDE DEF a
<1>1. /\ a \in Seq(Chunk) /\ n \in Nat /\ Len(a) = n + 1 /\ \A i \in 1..n : a[i] = w[i]
      /\ a[n + 1].ops = b /\ Complete(a[n + 1])
  BY <1>0 DEF Lengthened, Complete
<1>2. Reached(w) = 1..n
  BY DEF Reached
<1>3. Reached(a) = 1..(n + 1)
  BY <1>1 DEF Reached
<1>4. ASSUME NEW k \in Keys
      PROVE  Touching(a, k) = Touching(w, k) \cup
                              (IF Writing(b, k) = {} THEN {} ELSE {n + 1})
  BY <1>1, <1>2, <1>3 DEF Touching
<1>5. ASSUME NEW k \in Keys
      PROVE  replay_wal(m, a)[k] = apply_ops(replay_wal(m, w), b)[k]
  <2>1. CASE Writing(b, k) = {}
    <3>1. Touching(a, k) = Touching(w, k)
      BY <1>4, <2>1
    <3>2. Touching(w, k) \subseteq 1..n
      BY <1>2 DEF Touching
    <3>3. Touching(w, k) # {} => a[Max(Touching(w, k))] = w[Max(Touching(w, k))]
      BY <1>1, <3>2, MaxIn
    <3> QED BY <2>1, <3>1, <3>3 DEF replay_wal, apply_ops
  <2>2. CASE Writing(b, k) # {}
    <3>1. Touching(a, k) \subseteq 1..(n + 1) /\ n + 1 \in Touching(a, k)
      BY <1>1, <1>3, <1>4, <2>2 DEF Touching
    <3>2. Max(Touching(a, k)) = n + 1
      BY <1>1, <3>1, MaxIn
    <3> QED BY <1>1, <2>2, <3>1, <3>2 DEF replay_wal, apply_ops
  <2> QED BY <2>1, <2>2
<1>6. replay_wal(m, a) = apply_ops(replay_wal(m, w), b)
  <2>1. replay_wal(m, a) = [k \in Keys |-> replay_wal(m, a)[k]]
    BY DEF replay_wal
  <2>2. apply_ops(replay_wal(m, w), b) = [k \in Keys |-> apply_ops(replay_wal(m, w), b)[k]]
    BY DEF apply_ops
  <2> QED BY <1>5, <2>1, <2>2
<1> QED BY <1>4, <1>6 DEF a

-----------------------------------------------------------------------------
(* The loops. What a loop has computed after n rounds is written down, shown *)
(* to satisfy the loop's equations, and shown to be all that satisfies them: *)
(* there is no first round at which another solution differs.                *)

Earlier(ops, k, n) == {i \in 1..n : ops[i].key = k}

AppliedUpTo(m, ops, n) ==
    [k \in Keys |-> IF Earlier(ops, k, n) = {} THEN m[k] ELSE ops[Max(Earlier(ops, k, n))].val]

(* One round of apply_ops's loop. *)
LEMMA AppliedStep ==
    ASSUME NEW m \in Map, NEW ops \in Batches, NEW n \in 1..Len(ops)
    PROVE  AppliedUpTo(m, ops, n) =
               ApplyOne(AppliedUpTo(m, ops, n - 1), ops[n])
<1> DEFINE a == AppliedUpTo(m, ops, n - 1)
<1>0. n \in Nat /\ n - 1 \in Nat /\ n > 0
  BY BatchType
<1>1. ASSUME NEW k \in Keys
      PROVE  AppliedUpTo(m, ops, n)[k] = IF k = ops[n].key THEN ops[n].val ELSE a[k]
  <2>1. CASE k = ops[n].key
    <3>1. Earlier(ops, k, n) \subseteq 1..n /\ n \in Earlier(ops, k, n)
      BY <1>0, <2>1 DEF Earlier
    <3>2. Max(Earlier(ops, k, n)) = n
      BY <1>0, <3>1, MaxIn
    <3> QED BY <2>1, <3>1, <3>2 DEF AppliedUpTo
  <2>2. CASE k # ops[n].key
    <3>1. Earlier(ops, k, n) = Earlier(ops, k, n - 1)
      BY <1>0, <2>2 DEF Earlier
    <3> QED BY <2>2, <3>1 DEF AppliedUpTo
  <2> QED BY <2>1, <2>2
<1>2. /\ AppliedUpTo(m, ops, n) = [k \in Keys |-> AppliedUpTo(m, ops, n)[k]]
      /\ a = [k \in Keys |-> a[k]]
  BY DEF AppliedUpTo
<1>3. ops[n] \in BatchOp /\ ops[n].key \in Keys
  BY BatchType DEF BatchOp
<1> HIDE DEF a
<1>4. ApplyOne(a, ops[n]) = [k \in Keys |-> IF k = ops[n].key THEN ops[n].val ELSE a[k]]
  BY <1>2, <1>3 DEF ApplyOne
<1> QED BY <1>1, <1>2, <1>4 DEF a

IsApplying(f, m, ops) ==
    f = [n \in 0..Len(ops) |-> IF n = 0 THEN m ELSE ApplyOne(f[n - 1], ops[n])]

(* The rounds of apply_ops's loop are solved by what it has applied so far. *)
LEMMA ApplyingExists ==
    ASSUME NEW m \in Map, NEW ops \in Batches
    PROVE  IsApplying([n \in 0..Len(ops) |-> AppliedUpTo(m, ops, n)], m, ops)
<1> DEFINE g == [n \in 0..Len(ops) |-> AppliedUpTo(m, ops, n)]
<1>0. Len(ops) \in Nat
  BY BatchType
<1>1. g[0] = m
  <2>1. \A k \in Keys : Earlier(ops, k, 0) = {}
    BY DEF Earlier
  <2>2. AppliedUpTo(m, ops, 0) = m
    BY <2>1 DEF AppliedUpTo, Map
  <2> QED BY <1>0, <2>2
<1>2. ASSUME NEW n \in 1..Len(ops)
      PROVE  g[n] = ApplyOne(g[n - 1], ops[n])
  <2>1. n \in 0..Len(ops) /\ n - 1 \in 0..Len(ops)
    BY <1>0
  <2>2. g[n] = AppliedUpTo(m, ops, n) /\ g[n - 1] = AppliedUpTo(m, ops, n - 1)
    BY <2>1
  <2> HIDE DEF g
  <2> QED BY <2>2, AppliedStep
<1>3. g = [n \in 0..Len(ops) |-> g[n]]
  OBVIOUS
<1> HIDE DEF g
<1>4. \A n \in 0..Len(ops) :
         g[n] = IF n = 0 THEN m ELSE ApplyOne(g[n - 1], ops[n])
  BY <1>0, <1>1, <1>2
<1>5. IsApplying(g, m, ops)
  BY <1>3, <1>4 DEF IsApplying
<1> QED BY <1>5 DEF g

(* And by nothing else. *)
LEMMA ApplyingUnique ==
    ASSUME NEW m \in Map, NEW ops \in Batches, NEW f, IsApplying(f, m, ops),
           NEW g, IsApplying(g, m, ops), NEW n \in 0..Len(ops)
    PROVE  f[n] = g[n]
<1> DEFINE Bad == {i \in 0..Len(ops) : f[i] # g[i]}
<1>0. Len(ops) \in Nat
  BY BatchType
<1>1. \A i \in 0..Len(ops) :
         /\ f[i] = IF i = 0 THEN m ELSE ApplyOne(f[i - 1], ops[i])
         /\ g[i] = IF i = 0 THEN m ELSE ApplyOne(g[i - 1], ops[i])
  BY DEF IsApplying
<1>2. SUFFICES ASSUME Bad # {} PROVE FALSE
  OBVIOUS
<1>3. PICK i \in Bad : \A j \in Bad : i <= j
  <2>1. Bad \subseteq Nat
    BY <1>0
  <2> HIDE DEF Bad
  <2> QED BY <1>2, <2>1, MinExists
<1>4. i # 0
  BY <1>1, <1>3
<1>5. i - 1 \in 0..Len(ops) /\ f[i - 1] = g[i - 1]
  BY <1>0, <1>3, <1>4
<1> QED BY <1>1, <1>3, <1>4, <1>5

(* apply_ops's loop computes that the last operation on a key decides it. *)
LEMMA ApplyIsTheLoop ==
    ASSUME NEW m \in Map, NEW ops \in Batches
    PROVE  ApplyLoop(m, ops) = apply_ops(m, ops)
<1> DEFINE Is(f) == IsApplying(f, m, ops)
           g == [n \in 0..Len(ops) |-> AppliedUpTo(m, ops, n)]
           h == CHOOSE f : Is(f)
<1>0. Len(ops) \in Nat /\ Len(ops) \in 0..Len(ops)
  BY BatchType
<1>1. Is(g)
  BY ApplyingExists
<1>2. ApplyLoop(m, ops) = h[Len(ops)]
  BY DEF ApplyLoop, IsApplying
<1>3. Is(h)
  <2> HIDE DEF Is, g
  <2> QED BY <1>1 DEF h
<1>4. h[Len(ops)] = g[Len(ops)]
  <2> HIDE DEF h, g
  <2> QED BY <1>0, <1>1, <1>3, ApplyingUnique
<1>5. g[Len(ops)] = AppliedUpTo(m, ops, Len(ops))
  BY <1>0
<1>6. AppliedUpTo(m, ops, Len(ops)) = apply_ops(m, ops)
  <2>1. \A k \in Keys : Earlier(ops, k, Len(ops)) = Writing(ops, k)
    BY BatchType DEF Earlier, Writing
  <2> QED BY <2>1 DEF AppliedUpTo, apply_ops, LastWrite
<1> QED BY <1>2, <1>4, <1>5, <1>6

(* The records among the first n that replay applies and that write k. *)
TouchingUpTo(w, k, n) ==
    {i \in 1..n : (\A j \in 1..i : Complete(w[j])) /\ Writing(w[i].ops, k) # {}}

MapUpTo(m, w, n) ==
    [k \in Keys |-> IF TouchingUpTo(w, k, n) = {}
                    THEN m[k]
                    ELSE LastWrite(w[Max(TouchingUpTo(w, k, n))].ops, k)]

ReplayedUpTo(m, w, n) ==
    [m |-> MapUpTo(m, w, n), stopped |-> \E i \in 1..n : ~Complete(w[i])]

(* What was replayed so far is a map. *)
LEMMA MapUpToType ==
    ASSUME NEW m \in Map, NEW w \in Seq(Chunk), NEW n \in 0..Len(w)
    PROVE  MapUpTo(m, w, n) \in Map
<1>1. ASSUME NEW k \in Keys, TouchingUpTo(w, k, n) # {}
      PROVE  LastWrite(w[Max(TouchingUpTo(w, k, n))].ops, k) \in Values \cup {Absent}
  <2> DEFINE t == Max(TouchingUpTo(w, k, n))
  <2>1. TouchingUpTo(w, k, n) \subseteq 1..n /\ n \in Nat
    BY DEF TouchingUpTo
  <2>2. t \in TouchingUpTo(w, k, n)
    BY <1>1, <2>1, MaxIn
  <2> HIDE DEF t
  <2>3. t \in 1..Len(w) /\ Writing(w[t].ops, k) # {}
    BY <2>1, <2>2 DEF TouchingUpTo
  <2>4. w[t].ops \in Batches
    BY <2>3, ChunkType
  <2> QED BY <2>3, <2>4, LastWriteType DEF t
<1> QED BY <1>1 DEF MapUpTo, Map

(* One round of replay_wal's loop: nothing after the first fragment, and the *)
(* operations of a whole record over what was there.                         *)
LEMMA ReplayedStep ==
    ASSUME NEW m \in Map, NEW w \in Seq(Chunk), NEW n \in 1..Len(w)
    PROVE  ReplayedUpTo(m, w, n) = ApplyRecord(ReplayedUpTo(m, w, n - 1), w[n])
<1> DEFINE a == MapUpTo(m, w, n - 1)
           over == \E i \in 1..(n - 1) : ~Complete(w[i])
<1>0. n \in Nat /\ n - 1 \in Nat /\ n > 0 /\ n - 1 \in 0..Len(w) /\ w[n].ops \in Batches
  BY ChunkType
<1>1. a \in Map
  BY <1>0, MapUpToType
<1>2. ReplayedUpTo(m, w, n - 1).m = a /\ ReplayedUpTo(m, w, n - 1).stopped = over
  BY DEF ReplayedUpTo
<1>3. (\E i \in 1..n : ~Complete(w[i])) <=> (over \/ ~Complete(w[n]))
  BY <1>0
<1>4. CASE over \/ ~Complete(w[n])
  <2>1. \A k \in Keys : TouchingUpTo(w, k, n) = TouchingUpTo(w, k, n - 1)
    BY <1>0, <1>4 DEF TouchingUpTo
  <2>2. MapUpTo(m, w, n) = a
    BY <2>1 DEF MapUpTo
  <2>3. ReplayedUpTo(m, w, n) = [m |-> a, stopped |-> TRUE]
    BY <1>3, <1>4, <2>2 DEF ReplayedUpTo
  <2>4. ApplyRecord(ReplayedUpTo(m, w, n - 1), w[n]) = [m |-> a, stopped |-> TRUE]
    <3> HIDE DEF a, over
    <3> QED BY <1>2, <1>4 DEF ApplyRecord
  <2> QED BY <2>3, <2>4
<1>5. CASE ~over /\ Complete(w[n])
  <2>1. ASSUME NEW k \in Keys
        PROVE  MapUpTo(m, w, n)[k] =
                   IF Writing(w[n].ops, k) = {} THEN a[k] ELSE LastWrite(w[n].ops, k)
    <3>1. CASE Writing(w[n].ops, k) = {}
      <4>1. TouchingUpTo(w, k, n) = TouchingUpTo(w, k, n - 1)
        BY <1>0, <3>1 DEF TouchingUpTo
      <4> QED BY <3>1, <4>1 DEF MapUpTo
    <3>2. CASE Writing(w[n].ops, k) # {}
      <4>1. TouchingUpTo(w, k, n) \subseteq 1..n /\ n \in TouchingUpTo(w, k, n)
        BY <1>0, <1>5, <3>2 DEF TouchingUpTo
      <4>2. Max(TouchingUpTo(w, k, n)) = n
        BY <1>0, <4>1, MaxIn
      <4> QED BY <3>2, <4>1, <4>2 DEF MapUpTo
    <3> QED BY <3>1, <3>2
  <2>2. MapUpTo(m, w, n) = apply_ops(a, w[n].ops)
    <3>1. MapUpTo(m, w, n) = [k \in Keys |-> MapUpTo(m, w, n)[k]]
      BY DEF MapUpTo
    <3> HIDE DEF a
    <3> QED BY <2>1, <3>1 DEF apply_ops
  <2>3. apply_ops(a, w[n].ops) = ApplyLoop(a, w[n].ops)
    BY <1>0, <1>1, ApplyIsTheLoop
  <2>4. ReplayedUpTo(m, w, n) = [m |-> ApplyLoop(a, w[n].ops), stopped |-> FALSE]
    BY <1>3, <1>5, <2>2, <2>3 DEF ReplayedUpTo
  <2>5. ApplyRecord(ReplayedUpTo(m, w, n - 1), w[n]) =
            [m |-> ApplyLoop(a, w[n].ops), stopped |-> FALSE]
    <3> HIDE DEF a, over
    <3> QED BY <1>2, <1>5 DEF ApplyRecord
  <2> QED BY <2>4, <2>5
<1> QED BY <1>4, <1>5

IsReplaying(f, m, w) ==
    f = [n \in 0..Len(w) |-> IF n = 0 THEN [m |-> m, stopped |-> FALSE]
                             ELSE ApplyRecord(f[n - 1], w[n])]

(* The rounds of replay_wal's loop are solved by what was replayed so far. *)
LEMMA ReplayingExists ==
    ASSUME NEW m \in Map, NEW w \in Seq(Chunk)
    PROVE  IsReplaying([n \in 0..Len(w) |-> ReplayedUpTo(m, w, n)], m, w)
<1> DEFINE g == [n \in 0..Len(w) |-> ReplayedUpTo(m, w, n)]
<1>0. Len(w) \in Nat
  OBVIOUS
<1>1. g[0] = [m |-> m, stopped |-> FALSE]
  <2>1. \A k \in Keys : TouchingUpTo(w, k, 0) = {}
    BY DEF TouchingUpTo
  <2>2. MapUpTo(m, w, 0) = m
    BY <2>1 DEF MapUpTo, Map
  <2>3. (\E i \in 1..0 : ~Complete(w[i])) = FALSE
    OBVIOUS
  <2>4. ReplayedUpTo(m, w, 0) = [m |-> m, stopped |-> FALSE]
    BY <2>2, <2>3 DEF ReplayedUpTo
  <2> QED BY <1>0, <2>4
<1>2. ASSUME NEW n \in 1..Len(w)
      PROVE  g[n] = ApplyRecord(g[n - 1], w[n])
  <2>1. n \in 0..Len(w) /\ n - 1 \in 0..Len(w)
    BY <1>0
  <2>2. g[n] = ReplayedUpTo(m, w, n) /\ g[n - 1] = ReplayedUpTo(m, w, n - 1)
    BY <2>1
  <2> HIDE DEF g
  <2> QED BY <2>2, ReplayedStep
<1>3. g = [n \in 0..Len(w) |-> g[n]]
  OBVIOUS
<1> HIDE DEF g
<1>4. \A n \in 0..Len(w) :
         g[n] = IF n = 0 THEN [m |-> m, stopped |-> FALSE] ELSE ApplyRecord(g[n - 1], w[n])
  BY <1>0, <1>1, <1>2
<1>5. IsReplaying(g, m, w)
  BY <1>3, <1>4 DEF IsReplaying
<1> QED BY <1>5 DEF g

(* And by nothing else. *)
LEMMA ReplayingUnique ==
    ASSUME NEW m, NEW w \in Seq(Chunk), NEW f, IsReplaying(f, m, w),
           NEW g, IsReplaying(g, m, w), NEW n \in 0..Len(w)
    PROVE  f[n] = g[n]
<1> DEFINE Bad == {i \in 0..Len(w) : f[i] # g[i]}
<1>0. Len(w) \in Nat
  OBVIOUS
<1>1. \A i \in 0..Len(w) :
         /\ f[i] = IF i = 0 THEN [m |-> m, stopped |-> FALSE] ELSE ApplyRecord(f[i - 1], w[i])
         /\ g[i] = IF i = 0 THEN [m |-> m, stopped |-> FALSE] ELSE ApplyRecord(g[i - 1], w[i])
  BY DEF IsReplaying
<1>2. SUFFICES ASSUME Bad # {} PROVE FALSE
  OBVIOUS
<1>3. PICK i \in Bad : \A j \in Bad : i <= j
  <2>1. Bad \subseteq Nat
    BY <1>0
  <2> HIDE DEF Bad
  <2> QED BY <1>2, <2>1, MinExists
<1>4. i # 0
  BY <1>1, <1>3
<1>5. i - 1 \in 0..Len(w) /\ f[i - 1] = g[i - 1]
  BY <1>0, <1>3, <1>4
<1> QED BY <1>1, <1>3, <1>4, <1>5

(* replay_wal as the model states it, the last whole record that writes a    *)
(* key decides it, is what the code's two nested loops compute, of every log *)
(* with fragments anywhere.                                                  *)
THEOREM LoopIsLastWrite ==
    ASSUME NEW m \in Map, NEW w \in Seq(Chunk)
    PROVE  ReplayLoop(m, w) = replay_wal(m, w)
<1> DEFINE Is(f) == IsReplaying(f, m, w)
           g == [n \in 0..Len(w) |-> ReplayedUpTo(m, w, n)]
           h == CHOOSE f : Is(f)
<1>0. Len(w) \in Nat /\ Len(w) \in 0..Len(w)
  OBVIOUS
<1>1. Is(g)
  BY ReplayingExists
<1>2. ReplayLoop(m, w) = h[Len(w)].m
  BY DEF ReplayLoop, IsReplaying
<1>3. Is(h)
  <2> HIDE DEF Is, g
  <2> QED BY <1>1 DEF h
<1>4. h[Len(w)] = g[Len(w)]
  <2> HIDE DEF h, g
  <2> QED BY <1>0, <1>1, <1>3, ReplayingUnique
<1>5. g[Len(w)].m = MapUpTo(m, w, Len(w))
  BY <1>0 DEF ReplayedUpTo
<1>6. MapUpTo(m, w, Len(w)) = replay_wal(m, w)
  <2>1. \A k \in Keys : TouchingUpTo(w, k, Len(w)) = Touching(w, k)
    BY DEF TouchingUpTo, Touching, Reached
  <2> QED BY <2>1 DEF MapUpTo, replay_wal
<1> QED BY <1>2, <1>4, <1>5, <1>6

-----------------------------------------------------------------------------
(* The store *)

(* What a settled history may have left in the store are maps. *)
LEMMA PromiseType ==
    ASSUME TypeOK
    PROVE  Done(settled) \subseteq Map /\ Doubtful(settled) \subseteq Map
BY ApplyType DEF TypeOK, Done, Doubtful

(* What a restart recovers is a map. *)
LEMMA RecoverType ==
    ASSUME TypeOK
    PROVE  Recover \in Map
BY ReplayType DEF TypeOK, Recover

(* The map of a store with no keys. *)
LEMMA EmptyMapType == EmptyMap \in Map
BY DEF EmptyMap, Map

(* A store that was never opened satisfies the invariant. *)
LEMMA InitIndInv == Init => IndInv
<1> SUFFICES ASSUME Init PROVE IndInv
  OBVIOUS
<1>1. TypeOK
  <2>1. <<>> \in Seq(Chunk)
    OBVIOUS
  <2>2. 0 \in 0..MaxCommits /\ 0 \in 0..MaxErrors
    BY BoundAssumption
  <2> QED BY <2>1, <2>2, EmptyMapType DEF Init, TypeOK, PC
<1>2. Recover = EmptyMap
  BY EmptyMapType, ReplayEmpty DEF Init, Recover
<1> QED BY <1>1, <1>2 DEF Init, IndInv, Progress, OnDisk, InMemory, LogCovers,
                          MemoryIsOnDisk, Done

-----------------------------------------------------------------------------
(* One lemma for each action. *)

(* open: the checkpoint and the replayed log become the map. *)
LEMMA OpenStep == IndInv /\ open => IndInv'
<1> SUFFICES ASSUME IndInv, open PROVE IndInv'
  OBVIOUS
<1>1. TypeOK'
  BY RecoverType, FileLenType DEF IndInv, TypeOK, open, disk, PC
<1>2. Recover' = Recover /\ map' = Recover /\ wal' = wal /\ batch' = NoBatch
  BY DEF IndInv, Progress, open, disk, Recover
<1>3. Done(settled) = settled /\ Done(settled)' = settled'
  BY <1>2 DEF IndInv, Progress, open, Done
<1>4. OnDisk' /\ InMemory'
  BY <1>2, <1>3 DEF IndInv, OnDisk, InMemory, open
<1>5. LogCovers'
  BY DEF LogCovers, open, disk, Recover, replay_wal
<1> QED BY <1>1, <1>2, <1>4, <1>5 DEF IndInv, Progress, MemoryIsOnDisk, open

(* commit: the record is in the file, not yet applied to the map. *)
LEMMA CommitWriteStep ==
    ASSUME IndInv, NEW b \in Batches, commit_write(b)
    PROVE  IndInv'
<1>1. /\ RecordLen(b) \in Nat /\ pc = "idle" /\ batch = NoBatch /\ TypeOK
      /\ wal' = Appended(wal, b, RecordLen(b)) /\ batch' = b /\ pc' = "sync"
      /\ map' = map /\ ckpt' = ckpt /\ settled' = settled /\ errors' = errors
      /\ wal \in Seq(Chunk) /\ ckpt \in Map /\ map \in Map
  BY RecordLenType DEF IndInv, TypeOK, Progress, commit_write, Issue
<1>0. Lengthened(wal', wal, b, RecordLen(b))
  BY <1>1, AppendedType
<1>2. TypeOK'
  BY <1>0, <1>1, BoundAssumption DEF Lengthened, TypeOK, commit_write, Issue, PC
<1>3. Progress'
  <2>1. /\ wal' \in Seq(Chunk) /\ Len(wal) \in Nat /\ Len(wal') = Len(wal) + 1
        /\ wal'[Len(wal) + 1].ops = b /\ wal'[Len(wal) + 1].len = RecordLen(b)
    BY <1>0 DEF Lengthened
  <2>2. wal' # <<>>
    BY <2>1
  <2> QED BY <1>1, <2>1, <2>2, NoBatchAssumption DEF Progress, Complete
<1>4. ASSUME Healthy(wal')
      PROVE  /\ Healthy(wal)
             /\ Recover' = apply_ops(Recover, b)
             /\ \A k \in Keys : Touching(wal', k) = {} => Touching(wal, k) = {}
  <2>1. Healthy(wal) /\ \A i \in 1..Len(wal) : Complete(wal[i])
    BY <1>1, <1>4, HealthyAppended
  <2> QED BY <1>1, <2>1, ReplayAppend DEF Recover
<1>5. OnDisk'
  BY <1>1, <1>4, NoBatchAssumption DEF IndInv, OnDisk, Done
<1>6. InMemory'
  BY <1>1 DEF IndInv, InMemory, Done
<1>7. LogCovers'
  BY <1>1, <1>4 DEF IndInv, LogCovers
<1>8. MemoryIsOnDisk'
  BY <1>1, <1>4 DEF IndInv, MemoryIsOnDisk
<1> QED BY <1>2, <1>3, <1>5, <1>6, <1>7, <1>8 DEF IndInv

(* A write that is cut short leaves the same records for replay. *)
LEMMA FragmentKeepsLog ==
    ASSUME TypeOK, NEW b \in Batches, NEW bytes \in Nat, bytes < RecordLen(b),
           wal' = Appended(wal, b, bytes), ckpt' = ckpt
    PROVE  /\ wal' \in Seq(Chunk)
           /\ Recover' = Recover
           /\ \A k \in Keys : Touching(wal', k) = Touching(wal, k)
           /\ Healthy(wal') => Healthy(wal)
<1>1. wal \in Seq(Chunk) /\ ckpt \in Map
  BY DEF TypeOK
<1>2. wal' \in Seq(Chunk)
  <2>1. Lengthened(wal', wal, b, bytes)
    BY <1>1, AppendedType
  <2> QED BY <2>1 DEF Lengthened
<1>3. Healthy(wal') => Healthy(wal)
  BY <1>1, HealthyAppended
<1> QED BY <1>1, <1>2, <1>3, ReplayFragment DEF Recover

(* A kill inside the write leaves a fragment that replay drops. *)
LEMMA CommitWriteKilledStep ==
    ASSUME IndInv, NEW b \in Batches, NEW bytes \in Cuts, commit_write_killed(b, bytes)
    PROVE  IndInv'
<1>1. /\ bytes \in Nat /\ bytes < RecordLen(b) /\ pc = "idle" /\ batch = NoBatch /\ TypeOK
      /\ wal' = Appended(wal, b, bytes) /\ batch' = NoBatch /\ pc' = "closed"
      /\ ckpt' = ckpt /\ settled' = settled
  BY FaultAssumption DEF IndInv, Progress, commit_write_killed, Issue, Exit
<1>2. wal' \in Seq(Chunk) /\ Recover' = Recover /\ (Healthy(wal') => Healthy(wal))
  BY <1>1, FragmentKeepsLog
<1>3. TypeOK'
  BY <1>1, <1>2, EmptyMapType, BoundAssumption
     DEF TypeOK, commit_write_killed, Issue, Exit, PC
<1> QED BY <1>1, <1>2, <1>3
        DEF IndInv, Progress, OnDisk, InMemory, LogCovers, MemoryIsOnDisk, Done

(* A failed write leaves at most a fragment, and the map as it was. *)
LEMMA CommitWriteFailsStep ==
    ASSUME IndInv, NEW b \in Batches, NEW bytes \in Cuts \cup {0},
           commit_write_fails(b, bytes)
    PROVE  IndInv'
<1>1. /\ bytes \in Nat /\ bytes < RecordLen(b) /\ pc = "idle" /\ batch = NoBatch /\ TypeOK
      /\ batch' = batch /\ pc' = pc /\ map' = map /\ ckpt' = ckpt /\ settled' = settled
      /\ errors \in Nat /\ errors' = errors + 1
      /\ wal' = wal \/ wal' = Appended(wal, b, bytes)
  BY FaultAssumption, BoundAssumption
     DEF IndInv, TypeOK, Progress, commit_write_fails, Issue, Fail
<1>2. /\ wal' \in Seq(Chunk) /\ Recover' = Recover /\ (Healthy(wal') => Healthy(wal))
      /\ \A k \in Keys : Touching(wal', k) = Touching(wal, k)
  <2>1. CASE wal' = wal
    BY <1>1, <2>1 DEF TypeOK, Recover
  <2>2. CASE wal' = Appended(wal, b, bytes)
    BY <1>1, <2>2, FragmentKeepsLog
  <2> QED BY <1>1, <2>1, <2>2
<1>3. TypeOK'
  BY <1>1, <1>2, BoundAssumption DEF TypeOK, commit_write_fails, Issue, Fail, PC
<1>4. Progress' /\ OnDisk' /\ InMemory' /\ LogCovers'
  BY <1>1, <1>2 DEF IndInv, Progress, OnDisk, InMemory, LogCovers, Done
<1>5. MemoryIsOnDisk'
  BY <1>1 DEF MemoryIsOnDisk
<1> QED BY <1>3, <1>4, <1>5 DEF IndInv

(* commit: the map catches up with the record that was written. *)
LEMMA CommitSyncStep == IndInv /\ commit_sync => IndInv'
<1> SUFFICES ASSUME IndInv, commit_sync PROVE IndInv'
  OBVIOUS
<1> DEFINE n == Len(wal)
<1>1. /\ TypeOK /\ pc = "sync" /\ batch \in Batches /\ map' = apply_ops(map, batch)
      /\ wal' = wal /\ ckpt' = ckpt /\ wal \in Seq(Chunk) /\ map \in settled /\ settled \subseteq Map
      /\ wal # <<>> /\ wal[n].ops = batch /\ Complete(wal[n])
      /\ errors' = errors
      /\ \/ pc' = "checkpoint" /\ batch' = batch /\ settled' = settled
         \/ pc' = "idle" /\ batch' = NoBatch /\ settled' = Done(settled)
  BY DEF IndInv, TypeOK, Progress, InMemory, commit_sync, SyncWal
<1>2. TypeOK'
  <2>1. map' \in Map
    BY <1>1, ApplyType
  <2>2. wal_bytes' \in Nat
    BY <1>1, RecordLenType DEF TypeOK, commit_sync
  <2>3. settled' \subseteq Map
    BY <1>1, PromiseType
  <2> QED BY <1>1, <2>1, <2>2, <2>3 DEF TypeOK, commit_sync, SyncWal, PC
<1>3. Done(settled)' = Done(settled) /\ Recover' = Recover
  BY <1>1 DEF Done, Recover
<1>4. map' \in Done(settled)
  BY <1>1, NoBatchAssumption DEF Done
<1>5. LogCovers'
  <2> SUFFICES ASSUME Healthy(wal), NEW k \in Keys, Touching(wal, k) = {}
               PROVE  map'[k] = ckpt[k]
    BY <1>1 DEF LogCovers
  <2>1. n \in 1..n /\ Reached(wal) = 1..n
    <3>1. n \in Nat /\ n # 0
      BY <1>1
    <3>2. \A i \in 1..n : Complete(wal[i])
      BY <1>1, <3>1 DEF Healthy
    <3> QED BY <1>1, <3>1, <3>2 DEF Reached
  <2>2. Writing(batch, k) = {}
    BY <1>1, <2>1 DEF Touching
  <2>3. map'[k] = map[k]
    BY <1>1, <2>2 DEF apply_ops
  <2> QED BY <1>1, <2>3 DEF IndInv, LogCovers
<1>6. MemoryIsOnDisk'
  BY <1>1, <1>3 DEF IndInv, MemoryIsOnDisk
<1>7. Progress' /\ OnDisk' /\ InMemory'
  BY <1>1, <1>3, <1>4 DEF IndInv, Progress, OnDisk, InMemory
<1> QED BY <1>2, <1>5, <1>6, <1>7 DEF IndInv

(* A failed sync leaves the record in the file and not in the map. *)
LEMMA CommitSyncFailsStep == IndInv /\ commit_sync_fails => IndInv'
<1> SUFFICES ASSUME IndInv, commit_sync_fails PROVE IndInv'
  OBVIOUS
<1>1. /\ TypeOK /\ pc = "sync" /\ pc' = "idle" /\ batch' = NoBatch
      /\ settled' = Doubtful(settled) /\ errors \in Nat /\ errors' = errors + 1
      /\ map' = map /\ wal' = wal /\ ckpt' = ckpt
  BY BoundAssumption DEF IndInv, TypeOK, commit_sync_fails, Fail, disk
<1>2. TypeOK'
  BY <1>1, PromiseType, BoundAssumption DEF TypeOK, commit_sync_fails, Fail, disk, PC
<1>3. Done(settled)' = settled' /\ Recover' = Recover
  BY <1>1 DEF Done, Recover
<1>4. MemoryIsOnDisk'
  BY <1>1 DEF MemoryIsOnDisk
<1> QED BY <1>1, <1>2, <1>3, <1>4
        DEF IndInv, Progress, OnDisk, InMemory, LogCovers, Doubtful

(* compact begins when the previous operation is over. *)
LEMMA CompactRequestStep == IndInv /\ compact_request => IndInv'
BY DEF IndInv, TypeOK, Progress, OnDisk, InMemory, LogCovers, MemoryIsOnDisk,
       compact_request, disk, PC, Done, Recover

(* compact: the checkpoint and the log hold the same writes for a while. *)
LEMMA CompactCheckpointStep == IndInv /\ compact_checkpoint => IndInv'
<1> SUFFICES ASSUME IndInv, compact_checkpoint PROVE IndInv'
  OBVIOUS
<1>1. /\ TypeOK /\ pc = "checkpoint" /\ pc' = "truncate" /\ ckpt' = map
      /\ map' = map /\ wal' = wal /\ batch' = batch /\ settled' = settled
      /\ errors' = errors /\ map \in Map /\ ckpt \in Map /\ wal \in Seq(Chunk)
  BY DEF IndInv, TypeOK, compact_checkpoint
<1>2. TypeOK'
  BY <1>1 DEF TypeOK, compact_checkpoint, PC
<1>3. Done(settled)' = Done(settled)
  BY <1>1 DEF Done
<1>4. Healthy(wal) => Recover' = Recover
  <2> SUFFICES ASSUME Healthy(wal) PROVE Recover' = Recover
    OBVIOUS
  <2>1. \A k \in Keys : Touching(wal, k) = {} => map[k] = ckpt[k]
    BY <1>1 DEF IndInv, LogCovers
  <2>2. replay_wal(map, wal) = replay_wal(ckpt, wal)
    BY <1>1, <2>1, ReplayAgree
  <2> QED BY <1>1, <2>2 DEF Recover
<1> QED BY <1>1, <1>2, <1>3, <1>4
        DEF IndInv, Progress, OnDisk, InMemory, LogCovers, MemoryIsOnDisk

(* compact: the log is dropped, the checkpoint covers it. *)
LEMMA CompactTruncateStep == IndInv /\ compact_truncate => IndInv'
<1> SUFFICES ASSUME IndInv, compact_truncate PROVE IndInv'
  OBVIOUS
<1>1. /\ TypeOK /\ pc = "truncate" /\ pc' = "fsync" /\ ckpt' = ckpt /\ ckpt = map
      /\ map' = map /\ wal' = <<>> /\ batch' = batch /\ settled' = settled
      /\ errors' = errors /\ map \in Map
  BY DEF IndInv, TypeOK, Progress, compact_truncate
<1>2. TypeOK'
  <2>1. <<>> \in Seq(Chunk)
    OBVIOUS
  <2> QED BY <1>1, <2>1 DEF TypeOK, compact_truncate, PC
<1>3. Done(settled)' = Done(settled)
  BY <1>1 DEF Done
<1>4. Recover' = map
  BY <1>1, ReplayEmpty DEF Recover
<1> QED BY <1>1, <1>2, <1>3, <1>4
        DEF IndInv, Progress, OnDisk, InMemory, LogCovers, MemoryIsOnDisk

(* compact: the truncated log is synced. *)
LEMMA CompactFsyncStep == IndInv /\ compact_fsync => IndInv'
<1> SUFFICES ASSUME IndInv, compact_fsync PROVE IndInv'
  OBVIOUS
<1>1. /\ TypeOK /\ pc = "fsync" /\ pc' = "idle" /\ ckpt' = ckpt /\ ckpt = map
      /\ map' = map /\ wal = <<>> /\ wal' = wal /\ batch' = NoBatch /\ settled' = {map}
      /\ errors' = errors /\ map \in Map
  BY DEF IndInv, TypeOK, Progress, compact_fsync, SyncWal
<1>2. TypeOK'
  BY <1>1 DEF TypeOK, compact_fsync, SyncWal, PC
<1>3. Done(settled)' = {map}
  BY <1>1 DEF Done
<1>4. Recover' = map
  BY <1>1, ReplayEmpty DEF Recover
<1> QED BY <1>1, <1>2, <1>3, <1>4
        DEF IndInv, Progress, OnDisk, InMemory, LogCovers, MemoryIsOnDisk

(* A compaction that fails half-way loses no write. *)
LEMMA CompactFailsStep == IndInv /\ compact_fails => IndInv'
<1> SUFFICES ASSUME IndInv, compact_fails PROVE IndInv'
  OBVIOUS
<1>1. /\ TypeOK /\ pc \notin {"closed", "sync"} /\ pc' = "idle" /\ batch' = NoBatch
      /\ settled' = Doubtful(settled) /\ errors \in Nat /\ errors' = errors + 1
      /\ map' = map /\ wal' = wal /\ ckpt' = ckpt
  BY BoundAssumption DEF IndInv, TypeOK, compact_fails, Fail, disk
<1>2. TypeOK'
  BY <1>1, PromiseType, BoundAssumption DEF TypeOK, compact_fails, Fail, disk, PC
<1>3. Done(settled)' = settled' /\ Recover' = Recover
  BY <1>1 DEF Done, Recover
<1>4. MemoryIsOnDisk'
  BY <1>1 DEF MemoryIsOnDisk
<1> QED BY <1>1, <1>2, <1>3, <1>4
        DEF IndInv, Progress, OnDisk, InMemory, LogCovers, Doubtful

(* A kill leaves the files, and the batch in flight wholly or not at all. *)
LEMMA KillStep == IndInv /\ kill => IndInv'
<1> SUFFICES ASSUME IndInv, kill PROVE IndInv'
  OBVIOUS
<1>1. /\ TypeOK /\ pc' = "closed" /\ batch' = NoBatch
      /\ settled' = Doubtful(settled) /\ wal' = wal /\ ckpt' = ckpt
  BY DEF IndInv, kill, Exit, disk
<1>2. TypeOK'
  BY <1>1, PromiseType, EmptyMapType DEF TypeOK, kill, Exit, disk, PC
<1>3. Done(settled)' = settled' /\ Recover' = Recover
  BY <1>1 DEF Done, Recover
<1> QED BY <1>1, <1>2, <1>3
        DEF IndInv, Progress, OnDisk, InMemory, LogCovers, MemoryIsOnDisk, Doubtful

-----------------------------------------------------------------------------
(* Every step preserves the invariant. *)
LEMMA NextIndInv ==
    ASSUME ~PowerLoss
    PROVE  IndInv /\ [Next]_vars => IndInv'
<1> SUFFICES ASSUME IndInv, [Next]_vars PROVE IndInv'
  OBVIOUS
<1>1. CASE UNCHANGED vars
  BY <1>1 DEF vars, disk, IndInv, TypeOK, Progress, OnDisk, InMemory, LogCovers,
              MemoryIsOnDisk, Done, Recover
<1>2. CASE open
  BY <1>2, OpenStep
<1>3. CASE open_corrupt
  BY <1>1, <1>3 DEF open_corrupt
<1>4. CASE \E b \in Batches : commit_write(b)
  BY <1>4, CommitWriteStep
<1>5. CASE \E b \in Batches, bytes \in Cuts : commit_write_killed(b, bytes)
  BY <1>5, CommitWriteKilledStep
<1>6. CASE \E b \in Batches, bytes \in Cuts \cup {0} : commit_write_fails(b, bytes)
  BY <1>6, CommitWriteFailsStep
<1>7. CASE commit_sync
  BY <1>7, CommitSyncStep
<1>8. CASE commit_sync_fails
  BY <1>8, CommitSyncFailsStep
<1>9. CASE compact_request
  BY <1>9, CompactRequestStep
<1>10. CASE compact_checkpoint
  BY <1>10, CompactCheckpointStep
<1>11. CASE compact_truncate
  BY <1>11, CompactTruncateStep
<1>12. CASE compact_fsync
  BY <1>12, CompactFsyncStep
<1>13. CASE compact_fails
  BY <1>13, CompactFailsStep
<1>14. CASE kill
  BY <1>14, KillStep
<1>15. CASE power_loss \/ writeback
  BY <1>15 DEF power_loss, writeback
<1> QED BY <1>1, <1>2, <1>3, <1>4, <1>5, <1>6, <1>7, <1>8, <1>9, <1>10, <1>11,
           <1>12, <1>13, <1>14, <1>15 DEF Next

(* The store's files and memory satisfy the inductive invariant throughout   *)
(* open, commit, compact, kills and I/O errors.                              *)
THEOREM IndInvHolds ==
    ASSUME ~PowerLoss
    PROVE  Spec => []IndInv
BY InitIndInv, NextIndInv, PTL DEF Spec

(* Every reopening finds each acknowledged batch, and every other batch      *)
(* wholly or not at all, unless a record stands behind a fragment of the log.*)
THEOREM RecoverableHolds ==
    ASSUME ~PowerLoss
    PROVE  Spec => []Recoverable
<1>1. IndInv => Recoverable
  BY DEF IndInv, OnDisk, Recoverable, Doubtful
<1> QED BY <1>1, IndInvHolds, PTL

(* Until a system call fails, what readers see in the map is what a restart  *)
(* would find.                                                               *)
THEOREM MemoryIsOnDiskHolds ==
    ASSUME ~PowerLoss
    PROVE  Spec => []MemoryIsOnDisk
<1>1. IndInv => MemoryIsOnDisk
  BY DEF IndInv
<1> QED BY <1>1, IndInvHolds, PTL

-----------------------------------------------------------------------------
(* Types, whatever happens: kills, I/O errors and any loss of power *)

(* A loss of power leaves a log. *)
LEMMA KeptType ==
    ASSUME NEW w \in Seq(Chunk), NEW n \in 0..Len(w), NEW v \in Kept(w, n)
    PROVE  v \in Seq(Chunk)
<1> DEFINE p == SubSeq(w, 1, n)
<1>1. p \in Seq(Chunk)
  <2>1. n \in Int /\ 1 \in Int /\ \A i \in 1..n : w[i] \in Chunk
    OBVIOUS
  <2> QED BY <2>1, SubSeqProperties
<1>2. CASE v = p
  BY <1>1, <1>2
<1>3. CASE v # p
  <2>1. PICK c \in Cuts : n # Len(w) /\ v = Append(p, [w[n + 1] EXCEPT !.len = c])
    BY <1>3 DEF Kept
  <2>2. n + 1 \in 1..Len(w) /\ c \in Nat
    BY <2>1, FaultAssumption
  <2>3. w[n + 1] \in Chunk
    BY <2>2
  <2>4. [w[n + 1] EXCEPT !.len = c] \in Chunk
    BY <2>2, <2>3 DEF Chunk
  <2> HIDE DEF p
  <2> QED BY <1>1, <2>1, <2>4
<1> QED BY <1>2, <1>3

(* And a checkpoint. *)
LEMMA SurvivingType ==
    ASSUME TypeOK, NEW d \in SurvivingDisks
    PROVE  d[1] \in Map /\ d[2] \in Seq(Chunk)
<1>1. ckpt \in Map /\ ckpt_stable \in Map /\ wal \in Seq(Chunk) /\ wal_stable \in Seq(Chunk)
  BY DEF TypeOK
<1>2. Len(wal) \in Nat /\ Len(wal_stable) \in Nat
  BY <1>1
<1>3. ASSUME NEW w \in SurvivingWals PROVE w \in Seq(Chunk)
  <2>1. PICK n \in 0..Len(wal) : w \in Kept(wal, n)
    BY <1>2 DEF SurvivingWals
  <2> QED BY <1>1, <2>1, KeptType
<1>4. d[1] \in {ckpt, ckpt_stable} /\ d[2] \in SurvivingWals \cup {wal_stable}
  BY DEF SurvivingDisks
<1> QED BY <1>1, <1>3, <1>4

(* Types are kept by every step, commit's because it has a batch in hand. *)
TypedStore == TypeOK /\ (pc = "sync" => batch \in Batches)

(* Every step keeps the types. *)
LEMMA NextTyped == TypedStore /\ [Next]_vars => TypedStore'
<1> SUFFICES ASSUME TypedStore, [Next]_vars PROVE TypedStore'
  OBVIOUS
<1>0. TypeOK /\ Done(settled) \subseteq Map /\ Doubtful(settled) \subseteq Map
      /\ Recover \in Map /\ FileLen(wal) \in Nat /\ EmptyMap \in Map
  BY PromiseType, RecoverType, FileLenType, EmptyMapType DEF TypedStore, TypeOK
<1>1. CASE UNCHANGED vars
  BY <1>0, <1>1 DEF vars, disk, TypedStore, TypeOK
<1>2. CASE open
  BY <1>0, <1>2 DEF open, disk, TypedStore, TypeOK, PC
<1>3. CASE open_corrupt
  BY <1>1, <1>3 DEF open_corrupt
<1>4. ASSUME NEW b \in Batches, commit_write(b) PROVE TypedStore'
  <2>1. wal' \in Seq(Chunk)
    BY <1>0, <1>4, RecordLenType, AppendedType DEF commit_write, Lengthened, TypeOK
  <2>2. commits' \in 0..MaxCommits
    BY <1>0, <1>4, BoundAssumption DEF commit_write, Issue, TypeOK
  <2> QED BY <1>0, <1>4, <2>1, <2>2 DEF commit_write, TypedStore, TypeOK, PC
<1>5. ASSUME NEW b \in Batches, NEW bytes \in Cuts, commit_write_killed(b, bytes)
      PROVE  TypedStore'
  <2>1. wal' \in Seq(Chunk)
    BY <1>0, <1>5, FaultAssumption, AppendedType DEF commit_write_killed, Lengthened, TypeOK
  <2>2. commits' \in 0..MaxCommits
    BY <1>0, <1>5, BoundAssumption DEF commit_write_killed, Issue, TypeOK
  <2> QED BY <1>0, <1>5, <2>1, <2>2 DEF commit_write_killed, Exit, TypedStore, TypeOK, PC
<1>6. ASSUME NEW b \in Batches, NEW bytes \in Cuts \cup {0}, commit_write_fails(b, bytes)
      PROVE  TypedStore'
  <2>1. wal' \in Seq(Chunk)
    BY <1>0, <1>6, FaultAssumption, AppendedType DEF commit_write_fails, Lengthened, TypeOK
  <2>2. commits' \in 0..MaxCommits /\ errors' \in 0..MaxErrors
    BY <1>0, <1>6, BoundAssumption DEF commit_write_fails, Issue, Fail, TypeOK
  <2>3. pc' = "idle"
    BY <1>6 DEF commit_write_fails, Issue
  <2> QED BY <1>0, <1>6, <2>1, <2>2, <2>3 DEF commit_write_fails, TypedStore, TypeOK, PC
<1>7. CASE commit_sync
  <2>1. batch \in Batches /\ RecordLen(batch) \in Nat /\ apply_ops(map, batch) \in Map
    BY <1>0, <1>7, RecordLenType, ApplyType DEF commit_sync, TypedStore, TypeOK
  <2>2. /\ ckpt' \in Map /\ ckpt_stable' \in Map /\ wal' \in Seq(Chunk)
        /\ wal_stable' \in Seq(Chunk) /\ shrinking' \in BOOLEAN
    BY <1>0, <1>7 DEF commit_sync, SyncWal, TypeOK
  <2>3. wal_bytes' \in Nat /\ map' \in Map /\ settled' \subseteq Map
    BY <1>0, <1>7, <2>1 DEF commit_sync, TypeOK
  <2>4. pc' \in {"checkpoint", "idle"} /\ batch' \in Batches \cup {NoBatch}
    BY <1>7, <2>1 DEF commit_sync
  <2>5. commits' \in 0..MaxCommits /\ errors' \in 0..MaxErrors
    BY <1>0, <1>7 DEF commit_sync, TypeOK
  <2> QED BY <2>2, <2>3, <2>4, <2>5 DEF TypedStore, TypeOK, PC
<1>8. CASE commit_sync_fails
  <2>1. errors' \in 0..MaxErrors
    BY <1>0, <1>8, BoundAssumption DEF commit_sync_fails, Fail, TypeOK
  <2> QED BY <1>0, <1>8, <2>1 DEF commit_sync_fails, disk, TypedStore, TypeOK, PC
<1>9. CASE compact_request
  BY <1>0, <1>9 DEF compact_request, disk, TypedStore, TypeOK, PC
<1>10. CASE compact_checkpoint
  BY <1>0, <1>10 DEF compact_checkpoint, TypedStore, TypeOK, PC
<1>11. CASE compact_truncate
  <2>1. <<>> \in Seq(Chunk)
    OBVIOUS
  <2> QED BY <1>0, <1>11, <2>1 DEF compact_truncate, TypedStore, TypeOK, PC
<1>12. CASE compact_fsync
  BY <1>0, <1>12 DEF compact_fsync, SyncWal, TypedStore, TypeOK, PC
<1>13. CASE compact_fails
  <2>1. errors' \in 0..MaxErrors
    BY <1>0, <1>13, BoundAssumption DEF compact_fails, Fail, TypeOK
  <2> QED BY <1>0, <1>13, <2>1 DEF compact_fails, disk, TypedStore, TypeOK, PC
<1>14. CASE kill
  BY <1>0, <1>14 DEF kill, Exit, disk, TypedStore, TypeOK, PC
<1>15. CASE power_loss
  <2>1. PICK d \in SurvivingDisks : /\ ckpt' = d[1] /\ ckpt_stable' = d[1]
                                    /\ wal' = d[2] /\ wal_stable' = d[2]
    BY <1>15 DEF power_loss
  <2>2. d[1] \in Map /\ d[2] \in Seq(Chunk)
    BY <1>0, <2>1, SurvivingType
  <2> QED BY <1>0, <1>15, <2>1, <2>2 DEF power_loss, Exit, TypedStore, TypeOK, PC
<1>16. CASE writeback
  BY <1>0, <1>16 DEF writeback, TypedStore, TypeOK, PC
<1> QED BY <1>1, <1>2, <1>3, <1>4, <1>5, <1>6, <1>7, <1>8, <1>9, <1>10, <1>11,
           <1>12, <1>13, <1>14, <1>15, <1>16 DEF Next

(* Every variable keeps its type, through kills, I/O errors and any loss of  *)
(* power: wal_bytes above all is a u64 that no sequence of commits, failed   *)
(* writes, compactions and restarts underflows.                              *)
THEOREM TypeCorrect == Spec => []TypeOK
<1>1. Init => TypedStore
  BY InitIndInv DEF Init, IndInv, TypedStore
<1>2. TypedStore => TypeOK
  BY DEF TypedStore
<1> QED BY <1>1, <1>2, NextTyped, PTL DEF Spec

(* In every state that the store can reach, what open makes of its files is  *)
(* what the loops of replay_wal and apply_ops compute.                       *)
THEOREM ReplayIsTheLoopHolds == Spec => []ReplayIsTheLoop
<1>1. TypeOK => ReplayIsTheLoop
  BY LoopIsLastWrite DEF TypeOK, ReplayIsTheLoop, Recover
<1> QED BY <1>1, TypeCorrect, PTL
=============================================================================
