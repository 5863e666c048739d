------------------------- MODULE DurableStoreProofs -------------------------
(***************************************************************************)
(* What reopening the store finds is what its callers were promised, even   *)
(* when the power fails at any step of commit and compact: wherever the     *)
(* disk keeps the order of renames and truncations (MetadataOrdered) and    *)
(* compact is called by commit alone (~ExplicitCompact). Both are needed:   *)
(* TLC finds a lost commit without either.                                  *)
(*                                                                         *)
(* And WalStorage implements DurableStore: each of its steps, a kill, an    *)
(* error or a loss of power between two system calls too, is one step of    *)
(* the promise or none, in every behaviour in which no record is appended   *)
(* behind a fragment of the log; so in every behaviour if writes are not    *)
(* cut short.                                                               *)
(***************************************************************************)
EXTENDS WalStorageProofs

-----------------------------------------------------------------------------
(* The beginnings of a log *)

(* Log p is the first n chunks of log w. *)
Begins(p, w, n) ==
    /\ p \in Seq(Chunk)
    /\ Len(p) = n
    /\ \A i \in 1..n : p[i] = w[i]

(* What SubSeq takes of a log. *)
LEMMA SubSeqBegins ==
    ASSUME NEW w \in Seq(Chunk), NEW n \in 0..Len(w)
    PROVE  Begins(SubSeq(w, 1, n), w, n)
<1>1. n \in Int /\ 1 \in Int /\ Len(w) \in Nat
  OBVIOUS
<1>2. \A i \in 1..n : w[i] \in Chunk
  OBVIOUS
<1> DEFINE p == SubSeq(w, 1, n)
<1>3. /\ p \in Seq(Chunk)
      /\ Len(p) = IF 1 <= n THEN n - 1 + 1 ELSE 0
      /\ \A i \in 1..(n - 1 + 1) : p[i] = w[1 + i - 1]
  BY <1>1, <1>2, SubSeqProperties
<1> HIDE DEF p
<1>4. Len(p) = n /\ \A i \in 1..n : p[i] = w[i]
  BY <1>1, <1>3
<1> QED BY <1>3, <1>4 DEF Begins, p

(* There is one such log. *)
LEMMA BeginsUnique ==
    ASSUME NEW w, NEW n \in Nat, NEW p, NEW q, Begins(p, w, n), Begins(q, w, n)
    PROVE  p = q
<1>1. /\ p \in Seq(Chunk) /\ q \in Seq(Chunk) /\ Len(p) = Len(q)
      /\ \A i \in 1..Len(p) : p[i] = q[i]
  BY DEF Begins
<1> QED BY <1>1, SeqEqual

(* An append leaves the beginnings of a log as they were. *)
LEMMA SubSeqAppended ==
    ASSUME NEW w \in Seq(Chunk), NEW a, NEW b, NEW bytes,
           Lengthened(a, w, b, bytes), NEW n \in 0..Len(w)
    PROVE  SubSeq(a, 1, n) = SubSeq(w, 1, n)
<1>1. a \in Seq(Chunk) /\ n \in 0..Len(a) /\ n \in Nat /\ \A i \in 1..n : a[i] = w[i]
  BY DEF Lengthened
<1>2. Begins(SubSeq(a, 1, n), a, n) /\ Begins(SubSeq(w, 1, n), w, n)
  BY <1>1, SubSeqBegins
<1>3. Begins(SubSeq(a, 1, n), w, n)
  BY <1>1, <1>2 DEF Begins
<1> QED BY <1>1, <1>2, <1>3, BeginsUnique

(* Nor does it change what of the log was synced. *)
LEMMA AppendedStillBegins ==
    ASSUME NEW w \in Seq(Chunk), NEW a, NEW b, NEW bytes, Lengthened(a, w, b, bytes),
           NEW s, \E n \in 0..Len(w) : s = SubSeq(w, 1, n)
    PROVE  \E n \in 0..Len(a) : s = SubSeq(a, 1, n)
<1>1. PICK n \in 0..Len(w) : s = SubSeq(w, 1, n)
  OBVIOUS
<1>2. s = SubSeq(a, 1, n)
  BY <1>1, SubSeqAppended
<1>3. n \in 0..Len(a)
  BY DEF Lengthened
<1> QED BY <1>2, <1>3

(* A log reaches at least the records that a beginning of it reaches. *)
LEMMA BeginsReached ==
    ASSUME NEW w \in Seq(Chunk), NEW n \in Nat, NEW l \in 0..n,
           NEW p, NEW q, Begins(p, w, n), Begins(q, w, l)
    PROVE  /\ Healthy(p) => Healthy(q)
           /\ \A k \in Keys : Touching(q, k) \subseteq Touching(p, k)
<1>1. /\ p \in Seq(Chunk) /\ Len(p) = n /\ q \in Seq(Chunk) /\ Len(q) = l /\ l <= n /\ l \in Nat
      /\ \A i \in 1..l : q[i] = p[i]
      /\ DOMAIN p = 1..n /\ DOMAIN q = 1..l
  BY DEF Begins
<1>2. Healthy(p) => Healthy(q)
  BY <1>1 DEF Healthy
<1>3. Reached(q) \subseteq Reached(p)
  BY <1>1 DEF Reached
<1>4. Reached(q) \subseteq 1..l
  BY <1>1 DEF Reached
<1>5. \A k \in Keys : Touching(q, k) \subseteq Touching(p, k)
  BY <1>1, <1>3, <1>4 DEF Touching
<1> QED BY <1>2, <1>5

(* The beginning of a log whose chunks fit their records. *)
LEMMA BeginsSized ==
    ASSUME NEW w, NEW n \in Nat, n <= Len(w), Len(w) \in Nat, NEW p, Begins(p, w, n), Sized(w)
    PROVE  Sized(p)
<1>1. Len(p) = n /\ \A i \in 1..n : p[i] = w[i] /\ i \in 1..Len(w)
  BY DEF Begins
<1> QED BY <1>1 DEF Sized

(* A log that a loss of power leaves says what a beginning of the log says:  *)
(* some bytes of the next record add nothing.                                *)
LEMMA KeptBegins ==
    ASSUME NEW w \in Seq(Chunk), Sized(w), NEW n \in 0..Len(w), NEW v \in Kept(w, n)
    PROVE  /\ v \in Seq(Chunk) /\ Sized(v)
           /\ Healthy(v) => Healthy(SubSeq(w, 1, n))
           /\ \A m \in Map : replay_wal(m, v) = replay_wal(m, SubSeq(w, 1, n))
<1> DEFINE p == SubSeq(w, 1, n)
<1>1. Begins(p, w, n)
  BY SubSeqBegins
<1>2. p \in Seq(Chunk) /\ Len(p) = n /\ n \in Nat /\ n <= Len(w) /\ Len(w) \in Nat
  BY <1>1 DEF Begins
<1>3. Sized(p)
  BY <1>1, <1>2, BeginsSized
<1>4. CASE v = p
  BY <1>2, <1>3, <1>4
<1>5. CASE v # p
  <2>1. PICK c \in Cuts : n # Len(w) /\ c < w[n + 1].len
                          /\ v = Append(p, [w[n + 1] EXCEPT !.len = c])
    BY <1>5 DEF Kept
  <2> DEFINE x == [w[n + 1] EXCEPT !.len = c]
             b == w[n + 1].ops
  <2>2. n + 1 \in 1..Len(w) /\ c \in Nat
    BY <1>2, <2>1, FaultAssumption
  <2>3. /\ b \in Batches /\ w[n + 1] \in Chunk /\ w[n + 1].len \in Nat
        /\ w[n + 1].len <= RecordLen(b) /\ RecordLen(b) \in Nat
    BY <2>2, ChunkType, RecordLenType DEF Sized
  <2>4. c < RecordLen(b)
    BY <2>1, <2>2, <2>3
  <2>5. x \in Chunk /\ x.ops = b /\ x.len = c
    BY <2>2, <2>3 DEF Chunk
  <2> HIDE DEF x, p, b
  <2>6. /\ v \in Seq(Chunk) /\ Len(v) = n + 1
        /\ \A i \in 1..n : v[i] = p[i]
        /\ v[n + 1] = x
    BY <1>2, <2>1, <2>5 DEF x
  <2>7. Lengthened(v, p, b, c)
    BY <1>2, <2>5, <2>6 DEF Lengthened
  <2>8. \A m \in Map : replay_wal(m, v) = replay_wal(m, p)
    BY <1>2, <2>2, <2>3, <2>4, <2>7, FragmentIgnored
  <2>9. Sized(v)
    BY <1>2, <1>3, <2>2, <2>3, <2>4, <2>5, <2>6 DEF Sized
  <2>10. Healthy(v) => Healthy(p)
    BY <1>2, <2>6 DEF Healthy
  <2> QED BY <2>6, <2>8, <2>9, <2>10 DEF p
<1> QED BY <1>4, <1>5

-----------------------------------------------------------------------------
(* What the steps do to the surviving logs *)

(* A store that was never opened has nothing to lose. *)
LEMMA InitPowerInv == Init => PowerInv
<1> SUFFICES ASSUME Init PROVE PowerInv
  OBVIOUS
<1>1. /\ wal = <<>> /\ wal_stable = <<>> /\ Len(wal) = 0 /\ ~shrinking /\ pc = "closed"
      /\ ckpt = ckpt_stable /\ wal \in Seq(Chunk)
  BY DEF Init
<1>2. wal_stable = SubSeq(wal, 1, 0)
  BY <1>1, SubSeqEmpty
<1>3. 0 \in 0..Len(wal)
  BY <1>1
<1> QED BY <1>1, <1>2, <1>3
        DEF PowerInv, StableLog, Sized, PrefixesOnDisk, SyncedLen, OldLogOnDisk,
            OldCheckpointCovered

(* Whoever leaves the files alone and takes nothing back from the promise    *)
(* takes nothing from what may survive.                                      *)
LEMMA QuietStep ==
    ASSUME PowerInv, UNCHANGED disk, settled \subseteq settled',
           pc' \notin {"checkpoint", "truncate", "fsync"},
           pc = "fsync" => Done(settled) \subseteq settled'
    PROVE  PowerInv'
<1>1. /\ ckpt' = ckpt /\ wal' = wal /\ ckpt_stable' = ckpt_stable
      /\ wal_stable' = wal_stable /\ shrinking' = shrinking
  BY DEF disk
<1>2. StableLog'
  BY <1>1 DEF PowerInv, StableLog
<1>3. PrefixesOnDisk'
  BY <1>1 DEF PowerInv, PrefixesOnDisk, SyncedLen
<1>4. OldLogOnDisk'
  BY <1>1 DEF PowerInv, OldLogOnDisk
<1>5. OldCheckpointCovered'
  BY <1>1 DEF PowerInv, OldCheckpointCovered
<1> QED BY <1>2, <1>3, <1>4, <1>5 DEF PowerInv

(* Once all of the log and the checkpoint are on disk, nothing else may      *)
(* survive.                                                                  *)
LEMMA SyncedStep ==
    ASSUME wal' \in Seq(Chunk), Sized(wal'), wal_stable' = wal',
           ckpt_stable' = ckpt', ~shrinking'
    PROVE  PowerInv'
<1>1. Len(wal') \in Nat /\ Len(wal') \in 0..Len(wal')
  OBVIOUS
<1>2. wal_stable' = SubSeq(wal', 1, Len(wal'))
  BY SubSeqFull
<1>3. StableLog'
  BY <1>1, <1>2 DEF StableLog
<1>4. PrefixesOnDisk'
  BY <1>1 DEF PrefixesOnDisk, SyncedLen
<1> QED BY <1>3, <1>4 DEF PowerInv, OldLogOnDisk, OldCheckpointCovered

(* sync_data, or fsync, of the log. *)
LEMMA SyncWalStep ==
    ASSUME MetadataOrdered, IndInv, PowerInv, SyncWal
    PROVE  PowerInv'
BY SyncedStep DEF IndInv, TypeOK, PowerInv, StableLog, SyncWal

(* Appending to the log adds one beginning of it that may survive, the log   *)
(* as it was; and that held a promised map.                                  *)
LEMMA AppendStep ==
    ASSUME IndInv, PowerInv, pc = "idle", pc' \in {"closed", "idle", "sync"},
           NEW b \in Batches, NEW bytes \in Nat, bytes <= RecordLen(b),
           wal' = Appended(wal, b, bytes),
           UNCHANGED <<ckpt, ckpt_stable, wal_stable, shrinking, settled>>
    PROVE  PowerInv'
<1>1. /\ wal \in Seq(Chunk) /\ wal_stable \in Seq(Chunk) /\ Len(wal) \in Nat
      /\ Len(wal_stable) \in Nat /\ batch = NoBatch
  BY DEF IndInv, TypeOK, Progress
<1>2. Lengthened(wal', wal, b, bytes)
  BY <1>1, AppendedType
<1>3. /\ wal' \in Seq(Chunk) /\ Len(wal') = Len(wal) + 1
      /\ \A i \in 1..Len(wal) : wal'[i] = wal[i]
      /\ wal'[Len(wal) + 1].ops = b /\ wal'[Len(wal) + 1].len = bytes
  BY <1>2 DEF Lengthened
<1>4. Sized(wal) /\ Sized(wal_stable)
  BY DEF PowerInv, StableLog
<1>5. Sized(wal')
  <2> SUFFICES ASSUME NEW i \in 1..Len(wal')
               PROVE  wal'[i].len <= RecordLen(wal'[i].ops)
    BY DEF Sized
  <2>1. CASE i \in 1..Len(wal)
    BY <1>3, <1>4, <2>1 DEF Sized
  <2>2. CASE i = Len(wal) + 1
    BY <1>3, <2>2
  <2> QED BY <1>1, <1>3, <2>1, <2>2
<1>6. ~shrinking => \E n \in 0..Len(wal') : wal_stable = SubSeq(wal', 1, n)
  BY <1>1, <1>2, AppendedStillBegins DEF PowerInv, StableLog
<1>7. StableLog'
  BY <1>4, <1>5, <1>6 DEF StableLog
<1>8. PrefixesOnDisk'
  <2> SUFFICES ASSUME NEW n \in SyncedLen..Len(wal), Healthy(SubSeq(wal', 1, n))
               PROVE  replay_wal(ckpt, SubSeq(wal', 1, n)) \in settled
    BY <1>1, <1>3 DEF PrefixesOnDisk, SyncedLen
  <2>1. SyncedLen \in Nat
    BY <1>1 DEF SyncedLen
  <2>2. n \in 0..Len(wal)
    BY <1>1, <2>1
  <2>3. SubSeq(wal', 1, n) = SubSeq(wal, 1, n)
    BY <1>1, <1>2, <2>2, SubSeqAppended
  <2>4. CASE n = Len(wal)
    <3>1. SubSeq(wal, 1, n) = wal
      BY <1>1, <2>4, SubSeqFull
    <3>2. Recover \in settled
      BY <1>1, <2>3, <3>1 DEF IndInv, OnDisk, Done
    <3> QED BY <2>3, <3>1, <3>2 DEF Recover
  <2>5. CASE n # Len(wal)
    <3>1. n \in SyncedLen..(Len(wal) - 1)
      BY <1>1, <2>1, <2>5
    <3> QED BY <2>3, <3>1 DEF PowerInv, PrefixesOnDisk
  <2> QED BY <2>4, <2>5
<1>9. OldLogOnDisk' /\ OldCheckpointCovered'
  BY DEF PowerInv, OldLogOnDisk, OldCheckpointCovered
<1> QED BY <1>7, <1>8, <1>9 DEF PowerInv

(* compact renames the new checkpoint: it and the old one differ only where  *)
(* the log, all of which is synced, has the last word.                       *)
LEMMA CheckpointStep ==
    ASSUME IndInv, PowerInv, compact_checkpoint
    PROVE  PowerInv'
<1>1. /\ pc = "checkpoint" /\ pc' = "truncate" /\ ckpt' = map /\ wal' = wal /\ settled' = settled
      /\ ckpt_stable' = ckpt_stable /\ wal_stable' = wal_stable /\ shrinking' = shrinking
      /\ ~shrinking /\ wal_stable = wal /\ Len(wal) \in Nat
  BY DEF compact_checkpoint, PowerInv, StableLog, IndInv, TypeOK
<1>2. StableLog'
  BY <1>1 DEF PowerInv, StableLog
<1>3. PrefixesOnDisk'
  BY <1>1 DEF PrefixesOnDisk, SyncedLen
<1>4. OldLogOnDisk'
  BY <1>1 DEF OldLogOnDisk
<1>5. OldCheckpointCovered'
  BY <1>1 DEF IndInv, LogCovers, PowerInv, OldCheckpointCovered
<1> QED BY <1>2, <1>3, <1>4, <1>5 DEF PowerInv

(* compact truncates the log: until the fsync the old one may come back,     *)
(* beside either checkpoint.                                                 *)
LEMMA TruncateStep ==
    ASSUME IndInv, PowerInv, compact_truncate
    PROVE  PowerInv'
<1>1. /\ pc = "truncate" /\ pc' = "fsync" /\ ckpt' = ckpt /\ wal' = <<>> /\ Len(wal') = 0
      /\ ckpt_stable' = ckpt_stable /\ wal_stable' = wal_stable /\ shrinking'
      /\ ~shrinking /\ wal_stable = wal /\ wal \in Seq(Chunk) /\ ckpt \in Map
      /\ ckpt_stable \in Map /\ settled' = settled /\ batch' = batch
  BY DEF compact_truncate, PowerInv, StableLog, IndInv, TypeOK
<1>2. StableLog'
  BY <1>1 DEF PowerInv, StableLog, Sized
<1>3. PrefixesOnDisk'
  BY <1>1 DEF PrefixesOnDisk, SyncedLen
<1>4. OldLogOnDisk'
  <2> SUFFICES ASSUME Healthy(wal)
               PROVE  /\ replay_wal(ckpt, wal) \in Done(settled)
                      /\ replay_wal(ckpt_stable, wal) \in Done(settled)
    BY <1>1 DEF OldLogOnDisk, Done
  <2>1. replay_wal(ckpt, wal) \in Done(settled)
    BY DEF IndInv, OnDisk, Recover
  <2>2. \A k \in Keys : Touching(wal, k) = {} => ckpt[k] = ckpt_stable[k]
    BY <1>1 DEF PowerInv, OldCheckpointCovered
  <2>3. replay_wal(ckpt_stable, wal) = replay_wal(ckpt, wal)
    BY <1>1, <2>2, ReplayAgree
  <2> QED BY <2>1, <2>3
<1>5. OldCheckpointCovered'
  BY <1>1 DEF OldCheckpointCovered
<1> QED BY <1>2, <1>3, <1>4, <1>5 DEF PowerInv

(* The kernel writes the new checkpoint back. *)
LEMMA WritebackStep ==
    ASSUME IndInv, PowerInv, writeback
    PROVE  IndInv' /\ PowerInv'
<1>1. /\ pc' = pc /\ map' = map /\ wal_bytes' = wal_bytes /\ batch' = batch /\ ckpt' = ckpt
      /\ wal' = wal /\ ckpt_stable' = ckpt /\ wal_stable' = wal_stable /\ settled' = settled
      /\ shrinking' = shrinking /\ commits' = commits /\ errors' = errors
  BY DEF writeback
<1>2. IndInv'
  BY <1>1 DEF IndInv, TypeOK, Progress, OnDisk, InMemory, LogCovers,
              MemoryIsOnDisk, Done, Recover
<1>3. StableLog' /\ PrefixesOnDisk'
  BY <1>1 DEF PowerInv, StableLog, PrefixesOnDisk, SyncedLen
<1>4. OldLogOnDisk'
  BY <1>1 DEF PowerInv, OldLogOnDisk, Done
<1>5. OldCheckpointCovered'
  BY <1>1 DEF OldCheckpointCovered
<1> QED BY <1>2, <1>3, <1>4, <1>5 DEF PowerInv

-----------------------------------------------------------------------------
(* The loss of power *)

(* A beginning of the log that may survive, beside the checkpoint in place.  *)
LEMMA BeginningOnDisk ==
    ASSUME IndInv, PowerInv, NEW n \in SyncedLen..Len(wal), n \in 0..Len(wal),
           Healthy(SubSeq(wal, 1, n))
    PROVE  replay_wal(ckpt, SubSeq(wal, 1, n)) \in Doubtful(settled)
<1>1. wal \in Seq(Chunk) /\ Len(wal) \in Nat
  BY DEF IndInv, TypeOK
<1>2. CASE n = Len(wal)
  <2>1. SubSeq(wal, 1, n) = wal
    BY <1>1, <1>2, SubSeqFull
  <2> QED BY <2>1 DEF IndInv, OnDisk, Recover, Doubtful
<1>3. CASE n # Len(wal)
  <2>1. SyncedLen \in Nat
    BY DEF SyncedLen, IndInv, TypeOK
  <2>2. n \in SyncedLen..(Len(wal) - 1)
    BY <1>1, <1>3, <2>1
  <2> QED BY <2>2 DEF PowerInv, PrefixesOnDisk, Doubtful
<1> QED BY <1>2, <1>3

(* The same beside the checkpoint that may come back: unless a truncation is *)
(* on its way, any log that survives has the records that make them agree.   *)
LEMMA OldCheckpointAgrees ==
    ASSUME IndInv, PowerInv, ~shrinking, NEW n \in Len(wal_stable)..Len(wal),
           n \in 0..Len(wal), Healthy(SubSeq(wal, 1, n))
    PROVE  replay_wal(ckpt_stable, SubSeq(wal, 1, n)) = replay_wal(ckpt, SubSeq(wal, 1, n))
<1>1. /\ wal \in Seq(Chunk) /\ wal_stable \in Seq(Chunk) /\ ckpt \in Map /\ ckpt_stable \in Map
  BY DEF IndInv, TypeOK
<1>2. PICK l \in 0..Len(wal) : wal_stable = SubSeq(wal, 1, l)
  BY DEF PowerInv, StableLog
<1>3. Begins(wal_stable, wal, l) /\ Begins(SubSeq(wal, 1, n), wal, n)
  BY <1>1, <1>2, SubSeqBegins
<1>4. l = Len(wal_stable) /\ SubSeq(wal, 1, n) \in Seq(Chunk)
  BY <1>3 DEF Begins
<1>5. l \in 0..n /\ n \in Nat
  BY <1>2, <1>4
<1> DEFINE p == SubSeq(wal, 1, n)
<1> HIDE DEF p
<1>6. Begins(p, wal, n) /\ Begins(wal_stable, wal, l) /\ Healthy(p)
  BY <1>3 DEF p
<1>7. Healthy(wal_stable) /\ \A k \in Keys : Touching(wal_stable, k) \subseteq Touching(p, k)
  BY <1>1, <1>5, <1>6, BeginsReached
<1>8. \A k \in Keys : Touching(p, k) = {} => ckpt_stable[k] = ckpt[k]
  BY <1>7 DEF PowerInv, OldCheckpointCovered
<1>9. replay_wal(ckpt_stable, p) = replay_wal(ckpt, p)
  BY <1>1, <1>4, <1>8, ReplayAgree DEF p
<1> QED BY <1>9 DEF p

(* A log that survives is one that Kept describes. *)
LEMMA SurvivingWalsType ==
    ASSUME IndInv, NEW w \in SurvivingWals
    PROVE  \E n \in SyncedLen..Len(wal) : n \in 0..Len(wal) /\ w \in Kept(wal, n)
<1>1. Len(wal) \in Nat /\ Len(wal_stable) \in Nat
  BY DEF IndInv, TypeOK
<1>2. CASE shrinking
  BY <1>1, <1>2 DEF SurvivingWals, SyncedLen
<1>3. CASE ~shrinking
  BY <1>1, <1>3 DEF SurvivingWals, SyncedLen
<1> QED BY <1>2, <1>3

(* Every pair of files that a loss of power may leave, if its log is healthy,*)
(* replays to a promised map.                                                *)
LEMMA SurvivorsPromised ==
    ASSUME MetadataOrdered, IndInv, PowerInv, NEW d \in SurvivingDisks
    PROVE  /\ d[1] \in Map /\ d[2] \in Seq(Chunk) /\ Sized(d[2])
           /\ Healthy(d[2]) => replay_wal(d[1], d[2]) \in Doubtful(settled)
<1>1. /\ wal \in Seq(Chunk) /\ wal_stable \in Seq(Chunk) /\ ckpt \in Map /\ ckpt_stable \in Map
      /\ Sized(wal) /\ Sized(wal_stable)
  BY DEF IndInv, TypeOK, PowerInv, StableLog
<1>2. \/ shrinking /\ d[1] \in {ckpt, ckpt_stable} /\ d[2] = wal_stable
      \/ ~shrinking /\ d[1] \in {ckpt, ckpt_stable} /\ d[2] \in SurvivingWals
      \/ d[1] = ckpt /\ d[2] \in SurvivingWals
  BY DEF SurvivingDisks
<1>3. CASE shrinking /\ d[1] \in {ckpt, ckpt_stable} /\ d[2] = wal_stable
  BY <1>1, <1>3 DEF PowerInv, OldLogOnDisk, Doubtful
<1>4. CASE d[2] \in SurvivingWals /\ (d[1] = ckpt \/ (~shrinking /\ d[1] = ckpt_stable))
  <2>1. PICK n \in SyncedLen..Len(wal) : n \in 0..Len(wal) /\ d[2] \in Kept(wal, n)
    BY <1>4, SurvivingWalsType
  <2> DEFINE p == SubSeq(wal, 1, n)
  <2>2. /\ d[2] \in Seq(Chunk) /\ Sized(d[2]) /\ (Healthy(d[2]) => Healthy(p))
        /\ \A m \in Map : replay_wal(m, d[2]) = replay_wal(m, p)
    BY <1>1, <2>1, KeptBegins
  <2>3. Healthy(p) => replay_wal(ckpt, p) \in Doubtful(settled)
    BY <2>1, BeginningOnDisk
  <2>4. (~shrinking /\ Healthy(p)) => replay_wal(ckpt_stable, p) = replay_wal(ckpt, p)
    BY <2>1, OldCheckpointAgrees DEF SyncedLen
  <2> HIDE DEF p
  <2> QED BY <1>1, <1>4, <2>2, <2>3, <2>4
<1> QED BY <1>2, <1>3, <1>4

(* After the loss of power the files are one such pair, and all there is. *)
LEMMA PowerLossStep ==
    ASSUME MetadataOrdered, IndInv, PowerInv, power_loss
    PROVE  IndInv' /\ PowerInv'
<1>1. PICK d \in SurvivingDisks : /\ ckpt' = d[1] /\ ckpt_stable' = d[1]
                                  /\ wal' = d[2] /\ wal_stable' = d[2]
  BY DEF power_loss
<1>2. /\ ckpt' \in Map /\ wal' \in Seq(Chunk) /\ Sized(wal') /\ ckpt_stable' = ckpt'
      /\ wal_stable' = wal' /\ shrinking' = FALSE /\ pc' = "closed" /\ batch' = NoBatch
      /\ settled' = Doubtful(settled) /\ map' = EmptyMap /\ wal_bytes' = 0
      /\ commits' = commits /\ errors' = errors
      /\ Healthy(wal') => Recover' \in settled'
  BY <1>1, SurvivorsPromised DEF power_loss, Exit, Recover
<1>3. TypeOK'
  BY <1>2, PromiseType, EmptyMapType DEF IndInv, TypeOK, PC
<1>4. Done(settled)' = settled'
  BY <1>2 DEF Done
<1>5. IndInv'
  BY <1>2, <1>3, <1>4 DEF IndInv, Progress, OnDisk, InMemory, LogCovers, MemoryIsOnDisk
<1> QED BY <1>2, <1>5, SyncedStep

-----------------------------------------------------------------------------
(* Every step, the loss of power among them, preserves both invariants. *)
LEMMA NextPowerInv ==
    ASSUME MetadataOrdered, ~ExplicitCompact
    PROVE  IndInv /\ PowerInv /\ [Next]_vars => IndInv' /\ PowerInv'
<1> SUFFICES ASSUME IndInv, PowerInv, [Next]_vars PROVE IndInv' /\ PowerInv'
  OBVIOUS
<1>0. settled \subseteq Doubtful(settled) /\ Done(settled) \subseteq Doubtful(settled)
  BY DEF Doubtful
<1>1. CASE UNCHANGED vars
  <2>1. IndInv'
    BY <1>1 DEF vars, disk, IndInv, TypeOK, Progress, OnDisk, InMemory, LogCovers,
                MemoryIsOnDisk, Done, Recover
  <2>2. PowerInv'
    BY <1>1 DEF vars, disk, PowerInv, StableLog, PrefixesOnDisk, SyncedLen, OldLogOnDisk,
                OldCheckpointCovered, Done
  <2> QED BY <2>1, <2>2
<1>2. CASE open
  BY <1>2, OpenStep, QuietStep DEF open
<1>3. CASE open_corrupt
  BY <1>1, <1>3 DEF open_corrupt
<1>4. ASSUME NEW b \in Batches, commit_write(b) PROVE IndInv' /\ PowerInv'
  <2>1. RecordLen(b) \in Nat /\ RecordLen(b) <= RecordLen(b)
    BY RecordLenType
  <2>2. PowerInv'
    BY <1>4, <2>1, AppendStep DEF commit_write, Issue
  <2> QED BY <1>4, <2>2, CommitWriteStep
<1>5. ASSUME NEW b \in Batches, NEW bytes \in Cuts, commit_write_killed(b, bytes)
      PROVE  IndInv' /\ PowerInv'
  <2>1. bytes \in Nat /\ bytes <= RecordLen(b)
    BY <1>5, RecordLenType, FaultAssumption DEF commit_write_killed
  <2>2. PowerInv'
    BY <1>5, <2>1, AppendStep DEF commit_write_killed, Issue, Exit
  <2> QED BY <1>5, <2>2, CommitWriteKilledStep
<1>6. ASSUME NEW b \in Batches, NEW bytes \in Cuts \cup {0}, commit_write_fails(b, bytes)
      PROVE  IndInv' /\ PowerInv'
  <2>1. bytes \in Nat /\ bytes <= RecordLen(b)
    BY <1>6, RecordLenType, FaultAssumption DEF commit_write_fails
  <2>2. CASE wal' = Appended(wal, b, bytes)
    BY <1>6, <2>1, <2>2, AppendStep, CommitWriteFailsStep DEF commit_write_fails, Issue
  <2>3. CASE wal' = wal
    BY <1>6, <2>3, QuietStep, CommitWriteFailsStep DEF commit_write_fails, Issue, disk
  <2> QED BY <1>6, <2>2, <2>3 DEF commit_write_fails
<1>7. CASE commit_sync
  BY <1>7, CommitSyncStep, SyncWalStep DEF commit_sync
<1>8. CASE commit_sync_fails
  BY <1>0, <1>8, CommitSyncFailsStep, QuietStep DEF commit_sync_fails
<1>9. CASE compact_request
  BY <1>9 DEF compact_request
<1>10. CASE compact_checkpoint
  BY <1>10, CompactCheckpointStep, CheckpointStep
<1>11. CASE compact_truncate
  BY <1>11, CompactTruncateStep, TruncateStep
<1>12. CASE compact_fsync
  BY <1>12, CompactFsyncStep, SyncWalStep DEF compact_fsync
<1>13. CASE compact_fails
  BY <1>0, <1>13, CompactFailsStep, QuietStep DEF compact_fails
<1>14. CASE kill
  BY <1>0, <1>14, KillStep, QuietStep DEF kill, Exit
<1>15. CASE power_loss
  BY <1>15, PowerLossStep
<1>16. CASE writeback
  BY <1>16, WritebackStep
<1> QED BY <1>1, <1>2, <1>3, <1>4, <1>5, <1>6, <1>7, <1>8, <1>9, <1>10, <1>11,
           <1>12, <1>13, <1>14, <1>15, <1>16 DEF Next

(* Whatever the disk may have kept of wal.log and checkpoint.bin, at every   *)
(* step of commit and compact, is one of the promised maps.                  *)
THEOREM PowerInvHolds ==
    ASSUME MetadataOrdered, ~ExplicitCompact
    PROVE  Spec => [](IndInv /\ PowerInv)
BY InitIndInv, InitPowerInv, NextPowerInv, PTL DEF Spec

(* Reopening after kills and losses of power finds each acknowledged batch,  *)
(* and every other batch wholly or not at all, unless a record stands behind *)
(* a fragment of the log.                                                    *)
THEOREM RecoverableAfterPowerLoss ==
    ASSUME MetadataOrdered, ~ExplicitCompact
    PROVE  Spec => []Recoverable
<1>1. IndInv => Recoverable
  BY DEF IndInv, OnDisk, Recoverable, Doubtful
<1> QED BY <1>1, PowerInvHolds, PTL

-----------------------------------------------------------------------------
(* The promise *)

(* No loss of power, or one the promise survives. *)
PowerIsSafe == ~PowerLoss \/ (MetadataOrdered /\ ~ExplicitCompact)

(* A closed store has nothing in memory. *)
Forgets == pc = "closed" => map = EmptyMap

(* The inductive invariant of the store holds under either assumption. *)
LEMMA StoreInv ==
    ASSUME PowerIsSafe
    PROVE  Spec => []IndInv
<1>1. CASE ~PowerLoss
  BY <1>1, IndInvHolds
<1>2. CASE MetadataOrdered /\ ~ExplicitCompact
  <2>1. Spec => [](IndInv /\ PowerInv)
    BY <1>2, PowerInvHolds
  <2> QED BY <2>1, PTL
<1> QED BY <1>1, <1>2 DEF PowerIsSafe

(* Whoever ends the process clears its map. *)
LEMMA ForgetsHolds == Spec => []Forgets
<1>1. Init => Forgets
  BY DEF Init, Forgets
<1>2. Forgets /\ [Next]_vars => Forgets'
  BY DEF Forgets, Next, vars, open, open_corrupt, commit_write, commit_write_killed,
         commit_write_fails, commit_sync, commit_sync_fails, compact_request,
         compact_checkpoint, compact_truncate, compact_fsync, compact_fails, kill,
         power_loss, writeback, Issue, Exit
<1> QED BY <1>1, <1>2, PTL DEF Spec

(* What the promise allows after the batch in hand. *)
LEMMA AfterIsDone == Promise!After(settled) = Done(settled)
BY DEF Promise!After, Done

(* The files of a store that was never opened hold the empty map. *)
LEMMA InitRefines == Init => Promise!Init
BY EmptyMapType DEF Init, Promise!Init

(* A step of which the promise sees nothing. *)
LEMMA SilentStep ==
    ASSUME (pc' # "closed") = (pc # "closed"), map' = map, batch' = batch, settled' = settled
    PROVE  UNCHANGED Promise!vars
BY DEF Promise!vars

(* How an operation that returns an error, and a process that ends, keep the *)
(* promise: the batch in hand is in or out.                                  *)
LEMMA GiveUpStep ==
    ASSUME pc # "closed", batch' = NoBatch, settled' = Doubtful(settled),
           \/ pc' # "closed" /\ map' = map
           \/ pc' = "closed" /\ map' \in Map
    PROVE  Promise!GiveUp
BY AfterIsDone DEF Promise!GiveUp, Doubtful

(* Each step of the store is a step of the promise, or none. *)
LEMMA NextRefines ==
    ASSUME IndInv, Forgets, Healthy(wal), [Next]_vars
    PROVE  [Promise!Next]_(Promise!vars)
<1>0. /\ (batch = NoBatch => Done(settled) = settled /\ Doubtful(settled) = settled)
      /\ (pc \in {"closed", "idle"} => batch = NoBatch)
      /\ EmptyMap \in Map
  BY EmptyMapType DEF Done, Doubtful, IndInv, Progress
<1>1. CASE UNCHANGED vars
  BY <1>1, SilentStep DEF vars
<1>2. CASE open
  <2>1. pc = "closed" /\ pc' = "idle" /\ map' = Recover /\ settled' = settled /\ batch' = batch
    BY <1>2 DEF open
  <2>2. Recover \in settled
    BY <1>0, <2>1 DEF IndInv, OnDisk
  <2>3. Promise!Restart
    BY <2>1, <2>2 DEF Promise!Restart
  <2> QED BY <2>3 DEF Promise!Next
<1>3. CASE open_corrupt
  BY <1>1, <1>3 DEF open_corrupt
<1>4. ASSUME NEW b \in Batches, commit_write(b) PROVE Promise!Next
  <2>1. /\ pc = "idle" /\ pc' = "sync" /\ batch = NoBatch /\ batch' = b
        /\ map' = map /\ settled' = settled
    BY <1>0, <1>4 DEF commit_write, Issue
  <2>2. Promise!Begin(b)
    BY <2>1 DEF Promise!Begin
  <2> QED BY <2>2 DEF Promise!Next
<1>5. ASSUME NEW b \in Batches, NEW bytes \in Cuts, commit_write_killed(b, bytes)
      PROVE  Promise!Next
  <2>1. /\ pc = "idle" /\ pc' = "closed" /\ batch' = NoBatch /\ map' = EmptyMap
        /\ settled' = Doubtful(settled)
    BY <1>0, <1>5 DEF commit_write_killed, Issue, Exit
  <2>2. Promise!GiveUp
    BY <1>0, <2>1, GiveUpStep
  <2> QED BY <2>2 DEF Promise!Next
<1>6. ASSUME NEW b \in Batches, NEW bytes \in Cuts \cup {0}, commit_write_fails(b, bytes)
      PROVE  UNCHANGED Promise!vars
  BY <1>6, SilentStep DEF commit_write_fails
<1>7. CASE commit_sync
  <2>1. /\ pc = "sync" /\ pc' # "closed" /\ batch # NoBatch /\ map' = apply_ops(map, batch)
        /\ \/ batch' = batch /\ settled' = settled
           \/ batch' = NoBatch /\ settled' = Done(settled)
    BY <1>7 DEF commit_sync, IndInv, Progress
  <2>2. CASE batch' = batch /\ settled' = settled
    <3>1. Promise!Install
      BY <2>1, <2>2 DEF Promise!Install
    <3> QED BY <3>1 DEF Promise!Next
  <2>3. CASE batch' = NoBatch /\ settled' = Done(settled)
    <3>1. Promise!Acknowledge
      BY <2>1, <2>3, AfterIsDone DEF Promise!Acknowledge
    <3> QED BY <3>1 DEF Promise!Next
  <2> QED BY <2>1, <2>2, <2>3
<1>8. CASE commit_sync_fails \/ compact_fails \/ kill
  <2>1. /\ pc # "closed" /\ batch' = NoBatch /\ settled' = Doubtful(settled)
        /\ \/ pc' # "closed" /\ map' = map
           \/ pc' = "closed" /\ map' \in Map
    BY <1>0, <1>8 DEF commit_sync_fails, compact_fails, kill, Exit
  <2>2. Promise!GiveUp
    BY <2>1, GiveUpStep
  <2> QED BY <2>2 DEF Promise!Next
<1>9. CASE compact_request \/ compact_checkpoint \/ compact_truncate \/ writeback
  <2>1. /\ (pc' # "closed") = (pc # "closed") /\ map' = map
        /\ batch' = batch /\ settled' = settled
    BY <1>9 DEF compact_request, compact_checkpoint, compact_truncate, writeback
  <2> QED BY <2>1, SilentStep
<1>10. CASE compact_fsync
  <2>1. /\ pc = "fsync" /\ pc' = "idle" /\ batch' = NoBatch /\ settled' = {map} /\ map' = map
    BY <1>10 DEF compact_fsync
  <2>2. map \in Promise!After(settled)
    BY <2>1, AfterIsDone DEF IndInv, InMemory
  <2>3. Promise!Settle
    BY <2>1, <2>2 DEF Promise!Settle
  <2> QED BY <2>3 DEF Promise!Next
<1>11. CASE power_loss
  <2>1. pc' = "closed" /\ map' = EmptyMap /\ batch' = NoBatch /\ settled' = Doubtful(settled)
    BY <1>11 DEF power_loss, Exit
  <2>2. CASE pc = "closed"
    BY <1>0, <2>1, <2>2, SilentStep DEF Forgets
  <2>3. CASE pc # "closed"
    <3>1. Promise!GiveUp
      BY <1>0, <2>1, <2>3, GiveUpStep
    <3> QED BY <3>1 DEF Promise!Next
  <2> QED BY <2>2, <2>3
<1> QED BY <1>1, <1>2, <1>3, <1>4, <1>5, <1>6, <1>7, <1>8, <1>9, <1>10, <1>11 DEF Next

(* As long as every record of wal.log stands behind whole ones, the store    *)
(* implements its promise, however often it is killed, loses power or fails. *)
THEOREM StoreImplementsPromise ==
    ASSUME PowerIsSafe
    PROVE  Spec /\ []Healthy(wal) => ImplementsDurableStore
<1>1. Spec => []IndInv
  BY StoreInv
<1>2. IndInv /\ Forgets /\ Healthy(wal) /\ [Next]_vars => [Promise!Next]_(Promise!vars)
  BY NextRefines
<1> QED BY <1>1, <1>2, ForgetsHolds, InitRefines, PTL DEF Spec, ImplementsDurableStore, Promise!Spec

-----------------------------------------------------------------------------
(* Writes that are not cut short *)

(* Every record of the log, and of the log that was synced, is whole. *)
WholeLogs ==
    /\ \A i \in 1..Len(wal) : Complete(wal[i])
    /\ \A i \in 1..Len(wal_stable) : Complete(wal_stable[i])

(* A loss of power then leaves whole records, too. *)
LEMMA SurvivingWhole ==
    ASSUME Cuts = {}, IndInv, WholeLogs, NEW d \in SurvivingDisks
    PROVE  \A i \in 1..Len(d[2]) : Complete(d[2][i])
<1>1. d[2] = wal_stable \/ d[2] \in SurvivingWals
  BY DEF SurvivingDisks
<1>2. CASE d[2] = wal_stable
  BY <1>2 DEF WholeLogs
<1>3. CASE d[2] \in SurvivingWals
  <2>1. PICK n \in 0..Len(wal) : d[2] \in Kept(wal, n)
    BY <1>3, SurvivingWalsType
  <2>2. d[2] = SubSeq(wal, 1, n)
    BY <2>1 DEF Kept
  <2>3. wal \in Seq(Chunk) /\ Len(wal) \in Nat
    BY DEF IndInv, TypeOK
  <2>4. Begins(d[2], wal, n)
    BY <2>2, <2>3, SubSeqBegins
  <2>5. Len(d[2]) = n /\ \A i \in 1..n : d[2][i] = wal[i] /\ i \in 1..Len(wal)
    BY <2>3, <2>4 DEF Begins
  <2> QED BY <2>5 DEF WholeLogs
<1> QED BY <1>1, <1>2, <1>3

(* Only a write that is cut short leaves a fragment. *)
LEMMA NextWhole ==
    ASSUME Cuts = {}, IndInv, WholeLogs, [Next]_vars
    PROVE  WholeLogs'
<1>1. CASE UNCHANGED <<wal, wal_stable>>
  BY <1>1 DEF WholeLogs
<1>2. ASSUME NEW b \in Batches, commit_write(b) PROVE WholeLogs'
  <2>1. wal \in Seq(Chunk) /\ RecordLen(b) \in Nat
    BY RecordLenType DEF IndInv, TypeOK
  <2>2. Lengthened(wal', wal, b, RecordLen(b)) /\ wal_stable' = wal_stable
    BY <1>2, <2>1, AppendedType DEF commit_write
  <2>3. /\ Len(wal) \in Nat /\ Len(wal') = Len(wal) + 1 /\ \A i \in 1..Len(wal) : wal'[i] = wal[i]
        /\ Complete(wal'[Len(wal) + 1])
    BY <2>2 DEF Lengthened, Complete
  <2> QED BY <2>2, <2>3 DEF WholeLogs
<1>3. CASE commit_sync \/ compact_fsync
  BY <1>3 DEF commit_sync, compact_fsync, SyncWal, WholeLogs
<1>4. CASE compact_truncate
  BY <1>4 DEF compact_truncate, WholeLogs
<1>5. CASE power_loss
  <2>1. PICK d \in SurvivingDisks : wal' = d[2] /\ wal_stable' = d[2]
    BY <1>5 DEF power_loss
  <2> QED BY <2>1, SurvivingWhole DEF WholeLogs
<1> QED BY <1>1, <1>2, <1>3, <1>4, <1>5
        DEF Next, vars, disk, open, open_corrupt, commit_write_killed, commit_write_fails,
            commit_sync_fails, compact_request, compact_checkpoint, compact_fails, kill,
            writeback

(* If no write is cut short, the store implements its promise. *)
THEOREM WholeWritesImplementPromise ==
    ASSUME PowerIsSafe, Cuts = {}
    PROVE  Spec => ImplementsDurableStore
<1>1. Init => WholeLogs
  BY DEF Init, WholeLogs
<1>2. IndInv /\ WholeLogs /\ [Next]_vars => WholeLogs'
  BY NextWhole
<1>3. IndInv /\ WholeLogs => Healthy(wal)
  BY DEF IndInv, TypeOK, WholeLogs, Healthy
<1>4. Spec => [](IndInv /\ WholeLogs)
  BY <1>1, <1>2, StoreInv, PTL DEF Spec
<1>5. Spec => []Healthy(wal)
  BY <1>3, <1>4, PTL
<1> QED BY <1>5, StoreImplementsPromise, PTL
=============================================================================
