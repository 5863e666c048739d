----------------------------- MODULE WalStorage -----------------------------
(***************************************************************************)
(* The durable store of crates/alefs-storage/src/wal.rs: an in-memory map,  *)
(* wal.log, checkpoint.bin and compaction, with the crashes and the I/O     *)
(* errors that can stand between any two of its system calls.               *)
(*                                                                         *)
(* The files are seen twice: as the running system sees them (ckpt, wal,    *)
(* what the page cache holds, and what a process that is killed leaves to   *)
(* the next one) and as far as they are certain to survive a loss of power  *)
(* (ckpt_stable, wal_stable).                                               *)
(***************************************************************************)
EXTENDS WalLog

CONSTANTS
    NoBatch,                 \* "no commit is in progress"
    auto_compact_threshold,  \* bytes of log that start a compaction, 0: never
    ExplicitCompact,         \* are there compact requests beside commits?
    Cuts,                    \* bytes that an interrupted write may leave
    PowerLoss,               \* may the machine lose power?
    MetadataOrdered,         \* do renames and truncations reach disk in order?
    MaxCommits,              \* bound: commits in a behaviour
    MaxErrors                \* bound: I/O errors in a behaviour

ASSUME NoBatchAssumption == NoBatch \notin Batches
ASSUME ThresholdAssumption == auto_compact_threshold \in Nat
ASSUME FaultAssumption ==
    /\ Cuts \subseteq Nat \ {0}
    /\ {ExplicitCompact, PowerLoss, MetadataOrdered} \subseteq BOOLEAN
ASSUME BoundAssumption == MaxCommits \in Nat /\ MaxErrors \in Nat

VARIABLES
    pc,          \* where the process is, below
    map,         \* WalStorage.map
    wal_bytes,   \* WalStorage.wal_bytes
    batch,       \* the batch being committed, or NoBatch
    ckpt,        \* checkpoint.bin (no file: the empty map, as open takes it)
    wal,         \* wal.log
    ckpt_stable, \* the checkpoint.bin that a loss of power may bring back
    wal_stable,  \* the wal.log that is known to be on disk
    shrinking,   \* wal.log was truncated and that may not be on disk yet
    settled,     \* history: the maps that callers may find after a restart
    commits,     \* history: commits so far
    errors       \* history: I/O errors so far

disk == <<ckpt, wal, ckpt_stable, wal_stable, shrinking>>
vars == <<pc, map, wal_bytes, batch, disk, settled, commits, errors>>

(* "closed": no process; "idle": open, between operations; then the system   *)
(* call that comes next: "sync" in commit, the others in compact.            *)
PC == {"closed", "idle", "sync", "checkpoint", "truncate", "fsync"}

TypeOK ==
    /\ pc \in PC
    /\ map \in Map
    /\ wal_bytes \in Nat
    /\ batch \in Batches \cup {NoBatch}
    /\ ckpt \in Map /\ ckpt_stable \in Map
    /\ wal \in Seq(Chunk) /\ wal_stable \in Seq(Chunk)
    /\ shrinking \in BOOLEAN
    /\ settled \subseteq Map
    /\ commits \in 0..MaxCommits
    /\ errors \in 0..MaxErrors

Init ==
    /\ pc = "closed"
    /\ map = EmptyMap /\ wal_bytes = 0 /\ batch = NoBatch
    /\ ckpt = EmptyMap /\ ckpt_stable = EmptyMap
    /\ wal = <<>> /\ wal_stable = <<>> /\ shrinking = FALSE
    /\ settled = {EmptyMap}
    /\ commits = 0 /\ errors = 0

-----------------------------------------------------------------------------
(* The promise. A commit that returned Ok is in every map of settled; one    *)
(* that returned an error, or that a crash cut off, is wholly in or wholly   *)
(* out.                                                                      *)

Done(ms) == IF batch = NoBatch THEN ms ELSE {apply_ops(m, batch) : m \in ms}
Doubtful(ms) == ms \cup Done(ms)

Recover == replay_wal(ckpt, wal)

(* How a process ends: what it held in memory is gone. *)
Exit ==
    /\ pc' = "closed"
    /\ map' = EmptyMap /\ wal_bytes' = 0 /\ batch' = NoBatch

-----------------------------------------------------------------------------
(* open: load the checkpoint, replay the whole log over it (the offset that  *)
(* write_checkpoint stores is always 0), open the log for appending. Nothing *)
(* is truncated, and nothing is synced. If the log has records behind a      *)
(* fragment they are gone, and the promise is extended to what is left.    *)

open ==
    /\ pc = "closed"
    /\ ~ReplayFails(wal)
    /\ pc' = "idle"
    /\ map' = Recover
    /\ wal_bytes' = FileLen(wal)
    /\ settled' = IF Healthy(wal) THEN settled ELSE settled \cup {map'}
    /\ UNCHANGED <<batch, disk, commits, errors>>

(* open returns StorageError::Corrupt. *)
open_corrupt ==
    /\ pc = "closed"
    /\ ReplayFails(wal)
    /\ UNCHANGED vars

-----------------------------------------------------------------------------
(* commit *)

Issue ==
    /\ pc = "idle"
    /\ commits < MaxCommits
    /\ commits' = commits + 1

Fail ==
    /\ errors < MaxErrors
    /\ errors' = errors + 1

commit_write(b) ==
    /\ Issue
    /\ wal' = Appended(wal, b, RecordLen(b))
    /\ batch' = b
    /\ pc' = "sync"
    /\ UNCHANGED <<map, wal_bytes, ckpt, ckpt_stable, wal_stable, shrinking, settled, errors>>

(* The process is killed inside write_all. *)
commit_write_killed(b, bytes) ==
    /\ Issue
    /\ bytes < RecordLen(b)
    /\ wal' = Appended(wal, b, bytes)
    /\ Exit
    /\ UNCHANGED <<ckpt, ckpt_stable, wal_stable, shrinking, settled, errors>>

(* write_all fails, for want of space say, after some bytes: commit returns  *)
(* the error and the process goes on.                                        *)
commit_write_fails(b, bytes) ==
    /\ Issue
    /\ Fail
    /\ bytes < RecordLen(b)
    /\ wal' = IF bytes = 0 THEN wal ELSE Appended(wal, b, bytes)
    /\ UNCHANGED <<pc, map, wal_bytes, batch, ckpt, ckpt_stable, wal_stable,
                   shrinking, settled>>

(* A commit that does not wait for the disk. *)
SyncNothing == UNCHANGED disk

(* What fdatasync or fsync of wal.log puts on disk; where metadata is        *)
(* ordered, with the renames that came before.                               *)
SyncWal ==
    /\ wal_stable' = wal
    /\ shrinking' = FALSE
    /\ ckpt_stable' = IF MetadataOrdered THEN ckpt ELSE ckpt_stable
    /\ UNCHANGED <<ckpt, wal>>

(* sync_data, the count, apply_ops, and the answer unless the log is long    *)
(* enough to be compacted first.                                             *)
commit_sync ==
    LET bytes == wal_bytes + RecordLen(batch)
        full  == auto_compact_threshold > 0 /\ bytes >= auto_compact_threshold
    IN  /\ pc = "sync"
        /\ SyncWal
        /\ wal_bytes' = bytes
        /\ map' = apply_ops(map, batch)
        /\ pc' = IF full THEN "checkpoint" ELSE "idle"
        /\ batch' = IF full THEN batch ELSE NoBatch
        /\ settled' = IF full THEN settled ELSE Done(settled)
        /\ UNCHANGED <<commits, errors>>

(* sync_data fails: the error is returned before the map changes, and the    *)
(* record stays in the file.                                                 *)
commit_sync_fails ==
    /\ pc = "sync"
    /\ Fail
    /\ pc' = "idle"
    /\ batch' = NoBatch
    /\ settled' = Doubtful(settled)
    /\ UNCHANGED <<map, wal_bytes, disk, commits>>

-----------------------------------------------------------------------------
(* compact, called by commit (batch is the batch) or by a client (NoBatch). *)

compact_request ==
    /\ pc = "idle"
    /\ ExplicitCompact
    /\ pc' = "checkpoint"
    /\ UNCHANGED <<map, wal_bytes, batch, disk, settled, commits, errors>>

(* A compaction that empties the log first. *)
compact_checkpoint_late ==
    /\ pc = "checkpoint"
    /\ wal' = <<>>
    /\ pc' = "truncate"
    /\ UNCHANGED <<map, wal_bytes, batch, ckpt, ckpt_stable, wal_stable, shrinking,
                   settled, commits, errors>>

(* write_checkpoint to the temporary file, which nobody reads, and rename. *)
compact_checkpoint ==
    /\ pc = "checkpoint"
    /\ ckpt' = map
    /\ pc' = "truncate"
    /\ UNCHANGED <<map, wal_bytes, batch, wal, ckpt_stable, wal_stable, shrinking,
                   settled, commits, errors>>

(* A truncation that counts the bytes it frees, of which some were never     *)
(* counted.                                                                  *)
compact_truncate_subtracting ==
    /\ pc = "truncate"
    /\ wal' = <<>>
    /\ wal_bytes' = wal_bytes - FileLen(wal)
    /\ shrinking' = TRUE
    /\ pc' = "fsync"
    /\ UNCHANGED <<map, batch, ckpt, ckpt_stable, wal_stable, settled, commits, errors>>

(* set_len(0) *)
compact_truncate ==
    /\ pc = "truncate"
    /\ wal' = <<>>
    /\ wal_bytes' = 0
    /\ shrinking' = TRUE
    /\ pc' = "fsync"
    /\ UNCHANGED <<map, batch, ckpt, ckpt_stable, wal_stable, settled, commits, errors>>

(* The fsyncs, and Ok from compact and from the commit that called it. *)
compact_fsync ==
    /\ pc = "fsync"
    /\ SyncWal
    /\ pc' = "idle"
    /\ batch' = NoBatch
    /\ settled' = {map}
    /\ UNCHANGED <<map, wal_bytes, commits, errors>>

(* Any of compact's calls fails: compact returns the error, and so does the  *)
(* commit that called it, whose batch is synced and applied.                 *)
compact_fails ==
    /\ pc \in {"checkpoint", "truncate", "fsync"}
    /\ Fail
    /\ pc' = "idle"
    /\ batch' = NoBatch
    /\ settled' = Doubtful(settled)
    /\ UNCHANGED <<map, wal_bytes, disk, commits>>

-----------------------------------------------------------------------------
(* The process is killed, or ends, between two system calls. *)
kill ==
    /\ pc # "closed"
    /\ Exit
    /\ settled' = Doubtful(settled)
    /\ UNCHANGED <<disk, commits, errors>>

(* The first n chunks of w, and perhaps some bytes of the next one. *)
Kept(w, n) ==
    {SubSeq(w, 1, n)} \cup
    IF n = Len(w) THEN {}
    ELSE {Append(SubSeq(w, 1, n), [w[n + 1] EXCEPT !.len = c]) :
              c \in {c \in Cuts : c < w[n + 1].len}}

(* The log a loss of power may leave: at least what was synced, unless the   *)
(* file has been truncated since: then either the old log or, if the         *)
(* truncation made it to the disk, any beginning of the new one.             *)
SurvivingWals ==
    IF shrinking
    THEN UNION {Kept(wal, n) : n \in 0..Len(wal)}
    ELSE UNION {Kept(wal, n) : n \in Len(wal_stable)..Len(wal)}

(* The pairs of files a loss of power may leave. *)
SurvivingDisks ==
    ({ckpt, ckpt_stable} \X (IF shrinking THEN {wal_stable} ELSE SurvivingWals))
      \cup ((IF MetadataOrdered THEN {ckpt} ELSE {ckpt, ckpt_stable}) \X SurvivingWals)

power_loss ==
    /\ PowerLoss
    /\ Exit
    /\ settled' = Doubtful(settled)
    /\ \E d \in SurvivingDisks :
          /\ ckpt' = d[1] /\ ckpt_stable' = d[1]
          /\ wal' = d[2] /\ wal_stable' = d[2]
    /\ shrinking' = FALSE
    /\ UNCHANGED <<commits, errors>>

(* The kernel writes the directory back in its own time. *)
writeback ==
    /\ PowerLoss
    /\ ckpt_stable # ckpt
    /\ ckpt_stable' = ckpt
    /\ UNCHANGED <<pc, map, wal_bytes, batch, ckpt, wal, wal_stable, shrinking,
                   settled, commits, errors>>

-----------------------------------------------------------------------------
Next ==
    \/ open
    \/ open_corrupt
    \/ \E b \in Batches : commit_write(b)
    \/ \E b \in Batches, bytes \in Cuts : commit_write_killed(b, bytes)
    \/ \E b \in Batches, bytes \in Cuts \cup {0} : commit_write_fails(b, bytes)
    \/ commit_sync
    \/ commit_sync_fails
    \/ compact_request
    \/ compact_checkpoint
    \/ compact_truncate
    \/ compact_fsync
    \/ compact_fails
    \/ kill
    \/ power_loss
    \/ writeback

Spec == Init /\ [][Next]_vars

-----------------------------------------------------------------------------
(* Whatever the moment at which the process is killed or the power fails,    *)
(* reopening finds every batch whose commit returned Ok, and each other      *)
(* batch wholly or not at all, as long as nothing was appended behind a      *)
(* fragment: open replaying wal.log over checkpoint.bin, with commit and     *)
(* compact interrupted anywhere.                                             *)
Recoverable == Healthy(wal) => Recover \in Doubtful(settled)

(* While no system call fails, the files and WalStorage.map tell the same    *)
(* story at every step of commit and compact, so that readers never see what *)
(* a restart would take back.                                                *)
MemoryIsOnDisk ==
    (errors = 0 /\ pc # "closed" /\ Healthy(wal)) =>
        Recover = IF pc = "sync" THEN apply_ops(map, batch) ELSE map

(* Recovery as the last-write-wins function is recovery as replay_wal's loop *)
(* computes it, on every log that the store can leave behind.                *)
ReplayIsTheLoop == Recover = ReplayLoop(ckpt, wal)

(* The same as Recoverable, for a log in whatever state: "Kill after commit  *)
(* -> data present on reopen".                                               *)
KillAfterCommitKeepsData == Recover \in Doubtful(settled)

(* "All ops share one WAL commit; failure applies nothing": between          *)
(* operations the files hold what readers see and nothing else, commits that *)
(* returned an error included.                                               *)
FailureAppliesNothing == (pc = "idle" /\ Healthy(wal)) => Recover = map

-----------------------------------------------------------------------------
(* Why it holds. Everything the process has in hand is one of the maps that  *)
(* the promise allows (InMemory, OnDisk), and the checkpoint differs from    *)
(* the map at most where the log has the last word (LogCovers): that is why  *)
(* renaming a new checkpoint under an old log is harmless.                   *)

Progress ==
    /\ pc \in {"closed", "idle"} => batch = NoBatch
    /\ pc = "sync" =>
          /\ batch # NoBatch /\ wal # <<>>
          /\ wal[Len(wal)].ops = batch /\ Complete(wal[Len(wal)])
    /\ pc \in {"truncate", "fsync"} => ckpt = map
    /\ pc = "fsync" => wal = <<>>

OnDisk == Healthy(wal) => Recover \in Done(settled)

InMemory ==
    /\ pc = "sync" => map \in settled
    /\ pc \notin {"closed", "sync"} => map \in Done(settled)

LogCovers ==
    (pc # "closed" /\ Healthy(wal)) =>
        \A k \in Keys : Touching(wal, k) = {} => map[k] = ckpt[k]

(* The inductive invariant, for a machine that does not lose power: at every *)
(* step of commit and compact the files replay to a promised map.            *)
IndInv == TypeOK /\ Progress /\ OnDisk /\ InMemory /\ LogCovers /\ MemoryIsOnDisk

-----------------------------------------------------------------------------
(* Why it holds when power is lost, too, where metadata is ordered and only  *)
(* commits compact. What counts are the logs that may survive: prefixes of   *)
(* wal.log no shorter than what was synced, and the old log while a          *)
(* truncation is on its way; each beside both checkpoints.                   *)

SyncedLen == IF shrinking THEN 0 ELSE Len(wal_stable)

(* No chunk is longer than its record. *)
Sized(w) == \A i \in 1..Len(w) : w[i].len <= RecordLen(w[i].ops)

(* While the log is not being truncated, what was synced begins it; and it   *)
(* is synced, all of it, while compact runs, which commit calls after        *)
(* sync_data.                                                                *)
StableLog ==
    /\ Sized(wal) /\ Sized(wal_stable)
    /\ ~shrinking => \E n \in 0..Len(wal) : wal_stable = SubSeq(wal, 1, n)
    /\ pc \in {"checkpoint", "truncate"} => ~shrinking /\ wal_stable = wal

(* Any shorter log that may survive holds a map that was promised before the *)
(* commit in progress.                                                       *)
PrefixesOnDisk ==
    \A n \in SyncedLen..(Len(wal) - 1) :
        Healthy(SubSeq(wal, 1, n)) => replay_wal(ckpt, SubSeq(wal, 1, n)) \in settled

(* So does the log that a truncation has not yet taken from the disk. *)
OldLogOnDisk ==
    (shrinking /\ Healthy(wal_stable)) =>
        \A c \in {ckpt, ckpt_stable} :
            replay_wal(c, wal_stable) \in IF pc = "fsync" THEN Done(settled) ELSE settled

(* A checkpoint that a loss of power may bring back differs from the new one *)
(* at most where the synced log has the last word.                           *)
OldCheckpointCovered ==
    (~shrinking /\ Healthy(wal_stable)) =>
        \A k \in Keys : Touching(wal_stable, k) = {} => ckpt[k] = ckpt_stable[k]

(* What the disk may have kept of the files, whenever power is lost, is one  *)
(* of the promised maps: open after power_loss at any step of commit and     *)
(* compact.                                                                  *)
PowerInv == StableLog /\ PrefixesOnDisk /\ OldLogOnDisk /\ OldCheckpointCovered

-----------------------------------------------------------------------------
(* WalStorage implements the promise of the Storage trait as long as no      *)
(* write is cut short (Cuts = {}).                                           *)
Promise == INSTANCE DurableStore WITH
    State <- Map, Batch <- Batches, None <- NoBatch, Apply <- apply_ops,
    up <- pc # "closed", mem <- map, pending <- batch, durable <- settled

(* Every open, commit and compact, with the kills, the losses of power and   *)
(* the errors between their system calls, is a step of DurableStore or none. *)
ImplementsDurableStore == Promise!Spec
=============================================================================
