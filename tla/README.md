# alefsdb in TLA+

A verification development of alefsdb, a single-node typed structure database: TLA+
modules of its core, TLC configurations that check them on small instances, and TLAPS
proofs of the properties that matter most. Paths below are relative to the repository;
crates are under `crates/`.

## 1. The system

```
CLI, bench --(Unix socket)--> Daemon --(Mutex<Database>)--> Namespace + type index --> WAL
FUSE ---------------------------------^                      txn overlay ---^
CLI --direct / no socket ------------- open_db, no lock ----^
```

| Component | State | Operations | Interacts by | What makes it correct |
| --- | --- | --- | --- | --- |
| WAL storage (`alefs-storage/src/wal.rs`, `batch.rs`) | `map`, `wal_bytes`; `wal.log`, `checkpoint.bin` | `open`, `commit`, `compact`, `get`, `scan_prefix` | called by the namespace; system calls | acknowledged batches survive crashes, other batches are whole or absent, readers see what a restart would find |
| Memory storage (`memory.rs`) | a map | `commit`, `get`, `scan_prefix` | same trait | atomic batches |
| Namespace (`alefs-namespace/src/db.rs`, `keys.rs`) | nodes, child links, `next_id`, type index, index version, all as keys of the store | `open`, `mkdir`, `set`, `delete`, `hash_set`, `list_push`, `set_add`, `tree_set`, `rebuild_type_index`; `get`, `list`, `walk_values`; JSON import and export | one batch per mutation | the node graph is a tree, ids are never shared, the index equals a walk |
| Transactions (`txn.rs`) | `Overlay.pending` | `apply_txn` | reads the store through the overlay, commits once | all or nothing, later operations see earlier ones |
| Lock (`alefs-server/src/lock.rs`) | inode at `$DATA/LOCK`, flock | `acquire`, `drop` | kernel | one daemon per data directory |
| Daemon (`alefs-server/src/handle.rs`) | database behind a mutex, shutdown flag, statistics, threads | `open_daemon`, `serve_daemon`, `handle_connection`, `dispatch` | socket, mutex, signals | answered writes stay, reads are fresh, calls return, shutdown ends |
| Client, protocol (`client.rs`, `protocol.rs`) | a stream | `connect`, `call` | socket | one answer per request |
| CLI (`alefsdb/src/main.rs`) | none | `serve`, one subcommand per request | socket, or the store itself | never a second writer |
| Types, codec, paths (`alefs-types`) | none | `encode`, `decode`, `parse` | pure | round trip, canonical sets |
| AlefQL (`alefs-query`) | none | `parse_query`, `execute` | reads the namespace | same hits from index and walk |
| FUSE (`alefs-fuse/src/lib.rs`) | inode tables, dirty buffers | `lookup`, `read`, `write`, `flush`, `fsync`, `create`, `unlink`, ... | kernel; the daemon's mutex | a synced write is committed or reported |
| Benchmark (`alefs-bench`) | none | | socket | |

What is hard here: a process killed, or power lost, between any two of the system calls
of `commit` and `compact`; writes cut short; errors after which the process goes on; the
three commits of `Database::open`; operations of one transaction that depend on one
another; an import, which commits once per node, stopped half way; processes racing for
the lock, a handler thread that outlives it, and a CLI that never takes it; files written
through the mount while RPC clients delete or retype what they show, and handlers that
each work out on their own what a name means; and, in the pure parts, sets whose vectors
differ and mean the same, values that JSON cannot carry, the grouping of AND, OR and NOT,
and globs with several stars. `PROJECT.json` lists each of these hazards at its line, with the
properties aimed at it.

## 2. Modules

| Module | Models |
| --- | --- |
| `WalLog` | batches, records and their lengths, `replay_wal` with its three ways of ending, as pure operators; the loops of the code beside them |
| `WalStorage` | the store: memory, two files as the page cache has them and as the disk has them, `open`, `commit`, `compact`, faults; its invariants and the mapping to `DurableStore` |
| `DurableStore` | the promise of the `Storage` trait, without files |
| `MCWal` | instance of the store |
| `WalStorageProofs` | proofs about batches, logs and loops, and about the store without loss of power |
| `DurableStoreProofs` | proofs about loss of power, and that the store implements its promise |
| `MaxProofs` | the greatest and the least of some numbers, which the other proofs use |
| `Namespace` | nodes, links, ids, type index, transactions, opening; the mapping from store to tree |
| `NamespaceTree` | what clients see: a tree of paths |
| `MCNamespace`, `NamespaceProofs` | instance and proofs |
| `Daemon` | processes, lock file, socket, handler threads, clients, direct calls |
| `MCDaemon`, `DaemonProofs` | instance and proofs |
| `Values` | typed values, and scalars as text and back |
| `FuseFs` | the mounted file system over the tree of `NamespaceTree` |
| `MCFuse`, `FuseFsProofs` | instance and proofs |
| `Codec` | the encoding of values, to the byte, and its decoding |
| `Json` | export, the JSON parser, and the steps of an import |
| `Glob` | the recursive search of a glob, and what it is meant to find |
| `AlefQL` | tokenizer, parser and evaluation of queries |
| `Import` | an import as the database sees it: steps that commit one by one, kills, retries |
| `Requests`, `MCRequests` | jobs that go through all of these; instance |
| `GlobProofs`, `ImportProofs` | proofs about globs and imports |

### WalStorage and the code

`map`, `wal_bytes` are the fields of the struct; `ckpt` and `wal` are the files. A log is
a sequence of chunks, one for each record whose writing began; a chunk shorter than its
record is a fragment. `commit` is two steps, `commit_write` (`write_all`) and
`commit_sync` (`sync_data`, the count, `apply_ops`, the decision to compact); `compact`
is `compact_checkpoint` (`write_checkpoint` and `rename`), `compact_truncate` (`set_len`)
and `compact_fsync`. Each can fail, each can be the last before a kill, and a write can
stop at a byte of `Cuts`. `replay_wal` is the function "the last record that writes a key
decides it" over the records before the first fragment; `ReplayFails` is the case in which
`open` returns `Corrupt`. `settled` is a history variable: the maps a caller may expect
after a restart, given the answers so far.

What is abstracted: bytes are lengths; a CRC never collides; lengths do not wrap at
2^32; `checkpoint.bin.tmp` is not a variable, since nobody reads it; the checkpoint is
never half-written because it is synced before it is renamed.

Power (`PowerLoss`): `wal_stable` and `ckpt_stable` are what is surely on disk. A synced
log survives at least up to the sync; a truncation or a rename that no sync followed may
or may not have happened. `MetadataOrdered` says that syncing a file also makes durable
the renames that came before, as journalling file systems do.

### Namespace and the code

`store` is the key-value map under structured keys; a batch is a function on the keys it
writes. Every operation is an operator that, given what it reads, answers with success and
a batch, or with an error. `db.rs` and `txn.rs` spell out the same operations twice, once
over the store and once over the overlay; the model has them once, and `OverlayView` is
what a transaction reads. All of them write one of three batches: `NewNode` (a fresh id,
its record, link and index entry), `Replace` (another value in a node) or `Unlink`. `open`, `open_rebuild` and `open_stamp` are the commits of
`Database::open`. `walk` is where the child entries lead for each path, `resolve` that and
the node there; `Tree` is the set of paths that resolve. The store is taken to be atomic
and durable, which is what `WalStorage` is proved to be as long as no write is cut short.

### Daemon and the code

`acquire_open` and `acquire_flock`/`acquire_fails` are `DataLock::acquire`; `drop_unlock`
and `drop_remove` are `Drop`; `open_db`, `bind`, `leave_loop` are the steps of
`open_daemon` and `serve_daemon`; the fields of `Daemon` are dropped after the listener,
which is why handler threads are alive in `unlock`, `remove` and `exit`. `accept`,
`handle`, `reply` are a connection's thread; a request under the mutex is one step.
Clients connect to whoever listens at the socket, keep the connection or not, and, as
`Direct` allows, open the store themselves. A write is a number; `disk`, `seen` are sets
of writes; a compaction sets `disk` to what its process has seen. Clients wait for their
answers; requests are a write, a read and a compaction. Left out: statistics, framing,
sockets outside the data directory, clients that vanish half way.

### FuseFs and the code

The session calls the handlers of `lib.rs` one after the other, and each of them that
touches the database holds its mutex to the end: a handler is one step, and `Rpc`, what
other clients of the daemon do, comes between any two. `tree` is the namespace that the
daemon's clients see; what the database does to it is `Allowed` and `Effect` of
`NamespaceTree`, which `Namespace` is proved to implement. A commit may fail where
`WalStorage::commit` does (`Faults`, `Commit`): the record cannot be written, or not be
synced, which leaves the batch out of the map and in the log, or the compaction fails that
follows, with the batch in both. `reopened` has the namespaces that opening the store again
may find. It is empty where that is not known here: behind a fragment of a record, and for
commits that follow a record which the map has not. What becomes of these is for
`WalStorage`, and the two violated runs about it; `FuseFs` has no restart from there.
`ino_to_path`, `path_to_ino`, `next_ino` and `dirty` are the fields of `AlefsFs`. `files`
are the numbers that were answered as files, through which the kernel may write for as
long as the mount lasts, whatever has become of the entry; `written` is a history variable:
the writes since the last flush or fsync. `lookup`, `getattr`, `read`, `readdir`,
`getxattr` and `unlink` each project structured values on their own in the code, and have
each its own operator here. `flush` and `fsync` are `commit_dirty`, which takes the buffer
out first. `Remount` is the end of the daemon, by a kill or a signal, and the start of
another one, which opens the store: tables and buffers are lost, and the tree is one that
`reopened` has.

The tables of the code hold paths as strings; here a path is what the string is cut into at
its slashes, the empty pieces included. `child_path` puts a listed key behind a path, with
its own slashes if it has any; every handler then calls `DbPath::parse` (`parse`), which
drops slashes at the end and refuses empty segments, dots and NUL, and answers ENOENT or
EINVAL as the code does. Processes, by contrast, name single segments, or dots: the kernel
has cut their paths before it calls a handler (`ValueAssumption`).

Contents are sequences of characters, with one byte that is not UTF-8 and one NUL; numbers
are printed and parsed (`Values`). `MemberName` stands for the digest that names a member
of a set; `retain` is a recursive function here (`Retained`), which can be proved about.
Left out: times, owners and permissions, paging of `readdir` (one call lists all), the size
negotiation of `getxattr`, names that are not UTF-8, limits of 64 bits.

### Requests and the code

A job is what one client is about: putting values, exporting a namespace and importing it
into a new data directory, importing a document, or querying. Each holds the daemon's mutex
for one request, so that jobs do not interleave; what can come between the commits of an
import is a kill, after which the client runs the import again. `nodes` maps paths to node
records, which hold the encoding of the value, and readers decode it. An import is the
list of steps that `import_node` goes through, each one commit, an error being a step
(`Plan`); how it runs, is killed and is run again is `Import`, which knows nothing of
documents or encodings, so that it can be proved about for any list of steps.

`Codec` has tags, little-endian numbers at their width and length prefixes; texts are over
a small alphabet of one byte per character. Documents are sequences of tokens, with string
literals as they are written, escapes included. Queries are sequences of characters, where
a keyword counts as one letter. Floats are a format of halves with a sign bit and one
value that is not finite, ordered by their bits as the code orders them. The type index
that a query reads is what `IndexIsTheWalk` of the run `namespace` says it is. Left out:
the order of hits, the wording of errors, framing, and the values that requests carry in
their own JSON (`parse_value` in `handle.rs`).

## 3. Runs

| Run | Checks | Shows |
| --- | --- | --- |
| `wal_crash` | `TypeOK`, `Recoverable`, `MemoryIsOnDisk`, `ReplayIsTheLoop`, `IndInv` | kills and one I/O error at every step, fragments, automatic and explicit compaction |
| `wal_power` | `Recoverable`, `PowerInv`, `ImplementsDurableStore` | loss of power as well: all that the disk may have kept is promised; the store implements `DurableStore` |
| `wal_torn_tail` | `KillAfterCommitKeepsData` (violated) | commits behind a fragment are lost |
| `wal_failed_commit` | `FailureAppliesNothing` (violated) | a commit that failed in `sync_data` comes back |
| `namespace` | `TypeOK`, `PathsAndIdsCorrespond`, `IndexIsTheWalk`, `IndInv`, `ImplementsTree` | operations, transactions, kills while opening, old data directories |
| `daemon_kills` | `OneServer`, `AcknowledgedIsOnDisk`, `ReadsAreFresh`, `IndInv` | daemons that are killed and restarted |
| `daemon_live` | `EveryCallReturns`, `ShutdownEnds` | clean shutdowns, failed openings, direct calls |
| `daemon_lock_race` | `OneServer` (violated) | unlock, then unlink |
| `daemon_undrained` | `AcknowledgedIsOnDisk` (violated) | threads that outlive the lock |
| `daemon_direct` | `ReadsAreFresh` (violated) | a CLI call while a daemon starts |
| `fuse` | `TypeOK`, `InodesNameOnePath`, `NamespaceStaysWhole`, `DirtyIsWhatWasWritten`, `SyncCommitsTheWrites`, `HandlersAgree`, `UnlinkRemovesWhatLookupShows` | numbers stay with their paths; the tree stays one of directories with well-formed values; a sync commits what was written, as the type that is there then, with EIO all of it or nothing; handlers agree; unlink removes nothing but what lookup shows |
| `requests` | `TypeOK`, `EncodingIsCanonical`, `OnlyWholeEncodingsDecode`, `ImportRestoresExport`, `RetryFinishesImport`, `ImportInv`, `ParserIsGrammar`, `HitsAreTheWalk`, `GlobIsMatching` | one encoding per meaning; which exports come back; imports can be repeated; parser, index and globs against definitions without recursive descent, index or search |

**Bounds.** WAL: two keys, two values, four batches (two keys at once, an overwrite, a
deletion, one key written twice), three commits, one error; a threshold of 60 bytes is
reached by two or three records, so that a log with records before, at and after a
compaction occurs; the cuts 3, 6 and 12 are one for each way a fragment is read (inside
the magic, inside the length, inside the body). In `wal_power` writes are whole, for the
refinement; `Recoverable` also holds there with cuts. Namespace: two names at depth two,
five ids, lists of two: enough for a deletion and a new node at the same path, a
directory with content, type changes, and every failing guard; ten transactions chosen so
that operations depend on one another. Daemon: two processes and three starts, which is
what the lock race takes; two clients, four calls (a write, a compaction, a restart and a
read fit). The Daemon configurations switch deadlock checking off: when starts and calls
are used up and all processes are gone, nothing happens any more. Fuse: a name
and `..` at the root, a number below it; three inode numbers, so that the root, the entry
and a member of it or an entry below it have one; two
pending writes, of text and of bytes that are no text, at two offsets, so that they overlap,
or leave a gap; values of all types, structured ones with scalar and structured members and
with keys of every kind, among them `..`, one with a slash, and the same number as integer
and as string; a fault of any kind in any commit. Requests: some seventy
values, put two at a time; as many namespaces copied, some with keys that JSON cannot carry;
seventeen documents imported into four trees, with two kills (documents that name a path
twice, as directory and value, that fail half way, that have paths for keys); every query
of up to five pieces out of seven and chains of three terms with brackets; every predicate
with every comparison over a tree with all types; all globs of up to three characters or
segments over all names or paths of up to three. Jobs end, which is why this configuration,
too, does not check for deadlock. `Max...` constants are bounds of the models and not of
the code.

**Fairness.** Only `Daemon` has any: weak fairness of the main thread of each daemon
(its loop sleeps at most 50 ms and never waits for a client) and of accept, handling and
reply of each connection (a thread of its own; the mutex is held for one request). Nothing
is assumed of signals, kills, starts, or of clients: they may stay connected for ever.

**Disagreements.** The five violated properties state what the documentation says; the
findings in `PROJECT.json` quote it. Three more findings are of `fuse`, whose instance has
each of the cases and whose properties claim no more than the code does; each property
fails when its exception is taken out:

* a string key of a tree that reads as a number, say `"7"`, is listed, looked up and read,
  and cannot be unlinked: `project_unlink` tries the integer only. `docs/fuse-edit-paths.md:24`
  says "Unlink removes key" of trees. `UnlinkRemovesWhatLookupShows` claims of trees that
  nothing else is removed, and that with an error nothing is;
* a structured member of a structured value is shown as a directory, and listing it answers
  ENOENT, where the design (`docs/superpowers/specs/2026-07-09-alefsdb-design.md:172`) has
  "each child projected by its value type". `HandlersAgree` claims of entries only that
  what is shown as a directory can be listed;
* keys of a hash that are no segment of a path (`..`, the empty one, those with a slash) are
  listed and cannot be looked up. `HandlersAgree` leaves them out.

Two more things that TLC shows with other constants
are recorded as hazards: with `MetadataOrdered = FALSE` a compaction followed by loss of
power can lose the store's content (the directory is never synced), and with both
`PowerLoss` and `ExplicitCompact` a record that was written but not synced before a kill
is replayed, put in a checkpoint, and may be left half-applied beside a partial log.

Behaviour that the properties of `fuse` and `requests` had to be worded around, because it
is what the code does:

* `commit_dirty` takes the buffer out before it commits it: a flush or fsync after a failed
  one finds none and answers ok, though the write is gone
  (`docs/superpowers/specs/2026-07-09-alefsdb-design.md:228`: "`fsync` on a scalar maps to
  commit of that write");
* a value predicate compares strings for equality and order, where `:264` of the same
  document says "Strings: **glob only** in v1";
* a write at an offset starts from an empty buffer, not from the file's content: what was
  before it becomes zeros, what was behind it is lost;
* an unlinked file keeps its number and its pending writes, which the next file of that
  name inherits;
* `lookup` answers the committed size while `getattr` and `read` answer for the buffer;
* a flush or fsync that answers EIO may have committed the write, and it may come back at
  the next start if it has not: `SyncCommitsTheWrites` says that it is all of it or nothing;
* `lookup` also finds numbers in other spellings (`01`, `+1`), and tree keys that are neither
  strings nor integers are listed under a name that nothing finds; members of sets and
  trees are listed as files whatever they are;
* integral and non-finite floats, keys of trees that are a NaN other than the one that its
  text is read as, and string keys of trees that read as other scalars come
  back from an export as something else (`Survives` is the exact condition);
* `key >= a AND key < b` is true of a tree in which two different keys satisfy the halves;
* AND and OR have the same precedence and group to the left.

## 4. Proofs

Everything below is for all values of the constants: all keys, names, values, batches,
transactions and processes, and every bound.

Where a recursion over data has to be reasoned about, the induction is by the least
counterexample (`MinExists`): the library's induction theorems take an operator as a
parameter, which the provers here cannot instantiate, while "a set of numbers that is not
empty has a least one" is first-order. That a recursive function is well defined, which
TLA+ does not grant, goes the same way: a table of n rows exists for every n. This reaches
recursive functions over positions of a sequence (replay, transactions, imports, globs,
digits); it does not reach `RECURSIVE` operators, in which parser, codec and JSON are written.

### The store (`WalStorageProofs`)

When power is not lost (`~PowerLoss`): `RecoverableHolds` and `MemoryIsOnDiskHolds`,
from `IndInvHolds`. The two invariants are not inductive. After the rename
in `compact` the checkpoint is new and the log old, and that replaying one over the other
still gives the map needs `LogCovers`: map and checkpoint agree on every key that the log
does not write. That the truncation is harmless needs `Progress` (past the rename,
checkpoint and map are equal). That a failed or interrupted commit leaves a promised map
needs `OnDisk` and `InMemory`, which say which of the promised maps files and memory hold.
One lemma per action, one step per conjunct it touches. `ReplayIdempotent` and its lemmas
are about the log: replay over a map that the log already decided changes nothing; a
fragment changes nothing; an appended record is applied last.

`TypeCorrect` needs no assumption on power: what a disk may keep of a log is a log.
`LoopIsLastWrite` relates the model to the code: for every map and log, the loop of
`replay_wal` over records and of `apply_ops` over operations (`ReplayLoop`, `ApplyLoop`)
ends with the map that `replay_wal` has in closed form, "the last write to a key decides
it". By induction over the operations of a batch, then over the records before the first
fragment. `ReplayIsTheLoopHolds` is the invariant of the run `wal_crash` drawn from it.

### Loss of power (`DurableStoreProofs`)

`PowerInvHolds` and `RecoverableAfterPowerLoss`, when `MetadataOrdered` and
`~ExplicitCompact`. `IndInv` speaks of the files that the processes see; after a loss of
power it has to hold of any pair that the disk may have kept. `PowerInv` says of each that
it replays to a promised map: a shorter log, down to what was synced, to a map promised
before the commit in progress (`PrefixesOnDisk`); the log that a truncation has not yet
taken from the disk, beside both checkpoints (`OldLogOnDisk`); and an old checkpoint
differs from the new one only where the synced log has the last word
(`OldCheckpointCovered`), for which the log must be synced, all of it, whenever `compact`
runs (`StableLog`). That last part is where an explicit compaction breaks it: `open` may
have replayed records that were never synced. TLC finds a violation without either of the
two assumptions. Writes may be cut short at any byte and calls may fail.

### The promise (`DurableStoreProofs`)

`StoreImplementsPromise`: under either set of assumptions above (`PowerIsSafe`), a
behaviour of the store in which every record of the log stands behind whole ones
(`[]Healthy(wal)`) implements `DurableStore`; the initial states map to initial states and
each of the fifteen actions to a step or a stutter. `commit_write` is `Begin`; `commit_sync`
is `Acknowledge`, or `Install` if a compaction follows; `compact_fsync` is `Settle`; errors,
kills and losses of power are `GiveUp`; `open` is `Restart`, for which `Recover` must be one
of the promised maps: the invariants above. `WholeWritesImplementPromise` draws the
conclusion that needs no condition on behaviours: with `Cuts = {}` the log is always
healthy. The run `wal_torn_tail` shows that the condition cannot be dropped.

### The namespace (`NamespaceProofs`)

`TypeCorrect`, `TreeHolds` (`PathsAndIdsCorrespond`), `IndexHolds` (`IndexIsTheWalk`) and
`NamespaceImplementsTree` (`ImplementsTree`), from `IndInvHolds`. The invariant adds to the
tree of nodes (`Linked`) that every node is reached from the root (`Rooted`: without it, a
cycle beside the tree would satisfy `Linked`), and that a node's index entry, under its
type and no other, is the path that leads to it (`Indexed`); and it says which of this
holds in which phase of `open`, whatever was interrupted. The argument:

* `walk` is a recursive function over paths. That it is well defined, and that in a linked
  store two paths never lead to the same node, go by the least counterexample
  (`MinExists`), since the induction theorems of the library cannot be instantiated here.
* For each of the three batches: which entries of the store it changes, what that does to
  `walk`, that the store stays whole and indexed, and that the tree it stands for changes
  at that one path (`NewNode`, `Replace`, `Unlink`).
* For each operation an `...Outcome` lemma: it succeeds exactly if `NamespaceTree` allows
  it, then commits one of the batches, and leaves the tree that `NamespaceTree` says.
* A transaction is an induction over its turns: the store seen through the overlay stands
  for the stage of the tree, and the ids left suffice for the operations left (`Room`, the
  bound of the model, is what makes that so).
* `open`: `EnsureRoot` shows the same tree as before, `rebuild_type_index` makes the index
  right whatever it was, the stamp is written only then.

### The file system (`FuseFsProofs`)

`TypeCorrect`, `InodesHold`, `BuffersHoldTheWrites`, `NamespaceHolds` and `SyncHolds`, from
`MountInvHolds`: the inductive invariant is `FuseInv /\ NamespaceStaysWhole`. Neither half
stands alone: the tables hold paths that were listed from the tree, and are paths because
the values in it are well-formed, and what a sync puts into the tree is well-formed because
the buffers are. `FuseInv` is the conjunction of the other invariants, with
`DirtyIsWhatWasWritten` strengthened (`BuffersHold`): the writes have a last byte, where the
buffer ends. That no number at or
above `next_ino` is in use is part of `InodesNameOnePath`, and why a fresh number names no
other path. For the buffers, `Splice` is shown to turn the bytes that a sequence of writes leaves into
those that the longer sequence leaves, byte by byte: the last write that covers a byte
decides it. `SyncHolds` is the action property: it looks at `commit_dirty` once for a
scalar entry, once for a member of a hash, and at every other handler to see that it
answers for no write. Whatever fails in a commit, the map and what is found after a restart
are each what they were or what the batch makes of them, and ok is answered for the latter
only (`Changes`, `CommitIs`): the rest of the proof needs no more of `Commit`.

`NamespaceHolds`, `HandlersAgreeHold` and `UnlinkHolds` are about what is in the tree.
`NamespaceStaysWhole` is kept because what a handler commits is a scalar parsed from the
bytes, an empty file or directory, or a structured value with one member replaced or
removed, and each of these is well-formed if what was there is. Given it, agreement and
unlinking are facts about one state.

* Numbers: `ShowNat` and `ParseNat` are unfolded to one digit and the number before it; by
  induction, as a least counterexample, the digits of a number are read as that number
  (`ShowNatRead`). So the positions of a list and the integer keys of a tree, which
  `readdir` prints, are those that `lookup` finds, and no two of them have one name.
* Paths: what `parse` makes of a path is one at most (`ParseOne`), made of segments, and a
  path of segments is parsed as itself (`ParseSame`); so an entry is found under its own
  path and under that with slashes behind it, and nowhere else.
* `HandlersAgreeHold`: for each type of value, what is listed is what `project_child_value`
  finds, with the same kind; `read` answers as many bytes as `getattr` says, of entries,
  members and buffers.
* `UnlinkHolds`: for each type of value but trees, `project_unlink` succeeds for the names
  that are shown; for trees, where the name is no number or there is an integer key for it
  (`UnlinkFinds`). The member that is gone is the one that was shown: the items before it in a list stay, those after it move by one; of a set,
  `Retained` is the sequence without the one member of that name; a map loses one key.

### Imports (`ImportProofs`)

`RetryHolds` (`RetryFinishesImport`) and `ImportTypeCorrect`, from `ImportInvHolds`, for any
namespace, any list of steps and any number of kills. That an import ends as if it had
never been killed is not inductive, for a killed import leaves values that its own steps
have yet to overwrite: a document may name a path twice, and the run that comes second
meets what the later step of the first had set. `ImportInv` says what it meets: for some m,
at least as far as this run has come, the paths and directories of the uninterrupted import
after m steps; values of this run where it has set them, old ones where no step up to m
sets. That suffices, because whether a step is skipped, succeeds or fails depends on paths
and directories only, and steps up to m succeeded once, where directories and paths only
grow. The run `requests` checks the same invariant with the plans of real documents.

### Globs (`GlobProofs`)

`GlobRecIsMatching` and `MatchSegmentsIsMatching`: the two recursive searches of `eval.rs`
decide `Matches` and `PathMatches`, which say without recursion that a text, or a path, can
be cut into pieces for the characters, or segments, of the pattern. Both are one search
through a graph of places; a row of its table holds the places from which the end can be
reached (`TableFindsRoutes`), and a route is a cut.

### The daemon (`DaemonProofs`)

For all processes, clients and bounds, when daemons end only by being killed
(`~CleanExits`) and clients use the socket (`Direct = {}`): `OneServerHolds`,
`AcknowledgedHolds`, `ReadsAreFreshHolds`, from `IndInvHolds`. The argument: nobody unlinks
the lock file, so that every process locks the same inode (`LockInv`); so the one process
past the lock has in its map what is on disk, and its compactions lose nothing (`DataInv`).
The runs `daemon_lock_race`, `daemon_undrained` and `daemon_direct` show that neither
assumption can be dropped.

### Assumptions on constants

No value is `Absent`, lengths are naturals, batches are non-empty sequences of operations
(`commit` returns early on an empty one), cuts are positive, `NoBatch` and `None` are none
of the things they stand beside. Namespace: scalars have none of the structured types,
operations name paths within the depth, and an old data directory is a well-formed tree
without an index version, its index entries being any paths (`StoresAssumption`). FuseFs:
chunks are not empty (`FuseAssumption`), and the namespaces that a mount starts from have a
root that is a directory, a directory above every entry and well-formed values: path
segments, hash keys and the names of a set's members are texts, and the
members of a set have different names, which leaves out collisions of 64-bit digests; the
other clients make directories, delete, and set well-formed values, and an update of a
structured value is the setting of what it becomes; processes name segments or dots
(`ValueAssumption`, on which everything about the file system rests). TLC evaluates each
of them on the instances of the runs.

### Only model-checked

* Liveness (`EveryCallReturns`, `ShutdownEnds`): beyond the proof system.
* Of `Requests`: `TypeOK`, `EncodingIsCanonical`, `OnlyWholeEncodingsDecode`,
  `ImportRestoresExport`, `ParserIsGrammar` and `HitsAreTheWalk`. Encoding, JSON and parser recurse over the
  structure of values and texts by `RECURSIVE` operators, of which nothing can be proved.
  `GlobIsMatching` is about whole queries, so that the parser is in it; the search it
  is about is proved in `GlobProofs`.
* The five violated properties.

## 5. Plan

Modelled and checked: the store and its promise, namespace and transactions, lock and
daemon, the file system, codec, import and export, queries. Proved: every invariant and
both refinements of the store and the namespace, the safety of lock and daemon, every
property of the file system, that imports can be repeated, and the glob searches. What is
left to the model checker is named under "Only model-checked".

Not modelled and not planned: the benchmark, which only calls the daemon; argument parsing
and printing of the command line; logging and statistics; framing of the protocol and
`parse_value`; sockets outside the data directory; checksum collisions and lengths of
4 GiB; and
the parts of the file system's interface listed under "FuseFs and the code".
