------------------------------- MODULE WalLog -------------------------------
(***************************************************************************)
(* What the bytes of a store mean: batches, the records they become in      *)
(* wal.log, and the map that replaying a log over a checkpoint yields       *)
(* (crates/alefs-storage/src/batch.rs and the free functions of wal.rs).    *)
(*                                                                         *)
(* A key-value map (a BTreeMap in the code) is a total function on Keys     *)
(* whose value is Absent where the map has no entry.                        *)
(***************************************************************************)
EXTENDS Naturals, Sequences, FiniteSetsExt

CONSTANTS
    Keys,        \* the byte strings used as keys
    Values,      \* the byte strings used as values
    Absent,      \* not a value: "no entry", and in an operation "delete"
    Batches,     \* the WriteBatches that callers commit
    KeyLen,      \* bytes of a key
    ValueLen     \* bytes of a value

Map == [Keys -> Values \cup {Absent}]

(* BatchOp: Put{key, value} is [key, val]; Delete{key} has val = Absent. *)
BatchOp == [key : Keys, val : Values \cup {Absent}]

ASSUME AbsentAssumption == Absent \notin Values
ASSUME LengthAssumption == KeyLen \in Nat /\ ValueLen \in Nat
(* commit returns early on an empty batch: only these reach the log. *)
ASSUME BatchAssumption == Batches \subseteq Seq(BatchOp) \ {<<>>}

EmptyMap == [k \in Keys |-> Absent]

-----------------------------------------------------------------------------
(* apply_ops: the operations of a batch in order; so for each key the last   *)
(* operation on it decides, and the other keys keep their entries.           *)

Writing(ops, k) == {i \in DOMAIN ops : ops[i].key = k}

LastWrite(ops, k) == ops[Max(Writing(ops, k))].val

apply_ops(m, ops) ==
    [k \in Keys |-> IF Writing(ops, k) = {} THEN m[k] ELSE LastWrite(ops, k)]

-----------------------------------------------------------------------------
(* encode_commit_record: magic, version, body length (9 bytes), record type, *)
(* operation count (5), each operation (tag, key length, key; a put also has *)
(* value length and value), checksum (4).                                    *)

HeaderLen == 9
MagicLen == 4
FooterLen == 4

Puts(ops) == {i \in DOMAIN ops : ops[i].val # Absent}

RecordLen(ops) ==
    HeaderLen + 5 + FooterLen
      + (5 + KeyLen) * Cardinality(DOMAIN ops)
      + (4 + ValueLen) * Cardinality(Puts(ops))

(* wal.log is a sequence of chunks: what reached the file of each record     *)
(* that was ever being appended to it. A chunk shorter than its record is a  *)
(* fragment, left by a write that was cut short.                             *)
Chunk == [ops : Batches, at : Nat, len : Nat]

FileLen(w) == IF w = <<>> THEN 0 ELSE w[Len(w)].at + w[Len(w)].len

Appended(w, ops, bytes) ==
    Append(w, [ops |-> ops, at |-> FileLen(w), len |-> bytes])

Complete(chunk) == chunk.len = RecordLen(chunk.ops)

-----------------------------------------------------------------------------
(* replay_wal reads records until the file ends or one is not whole. A       *)
(* fragment is met as follows, by how many of its bytes are there:           *)
(*  - fewer than 9 bytes to the end of the file: the loop stops;             *)
(*  - at most the 4 bytes of the magic, and more behind: the magic or the    *)
(*    version is the next chunk's 'A', and open returns Corrupt;             *)
(*  - part of the length field: the missing high byte is a letter of the     *)
(*    next chunk's magic, the record seems to end beyond the file: stop;     *)
(*  - more: the record ends beyond the file, or its checksum does not match  *)
(*    (no CRC collision is assumed): stop.                                   *)
(* Whatever follows a fragment is never applied.                             *)

(* An implementation that skips over fragments instead of stopping. *)
ReachedPastFragments(w) == {i \in DOMAIN w : Complete(w[i])}

Reached(w) == {i \in DOMAIN w : \A j \in 1..i : Complete(w[j])}

ReplayFails(w) ==
    \E i \in DOMAIN w :
        /\ \A j \in 1..(i - 1) : Complete(w[j])
        /\ w[i].len <= MagicLen
        /\ FileLen(w) - w[i].at >= HeaderLen

(* The records that replay applies and that have an operation on k. *)
Touching(w, k) == {i \in Reached(w) : Writing(w[i].ops, k) # {}}

ReplayFirstWins(m, w) ==
    [k \in Keys |-> IF Touching(w, k) = {}
                    THEN m[k]
                    ELSE LastWrite(w[Min(Touching(w, k))].ops, k)]

(* apply_record_body for each record in turn: the last record that has an    *)
(* operation on k decides k.                                                 *)
replay_wal(m, w) ==
    [k \in Keys |-> IF Touching(w, k) = {}
                    THEN m[k]
                    ELSE LastWrite(w[Max(Touching(w, k))].ops, k)]

(* The loops as they are written: apply_ops takes one operation after the    *)
(* other, replay_wal one record after the other until one is not whole.      *)
ApplyOne(m, op) == [m EXCEPT ![op.key] = op.val]

ApplyLoop(m, ops) ==
    LET after[n \in 0..Len(ops)] ==
            IF n = 0 THEN m ELSE ApplyOne(after[n - 1], ops[n])
    IN  after[Len(ops)]

ApplyRecord(state, chunk) ==
    IF state.stopped \/ ~Complete(chunk)
    THEN [m |-> state.m, stopped |-> TRUE]
    ELSE [m |-> ApplyLoop(state.m, chunk.ops), stopped |-> FALSE]

ReplayLoop(m, w) ==
    LET after[n \in 0..Len(w)] ==
            IF n = 0 THEN [m |-> m, stopped |-> FALSE]
            ELSE ApplyRecord(after[n - 1], w[n])
    IN  after[Len(w)].m

(* No chunk stands behind a fragment. *)
Healthy(w) == \A i \in 1..(Len(w) - 1) : Complete(w[i])
=============================================================================
