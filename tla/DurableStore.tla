---------------------------- MODULE DurableStore ----------------------------
(***************************************************************************)
(* What the Storage trait promises its callers (crates/alefs-storage/src/   *)
(* lib.rs and docs, "commit(batch) -> durable"): one map, whole batches,    *)
(* and restarts that forget nothing that was acknowledged. There are no     *)
(* files here; WalStorage implements this module.                           *)
(***************************************************************************)
CONSTANTS
    State,            \* the maps
    Batch,            \* the batches
    None,             \* "no commit is in progress"
    Apply(_, _)       \* the map a batch makes of a map

VARIABLES
    up,       \* is the store open?
    mem,      \* the map that get and scan_prefix read
    pending,  \* the batch being committed, or None
    durable   \* the maps that a restart may find

vars == <<up, mem, pending, durable>>

After(ms) == IF pending = None THEN ms ELSE {Apply(m, pending) : m \in ms}

Init ==
    /\ ~up
    /\ pending = None
    /\ mem \in State
    /\ durable = {mem}

(* A restart shows one of the maps it may show. *)
Restart ==
    /\ ~up /\ up'
    /\ mem' \in durable
    /\ UNCHANGED <<pending, durable>>

Begin(b) ==
    /\ up /\ pending = None
    /\ pending' = b
    /\ UNCHANGED <<up, mem, durable>>

(* The batch becomes visible, before the answer or together with it. *)
Install ==
    /\ up /\ pending # None
    /\ mem' = Apply(mem, pending)
    /\ UNCHANGED <<up, pending, durable>>

(* Ok: the batch is in whatever a restart may find. *)
Acknowledge ==
    /\ up /\ pending # None
    /\ mem' = Apply(mem, pending)
    /\ durable' = After(durable)
    /\ pending' = None
    /\ UNCHANGED up

(* A checkpoint was made: a restart finds what is visible now. *)
Settle ==
    /\ up
    /\ mem \in After(durable)
    /\ durable' = {mem}
    /\ pending' = None
    /\ UNCHANGED <<up, mem>>

(* An error, or the end of the process: the batch is in or out. *)
GiveUp ==
    /\ up
    /\ durable' = durable \cup After(durable)
    /\ pending' = None
    /\ \/ UNCHANGED <<up, mem>>
       \/ ~up' /\ mem' \in State

Next ==
    \/ Restart
    \/ \E b \in Batch : Begin(b)
    \/ Install
    \/ Acknowledge
    \/ Settle
    \/ GiveUp

Spec == Init /\ [][Next]_vars
=============================================================================
