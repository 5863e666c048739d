------------------------------- MODULE Daemon -------------------------------
(***************************************************************************)
(* The processes that share a data directory: `alefsdb serve` taking        *)
(* $DATA/LOCK (crates/alefs-server/src/lock.rs), opening the store and      *)
(* answering connections from one thread each (handle.rs), clients over     *)
(* $DATA/alefs.sock (client.rs), and the CLI that opens the store itself    *)
(* when there is no socket (crates/alefsdb/src/main.rs).                    *)
(*                                                                         *)
(* A write is a number of its own. What a reopening would find (WalStorage) *)
(* is the set of writes on disk, what a process has in its map is the set   *)
(* of writes it has seen, and a compaction makes the first equal to the     *)
(* second. The mutex around the Database makes each request one step.       *)
(***************************************************************************)
EXTENDS Naturals, FiniteSets

CONSTANTS
    Procs,       \* processes that run `serve`, each again and again
    Clients,     \* client processes, with one connection each
    None,        \* neither a process nor an inode
    CleanExits,  \* may a daemon end by itself (signals, errors), or only be killed?
    Direct,      \* when clients open the store themselves, see direct_open
    MaxStarts,   \* bound: starts of `serve` in a behaviour
    MaxCalls     \* bound: requests in a behaviour

ASSUME DaemonAssumption ==
    /\ None \notin Procs /\ None \notin Nat
    /\ CleanExits \in BOOLEAN
    /\ Direct \subseteq {"no_socket", "flag"}
    /\ MaxStarts \in Nat /\ MaxCalls \in Nat

VARIABLES
    lock_file,  \* the inode at $DATA/LOCK, or None
    holder,     \* the process with the flock on each inode, or None
    fd,         \* the inode that each process has open, or None
    socket,     \* the process that bound $DATA/alefs.sock, or None
    pc,         \* where the main thread of each process is, below
    stop,       \* Daemon.shutdown of each process
    disk,       \* the writes that a reopening would find
    seen,       \* the writes in the map of each process and direct client
    call,       \* the call of each client, below
    acked,      \* history: the writes whose callers have the answer
    starts,     \* history: starts so far
    calls       \* history: requests so far, the last write's number

lock == <<lock_file, holder, fd>>
vars == <<lock, socket, pc, stop, disk, seen, call, acked, starts, calls>>

Inodes == 1..MaxStarts
Writes == 1..MaxCalls

(* The next thing the main thread does: flock, open_db, bind; serve; and, on *)
(* the way out, LOCK_UN, remove_file, leave main. "off": no process.         *)
PC == {"off", "flock", "open_db", "bind", "serve", "unlock", "remove", "exit"}

(* Processes that believe they have the data directory to themselves. *)
Holding(p) == pc[p] \in {"open_db", "bind", "serve", "unlock"}

(* A call: "idle"; "queued" in the listener's backlog; "sent" to a handler   *)
(* thread; "reply" under way; "connected", between two calls; "direct", in   *)
(* a process of its own. since: the writes answered before it was sent; got: *)
(* what a read returns.                                                      *)
NoCall == [at |-> "idle", srv |-> None, req |-> "get", id |-> 0, since |-> {}, got |-> {}]
Request == {"set", "get", "compact"}
Calls == [at : {"idle", "queued", "sent", "reply", "connected", "direct"},
          srv : Procs \cup {None}, req : Request, id : 0..MaxCalls,
          since : SUBSET Writes, got : SUBSET Writes]

TypeOK ==
    /\ lock_file \in Inodes \cup {None}
    /\ holder \in [Inodes -> Procs \cup {None}]
    /\ fd \in [Procs -> Inodes \cup {None}]
    /\ socket \in Procs \cup {None}
    /\ pc \in [Procs -> PC]
    /\ stop \in [Procs -> BOOLEAN]
    /\ disk \subseteq Writes
    /\ seen \in [Procs \cup Clients -> SUBSET Writes]
    /\ call \in [Clients -> Calls]
    /\ acked \subseteq Writes
    /\ starts \in 0..MaxStarts
    /\ calls \in 0..MaxCalls

Init ==
    /\ lock_file = None
    /\ holder = [i \in Inodes |-> None]
    /\ fd = [p \in Procs |-> None]
    /\ socket = None
    /\ pc = [p \in Procs |-> "off"]
    /\ stop = [p \in Procs |-> FALSE]
    /\ disk = {}
    /\ seen = [x \in Procs \cup Clients |-> {}]
    /\ call = [c \in Clients |-> NoCall]
    /\ acked = {}
    /\ starts = 0
    /\ calls = 0

Goto(p, from, to) == pc[p] = from /\ pc' = [pc EXCEPT ![p] = to]

-----------------------------------------------------------------------------
(* DataLock::acquire: open or create $DATA/LOCK, then flock what was opened. *)

acquire_open(p) ==
    /\ starts < MaxStarts
    /\ starts' = starts + 1
    /\ Goto(p, "off", "flock")
    /\ lock_file' = IF lock_file = None THEN starts' ELSE lock_file
    /\ fd' = [fd EXCEPT ![p] = lock_file']
    /\ UNCHANGED <<holder, socket, stop, disk, seen, call, acked, calls>>

(* An acquire that goes on although the lock is taken. *)
acquire_flock_unchecked(p) ==
    /\ Goto(p, "flock", "open_db")
    /\ holder' = [holder EXCEPT ![fd[p]] = p]
    /\ UNCHANGED <<lock_file, fd, socket, stop, disk, seen, call, acked, starts, calls>>

acquire_flock(p) ==
    /\ pc[p] = "flock" /\ holder[fd[p]] = None
    /\ Goto(p, "flock", "open_db")
    /\ holder' = [holder EXCEPT ![fd[p]] = p]
    /\ UNCHANGED <<lock_file, fd, socket, stop, disk, seen, call, acked, starts, calls>>

(* LOCK_NB: "data directory already locked by another process". *)
acquire_fails(p) ==
    /\ pc[p] = "flock" /\ holder[fd[p]] # None
    /\ Goto(p, "flock", "off")
    /\ fd' = [fd EXCEPT ![p] = None]
    /\ UNCHANGED <<lock_file, holder, socket, stop, disk, seen, call, acked, starts, calls>>

-----------------------------------------------------------------------------
(* open_daemon after the lock, and serve_daemon *)

open_db(p) ==
    /\ Goto(p, "open_db", "bind")
    /\ seen' = [seen EXCEPT ![p] = disk]
    /\ UNCHANGED <<lock, socket, stop, disk, call, acked, starts, calls>>

(* The store does not open: the error drops the lock. *)
open_db_fails(p) ==
    /\ CleanExits
    /\ Goto(p, "open_db", "unlock")
    /\ UNCHANGED <<lock, socket, stop, disk, seen, call, acked, starts, calls>>

(* Whatever socket there is is removed. *)
bind(p) ==
    /\ Goto(p, "bind", "serve")
    /\ socket' = p
    /\ UNCHANGED <<lock, stop, disk, seen, call, acked, starts, calls>>

(* SIGINT, SIGTERM or request_shutdown *)
request_shutdown(p) ==
    /\ CleanExits
    /\ pc[p] = "serve" /\ ~stop[p]
    /\ stop' = [stop EXCEPT ![p] = TRUE]
    /\ UNCHANGED <<lock, socket, pc, disk, seen, call, acked, starts, calls>>

OnConnection(p) == {c \in Clients : call[c].srv = p}

(* A shutdown that joins the handler threads. *)
leave_loop_joining(p) ==
    /\ stop[p]
    /\ OnConnection(p) = {}
    /\ Goto(p, "serve", "unlock")
    /\ socket' = None
    /\ UNCHANGED <<lock, stop, disk, seen, call, acked, starts, calls>>

(* The loop ends and the socket file is removed, whoever bound it. The       *)
(* listener is closed; the handler threads go on.                            *)
leave_loop(p) ==
    /\ stop[p]
    /\ Goto(p, "serve", "unlock")
    /\ socket' = None
    /\ call' = [c \in Clients |->
                  IF call[c].srv = p /\ call[c].at = "queued" THEN NoCall ELSE call[c]]
    /\ UNCHANGED <<lock, stop, disk, seen, acked, starts, calls>>

(* DataLock::drop, two system calls *)
drop_unlock(p) ==
    /\ Goto(p, "unlock", "remove")
    /\ holder' = [holder EXCEPT ![fd[p]] = None]
    /\ UNCHANGED <<lock_file, fd, socket, stop, disk, seen, call, acked, starts, calls>>

drop_remove(p) ==
    /\ Goto(p, "remove", "exit")
    /\ lock_file' = None
    /\ UNCHANGED <<holder, fd, socket, stop, disk, seen, call, acked, starts, calls>>

(* What the end of a process does: its descriptors and its threads go.       *)
EndOf(p) ==
    /\ pc' = [pc EXCEPT ![p] = "off"]
    /\ stop' = [stop EXCEPT ![p] = FALSE]
    /\ fd' = [fd EXCEPT ![p] = None]
    /\ holder' = [i \in Inodes |-> IF holder[i] = p THEN None ELSE holder[i]]
    /\ seen' = [seen EXCEPT ![p] = {}]
    /\ call' = [c \in Clients |-> IF call[c].srv = p THEN NoCall ELSE call[c]]
    /\ UNCHANGED <<lock_file, socket, disk, acked, starts, calls>>

(* main returns. *)
exit(p) == pc[p] = "exit" /\ EndOf(p)

kill(p) == pc[p] # "off" /\ EndOf(p)

-----------------------------------------------------------------------------
(* Calls. The answer to a write is what makes it acknowledged. *)

NewCall(c, at, srv, req) ==
    /\ calls < MaxCalls
    /\ calls' = calls + 1
    /\ call' = [call EXCEPT ![c] =
         [NoCall EXCEPT !.at = at, !.srv = srv, !.req = req, !.id = calls', !.since = acked]]

(* Client::connect and the writing of a request: someone must be listening. *)
connect(c, req) ==
    /\ call[c].at = "idle"
    /\ socket # None /\ pc[socket] = "serve"
    /\ NewCall(c, "queued", socket, req)
    /\ UNCHANGED <<lock, socket, pc, stop, disk, seen, acked, starts>>

(* The next Client::call on a connection that is kept. *)
call_again(c, req) ==
    /\ call[c].at = "connected"
    /\ NewCall(c, "sent", call[c].srv, req)
    /\ UNCHANGED <<lock, socket, pc, stop, disk, seen, acked, starts>>

disconnect(c) ==
    /\ call[c].at = "connected"
    /\ call' = [call EXCEPT ![c] = NoCall]
    /\ UNCHANGED <<lock, socket, pc, stop, disk, seen, acked, starts, calls>>

(* One connection after the other. *)
accept_serially(c) ==
    /\ call[c].at = "queued"
    /\ pc[call[c].srv] = "serve"
    /\ \A d \in Clients \ {c} : call[d].srv = call[c].srv => call[d].at = "queued"
    /\ call' = [call EXCEPT ![c].at = "sent"]
    /\ UNCHANGED <<lock, socket, pc, stop, disk, seen, acked, starts, calls>>

(* accept, and a thread for the connection *)
accept(c) ==
    /\ call[c].at = "queued"
    /\ pc[call[c].srv] = "serve"
    /\ call' = [call EXCEPT ![c].at = "sent"]
    /\ UNCHANGED <<lock, socket, pc, stop, disk, seen, acked, starts, calls>>

(* What process x does to disk and map for a request. *)
Perform(x, k) ==
    /\ seen' = IF k.req = "set" THEN [seen EXCEPT ![x] = @ \cup {k.id}] ELSE seen
    /\ disk' = CASE k.req = "set"     -> disk \cup {k.id}
                 [] k.req = "compact" -> seen[x]
                 [] OTHER             -> disk

(* A handler that leaves the commit to the next compaction. *)
handle_lazily(c) ==
    LET k == call[c] IN
    /\ k.at = "sent"
    /\ seen' = IF k.req = "set" THEN [seen EXCEPT ![k.srv] = @ \cup {k.id}] ELSE seen
    /\ disk' = IF k.req = "compact" THEN seen[k.srv] ELSE disk
    /\ call' = [call EXCEPT ![c].at = "reply", ![c].got = seen[k.srv]]
    /\ UNCHANGED <<lock, socket, pc, stop, acked, starts, calls>>

(* dispatch_with_stats under the mutex, in a thread of the daemon. *)
handle(c) ==
    LET k == call[c] IN
    /\ k.at = "sent"
    /\ Perform(k.srv, k)
    /\ call' = [call EXCEPT ![c].at = "reply", ![c].got = seen[k.srv]]
    /\ UNCHANGED <<lock, socket, pc, stop, acked, starts, calls>>

Acknowledge(k) == acked' = IF k.req = "set" THEN acked \cup {k.id} ELSE acked

reply(c) ==
    /\ call[c].at = "reply"
    /\ Acknowledge(call[c])
    /\ call' = [call EXCEPT ![c] = [NoCall EXCEPT !.at = "connected", !.srv = call[c].srv]]
    /\ UNCHANGED <<lock, socket, pc, stop, disk, seen, starts, calls>>

-----------------------------------------------------------------------------
(* main.rs, call: without a socket ("no_socket"), or whenever it is told to  *)
(* ("flag", --direct), the CLI opens the store, takes no lock, dispatches    *)
(* one request and ends.                                                     *)

direct_open(c, req) ==
    /\ call[c].at = "idle"
    /\ "flag" \in Direct \/ ("no_socket" \in Direct /\ socket = None)
    /\ NewCall(c, "direct", None, req)
    /\ seen' = [seen EXCEPT ![c] = disk]
    /\ UNCHANGED <<lock, socket, pc, stop, disk, acked, starts>>

direct_dispatch(c) ==
    /\ call[c].at = "direct"
    /\ Perform(c, call[c])
    /\ Acknowledge(call[c])
    /\ call' = [call EXCEPT ![c] = NoCall]
    /\ UNCHANGED <<lock, socket, pc, stop, starts, calls>>

-----------------------------------------------------------------------------
MainThread(p) ==
    \/ acquire_flock(p) \/ acquire_fails(p) \/ open_db(p) \/ open_db_fails(p) \/ bind(p)
    \/ leave_loop(p) \/ drop_unlock(p) \/ drop_remove(p) \/ exit(p)

Next ==
    \/ \E p \in Procs : acquire_open(p) \/ request_shutdown(p) \/ kill(p) \/ MainThread(p)
    \/ \E c \in Clients :
          \/ \E req \in Request : connect(c, req) \/ call_again(c, req) \/ direct_open(c, req)
          \/ accept(c) \/ handle(c) \/ reply(c) \/ direct_dispatch(c) \/ disconnect(c)

(* Threads that can run are run: the main thread of a daemon, whose loop     *)
(* never blocks for longer than its sleep of 50 ms, and its handler threads. *)
(* Nothing is assumed of clients, signals and kills.                         *)
Fairness ==
    /\ \A p \in Procs : WF_vars(MainThread(p))
    /\ \A c \in Clients : WF_vars(accept(c)) /\ WF_vars(handle(c)) /\ WF_vars(reply(c))

Spec == Init /\ [][Next]_vars /\ Fairness

-----------------------------------------------------------------------------
(* At most one `serve` has the data directory at a time: DataLock, through   *)
(* starts, failed starts and kills ("second `serve` fails immediately").     *)
OneServer == \A p, q \in Procs : Holding(p) /\ Holding(q) => p = q

(* A write whose caller was answered is on disk and stays there, whatever    *)
(* compactions and restarts follow and whoever makes them.                   *)
AcknowledgedIsOnDisk == acked \subseteq disk

(* A read returns every write that was answered before it was sent, to       *)
(* whichever client and by whichever process: no daemon serves from a map    *)
(* that others have left behind.                                             *)
ReadsAreFresh ==
    \A c \in Clients :
        call[c].at = "reply" /\ call[c].req = "get" => call[c].since \subseteq call[c].got

-----------------------------------------------------------------------------
(* Why they hold when daemons only end by being killed: $DATA/LOCK, once     *)
(* there, stays the same file, so that everyone locks the same inode; hence  *)
(* the one process past the lock has in its map what is on disk.             *)

LockInv ==
    \A p \in Procs :
        /\ pc[p] \in {"off", "flock", "open_db", "bind", "serve"}
        /\ ~stop[p]
        /\ pc[p] # "off" => lock_file # None /\ fd[p] = lock_file
        /\ Holding(p) => holder[fd[p]] = p

DataInv ==
    /\ \A p \in Procs : pc[p] \in {"bind", "serve"} => seen[p] = disk
    /\ acked \subseteq disk
    /\ \A c \in Clients :
          /\ call[c].at # "direct"
          /\ call[c].at # "idle" => call[c].srv \in Procs /\ pc[call[c].srv] = "serve"
          /\ call[c].at \notin {"idle", "connected"} => call[c].id \in Writes
          /\ call[c].since \subseteq disk
          /\ call[c].at = "reply" /\ call[c].req = "set" => call[c].id \in disk

(* The inductive invariant for daemons that are only killed and clients that *)
(* use the socket: the lock is exclusive, and the server's map is the disk.  *)
IndInv == TypeOK /\ LockInv /\ DataInv /\ ReadsAreFresh

-----------------------------------------------------------------------------
Waiting(c) == call[c].at \in {"queued", "sent", "reply"}

(* Every call returns, with an answer or a broken connection: while others   *)
(* keep their connections open, and while the daemon shuts down.             *)
EveryCallReturns == \A c \in Clients : Waiting(c) ~> ~Waiting(c)

(* A daemon that is told to stop ends, even with clients connected. *)
ShutdownEnds == \A p \in Procs : stop[p] ~> pc[p] = "off"
=============================================================================
