---------------------------- MODULE DaemonProofs ----------------------------
(***************************************************************************)
(* The lock is exclusive, answered writes stay and reads are fresh, for any *)
(* number of processes, clients, starts and calls, when daemons only end by *)
(* being killed and clients only use the socket.                            *)
(***************************************************************************)
EXTENDS Daemon, TLAPS

(* What an action that makes no call leaves of the calls. *)
LEMMA NoCallType == NoCall \in Calls /\ NoCall.at = "idle" /\ NoCall.since = {}
BY DaemonAssumption DEF NoCall, Calls, Request, Writes

(* No process runs and no call is open: the invariant holds. *)
LEMMA InitInd == Init => IndInv
BY DaemonAssumption, NoCallType
   DEF Init, IndInv, TypeOK, LockInv, DataInv, ReadsAreFresh, Holding, NoCall, Inodes, Writes, PC

-----------------------------------------------------------------------------
(* The steps of a daemon. *)

(* Opening the lock file takes no lock, and may create a new inode. *)
LEMMA StepAcquireOpen ==
    ASSUME IndInv, NEW p \in Procs, acquire_open(p)
    PROVE  IndInv'
<1>1. starts' \in Inodes
  BY DaemonAssumption DEF IndInv, TypeOK, acquire_open, Inodes
<1>2. TypeOK'
  BY <1>1 DEF IndInv, TypeOK, acquire_open, Goto, PC, Inodes
<1>3. LockInv'
  BY <1>1, DaemonAssumption DEF IndInv, TypeOK, LockInv, Holding, acquire_open, Goto, Inodes
<1>4. DataInv' /\ ReadsAreFresh'
  BY DEF IndInv, TypeOK, DataInv, ReadsAreFresh, acquire_open, Goto
<1> QED BY <1>2, <1>3, <1>4 DEF IndInv

(* The flock is granted only while nobody holds that inode's. *)
LEMMA StepAcquireFlock ==
    ASSUME IndInv, NEW p \in Procs, acquire_flock(p)
    PROVE  IndInv'
<1>1. fd[p] \in Inodes
  BY DEF IndInv, TypeOK, LockInv, acquire_flock
<1>2. TypeOK'
  BY <1>1 DEF IndInv, TypeOK, acquire_flock, Goto, PC
<1>3. LockInv'
  BY <1>1, DaemonAssumption DEF IndInv, TypeOK, LockInv, Holding, acquire_flock, Goto
<1>4. DataInv' /\ ReadsAreFresh'
  BY DEF IndInv, TypeOK, DataInv, ReadsAreFresh, acquire_flock, Goto
<1> QED BY <1>2, <1>3, <1>4 DEF IndInv

(* A daemon that is refused the flock exits without it. *)
LEMMA StepAcquireFails ==
    ASSUME IndInv, NEW p \in Procs, acquire_fails(p)
    PROVE  IndInv'
<1>1. TypeOK' /\ LockInv'
  BY DEF IndInv, TypeOK, LockInv, Holding, acquire_fails, Goto, PC
<1>2. DataInv' /\ ReadsAreFresh'
  BY DEF IndInv, TypeOK, DataInv, ReadsAreFresh, acquire_fails, Goto
<1> QED BY <1>1, <1>2 DEF IndInv

(* The lock's holder loads what is on disk. *)
LEMMA StepOpenDb ==
    ASSUME IndInv, NEW p \in Procs, open_db(p)
    PROVE  IndInv'
<1>1. TypeOK' /\ LockInv'
  BY DEF IndInv, TypeOK, LockInv, Holding, open_db, Goto, PC, lock
<1>2. DataInv' /\ ReadsAreFresh'
  BY DEF IndInv, TypeOK, DataInv, ReadsAreFresh, open_db, Goto, lock
<1> QED BY <1>1, <1>2 DEF IndInv

(* Binding the socket leaves the lock and the data alone. *)
LEMMA StepBind ==
    ASSUME IndInv, NEW p \in Procs, bind(p)
    PROVE  IndInv'
<1>1. TypeOK' /\ LockInv'
  BY DEF IndInv, TypeOK, LockInv, Holding, bind, Goto, PC, lock
<1>2. DataInv' /\ ReadsAreFresh'
  BY DEF IndInv, TypeOK, DataInv, ReadsAreFresh, bind, Goto, lock
<1> QED BY <1>1, <1>2 DEF IndInv

(* Two processes past the lock would hold the flock of one inode. *)
LEMMA Exclusive == IndInv => OneServer
BY DEF IndInv, LockInv, OneServer, Holding

(* A killed daemon releases its flock and keeps what is on disk. *)
LEMMA StepKill ==
    ASSUME IndInv, NEW p \in Procs, kill(p)
    PROVE  IndInv'
<1>1. TypeOK'
  BY NoCallType DEF IndInv, TypeOK, kill, EndOf, PC
<1>2. LockInv'
  BY DaemonAssumption DEF IndInv, TypeOK, LockInv, Holding, kill, EndOf
<1>3. DataInv'
  BY NoCallType DEF IndInv, TypeOK, DataInv, kill, EndOf
<1>4. ReadsAreFresh'
  BY NoCallType DEF IndInv, TypeOK, ReadsAreFresh, kill, EndOf
<1> QED BY <1>1, <1>2, <1>3, <1>4 DEF IndInv

-----------------------------------------------------------------------------
(* The steps of a call. *)

(* A new call notes the writes that were acknowledged before it. *)
LEMMA StepNewCall ==
    ASSUME IndInv, NEW c \in Clients, NEW req \in Request,
           connect(c, req) \/ call_again(c, req)
    PROVE  IndInv'
<1> DEFINE k == call'[c]
<1>1. PICK at \in {"queued", "sent"}, srv \in Procs :
           NewCall(c, at, srv, req) /\ pc[srv] = "serve"
  BY DEF IndInv, TypeOK, DataInv, connect, call_again
<1>2. calls' \in Writes
  BY <1>1, DaemonAssumption DEF NewCall, IndInv, TypeOK, Writes
<1>3. k \in Calls /\ k.at = at /\ k.srv = srv /\ k.id = calls' /\ k.since = acked
  <2> DEFINE r == [at |-> at, srv |-> srv, req |-> req, id |-> calls', since |-> acked, got |-> {}]
  <2>1. k = r
    BY <1>1 DEF NewCall, NoCall, IndInv, TypeOK
  <2>2. r \in Calls
    BY <1>2, DaemonAssumption DEF Calls, IndInv, TypeOK, Writes
  <2> QED BY <2>1, <2>2
<1>4. \A d \in Clients \ {c} : call'[d] = call[d]
  BY <1>1 DEF NewCall, IndInv, TypeOK
<1>5. call' \in [Clients -> Calls]
  BY <1>1, <1>3, <1>4 DEF NewCall, IndInv, TypeOK
<1>6. UNCHANGED <<lock, socket, pc, stop, disk, seen, acked, starts>>
  BY DEF connect, call_again
<1>7. TypeOK'
  BY <1>2, <1>5, <1>6 DEF IndInv, TypeOK, Writes, lock
<1>8. LockInv'
  BY <1>6 DEF IndInv, LockInv, Holding, lock
<1>9. DataInv'
  BY <1>1, <1>2, <1>3, <1>4, <1>6 DEF IndInv, DataInv, lock, Writes
<1>10. ReadsAreFresh'
  BY <1>1, <1>3, <1>4, <1>6 DEF IndInv, ReadsAreFresh
<1> QED BY <1>7, <1>8, <1>9, <1>10 DEF IndInv

(* A client that closes its idle connection forgets it, and nothing else. *)
LEMMA StepDisconnect ==
    ASSUME IndInv, NEW c \in Clients, disconnect(c)
    PROVE  IndInv'
<1>1. TypeOK' /\ LockInv'
  BY NoCallType DEF IndInv, TypeOK, LockInv, Holding, disconnect, lock
<1>2. DataInv' /\ ReadsAreFresh'
  BY NoCallType DEF IndInv, TypeOK, DataInv, ReadsAreFresh, disconnect, lock
<1> QED BY <1>1, <1>2 DEF IndInv

(* Accepting a connection starts its handler thread. *)
LEMMA StepAccept ==
    ASSUME IndInv, NEW c \in Clients, accept(c)
    PROVE  IndInv'
<1>1. TypeOK' /\ LockInv'
  BY DEF IndInv, TypeOK, LockInv, Holding, accept, lock, Calls
<1>2. DataInv' /\ ReadsAreFresh'
  BY DEF IndInv, TypeOK, DataInv, ReadsAreFresh, accept, lock, Calls
<1> QED BY <1>1, <1>2 DEF IndInv

(* A request is dispatched whole, under the database's mutex. *)
LEMMA StepHandle ==
    ASSUME IndInv, NEW c \in Clients, handle(c)
    PROVE  IndInv'
<1> DEFINE k == call[c]
<1>1. k \in Calls /\ k.at = "sent" /\ k.srv \in Procs /\ pc[k.srv] = "serve" /\ k.id \in Writes
  BY DEF IndInv, TypeOK, DataInv, handle
<1>2. seen[k.srv] = disk
  BY <1>1 DEF IndInv, DataInv
(* Nobody else has the store open, and a compaction loses nothing. *)
<1>3. \A p \in Procs \ {k.srv} : pc[p] \notin {"bind", "serve"}
  BY <1>1, Exclusive DEF OneServer, Holding
<1>4. /\ disk' = IF k.req = "set" THEN disk \cup {k.id} ELSE disk
      /\ seen'[k.srv] = disk'
      /\ seen' \in [Procs \cup Clients -> SUBSET Writes]
  BY <1>1, <1>2 DEF handle, Perform, IndInv, TypeOK, Calls, Request
<1>5. /\ call' \in [Clients -> Calls]
      /\ \A d \in Clients \ {c} : call'[d] = call[d]
      /\ call'[c].at = "reply" /\ call'[c].got = disk
      /\ call'[c].srv = k.srv /\ call'[c].req = k.req
      /\ call'[c].id = k.id /\ call'[c].since = k.since
  BY <1>1, <1>2 DEF handle, IndInv, TypeOK, Calls
<1>6. UNCHANGED <<lock, socket, pc, stop, acked, starts, calls>>
  BY DEF handle
<1>7. TypeOK'
  BY <1>1, <1>4, <1>5, <1>6 DEF IndInv, TypeOK, lock
<1>8. LockInv'
  BY <1>6 DEF IndInv, LockInv, Holding, lock
<1>9. DataInv'
  BY <1>1, <1>3, <1>4, <1>5, <1>6 DEF IndInv, DataInv
<1>10. ReadsAreFresh'
  BY <1>5 DEF IndInv, DataInv, ReadsAreFresh
<1> QED BY <1>7, <1>8, <1>9, <1>10 DEF IndInv

(* An answered write counts as acknowledged: it is on disk already. *)
LEMMA StepReply ==
    ASSUME IndInv, NEW c \in Clients, reply(c)
    PROVE  IndInv'
<1>1. call[c] \in Calls /\ call[c].srv \in Procs /\ pc[call[c].srv] = "serve"
  BY DEF IndInv, TypeOK, DataInv, reply
<1>2. acked' \subseteq disk
  BY DEF IndInv, DataInv, reply, Acknowledge
<1>3. /\ call' \in [Clients -> Calls]
      /\ \A d \in Clients \ {c} : call'[d] = call[d]
      /\ call'[c].at = "connected" /\ call'[c].srv = call[c].srv /\ call'[c].since = {}
  <2> DEFINE r == [at |-> "connected", srv |-> call[c].srv, req |-> "get", id |-> 0,
                   since |-> {}, got |-> {}]
  <2>1. call'[c] = r
    BY DEF reply, NoCall, IndInv, TypeOK
  <2>2. r \in Calls
    BY <1>1, DaemonAssumption DEF Calls, Request, Writes
  <2>3. \A d \in Clients \ {c} : call'[d] = call[d]
    BY DEF reply, IndInv, TypeOK
  <2>4. call' \in [Clients -> Calls]
    BY <2>1, <2>2, <2>3 DEF reply, IndInv, TypeOK
  <2> QED BY <2>1, <2>3, <2>4
<1>4. UNCHANGED <<lock, socket, pc, stop, disk, seen, starts, calls>>
  BY DEF reply
<1>5. TypeOK' /\ LockInv'
  BY <1>2, <1>3, <1>4 DEF IndInv, TypeOK, LockInv, Holding, lock
<1>6. DataInv' /\ ReadsAreFresh'
  BY <1>1, <1>2, <1>3, <1>4 DEF IndInv, DataInv, ReadsAreFresh
<1> QED BY <1>5, <1>6 DEF IndInv

-----------------------------------------------------------------------------
(* Every step preserves the invariant. *)
LEMMA NextInd ==
    ASSUME ~CleanExits, Direct = {}, IndInv, [Next]_vars
    PROVE  IndInv'
<1>1. CASE UNCHANGED vars
  BY <1>1 DEF vars, lock, IndInv, TypeOK, LockInv, DataInv, ReadsAreFresh, Holding
<1>2. ASSUME NEW p \in Procs, acquire_open(p) \/ kill(p) PROVE IndInv'
  BY <1>2, StepAcquireOpen, StepKill
<1>3. ASSUME NEW p \in Procs, MainThread(p) PROVE IndInv'
  <2>1. pc[p] \notin {"unlock", "remove", "exit"} /\ ~stop[p]
    BY DEF IndInv, LockInv
  <2>2. acquire_flock(p) \/ acquire_fails(p) \/ open_db(p) \/ bind(p)
    BY <1>3, <2>1 DEF MainThread, open_db_fails, leave_loop, drop_unlock, drop_remove, exit, Goto
  <2> QED BY <2>2, StepAcquireFlock, StepAcquireFails, StepOpenDb, StepBind
<1>4. ASSUME NEW p \in Procs PROVE ~request_shutdown(p)
  BY DEF request_shutdown
<1>5. ASSUME NEW c \in Clients, NEW req \in Request, connect(c, req) \/ call_again(c, req)
      PROVE  IndInv'
  BY <1>5, StepNewCall
<1>6. ASSUME NEW c \in Clients, accept(c) \/ handle(c) \/ reply(c) \/ disconnect(c)
      PROVE  IndInv'
  BY <1>6, StepAccept, StepHandle, StepReply, StepDisconnect
<1>7. ASSUME NEW c \in Clients, NEW req \in Request
      PROVE  ~direct_open(c, req)
  BY DEF direct_open
<1>8. ASSUME NEW c \in Clients PROVE ~direct_dispatch(c)
  BY DEF direct_dispatch, IndInv, DataInv
<1> QED BY <1>1, <1>2, <1>3, <1>4, <1>5, <1>6, <1>7, <1>8 DEF Next

(* The lock is exclusive and the server's map is the disk, throughout.       *)
THEOREM IndInvHolds ==
    ASSUME ~CleanExits, Direct = {}
    PROVE  Spec => []IndInv
BY InitInd, NextInd, PTL DEF Spec

(* DataLock admits one daemon at a time, whatever is killed and restarted.   *)
THEOREM OneServerHolds ==
    ASSUME ~CleanExits, Direct = {}
    PROVE  Spec => []OneServer
BY IndInvHolds, Exclusive, PTL

(* A write that was answered survives restarts and compactions. *)
THEOREM AcknowledgedHolds ==
    ASSUME ~CleanExits, Direct = {}
    PROVE  Spec => []AcknowledgedIsOnDisk
<1>1. IndInv => AcknowledgedIsOnDisk
  BY DEF IndInv, DataInv, AcknowledgedIsOnDisk
<1> QED BY <1>1, IndInvHolds, PTL

(* A read returns every write that was answered before it was sent. *)
THEOREM ReadsAreFreshHolds ==
    ASSUME ~CleanExits, Direct = {}
    PROVE  Spec => []ReadsAreFresh
<1>1. IndInv => ReadsAreFresh
  BY DEF IndInv
<1> QED BY <1>1, IndInvHolds, PTL
=============================================================================
