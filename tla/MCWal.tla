-------------------------------- MODULE MCWal --------------------------------
(* WalStorage on a small instance. *)
EXTENDS WalStorage

CONSTANTS k1, k2, v1, v2

put(k, v) == [key |-> k, val |-> v]
delete(k) == [key |-> k, val |-> Absent]

(* Overwrites, a deletion, a batch over two keys, and one that writes a key  *)
(* twice.                                                                    *)
MCBatches ==
    { << put(k1, v1), put(k2, v1) >>,
      << put(k2, v2) >>,
      << put(k1, v2), delete(k2) >>,
      << put(k1, v1), delete(k1) >> }
=============================================================================
