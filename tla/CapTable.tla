------------------------------ MODULE CapTable ------------------------------
(***************************************************************************)
(* What the capability table of daemon_v3.cpp promises, per process: a    *)
(* handle id maps to at most one descriptor, a descriptor is granted to    *)
(* at most one handle at a time, and a handle id is handed out once only.  *)
(* Which descriptors the process holds, how ids are counted and which      *)
(* request asked for what are not part of the promise.                    *)
(*                                                                         *)
(*   table[p]  handle id -> descriptor or NoFd   (fd_map)                  *)
(*   used[p]   ids ever handed out               (0 .. fd_count-1)         *)
(***************************************************************************)
CONSTANTS Procs, Ids, FdNums, NoFd

VARIABLES table, used

cvars == <<table, used>>

Empty == [i \in Ids |-> NoFd]

(* The descriptors the table of one process names. *)
Named(m) == {m[i] : i \in Ids} \ {NoFd}

CTypeOK ==
    /\ table \in [Procs -> [Ids -> FdNums \cup {NoFd}]]
    /\ used \in [Procs -> SUBSET Ids]

CInit ==
    /\ table = [p \in Procs |-> Empty]
    /\ used = [p \in Procs |-> {}]

(* A fresh id is bound to a descriptor no handle of the process names. *)
Grant(p, id, d) ==
    /\ id \notin used[p]
    /\ d \in FdNums \ Named(table[p])
    /\ table' = [table EXCEPT ![p][id] = d]
    /\ used' = [used EXCEPT ![p] = @ \cup {id}]

(* A fresh id is handed out while the table is dropped: the client that *)
(* was to receive it went away.                                          *)
GrantLost(p, id) ==
    /\ id \notin used[p]
    /\ table' = [table EXCEPT ![p] = Empty]
    /\ used' = [used EXCEPT ![p] = @ \cup {id}]

(* A bound id is unbound; the id is not handed out again. *)
Revoke(p, id) ==
    /\ table[p][id] # NoFd
    /\ table' = [table EXCEPT ![p][id] = NoFd]
    /\ UNCHANGED used

(* Every handle of the process is dropped. *)
Clear(p) ==
    /\ table' = [table EXCEPT ![p] = Empty]
    /\ UNCHANGED used

CNext ==
    \E p \in Procs :
        \/ \E id \in Ids, d \in FdNums : Grant(p, id, d)
        \/ \E id \in Ids : GrantLost(p, id) \/ Revoke(p, id)
        \/ Clear(p)

CSpec == CInit /\ [][CNext]_cvars

=============================================================================
