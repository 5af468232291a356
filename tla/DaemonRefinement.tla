-------------------------- MODULE DaemonRefinement --------------------------
(***************************************************************************)
(* Proof that the Daemon specification implements the abstract capability *)
(* table CapTable under the mapping table <- fdMap, used <- the ids below *)
(* fd_count, for every set of sessions, every host, every set of          *)
(* descriptor numbers and every bound on opens.  Each step of the daemon  *)
(* is a stutter of the table, a Grant or GrantLost (v3_file_open), a      *)
(* Revoke (v3_file_close) or a Clear (the finally block, a crash).  The   *)
(* one fact the steps need beyond the types is the soundness invariant    *)
(* IInv of DaemonProofs: the descriptor open() returns is not open, so no *)
(* handle names it.                                                       *)
(***************************************************************************)
EXTENDS DaemonProofs

(* A step of the daemon seen on the abstract table. *)
CapStep == [Cap!CNext]_Cap!cvars

(* A step that leaves fd_map and fd_count alone is an abstract stutter. *)
LEMMA StutterRef ==
    ASSUME fdMap' = fdMap, fdCount' = fdCount
    PROVE  CapStep
BY DEF CapStep, Cap!cvars, UsedIds

(* Emptying the table of p without touching fd_count is Clear(p). *)
LEMMA ClearRef ==
    ASSUME TypeOK, NEW p \in Procs,
           fdMap' = [fdMap EXCEPT ![p] = EmptyMap], fdCount' = fdCount
    PROVE  CapStep
<1>1. Cap!Clear(p)
  BY DEF Cap!Clear, Cap!Empty, EmptyMap, UsedIds
<1>2. QED
  BY <1>1 DEF CapStep, Cap!CNext

(* What Reply leaves in fd_map: the handler's table, or, when the write  *)
(* fails, the empty table of the finally block.                          *)
LEMMA ReplyTable ==
    ASSUME NEW s, NEW t, NEW tag, NEW m, NEW o, NEW sendOk \in BOOLEAN,
           Reply(s, t, tag, m, o, sendOk)
    PROVE  fdMap' = [fdMap EXCEPT ![ProcOf(s)] =
                       IF sendOk THEN m ELSE EmptyMap]
BY DEF Reply, CloseAllFds

(* A handler that leaves the table alone is a stutter, or a Clear when  *)
(* its response cannot be written.                                       *)
LEMMA ReplyOnlyRef ==
    ASSUME TypeOK, NEW s \in Sessions, NEW t, NEW tag, NEW sendOk \in BOOLEAN,
           ReplyOnly(s, t, tag, sendOk)
    PROVE  CapStep
<1>. DEFINE p == ProcOf(s)
<1>1. p \in Procs
  BY ProcOfType
<1>2. /\ Reply(s, t, tag, fdMap[p], osOpen[p], sendOk)
      /\ fdCount' = fdCount
  BY DEF ReplyOnly
<1>6. fdMap' = [fdMap EXCEPT ![p] = IF sendOk THEN fdMap[p] ELSE EmptyMap]
  BY <1>2, ReplyTable
<1>3. CASE sendOk
  BY <1>1, <1>2, <1>3, <1>6, StutterRef DEF TypeOK
<1>4. CASE ~sendOk
  BY <1>1, <1>2, <1>4, <1>6, ClearRef
<1>5. QED
  BY <1>3, <1>4

(* v3_file_open on success: the id fd_count, never handed out, is bound *)
(* to the descriptor d that was not open, which no handle names since   *)
(* the table names exactly the open descriptors; if the response cannot *)
(* be written the id is spent and the table dropped.                    *)
LEMMA OpenRef ==
    ASSUME IInv, NEW p \in Procs, NEW sendOk \in BOOLEAN,
           fdCount[p] < MaxOpens, NEW d \in FdNums \ osOpen[p],
           fdCount' = [fdCount EXCEPT ![p] = fdCount[p] + 1],
           fdMap' = [fdMap EXCEPT ![p] =
                       IF sendOk THEN [fdMap[p] EXCEPT ![fdCount[p]] = d]
                       ELSE EmptyMap]
    PROVE  CapStep
<1>0. TypeOK
  BY DEF IInv
<1>1. fdCount[p] \in Ids /\ fdCount[p] \in Nat
  BY <1>0, MaxOpensAssumption DEF TypeOK, Ids
<1>2. fdCount[p] \notin UsedIds[p]
  BY <1>1 DEF UsedIds
<1>3. UsedIds' = [UsedIds EXCEPT ![p] = @ \cup {fdCount[p]}]
  <2>1. {i \in Ids : i < fdCount[p] + 1}
          = {i \in Ids : i < fdCount[p]} \cup {fdCount[p]}
    BY <1>1 DEF Ids
  <2>2. \A q \in Procs \ {p} : fdCount'[q] = fdCount[q]
    BY <1>0 DEF TypeOK
  <2>3. fdCount'[p] = fdCount[p] + 1
    BY <1>0 DEF TypeOK
  <2>4. QED
    BY <1>0, <2>1, <2>2, <2>3 DEF TypeOK, UsedIds
<1>4. CASE sendOk
  <2>1. d \notin Cap!Named(fdMap[p])
    BY DEF IInv, Good, MapRange, Cap!Named
  <2>2. QED
    BY <1>1, <1>2, <1>3, <1>4, <2>1 DEF CapStep, Cap!CNext, Cap!Grant
<1>5. CASE ~sendOk
  BY <1>1, <1>2, <1>3, <1>5 DEF CapStep, Cap!CNext, Cap!GrantLost,
                               Cap!Empty, EmptyMap
<1>6. QED
  BY <1>4, <1>5

(* v3_file_close on a bound id: the id is unbound, or the table dropped *)
(* when the response cannot be written; fd_count is left alone.          *)
LEMMA CloseRef ==
    ASSUME TypeOK, NEW p \in Procs, NEW id \in Ids, NEW sendOk \in BOOLEAN,
           fdMap[p][id] # NoFd, fdCount' = fdCount,
           fdMap' = [fdMap EXCEPT ![p] =
                       IF sendOk THEN [fdMap[p] EXCEPT ![id] = NoFd]
                       ELSE EmptyMap]
    PROVE  CapStep
<1>1. CASE sendOk
  <2>1. Cap!Revoke(p, id)
    BY <1>1 DEF Cap!Revoke, UsedIds
  <2>2. QED
    BY <2>1 DEF CapStep, Cap!CNext
<1>2. CASE ~sendOk
  BY <1>2, ClearRef
<1>3. QED
  BY <1>1, <1>2

(* The initial state is an initial state of the abstract table. *)
LEMMA CapInit == Init => Cap!CInit
<1> SUFFICES ASSUME Init PROVE Cap!CInit
  OBVIOUS
<1>1. \A p \in Procs : {i \in Ids : i < fdCount[p]} = {}
  BY MaxOpensAssumption DEF Init, Ids
<1>2. QED
  BY <1>1 DEF Init, Cap!CInit, Cap!Empty, EmptyMap, UsedIds

(* Every step of the daemon is a step of the abstract table or leaves it *)
(* as it is.                                                             *)
LEMMA CapNext == IInv /\ [Next]_vars => CapStep
<1> SUFFICES ASSUME IInv, [Next]_vars PROVE CapStep
  OBVIOUS
<1>0. TypeOK
  BY DEF IInv
<1>1. ASSUME NEW s \in Sessions, Connect(s) PROVE CapStep
  BY <1>1, StutterRef DEF Connect
<1>2. ASSUME NEW s \in Sessions, SessionEnd(s) PROVE CapStep
  <2>1. ProcOf(s) \in Procs
    BY ProcOfType
  <2>2. fdMap' = [fdMap EXCEPT ![ProcOf(s)] = EmptyMap] /\ fdCount' = fdCount
    BY <1>2 DEF SessionEnd, CloseAllFds
  <2>3. QED
    BY <1>0, <2>1, <2>2, ClearRef
<1>3. ASSUME NEW s \in Sessions, NEW a \in BOOLEAN, NEW b \in BOOLEAN,
             NEW sendOk \in BOOLEAN, FileOpen(s, a, b, sendOk)
      PROVE CapStep
  <2>. DEFINE p == ProcOf(s)
  <2>1. p \in Procs
    BY ProcOfType
  <2>2. CASE \/ ReplyOnly(s, "FileOpen", "Invalid", sendOk)
             \/ ReplyOnly(s, "FileOpen", "FileOpen", sendOk)
    BY <1>0, <2>2, ReplyOnlyRef, Zenon
  <2>3. ASSUME NEW d \in FdNums \ osOpen[p],
               fdCount[p] < MaxOpens,
               fdCount' = [fdCount EXCEPT ![p] = fdCount[p] + 1],
               Reply(s, "FileOpen", "FileOpen",
                     [fdMap[p] EXCEPT ![fdCount[p]] = d],
                     osOpen[p] \cup {d}, sendOk)
        PROVE CapStep
    <3>1. fdMap' = [fdMap EXCEPT ![p] =
                      IF sendOk THEN [fdMap[p] EXCEPT ![fdCount[p]] = d]
                      ELSE EmptyMap]
      BY <2>3, ReplyTable
    <3>. HIDE DEF p
    <3>2. QED
      BY <2>1, <2>3, <3>1, OpenRef
  <2>4. QED
    BY <1>3, <2>2, <2>3 DEF FileOpen
<1>4. ASSUME NEW s \in Sessions, NEW id \in Ids, NEW sendOk \in BOOLEAN,
             FileClose(s, id, sendOk)
      PROVE CapStep
  <2>. DEFINE p == ProcOf(s)
  <2>1. p \in Procs
    BY ProcOfType
  <2>2. CASE ReplyOnly(s, "FileClose", "Invalid", sendOk)
    BY <1>0, <2>2, ReplyOnlyRef, Zenon
  <2>3. CASE /\ fdMap[p][id] # NoFd
             /\ Reply(s, "FileClose", "FileClose",
                      [fdMap[p] EXCEPT ![id] = NoFd],
                      osOpen[p] \ {fdMap[p][id]}, sendOk)
             /\ UNCHANGED fdCount
    <3>1. fdMap' = [fdMap EXCEPT ![p] =
                      IF sendOk THEN [fdMap[p] EXCEPT ![id] = NoFd]
                      ELSE EmptyMap]
      BY <2>3, ReplyTable
    <3>. HIDE DEF p
    <3>2. QED
      BY <1>0, <2>1, <2>3, <3>1, CloseRef
  <2>4. QED
    BY <1>4, <2>2, <2>3 DEF FileClose
<1>5. ASSUME NEW s \in Sessions, NEW t \in HandleOps, NEW id \in Ids,
             NEW a \in BOOLEAN, NEW sendOk \in BOOLEAN,
             FileByHandle(s, t, id, a, sendOk)
      PROVE CapStep
  BY <1>0, <1>5, ReplyOnlyRef, Zenon DEF FileByHandle
<1>6. ASSUME NEW s \in Sessions, NEW t \in PathOps,
             NEW a \in BOOLEAN, NEW sendOk \in BOOLEAN,
             PathByName(s, t, a, sendOk)
      PROVE CapStep
  BY <1>0, <1>6, ReplyOnlyRef, Zenon DEF PathByName
<1>7. ASSUME NEW s \in Sessions, NEW a \in BOOLEAN, NEW b \in BOOLEAN,
             NEW sendOk \in BOOLEAN, PathSELinuxSetLabel(s, a, b, sendOk)
      PROVE CapStep
  <2>1. ProcOf(s) \in Procs
    BY ProcOfType
  <2>2. CASE \/ ReplyOnly(s, "PathSELinuxSetLabel", "Invalid", sendOk)
             \/ ReplyOnly(s, "PathSELinuxSetLabel", "PathSELinuxSetLabel",
                          sendOk)
    BY <1>0, <2>2, ReplyOnlyRef, Zenon
  <2>3. CASE /\ fdMap' = [fdMap EXCEPT ![ProcOf(s)] = EmptyMap]
             /\ UNCHANGED fdCount
    BY <1>0, <2>1, <2>3, ClearRef
  <2>4. QED
    BY <1>7, <2>2, <2>3 DEF PathSELinuxSetLabel
<1>8. ASSUME NEW s \in Sessions, NEW t \in MbOps,
             NEW a \in BOOLEAN, NEW sendOk \in BOOLEAN,
             MbRequest(s, t, a, sendOk)
      PROVE CapStep
  BY <1>0, <1>8, ReplyOnlyRef, Zenon DEF MbRequest
<1>9. ASSUME NEW s \in Sessions, NEW sendOk \in BOOLEAN, Unsupported(s, sendOk)
      PROVE CapStep
  BY <1>0, <1>9, ReplyOnlyRef, Zenon DEF Unsupported
<1>10. CASE UNCHANGED vars
  BY <1>10, StutterRef DEF vars
<1>11. QED
  BY <1>1, <1>2, <1>3, <1>4, <1>5, <1>6, <1>7, <1>8, <1>9, <1>10 DEF Next

(* The daemon implements the abstract capability table for every host:  *)
(* v3_file_open binds only an id never handed out before to a descriptor *)
(* no handle names, v3_file_close unbinds only a bound id, and the      *)
(* finally block of connection_version_3 and a crash drop the whole     *)
(* table.  The step argument rests on the invariant IInv.               *)
THEOREM CapRefinement == Spec => CapRefines
<1>1. IInv /\ [][Next]_vars => [][Cap!CNext]_Cap!cvars
  BY TableStep, CapNext, PTL DEF CapStep
<1>2. QED
  BY CapInit, TableInit, <1>1, PTL DEF Spec, CapRefines, Cap!CSpec

=============================================================================
