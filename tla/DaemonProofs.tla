---------------------------- MODULE DaemonProofs ----------------------------
(***************************************************************************)
(* Proofs about the Daemon specification, for every set of sessions, every *)
(* host, every set of descriptor numbers and every bound on opens.         *)
(***************************************************************************)
EXTENDS Daemon, TLAPS

(* Where each session's table lives. *)
LEMMA ProcOfType ==
    ASSUME NEW s \in Sessions
    PROVE  ProcOf(s) \in Procs
BY SessionsAssumption DEF ProcOf, MainProc, Procs

(* The tags the handlers log are request and response tags. *)
LEMMA TagsType ==
    /\ \A t \in {"FileOpen", "FileClose", "PathSELinuxSetLabel"} \cup PathOps
                 \cup MbOps :
          t \in LoggedTags /\ t \in RespTags
    /\ \A t \in HandleOps : t \in LoggedTags /\ HandlerRespTag(t) \in RespTags
    /\ "Unknown" \in LoggedTags
    /\ "Invalid" \in RespTags /\ "Unsupported" \in RespTags
BY DEF RespTags, LoggedTags, RequestTags, HandlerRespTag, HandleOps,
       PathOps, MbOps

-----------------------------------------------------------------------------
(* Type correctness.                                                       *)

MapT == [Ids -> FdNums \cup {NoFd}]

(* Reply keeps the types when the table it installs is well typed. *)
LEMMA ReplyType ==
    ASSUME TypeOK, NEW s \in Sessions, NEW t \in LoggedTags,
           NEW tag \in RespTags, NEW m \in MapT, NEW o \in SUBSET FdNums,
           NEW sendOk \in BOOLEAN,
           Reply(s, t, tag, m, o, sendOk)
    PROVE  /\ fdMap' \in [Procs -> MapT]
           /\ osOpen' \in [Procs -> SUBSET FdNums]
           /\ phase' \in [Sessions -> {"idle", "await", "closed", "crashed"}]
           /\ lastResp' \in [Sessions -> (LoggedTags \X RespTags) \cup {NoResp}]
<1>1. ProcOf(s) \in Procs
  BY ProcOfType
<1>2. EmptyMap \in MapT
  BY DEF EmptyMap, MapT
<1>3. CASE sendOk
  <2>1. fdMap' \in [Procs -> MapT]
    BY <1>1, <1>3 DEF Reply, TypeOK, MapT
  <2>2. osOpen' \in [Procs -> SUBSET FdNums]
    BY <1>1, <1>3 DEF Reply, TypeOK
  <2>3. phase' \in [Sessions -> {"idle", "await", "closed", "crashed"}]
    BY <1>1, <1>3 DEF Reply, TypeOK
  <2>4. lastResp' \in [Sessions -> (LoggedTags \X RespTags) \cup {NoResp}]
    BY <1>1, <1>3 DEF Reply, TypeOK
  <2>5. QED
    BY <2>1, <2>2, <2>3, <2>4
<1>4. CASE ~sendOk
  <2>1. fdMap' \in [Procs -> MapT]
    BY <1>1, <1>2, <1>4 DEF Reply, CloseAllFds, TypeOK, MapT
  <2>2. osOpen' \in [Procs -> SUBSET FdNums]
    BY <1>1, <1>4 DEF Reply, CloseAllFds, TypeOK
  <2>3. phase' \in [Sessions -> {"idle", "await", "closed", "crashed"}]
    BY <1>1, <1>4 DEF Reply, TypeOK
  <2>4. lastResp' \in [Sessions -> (LoggedTags \X RespTags) \cup {NoResp}]
    BY <1>1, <1>4 DEF Reply, TypeOK
  <2>5. QED
    BY <2>1, <2>2, <2>3, <2>4
<1>5. QED
  BY <1>3, <1>4

LEMMA ReplyOnlyType ==
    ASSUME TypeOK, NEW s \in Sessions, NEW t \in LoggedTags,
           NEW tag \in RespTags, NEW sendOk \in BOOLEAN,
           ReplyOnly(s, t, tag, sendOk)
    PROVE  TypeOK'
<1>1. ProcOf(s) \in Procs
  BY ProcOfType
<1>2. fdMap[ProcOf(s)] \in MapT /\ osOpen[ProcOf(s)] \in SUBSET FdNums
  BY <1>1 DEF TypeOK, MapT
<1>3. Reply(s, t, tag, fdMap[ProcOf(s)], osOpen[ProcOf(s)], sendOk)
  BY DEF ReplyOnly
<1>4. /\ fdMap' \in [Procs -> MapT]
      /\ osOpen' \in [Procs -> SUBSET FdNums]
      /\ phase' \in [Sessions -> {"idle", "await", "closed", "crashed"}]
      /\ lastResp' \in [Sessions -> (LoggedTags \X RespTags) \cup {NoResp}]
  BY <1>2, <1>3, ReplyType, Zenon
<1>5. UNCHANGED <<fdCount, procUp, known>>
  BY DEF ReplyOnly
<1>6. QED
  BY <1>4, <1>5 DEF TypeOK, MapT

(* The initial state is well typed. *)
LEMMA TypeInit == Init => TypeOK
<1> SUFFICES ASSUME Init PROVE TypeOK
  OBVIOUS
<1>1. EmptyMap \in [Ids -> FdNums \cup {NoFd}]
  BY DEF EmptyMap
<1>2. 0 \in 0 .. MaxOpens
  BY MaxOpensAssumption
<1>3. NoResp \in (LoggedTags \X RespTags) \cup {NoResp}
  OBVIOUS
<1>4. QED
  BY <1>1, <1>2, <1>3 DEF Init, TypeOK, Procs
(* Every step of every handler keeps the types. *)
LEMMA TypeStep == TypeOK /\ [Next]_vars => TypeOK'
<1> SUFFICES ASSUME TypeOK, [Next]_vars PROVE TypeOK'
  OBVIOUS
<1>1. ASSUME NEW s \in Sessions, Connect(s) PROVE TypeOK'
  BY <1>1 DEF Connect, TypeOK
<1>2. ASSUME NEW s \in Sessions, SessionEnd(s) PROVE TypeOK'
  BY <1>2, ProcOfType DEF SessionEnd, CloseAllFds, TypeOK, EmptyMap
<1>3. ASSUME NEW s \in Sessions, NEW a \in BOOLEAN, NEW b \in BOOLEAN,
             NEW sendOk \in BOOLEAN, FileOpen(s, a, b, sendOk)
      PROVE TypeOK'
  <2>. DEFINE p == ProcOf(s)
  <2>1. p \in Procs
    BY ProcOfType
  <2>2. "FileOpen" \in LoggedTags /\ "FileOpen" \in RespTags
                                   /\ "Invalid" \in RespTags
    BY TagsType
  <2>3. CASE \/ ReplyOnly(s, "FileOpen", "Invalid", sendOk)
             \/ ReplyOnly(s, "FileOpen", "FileOpen", sendOk)
    BY <2>2, <2>3, ReplyOnlyType, Zenon
  <2>4. ASSUME NEW d \in FdNums \ osOpen[p],
               fdCount[p] < MaxOpens,
               fdCount' = [fdCount EXCEPT ![p] = fdCount[p] + 1],
               known' = [known EXCEPT ![s][fdCount[p]] = d],
               Reply(s, "FileOpen", "FileOpen",
                     [fdMap[p] EXCEPT ![fdCount[p]] = d],
                     osOpen[p] \cup {d}, sendOk),
               UNCHANGED procUp
        PROVE TypeOK'
    <3>1. fdCount[p] \in Ids
      BY <2>1, <2>4, MaxOpensAssumption DEF TypeOK, Ids
    <3>2. [fdMap[p] EXCEPT ![fdCount[p]] = d] \in MapT
      BY <2>1, <3>1 DEF TypeOK, MapT
    <3>7. osOpen[p] \cup {d} \in SUBSET FdNums
      BY <2>1 DEF TypeOK
    <3>3. /\ fdMap' \in [Procs -> MapT]
          /\ osOpen' \in [Procs -> SUBSET FdNums]
          /\ phase' \in [Sessions -> {"idle", "await", "closed", "crashed"}]
          /\ lastResp' \in [Sessions -> (LoggedTags \X RespTags) \cup {NoResp}]
      BY <2>2, <2>4, <3>2, <3>7, ReplyType, Zenon
    <3>4. fdCount' \in [Procs -> 0 .. MaxOpens]
      BY <2>1, <2>4, MaxOpensAssumption DEF TypeOK
    <3>5. known' \in [Sessions -> MapT]
      BY <2>4, <3>1 DEF TypeOK, MapT
    <3>6. QED
      BY <2>4, <3>3, <3>4, <3>5 DEF TypeOK, MapT
  <2>5. QED
    BY <1>3, <2>3, <2>4 DEF FileOpen
<1>4. ASSUME NEW s \in Sessions, NEW id \in Ids, NEW sendOk \in BOOLEAN,
             FileClose(s, id, sendOk)
      PROVE TypeOK'
  <2>. DEFINE p == ProcOf(s)
  <2>1. p \in Procs
    BY ProcOfType
  <2>2. CASE ReplyOnly(s, "FileClose", "Invalid", sendOk)
    <3>1. "FileClose" \in LoggedTags /\ "Invalid" \in RespTags
      BY TagsType
    <3>2. QED
      BY <2>2, <3>1, ReplyOnlyType, Zenon
  <2>3. CASE /\ known' = [known EXCEPT ![s][id] = NoFd]
             /\ Reply(s, "FileClose", "FileClose",
                      [fdMap[p] EXCEPT ![id] = NoFd],
                      osOpen[p] \ {fdMap[p][id]}, sendOk)
             /\ UNCHANGED <<fdCount, procUp>>
    <3>1. [fdMap[p] EXCEPT ![id] = NoFd] \in MapT
      BY <2>1 DEF TypeOK, MapT
    <3>2. osOpen[p] \ {fdMap[p][id]} \in SUBSET FdNums
      BY <2>1 DEF TypeOK
    <3>3. known' \in [Sessions -> MapT]
      BY <2>3 DEF TypeOK, MapT
    <3>4. "FileClose" \in LoggedTags /\ "FileClose" \in RespTags
      BY TagsType
    <3>5. /\ fdMap' \in [Procs -> MapT]
          /\ osOpen' \in [Procs -> SUBSET FdNums]
          /\ phase' \in [Sessions -> {"idle", "await", "closed", "crashed"}]
          /\ lastResp' \in [Sessions -> (LoggedTags \X RespTags) \cup {NoResp}]
      BY <2>3, <3>1, <3>2, <3>4, ReplyType, Zenon
    <3>6. QED
      BY <2>3, <3>3, <3>5 DEF TypeOK, MapT
  <2>4. QED
    BY <1>4, <2>2, <2>3 DEF FileClose
<1>5. ASSUME NEW s \in Sessions, NEW t \in HandleOps, NEW id \in Ids,
             NEW a \in BOOLEAN, NEW sendOk \in BOOLEAN,
             FileByHandle(s, t, id, a, sendOk)
      PROVE TypeOK'
  <2>. DEFINE tag == IF fdMap[ProcOf(s)][id] # NoFd /\ a
                     THEN HandlerRespTag(t) ELSE "Invalid"
  <2>1. t \in LoggedTags /\ tag \in RespTags
    BY TagsType
  <2>2. ReplyOnly(s, t, tag, sendOk)
    BY <1>5 DEF FileByHandle
  <2>3. QED
    BY <2>1, <2>2, ReplyOnlyType, Zenon
<1>6. ASSUME NEW s \in Sessions, NEW t \in PathOps,
             NEW a \in BOOLEAN, NEW sendOk \in BOOLEAN,
             PathByName(s, t, a, sendOk)
      PROVE TypeOK'
  <2>. DEFINE tag == IF a THEN t ELSE "Invalid"
  <2>1. t \in LoggedTags /\ tag \in RespTags
    BY TagsType
  <2>2. ReplyOnly(s, t, tag, sendOk)
    BY <1>6 DEF PathByName
  <2>3. QED
    BY <2>1, <2>2, ReplyOnlyType, Zenon
<1>7. ASSUME NEW s \in Sessions, NEW a \in BOOLEAN, NEW b \in BOOLEAN,
             NEW sendOk \in BOOLEAN, PathSELinuxSetLabel(s, a, b, sendOk)
      PROVE TypeOK'
  <2>0. /\ "PathSELinuxSetLabel" \in LoggedTags
        /\ "PathSELinuxSetLabel" \in RespTags /\ "Invalid" \in RespTags
    BY TagsType
  <2>1. CASE ReplyOnly(s, "PathSELinuxSetLabel", "Invalid", sendOk)
    BY <2>0, <2>1, ReplyOnlyType, Zenon
  <2>2. CASE ReplyOnly(s, "PathSELinuxSetLabel", "PathSELinuxSetLabel", sendOk)
    BY <2>0, <2>2, ReplyOnlyType, Zenon
  <2>3. CASE /\ phase' = [r \in Sessions |->
                            IF ProcOf(r) = ProcOf(s) /\ phase[r] = "await"
                            THEN "crashed" ELSE phase[r]]
             /\ procUp' = [procUp EXCEPT ![ProcOf(s)] = FALSE]
             /\ osOpen' = [osOpen EXCEPT ![ProcOf(s)] = {}]
             /\ fdMap' = [fdMap EXCEPT ![ProcOf(s)] = EmptyMap]
             /\ UNCHANGED <<fdCount, known, lastResp>>
    BY <2>3, ProcOfType DEF TypeOK, EmptyMap
  <2>4. QED
    BY <1>7, <2>1, <2>2, <2>3 DEF PathSELinuxSetLabel
<1>8. ASSUME NEW s \in Sessions, NEW t \in MbOps,
             NEW a \in BOOLEAN, NEW sendOk \in BOOLEAN,
             MbRequest(s, t, a, sendOk)
      PROVE TypeOK'
  <2>. DEFINE tag == IF a THEN t ELSE "Invalid"
  <2>1. t \in LoggedTags /\ tag \in RespTags
    BY TagsType
  <2>2. ReplyOnly(s, t, tag, sendOk)
    BY <1>8 DEF MbRequest
  <2>3. QED
    BY <2>1, <2>2, ReplyOnlyType, Zenon
<1>9. ASSUME NEW s \in Sessions, NEW sendOk \in BOOLEAN, Unsupported(s, sendOk)
      PROVE TypeOK'
  <2>1. "Unknown" \in LoggedTags /\ "Unsupported" \in RespTags
    BY TagsType
  <2>2. ReplyOnly(s, "Unknown", "Unsupported", sendOk)
    BY <1>9 DEF Unsupported
  <2>3. QED
    BY <2>1, <2>2, ReplyOnlyType, Zenon
<1>10. CASE UNCHANGED vars
  BY <1>10 DEF vars, TypeOK
<1>11. QED
  BY <1>1, <1>2, <1>3, <1>4, <1>5, <1>6, <1>7, <1>8, <1>9, <1>10 DEF Next
(* Every reachable state is well typed: the table holds ids 0 ..       *)
(* MaxOpens-1 mapped to descriptors, and fd_count stays within its bound. *)
THEOREM TypeCorrect == Spec => []TypeOK
  BY TypeInit, TypeStep, PTL DEF Spec

-----------------------------------------------------------------------------
(* Soundness of the capability table.                                      *)

(* The table m of a process is injective on mapped ids, names exactly the *)
(* open descriptors o, and maps no id at or above the counter c: the      *)
(* next id fd_count++ hands out is always a free slot.                    *)
Good(m, o, c) ==
    /\ \A i, j \in Ids : i # j /\ m[i] # NoFd => m[i] # m[j]
    /\ MapRange(m) = o
    /\ \A i \in Ids : i >= c => m[i] = NoFd

IInv ==
    /\ TypeOK
    /\ \A p \in Procs : Good(fdMap[p], osOpen[p], fdCount[p])

(* An empty table is good whatever the counter. *)
LEMMA GoodEmpty ==
    ASSUME NEW c
    PROVE  Good(EmptyMap, {}, c)
BY DEF Good, EmptyMap, MapRange

(* v3_file_open: mapping the id fd_count to a descriptor d that was not  *)
(* open, then advancing fd_count, keeps the table good.                  *)
LEMMA GoodOpen ==
    ASSUME NEW m \in MapT, NEW o, NEW c \in Ids, NEW d \in FdNums \ o,
           Good(m, o, c)
    PROVE  Good([m EXCEPT ![c] = d], o \cup {d}, c + 1)
<1>. DEFINE m2 == [m EXCEPT ![c] = d]
<1>1. d # NoFd
  BY FdNumsAssumption DEF NoFd
<1>2. m[c] = NoFd
  BY DEF Good, Ids
<1>3. \A i, j \in Ids : i # j /\ m2[i] # NoFd => m2[i] # m2[j]
  <2> SUFFICES ASSUME NEW i \in Ids, NEW j \in Ids, i # j, m2[i] # NoFd
               PROVE  m2[i] # m2[j]
    OBVIOUS
  <2>1. \A k \in Ids : m[k] # NoFd => m[k] \in o
    BY DEF Good, MapRange
  <2>2. QED
    BY <1>1, <1>2, <2>1 DEF Good, MapT
<1>4. MapRange(m2) = o \cup {d}
  BY <1>1, <1>2 DEF Good, MapRange, MapT
<1>5. \A i \in Ids : i >= c + 1 => m2[i] = NoFd
  BY DEF Good, MapT, Ids
<1>6. QED
  BY <1>3, <1>4, <1>5 DEF Good

(* v3_file_close: erasing a mapped id and closing its descriptor keeps  *)
(* the table good.                                                       *)
LEMMA GoodClose ==
    ASSUME NEW m \in MapT, NEW o, NEW c, NEW id \in Ids, m[id] # NoFd,
           Good(m, o, c)
    PROVE  Good([m EXCEPT ![id] = NoFd], o \ {m[id]}, c)
<1>. DEFINE m2 == [m EXCEPT ![id] = NoFd]
<1>1. \A i, j \in Ids : i # j /\ m2[i] # NoFd => m2[i] # m2[j]
  BY DEF Good, MapT
<1>2. MapRange(m2) = o \ {m[id]}
  BY DEF Good, MapRange, MapT
<1>3. \A i \in Ids : i >= c => m2[i] = NoFd
  BY DEF Good, MapT
<1>4. QED
  BY <1>1, <1>2, <1>3 DEF Good

(* Reply installs the handler's table, or on a failed write runs the     *)
(* finally block, which closes every descriptor of the table: either way *)
(* a good table stays good, since it names every open descriptor.        *)
LEMMA ReplyGood ==
    ASSUME TypeOK, NEW s \in Sessions, NEW t, NEW tag, NEW m \in MapT, NEW o,
           NEW sendOk \in BOOLEAN, NEW c \in [Procs -> Int],
           Reply(s, t, tag, m, o, sendOk),
           Good(m, o, c[ProcOf(s)]),
           \A q \in Procs \ {ProcOf(s)} : Good(fdMap[q], osOpen[q], c[q])
    PROVE  \A q \in Procs : Good(fdMap'[q], osOpen'[q], c[q])
<1>. DEFINE p == ProcOf(s)
<1>1. p \in Procs
  BY ProcOfType
<1>2. SUFFICES ASSUME NEW q \in Procs PROVE Good(fdMap'[q], osOpen'[q], c[q])
  OBVIOUS
<1>3. CASE q # p
  <2>1. fdMap'[q] = fdMap[q] /\ osOpen'[q] = osOpen[q]
    BY <1>3 DEF Reply, CloseAllFds, TypeOK
  <2>2. QED
    BY <1>3, <2>1
<1>4. CASE q = p /\ sendOk
  <2>1. fdMap'[q] = m /\ osOpen'[q] = o
    BY <1>1, <1>4 DEF Reply, TypeOK
  <2>2. QED
    BY <1>4, <2>1
<1>5. CASE q = p /\ ~sendOk
  <2>1. fdMap'[q] = EmptyMap /\ osOpen'[q] = o \ MapRange(m)
    BY <1>1, <1>5 DEF Reply, CloseAllFds, TypeOK
  <2>2. o \ MapRange(m) = {}
    BY <1>5 DEF Good
  <2>3. QED
    BY <2>1, <2>2, GoodEmpty
<1>6. QED
  BY <1>3, <1>4, <1>5

(* A handler that leaves the table alone keeps every table good. *)
LEMMA ReplyOnlyGood ==
    ASSUME IInv, NEW s \in Sessions, NEW t, NEW tag, NEW sendOk \in BOOLEAN,
           ReplyOnly(s, t, tag, sendOk)
    PROVE  \A q \in Procs : Good(fdMap'[q], osOpen'[q], fdCount'[q])
<1>1. ProcOf(s) \in Procs
  BY ProcOfType
<1>2. fdCount' = fdCount /\ fdCount \in [Procs -> Int]
  BY DEF ReplyOnly, IInv, TypeOK
<1>3. fdMap[ProcOf(s)] \in MapT
  BY <1>1 DEF IInv, TypeOK, MapT
<1>4. \A q \in Procs : Good(fdMap[q], osOpen[q], fdCount'[q])
  BY <1>2 DEF IInv
<1>5. Reply(s, t, tag, fdMap[ProcOf(s)], osOpen[ProcOf(s)], sendOk)
  BY DEF ReplyOnly
<1>6. QED
  BY <1>1, <1>2, <1>3, <1>4, <1>5, ReplyGood, Zenon DEF IInv

(* The table starts empty. *)
LEMMA TableInit == Init => IInv
<1> SUFFICES ASSUME Init PROVE IInv
  OBVIOUS
<1>1. TypeOK
  BY TypeInit
<1>2. \A p \in Procs : Good(fdMap[p], osOpen[p], fdCount[p])
  BY GoodEmpty DEF Init
<1>3. QED
  BY <1>1, <1>2 DEF IInv

(* Every handler, the cleanup and a crash keep every table good. *)
LEMMA TableStep == IInv /\ [Next]_vars => IInv'
<1> SUFFICES ASSUME IInv, [Next]_vars
             PROVE  \A q \in Procs : Good(fdMap'[q], osOpen'[q], fdCount'[q])
  BY TypeStep DEF IInv
<1>0. TypeOK
  BY DEF IInv
<1>1. ASSUME NEW s \in Sessions, Connect(s)
      PROVE  \A q \in Procs : Good(fdMap'[q], osOpen'[q], fdCount'[q])
  BY <1>1 DEF Connect, IInv
<1>2. ASSUME NEW s \in Sessions, SessionEnd(s)
      PROVE  \A q \in Procs : Good(fdMap'[q], osOpen'[q], fdCount'[q])
  <2>. DEFINE p == ProcOf(s)
  <2>1. p \in Procs
    BY ProcOfType
  <2>2. osOpen[p] \ MapRange(fdMap[p]) = {}
    BY <2>1 DEF IInv, Good
  <2>3. fdMap'[p] = EmptyMap /\ osOpen'[p] = {}
    BY <1>2, <2>1, <2>2, <1>0 DEF SessionEnd, CloseAllFds, TypeOK
  <2>4. \A q \in Procs \ {p} : fdMap'[q] = fdMap[q] /\ osOpen'[q] = osOpen[q]
    BY <1>2, <1>0 DEF SessionEnd, CloseAllFds, TypeOK
  <2>5. fdCount' = fdCount
    BY <1>2 DEF SessionEnd
  <2>6. QED
    BY <2>3, <2>4, <2>5, GoodEmpty DEF IInv
<1>3. ASSUME NEW s \in Sessions, NEW a \in BOOLEAN, NEW b \in BOOLEAN,
             NEW sendOk \in BOOLEAN, FileOpen(s, a, b, sendOk)
      PROVE  \A q \in Procs : Good(fdMap'[q], osOpen'[q], fdCount'[q])
  <2>. DEFINE p == ProcOf(s)
  <2>1. p \in Procs
    BY ProcOfType
  <2>2. CASE \/ ReplyOnly(s, "FileOpen", "Invalid", sendOk)
             \/ ReplyOnly(s, "FileOpen", "FileOpen", sendOk)
    BY <2>2, ReplyOnlyGood, Zenon
  <2>3. ASSUME NEW d \in FdNums \ osOpen[p],
               fdCount[p] < MaxOpens,
               fdCount' = [fdCount EXCEPT ![p] = fdCount[p] + 1],
               Reply(s, "FileOpen", "FileOpen",
                     [fdMap[p] EXCEPT ![fdCount[p]] = d],
                     osOpen[p] \cup {d}, sendOk)
        PROVE  \A q \in Procs : Good(fdMap'[q], osOpen'[q], fdCount'[q])
    <3>1. fdCount[p] \in Ids
      BY <2>1, <2>3, <1>0, MaxOpensAssumption DEF TypeOK, Ids
    <3>2. Good([fdMap[p] EXCEPT ![fdCount[p]] = d], osOpen[p] \cup {d},
               fdCount'[p])
      <4>1. fdMap[p] \in MapT /\ Good(fdMap[p], osOpen[p], fdCount[p])
        BY <2>1 DEF IInv, TypeOK, MapT
      <4>2. fdCount'[p] = fdCount[p] + 1
        BY <2>1, <2>3, <1>0 DEF TypeOK
      <4>3. QED
        BY <3>1, <4>1, <4>2, GoodOpen
    <3>3. \A q \in Procs \ {p} : Good(fdMap[q], osOpen[q], fdCount'[q])
      BY <2>3, <1>0 DEF IInv, TypeOK
    <3>4. [fdMap[p] EXCEPT ![fdCount[p]] = d] \in MapT
      BY <2>1, <3>1, <1>0 DEF TypeOK, MapT
    <3>5. fdCount' \in [Procs -> Int]
      BY <2>1, <2>3, <1>0, MaxOpensAssumption DEF TypeOK
    <3>6. Reply(s, "FileOpen", "FileOpen",
                [fdMap[p] EXCEPT ![fdCount[p]] = d], osOpen[p] \cup {d}, sendOk)
      BY <2>3
    <3>7. QED
      BY <3>2, <3>3, <3>4, <3>5, <3>6, <1>0, ReplyGood, Zenon
  <2>4. QED
    BY <1>3, <2>2, <2>3 DEF FileOpen
<1>4. ASSUME NEW s \in Sessions, NEW id \in Ids, NEW sendOk \in BOOLEAN,
             FileClose(s, id, sendOk)
      PROVE  \A q \in Procs : Good(fdMap'[q], osOpen'[q], fdCount'[q])
  <2>. DEFINE p == ProcOf(s)
  <2>1. p \in Procs
    BY ProcOfType
  <2>2. CASE ReplyOnly(s, "FileClose", "Invalid", sendOk)
    BY <2>2, ReplyOnlyGood, Zenon
  <2>3. CASE /\ fdMap[p][id] # NoFd
             /\ Reply(s, "FileClose", "FileClose",
                      [fdMap[p] EXCEPT ![id] = NoFd],
                      osOpen[p] \ {fdMap[p][id]}, sendOk)
             /\ UNCHANGED fdCount
    <3>1. fdMap[p] \in MapT /\ Good(fdMap[p], osOpen[p], fdCount[p])
      BY <2>1 DEF IInv, TypeOK, MapT
    <3>2. Good([fdMap[p] EXCEPT ![id] = NoFd], osOpen[p] \ {fdMap[p][id]},
               fdCount'[p])
      BY <2>3, <3>1, GoodClose
    <3>3. \A q \in Procs \ {p} : Good(fdMap[q], osOpen[q], fdCount'[q])
      BY <2>3 DEF IInv
    <3>4. [fdMap[p] EXCEPT ![id] = NoFd] \in MapT
      BY <3>1 DEF MapT
    <3>5. fdCount' \in [Procs -> Int]
      BY <2>1, <2>3, <1>0, MaxOpensAssumption DEF TypeOK
    <3>6. Reply(s, "FileClose", "FileClose", [fdMap[p] EXCEPT ![id] = NoFd],
                osOpen[p] \ {fdMap[p][id]}, sendOk)
      BY <2>3
    <3>7. QED
      BY <3>2, <3>3, <3>4, <3>5, <3>6, <1>0, ReplyGood, Zenon
  <2>4. QED
    BY <1>4, <2>2, <2>3 DEF FileClose
<1>5. ASSUME NEW s \in Sessions, NEW t \in HandleOps, NEW id \in Ids,
             NEW a \in BOOLEAN, NEW sendOk \in BOOLEAN,
             FileByHandle(s, t, id, a, sendOk)
      PROVE  \A q \in Procs : Good(fdMap'[q], osOpen'[q], fdCount'[q])
  <2>1. ReplyOnly(s, t, IF fdMap[ProcOf(s)][id] # NoFd /\ a
                        THEN HandlerRespTag(t) ELSE "Invalid", sendOk)
    BY <1>5 DEF FileByHandle
  <2>2. QED
    BY <2>1, ReplyOnlyGood, Zenon
<1>6. ASSUME NEW s \in Sessions, NEW t \in PathOps,
             NEW a \in BOOLEAN, NEW sendOk \in BOOLEAN,
             PathByName(s, t, a, sendOk)
      PROVE  \A q \in Procs : Good(fdMap'[q], osOpen'[q], fdCount'[q])
  <2>1. ReplyOnly(s, t, IF a THEN t ELSE "Invalid", sendOk)
    BY <1>6 DEF PathByName
  <2>2. QED
    BY <2>1, ReplyOnlyGood, Zenon
<1>7. ASSUME NEW s \in Sessions, NEW a \in BOOLEAN, NEW b \in BOOLEAN,
             NEW sendOk \in BOOLEAN, PathSELinuxSetLabel(s, a, b, sendOk)
      PROVE  \A q \in Procs : Good(fdMap'[q], osOpen'[q], fdCount'[q])
  <2>. DEFINE p == ProcOf(s)
  <2>1. p \in Procs
    BY ProcOfType
  <2>2. CASE \/ ReplyOnly(s, "PathSELinuxSetLabel", "Invalid", sendOk)
             \/ ReplyOnly(s, "PathSELinuxSetLabel", "PathSELinuxSetLabel",
                          sendOk)
    BY <2>2, ReplyOnlyGood, Zenon
  <2>3. CASE /\ osOpen' = [osOpen EXCEPT ![p] = {}]
             /\ fdMap' = [fdMap EXCEPT ![p] = EmptyMap]
             /\ UNCHANGED fdCount
    BY <2>1, <2>3, <1>0, GoodEmpty DEF IInv, TypeOK
  <2>4. QED
    BY <1>7, <2>2, <2>3 DEF PathSELinuxSetLabel
<1>8. ASSUME NEW s \in Sessions, NEW t \in MbOps,
             NEW a \in BOOLEAN, NEW sendOk \in BOOLEAN,
             MbRequest(s, t, a, sendOk)
      PROVE  \A q \in Procs : Good(fdMap'[q], osOpen'[q], fdCount'[q])
  <2>1. ReplyOnly(s, t, IF a THEN t ELSE "Invalid", sendOk)
    BY <1>8 DEF MbRequest
  <2>2. QED
    BY <2>1, ReplyOnlyGood, Zenon
<1>9. ASSUME NEW s \in Sessions, NEW sendOk \in BOOLEAN, Unsupported(s, sendOk)
      PROVE  \A q \in Procs : Good(fdMap'[q], osOpen'[q], fdCount'[q])
  BY <1>9, ReplyOnlyGood, Zenon DEF Unsupported
<1>10. CASE UNCHANGED vars
  BY <1>10 DEF vars, IInv
<1>11. QED
  BY <1>1, <1>2, <1>3, <1>4, <1>5, <1>6, <1>7, <1>8, <1>9, <1>10 DEF Next

(* In every reachable state the capability table of every process is     *)
(* sound: no two handles name one descriptor, and the table names exactly *)
(* the descriptors the handlers left open, whatever the send failures,    *)
(* cleanups and crashes on the way.                                       *)
THEOREM TableSoundness == Spec => []TableSound
<1>1. IInv => TableSound
  BY DEF IInv, Good, TableSound
<1>2. QED
  BY TableInit, TableStep, <1>1, PTL DEF Spec

=============================================================================
