------------------------------- MODULE Daemon -------------------------------
(***************************************************************************)
(* The v3 session protocol of mbtool's daemon (src/mbtool/daemon_v3.cpp): *)
(* the per-connection command loop connection_version_3, the dispatch on  *)
(* the request tag, the handlers, and the capability table fd_map/fd_count *)
(* that maps client-visible handle ids to the descriptors the daemon      *)
(* opened.                                                                 *)
(*                                                                         *)
(* fd_map and fd_count are file-scope statics: one table per PROCESS, not *)
(* per session.  Which sessions share a process depends on the host that  *)
(* accepts connections (not under src/):                                   *)
(*   "fork"    - every connection runs in a child process of its own;      *)
(*   "serial"  - one process serves one connection at a time;              *)
(*   "threads" - one process serves connections concurrently.              *)
(* A handler runs atomically with respect to other sessions; a response   *)
(* write that fails ends the session inside the same handler step.         *)
(***************************************************************************)
EXTENDS Integers, FiniteSets

CONSTANTS
    Sessions,   \* connections accepted by the daemon
    Host,       \* how the host maps connections to processes
    FdNums,     \* descriptor numbers the kernel can hand to open()
    MaxOpens    \* bound on successful opens per process (fd_count)

ASSUME HostAssumption == Host \in {"fork", "serial", "threads"}
ASSUME FdNumsAssumption == FdNums \subseteq Nat
ASSUME MaxOpensAssumption == MaxOpens \in Nat
ASSUME SessionsAssumption == Sessions # {}

VARIABLES
    phase,      \* session -> "idle" | "await" | "closed" | "crashed"
    fdMap,      \* process -> (handle id -> descriptor or NoFd): fd_map
    fdCount,    \* process -> next handle id: fd_count
    osOpen,     \* process -> descriptors open in the process's fd table
    procUp,     \* process -> FALSE once the process has died
    known,      \* session -> (handle id -> descriptor) the client was given
    lastResp    \* session -> <<request tag, response tag>> of the last reply

vars == <<phase, fdMap, fdCount, osOpen, procUp, known, lastResp>>

NoFd == -1
Ids == 0 .. (MaxOpens - 1)
NoResp == <<"none", "none">>

\* The processes are named after sessions; with a shared process every
\* session runs in the one named MainProc.
Procs == Sessions
MainProc == CHOOSE x \in Sessions : TRUE
ProcOf(s) == IF Host = "fork" THEN s ELSE MainProc

EmptyMap == [i \in Ids |-> NoFd]
MapRange(m) == {m[i] : i \in Ids} \ {NoFd}

(* Request tags of the v3 schema, grouped by the shape of their handler. *)
HandleOps == {"FileChmod", "FileRead", "FileSeek", "FileSELinuxGetLabel",
              "FileSELinuxSetLabel", "FileStat", "FileWrite"}
PathOps == {"PathChmod", "PathCopy", "PathSELinuxGetLabel",
            "PathGetDirectorySize"}
MbOps == {"MbGetBootedRomId", "MbGetInstalledRoms", "MbGetVersion",
          "MbSetKernel", "MbSwitchRom", "MbWipeRom", "MbGetPackagesCount",
          "Reboot"}
RequestTags == HandleOps \cup PathOps \cup MbOps
               \cup {"FileOpen", "FileClose", "PathSELinuxSetLabel"}
RespTags == RequestTags \cup {"Invalid", "Unsupported"}
LoggedTags == RequestTags \cup {"Unknown"}

(* The response type each handler writes into the Response union.        *)
(* v3_file_selinux_get_label wraps its FileSELinuxGetLabelResponse with   *)
(* the tag ResponseType_PathSELinuxGetLabelResponse.                      *)
HandlerRespTag(t) ==
    IF t = "FileSELinuxGetLabel" THEN "PathSELinuxGetLabel" ELSE t

TypeOK ==
    /\ phase \in [Sessions -> {"idle", "await", "closed", "crashed"}]
    /\ fdMap \in [Procs -> [Ids -> FdNums \cup {NoFd}]]
    /\ fdCount \in [Procs -> 0 .. MaxOpens]
    /\ osOpen \in [Procs -> SUBSET FdNums]
    /\ procUp \in [Procs -> BOOLEAN]
    /\ known \in [Sessions -> [Ids -> FdNums \cup {NoFd}]]
    /\ lastResp \in [Sessions -> (LoggedTags \X RespTags) \cup {NoResp}]

Init ==
    /\ phase = [s \in Sessions |-> "idle"]
    /\ fdMap = [p \in Procs |-> EmptyMap]
    /\ fdCount = [p \in Procs |-> 0]
    /\ osOpen = [p \in Procs |-> {}]
    /\ procUp = [p \in Procs |-> TRUE]
    /\ known = [s \in Sessions |-> EmptyMap]
    /\ lastResp = [s \in Sessions |-> NoResp]

-----------------------------------------------------------------------------
(* The host accepts connection s and calls connection_version_3.  A      *)
(* serial host serves no other connection of the process meanwhile.      *)
Connect(s) ==
    /\ phase[s] = "idle"
    /\ procUp[ProcOf(s)]
    /\ Host = "serial" => \A r \in Sessions : phase[r] # "await"
    /\ phase' = [phase EXCEPT ![s] = "await"]
    /\ UNCHANGED <<fdMap, fdCount, osOpen, procUp, known, lastResp>>

(* Seeded fault: the finally block clears fd_map without closing.        *)
CloseAllFdsClearOnly(p, m, o) ==
    /\ fdMap' = [fdMap EXCEPT ![p] = EmptyMap]
    /\ osOpen' = [osOpen EXCEPT ![p] = o]

(* The finally block of connection_version_3: close every descriptor in  *)
(* fd_map, then clear fd_map; fd_count is left as it is.                  *)
CloseAllFds(p, m, o) ==
    /\ fdMap' = [fdMap EXCEPT ![p] = EmptyMap]
    /\ osOpen' = [osOpen EXCEPT ![p] = o \ MapRange(m)]

(* Seeded fault: the session's end also rewinds fd_count, as a per-     *)
(* session reset of the counter would.                                    *)
SessionEndResetCount(s) ==
    /\ phase[s] = "await"
    /\ phase' = [phase EXCEPT ![s] = "closed"]
    /\ CloseAllFds(ProcOf(s), fdMap[ProcOf(s)], osOpen[ProcOf(s)])
    /\ fdCount' = [fdCount EXCEPT ![ProcOf(s)] = 0]
    /\ UNCHANGED <<procUp, known, lastResp>>

(* socket_read_bytes fails (the client hung up) or VerifyRequestBuffer  *)
(* rejects the buffer: connection_version_3 returns false.               *)
SessionEnd(s) ==
    /\ phase[s] = "await"
    /\ phase' = [phase EXCEPT ![s] = "closed"]
    /\ CloseAllFds(ProcOf(s), fdMap[ProcOf(s)], osOpen[ProcOf(s)])
    /\ UNCHANGED <<fdCount, procUp, known, lastResp>>

(* A handler of request t of session s leaves the table of its process   *)
(* as m with open descriptors o, then writes a response tagged tag.  If  *)
(* the write fails the loop returns and the finally block runs.           *)
Reply(s, t, tag, m, o, sendOk) ==
    LET p == ProcOf(s) IN
    IF sendOk
    THEN /\ fdMap' = [fdMap EXCEPT ![p] = m]
         /\ osOpen' = [osOpen EXCEPT ![p] = o]
         /\ lastResp' = [lastResp EXCEPT ![s] = <<t, tag>>]
         /\ UNCHANGED phase
    ELSE /\ CloseAllFds(p, m, o)
         /\ phase' = [phase EXCEPT ![s] = "closed"]
         /\ UNCHANGED lastResp

(* A handler that leaves the capability table alone. *)
ReplyOnly(s, t, tag, sendOk) ==
    /\ Reply(s, t, tag, fdMap[ProcOf(s)], osOpen[ProcOf(s)], sendOk)
    /\ UNCHANGED <<fdCount, procUp, known>>

(* Seeded faults of v3_file_open: the id taken before open() is checked  *)
(* (fd_count++ hoisted), and the id taken without advancing fd_count.     *)
FileOpenEarlyCount(s, hasPath, openOk, sendOk) ==
    LET p == ProcOf(s) IN
    /\ phase[s] = "await"
    /\ hasPath
    /\ \/ /\ ~openOk
          /\ fdCount' = [fdCount EXCEPT ![p] = @ + 1]
          /\ Reply(s, "FileOpen", "FileOpen", fdMap[p], osOpen[p], sendOk)
          /\ UNCHANGED <<procUp, known>>
       \/ /\ openOk
          /\ fdCount[p] < MaxOpens
          /\ \E d \in FdNums \ osOpen[p] :
               LET id == fdCount[p] IN
               /\ fdCount' = [fdCount EXCEPT ![p] = id + 1]
               /\ known' = [known EXCEPT ![s][id] = d]
               /\ Reply(s, "FileOpen", "FileOpen", [fdMap[p] EXCEPT ![id] = d],
                        osOpen[p] \cup {d}, sendOk)
          /\ UNCHANGED procUp

FileOpenNoIncrement(s, hasPath, openOk, sendOk) ==
    LET p == ProcOf(s) IN
    /\ phase[s] = "await"
    /\ hasPath /\ openOk
    /\ \E d \in FdNums \ osOpen[p] :
         LET id == fdCount[p] IN
         /\ known' = [known EXCEPT ![s][id] = d]
         /\ Reply(s, "FileOpen", "FileOpen", [fdMap[p] EXCEPT ![id] = d],
                  osOpen[p] \cup {d}, sendOk)
    /\ UNCHANGED <<fdCount, procUp>>

(* v3_file_open: a request without a path is invalid; open() either fails *)
(* (no handle) or returns the lowest free descriptor, which gets the id   *)
(* fd_count++.                                                             *)
FileOpen(s, hasPath, openOk, sendOk) ==
    LET p == ProcOf(s) IN
    /\ phase[s] = "await"
    /\ \/ /\ ~hasPath
          /\ ReplyOnly(s, "FileOpen", "Invalid", sendOk)
       \/ /\ hasPath
          /\ \/ /\ ~openOk \/ osOpen[p] = FdNums
                /\ ReplyOnly(s, "FileOpen", "FileOpen", sendOk)
             \/ /\ openOk
                /\ fdCount[p] < MaxOpens
                /\ \E d \in FdNums \ osOpen[p] :
                     /\ \A e \in FdNums \ osOpen[p] : d <= e
                     /\ LET id == fdCount[p] IN
                        /\ fdCount' = [fdCount EXCEPT ![p] = id + 1]
                        /\ known' = [known EXCEPT ![s][id] = d]
                        /\ Reply(s, "FileOpen", "FileOpen",
                                 [fdMap[p] EXCEPT ![id] = d],
                                 osOpen[p] \cup {d}, sendOk)
                /\ UNCHANGED procUp

(* Seeded fault of v3_file_close: close() without fd_map.erase().        *)
FileCloseNoErase(s, id, sendOk) ==
    LET p == ProcOf(s) IN
    /\ phase[s] = "await"
    /\ fdMap[p][id] # NoFd
    /\ Reply(s, "FileClose", "FileClose", fdMap[p],
             osOpen[p] \ {fdMap[p][id]}, sendOk)
    /\ UNCHANGED <<fdCount, procUp, known>>

(* v3_file_close: an unknown id is invalid; otherwise the id is erased   *)
(* from fd_map BEFORE close() runs, and close() releases the descriptor  *)
(* whatever it returns.                                                   *)
FileClose(s, id, sendOk) ==
    LET p == ProcOf(s) IN
    /\ phase[s] = "await"
    /\ \/ /\ fdMap[p][id] = NoFd
          /\ ReplyOnly(s, "FileClose", "Invalid", sendOk)
       \/ /\ fdMap[p][id] # NoFd
          /\ known' = [known EXCEPT ![s][id] = NoFd]
          /\ Reply(s, "FileClose", "FileClose",
                   [fdMap[p] EXCEPT ![id] = NoFd],
                   osOpen[p] \ {fdMap[p][id]}, sendOk)
          /\ UNCHANGED <<fdCount, procUp>>

(* v3_file_chmod, _read, _seek, _selinux_get_label, _selinux_set_label,  *)
(* _stat and _write: an unknown id, or a missing mandatory field (data,  *)
(* label), a mode with bits outside 0777, or an unknown whence, is       *)
(* invalid; otherwise one system call on the descriptor, whose result    *)
(* only changes the payload of the response.                              *)
FileByHandle(s, t, id, argsOk, sendOk) ==
    /\ phase[s] = "await"
    /\ t \in HandleOps
    /\ ReplyOnly(s, t,
                 IF fdMap[ProcOf(s)][id] # NoFd /\ argsOk
                 THEN HandlerRespTag(t) ELSE "Invalid",
                 sendOk)

(* v3_path_chmod, _copy, _selinux_get_label, _get_directory_size: a     *)
(* request without its path (or source/target, or with a mode outside   *)
(* 0777) is invalid; the filesystem call only changes the payload.       *)
PathByName(s, t, argsOk, sendOk) ==
    /\ phase[s] = "await"
    /\ t \in PathOps
    /\ ReplyOnly(s, t, IF argsOk THEN t ELSE "Invalid", sendOk)

(* v3_path_selinux_set_label checks the path but not the label: with no *)
(* label, request->label()->c_str() dereferences a null pointer and the *)
(* process dies; the kernel closes every descriptor the process held.    *)
PathSELinuxSetLabel(s, hasPath, hasLabel, sendOk) ==
    LET p == ProcOf(s) IN
    /\ phase[s] = "await"
    /\ \/ /\ ~hasPath
          /\ ReplyOnly(s, "PathSELinuxSetLabel", "Invalid", sendOk)
       \/ /\ hasPath /\ hasLabel
          /\ ReplyOnly(s, "PathSELinuxSetLabel", "PathSELinuxSetLabel", sendOk)
       \/ /\ hasPath /\ ~hasLabel
          /\ phase' = [r \in Sessions |->
                         IF ProcOf(r) = p /\ phase[r] = "await"
                         THEN "crashed" ELSE phase[r]]
          /\ procUp' = [procUp EXCEPT ![p] = FALSE]
          /\ osOpen' = [osOpen EXCEPT ![p] = {}]
          /\ fdMap' = [fdMap EXCEPT ![p] = EmptyMap]
          /\ UNCHANGED <<fdCount, known, lastResp>>

(* The Mb* handlers and v3_reboot: validation of the ROM id (present,   *)
(* installed, not the booted ROM for a wipe), then a collaborator call  *)
(* whose result only changes the payload.                                *)
MbRequest(s, t, argsOk, sendOk) ==
    /\ phase[s] = "await"
    /\ t \in MbOps
    /\ ReplyOnly(s, t, IF argsOk THEN t ELSE "Invalid", sendOk)

(* An unrecognised tag: v3_send_response_unsupported, the loop goes on. *)
Unsupported(s, sendOk) ==
    /\ phase[s] = "await"
    /\ ReplyOnly(s, "Unknown", "Unsupported", sendOk)

Next ==
    \E s \in Sessions, ok1 \in BOOLEAN, ok2 \in BOOLEAN, sendOk \in BOOLEAN :
        \/ Connect(s)
        \/ SessionEnd(s)
        \/ FileOpen(s, ok1, ok2, sendOk)
        \/ \E id \in Ids : FileClose(s, id, sendOk)
        \/ \E t \in HandleOps, id \in Ids : FileByHandle(s, t, id, ok1, sendOk)
        \/ \E t \in PathOps : PathByName(s, t, ok1, sendOk)
        \/ PathSELinuxSetLabel(s, ok1, ok2, sendOk)
        \/ \E t \in MbOps : MbRequest(s, t, ok1, sendOk)
        \/ Unsupported(s, sendOk)

Spec == Init /\ [][Next]_vars

-----------------------------------------------------------------------------
(* PROPERTIES                                                              *)

(* The capability table of every process is sound: each handle names a   *)
(* distinct descriptor (so no descriptor is closed twice, by two close    *)
(* requests or by close and the session's cleanup), and the descriptors   *)
(* the table names are exactly those the daemon's handlers left open (no  *)
(* descriptor leaks out of the table).  Open, close, the cleanup on every *)
(* exit path of connection_version_3 and a crash must all keep it.        *)
TableSound ==
    \A p \in Procs :
        /\ \A i, j \in Ids :
              i # j /\ fdMap[p][i] # NoFd => fdMap[p][i] # fdMap[p][j]
        /\ MapRange(fdMap[p]) = osOpen[p]

(* When no session of a process is being served, the process holds no   *)
(* descriptor that a handler opened: the finally block of              *)
(* connection_version_3 released them whichever way the loop ended.     *)
SessionEndReleasesAll ==
    \A p \in Procs :
        (\A s \in Sessions : ProcOf(s) = p => phase[s] # "await")
            => osOpen[p] = {}

(* A handle given to a connected client keeps naming the same open      *)
(* descriptor until that client closes it: no other session can close,  *)
(* replace or clean it up (spec 3: the table is never shared across     *)
(* sessions).                                                            *)
HandleStable ==
    \A s \in Sessions :
        phase[s] = "await" =>
            \A i \in Ids :
                known[s][i] # NoFd => fdMap[ProcOf(s)][i] = known[s][i]

(* Every response carries the response type of the request it answers,  *)
(* Invalid, or (for an unknown tag) Unsupported (spec 3: the tag always *)
(* matches the active payload).                                          *)
ResponseTagMatches ==
    \A s \in Sessions :
        lastResp[s] # NoResp =>
            \/ lastResp[s][2] \in {lastResp[s][1], "Invalid"}
            \/ lastResp[s] = <<"Unknown", "Unsupported">>

(* A request whose mandatory string field is absent is answered with    *)
(* Invalid before any side effect: no request brings the daemon down    *)
(* (spec 3 and 7).                                                       *)
MalformedRequestRejected ==
    \A s \in Sessions : phase[s] # "crashed"

-----------------------------------------------------------------------------
(* REFINEMENT                                                              *)

(* The ids of a process that fd_count++ has handed out. *)
UsedIds == [p \in Procs |-> {i \in Ids : i < fdCount[p]}]

Cap == INSTANCE CapTable WITH table <- fdMap, used <- UsedIds

(* The daemon implements the abstract capability table CapTable: every   *)
(* step of connection_version_3 and its handlers binds an id never       *)
(* handed out before (in this process, whichever sessions it served) to  *)
(* a descriptor no handle names, unbinds one bound id (v3_file_close),   *)
(* or drops the whole table (the finally block, a crash), and ids once  *)
(* handed out stay spent.                                                 *)
CapRefines == Cap!CSpec

=============================================================================
