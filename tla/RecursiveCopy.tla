--------------------------- MODULE RecursiveCopy ---------------------------
(***************************************************************************)
(* copy_dir and its visitor RecursiveCopier (src/mbtool/util/copy.cpp),    *)
(* driven by the traversal engine FTSWrapper.  The engine is not in this   *)
(* tree: its loop is modelled from spec 4.1 (pre-execute hook first; per   *)
(* entry the changed-path callback, then the callback of the entry's kind; *)
(* Fail marks the outcome failed and goes on, Skip prunes a directory and  *)
(* its post-order visit, Stop ends the walk).                              *)
(*                                                                         *)
(* The target tree is abstracted to what exists at the mirror of each     *)
(* source entry; _curtgtpath is that mirror.  cp_attrs and cp_xattrs,     *)
(* always called together, are one attribute step.                         *)
(***************************************************************************)
EXTENDS Integers, Sequences, SequencesExt, FiniteSets

CONSTANTS
    Entries,      \* the source tree
    Root,         \* the source path
    Parent,       \* Parent[e]: the directory containing e
    Kind,         \* Kind[e] \in EntryKinds
    PreTargets,   \* the target trees that may exist before the copy:
                  \* each maps e to what already exists at its mirror
    TargetAts     \* where the target directory may be: "outside" the
                  \* source, or one of its directories (same dev/ino)

EntryKinds == {"dir", "file", "symlink", "node", "socket"}
TgtKinds == {"none", "dir", "file", "symlink", "node", "partial"}
Flags == {"ATTRIBUTES", "EXCLUDE_TOP_LEVEL", "FOLLOW_SYMLINKS"}

ASSUME CopyTreeAssumption ==
    /\ Root \in Entries /\ Kind[Root] = "dir"
    /\ \A e \in Entries \ {Root} : Parent[e] \in Entries /\ Kind[Parent[e]] = "dir"
    /\ \A e \in Entries : Kind[e] \in EntryKinds
    /\ PreTargets \subseteq [Entries -> TgtKinds]
    /\ TargetAts \subseteq {"outside"} \cup {d \in Entries : Kind[d] = "dir"}

VARIABLES
    flags,     \* _copyflags
    targetAt,  \* _target: outside the source, or a source directory
    topKind,   \* what exists at _target before the copy
    phase,     \* "pre", "walk", "done"
    stack,     \* what fts_read still returns: [e, post]
    tgt,       \* tgt[e]: what exists at the mirror of e
    result,    \* the value run() returns
    reached,   \* entries whose kind callback ran
    failed,    \* entries a callback returned FTS_Fail for
    skipped,   \* directories pruned by FTS_Skip
    tried,     \* tried[e]: calls of cp_attrs for e
    stopped    \* a callback returned FTS_Stop

vars == <<flags, targetAt, topKind, phase, stack, tgt, result, reached,
          failed, skipped, tried, stopped>>

Children(e) == {c \in Entries \ {Root} : Parent[c] = e}

(* The entries from e up to the root. *)
AncOrSelf[e \in Entries] ==
    IF e = Root THEN {Root} ELSE {e} \cup AncOrSelf[Parent[e]]

(* A callback's return value: the FTS_Fail, FTS_Skip and FTS_Stop bits. *)
Act(f, sk, st) == [fail |-> f, skip |-> sk, stop |-> st]
FtsOK == Act(FALSE, FALSE, FALSE)
FtsFail == Act(TRUE, FALSE, FALSE)

TypeOK ==
    /\ flags \subseteq Flags
    /\ targetAt \in TargetAts
    /\ topKind \in {"none", "dir", "file"}
    /\ phase \in {"pre", "walk", "done"}
    /\ stack \in Seq([e : Entries, post : BOOLEAN])
    /\ tgt \in [Entries -> TgtKinds]
    /\ result \in BOOLEAN
    /\ reached \subseteq Entries /\ failed \subseteq Entries
    /\ skipped \subseteq Entries
    /\ tried \in [Entries -> 0 .. 2]
    /\ stopped \in BOOLEAN

(* copy_dir(source, target, flags): any flags, a target outside the      *)
(* source (absent, a directory or a file) or a directory of the source, *)
(* and any of the possible target trees.  With COPY_EXCLUDE_TOP_LEVEL   *)
(* the root's mirror is the target itself.                               *)
Init ==
    /\ flags \in SUBSET Flags
    /\ targetAt \in TargetAts
    /\ topKind \in IF targetAt = "outside" THEN {"none", "dir", "file"}
                   ELSE {"dir"}
    /\ phase = "pre"
    /\ stack = <<[e |-> Root, post |-> FALSE]>>
    /\ \E pre \in PreTargets :
         tgt = [e \in Entries |->
                  IF e = Root /\ "EXCLUDE_TOP_LEVEL" \in flags THEN "dir"
                  ELSE pre[e]]
    /\ result = TRUE
    /\ reached = {} /\ failed = {} /\ skipped = {}
    /\ tried = [e \in Entries |-> 0]
    /\ stopped = FALSE

Walking == <<flags, targetAt, topKind>>

(* on_pre_execute: COPY_FOLLOW_SYMLINKS is refused; mkdir(_target) may  *)
(* fail (not EEXIST); the target must then stat as a directory.  When it *)
(* returns false the walk never begins and run() returns false.          *)
PreExecute ==
    /\ phase = "pre"
    /\ \E mkdirOk \in BOOLEAN :
         LET ok == /\ "FOLLOW_SYMLINKS" \notin flags
                   /\ topKind = "none" => mkdirOk
                   /\ topKind # "file"
         IN /\ phase' = IF ok THEN "walk" ELSE "done"
            /\ result' = ok
    /\ UNCHANGED <<Walking, stack, tgt, reached, failed, skipped, tried, stopped>>

-----------------------------------------------------------------------------
(* The visitor's callbacks.  Each sets tgt' and tried' and returns r.     *)

Acts == [fail : BOOLEAN, skip : BOOLEAN, stop : BOOLEAN]

(* Seeded fault: the self-copy check fails the entry without stopping. *)
OnChangedPathNoStop(e) ==
    IF e = targetAt THEN Act(TRUE, FALSE, FALSE) ELSE FtsOK

(* on_changed_path: the entry with the target's dev/ino fails the walk  *)
(* and stops it: copying it would copy the target into itself.           *)
OnChangedPath(e) ==
    IF e = targetAt THEN Act(TRUE, FALSE, TRUE) ELSE FtsOK

(* cp_attrs (with cp_xattrs): counted whether or not it succeeds. *)
CpAttrs(e) == tried' = [tried EXCEPT ![e] = @ + 1]

(* Seeded fault: a directory that cannot be mirrored is skipped without *)
(* FTS_Fail.                                                              *)
OnReachedDirectoryPreNoFail(e, mkdirOk, r) ==
    LET skip == \/ tgt[e] = "none" /\ ~mkdirOk
                \/ tgt[e] \notin {"none", "dir"}
    IN /\ tgt' = [tgt EXCEPT ![e] = IF skip THEN @ ELSE "dir"]
       /\ IF skip THEN CpAttrs(e) ELSE UNCHANGED tried
       /\ r = Act(FALSE, skip, FALSE)

(* Seeded fault: a skipped directory does not get its attributes. *)
OnReachedDirectoryPreNoAttrs(e, mkdirOk, r) ==
    LET skip == \/ tgt[e] = "none" /\ ~mkdirOk
                \/ tgt[e] \notin {"none", "dir"}
    IN /\ tgt' = [tgt EXCEPT ![e] = IF skip THEN @ ELSE "dir"]
       /\ UNCHANGED tried
       /\ r = Act(skip, skip, FALSE)

(* on_reached_directory_pre: mkdir the mirror (EEXIST is fine); a mkdir *)
(* failure, or a mirror that is not a directory, fails the entry and     *)
(* skips its subtree, and then the attributes are set here, because      *)
(* on_reached_directory_post will not run.                                *)
OnReachedDirectoryPre(e, mkdirOk, r) ==
    LET skip == \/ tgt[e] = "none" /\ ~mkdirOk
                \/ tgt[e] \notin {"none", "dir"}
    IN /\ tgt' = [tgt EXCEPT ![e] = IF skip THEN @ ELSE "dir"]
       /\ IF skip THEN CpAttrs(e) ELSE UNCHANGED tried
       /\ r = Act(skip, skip, FALSE)

(* on_reached_directory_post: the attributes of the copied directory. *)
OnReachedDirectoryPost(e, attrsOk, r) ==
    /\ CpAttrs(e)
    /\ UNCHANGED tgt
    /\ r = Act(~attrsOk, FALSE, FALSE)

(* on_reached_file, _symlink, _block_device, _character_device, _fifo:  *)
(* remove_existing_file (unlink fails on a directory: EISDIR), create    *)
(* the copy (copy_data, symlink, mknod, mkfifo), then the attributes;    *)
(* the first failure returns FTS_Fail.  A failed copy_data may leave a   *)
(* truncated file behind.                                                 *)
OnReachedLeaf(e, createOk, attrsOk, r) ==
    \/ /\ tgt[e] = "dir"
       /\ UNCHANGED <<tgt, tried>>
       /\ r = FtsFail
    \/ /\ tgt[e] # "dir" /\ ~createOk
       /\ tgt' = [tgt EXCEPT ![e] = IF Kind[e] = "file" THEN "partial" ELSE "none"]
       /\ UNCHANGED tried
       /\ r = FtsFail
    \/ /\ tgt[e] # "dir" /\ createOk
       /\ tgt' = [tgt EXCEPT ![e] = Kind[e]]
       /\ CpAttrs(e)
       /\ r = Act(~attrsOk, FALSE, FALSE)

(* on_reached_socket: sockets are skipped, not failed. *)
OnReachedSocket(e, r) ==
    /\ UNCHANGED <<tgt, tried>>
    /\ r = Act(FALSE, TRUE, FALSE)

(* The callback FTSWrapper picks by the entry's fts_info. *)
OnReachedEntry(e, ok1, ok2, r) ==
    CASE Kind[e] = "dir"    -> OnReachedDirectoryPre(e, ok1, r)
      [] Kind[e] = "socket" -> OnReachedSocket(e, r)
      [] OTHER              -> OnReachedLeaf(e, ok1, ok2, r)

-----------------------------------------------------------------------------
(* The engine (FTSWrapper::run, from spec 4.1). *)

(* After the callbacks for it returned r: a Fail marks the outcome       *)
(* failed, a Stop ends the walk, a directory not skipped is entered (its *)
(* children in the order the filesystem yields them, then its            *)
(* post-order visit), anything else is left behind.                       *)
Apply(it, r) ==
    /\ result' = (result /\ ~r.fail)
    /\ failed' = IF r.fail THEN failed \cup {it.e} ELSE failed
    /\ stopped' = (stopped \/ r.stop)
    /\ skipped' = IF r.skip /\ Kind[it.e] = "dir" /\ ~it.post
                  THEN skipped \cup {it.e} ELSE skipped
    /\ IF r.stop
       THEN stack' = <<>>
       ELSE IF Kind[it.e] = "dir" /\ ~it.post /\ ~r.skip
       THEN \E order \in SetToSeqs(Children(it.e)) :
              stack' = [i \in 1 .. Len(order) |-> [e |-> order[i], post |-> FALSE]]
                       \o <<[e |-> it.e, post |-> TRUE]>> \o Tail(stack)
       ELSE stack' = Tail(stack)

(* One fts_read and the callbacks for the entry it returns.  The          *)
(* changed-path callback runs first; unless it skips or stops, the       *)
(* callback of the entry's kind runs and the two results are combined.   *)
Visit ==
    /\ phase = "walk"
    /\ stack # <<>>
    /\ LET it == Head(stack) IN
       \/ /\ it.post
          /\ \E ok \in BOOLEAN, r \in Acts :
               OnReachedDirectoryPost(it.e, ok, r) /\ Apply(it, r)
          /\ UNCHANGED reached
       \/ /\ ~it.post
          /\ LET c == OnChangedPath(it.e) IN
             \/ /\ c.stop \/ c.skip
                /\ Apply(it, c)
                /\ UNCHANGED <<tgt, tried, reached>>
             \/ /\ ~c.stop /\ ~c.skip
                /\ \E ok1, ok2 \in BOOLEAN, r \in Acts :
                     /\ OnReachedEntry(it.e, ok1, ok2, r)
                     /\ Apply(it, [k \in {"fail", "skip", "stop"} |-> c[k] \/ r[k]])
                /\ reached' = reached \cup {it.e}
    /\ UNCHANGED <<Walking, phase>>

(* fts_read returns NULL (or the walk stopped): run() returns its result. *)
Finish ==
    /\ phase = "walk"
    /\ stack = <<>>
    /\ phase' = "done"
    /\ UNCHANGED <<Walking, stack, tgt, result, reached, failed, skipped,
                   tried, stopped>>

Next == PreExecute \/ Visit \/ Finish

Spec == Init /\ [][Next]_vars

-----------------------------------------------------------------------------
(* PROPERTIES                                                              *)

(* copy_dir returns true only for a complete copy: when run() succeeds, *)
(* every entry of the source but its sockets has a mirror of its own    *)
(* kind in the target.  Every way an entry can be left out (a mkdir or  *)
(* a create that fails, a mirror of the wrong kind, a subtree skipped   *)
(* with its directory, a walk stopped early) has to surface as FTS_Fail *)
(* from some callback.                                                    *)
CopySucceededComplete ==
    (phase = "done" /\ result) =>
        \A e \in Entries : Kind[e] # "socket" => tgt[e] = Kind[e]

(* Every directory the walk entered gets its attributes exactly once:  *)
(* in on_reached_directory_post, or in on_reached_directory_pre when it *)
(* was skipped and the post-order visit will not come.                   *)
DirAttrsOnce ==
    (phase = "done" /\ ~stopped) =>
        \A d \in reached : Kind[d] = "dir" => tried[d] = 1

(* A copy never copies the target into itself: no entry at or under the *)
(* target is ever copied, and a copy whose target lies in its source     *)
(* (spec 8: onto itself) reports failure.                                 *)
NeverCopiesIntoItself ==
    /\ \A e \in reached : targetAt \notin AncOrSelf[e]
    /\ (phase = "done" /\ targetAt # "outside") => ~result

=============================================================================
