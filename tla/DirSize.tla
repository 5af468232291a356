------------------------------ MODULE DirSize ------------------------------
(***************************************************************************)
(* v3_path_get_directory_size and its visitor DirectorySizeGetter          *)
(* (src/mbtool/daemon_v3.cpp), driven by the traversal engine FTSWrapper.  *)
(* The engine is not in this tree: its walk is modelled from spec 4.1, a   *)
(* depth-first walk that reports each entry in the order the filesystem   *)
(* yields it, calls the changed-path callback first, and prunes a          *)
(* directory whose callback returns FTS_Skip.                              *)
(***************************************************************************)
EXTENDS Integers, Sequences, SequencesExt, FiniteSets, FiniteSetsExt

CONSTANTS
    Entries,     \* the entries of the tree under the requested path
    Root,        \* the requested path
    Parent,      \* Parent[e]: the directory that contains e
    Kind,        \* Kind[e] \in {"dir", "file"}
    Name,        \* Name[e]: fts_name
    Dev,         \* Dev[e]: st_dev
    Ino,         \* Ino[e]: st_ino
    Size,        \* Size[e]: st_size
    Exclusions   \* request->exclusions()

ASSUME TreeAssumption ==
    /\ Root \in Entries
    /\ Kind[Root] = "dir"
    /\ \A e \in Entries \ {Root} : Parent[e] \in Entries /\ Kind[Parent[e]] = "dir"
    /\ \A e \in Entries : Size[e] \in Nat

VARIABLES
    stack,    \* the entries fts_read will still return, with their fts_level
    total,    \* DirectorySizeGetter::_total
    links,    \* DirectorySizeGetter::_links, dev -> set of inodes
    counted,  \* the files whose size was added to _total
    phase     \* "walk" while dsg.run() runs, then "done"

vars == <<stack, total, links, counted, phase>>

Devs == {Dev[e] : e \in Entries}
Children(e) == {c \in Entries \ {Root} : Parent[c] = e}

(* The first-level entry an entry lies under (itself at level 1). *)
TopOf[e \in Entries \ {Root}] ==
    IF Parent[e] = Root THEN e ELSE TopOf[Parent[e]]

TypeOK ==
    /\ stack \in Seq([e : Entries, lvl : Nat])
    /\ total \in Nat
    /\ links \in [Devs -> SUBSET Nat]
    /\ counted \subseteq Entries
    /\ phase \in {"walk", "done"}

(* The visitor is constructed with _total = 0 and no links, and the walk *)
(* starts at the requested path, at level 0.                              *)
Init ==
    /\ stack = <<[e |-> Root, lvl |-> 0]>>
    /\ total = 0
    /\ links = [d \in Devs |-> {}]
    /\ counted = {}
    /\ phase = "walk"

(* Seeded fault: the depth test off by one (the root's level). *)
OnChangedPathWrongLevel(it) ==
    IF it.lvl = 0 /\ Name[it.e] \in Exclusions THEN "skip" ELSE "ok"

(* Seeded fault: the exclusions matched at every depth. *)
OnChangedPathAnyLevel(it) ==
    IF Name[it.e] \in Exclusions THEN "skip" ELSE "ok"

(* on_changed_path: a first-level entry named in the exclusions is       *)
(* skipped, with its subtree.                                             *)
OnChangedPath(it) ==
    IF it.lvl = 1 /\ Name[it.e] \in Exclusions THEN "skip" ELSE "ok"

(* on_reached_file: a file whose inode is already in _links[dev] is not  *)
(* counted again; otherwise its size is added and _links[dev] gets the   *)
(* DEVICE number (line 597), not the inode.                               *)
OnReachedFile(f) ==
    IF Ino[f] \in links[Dev[f]]
    THEN UNCHANGED <<total, links, counted>>
    ELSE /\ total' = total + Size[f]
         /\ links' = [links EXCEPT ![Dev[f]] = @ \cup {Dev[f]}]
         /\ counted' = counted \cup {f}

(* fts_set(FTS_SKIP): the entry, and for a directory its subtree, is    *)
(* never reported.                                                         *)
SkipEntry(it) ==
    /\ OnChangedPath(it) = "skip"
    /\ stack' = Tail(stack)
    /\ UNCHANGED <<total, links, counted>>

(* FTS_D: on_reached_directory_pre is the default (continue); fts_read  *)
(* then returns the children in the order the filesystem yields them.    *)
Descend(it) ==
    /\ OnChangedPath(it) = "ok"
    /\ Kind[it.e] = "dir"
    /\ \E order \in SetToSeqs(Children(it.e)) :
         stack' = [i \in 1 .. Len(order) |->
                     [e |-> order[i], lvl |-> it.lvl + 1]] \o Tail(stack)
    /\ UNCHANGED <<total, links, counted>>

(* FTS_F: on_reached_file. *)
ReachFile(it) ==
    /\ OnChangedPath(it) = "ok"
    /\ Kind[it.e] = "file"
    /\ stack' = Tail(stack)
    /\ OnReachedFile(it.e)

(* One fts_read and the callbacks for the entry it returns. *)
Visit ==
    /\ phase = "walk"
    /\ stack # <<>>
    /\ LET it == Head(stack) IN
       SkipEntry(it) \/ Descend(it) \/ ReachFile(it)
    /\ UNCHANGED phase

(* fts_read returns NULL: dsg.run() returns and the handler writes the  *)
(* response with dsg.total().                                             *)
Finish ==
    /\ phase = "walk"
    /\ stack = <<>>
    /\ phase' = "done"
    /\ UNCHANGED <<stack, total, links, counted>>

Next == Visit \/ Finish

Spec == Init /\ [][Next]_vars

-----------------------------------------------------------------------------
(* PROPERTIES                                                              *)

(* No file under an excluded first-level directory (spec 8: the cache   *)
(* example) ever reaches _total: the level check in on_changed_path and  *)
(* the engine's pruning of the skipped directory work together.          *)
ExcludedNeverCounted ==
    \A f \in counted : Name[TopOf[f]] \notin Exclusions

(* Distinct storage under the requested path, excluded subtrees aside:  *)
(* one size per (device, inode) pair (spec 4.2, spec 8).                 *)
Countable ==
    {f \in Entries \ {Root} : Kind[f] = "file" /\ Name[TopOf[f]] \notin Exclusions}
Storage == {<<Dev[f], Ino[f]>> : f \in Countable}

(* When the handler answers, the storage of every file outside the      *)
(* excluded first-level directories has been counted, in whatever order *)
(* the entries came: an exclusion prunes only a first-level directory   *)
(* of that name (on_changed_path tests fts_level == 1), never a deeper  *)
(* directory or file that shares the name, and the walk reports every   *)
(* entry it did not prune.                                               *)
NonExcludedCounted ==
    phase = "done" => Storage \subseteq {<<Dev[f], Ino[f]>> : f \in counted}
SizeOf(k) == Size[CHOOSE f \in Countable : <<Dev[f], Ino[f]>> = k]

(* The total the handler reports counts a file with several hard links  *)
(* once (spec 8: two links to an inode of size N contribute N).          *)
HardLinkCountedOnce ==
    phase = "done" => total = MapThenSumSet(SizeOf, Storage)

=============================================================================
