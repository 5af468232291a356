-------------------------- MODULE MCRecursiveCopy --------------------------
(* A source s with a directory d holding a symlink h, a file f, a socket *)
(* k, and a directory t (a possible target) holding a file g.  The       *)
(* target starts empty, or with a file at the mirror of d and a         *)
(* directory at the mirror of f.                                          *)
EXTENDS RecursiveCopy

MCEntries == {"s", "d", "h", "f", "k", "t", "g"}
MCParent == [e \in MCEntries |->
               CASE e = "h" -> "d" [] e = "g" -> "t" [] OTHER -> "s"]
MCKind == [e \in MCEntries |->
             CASE e \in {"s", "d", "t"} -> "dir" [] e = "k" -> "socket"
               [] e = "h" -> "symlink" [] OTHER -> "file"]
MCPreTargets == {[e \in MCEntries |-> "none"],
                 [e \in MCEntries |->
                    CASE e = "d" -> "file" [] e = "f" -> "dir" [] OTHER -> "none"]}
MCTargetAts == {"outside", "s", "t"}
=============================================================================
