----------------------------- MODULE MCDirSize -----------------------------
(* A tree with a first-level directory "cache" to exclude, a deeper      *)
(* directory also named "cache" that must not be excluded, two hard      *)
(* links to one inode, and a file at the first level.                     *)
EXTENDS DirSize

MCEntries == {"r", "cache", "big", "data", "a", "b", "sub", "c", "top"}
MCParent == [e \in MCEntries |->
               CASE e \in {"cache", "data", "top"} -> "r"
                 [] e = "big" -> "cache"
                 [] e \in {"a", "b", "sub"} -> "data"
                 [] e = "c" -> "sub"
                 [] OTHER -> "r"]
MCKind == [e \in MCEntries |->
             IF e \in {"r", "cache", "data", "sub"} THEN "dir" ELSE "file"]
MCName == [e \in MCEntries |-> IF e = "sub" THEN "cache" ELSE e]
MCDev == [e \in MCEntries |-> 10]
MCIno == [e \in MCEntries |->
            CASE e = "big" -> 1 [] e \in {"a", "b"} -> 2 [] e = "c" -> 3
              [] e = "top" -> 4 [] OTHER -> 20]
MCSize == [e \in MCEntries |->
             CASE e = "big" -> 100 [] e \in {"a", "b"} -> 5 [] e = "c" -> 7
               [] e = "top" -> 1 [] OTHER -> 0]
MCExclusions == {"cache"}
=============================================================================
