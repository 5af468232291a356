------------------------------ MODULE MCDaemon ------------------------------
(* Model-checking instance of Daemon: two connections, two descriptor    *)
(* numbers (so open() can run out of descriptors) and three opens per    *)
(* process (so ids are handed out after a close).                        *)
EXTENDS Daemon

MCSessions == {"c1", "c2"}
MCFdNums == {3, 4}

(* lastResp is read by no guard: states that differ only in it behave   *)
(* alike, so the passing runs identify them.                             *)
StateView == <<phase, fdMap, fdCount, osOpen, procUp, known>>
=============================================================================
