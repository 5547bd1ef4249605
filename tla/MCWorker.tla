------------------------------- MODULE MCWorker --------------------------------
(***************************************************************************)
(* Worker for TLC.  The path starts clean, staged and changed again,       *)
(* deleted from the index and left untracked, or with a changed mode, and  *)
(* a child may write one of three entries.                                 *)
(***************************************************************************)
EXTENDS Worker

CONSTANTS c1, c2

File(mode, content) == [mode |-> mode, content |-> content]
State(head, index, work) == [head |-> head, index |-> index, work |-> work]

regular == File("regular", c1)
executable == File("executable", c1)
other == File("regular", c2)

MCOrigins == { State(regular, regular, regular),
               State(Absent, regular, other),
               State(regular, Absent, regular),
               State(regular, executable, executable) }
MCWrites == { Absent, other, executable }
MCLimits == {0, 2}
================================================================================
