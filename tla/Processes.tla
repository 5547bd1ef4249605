------------------------------- MODULE Processes -------------------------------
(***************************************************************************)
(* run_process: one child at a time, in a process group of its own, fed    *)
(* its input through a pipe and then waited for with a time limit.         *)
(*                                                                         *)
(* A launcher that contains the child (bubblewrap, with its own namespace  *)
(* of processes) takes every descendant with it when it ends; one that     *)
(* does not (sandbox-exec) leaves them to the process group, which they    *)
(* may leave, and which nobody signals once the child itself has ended.    *)
(***************************************************************************)
EXTENDS Naturals

VARIABLES
    contained,  \* whether descendants end with the child
    runner,     \* where run_process is
    child,      \* the process that run_process waits for
    group,      \* whether descendants of it live in its process group
    strays,     \* whether processes live that no run can signal any more
    stdin,      \* how much input there is
    pipe,       \* what has become of it
    result      \* what run_process returns, or that it raises

processVars == << contained, runner, child, group, strays, stdin, pipe, result >>

\* Small input is buffered and flushed; large input fills the pipe.
Sizes == {"none", "small", "large"}

ProcessTypeOK ==
    /\ contained \in BOOLEAN
    /\ runner \in {"idle", "write", "wait", "terminate", "grace", "done"}
    /\ child \in {"none", "running", "succeeded", "failed"}
    /\ group \in BOOLEAN /\ strays \in BOOLEAN
    /\ stdin \in Sizes /\ pipe \in {"unread", "read", "closed"}
    /\ result \in {"none", "ok", "transport_error", "timeout", "raised"}
    /\ child = "running" => runner \in {"write", "wait", "terminate", "grace"}
    /\ contained => ~strays /\ (group => child = "running")

ProcessInit ==
    /\ contained \in BOOLEAN
    /\ runner = "idle" /\ child = "none"
    /\ group = FALSE /\ strays = FALSE
    /\ stdin = "none" /\ pipe = "unread" /\ result = "none"

(***************************************************************************)
(* What the caller does: start a run, and take its result.                 *)
(***************************************************************************)
\* The group of an earlier run is out of reach from here on.
Start(size) ==
    /\ runner = "idle"
    /\ runner' = "write" /\ child' = "running"
    /\ group' = FALSE /\ strays' = (strays \/ group)
    /\ stdin' = size /\ pipe' = "unread" /\ result' = "none"
    /\ UNCHANGED contained

CannotStart ==
    /\ runner = "idle"
    /\ runner' = "done" /\ result' = "transport_error" /\ child' = "none"
    /\ UNCHANGED << contained, group, strays, stdin, pipe >>

Take ==
    /\ runner = "done" /\ runner' = "idle"
    /\ child' = "none" /\ stdin' = "none" /\ result' = "none"
    /\ UNCHANGED << contained, group, strays, pipe >>

(***************************************************************************)
(* The child and its descendants.                                          *)
(***************************************************************************)
\* The processes that are left, g in the group and s elsewhere; the last one of all
\* closes the pipe.
Left(code, g, s) ==
    /\ child' = code
    /\ group' = (g /\ ~contained) /\ strays' = s
    /\ pipe' = IF group' \/ s \/ pipe # "unread" THEN pipe ELSE "closed"

Fork ==
    /\ child = "running"
    /\ \/ group' = TRUE /\ UNCHANGED strays
       \/ ~contained /\ strays' = TRUE /\ UNCHANGED group
    /\ UNCHANGED << contained, runner, child, stdin, pipe, result >>

\* Somebody who holds the pipe reads it to its end, or closes it.
Consume ==
    /\ child = "running" \/ group \/ strays
    /\ pipe = "unread" /\ pipe' \in {"read", "closed"}
    /\ UNCHANGED << contained, runner, child, group, strays, stdin, result >>

Exit(code) ==
    /\ child = "running"
    /\ Left(code, group, strays)
    /\ UNCHANGED << contained, runner, stdin, result >>

DescendantsEnd ==
    /\ group \/ strays
    /\ IF child = "running"
         THEN group' = FALSE /\ strays' = FALSE /\ UNCHANGED << child, pipe >>
         ELSE Left(child, FALSE, FALSE)
    /\ UNCHANGED << contained, runner, stdin, result >>

ChildStep ==
    \/ Fork \/ Consume \/ DescendantsEnd
    \/ \E code \in {"succeeded", "failed"} : Exit(code)

(***************************************************************************)
(* run_process after the launch.                                           *)
(***************************************************************************)
\* A flush into a closed pipe is forgiven, but it leaves the bytes in the buffer, and
\* close, which flushes them again, raises; a large input may not have left any.
\* Nothing limits the time that a large input takes.
WriteInput ==
    /\ runner = "write"
    /\ stdin = "large" => pipe # "unread"
    /\ pipe' = "closed"
    /\ UNCHANGED << contained, child, group, strays, stdin >>
    /\ \/ /\ stdin # "small" \/ pipe # "closed"
          /\ runner' = "wait" /\ UNCHANGED result
       \/ /\ stdin # "none" /\ pipe = "closed"
          /\ runner' = "terminate" /\ result' = "raised"

Wait ==
    /\ runner = "wait" /\ child # "running"
    /\ runner' = "done"
    /\ result' = IF child = "succeeded" THEN "ok" ELSE "transport_error"
    /\ UNCHANGED << contained, child, group, strays, stdin, pipe >>

Expire ==
    /\ runner = "wait" /\ child = "running"
    /\ runner' = "terminate" /\ result' = "timeout"
    /\ UNCHANGED << contained, child, group, strays, stdin, pipe >>

\* SIGTERM, unless the child has ended meanwhile; descendants may ignore it, as it may.
Terminate ==
    /\ runner = "terminate"
    /\ UNCHANGED << contained, child, strays, stdin, pipe, result >>
    /\ IF child # "running"
         THEN runner' = "done" /\ UNCHANGED group
         ELSE runner' = "grace" /\ group' \in {group, FALSE}

Reap ==
    /\ runner = "grace" /\ child # "running"
    /\ runner' = "done"
    /\ UNCHANGED << contained, child, group, strays, stdin, pipe, result >>

\* Mutant: the second signal is SIGTERM again, without a limit on the wait.
MildKill ==
    /\ runner = "grace" /\ child = "running"
    /\ group' \in {group, FALSE}
    /\ UNCHANGED << contained, runner, child, strays, stdin, pipe, result >>

\* SIGKILL, when the grace period is over.
Kill ==
    /\ runner = "grace" /\ child = "running"
    /\ runner' = "done"
    /\ Left("failed", FALSE, strays)
    /\ UNCHANGED << contained, stdin, result >>

RunnerStep == WriteInput \/ Wait \/ Expire \/ Terminate \/ Reap \/ Kill
================================================================================
