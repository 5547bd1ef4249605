------------------------------- MODULE Snapshots -------------------------------
(***************************************************************************)
(* What a snapshot keeps of a repository, and how it is carried over: into *)
(* a fresh worktree (materialize_snapshot), and, with what a worker has    *)
(* changed there (capture_worker_delta), into another one that proves the  *)
(* delta (replay_worker_delta_projection).                                 *)
(*                                                                         *)
(* Every operator is about one path.  A path has three entries, in the     *)
(* commit, in the index and in the working tree; an operation that may     *)
(* fail yields the set of its results, which is empty when it does.        *)
(***************************************************************************)
EXTENDS Integers

CONSTANTS
    Contents,   \* the bytes of a file, or the target of a symbolic link
    Absent,     \* the entry of a path that is not there
    Elided      \* the content of a file where a record does not keep it

ASSUME SnapshotsAssumption ==
    /\ Elided \notin Contents
    /\ Absent \notin [mode : {"regular", "executable", "symlink"},
                      content : Contents \cup {Elided}]

RegularModes == {"regular", "executable"}
Files == [mode : RegularModes \cup {"symlink"}, content : Contents]
Entries == Files \cup {Absent}
PathStates == [head : Entries, index : Entries, work : Entries]

Clean(entry) == [head |-> entry, index |-> entry, work |-> entry]

(***************************************************************************)
(* The record of a change.  A text or binary diff applies to what it was   *)
(* made from only; a change of mode keeps the two modes and nothing else.  *)
(***************************************************************************)
ModeOnly(old, new) ==
    /\ old # Absent /\ new # Absent
    /\ {old.mode, new.mode} = RegularModes
    /\ old.content = new.content

Record(old, new) ==
    IF ModeOnly(old, new)
      THEN [tag |-> "mode", old |-> [old EXCEPT !.content = Elided],
                            new |-> [new EXCEPT !.content = Elided]]
      ELSE [tag |-> "diff", old |-> old, new |-> new]

Changes(old, new) == IF old = new THEN {} ELSE {Record(old, new)}

\* What a record makes of an entry: chmod, or git apply.
Applied(record, entry) ==
    IF record.tag = "mode"
      THEN { [e EXCEPT !.mode = record.new.mode] : e \in {entry} \ {Absent} }
      ELSE IF entry = record.old THEN {record.new} ELSE {}

(***************************************************************************)
(* capture_source_snapshot, for one path.                                  *)
(***************************************************************************)
PathSnapshot(x) ==
    [ staged |-> Changes(x.head, x.index),
      unstaged |-> IF x.index = Absent THEN {} ELSE Changes(x.index, x.work),
      untracked |-> IF x.index = Absent THEN {x.work} \ {Absent} ELSE {} ]

Unchanged == [staged |-> {}, unstaged |-> {}, untracked |-> {}]

(***************************************************************************)
(* materialize_snapshot: the records of the index, of the working tree and *)
(* of the untracked files, one after the other.                            *)
(***************************************************************************)
\* git apply --index, which wants index and working tree to agree, or chmod and add.
WithStaged(x, records) ==
    IF records = {} THEN {x}
    ELSE { [head |-> x.head, index |-> e, work |-> e] :
             e \in UNION { Applied(r, x.work) :
                             r \in { s \in records : s.tag = "diff" => x.index = x.work } } }

WithUnstaged(x, records) ==
    IF records = {} THEN {x}
    ELSE { [x EXCEPT !.work = e] : e \in UNION { Applied(r, x.work) : r \in records } }

\* Nothing may be in the way of an untracked file.
WithUntracked(x, files) ==
    IF files = {} THEN {x}
    ELSE { [x EXCEPT !.work = f] : f \in { g \in files : x.work = Absent } }

\* Mutant: the files are restored before the index is.
HastyMaterialized(head, s) ==
    UNION { WithStaged(z, s.staged) :
              z \in UNION { WithUntracked(y, s.untracked) :
                              y \in WithUnstaged(Clean(head), s.unstaged) } }

Materialized(head, s) ==
    UNION { WithUntracked(z, s.untracked) :
              z \in UNION { WithUnstaged(y, s.unstaged) :
                              y \in WithStaged(Clean(head), s.staged) } }

(***************************************************************************)
(* capture_worker_delta, whose base is the tree of the materialized files, *)
(* and the replay of a delta on a materialized snapshot.                   *)
(***************************************************************************)
PathDelta(base, work) ==
    [ created |-> IF base = Absent THEN {work} \ {Absent} ELSE {},
      changed |-> IF base = Absent THEN {} ELSE Changes(base, work) ]

Replayed(head, s, delta) ==
    UNION { UNION { WithUntracked(z, delta.created) : z \in WithUnstaged(y, delta.changed) } :
              y \in Materialized(head, s) }
================================================================================
