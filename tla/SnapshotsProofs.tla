---------------------------- MODULE SnapshotsProofs ----------------------------
(***************************************************************************)
(* For any content of any file: a snapshot of a path, materialized in a    *)
(* clean worktree, is that path again, and the delta of whatever a worker  *)
(* did to its file, replayed there, is the worker's file again.            *)
(***************************************************************************)
EXTENDS Snapshots, TLAPS

\* A record made of two entries turns the one into the other.
LEMMA RecordApplies ==
    ASSUME NEW old \in Entries, NEW new \in Entries
    PROVE  Applied(Record(old, new), old) = {new}
<1>1. CASE ModeOnly(old, new)
  <2>1. old \in Files /\ new \in Files /\ old # Absent /\ old.content = new.content
    BY <1>1 DEF ModeOnly, Entries
  <2>2. Record(old, new).tag = "mode" /\ Record(old, new).new.mode = new.mode
    BY <1>1, <2>1 DEF Record, Files
  <2>3. Applied(Record(old, new), old) = { [old EXCEPT !.mode = new.mode] }
    BY <2>1, <2>2 DEF Applied
  <2>4. [old EXCEPT !.mode = new.mode] = new
    BY <2>1 DEF Files
  <2>5. QED  BY <2>3, <2>4
<1>2. CASE ~ModeOnly(old, new)
  BY <1>2 DEF Record, Applied
<1>3. QED  BY <1>1, <1>2

LEMMA ChangesApply ==
    ASSUME NEW x \in PathStates, NEW new \in Entries
    PROVE  WithUnstaged(x, Changes(x.work, new)) = { [x EXCEPT !.work = new] }
<1>1. CASE x.work = new
  BY <1>1 DEF Changes, WithUnstaged, PathStates
<1>2. CASE x.work # new
  <2>1. Changes(x.work, new) = {Record(x.work, new)}
    BY <1>2 DEF Changes
  <2>2. Applied(Record(x.work, new), x.work) = {new}
    BY RecordApplies DEF PathStates
  <2>3. QED  BY <2>1, <2>2 DEF WithUnstaged
<1>3. QED  BY <1>1, <1>2

LEMMA StagedApply ==
    ASSUME NEW head \in Entries, NEW index \in Entries
    PROVE  WithStaged(Clean(head), Changes(head, index)) =
               { [head |-> head, index |-> index, work |-> index] }
<1>1. CASE head = index
  BY <1>1 DEF Changes, WithStaged, Clean
<1>2. CASE head # index
  <2>1. Changes(head, index) = {Record(head, index)}
    BY <1>2 DEF Changes
  <2>2. Applied(Record(head, index), head) = {index}
    BY RecordApplies
  <2>3. Clean(head).index = head /\ Clean(head).work = head
    BY DEF Clean
  <2>4. UNION { Applied(r, Clean(head).work) :
                  r \in { s \in {Record(head, index)} :
                            s.tag = "diff" => Clean(head).index = Clean(head).work } } = {index}
    BY <2>2, <2>3
  <2>5. Clean(head).head = head
    BY DEF Clean
  <2>6. WithStaged(Clean(head), Changes(head, index)) =
            { [head |-> head, index |-> e, work |-> e] : e \in {index} }
    BY <2>1, <2>4, <2>5 DEF WithStaged
  <2>7. QED  BY <2>6
<1>3. QED  BY <1>1, <1>2

\* materialize_snapshot reproduces every path of which a snapshot was taken, whatever
\* is staged, unstaged, deleted, untracked or changed in mode: none of its checks of
\* its own work can fail.
THEOREM SnapshotIsReproduced ==
    ASSUME NEW x \in PathStates
    PROVE  Materialized(x.head, PathSnapshot(x)) = {x}
<1> DEFINE s == PathSnapshot(x)
           y == [head |-> x.head, index |-> x.index, work |-> x.index]
<1>1. x.head \in Entries /\ x.index \in Entries /\ x.work \in Entries
      /\ y \in PathStates /\ x = [y EXCEPT !.work = x.work]
  BY DEF PathStates
<1>2. WithStaged(Clean(x.head), s.staged) = {y}
  BY <1>1, StagedApply DEF PathSnapshot
<1>3. CASE x.index = Absent
  <2>1. s.unstaged = {} /\ s.untracked = {x.work} \ {Absent}
    BY <1>3 DEF PathSnapshot
  <2>2. WithUnstaged(y, s.unstaged) = {y}
    BY <2>1 DEF WithUnstaged
  <2>3. WithUntracked(y, s.untracked) = {x}
    <3>1. CASE x.work = Absent
      BY <1>1, <1>3, <2>1, <3>1 DEF WithUntracked
    <3>2. CASE x.work # Absent
      <4>1. s.untracked = {x.work} /\ y.work = Absent
        BY <1>3, <2>1, <3>2
      <4>2. QED  BY <1>1, <4>1 DEF WithUntracked
    <3>3. QED  BY <3>1, <3>2
  <2>4. QED  BY <1>2, <2>2, <2>3 DEF Materialized
<1>4. CASE x.index # Absent
  <2>1. s.unstaged = Changes(y.work, x.work) /\ s.untracked = {}
    BY <1>4 DEF PathSnapshot
  <2>2. WithUnstaged(y, s.unstaged) = {x}
    BY <1>1, <2>1, ChangesApply
  <2>3. WithUntracked(x, s.untracked) = {x}
    BY <2>1 DEF WithUntracked
  <2>4. QED  BY <1>2, <2>2, <2>3 DEF Materialized
<1>5. QED  BY <1>3, <1>4

\* The delta of whatever a worker has made of the file of a path, replayed on the
\* snapshot it started from, gives the worker's file: a faithful delta is never
\* rejected by replay_worker_delta_projection.
THEOREM DeltaIsReplayed ==
    ASSUME NEW x \in PathStates, NEW work \in Entries
    PROVE  Replayed(x.head, PathSnapshot(x), PathDelta(x.work, work)) =
               { [x EXCEPT !.work = work] }
<1> DEFINE d == PathDelta(x.work, work)
<1>1. Materialized(x.head, PathSnapshot(x)) = {x}
  BY SnapshotIsReproduced
<1>2. CASE x.work = Absent
  <2>1. d.changed = {} /\ d.created = {work} \ {Absent}
    BY <1>2 DEF PathDelta
  <2>2. WithUnstaged(x, d.changed) = {x}
    BY <2>1 DEF WithUnstaged
  <2>3. WithUntracked(x, d.created) = { [x EXCEPT !.work = work] }
    <3>1. CASE work = Absent
      BY <1>2, <2>1, <3>1 DEF WithUntracked, PathStates
    <3>2. CASE work # Absent
      <4>1. d.created = {work}
        BY <2>1, <3>2
      <4>2. QED  BY <1>2, <4>1 DEF WithUntracked
    <3>3. QED  BY <3>1, <3>2
  <2>4. QED  BY <1>1, <2>2, <2>3 DEF Replayed
<1>3. CASE x.work # Absent
  <2>1. d.changed = Changes(x.work, work) /\ d.created = {}
    BY <1>3 DEF PathDelta
  <2>2. WithUnstaged(x, d.changed) = { [x EXCEPT !.work = work] }
    BY <2>1, ChangesApply
  <2>3. WithUntracked([x EXCEPT !.work = work], d.created) = { [x EXCEPT !.work = work] }
    BY <2>1 DEF WithUntracked
  <2>4. QED  BY <1>1, <2>2, <2>3 DEF Replayed
<1>4. QED  BY <1>2, <1>3
================================================================================
