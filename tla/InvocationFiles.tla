---------------------------- MODULE InvocationFiles ----------------------------
(***************************************************************************)
(* The filesystem state of ONE invocation that several components share:   *)
(* the private root directory and its recorded entries, git's registration *)
(* of the worktree, and the two seal receipts kept beside the root.        *)
(* Identities (device, inode, owner, mode) of the recorded paths are taken *)
(* as intact: nobody swaps a recorded path for another file.               *)
(***************************************************************************)
EXTENDS Naturals, Sequences, FiniteSets

CONSTANTS
    Markers,   \* the ownership markers, eight in the code
    Inodes,    \* inodes that a seal receipt can be
    NoInode,   \* "no file of that name"
    Nobody     \* stands for no process

\* The order in which cleanup removes the recorded entries; the markers are
\* removed in one go, each of their unlinks being idempotent.
Directories == {"worktree", "route_state", "evidence"}
RemovalOrder == << {"worktree"}, {"route_state"}, {"evidence"}, {"bundle"},
                   Markers, {"manifest"} >>
Recorded == Directories \cup {"bundle", "manifest"} \cup Markers

\* What every load, seal, read and first cleanup demands to find. The worktree
\* and the bundle come later in an invocation's life and may be missing.
Required == Recorded \ {"worktree", "bundle"}

\* An entry nobody recorded: a packet a user left in the root, for instance.
Stray == "stray"

SealFiles == {"claim", "final"}

ASSUME InvocationFilesAssumption ==
    /\ Markers # {}
    /\ Markers \cap (Directories \cup {"bundle", "manifest", Stray}) = {}
    /\ NoInode \notin Inodes

VARIABLES
    root,        \* the invocation root exists
    entries,     \* the names present under it
    registered,  \* git lists the worktree path as registered
    seal,        \* the inode each external seal receipt name stands for
    held         \* the inodes that a live sealer has flocked

filesVars == << root, entries, registered, seal, held >>

FilesTypeOK ==
    /\ root \in BOOLEAN
    /\ entries \subseteq Recorded \cup {Stray}
    /\ registered \in BOOLEAN
    /\ seal \in [SealFiles -> Inodes \cup {NoInode}]
    /\ held \subseteq Inodes

\* The complete active layout; the scan is one step because a recorded
\* required entry only ever disappears.
LayoutValid == root /\ Required \subseteq entries

\* Nothing recorded is left under the root and git has forgotten the worktree.
ContentsGone == entries \cap Recorded = {} /\ ~registered

NoSealFiles == \A f \in SealFiles : seal[f] = NoInode
================================================================================
