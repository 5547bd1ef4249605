-------------------------- MODULE IntegrationProofs ---------------------------
(***************************************************************************)
(* Proofs about Integration, for any transactions, paths and deltas and    *)
(* any number of edits: what a transaction reports is true of the paths it *)
(* wrote, and of two that were reviewed against the same source at most    *)
(* one stands.                                                             *)
(***************************************************************************)
EXTENDS Integration, TLAPS

(***************************************************************************)
(* The inductive invariant.                                                *)
(***************************************************************************)
\* The stages in which a transaction has written nothing yet.
Before == {"start", "first", "check", "simulate", "second", "load"}

\* Where a transaction is, and what it must have found to get there.
Located == \A t \in Transactions :
    /\ pc[t] = "done" <=> status[t] # "none"
    /\ applied[t] => pc[t] = "done"
    /\ pc[t] \in {"load", "write"} => unread[t] \subseteq delta[t]
    /\ pc[t] \in {"load", "write", "failed", "final"} \/ applied[t] => delta[t] # {}
    /\ Ok(t) => unread[t] = {}

\* What a transaction has written last is not what the snapshot had there.
Marked == \A p \in Paths : writer[p] # User => dest[p] # {}

\* A transaction has written nothing before it writes, and nothing either where a
\* capture after its failure found the path as in the snapshot.
Untouched == \A t \in Transactions :
    /\ pc[t] \in Before => \A p \in Paths : writer[p] # t
    /\ pc[t] = "failed" /\ same[t] => \A p \in Paths \ unread[t] : writer[p] # t

\* The final capture of t has found no difference so far, or is over without one.
Verified(t) == (pc[t] = "final" /\ same[t]) \/ Ok(t)

Approved == \A t \in Transactions :
    Verified(t) => \A p \in steady[t] \ unread[t] : dest[p] = Projected(t)[p]

\* The final capture of t found q, which its delta leaves alone, before u wrote it.
Missed(t, u, q) == /\ Verified(t)
                   /\ q \in Paths \ (delta[t] \cup unread[t])
                   /\ writer[q] = u

\* Of two transactions one at least has written all before the other's capture.
Apart == \A t, u \in Transactions : \A p, q \in Paths :
    t # u => ~(Missed(t, u, q) /\ Missed(u, t, p))

Invariant == TypeOK /\ Located /\ Marked /\ Untouched /\ Approved /\ Apart

IInv == Invariant /\ NotAppliedMeansUntouched

(***************************************************************************)
(* Init, and the two kinds of steps that leave the destination alone.      *)
(***************************************************************************)
LEMMA DeltaInPaths ==
    ASSUME TypeOK, NEW t \in Transactions
    PROVE  delta[t] \subseteq Allowed /\ delta[t] \subseteq Paths
BY IntegrationAssumption DEF TypeOK, Paths

\* The invariant of the final captures holds where the tree is as it was, and nobody is
\* verified, or claims a path, who did not before.
LEMMA ApprovedStays ==
    ASSUME Approved, UNCHANGED << dest, delta >>,
           \A t \in Transactions : Verified(t)' =>
               \A p \in steady'[t] \ unread'[t] : Verified(t) /\ p \in steady[t] \ unread[t]
    PROVE  Approved'
<1> SUFFICES ASSUME NEW t \in Transactions, Verified(t)', NEW p \in steady'[t] \ unread'[t]
             PROVE  dest'[p] = Projected(t)'[p]
  BY DEF Approved
<1>1. Projected(t)' = Projected(t) /\ dest'[p] = dest[p]
  BY DEF Projected
<1>2. dest[p] = Projected(t)[p]
  BY DEF Approved
<1>3. QED  BY <1>1, <1>2

LEMMA InitIInv == Init => IInv
<1> SUFFICES ASSUME Init  PROVE IInv
  OBVIOUS
<1> USE DEF Init
<1>1. TypeOK
  BY IntegrationAssumption DEF TypeOK, Unedited, Stages, Captures, Statuses
<1>2. Located /\ Marked
  BY DEF Located, Marked, Ok
<1>3. Untouched /\ NotAppliedMeansUntouched
  BY IntegrationAssumption DEF Untouched, NotAppliedMeansUntouched
<1>4. Approved /\ Apart
  BY DEF Approved, Apart, Missed, Verified, Ok
<1>5. QED  BY <1>1, <1>2, <1>3, <1>4 DEF IInv, Invariant

\* A transaction ends: what it reports must be known by then.
LEMMA FinishIInv ==
    ASSUME IInv, NEW t \in Transactions, NEW s \in Statuses \ {"none"}, NEW w \in BOOLEAN,
           Finish(t, s, w), pc[t] # "done",
           ~w => \A p \in Paths : writer[p] # t,
           w => delta[t] # {},
           s = "ok" /\ w => pc[t] = "final" /\ same[t] /\ unread[t] = {}
    PROVE  IInv'
<1> USE DEF Finish, destVars
<1>1. TypeOK'
  BY DEF IInv, Invariant, TypeOK, Stages
<1>2. /\ pc'[t] = "done" /\ status'[t] = s /\ applied'[t] = w
      /\ \A u \in Transactions \ {t} :
            pc'[u] = pc[u] /\ status'[u] = status[u] /\ applied'[u] = applied[u]
  BY DEF IInv, Invariant, TypeOK
<1>3. Located'
  BY <1>2 DEF IInv, Invariant, Located, Ok
<1>4. Marked'
  BY DEF IInv, Invariant, Marked
<1>5. Untouched' /\ NotAppliedMeansUntouched'
  BY <1>2 DEF IInv, Invariant, Untouched, NotAppliedMeansUntouched, Before
<1>6. \A u \in Transactions : Verified(u)' => Verified(u)
  BY <1>2 DEF Verified, Ok
<1>7. Approved'
  BY <1>6, ApprovedStays DEF IInv, Invariant
<1>8. Apart'
  BY <1>6 DEF IInv, Invariant, Apart, Missed
<1>9. QED  BY <1>1, <1>3, <1>4, <1>5, <1>7, <1>8 DEF IInv, Invariant

\* A transaction goes on to another stage, and its next capture has read nothing yet.
LEMMA ProceedIInv ==
    ASSUME IInv, NEW t \in Transactions, NEW stage \in Stages \ {"done"}, Proceed(t, stage),
           pc[t] # "done",
           stage \in Before => pc[t] \in Before,
           stage \in {"load", "write", "failed", "final"} => delta[t] # {}
    PROVE  IInv'
<1> USE DEF Proceed, Enter, destVars
<1>0. delta[t] \subseteq Paths
  BY DeltaInPaths DEF IInv, Invariant
<1>1. TypeOK'
  BY <1>0 DEF IInv, Invariant, TypeOK
<1>2. /\ pc'[t] = stage
      /\ stage \in Captures => unread'[t] = Paths
      /\ stage \in {"load", "write"} => unread'[t] = delta[t]
      /\ \A u \in Transactions \ {t} :
            pc'[u] = pc[u] /\ unread'[u] = unread[u] /\ same'[u] = same[u]
            /\ steady'[u] = steady[u]
  BY DEF IInv, Invariant, TypeOK, Captures
<1>3. status[t] = "none" /\ ~applied[t]
  BY DEF IInv, Invariant, Located, TypeOK
<1>4. Located'
  BY <1>2, <1>3 DEF IInv, Invariant, Located, Ok
<1>5. Marked'
  BY DEF IInv, Invariant, Marked
<1>6. Untouched' /\ NotAppliedMeansUntouched'
  BY <1>2 DEF IInv, Invariant, Untouched, NotAppliedMeansUntouched, Before, Captures
<1>7. \A u \in Transactions : Verified(u)' => \/ Verified(u) /\ unread'[u] = unread[u]
                                                 /\ steady'[u] = steady[u]
                                              \/ unread'[u] = Paths
  BY <1>2, <1>3 DEF Verified, Ok, Captures
<1>8. Approved'
  <2>1. steady' \in [Transactions -> SUBSET Paths]
    BY <1>1 DEF TypeOK
  <2>2. QED  BY <1>7, <2>1 DEF IInv, Invariant, Approved, Projected
<1>9. Apart'
  BY <1>7 DEF IInv, Invariant, Apart, Missed
<1>10. QED  BY <1>1, <1>4, <1>5, <1>6, <1>8, <1>9 DEF IInv, Invariant

(***************************************************************************)
(* Reading, loading and writing one path.                                  *)
(***************************************************************************)
LEMMA ReadPathIInv ==
    ASSUME IInv, NEW t \in Transactions, NEW p \in Paths, ReadPath(t, p)
    PROVE  IInv'
<1> USE DEF ReadPath, destVars
<1>1. TypeOK'
  BY DEF IInv, Invariant, TypeOK
<1>2. /\ unread'[t] = unread[t] \ {p}
      /\ same'[t] = (same[t] /\ dest[p] = Expected(t)[p])
      /\ \A u \in Transactions \ {t} : unread'[u] = unread[u] /\ same'[u] = same[u]
  BY DEF IInv, Invariant, TypeOK
<1>3. Located'
  BY <1>2 DEF IInv, Invariant, Located, Ok, Captures
<1>4. Marked' /\ NotAppliedMeansUntouched'
  BY DEF IInv, Invariant, Marked, NotAppliedMeansUntouched
<1>5. pc[t] = "failed" /\ same'[t] => dest[p] = {} /\ writer[p] # t
  <2>1. pc[t] = "failed" => Expected(t)[p] = {}
    BY DEF Expected, Unedited
  <2>2. dest[p] = {} => writer[p] # t
    BY IntegrationAssumption DEF IInv, Invariant, Marked
  <2>3. QED  BY <1>2, <2>1, <2>2
<1>6. Untouched'
  <2> SUFFICES ASSUME NEW u \in Transactions
               PROVE  /\ pc'[u] \in Before => \A q \in Paths : writer'[q] # u
                      /\ pc'[u] = "failed" /\ same'[u] =>
                            \A q \in Paths \ unread'[u] : writer'[q] # u
    BY DEF Untouched
  <2>1. CASE u # t
    BY <1>2, <2>1 DEF IInv, Invariant, Untouched
  <2>2. CASE u = t
    <3>1. same'[t] => same[t]
      BY <1>2
    <3>2. QED  BY <1>2, <1>5, <2>2, <3>1 DEF IInv, Invariant, Untouched, Before, Captures
  <2>3. QED  BY <2>1, <2>2
<1>7. \A u \in Transactions : Verified(u)' => Verified(u)
  BY <1>2 DEF Verified, Ok
<1>8. Verified(t)' => dest[p] = Projected(t)[p]
  BY <1>2 DEF IInv, Invariant, Located, Verified, Ok, Expected, Captures
<1>9. Approved'
  <2> SUFFICES ASSUME NEW u \in Transactions, Verified(u)', NEW q \in steady'[u] \ unread'[u]
               PROVE  dest'[q] = Projected(u)'[q]
    BY DEF Approved
  <2>1. Projected(u)' = Projected(u) /\ dest'[q] = dest[q] /\ steady'[u] = steady[u]
    BY DEF Projected
  <2>2. CASE u = t /\ q = p
    BY <1>8, <2>1, <2>2
  <2>3. CASE ~(u = t /\ q = p)
    <3>1. Verified(u) /\ q \in steady[u] \ unread[u]
      BY <1>2, <1>7, <2>1, <2>3
    <3>2. QED  BY <2>1, <3>1 DEF IInv, Invariant, Approved
  <2>4. QED  BY <2>2, <2>3
<1>10. Verified(t)' /\ p \notin delta[t] => writer[p] = User
  BY <1>8 DEF IInv, Invariant, Marked, Projected
<1>11. \A u, v \in Transactions : \A q \in Paths :
          Missed(u, v, q)' => Missed(u, v, q)
  BY <1>2, <1>7, <1>10, IntegrationAssumption DEF Missed
<1>12. Apart'
  BY <1>11 DEF IInv, Invariant, Apart
<1>13. QED  BY <1>1, <1>3, <1>4, <1>6, <1>9, <1>12 DEF IInv, Invariant

LEMMA LoadPathIInv ==
    ASSUME IInv, NEW t \in Transactions, NEW p \in Paths, LoadPath(t, p)
    PROVE  IInv'
<1> USE DEF LoadPath, destVars
<1>1. TypeOK'
  <2>1. unread[t] \subseteq delta[t] /\ delta[t] \subseteq Allowed
    BY DeltaInPaths DEF IInv, Invariant, Located
  <2>2. p \in Allowed /\ dest[p] \in SUBSET Edits
    BY <2>1 DEF IInv, Invariant, TypeOK
  <2>3. image' \in [Transactions -> [Allowed -> SUBSET Edits]]
    BY <2>2 DEF IInv, Invariant, TypeOK
  <2>4. QED  BY <2>3 DEF IInv, Invariant, TypeOK
<1>2. /\ unread'[t] = unread[t] \ {p}
      /\ \A u \in Transactions \ {t} : unread'[u] = unread[u]
  BY DEF IInv, Invariant, TypeOK
<1>3. Located'
  BY <1>2 DEF IInv, Invariant, Located, Ok
<1>4. Marked' /\ NotAppliedMeansUntouched'
  BY DEF IInv, Invariant, Marked, NotAppliedMeansUntouched
<1>5. Untouched'
  BY <1>2 DEF IInv, Invariant, Untouched
<1>6. \A u \in Transactions : Verified(u)' => Verified(u) /\ unread'[u] = unread[u]
  BY <1>2 DEF IInv, Invariant, Located, Verified, Ok
<1>7. Approved'
  BY <1>6, ApprovedStays DEF IInv, Invariant
<1>8. Apart'
  BY <1>6 DEF IInv, Invariant, Apart, Missed
<1>9. QED  BY <1>1, <1>3, <1>4, <1>5, <1>7, <1>8 DEF IInv, Invariant

\* A path is overwritten by w, who leaves the mark of a transaction on it if he is one,
\* and is not verified while he writes.
LEMMA OverwriteKeeps ==
    ASSUME IInv, NEW p \in Paths, NEW content \in SUBSET Edits,
           NEW w \in Transactions \cup {User}, Overwrite(p, content, w),
           w # User => content # {} /\ pc[w] = "write",
           \A t \in Transactions : Verified(t)' => Verified(t) /\ unread'[t] = unread[t],
           UNCHANGED delta
    PROVE  /\ dest' \in [Paths -> SUBSET Edits]
           /\ writer' \in [Paths -> Transactions \cup {User}]
           /\ steady' \in [Transactions -> SUBSET Paths]
           /\ Marked' /\ Approved' /\ Apart'
           /\ \A t \in Transactions \ {w}, q \in Paths : writer'[q] = t => writer[q] = t
<1> USE DEF Overwrite
<1>1. /\ dest' \in [Paths -> SUBSET Edits]
      /\ writer' \in [Paths -> Transactions \cup {User}]
      /\ steady' \in [Transactions -> SUBSET Paths]
  BY DEF IInv, Invariant, TypeOK
<1>2. /\ dest'[p] = content /\ writer'[p] = w
      /\ \A q \in Paths \ {p} : dest'[q] = dest[q] /\ writer'[q] = writer[q]
  BY DEF IInv, Invariant, TypeOK
<1>3. Marked'
  BY <1>2 DEF IInv, Invariant, Marked
<1>4. Approved'
  <2> SUFFICES ASSUME NEW t \in Transactions, Verified(t)', NEW q \in steady'[t] \ unread'[t]
               PROVE  dest'[q] = Projected(t)'[q]
    BY DEF Approved
  <2>1. Verified(t) /\ unread'[t] = unread[t] /\ steady'[t] = steady[t] \ {p}
    OBVIOUS
  <2>2. q \in Paths \ {p}
    BY <2>1, <1>1
  <2>3. QED  BY <2>1, <2>2, <1>2 DEF IInv, Invariant, Approved, Projected
<1>5. Apart'
  <2> SUFFICES ASSUME NEW t \in Transactions, NEW u \in Transactions,
                      NEW a \in Paths, NEW b \in Paths, t # u,
                      Missed(t, u, b)', Missed(u, t, a)'
               PROVE  FALSE
    BY DEF Apart
  <2>1. /\ Verified(t) /\ Verified(u)
        /\ b \in Paths \ (delta[t] \cup unread[t]) /\ a \in Paths \ (delta[u] \cup unread[u])
        /\ writer'[b] = u /\ writer'[a] = t
    BY DEF Missed
  <2>2. pc[t] # "write" /\ pc[u] # "write"
    BY <2>1 DEF IInv, Invariant, Located, Verified, Ok
  <2>3. t # w /\ u # w
    BY <2>2, IntegrationAssumption
  <2>4. writer[b] = u /\ writer[a] = t
    BY <2>1, <2>3, <1>2
  <2>5. QED  BY <2>1, <2>4 DEF IInv, Invariant, Apart, Missed
<1>6. QED  BY <1>1, <1>2, <1>3, <1>4, <1>5

LEMMA WritePathIInv ==
    ASSUME IInv, NEW t \in Transactions, NEW p \in Paths, WritePath(t, p)
    PROVE  IInv'
<1> DEFINE content == image[t][p] \cup {t}
<1> USE DEF WritePath
<1>1. unread[t] \subseteq delta[t] /\ delta[t] \subseteq Allowed
  BY DeltaInPaths DEF IInv, Invariant, Located
<1>2. content \in SUBSET Edits /\ content # {}
  BY <1>1 DEF IInv, Invariant, TypeOK, Edits
<1>3. /\ unread'[t] = unread[t] \ {p}
      /\ \A u \in Transactions \ {t} : unread'[u] = unread[u]
      /\ unread' \in [Transactions -> SUBSET Paths]
  BY DEF IInv, Invariant, TypeOK
<1>4. \A u \in Transactions : Verified(u)' => Verified(u) /\ unread'[u] = unread[u]
  BY <1>3 DEF IInv, Invariant, Located, Verified, Ok
<1>5. /\ dest' \in [Paths -> SUBSET Edits]
      /\ writer' \in [Paths -> Transactions \cup {User}]
      /\ steady' \in [Transactions -> SUBSET Paths]
      /\ Marked' /\ Approved' /\ Apart'
      /\ \A u \in Transactions \ {t}, q \in Paths : writer'[q] = u => writer[q] = u
  <2>1. Overwrite(p, content, t) /\ UNCHANGED delta /\ pc[t] = "write"
    OBVIOUS
  <2> HIDE DEF content
  <2>2. QED  BY <1>2, <1>4, <2>1, OverwriteKeeps
<1>6. TypeOK'
  BY <1>3, <1>5 DEF IInv, Invariant, TypeOK
<1>7. Located'
  BY <1>3 DEF IInv, Invariant, Located, Ok
<1>8. Untouched' /\ NotAppliedMeansUntouched'
  BY <1>3, <1>5 DEF IInv, Invariant, Untouched, NotAppliedMeansUntouched, Before
<1>9. QED  BY <1>5, <1>6, <1>7, <1>8 DEF IInv, Invariant

LEMMA WriteFailsIInv ==
    ASSUME IInv, NEW t \in Transactions, NEW p \in Paths, WriteFails(t, p)
    PROVE  IInv'
<1> USE DEF WriteFails
<1>1. {Torn} \in SUBSET Edits /\ {Torn} # {}
  BY DEF Edits
<1>2. /\ pc'[t] = "failed" /\ unread'[t] = Paths
      /\ \A u \in Transactions \ {t} :
            pc'[u] = pc[u] /\ unread'[u] = unread[u] /\ same'[u] = same[u]
      /\ pc' \in [Transactions -> Stages]
      /\ unread' \in [Transactions -> SUBSET Paths] /\ same' \in [Transactions -> BOOLEAN]
  BY DEF IInv, Invariant, TypeOK, Stages, Captures
<1>3. status[t] = "none" /\ ~applied[t]
  BY DEF IInv, Invariant, Located, TypeOK
<1>4. \A u \in Transactions : Verified(u)' => Verified(u) /\ unread'[u] = unread[u]
  BY <1>2, <1>3 DEF Verified, Ok
<1>5. /\ dest' \in [Paths -> SUBSET Edits]
      /\ writer' \in [Paths -> Transactions \cup {User}]
      /\ steady' \in [Transactions -> SUBSET Paths]
      /\ Marked' /\ Approved' /\ Apart'
      /\ \A u \in Transactions \ {t}, q \in Paths : writer'[q] = u => writer[q] = u
  BY <1>1, <1>4, OverwriteKeeps, IntegrationAssumption
<1>6. TypeOK'
  BY <1>2, <1>5 DEF IInv, Invariant, TypeOK
<1>7. Located'
  BY <1>2, <1>3 DEF IInv, Invariant, Located, Ok
<1>8. Untouched' /\ NotAppliedMeansUntouched'
  BY <1>2, <1>5 DEF IInv, Invariant, Untouched, NotAppliedMeansUntouched, Before
<1>9. QED  BY <1>5, <1>6, <1>7, <1>8 DEF IInv, Invariant

(***************************************************************************)
(* The user.                                                               *)
(***************************************************************************)
LEMMA UserIInv ==
    ASSUME IInv, NEW p \in Paths, NEW content \in SUBSET Edits, Overwrite(p, content, User),
           made' \in 0 .. MaxEdits, withdrawn' \subseteq UserEdits,
           UNCHANGED << pc, verdict, delta, unread, same, image, status, applied >>
    PROVE  IInv'
<1>1. \A u \in Transactions : Verified(u)' => Verified(u) /\ unread'[u] = unread[u]
  BY DEF Verified, Ok
<1>2. /\ dest' \in [Paths -> SUBSET Edits]
      /\ writer' \in [Paths -> Transactions \cup {User}]
      /\ steady' \in [Transactions -> SUBSET Paths]
      /\ Marked' /\ Approved' /\ Apart'
      /\ \A u \in Transactions \ {User}, q \in Paths : writer'[q] = u => writer[q] = u
  BY <1>1, OverwriteKeeps
<1>3. TypeOK'
  BY <1>2 DEF IInv, Invariant, TypeOK
<1>4. Located'
  BY DEF IInv, Invariant, Located, Ok
<1>5. Untouched' /\ NotAppliedMeansUntouched'
  BY <1>2, IntegrationAssumption DEF IInv, Invariant, Untouched, NotAppliedMeansUntouched
<1>6. QED  BY <1>2, <1>3, <1>4, <1>5 DEF IInv, Invariant

LEMMA EditIInv ==
    ASSUME IInv, NEW p \in Paths, Edit(p)
    PROVE  IInv'
<1>1. made' \in 0 .. MaxEdits /\ made' \in UserEdits
  BY IntegrationAssumption DEF Edit, IInv, Invariant, TypeOK, UserEdits
<1>2. dest[p] \cup {made'} \in SUBSET Edits
  BY <1>1 DEF IInv, Invariant, TypeOK, Edits
<1>3. withdrawn' \subseteq UserEdits
  BY DEF Edit, IInv, Invariant, TypeOK
<1>4. QED  BY <1>1, <1>2, <1>3, UserIInv DEF Edit

LEMMA RestoreIInv ==
    ASSUME IInv, NEW p \in Paths, Restore(p)
    PROVE  IInv'
<1>1. made' \in 0 .. MaxEdits /\ made' \in UserEdits
  BY IntegrationAssumption DEF Restore, IInv, Invariant, TypeOK, UserEdits
<1>2. withdrawn' \subseteq UserEdits
  BY <1>1 DEF Restore, IInv, Invariant, TypeOK
<1>3. QED  BY <1>1, <1>2, UserIInv DEF Restore

(***************************************************************************)
(* Every step of a transaction.                                            *)
(***************************************************************************)
LEMMA StepIInv ==
    ASSUME IInv, NEW t \in Transactions, Step(t)
    PROVE  IInv'
<1> USE DEF Captured
<1>0. /\ pc[t] \in Before => \A p \in Paths : writer[p] # t
      /\ pc[t] \in {"load", "write", "failed", "final"} => delta[t] # {}
  BY DEF IInv, Invariant, Untouched, Located
<1>1. CASE CheckApproval(t)
  <2>1. CASE Finish(t, "review_revise", FALSE)
    BY <1>0, <1>1, <2>1, FinishIInv DEF CheckApproval, Before, Statuses
  <2>2. CASE Finish(t, "approval_stale", FALSE)
    BY <1>0, <1>1, <2>2, FinishIInv DEF CheckApproval, Before, Statuses
  <2>3. CASE Proceed(t, "first")
    BY <1>1, <2>3, ProceedIInv DEF CheckApproval, Before, Stages, Captures
  <2>4. QED  BY <1>1, <2>1, <2>2, <2>3 DEF CheckApproval
<1>2. CASE FirstCapture(t)
  <2>1. CASE Finish(t, "destination_changed", FALSE)
    BY <1>0, <1>2, <2>1, FinishIInv DEF FirstCapture, Before, Statuses
  <2>2. CASE Finish(t, "scope_violation", FALSE)
    BY <1>0, <1>2, <2>2, FinishIInv DEF FirstCapture, Before, Statuses
  <2>3. CASE Proceed(t, "check")
    BY <1>2, <2>3, ProceedIInv DEF FirstCapture, Before, Stages, Captures
  <2>4. QED  BY <1>2, <2>1, <2>2, <2>3 DEF FirstCapture
<1>3. CASE ApplyCheck(t)
  <2>1. CASE Finish(t, "transport_error", FALSE)
    BY <1>0, <1>3, <2>1, FinishIInv DEF ApplyCheck, Before, Statuses
  <2>2. CASE Proceed(t, "simulate")
    BY <1>3, <2>2, ProceedIInv DEF ApplyCheck, Before, Stages, Captures
  <2>3. QED  BY <1>3, <2>1, <2>2 DEF ApplyCheck
<1>4. CASE Simulate(t)
  <2>1. CASE Finish(t, "transport_error", FALSE)
    BY <1>0, <1>4, <2>1, FinishIInv DEF Simulate, Before, Statuses
  <2>2. CASE Proceed(t, "second")
    BY <1>4, <2>2, ProceedIInv DEF Simulate, Before, Stages, Captures
  <2>3. QED  BY <1>4, <2>1, <2>2 DEF Simulate
<1>5. CASE SecondCapture(t)
  <2>1. CASE Finish(t, "destination_changed", FALSE)
    BY <1>0, <1>5, <2>1, FinishIInv DEF SecondCapture, Before, Statuses
  <2>2. CASE Finish(t, "ok", FALSE)
    BY <1>0, <1>5, <2>2, FinishIInv DEF SecondCapture, Before, Statuses
  <2>3. CASE Proceed(t, "load") /\ delta[t] # {}
    BY <1>5, <2>3, ProceedIInv DEF SecondCapture, Before, Stages, Captures
  <2>4. QED  BY <1>5, <2>1, <2>2, <2>3 DEF SecondCapture
<1>6. CASE Loaded(t)
  BY <1>0, <1>6, ProceedIInv DEF Loaded, Before, Stages, Captures
<1>7. CASE Written(t)
  BY <1>0, <1>7, ProceedIInv DEF Written, Before, Stages, Captures
<1>8. CASE ApplyFails(t)
  BY <1>0, <1>8, ProceedIInv DEF ApplyFails, Before, Stages, Captures
<1>9. CASE FailedCapture(t)
  <2>1. same[t] => \A p \in Paths : writer[p] # t
    BY <1>9 DEF FailedCapture, IInv, Invariant, Untouched
  <2>2. same[t] \in BOOLEAN
    BY DEF IInv, Invariant, TypeOK
  <2>3. QED  BY <1>0, <1>9, <2>1, <2>2, FinishIInv DEF FailedCapture, Statuses
<1>10. CASE FinalCapture(t)
  <2>1. CASE same[t]
    BY <1>0, <1>10, <2>1, FinishIInv DEF FinalCapture, Statuses
  <2>2. CASE ~same[t]
    BY <1>0, <1>10, <2>2, FinishIInv DEF FinalCapture, Statuses
  <2>3. QED  BY <2>1, <2>2
<1>11. CASE CaptureFails(t)
  <2>1. CASE pc[t] \in {"first", "second"} /\ Finish(t, "destination_changed", FALSE)
    BY <1>0, <2>1, FinishIInv DEF Before, Statuses
  <2>2. CASE pc[t] = "simulate" /\ Finish(t, "transport_error", FALSE)
    BY <1>0, <2>2, FinishIInv DEF Before, Statuses
  <2>3. CASE pc[t] \in {"failed", "final"} /\ Finish(t, "transport_error", TRUE)
    BY <1>0, <2>3, FinishIInv DEF Before, Statuses
  <2>4. QED  BY <1>11, <2>1, <2>2, <2>3 DEF CaptureFails
<1>12. QED
  BY <1>1, <1>2, <1>3, <1>4, <1>5, <1>6, <1>7, <1>8, <1>9, <1>10, <1>11,
     ReadPathIInv, LoadPathIInv, WritePathIInv, WriteFailsIInv DEF Step

LEMMA NextIInv == IInv /\ [Next]_vars => IInv'
<1> SUFFICES ASSUME IInv, [Next]_vars  PROVE IInv'
  OBVIOUS
<1>1. CASE UNCHANGED vars
  <2> USE <1>1 DEF vars, destVars
  <2>1. TypeOK'
    BY DEF IInv, Invariant, TypeOK
  <2>2. Located' /\ Marked' /\ Untouched' /\ NotAppliedMeansUntouched'
    BY DEF IInv, Invariant, Located, Marked, Untouched, NotAppliedMeansUntouched, Ok
  <2>3. \A t \in Transactions : Verified(t)' = Verified(t)
    BY DEF Verified, Ok
  <2>4. Approved'
    BY <2>3, ApprovedStays DEF IInv, Invariant
  <2>5. Apart'
    BY <2>3 DEF IInv, Invariant, Apart, Missed
  <2>6. QED  BY <2>1, <2>2, <2>4, <2>5 DEF IInv, Invariant
<1>2. CASE Next
  BY <1>2, StepIInv, EditIInv, RestoreIInv DEF Next
<1>3. QED  BY <1>1, <1>2

(***************************************************************************)
(* What the invariant implies.                                             *)
(***************************************************************************)
LEMMA Invariance == Spec => []IInv
BY InitIInv, NextIInv, PTL DEF Spec

\* Every variable of Integration keeps its type, through whatever edits and failures.
THEOREM TypeCorrect == Spec => []TypeOK
<1>1. IInv => TypeOK
  BY DEF IInv, Invariant
<1>2. QED  BY <1>1, Invariance, PTL

\* A transaction that reports that it has applied nothing has left nothing behind, not
\* even half a file (the comparison after a failed git apply).
THEOREM NothingLeftBehind == Spec => []NotAppliedMeansUntouched
<1>1. IInv => NotAppliedMeansUntouched
  BY DEF IInv
<1>2. QED  BY <1>1, Invariance, PTL

\* What an ok says of the tree is true of every path that nobody has written since the
\* final capture began.
THEOREM OkIsTrue == Spec => []OkMeansApproved
<1>1. IInv => OkMeansApproved
  <2> SUFFICES ASSUME IInv, NEW t \in Transactions, Ok(t), NEW p \in steady[t]
               PROVE  dest[p] = Projected(t)[p]
    BY DEF OkMeansApproved
  <2>1. Verified(t) /\ unread[t] = {}
    BY DEF IInv, Invariant, Located, Verified
  <2>2. QED  BY <2>1 DEF IInv, Invariant, Approved
<1>2. QED  BY <1>1, Invariance, PTL

\* Of two deltas that were reviewed against the same source at most one stands as applied
\* and verified, although nothing locks the tree.
THEOREM AtMostOneStands == Spec => []OneStands
<1>1. IInv => OneStands
  <2> SUFFICES ASSUME IInv, NEW t \in Transactions, NEW u \in Transactions,
                      t # u, Ok(t), Ok(u), Stands(t), Stands(u)
               PROVE  FALSE
    BY DEF OneStands
  <2>1. /\ delta[t] # {} /\ delta[u] # {}
        /\ unread[t] = {} /\ unread[u] = {}
        /\ Verified(t) /\ Verified(u)
    BY DEF IInv, Invariant, Located, Verified, Ok
  <2>2. PICK p \in delta[t], q \in delta[u] : TRUE
    BY <2>1
  <2>3. writer[p] = t /\ writer[q] = u /\ p \notin delta[u] /\ q \notin delta[t]
    BY <2>2 DEF Stands
  <2>4. p \in Paths /\ q \in Paths
    BY <2>2, DeltaInPaths DEF IInv, Invariant
  <2>5. Missed(t, u, q) /\ Missed(u, t, p)
    BY <2>1, <2>3, <2>4 DEF Missed
  <2>6. QED  BY <2>4, <2>5 DEF IInv, Invariant, Apart
<1>2. QED  BY <1>1, Invariance, PTL
================================================================================
