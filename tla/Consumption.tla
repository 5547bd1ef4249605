----------------------------- MODULE Consumption -------------------------------
(***************************************************************************)
(* What consuming an invocation means, without processes, files or faults: *)
(* it is claimed once, its contents disappear only while it is claimed, it *)
(* moves on only when nothing is left, and complete is final.              *)
(***************************************************************************)
CONSTANT Contents    \* everything an invocation may own

VARIABLES stage, contents

Stages == {"active", "claimed", "contents_removed", "complete"}

ConsumptionInit == stage = "active" /\ contents \in SUBSET Contents

Claim  == stage = "active" /\ stage' = "claimed" /\ UNCHANGED contents

Remove == /\ stage = "claimed"
          /\ contents' \in SUBSET contents
          /\ UNCHANGED stage

Empty  == /\ stage = "claimed" /\ contents = {}
          /\ stage' = "contents_removed"
          /\ UNCHANGED contents

Finish == /\ stage = "contents_removed"
          /\ stage' = "complete"
          /\ UNCHANGED contents

ConsumptionNext == Claim \/ Remove \/ Empty \/ Finish

ConsumptionSpec ==
    ConsumptionInit /\ [][ConsumptionNext]_<< stage, contents >>
================================================================================
