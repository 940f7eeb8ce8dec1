------------------------- MODULE MCConsumerPipeline -------------------------
(***************************************************************************)
(* Constant values for ConsumerPipeline: a catalogue and a sales chunk     *)
(* that needs it.  Either the sales chunk has one of the faults or the     *)
(* catalogue one of two: it is held, or it gets to the tables in part or   *)
(* not at all.                                                             *)
(***************************************************************************)
EXTENDS ConsumerPipeline, TLC

CONSTANTS c1, c2, cat, sale

MCNeeds == (cat :> {}) @@ (sale :> {cat})
MCFaultMaps == {m \in [{cat, sale} -> Faults] :
    \/ m[cat] = "none"
    \/ m[cat] \in {"rows", "unwritable"} /\ m[sale] = "none"}
=============================================================================
