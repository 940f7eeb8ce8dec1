------------------------- MODULE MCMappingTemplates -------------------------
(***************************************************************************)
(* Constant values for MappingTemplates: one template may exist, another *)
(* be created, two names are in use between them.                          *)
(***************************************************************************)
EXTENDS MappingTemplates, TLC

CONSTANTS r1, r2, r3, t1, t2, sales, stock

MCSeeded == t1 :> sales

\* Requests are interchangeable.
MCSymmetry == Permutations(Requests)
=============================================================================
