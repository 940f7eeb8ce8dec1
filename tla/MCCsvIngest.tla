---------------------------- MODULE MCCsvIngest ----------------------------
(***************************************************************************)
(* Constant values for CsvIngest: a file of each verdict, two requests     *)
(* that may or may not upload the same file, and a clock that runs past    *)
(* the dedup window.                                                       *)
(***************************************************************************)
EXTENDS CsvIngest, TLC

CONSTANTS t1, t2, good, bad, pii, mal, b1, b2

MCVerdict == (good :> "ok") @@ (bad :> "unparseable") @@ (pii :> "pii")
                @@ (mal :> "malformed")
MCVerdictGood == (good :> "ok")
=============================================================================
