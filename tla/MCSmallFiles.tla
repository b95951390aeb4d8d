---------------------------- MODULE MCSmallFiles ----------------------------
(* The small files for TLC.                                                *)
EXTENDS SmallFiles, TLC

FewFiles == "service" :> 4 @@ "local" :> 5
=============================================================================
