--------------------------- MODULE MCAccountMerge ---------------------------
(***************************************************************************)
(* A TLC instance of AccountMerge: two quarterly fields.  The guest meets  *)
(* another player in the first, and may meet the user in the second.       *)
(***************************************************************************)
EXTENDS AccountMerge

CONSTANTS guest, user, other, f, g

MCCadence == f :> "quarter" @@ g :> "quarter"
MCStarts == f :> 1 @@ g :> 2
\* A stipend of one field excludes one of the other.
MCPeriod == f :> "Q1" @@ g :> "Q1"
MCRuns == {<<guest, f>>, <<other, f>>, <<user, g>>, <<guest, g>>}
MCEligible == {<<guest, f>>, <<user, g>>}
MCRequests == {<<guest, "forfeit", <<guest, g>>>>, <<guest, "queue", <<guest, f>>>>}
=============================================================================
