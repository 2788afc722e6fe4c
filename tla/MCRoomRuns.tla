----------------------------- MODULE MCRoomRuns -----------------------------
(* TLC instances of RoomRuns. *)
EXTENDS RoomRuns, TLC

RunsAlike == Permutations(Runs)
=============================================================================
