----------------------------- MODULE MCGameRuns -----------------------------
EXTENDS GameRuns
CONSTANTS p, q, desk, f1, f2
MCRuns == {<<p, f1>>, <<q, f1>>, <<desk, f1>>, <<p, f2>>}
MCPlayed == {<<p, f1>>, <<p, f2>>}
MCCadence == f1 :> "week" @@ f2 :> "month"
MCReturns ==
    <<p, f1>> :> {-1, None} @@ <<q, f1>> :> {1} @@ <<desk, f1>> :> {1} @@ <<p, f2>> :> {1}
=============================================================================
