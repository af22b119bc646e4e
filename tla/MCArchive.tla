------------------------------ MODULE MCArchive ------------------------------
EXTENDS Archive

OneHelper == {"h1"}
TwoHelpers == {"h1", "h2"}
OneOwner == {1}
KeepOne == {1}
KeepEither == {1, 2}

DurableFaults == {"crash", "power", "io", "skew", "expire"}
LimitFaults == {"crash", "io", "copy"}
RaceFaults == {"reset", "crash", "edit", "io"}
=============================================================================
