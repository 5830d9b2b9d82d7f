\* Two servers and the ingestion script start, stop and start again, with two
\* calls that raise.
CONSTANTS
    Servers = {s1, s2}
    Scripts = {g1}
    IndexOnStart = TRUE
    EnableStaleness = TRUE
    MaxStarts <- TwiceAndOnce
    MaxFaults = 2
SPECIFICATION StartupSpec
SYMMETRY ServerSymmetry
INVARIANTS
    ReadyLeavesNoProbe
    EmptyServerCountedAProbe
    IndexedOnce
\* Starts are bounded, and a server that is up stays up.
CHECK_DEADLOCK FALSE
