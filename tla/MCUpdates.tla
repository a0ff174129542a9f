----------------------------- MODULE MCUpdates -----------------------------
(* Updates with stable releases: three numbers and no prerelease.            *)
EXTENDS Updates

Stable(n) == [core |-> n, dash |-> FALSE, pre |-> <<>>]

StableReleases   == {Stable(1), Stable(2)}
InstalledRelease == Stable(1)

=============================================================================
