SPECIFICATION UpdateSpec
CONSTANTS
  Versions <- StableReleases
  Installed <- InstalledRelease
  MaxCalls = 4
  Steps = 1
INVARIANT ReleasesCompare
