\* Three mounts at once and two regions: an address goes from one to another.
CONSTANTS
  Superblocks = {s1, s2, s3}
  Regions = {r1, r2}
SPECIFICATION MountSpec
INVARIANTS
  LeaksOnlyByOops
  RegionKeptUnlessScarce
  OptimizeReleasesRoot
CHECK_DEADLOCK FALSE
