CONSTANTS
  page1 = page1
  page2 = page2
  code = code
  int3 = int3
  other = other
  Addr <- MCAddr
  Byte <- MCByte
  Region <- MCAddr
  RegionOf <- MCRegionOf
  Protection = {"rx", "rwx"}
  Writable = "rwx"
SPECIFICATION MutationSpec
SYMMETRY MCSymmetry
INVARIANTS
  NothingOwed
PROPERTIES
  HonestWrites
  RetryRecovers
