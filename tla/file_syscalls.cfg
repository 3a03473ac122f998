SPECIFICATION Spec
CONSTANTS
  Pcbs = {p1, p2}
  Names = {"test.elf", "empty", "long", "missing"}
  BadNames = {"long"}
  Content <- MCContent
  RAMFS_MAX_FILES = 2
  MAX_FDS_PER_PROCESS = 5
  Lens = {0, 1, 2, 5}
INVARIANTS ReadsAreTheFile
PROPERTIES DescriptorsStable
SYMMETRY PcbSymmetry
