SPECIFICATION GemSpec
CONSTANTS
  BLOCKS = 48
  DISK = 60
  PROGRAM_SIZE = 3
  Shell = 44
  Hello = 50
  ChudEdit = 56
  BOUNCE = 2
  Garbage = {0}
  FirstFailure = 2
  Paths <- KnownPaths
  Texts = {"a", "b"}
  Written = {"boot_msg.txt", "bin", "ROOT"}
  Lengths = {1, 2}
  EMPTY = 16
  WritesEmpty = FALSE
INVARIANTS GemTypeOK NoSharedBlocks UsedBlocksMarked
PROPERTY ImplementsFileTree
