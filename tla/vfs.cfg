SPECIFICATION Spec
CONSTANTS
  Paths <- MCPaths
  BaseFiles <- MCBaseFiles
  BaseDirs <- MCBaseDirs
  ExtraDirs <- MCExtraDirs
  Computed <- MCComputed
  Writable <- MCWritable
  Private <- MCPrivate
  IsRoot = FALSE
  MaxEntries = 4
  MaxBytes = 2
  Sizes = {0, 1, 2}
INVARIANTS TreeWhole Confined Accounted
