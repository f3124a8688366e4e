\* A ring of 4 bytes: reads and writes that are shorter than, fill, wrap and
\* exceed it; switches of the cursor-key mode cut everywhere; three keystrokes
\* in messages of any length, of which five bytes are read.
SPECIFICATION TermSpec
CONSTANTS
  Size = 4
  MaxPos = 40
  MaxCsi = 2
  MaxOps = 5
  MaxTyped = 3
  MaxInput = 5
INVARIANTS SnapshotExact ArrowsAsAsked LinesReturn KeysAsTyped DecoderResyncs
PROPERTY ImplementsWindow
CHECK_DEADLOCK FALSE
