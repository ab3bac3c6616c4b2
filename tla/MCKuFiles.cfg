SPECIFICATION Spec
CONSTANTS
  Names = {"d", "e", "f", "copy", "tmp", "tmp.tmp"}
  TmpNames = {"tmp", "tmp.tmp"}
  CopyNames = {"copy"}
  TypedNames = {"f", "tmp"}
  Contents = {"1", "2", "3"}
  Part = "part"
  Disks <- SmallDisks
  MaxCommands = 2
  MaxFailures = 1
INVARIANTS TypeOK NothingLost NeverAstray TellsTheTruth ReadsWhatWasThere
CHECK_DEADLOCK FALSE
