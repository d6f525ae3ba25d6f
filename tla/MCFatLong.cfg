SPECIFICATION Spec
CONSTANTS
  Handles = {h1}
  Names = {"A", "C", "D"}
  DirNames = {"D"}
  Volumes <- LongRoot
  SectorSize = 8
  EntrySize = 1
  Fat12Below = 6
  Fat16Below = 7
  Word = 1073741824
  ReadArgs <- Reads
  SeekArgs <- Seeks
  MaxFaults = 0
PROPERTY WalkEnds
