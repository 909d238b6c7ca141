SPECIFICATION FairSpec
CONSTANTS
  j1 = j1  j2 = j2  d1 = d1  d2 = d2  fa = fa  fb = fb
  Jobs = {j1, j2}
  Drives = {d1}
  Folders = {fa, fb}
  DriveOf <- OneDrive
  FolderOf <- TwoFolders
  Original = Original
  NoJob = NoJob
  NoDrive = NoDrive
  Calls = {"clear", "eject", "maintain"}
  MaxCrashes = 0
CHECK_DEADLOCK FALSE
INVARIANTS RipHoldsDrive UpdateIsAlone
PROPERTIES DriveIsFreed
