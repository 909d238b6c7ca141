SPECIFICATION Spec
CONSTANTS
  j1 = j1  j2 = j2  d1 = d1  d2 = d2  fa = fa  fb = fb
  Jobs = {j1, j2}
  Drives = {d1, d2}
  Folders = {fa}
  DriveOf <- TwoDrives
  FolderOf <- OneFolder
  Original = Original
  NoJob = NoJob
  NoDrive = NoDrive
  Calls = {"cancel", "clear"}
  MaxCrashes = 1
CHECK_DEADLOCK FALSE
INVARIANTS TypeOK ThreadHoldsFolder KeptRipSurvives
