CONSTANTS
  u1 = u1
  u2 = u2
  d1 = d1
  k1 = k1
  k2 = k2
  p1 = p1
  p2 = p2
  None = None
  Uploads <- MCUploads
  Desktop = {d1}
  Keys = {k1}
  Procs <- MCProcs
  MaxFaults = 1
  MaxAltered = 1
  MaxActive = 2
  MaxStaging = 1
SPECIFICATION UploadSpec
INVARIANTS
  UploadIInv
  AllOrNothing
PROPERTIES
  NoRepair
  ConfirmedEnds
CHECK_DEADLOCK FALSE
