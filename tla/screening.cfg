SPECIFICATION ScreeningSpec
CONSTANTS
  s1 = s1
  s2 = s2
  s3 = s3
  Saves = {s1, s2, s3}
  Describes <- DescriptionOf
  Shape <- ShapeOf
  Wanted = {"unet-1"}
  Suits = {"unet-1"}
  Torn = Torn
  Missing = Missing
  Scenes <- Shown
  MinInliers = 8
  MinScore = 20
  MinMaskScore = 25
  Contexts <- Municipality
  Requests <- Asked
  Registered = {"unet-1"}
  Captured = 5
  Days = {3, 6, 9}
  ComplaintWindow = 2
  Attempts = 2
  MaxEvents = 2
  None = None
INVARIANTS LoadedIsOneSave ResultFollowsRequest PublishedOnTrustedRegistration JudgedAtCapture
CHECK_DEADLOCK FALSE
