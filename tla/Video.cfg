SPECIFICATION Spec
CONSTANTS
  FrameFormats <- MCFrameFormats
  VideoFormats <- MCVideoFormats
  OtherCaps = "other"
  MaxFields = 2
  MaxTroubles = 2
  MaxWear = 1
  MaxFalse = 1
  NoiseLine = 1
  MaxGlitches = 2
  MaxCut = 1
  ThresholdA = 2
  ThresholdB = 3
  BufferSizes = {2}
  ScreenSizes = {4, 13}
INVARIANTS
  TypeOK
  SearchIsOfTheWholeStream
  OutputIsAnnounced
  CleanFieldsAreDelivered
  OutputsAreFieldsInOrder
  ImageIsOneField
CHECK_DEADLOCK FALSE
