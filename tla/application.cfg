SPECIFICATION AFairSpec
CONSTANTS
  sens = sens
  other = other
  Sensors = {sens, other}
  Size = 2
  Signals <- MCSignals
  Waveform <- MCWaveform
  Sends <- MCSends
  Heap = {p, q}
  p = p
  q = q
  NULL = NULL
  Nobody = Nobody
  WinSize = 3
  Drop = 1
  Limit = 10000000
INVARIANTS
  TypeOK
  OneInProgress
  SamplesIntoBuffer
  DecoderRight
  AnswersAreSent
  ReportsTrimmedMean
PROPERTIES
  IsMeasurements
  EveryMeasurementAnswered
  MeasuresAgain
