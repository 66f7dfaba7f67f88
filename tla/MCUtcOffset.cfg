\* The dates of MCValues, where local time is nine hours ahead of UTC.
CONSTANTS
  Documents = {}
  Queries = {}
  ByteBits = 2
  Sources = {}
  CodePoints = {97}
  RawTexts = {}
  WordLength = 0
  Texts = {}
  Patterns = {}
  LocalOffset = 32400
  Moments <- MCMoments
  Formats <- MCFormats
  IsoTexts <- MCIsoTexts
  FirstYear = 1960
  Secrets = {}
  PlainTexts = {}
  MaxCalls = 3
  Days = 3
  MinPerDay = 3
  MaxAdds = 0
SPECIFICATION Spec
INVARIANT UtcOffsetIsTrue
CHECK_DEADLOCK FALSE
