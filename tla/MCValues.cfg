\* Documents of up to four tokens, arrays, texts and dates after up to three
\* calls, every sequence of up to three ranges in a week of 3 x 3 minutes.
CONSTANTS
  Documents <- MCDocuments
  Queries <- MCQueries
  ByteBits = 2
  Sources <- MCSources
  CodePoints <- MCCodePoints
  RawTexts <- MCRawTexts
  WordLength = 1
  Texts <- MCTexts
  Patterns <- MCPatterns
  LocalOffset = 32400
  Moments <- MCMoments
  Formats <- MCFormats
  IsoTexts <- MCIsoTexts
  FirstYear = 1960
  Secrets <- MCSecrets
  PlainTexts <- MCPlainTexts
  MaxCalls = 3
  Days = 3
  MinPerDay = 3
  MaxAdds = 3
SPECIFICATION Spec
INVARIANTS DocumentsReadAsWritten BitsAreNeitherLostNorMoved TextsStayUtf8 StringFunctionsAgree
INVARIANTS DatesReadAsWritten ScheduleIsWhatWasAsked ScheduleSurvives
\* A document is read once, and the calls are bounded.
CHECK_DEADLOCK FALSE
