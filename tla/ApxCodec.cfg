CONSTANTS
  LetterOrder <- MCLetterOrder
  MAX_FRACTIONAL_DIGITS <- MCMaxFrac
  MAX_N <- MCMaxN
  MAX_K <- MCMaxK
  MIN_COEFF <- MCMinCoeff
  MAX_COEFF <- MCMaxCoeff
  INT_MIN <- MCIntMin
  INT_MAX <- MCIntMax
  Null = Null
  None = None
  Lines <- MCLines
  Messages <- MCMessages
SPECIFICATION Spec
\* Each behaviour is one call of the codec, which returns.
CHECK_DEADLOCK FALSE
INVARIANT TypeOK ParserMatchesGrammar SerializersRoundTrip
