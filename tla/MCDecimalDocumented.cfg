CONSTANTS
  Values <- MCValues
  Writers = {"FastWriter", "StyledWriter", "StyledStreamWriter", "Styled", "Compact"}
  Margin = 12
  Limits = {1, 2, 3, 9}
  Gaps <- MCGaps
  Words <- MCWords
  MaxWords = 2
  Tokens <- MCTokens
  MaxTokens = 5
  Documents <- Edits
  CodePoints <- MCCodePoints
  MaxText = 2
  Narrow = 4
  Wide = 8
  Mantissa = 6
  Numbers <- MCNumbers
  Scalars1 <- MCScalars
  Comparables <- MCComparables
  Nesting <- MCNesting
  Roots <- MCRoots
  Paths <- MCPaths
  Added <- MCAdded
  NewValues <- MCAdded
  MaxIndex = 255
  MaxArray = 4
  Slots = {x, y}
  Keys = {"k"}
  Texts = {"s"}
  MaxBlocks = 6
  IntMax = 32767
  MaxPoints = 4
  DoubleMax = 8192
  Numerators <- MCNumerators
  Divisors <- MCDivisors
  Factors1 <- MCFactors
  Factors2 <- MCFactors
  Prec = {0, 1, 2, 4}
  Prec2 = {0, 1, 2}
  Units <- MCUnits
  Arguments <- MCArguments
  Formats <- MCFormats
  Streams <- MCStreams
  WholeParts <- MCWholeParts
  Fractions <- MCFractions
  Bytes <- MCBytes
  MaxBytes = 4
SPECIFICATION Spec
INVARIANT
  ReadsListedFormats
CHECK_DEADLOCK FALSE
