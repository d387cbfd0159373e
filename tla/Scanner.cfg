CONSTANTS
  NUL = NUL
  Letters = {"i", "f", "n"}
  Digits = {"1"}
  Spaces = {" "}
  Keywords <- MCKeywords
  MaxLength = 4
  Alphabet <- MCAlphabet
  MaxNumeric = 6
  Numeric = {"1", ".", "-", " "}
  MaxQuoted = 6
  Quoted <- MCQuoted
  Sources <- MCSources
  MaxFiles = 2

SPECIFICATION LiteralsSpec
CHECK_DEADLOCK FALSE

INVARIANTS Tiles LongestMatch Unescaped
PROPERTY ScanEnds
