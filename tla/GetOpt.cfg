SPECIFICATION FairOptSpec
CONSTANTS
  CommandLines <- MCCommandLines
INVARIANTS
  ParseExact
PROPERTIES
  ParseEnds
