SPECIFICATION Spec
CONSTANTS
  Populations <- MCPopulations
  Retimers <- MCRetimers
  CommandLines <- MCCommandLines
  Movable <- MCMovable
  MaxChanges = 2
  VerboseWraps = 3
  MaxArgs = 7
INVARIANTS TypeOK ParsedAsWritten QuietListing EachOnce TreeShape LabelsAreTrue NoCrash
PROPERTIES Terminates
