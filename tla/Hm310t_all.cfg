\* opening and four commands
SPECIFICATION Spec
CONSTANTS
  Words <- TwoWords
  Powers <- TwoPowers
  MaxCmds = 5
INVARIANTS TypeOK LimitWhole
PROPERTIES WriteConfirmed ReadsOwn
