SPECIFICATION Spec
CONSTANTS
    MethodHelpers <- MCMethodHelpers
    CaseKeys <- MCCaseKeys
    ProgramOf <- MCProgramOf
    MaxFrames = 6
    MaxIterations = 1
INVARIANTS UnitsReached TablesComplete SuspensionSound CapturesLexical RangesUnobserved
CHECK_DEADLOCK FALSE
