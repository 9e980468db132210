SPECIFICATION Spec
CONSTANTS
    Cases <- MCCases
    SourceOf <- MCSourceOf
    Names <- MCNames
    Numbers <- MCNumbers
    Texts <- MCTexts
    PreludeTypes = {"Range"}
    PlainComments <- MCPlain
    DocumentationComments <- MCDocumentation
INVARIANTS MeaningKept Stable CommentsKept
CHECK_DEADLOCK FALSE
