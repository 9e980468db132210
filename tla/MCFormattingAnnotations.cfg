SPECIFICATION Spec
CONSTANTS
    Cases <- AnnotatedCases
    SourceOf <- AnnotatedSource
    Names <- MCNames
    Numbers <- MCNumbers
    Texts <- MCTexts
    PreludeTypes = {"Range"}
    PlainComments <- MCPlain
    DocumentationComments <- MCDocumentation
INVARIANT MeaningKept
CHECK_DEADLOCK FALSE
