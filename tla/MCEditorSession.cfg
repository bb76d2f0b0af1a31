SPECIFICATION FairSpec
CONSTANTS
    Inputs <- Everything
    MaxInputs = 3
    MaxLength = 3
    Resizes = TRUE
INVARIANTS
    InputInOrder
    DiscardIsWarned
    TitleIsTruthful
    SelectionInDocument
    IdleShowsView
PROPERTIES
    InputIsAnswered
