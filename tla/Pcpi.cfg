SPECIFICATION Spec
CONSTANTS
    W = 3
    CARRY_CHAIN = 2
    OnEdges = 5
INVARIANTS
    ProductsAreRight
    QuotientsAreRight
    AnswersOnTime
PROPERTY ImplementsCoprocessor
