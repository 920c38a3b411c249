SPECIFICATION Spec
CONSTANT Types <- MCTypes
INVARIANTS
    ObserversAgree
PROPERTY ImplementsResidue
