SPECIFICATION Spec
\* Nothing follows undefined behaviour.
CHECK_DEADLOCK FALSE
CONSTANTS
    m1 = m1
    m2 = m2
    m3 = m3
    m4 = m4
    Mods <- MCMods
    Names <- MCNames
    Unnamed = ""
    WithIndex <- MCWithIndex
    DefaultName <- MCDefaultName
    CanAccessCtor <- MCCanAccessCtor
    Members <- MCMembers
    Renamed <- MCRenamed
    MaxMishaps = 1
INVARIANTS
    SiblingNames
    AllConstructed
    StackIsCalls
    RulesSuffice
PROPERTY NoLateAdoption
