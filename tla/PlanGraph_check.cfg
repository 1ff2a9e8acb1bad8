CONSTANTS
    Node = {1, 2, 3}
    Unknown = {9}
    NodeTypes = {"scaffold", "test_authoring", "implementation"}
    DepChoices <- AnyOrLost
    InheritChoices <- NoneOrFirst
SPECIFICATION Spec
CHECK_DEADLOCK FALSE
INVARIANTS
    TypeOK
    SortIsExact
