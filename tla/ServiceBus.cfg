SPECIFICATION Spec
CONSTANTS
    c1 = c1
    c2 = c2
    Clients = {c1, c2}
    Queues = {1, 2}
    Topics = {3}
    Namespaces = {4}
    NamespaceOf <- MCNamespaceOf
    Casts <- PassingCasts
    MaxSends = 4
INVARIANTS
    TypeOK
    PlainMapKeepsMessages
    PlainMapLeavesNothingOver
    NumbersFollowTheSends
    PlainMapAnswersTheOldest
PROPERTIES
    ImplementsMessageQueue
