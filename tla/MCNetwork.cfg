SPECIFICATION NetworkSpec
CONSTANTS
    NULL = NULL
    Client = {c1, c2, c3}
    TableSize = 2
    QueueBound = 2
INVARIANTS UpIsReal UpIsNoticed ClientsKnow KeepsTrying
PROPERTY RetryRegisteredOnce
SYMMETRY Symmetry
