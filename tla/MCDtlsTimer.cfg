\* three initConnection calls: the constructor's and two re-initialisations
CONSTANTS
    MaxInits = 3
SPECIFICATION Spec
\* the connection is gone and its timers are freed: nothing is left to run
CHECK_DEADLOCK FALSE
INVARIANTS
    TypeOK
    RefCountExact
PROPERTIES
    TimersReclaimed
