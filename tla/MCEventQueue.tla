---------------------------- MODULE MCEventQueue ----------------------------
EXTENDS EventQueue, TLC

CONSTANTS p1, p2, t1, t2

MCProducers == {p1, p2}
MCSinkThreads == {t1, t2}
\* a session-processor queue (notify, processEvents), a session thread
\* (waitForEvent, processEvents) and a thread taking single events
MCModes == {[wake |-> "sink", process |-> "all"],
            [wake |-> "pending", process |-> "all"],
            [wake |-> "pending", process |-> "single"]}

==============================================================================
