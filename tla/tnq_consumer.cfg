\* The dequeuing thread calling waitDequeueNotification(), waitDequeueNotification(ms), dequeueNotification() and clear() against a producer and the clock.
CONSTANTS
    c1 = c1
    Consumers = {c1}
    MaxNf = 3
    MaxTime = 4
    ClearEnabled = TRUE
    MaxBudget = 1
    Ms = 2
SPECIFICATION Spec
\* Once every notification is produced and returned, the consumer blocks on
\* _nfAvailable.wait() for ever: the queue's idle state.
CHECK_DEADLOCK FALSE
INVARIANT TypeOK
INVARIANT NeverEarly
PROPERTY EventuallyDelivered
INVARIANT NoSleepPastBudget
