------------------------ MODULE TimedNotificationQueue ------------------------
(***************************************************************************)
(* Poco::TimedNotificationQueue (Foundation/src/TimedNotificationQueue.cpp) *)
(* a multimap from timestamps to notifications, guarded by _mutex, with an *)
(* auto-reset event _nfAvailable that enqueueNotification() sets.          *)
(*                                                                         *)
(* Threads: a producer enqueueNotification()s up to MaxNf notifications  *)
(* while one consumer thread, the queue's only dequeuer, loops calling    *)
(* waitDequeueNotification(), waitDequeueNotification(milliseconds) with  *)
(* an argument up to MaxBudget, dequeueNotification() and, when           *)
(* ClearEnabled, clear().  waitDequeueNotification() reads the entry      *)
(* `it` it took under the mutex after unlocking it; only the dequeuer     *)
(* erases entries, so the entry is still there when dequeueOne(it) erases *)
(* it.  Time is discrete, 0..MaxTime, in ticks of 1/Ms millisecond.  A     *)
(* notification is identified by the order it was enqueued in, which is   *)
(* also the multimap's order among equal timestamps (insert places an     *)
(* equal key after the existing ones).                                     *)
(***************************************************************************)
EXTENDS Integers, FiniteSets, TLC

CONSTANTS
    Consumers,     \* the dequeuing thread
    MaxNf,         \* notifications the producer enqueues
    MaxTime,       \* time runs over 0..MaxTime
    ClearEnabled,  \* the dequeuer may call clear()
    MaxBudget,     \* largest argument of waitDequeueNotification(milliseconds)
    Ms             \* clock ticks per millisecond

ASSUME MaxNf \in Nat /\ MaxTime \in Nat /\ ClearEnabled \in BOOLEAN
ASSUME MaxBudget \in Nat /\ Ms \in Nat \ {0}
ASSUME Cardinality(Consumers) = 1

Nf == 1..MaxNf
Budget == 0..MaxBudget
Time == 0..MaxTime
None == 0

VARIABLES
    queue,         \* _nfQueue: the notifications it holds
    stamp,         \* the timestamp each notification was enqueued with
    produced,      \* how many notifications were enqueued
    now,           \* the clock
    event,         \* _nfAvailable is signalled
    pc,            \* where each consumer is in waitDequeueNotification()
    it,            \* each consumer's iterator (a notification, or None)
    deadline,      \* the end of the interval a consumer's wait() sleeps
    returned,      \* how often each notification was handed to a caller
    early,         \* a notification was returned before its time
    cleared,       \* notifications clear() removed
    milliseconds,  \* the remaining interval of a timed call
    taken,         \* the Timestamp `now` of lines 123 and 148
    called,        \* when the current timed call began
    asked          \* the milliseconds it was given

tvars == <<milliseconds, taken, called, asked>>
vars == <<queue, stamp, produced, now, event, pc, it, deadline, returned,
          early, cleared, tvars>>

(* begin() of the multimap: earliest timestamp, earliest enqueued first.   *)
Head == CHOOSE n \in queue :
            \A m \in queue : stamp[n] < stamp[m] \/ (stamp[n] = stamp[m] /\ n <= m)

(* A notification handed to a caller at the current time.                  *)
Return(n) ==
    /\ returned' = [returned EXCEPT ![n] = @ + 1]
    /\ early' = (early \/ now < stamp[n])

Init ==
    /\ queue = {}
    /\ stamp = [n \in Nf |-> 0]
    /\ produced = 0
    /\ now = 0
    /\ event = FALSE
    /\ pc = [c \in Consumers |-> "idle"]
    /\ it = [c \in Consumers |-> None]
    /\ deadline = [c \in Consumers |-> 0]
    /\ returned = [n \in Nf |-> 0]
    /\ early = FALSE
    /\ cleared = {}
    /\ milliseconds = [c \in Consumers |-> 0]
    /\ taken = [c \in Consumers |-> 0]
    /\ called = [c \in Consumers |-> 0]
    /\ asked = [c \in Consumers |-> 0]

-----------------------------------------------------------------------------
(* enqueueNotification(): insert under the mutex, then set the event.      *)
EnqueueNoSignal(ts) ==           \* fault model: _nfAvailable.set() left out
    /\ produced < MaxNf
    /\ produced' = produced + 1
    /\ queue' = queue \cup {produced + 1}
    /\ stamp' = [stamp EXCEPT ![produced + 1] = ts]
    /\ UNCHANGED <<tvars, now, event, pc, it, deadline, returned, early, cleared>>

EnqueueRelative(ts) ==           \* fault model: the timestamp taken as a delay from now
    /\ produced < MaxNf
    /\ produced' = produced + 1
    /\ queue' = queue \cup {produced + 1}
    /\ stamp' = [stamp EXCEPT ![produced + 1] = now + ts]
    /\ event' = TRUE
    /\ UNCHANGED <<tvars, now, pc, it, deadline, returned, early, cleared>>

Enqueue(ts) ==
    /\ produced < MaxNf
    /\ produced' = produced + 1
    /\ queue' = queue \cup {produced + 1}
    /\ stamp' = [stamp EXCEPT ![produced + 1] = ts]
    /\ event' = TRUE
    /\ UNCHANGED <<tvars, now, pc, it, deadline, returned, early, cleared>>

(* The clock advances.  The stretches of a timed call between its waits  *)
(* take no time: the code charges its interval only for the waits (lines  *)
(* 137 and 150), so time spent there, taking the mutex or preempted, is    *)
(* never charged, and the model leaves it out.                             *)
Running == {"tlock", "tcheck", "tmore"}

Tick ==
    /\ now < MaxTime
    /\ \A c \in Consumers : pc[c] \notin Running
    /\ now' = now + 1
    /\ UNCHANGED <<tvars, queue, stamp, produced, event, pc, it, deadline, returned,
                   early, cleared>>

-----------------------------------------------------------------------------
(* The consumer calls waitDequeueNotification().                         *)
Wait(c) ==
    /\ pc[c] = "idle"
    /\ pc' = [pc EXCEPT ![c] = "lock"]
    /\ UNCHANGED <<tvars, queue, stamp, produced, now, event, it, deadline,
                   returned, early, cleared>>

(* waitDequeueNotification(), one step per stretch between blocking       *)
(* points.  Lines 89-93/107: lock, it = begin(), unlock.                    *)
Lock(c) ==
    /\ pc[c] = "lock"
    /\ IF queue # {}
       THEN pc' = [pc EXCEPT ![c] = "check"] /\ it' = [it EXCEPT ![c] = Head]
       ELSE pc' = [pc EXCEPT ![c] = "avail"] /\ it' = [it EXCEPT ![c] = None]
    /\ UNCHANGED <<tvars, queue, stamp, produced, now, event, deadline, returned,
                   early, cleared>>

(* Lines 94-99, outside the mutex: sleep = -it->first.elapsed().  A due   *)
(* entry goes to dequeueOne(); otherwise wait(sleep).                      *)
Check(c) ==
    /\ pc[c] = "check"
    /\ IF stamp[it[c]] <= now
       THEN pc' = [pc EXCEPT ![c] = "deq"] /\ UNCHANGED deadline
       ELSE pc' = [pc EXCEPT ![c] = "sleep"] /\ deadline' = [deadline EXCEPT ![c] = stamp[it[c]]]
    /\ UNCHANGED <<tvars, queue, stamp, produced, now, event, it, returned, early, cleared>>

WaitTimedOut(c) ==               \* fault model: `if (!wait(sleep))` read as `if (wait(sleep))`
    /\ pc[c] = "sleep"
    /\ event
    /\ event' = FALSE
    /\ pc' = [pc EXCEPT ![c] = "deq"]
    /\ UNCHANGED <<tvars, queue, stamp, produced, now, it, deadline, returned, early,
                   cleared>>

(* wait(sleep) returns true when _nfAvailable fires first (tryWait resets *)
(* it): continue, back to the lock.                                        *)
Wake(c) ==
    /\ pc[c] = "sleep"
    /\ event
    /\ event' = FALSE
    /\ pc' = [pc EXCEPT ![c] = "lock"]
    /\ UNCHANGED <<tvars, queue, stamp, produced, now, it, deadline, returned, early,
                   cleared>>

(* wait(sleep) returns false once the interval has elapsed: dequeueOne().  *)
Timeout(c) ==
    /\ pc[c] = "sleep"
    /\ now >= deadline[c]
    /\ pc' = [pc EXCEPT ![c] = "deq"]
    /\ UNCHANGED <<tvars, queue, stamp, produced, now, event, it, deadline, returned,
                   early, cleared>>

(* dequeueNotification(): under the mutex, erase and return begin() if it *)
(* is due, else return 0 (the call changes nothing).                       *)
Poll(c) ==
    /\ pc[c] = "idle"
    /\ queue # {}
    /\ stamp[Head] <= now
    /\ queue' = queue \ {Head}
    /\ Return(Head)
    /\ UNCHANGED <<tvars, stamp, produced, now, event, pc, it, deadline, cleared>>

(* clear(): under the mutex.                                               *)
Clear(c) ==
    /\ ClearEnabled /\ pc[c] = "idle" /\ queue # {}
    /\ queue' = {}
    /\ cleared' = cleared \cup queue
    /\ UNCHANGED <<tvars, stamp, produced, now, event, pc, it, deadline, returned, early>>

(* A call returns: its locals go out of scope.                            *)
Leave(c) ==
    /\ pc' = [pc EXCEPT ![c] = "idle"]
    /\ it' = [it EXCEPT ![c] = None]
    /\ deadline' = [deadline EXCEPT ![c] = 0]
    /\ milliseconds' = [milliseconds EXCEPT ![c] = 0]
    /\ taken' = [taken EXCEPT ![c] = 0]
    /\ called' = [called EXCEPT ![c] = 0]
    /\ asked' = [asked EXCEPT ![c] = 0]

(* dequeueOne(it), lines 194-200: lock, erase it, return its notification. *)
DequeueOne(c) ==
    /\ pc[c] = "deq"
    /\ queue' = queue \ {it[c]}
    /\ Leave(c)
    /\ Return(it[c])
    /\ UNCHANGED <<stamp, produced, now, event, cleared>>

(* Line 109: _nfAvailable.wait() on an empty queue; it resets the event.   *)
AwaitAvailable(c) ==
    /\ pc[c] = "avail"
    /\ event
    /\ event' = FALSE
    /\ pc' = [pc EXCEPT ![c] = "lock"]
    /\ UNCHANGED <<tvars, queue, stamp, produced, now, it, deadline, returned, early,
                   cleared>>

-----------------------------------------------------------------------------
(* waitDequeueNotification(milliseconds), lines 114-155.  A duration in   *)
(* microseconds becomes milliseconds as (us + 999)/1000: rounded up.       *)
CeilMs(ticks) == (ticks + Ms - 1) \div Ms

(* Lines 137 and 150: the interval is charged for the time since `now`.   *)
ChargeFloor(c) ==                \* fault model: elapsed()/1000, rounded down
    [milliseconds EXCEPT ![c] = @ - (now - taken[c]) \div Ms]

Charge(c) == [milliseconds EXCEPT ![c] = @ - CeilMs(now - taken[c])]

(* The consumer calls waitDequeueNotification(b); calls whose interval    *)
(* would outlast the modelled clock are left out.                          *)
WaitFor(c, b) ==
    /\ pc[c] = "idle"
    /\ now + Ms * b <= MaxTime
    /\ pc' = [pc EXCEPT ![c] = "tlock"]
    /\ milliseconds' = [milliseconds EXCEPT ![c] = b]
    /\ called' = [called EXCEPT ![c] = now]
    /\ asked' = [asked EXCEPT ![c] = b]
    /\ UNCHANGED <<queue, stamp, produced, now, event, it, deadline, returned,
                   early, cleared, taken>>

(* Lines 116-120 and 142-144: while (milliseconds >= 0), lock, it =       *)
(* begin(), unlock; the loop's end returns 0 (line 154).                   *)
TLock(c) ==
    /\ pc[c] = "tlock"
    /\ \/ milliseconds[c] < 0 /\ Leave(c)
       \/ /\ milliseconds[c] >= 0
          /\ pc' = [pc EXCEPT ![c] = IF queue # {} THEN "tcheck" ELSE "tmore"]
          /\ it' = [it EXCEPT ![c] = IF queue # {} THEN Head ELSE None]
          /\ UNCHANGED <<tvars, deadline>>
    /\ UNCHANGED <<queue, stamp, produced, now, event, returned, early, cleared>>

(* Lines 123-131, outside the mutex: sleep = it->first - now.  A due      *)
(* entry is dequeued; one due within the interval is waited for with      *)
(* wait(sleep), whose tryWait() sleeps the interval rounded up to a       *)
(* millisecond; otherwise lines 146-152.                                  *)
TCheck(c) ==
    /\ pc[c] = "tcheck"
    /\ taken' = [taken EXCEPT ![c] = now]
    /\ LET sleep == stamp[it[c]] - now IN
         CASE sleep <= 0 ->
                pc' = [pc EXCEPT ![c] = "deq"] /\ UNCHANGED deadline
           [] sleep <= Ms * milliseconds[c] ->
                /\ pc' = [pc EXCEPT ![c] = "twait"]
                /\ deadline' = [deadline EXCEPT ![c] = now + Ms * CeilMs(sleep)]
           [] OTHER ->
                pc' = [pc EXCEPT ![c] = "tmore"] /\ UNCHANGED deadline
    /\ UNCHANGED <<queue, stamp, produced, now, event, it, returned, early,
                   cleared, milliseconds, called, asked>>

(* wait(sleep) returned true, the event fired (line 137): charge, loop.   *)
TWake(c) ==
    /\ pc[c] = "twait"
    /\ event
    /\ event' = FALSE
    /\ milliseconds' = Charge(c)
    /\ pc' = [pc EXCEPT ![c] = "tlock"]
    /\ UNCHANGED <<queue, stamp, produced, now, it, deadline, returned, early,
                   cleared, taken, called, asked>>

(* wait(sleep) returned false: dequeueOne(it) (line 133).                  *)
TTimeout(c) ==
    /\ pc[c] = "twait"
    /\ now >= deadline[c]
    /\ pc' = [pc EXCEPT ![c] = "deq"]
    /\ UNCHANGED <<tvars, queue, stamp, produced, now, event, it, deadline,
                   returned, early, cleared>>

(* Lines 146-152: with time left, `now` is taken and tryWait(milliseconds) *)
(* sleeps; else the call returns 0.                                        *)
TMore(c) ==
    /\ pc[c] = "tmore"
    /\ \/ /\ milliseconds[c] > 0
          /\ pc' = [pc EXCEPT ![c] = "tryw"]
          /\ taken' = [taken EXCEPT ![c] = now]
          /\ deadline' = [deadline EXCEPT ![c] = now + Ms * milliseconds[c]]
          /\ UNCHANGED <<it, milliseconds, called, asked>>
       \/ milliseconds[c] <= 0 /\ Leave(c)
    /\ UNCHANGED <<queue, stamp, produced, now, event, returned, early, cleared>>

(* tryWait(milliseconds) returns, signalled (resetting the event) or      *)
(* timed out; either way the interval is charged (line 150).               *)
TResume(c) ==
    /\ pc[c] = "tryw"
    /\ \/ event /\ event' = FALSE
       \/ now >= deadline[c] /\ UNCHANGED event
    /\ milliseconds' = Charge(c)
    /\ pc' = [pc EXCEPT ![c] = "tlock"]
    /\ UNCHANGED <<queue, stamp, produced, now, it, deadline, returned, early,
                   cleared, taken, called, asked>>

Consumer(c) ==
    \/ Wait(c) \/ Lock(c) \/ Check(c) \/ Wake(c) \/ Timeout(c) \/ AwaitAvailable(c)
    \/ \E b \in Budget : WaitFor(c, b)
    \/ TLock(c) \/ TCheck(c) \/ TWake(c) \/ TTimeout(c) \/ TMore(c) \/ TResume(c)
    \/ DequeueOne(c)
    \/ Poll(c) \/ Clear(c)

Next ==
    \/ \E ts \in Time : Enqueue(ts)
    \/ Tick
    \/ \E c \in Consumers : Consumer(c)

(* The consumer thread runs whenever it is not blocked, and time passes:  *)
(* strongly fair, since a consumer's timeless stretches disable Tick      *)
(* without stopping real time.                                             *)
Fairness ==
    /\ SF_vars(Tick)
    /\ \A c \in Consumers : WF_vars(Consumer(c))

Spec == Init /\ [][Next]_vars /\ Fairness

-----------------------------------------------------------------------------
TypeOK ==
    /\ queue \subseteq Nf
    /\ stamp \in [Nf -> Time]
    /\ produced \in 0..MaxNf
    /\ now \in Time
    /\ event \in BOOLEAN
    /\ pc \in [Consumers -> {"idle", "lock", "check", "sleep", "deq", "avail",
                             "tlock", "tcheck", "twait", "tmore", "tryw"}]
    /\ it \in [Consumers -> Nf \cup {None}]
    /\ deadline \in [Consumers -> Nat]
    /\ returned \in [Nf -> Nat]
    /\ early \in BOOLEAN
    /\ cleared \subseteq Nf
    /\ milliseconds \in [Consumers -> Int]
    /\ taken \in [Consumers -> Time]
    /\ called \in [Consumers -> Time]
    /\ asked \in [Consumers -> Budget]

(* No notification is returned before its timestamp: the consumer only    *)
(* dequeues after seeing it due or after wait() slept out the interval.   *)
NeverEarly == ~early

(* Every enqueued notification is eventually returned to a caller, unless *)
(* clear() dropped it: the event set by enqueueNotification() wakes a     *)
(* consumer blocked on an empty queue, and a sleeping one times out.      *)
EventuallyDelivered ==
    \A n \in Nf : (n \in queue) ~> (returned[n] > 0 \/ n \in cleared)

(* A timed call never blocks past the interval it was given: whatever    *)
(* wake-ups interrupt its waits, each charges the interval at least the   *)
(* time that passed (rounded up to a millisecond, lines 137 and 150), and  *)
(* the sleeps of wait(sleep) and tryWait() fit in what is left.            *)
NoSleepPastBudget ==
    \A c \in Consumers :
        pc[c] \in {"twait", "tryw"} => deadline[c] <= called[c] + Ms * asked[c]

=============================================================================
