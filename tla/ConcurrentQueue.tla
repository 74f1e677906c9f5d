--------------------------- MODULE ConcurrentQueue ---------------------------
(***************************************************************************)
(* libutilities/ConcurrentQueue: a queue under a mutex, with a condition   *)
(* variable that push signals after it has released the mutex.  A consumer *)
(* either pops (waits for an element) or tries to pop (waits with a        *)
(* timeout).  Elements are numbered in the order of the pushes.            *)
(***************************************************************************)
EXTENDS Naturals, Sequences

CONSTANTS Producers, Consumers,
          MaxPushes     \* bound on the pushes of all producers together

VARIABLES queue,        \* m_queue
          pushed,       \* elements pushed so far
          producer,     \* "idle", or "notify": pushed, has not signalled yet
          consumer      \* "idle", "wait" (blocked), "woken", "got" or "empty"

queueVars == <<queue, pushed, producer, consumer>>

QueueInit ==
    /\ queue = <<>>
    /\ pushed = 0
    /\ producer = [p \in Producers |-> "idle"]
    /\ consumer = [c \in Consumers |-> "idle"]

PushIfEmptyNotifies(p) ==
    /\ producer[p] = "idle" /\ pushed < MaxPushes
    /\ pushed' = pushed + 1
    /\ queue' = Append(queue, pushed')
    /\ producer' = [producer EXCEPT ![p] = IF queue = <<>> THEN "notify" ELSE "idle"]
    /\ UNCHANGED consumer
Push(p) ==
    /\ producer[p] = "idle" /\ pushed < MaxPushes
    /\ pushed' = pushed + 1
    /\ queue' = Append(queue, pushed')
    /\ producer' = [producer EXCEPT ![p] = "notify"]
    /\ UNCHANGED consumer

Waiting == {c \in Consumers : consumer[c] = "wait"}

\* notify_one: some blocked consumer, if there is one
NotifyOne(p) ==
    /\ producer[p] = "notify"
    /\ producer' = [producer EXCEPT ![p] = "idle"]
    /\ \/ Waiting = {} /\ UNCHANGED consumer
       \/ \E c \in Waiting : consumer' = [consumer EXCEPT ![c] = "woken"]
    /\ UNCHANGED <<queue, pushed>>

\* with the mutex held: take the first element, or do otherwise
TakeOr(c, otherwise) ==
    /\ IF queue # <<>>
       THEN /\ queue' = Tail(queue)
            /\ consumer' = [consumer EXCEPT ![c] = "got"]
       ELSE /\ consumer' = [consumer EXCEPT ![c] = otherwise]
            /\ UNCHANGED queue
    /\ UNCHANGED <<pushed, producer>>

\* pop and tryPop: the predicate is tested before the first wait ...
Pop(c) == consumer[c] \in {"idle", "got", "empty"} /\ TakeOr(c, "wait")
\* ... and after every wake-up
PopWoken(c) == consumer[c] = "woken" /\ TakeOr(c, "wait")
\* wait_for tests it once more when the time is up
TryPopTimeout(c) == consumer[c] = "wait" /\ TakeOr(c, "empty")
SpuriousWakeup(c) ==
    /\ consumer[c] = "wait"
    /\ consumer' = [consumer EXCEPT ![c] = "woken"]
    /\ UNCHANGED <<queue, pushed, producer>>

QueueNext ==
    \/ \E p \in Producers : Push(p) \/ NotifyOne(p)
    \/ \E c \in Consumers : Pop(c) \/ PopWoken(c) \/ TryPopTimeout(c) \/ SpuriousWakeup(c)

\* No element is left behind: if a consumer blocks in pop while the queue holds
\* an element, it is woken up (or the element is taken by another one), without
\* any help from a timeout or a spurious wake-up.
NoStrandedElement ==
    queue # <<>> /\ Waiting # {} ~> queue = <<>> \/ Waiting = {}
=============================================================================
