------------------------------- MODULE Worker -------------------------------
(***************************************************************************)
(* libutilities/Worker: the background thread that the sealer and the      *)
(* other services derive from.  startWorking, stopWorking and terminate    *)
(* talk to the thread through one atomic, m_workerState, and one lock,     *)
(* x_work; every locked region is one action, and every read of the atomic *)
(* outside the lock is an action of its own.                               *)
(*                                                                         *)
(* The condition variable is waited on with wait_for(100 ms) inside a loop *)
(* over a predicate, so a wait is the predicate used as a guard.           *)
(***************************************************************************)
EXTENDS Naturals

CONSTANTS WorkerCallers,    \* threads that call start, stop and terminate
          MaxWorkerCalls,   \* bound on the number of calls
          WorkerCallsOverlap \* may a call begin while another one runs

VARIABLES workerState,   \* m_workerState
          workerPc,      \* where the thread is; "none": m_workerThread is null
          workerCall,    \* what each caller is doing inside its call
          workerReturned,\* the call that returned last
          workerCalls    \* calls made so far (the bound)

workerVars == <<workerState, workerPc, workerCall, workerReturned, workerCalls>>

WorkerInit ==
    /\ workerState = "Starting"
    /\ workerPc = "none"
    /\ workerCall = [c \in WorkerCallers |-> "idle"]
    /\ workerReturned = "none"
    /\ workerCalls = 0

NoWorkerCall == \A c \in WorkerCallers : workerCall[c] = "idle"

BeginCall(c) ==
    /\ workerCall[c] = "idle"
    /\ WorkerCallsOverlap \/ NoWorkerCall
    /\ workerCalls < MaxWorkerCalls
    /\ workerCalls' = workerCalls + 1

Enter(c, where) ==
    /\ workerCall' = [workerCall EXCEPT ![c] = where]
    /\ UNCHANGED workerReturned

Return(c, op) ==
    /\ workerCall' = [workerCall EXCEPT ![c] = "idle"]
    /\ workerReturned' = op

-----------------------------------------------------------------------------
(* The calls.                                                              *)

\* startWorking, up to the wait: a parked thread is asked to start again, a
\* missing thread is created after the state has been set
StartWorking(c) ==
    /\ BeginCall(c)
    /\ \/ /\ workerPc # "none"
          /\ workerState' = IF workerState = "Stopped" THEN "Starting" ELSE workerState
          /\ UNCHANGED workerPc
       \/ /\ workerPc = "none"
          /\ workerState' = "Starting"
          /\ workerPc' = "check"
    /\ Enter(c, "waitStarted")

StartWaitOver(c) ==
    /\ workerCall[c] = "waitStarted"
    /\ workerState # "Starting"
    /\ Return(c, "start")
    /\ UNCHANGED <<workerState, workerPc, workerCalls>>

StopWorkingNoWait(c) ==
    /\ BeginCall(c)
    /\ workerState' = IF workerPc # "none" /\ workerState = "Started" THEN "Stopping" ELSE workerState
    /\ Return(c, "stop")
    /\ UNCHANGED workerPc
StopWorking(c) ==
    /\ BeginCall(c)
    /\ IF workerPc # "none" /\ workerState = "Started"
       THEN workerState' = "Stopping" /\ Enter(c, "waitStopped")
       ELSE Return(c, "stop") /\ UNCHANGED workerState
    /\ UNCHANGED workerPc

StopWaitOver(c) ==
    /\ workerCall[c] = "waitStopped"
    /\ workerState = "Stopped"
    /\ Return(c, "stop")
    /\ UNCHANGED <<workerState, workerPc, workerCalls>>

\* terminate exchanges the state and releases the lock before it joins
Terminate(c) ==
    /\ BeginCall(c)
    /\ IF workerPc # "none" /\ workerState # "Killing"
       THEN workerState' = "Killing" /\ Enter(c, "join")
       ELSE Return(c, "terminate") /\ UNCHANGED workerState
    /\ UNCHANGED workerPc

TerminateJoined(c) ==
    /\ workerCall[c] = "join"
    /\ workerPc = "exited"
    /\ Enter(c, "reset")
    /\ UNCHANGED <<workerState, workerPc, workerCalls>>

TerminateReset(c) ==
    /\ workerCall[c] = "reset"
    /\ workerPc' = "none"
    /\ Return(c, "terminate")
    /\ UNCHANGED <<workerState, workerCalls>>

-----------------------------------------------------------------------------
(* The thread.                                                             *)

ThreadStep(from, to) ==
    /\ workerPc = from
    /\ workerPc' = to
    /\ UNCHANGED <<workerCall, workerReturned, workerCalls>>

\* while (m_workerState != Killing): read without the lock
ThreadCheck ==
    /\ ThreadStep("check", IF workerState = "Killing" THEN "exited" ELSE "announce")
    /\ UNCHANGED workerState

ThreadAnnounce ==
    /\ ThreadStep("announce", "init")
    /\ workerState' = "Started"

\* initWorker, workerProcessLoop and finishWorker run in one try block: an
\* exception of any of them is logged and skips the rest
ThreadInit ==
    /\ \E to \in {"loop", "record"} : ThreadStep("init", to)
    /\ UNCHANGED workerState

\* workerProcessLoop tests the atomic before every executeWorker
ThreadLoop ==
    /\ ThreadStep("loop", IF workerState = "Started" THEN "execute" ELSE "finish")
    /\ UNCHANGED workerState

ThreadExecute ==
    /\ \E to \in {"loop", "record"} : ThreadStep("execute", to)
    /\ UNCHANGED workerState

ThreadFinish ==
    /\ ThreadStep("finish", "record")
    /\ UNCHANGED workerState

\* exchange(Stopped), taken back when the thread is to be killed or restarted
ThreadRecordStopped ==
    /\ ThreadStep("record", "park")
    /\ workerState' = "Stopped"
ThreadRecord ==
    /\ ThreadStep("record", "park")
    /\ workerState' = IF workerState \in {"Killing", "Starting"} THEN workerState ELSE "Stopped"

ThreadPark ==
    /\ workerState # "Stopped"
    /\ ThreadStep("park", "check")
    /\ UNCHANGED workerState

WorkerThread ==
    \/ ThreadCheck
    \/ ThreadAnnounce
    \/ ThreadInit
    \/ ThreadLoop
    \/ ThreadExecute
    \/ ThreadFinish
    \/ ThreadRecord
    \/ ThreadPark

WorkerCallStep(c) ==
    \/ StartWaitOver(c)
    \/ StopWaitOver(c)
    \/ TerminateJoined(c)
    \/ TerminateReset(c)

WorkerNext ==
    \/ WorkerThread
    \/ \E c \in WorkerCallers :
          \/ StartWorking(c)
          \/ StopWorking(c)
          \/ Terminate(c)
          \/ WorkerCallStep(c)

-----------------------------------------------------------------------------
(* Properties.                                                             *)

\* Once stopWorking or terminate has returned, and until the next call, the
\* thread executes nothing of the derived class: no initWorker, no
\* executeWorker, no finishWorker.
StopIsQuiet ==
    workerReturned \in {"stop", "terminate"} /\ NoWorkerCall
        => workerPc \in {"none", "park", "exited"}

\* Every startWorking, stopWorking and terminate returns, even when the
\* worker's own code throws: the thread always reaches the state that its
\* caller waits for (calls that do not overlap).
WorkerCallsReturn ==
    \A c \in WorkerCallers : workerCall[c] # "idle" ~> workerCall[c] = "idle"
=============================================================================
