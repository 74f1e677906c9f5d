-------------------------------- MODULE Timer --------------------------------
(***************************************************************************)
(* libutilities/Timer: a one-shot timer on an io_service of its own.       *)
(* m_running and m_working are atomics that the callers test and set       *)
(* without a lock, so a call is the sequence of its atomic steps and the   *)
(* steps of several calls interleave; timerCall[c] is what is left of the  *)
(* call of c.  The timeout itself is not modelled: an armed timer expires  *)
(* at any moment (reset(t) is restart with another timeout).               *)
(*                                                                         *)
(* External, from how Timer uses boost::asio: arming a timer again or      *)
(* cancelling it aborts the wait, and the aborted handler does nothing; an *)
(* expired wait is queued on the io_service and can no longer be           *)
(* cancelled; run() returns when the io_service is stopped.                *)
(***************************************************************************)
EXTENDS Naturals, Sequences

CONSTANTS TimerThreads,  \* threads that start, stop and restart the timer
          Destroyers,    \* the callers that may also destroy it
          MaxTimerCalls  \* bound on the number of calls

\* the timeout handler calls the timer too, from the io_service's thread
TimerCallers == TimerThreads \cup {"handler"}

VARIABLES working,      \* m_working
          running,      \* m_running
          armed,        \* an async_wait is outstanding
          due,          \* expired waits whose handler is still queued
          ioStopped,    \* the io_service is stopped
          timerThread,  \* where the thread of the io_service is
          timerWorker,  \* m_worker: "set", "joining", "detached", "null" (reset), or
                        \* "misused" when two calls of destroy() race on it
          timerCall,    \* the remaining steps of each caller's call
          timerCalls

timerVars == <<working, running, armed, due, ioStopped, timerThread, timerWorker,
               timerCall, timerCalls>>

TimerInit ==
    /\ working = TRUE /\ running = FALSE
    /\ armed = FALSE /\ due = 0
    /\ ioStopped = FALSE
    /\ timerThread = "loop"
    /\ timerWorker = "set"
    /\ timerCall = [c \in TimerCallers |-> <<>>]
    /\ timerCalls = 0

StartSteps == <<"testWorking", "testRunning", "arm", "setRunning">>
StopSteps == <<"clearRunning", "cancel">>

\* start, stop, and restart (reset), as the sequences of their atomic steps
TimerOps == {StartSteps, StopSteps, <<"testWorking">> \o StopSteps \o StartSteps}

\* destroy clears m_working first, which makes the stop() it calls return at
\* once: the outstanding wait is not cancelled, the io_service is stopped
DestroyStepsStopFirst ==
    <<"testDestroy", "stopIo", "clearWorking", "join", "awaitThread", "resetWorker">>
DestroySteps ==
    <<"testDestroy", "clearWorking", "stopIo", "join", "awaitThread", "resetWorker">>

DestroyStepNames ==
    {"testDestroy", "clearWorking", "stopIo", "join", "awaitThread", "resetWorker"}
Destroying(c) == timerCall[c] # <<>> /\ Head(timerCall[c]) \in DestroyStepNames

CallTimer(c) ==
    /\ timerCall[c] = <<>>
    /\ c = "handler" => timerThread = "handler"
    /\ timerCalls < MaxTimerCalls
    /\ \/ \E op \in TimerOps : timerCall' = [timerCall EXCEPT ![c] = op]
       \/ /\ c \in Destroyers
          /\ timerCall' = [timerCall EXCEPT ![c] = DestroySteps]
    /\ timerCalls' = timerCalls + 1
    /\ UNCHANGED <<working, running, armed, due, ioStopped, timerThread, timerWorker>>

AtStep(c, step) == timerCall[c] # <<>> /\ Head(timerCall[c]) = step

\* the call goes on with the step that follows, n steps further, or returns
Skip(c, n) ==
    /\ timerCall' = [timerCall EXCEPT ![c] = SubSeq(@, n + 1, Len(@))]
    /\ UNCHANGED timerCalls

TimerReturn(c) == Skip(c, Len(timerCall[c]))

TestWorking(c) ==
    /\ AtStep(c, "testWorking")
    /\ IF working THEN Skip(c, 1) ELSE TimerReturn(c)
    /\ UNCHANGED <<working, running, armed, due, ioStopped, timerThread, timerWorker>>

TestRunning(c) ==
    /\ AtStep(c, "testRunning")
    /\ IF running THEN TimerReturn(c) ELSE Skip(c, 1)
    /\ UNCHANGED <<working, running, armed, due, ioStopped, timerThread, timerWorker>>

\* expires_from_now aborts the wait in progress, async_wait begins a new one
Arm(c) ==
    /\ AtStep(c, "arm")
    /\ armed' = TRUE
    /\ Skip(c, 1)
    /\ UNCHANGED <<working, running, due, ioStopped, timerThread, timerWorker>>

SetRunning(c) ==
    /\ AtStep(c, "setRunning")
    /\ running' = TRUE
    /\ Skip(c, 1)
    /\ UNCHANGED <<working, armed, due, ioStopped, timerThread, timerWorker>>

\* stop(): a timer that does not run is left alone
ClearRunning(c) ==
    /\ AtStep(c, "clearRunning")
    /\ IF working /\ running
       THEN running' = FALSE /\ Skip(c, 1)
       ELSE UNCHANGED running /\ Skip(c, 2)
    /\ UNCHANGED <<working, armed, due, ioStopped, timerThread, timerWorker>>

Cancel(c) ==
    /\ AtStep(c, "cancel")
    /\ armed' = FALSE
    /\ Skip(c, 1)
    /\ UNCHANGED <<working, running, due, ioStopped, timerThread, timerWorker>>

TestDestroy(c) ==
    /\ AtStep(c, "testDestroy")
    /\ IF working /\ timerWorker # "null" THEN Skip(c, 1) ELSE TimerReturn(c)
    /\ UNCHANGED <<working, running, armed, due, ioStopped, timerThread, timerWorker>>

ClearWorking(c) ==
    /\ AtStep(c, "clearWorking")
    /\ working' = FALSE
    /\ Skip(c, 1)
    /\ UNCHANGED <<running, armed, due, ioStopped, timerThread, timerWorker>>

StopIo(c) ==
    /\ AtStep(c, "stopIo")
    /\ ioStopped' = TRUE
    /\ Skip(c, 1)
    /\ UNCHANGED <<working, running, armed, due, timerThread, timerWorker>>

\* the handler cannot join its own thread and detaches it
Join(c) ==
    /\ AtStep(c, "join") /\ timerWorker = "set"
    /\ \/ /\ c # "handler"
          /\ timerWorker' = "joining"
          /\ Skip(c, 1)
       \/ /\ c = "handler"
          /\ timerWorker' = "detached"
          /\ TimerReturn(c)
    /\ UNCHANGED <<working, running, armed, due, ioStopped, timerThread>>

\* two calls passed the test of m_working: a thread is joined or detached that
\* another call joins, has detached or has reset.  What that does is undefined;
\* the model says no more than that it happened
JoinAgain(c) ==
    /\ AtStep(c, "join") /\ timerWorker # "set"
    /\ timerWorker' = "misused"
    /\ TimerReturn(c)
    /\ UNCHANGED <<working, running, armed, due, ioStopped, timerThread>>

AwaitThread(c) ==
    /\ AtStep(c, "awaitThread") /\ timerThread = "exited"
    /\ Skip(c, 1)
    /\ UNCHANGED <<working, running, armed, due, ioStopped, timerThread, timerWorker>>

ResetWorker(c) ==
    /\ AtStep(c, "resetWorker")
    /\ timerWorker' = IF timerWorker = "misused" THEN "misused" ELSE "null"
    /\ Skip(c, 1)
    /\ UNCHANGED <<working, running, armed, due, ioStopped, timerThread>>

TimerCallStep(c) ==
    \/ TestWorking(c)
    \/ TestRunning(c)
    \/ Arm(c)
    \/ SetRunning(c)
    \/ ClearRunning(c)
    \/ Cancel(c)
    \/ TestDestroy(c)
    \/ ClearWorking(c)
    \/ StopIo(c)
    \/ Join(c)
    \/ JoinAgain(c)
    \/ AwaitThread(c)
    \/ ResetWorker(c)

-----------------------------------------------------------------------------
(* The io_service and its thread.                                          *)

Expire ==
    /\ armed
    /\ armed' = FALSE
    /\ due' = due + 1
    /\ UNCHANGED <<working, running, ioStopped, timerThread, timerWorker, timerCall,
                   timerCalls>>

ServiceThread(from, to) ==
    /\ timerThread = from
    /\ timerThread' = to
    /\ UNCHANGED <<working, running, armed, timerWorker, timerCall, timerCalls>>

ThreadTest ==
    /\ ServiceThread("loop", IF working THEN "run" ELSE "exited")
    /\ UNCHANGED <<due, ioStopped>>

\* the handler of an expired wait runs the timeout handler; it leaves
\* m_running as it is
RunHandler ==
    /\ ServiceThread("run", "handler")
    /\ ~ioStopped /\ due > 0
    /\ due' = due - 1
    /\ UNCHANGED ioStopped

HandlerDone ==
    /\ timerCall["handler"] = <<>>
    /\ ServiceThread("handler", "run")
    /\ UNCHANGED <<due, ioStopped>>

\* run() returns once the service is stopped; reset() makes it usable again
RunReturns ==
    /\ ServiceThread("run", "loop")
    /\ ioStopped
    /\ ioStopped' = FALSE
    /\ UNCHANGED due

TimerThread == ThreadTest \/ RunHandler \/ HandlerDone \/ RunReturns

TimerNext ==
    \/ Expire
    \/ TimerThread
    \/ \E c \in TimerCallers : CallTimer(c) \/ TimerCallStep(c)

-----------------------------------------------------------------------------
(* Properties.                                                             *)

\* A destroy() returns, whatever starts, stops and expirations it races with:
\* the thread of the io_service cannot miss the stop, and a handler that
\* destroys its own timer does not wait for itself.  Two calls that both pass
\* the test of m_working before either clears it are excepted: they race on
\* m_worker, which is undefined.
DestroyReturns ==
    \A c \in Destroyers :
        Destroying(c) ~> (timerCall[c] = <<>> \/ timerWorker = "misused")
=============================================================================
