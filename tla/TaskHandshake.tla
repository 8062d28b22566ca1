----------------------------- MODULE TaskHandshake -----------------------------
(***************************************************************************)
(* How Task<T> coroutines hand over to each other.  A root coroutine (an   *)
(* entry point of the SDK) creates N child tasks and takes their results   *)
(* in order; a driver thread starts the root and polls it (the C binding's *)
(* drive_to_completion).  A child that waits for I/O or a timer is resumed *)
(* either from a detached thread (FutureAwaitable, AsyncSleep) or by the   *)
(* event loop the driver runs.                                             *)
(*                                                                         *)
(* The steps are those of await_ready, await_suspend and final_suspend,    *)
(* which read and write done() and promise().continuation with no lock.    *)
(***************************************************************************)
EXTENDS Integers

CONSTANT N   \* how many children the root awaits

ASSUME HandshakeAssumption == N \in Nat \ {0}

VARIABLES use,       \* how the SDK uses its tasks here, see Uses
          frame,     \* frame[i]: the coroutine frame of child i
          started,   \* Task::started_
          cont,      \* whether promise().continuation is the root
          pc,        \* where the root is
          child,     \* the child the root is concerned with
          runner     \* the thread that runs the root's code

\* threads: children are resumed from threads of their own (else by the event
\* loop); eager: they are start()ed before the first co_await (execute_tools
\* does, most other code does not); throws: their exceptions may reach the root.
Uses == [threads : BOOLEAN, eager : BOOLEAN, throws : BOOLEAN]

taskVars == <<use, frame, started, cont, pc, child, runner>>

Children == 1..N

\* "final": the body is over and done() answers true, but await_suspend of the
\* final awaiter has not read the continuation yet; "parked": it has.
Frames == {"created", "suspended", "resumed", "final", "parked", "freed", "dangling"}
PCs    == {"start", "check", "suspend", "suspended", "take", "final", "parked",
           "freed", "dangling"}

Done(i) == frame[i] \in {"final", "parked"}

TaskInit == /\ use \in Uses
            /\ frame = [i \in Children |-> "created"]
            /\ started = [i \in Children |-> FALSE]
            /\ cont = [i \in Children |-> FALSE]
            /\ pc = IF use.eager THEN "start" ELSE "check"
            /\ child = 1
            /\ runner = "driver"

-----------------------------------------------------------------------------
(* The root *)

\* start(): the child runs on this thread to its first suspension or its end.
StartTask == /\ pc = "start"
             /\ started' = [started EXCEPT ![child] = TRUE]
             /\ \E f \in {"suspended", "parked"} : frame' = [frame EXCEPT ![child] = f]
             /\ IF child = N THEN pc' = "check" /\ child' = 1
                         ELSE child' = child + 1 /\ UNCHANGED pc
             /\ UNCHANGED <<use, cont, runner>>

\* A mistake: a started task counts as ready.
AwaitReadyIfStarted ==
    /\ pc = "check"
    /\ pc' = IF started[child] \/ Done(child) THEN "take" ELSE "suspend"
    /\ UNCHANGED <<use, frame, started, cont, child, runner>>

\* await_ready() of the k-th child.
AwaitReady == /\ pc = "check"
              /\ pc' = IF Done(child) THEN "take" ELSE "suspend"
              /\ UNCHANGED <<use, frame, started, cont, child, runner>>

\* A mistake: the started task is left without its continuation.
AwaitStartedUnlinked ==
    /\ pc = "suspend"
    /\ started[child]
    /\ pc' = "suspended"
    /\ runner' = "nobody"
    /\ UNCHANGED <<use, frame, started, cont, child>>

\* A mistake: the continuation is set, yet the root stays where it is.
AwaitStartedSpins ==
    /\ pc = "suspend"
    /\ started[child]
    /\ cont' = [cont EXCEPT ![child] = TRUE]
    /\ pc' = "check"
    /\ UNCHANGED <<use, frame, started, child, runner>>

\* await_suspend() of a child in flight: leave the continuation and return to
\* whoever resumed the root.
AwaitStarted == /\ pc = "suspend"
                /\ started[child]
                /\ cont' = [cont EXCEPT ![child] = TRUE]
                /\ pc' = "suspended"
                /\ runner' = "nobody"
                /\ UNCHANGED <<use, frame, started, child>>

\* A mistake: the continuation is not set before the child runs.
AwaitFreshUnlinked ==
    /\ pc = "suspend"
    /\ ~started[child]
    /\ started' = [started EXCEPT ![child] = TRUE]
    /\ frame' = [frame EXCEPT ![child] = "suspended"]
    /\ pc' = "suspended"
    /\ runner' = "nobody"
    /\ UNCHANGED <<use, cont, child>>

\* A mistake: the root goes on when its child merely suspends.
AwaitFreshGoesOn ==
    /\ pc = "suspend"
    /\ ~started[child]
    /\ cont' = [cont EXCEPT ![child] = TRUE]
    /\ started' = [started EXCEPT ![child] = TRUE]
    /\ frame' = [frame EXCEPT ![child] = "suspended"]
    /\ pc' = "take"
    /\ UNCHANGED <<use, child, runner>>

\* await_suspend() of a child not started: continue with the child, which
\* suspends, or ends and hands straight back to the root.
AwaitFresh == /\ pc = "suspend"
              /\ ~started[child]
              /\ cont' = [cont EXCEPT ![child] = TRUE]
              /\ started' = [started EXCEPT ![child] = TRUE]
              /\ \/ /\ frame' = [frame EXCEPT ![child] = "suspended"]
                    /\ pc' = "suspended"
                    /\ runner' = "nobody"
                 \/ /\ frame' = [frame EXCEPT ![child] = "parked"]
                    /\ pc' = "take"
                    /\ UNCHANGED runner
              /\ UNCHANGED <<use, child>>

\* Destroying a frame a thread is still executing, or will resume, leaves that
\* thread with freed memory.
Destroyed(f) == IF f \in {"suspended", "resumed", "final"} THEN "dangling" ELSE "freed"

DestroyTasks == frame' = [i \in Children |-> Destroyed(frame[i])]

\* await_resume() moves the result out; after the last child the tasks are
\* destroyed and the root's own body is over.
Take == /\ pc = "take"
        /\ IF child < N
           THEN /\ child' = child + 1
                /\ pc' = "check"
                /\ UNCHANGED frame
           ELSE /\ pc' = "final"
                /\ DestroyTasks
                /\ UNCHANGED child
        /\ UNCHANGED <<use, started, cont, runner>>

\* await_resume() rethrows the child's exception: the root's body is left, and
\* with it every task it still has.
TakeThrows == /\ pc = "take"
              /\ use.throws
              /\ pc' = "final"
              /\ DestroyTasks
              /\ UNCHANGED <<use, started, cont, child, runner>>

\* The root's final awaiter finds no continuation.
RootParks == /\ pc = "final"
             /\ pc' = "parked"
             /\ runner' = "nobody"
             /\ UNCHANGED <<use, frame, started, cont, child>>

-----------------------------------------------------------------------------
(* The threads that resume children, and the driver *)

\* With threads anybody runs at any time; on one event loop a handler runs to
\* its end before the next.
MayRun(i) == \/ use.threads
             \/ /\ runner = "nobody"
                /\ \A j \in Children \ {i} : frame[j] \notin {"resumed", "final"}

Resume(i) == /\ frame[i] = "suspended"
             /\ MayRun(i)
             /\ frame' = [frame EXCEPT ![i] = "resumed"]
             /\ UNCHANGED <<use, started, cont, pc, child, runner>>

\* The body returns or throws; from here on done() is true.
Complete(i) == /\ frame[i] = "resumed"
               /\ frame' = [frame EXCEPT ![i] = "final"]
               /\ UNCHANGED <<use, started, cont, pc, child, runner>>

\* The final awaiter reads the continuation and resumes it, if there is one.
FinalSuspend(i) == /\ frame[i] = "final"
                   /\ frame' = [frame EXCEPT ![i] = "parked"]
                   /\ IF cont[i] THEN pc' = "take" /\ runner' = "worker"
                                 ELSE UNCHANGED <<use, pc, runner>>
                   /\ UNCHANGED <<use, started, cont, child>>

\* drive_to_completion sees done(), takes the result and destroys the root.
DriverFinishes == /\ pc \in {"final", "parked"}
                  /\ runner # "driver"
                  /\ use.threads \/ runner = "nobody"
                  /\ pc' = Destroyed(pc)
                  /\ UNCHANGED <<use, frame, started, cont, child, runner>>

Terminated == pc \in {"freed", "dangling"} /\ UNCHANGED taskVars

RootStep == StartTask \/ AwaitReady \/ AwaitStarted \/ AwaitFresh \/ Take \/ TakeThrows
            \/ RootParks

ChildStep(i) == Resume(i) \/ Complete(i) \/ FinalSuspend(i)

TaskNext == RootStep \/ (\E i \in Children : ChildStep(i)) \/ DriverFinishes \/ Terminated

TaskSpec == TaskInit /\ [][TaskNext]_taskVars

\* No thread stops for good between two statements, what a child waits for
\* arrives, and the driver polls on.
TaskFairSpec == /\ TaskSpec
                /\ WF_taskVars(RootStep)
                /\ \A i \in 1..N : WF_taskVars(ChildStep(i))
                /\ WF_taskVars(DriverFinishes)

-----------------------------------------------------------------------------
TaskTypeOK == /\ use \in Uses
              /\ frame \in [Children -> Frames]
              /\ started \in [Children -> BOOLEAN]
              /\ cont \in [Children -> BOOLEAN]
              /\ pc \in PCs
              /\ child \in Children
              /\ runner \in {"driver", "worker", "nobody"}

\* A result is moved out of a child only when the child has one.
TakeHasResult == pc = "take" => Done(child)

\* A child about to resume its continuation resumes a root that is suspended
\* on this very child, so that the root's code never runs on two threads.
ResumesOnlySuspended == \A i \in Children :
    frame[i] = "final" /\ cont[i] => pc = "suspended" /\ child = i /\ runner = "nobody"

\* The tasks are not destroyed under a thread that still executes or will
\* resume one.  Not so for tasks started ahead of their co_await: an exception
\* destroys the ones still running, and a thread may see done() before the
\* finishing one has read the continuation.
ChildrenOutliveThreads ==
    \/ use.eager /\ (use.threads \/ use.throws)
    \/ \A i \in Children : frame[i] # "dangling"

\* A root whose driver has destroyed it was not being executed by another
\* thread.  Not so with threads: done() is true before the final awaiter is over.
NoticedMeansFinished == use.threads \/ pc # "dangling"

\* "Task is already in flight (start() then co_await); it resumes us via
\* final_suspend when it completes": the root is never left suspended on a
\* child that has come to its end.
ResumedWhenChildEnds == ~(pc = "suspended" /\ frame[child] = "parked")

\* The same where no thread can end a child between await_ready() and
\* await_suspend(): on one event loop, or for children not started before.
ResumedInOrder == (use.threads /\ use.eager) \/ ResumedWhenChildEnds

\* What the proofs need beyond these: who runs, which continuation is still
\* to be resumed, and which children can still move.
Live(i) == frame[i] \in {"suspended", "resumed", "final"}

RootAlive == pc \in {"start", "check", "suspend", "suspended", "take"}

\* Somebody runs the root exactly while it is not suspended.
RunnerFollowsRoot == /\ pc \in {"start", "check", "suspend", "take", "final"} => runner # "nobody"
                     /\ pc \in {"suspended", "parked"} => runner = "nobody"

\* The only continuation still to be resumed is that of the awaited child.
OneContinuation == /\ \A i \in Children : cont[i] /\ Live(i) => pc = "suspended" /\ child = i
                   /\ pc = "start" => \A i \in Children : ~cont[i]

\* Children are taken one after the other, and destroyed with the root's body.
TakenInOrder ==
    /\ RootAlive => \A i \in Children : frame[i] \notin {"freed", "dangling"}
    /\ ~RootAlive => \A i \in Children : ~Live(i)
    /\ RootAlive /\ pc # "start" => \A i \in Children : i < child => Done(i)
    /\ \A i \in Children : started[i] => frame[i] # "created"

\* A child that is awaited before it was started runs for its awaiter only.
LazyWaits == ~use.eager =>
    /\ pc # "start"
    /\ \A i \in Children : Live(i) => cont[i]
    /\ pc \in {"check", "suspend"} => ~started[child]
    /\ RootAlive => \A i \in Children : i > child => ~started[i]

\* On the event loop one handler runs at a time, and none while the root does.
OneHandler == ~use.threads =>
    /\ \A i \in Children : frame[i] \in {"resumed", "final"} =>
           /\ runner = "nobody"
           /\ \A j \in Children \ {i} : frame[j] \notin {"resumed", "final"}
    /\ pc = "suspend" => ~Done(child)

\* A suspended root will be resumed.
WaitsForLive == ~(use.threads /\ use.eager) =>
    (pc = "suspended" => Live(child) /\ cont[child])

HandshakeInv ==
    /\ TaskTypeOK
    /\ TakeHasResult
    /\ RunnerFollowsRoot
    /\ OneContinuation
    /\ TakenInOrder
    /\ LazyWaits
    /\ OneHandler
    /\ WaitsForLive
    /\ ChildrenOutliveThreads
    /\ NoticedMeansFinished

\* The driver gets the root's result, unless the root may be left suspended.
Delivered == ~(use.threads /\ use.eager) => <>(pc \in {"freed", "dangling"})
=============================================================================
