-------------------------------- MODULE Task --------------------------------
(***************************************************************************)
(* frq::task (src/inc/task.hpp): coroutines that start when they are       *)
(* awaited, suspend on something else (a mutex, a pool), go on wherever    *)
(* they are resumed, and hand control back to the coroutine that awaits    *)
(* them; with sync_wait (sync_wait.hpp) around the outermost one.          *)
(*                                                                         *)
(* A thread is its native stack: the coroutines resumed on it, each inside *)
(* the call that it made last.  resume() is a plain call, so a coroutine   *)
(* that suspends returns to whoever resumed it; await_suspend resumes the  *)
(* child first and links the continuation when that call has returned, by  *)
(* which time the child may be running, or through, on another thread.     *)
(* done_ decides which of the two comes last and resumes the parent.       *)
(***************************************************************************)
EXTENDS Naturals, FiniteSets, SequencesExt

CONSTANTS
  Coros,      \* the coroutine frames
  Outer,      \* the frame of the sync_waited, awaited by a thread
  Parent,     \* Parent[c]: which coroutine awaits the task c; Nobody: it is
              \* started and left alone
  Threads,
  Main,       \* the thread in sync_wait
  Nobody      \* no coroutine

ASSUME OuterAssumption == Outer \in Coros /\ Nobody \notin Coros
(* make_sync_wait awaits one thing                                         *)
ASSUME ParentAssumption ==
  /\ Parent \in [Coros \ {Outer} -> Coros \cup {Nobody}]
  /\ \A c, d \in Coros \ {Outer} : Parent[c] = Outer /\ Parent[d] = Outer => c = d
ASSUME MainAssumption == Main \in Threads

VARIABLES
  stack,         \* stack[t]: the activations on a thread, innermost last
  frame,         \* each frame: not created, live or destroyed
  done,          \* done_ of each promise
  continuation,  \* continuation_ of each promise
  result,        \* result_ of each promise: none, a value or an exception
  caught,        \* the tasks whose exception the awaiting code has caught
  parked,        \* suspended on something that is not a task
  tired,         \* have been parked: the bound on suspensions is one
  completed,     \* the std::promise of sync_waited is set
  returned       \* what sync_wait has returned with

vars == <<stack, frame, done, continuation, result, caught, parked, tired,
          completed, returned>>

(* body: in its own code; starting: in the child's resume() of             *)
(* await_suspend; swap: in set_continuation, before the exchange; collect: *)
(* continued after the await; final: in final_awaiter, before the          *)
(* exchange; wake: before continuation_.resume(); resumed: inside of it;   *)
(* complete: in the final_awaiter of sync_waited                           *)
Points == {"body", "starting", "swap", "collect", "final", "wake",
           "resumed", "complete"}

Activation(c, at, child) == [coro |-> c, at |-> at, child |-> child]

Top(t) == Last(stack[t])
At(t, point) == stack[t] # <<>> /\ Top(t).at = point

Goto(t, point) ==
  stack' = [stack EXCEPT ![t][Len(stack[t])].at = point]
Pop(t) ==
  stack' = [stack EXCEPT ![t] = Front(@)]

-----------------------------------------------------------------------------
(* await_suspend of a new task: its frame is resumed for the first time    *)
Await(t, d) ==
  /\ At(t, "body")
  /\ frame[d] = "none" /\ d # Outer /\ Parent[d] = Top(t).coro
  /\ frame' = [frame EXCEPT ![d] = "live"]
  /\ stack' = [stack EXCEPT ![t] =
                 Append(Append(Front(@), Activation(Top(t).coro, "starting", d)),
                        Activation(d, "body", Nobody))]
  /\ UNCHANGED <<done, continuation, result, parked, tired, completed, returned, caught>>

(* start(), called by an idle thread or in the code of a coroutine         *)
Start(t, d) ==
  /\ \/ stack[t] = <<>> /\ t # Main
     \/ At(t, "body")
  /\ frame[d] = "none" /\ d # Outer /\ Parent[d] = Nobody
  /\ frame' = [frame EXCEPT ![d] = "live"]
  /\ stack' = [stack EXCEPT ![t] = Append(@, Activation(d, "body", Nobody))]
  /\ UNCHANGED <<done, continuation, result, parked, tired, completed, returned, caught>>

(* the coroutine awaits something that is not a task, and is suspended     *)
Park(t) ==
  /\ At(t, "body")
  /\ Top(t).coro \notin tired
  /\ parked' = parked \cup {Top(t).coro}
  /\ tired' = tired \cup {Top(t).coro}
  /\ Pop(t)
  /\ UNCHANGED <<frame, done, continuation, result, completed, returned, caught>>

(* what it waited for resumes it: from a worker's loop, or from the code   *)
(* of a coroutine that unlocks a mutex or puts an item                     *)
Unpark(t, c) ==
  /\ c \in parked
  /\ \/ stack[t] = <<>> /\ t # Main
     \/ At(t, "body")
  /\ parked' = parked \ {c}
  /\ stack' = [stack EXCEPT ![t] = Append(@, Activation(c, "body", Nobody))]
  /\ UNCHANGED <<frame, done, continuation, result, tired, completed, returned, caught>>

(* faulty variant: the flag is raised before the continuation is there     *)
LinkLate(t) ==
  /\ At(t, "starting")
  /\ done' = [done EXCEPT ![Top(t).child] = TRUE]
  /\ Goto(t, "swap")
  /\ UNCHANGED <<frame, continuation, result, parked, tired, completed, returned, caught>>

(* the child's resume() has returned: set_continuation stores the handle   *)
Link(t) ==
  /\ At(t, "starting")
  /\ continuation' = [continuation EXCEPT ![Top(t).child] = Top(t).coro]
  /\ Goto(t, "swap")
  /\ UNCHANGED <<frame, done, result, parked, tired, completed, returned, caught>>

(* faulty variant: the old value of done_ is not looked at                 *)
SwapBlind(t) ==
  /\ At(t, "swap")
  /\ done' = [done EXCEPT ![Top(t).child] = TRUE]
  /\ Pop(t)
  /\ UNCHANGED <<frame, continuation, result, parked, tired, completed, returned, caught>>

(* set_continuation exchanges done_: the child is through and the parent   *)
(* goes on, or the parent stays suspended                                  *)
Swap(t) ==
  /\ At(t, "swap")
  /\ done' = [done EXCEPT ![Top(t).child] = TRUE]
  /\ \/ done[Top(t).child] /\ Goto(t, "collect")
     \/ ~done[Top(t).child] /\ Pop(t)
  /\ UNCHANGED <<frame, continuation, result, parked, tired, completed, returned, caught>>

(* the awaiting code goes on with the child's frame destroyed by ~task     *)
GoOn(t) ==
  /\ frame' = [frame EXCEPT ![Top(t).child] = "gone"]
  /\ stack' = [stack EXCEPT ![t] =
                 Append(Front(@), Activation(Top(t).coro, "body", Nobody))]
  /\ UNCHANGED result

(* the coroutine ends: result_ is set and final_suspend awaited            *)
End(t, outcome) ==
  /\ result' = [result EXCEPT ![Top(t).coro] = outcome]
  /\ stack' = [stack EXCEPT ![t] = Append(Front(@),
       Activation(Top(t).coro, IF Top(t).coro = Outer THEN "complete" ELSE "final",
                  Nobody))]

(* faulty variant: result() does not rethrow *)
CollectBlind(t) ==
  /\ At(t, "collect") /\ GoOn(t)
  /\ UNCHANGED <<done, continuation, parked, tired, completed, returned, caught>>

(* await_resume: result() gives the value, or rethrows the exception, and  *)
(* the awaiting code catches it or ends with it (unhandled_exception); the *)
(* outer coroutine has no handler                                          *)
Collect(t) ==
  /\ At(t, "collect")
  /\ LET child == Top(t).child
     IN  \/ result[child] # "error" /\ GoOn(t) /\ UNCHANGED caught
         \/ /\ result[child] = "error" /\ Top(t).coro # Outer
            /\ GoOn(t) /\ caught' = caught \cup {child}
         \/ /\ result[child] = "error" /\ End(t, "error")
            /\ frame' = [frame EXCEPT ![child] = "gone"] /\ UNCHANGED caught
  /\ UNCHANGED <<done, continuation, parked, tired, completed, returned>>

(* co_return, or an exception of the coroutine's own code                  *)
Return(t) ==
  /\ At(t, "body")
  /\ \E outcome \in {"value", "error"} : End(t, outcome)
  /\ UNCHANGED <<frame, done, continuation, parked, tired, completed, returned, caught>>

(* await_ready: a started task that has ended is not resumed; the awaiting *)
(* code goes on at once with its value or with its exception, or ends with *)
(* the exception.  The task stays with its owner, until Drop.              *)
AwaitEnded(t, d) ==
  /\ At(t, "body")
  /\ d # Outer /\ Parent[d] = Nobody /\ frame[d] = "live" /\ result[d] # "none"
  /\ \/ (result[d] = "error" => Top(t).coro # Outer) /\ UNCHANGED <<stack, result>>
     \/ result[d] = "error" /\ End(t, "error")
  /\ UNCHANGED <<frame, done, continuation, parked, tired, completed, returned, caught>>

(* faulty variant: asks for a continuation, not for the flag               *)
FinishLinked(t) ==
  /\ At(t, "final")
  /\ done' = [done EXCEPT ![Top(t).coro] = TRUE]
  /\ \/ continuation[Top(t).coro] # Nobody /\ Goto(t, "wake")
     \/ continuation[Top(t).coro] = Nobody /\ Pop(t)
  /\ UNCHANGED <<frame, continuation, result, parked, tired, completed, returned, caught>>

(* final_awaiter exchanges done_: the parent is suspended, or still in     *)
(* await_suspend and will go on by itself                                  *)
Finish(t) ==
  /\ At(t, "final")
  /\ done' = [done EXCEPT ![Top(t).coro] = TRUE]
  /\ \/ done[Top(t).coro] /\ Goto(t, "wake")
     \/ ~done[Top(t).coro] /\ Pop(t)
  /\ UNCHANGED <<frame, continuation, result, parked, tired, completed, returned, caught>>

(* continuation_.resume(), called from the frame that is through           *)
Wake(t) ==
  /\ At(t, "wake")
  /\ stack' = [stack EXCEPT ![t] =
        Append(Append(Front(@), Activation(Top(t).coro, "resumed", Nobody)),
               Activation(continuation[Top(t).coro], "collect", Top(t).coro))]
  /\ UNCHANGED <<frame, done, continuation, result, parked, tired, completed,
                 returned, caught>>

(* that call returns, and so does final_awaiter: nothing is left to do     *)
Unwind(t) ==
  /\ At(t, "resumed")
  /\ Pop(t)
  /\ UNCHANGED <<frame, done, continuation, result, parked, tired, completed,
                 returned, caught>>

(* set_value, the last act of a sync_waited                                *)
Complete(t) ==
  /\ At(t, "complete")
  /\ completed' = TRUE
  /\ Pop(t)
  /\ UNCHANGED <<frame, done, continuation, result, parked, tired, returned, caught>>

(* the owner of a started task, having seen it end, destroys it            *)
Drop(d) ==
  /\ d # Outer /\ Parent[d] = Nobody /\ frame[d] = "live" /\ result[d] # "none"
  /\ \A t \in Threads : \A a \in ToSet(stack[t]) : a.coro # d
  /\ frame' = [frame EXCEPT ![d] = "gone"]
  /\ UNCHANGED <<stack, done, continuation, result, parked, tired, completed,
                 returned, caught>>

(* faulty variant: returns when its own call of resume() does              *)
SyncWaitImpatient ==
  /\ stack[Main] = <<>>
  /\ returned = "none"
  /\ returned' = result[Outer]
  /\ frame' = [frame EXCEPT ![Outer] = "gone"]
  /\ UNCHANGED <<stack, done, continuation, result, parked, tired, completed, caught>>

(* sync_wait's thread, back from resume(), waits, reads the result and     *)
(* destroys the frame                                                      *)
SyncWait ==
  /\ stack[Main] = <<>>
  /\ completed /\ returned = "none"
  /\ returned' = result[Outer]
  /\ frame' = [frame EXCEPT ![Outer] = "gone"]
  /\ UNCHANGED <<stack, done, continuation, result, parked, tired, completed, caught>>

(* execute: the thread in sync_wait resumes the outermost coroutine        *)
Init ==
  /\ stack = [t \in Threads |-> IF t = Main
                THEN <<Activation(Outer, "body", Nobody)>> ELSE <<>>]
  /\ frame = [c \in Coros |-> IF c = Outer THEN "live" ELSE "none"]
  /\ done = [c \in Coros |-> FALSE]
  /\ continuation = [c \in Coros |-> Nobody]
  /\ result = [c \in Coros |-> "none"]
  /\ caught = {}
  /\ parked = {}
  /\ tired = {}
  /\ completed = FALSE
  /\ returned = "none"

(* everything has returned *)
Done ==
  /\ returned # "none"
  /\ \A t \in Threads : stack[t] = <<>>
  /\ UNCHANGED vars

Step(t) ==
  \/ \E d \in Coros : Await(t, d) \/ Start(t, d) \/ AwaitEnded(t, d)
  \/ Park(t) \/ Link(t) \/ Swap(t) \/ Collect(t) \/ Return(t)
  \/ Finish(t) \/ Wake(t) \/ Unwind(t) \/ Complete(t)

Next ==
  \/ \E t \in Threads : Step(t) \/ \E c \in Coros : Unpark(t, c)
  \/ SyncWait
  \/ \E d \in Coros : Drop(d)
  \/ Done

Spec == Init /\ [][Next]_vars

(* Threads run, and what a coroutine waits for comes.                      *)
Fairness ==
  /\ \A t \in Threads : WF_vars(Step(t))
  /\ \A c \in Coros : WF_vars(\E t \in Threads : Unpark(t, c))
  /\ WF_vars(SyncWait)
  /\ \A d \in Coros : WF_vars(Drop(d))

FairSpec == Spec /\ Fairness

-----------------------------------------------------------------------------
Activations == UNION {ToSet(stack[t]) : t \in Threads}

(* The variables have their types: what is resumed is a coroutine.         *)
TypeOK ==
  /\ \A a \in Activations : /\ a.coro \in Coros /\ a.at \in Points
                            /\ a.child \in Coros \cup {Nobody}
  /\ frame \in [Coros -> {"none", "live", "gone"}]
  /\ done \in [Coros -> BOOLEAN]
  /\ continuation \in [Coros -> Coros \cup {Nobody}]
  /\ result \in [Coros -> {"none", "value", "error"}]
  /\ caught \subseteq Coros /\ parked \subseteq Coros /\ tired \subseteq Coros
  /\ completed \in BOOLEAN /\ returned \in {"none", "value", "error"}

(* where a coroutine is active: everywhere but under the parent it resumed *)
Active(c) ==
  UNION {{t} \X {k \in DOMAIN stack[t] :
                   stack[t][k].coro = c /\ stack[t][k].at # "resumed"} :
         t \in Threads}

(* A coroutine is active in one place at most, and not while something     *)
(* else will resume it: the parent that goes on by itself and the child    *)
(* that wakes it never both run it (task.hpp:87, 111).                     *)
OneRunner ==
  \A c \in Coros : /\ Cardinality(Active(c)) <= 1
                   /\ c \in parked => Active(c) = {}

(* No code still to run refers to a destroyed frame: neither what resumes  *)
(* a parked coroutine, nor the child that is about to resume its parent,   *)
(* nor the parent that links itself to a child which is through on another *)
(* thread; and a parent that goes on finds the child's result              *)
(* (task.hpp:84-90, 202-205).                                              *)
NoDangling ==
  /\ \A c \in parked : frame[c] = "live"
  /\ \A a \in Activations :
       a.at # "resumed" =>
         /\ frame[a.coro] = "live"
         /\ a.at = "wake" => /\ continuation[a.coro] \in Coros
                             /\ frame[continuation[a.coro]] = "live"
         /\ a.at = "collect" => result[a.child] # "none"
         /\ a.at \in {"starting", "swap", "collect"} => frame[a.child] = "live"

(* A coroutine suspended in an await is going to be resumed: it is linked  *)
(* to a child that is not through, and that has seen, or will see, the     *)
(* flag raised (task.hpp:87, 109-112).                                     *)
SuspendedLinked ==
  \A c \in Coros :
    frame[c] = "live" /\ c \notin parked /\ result[c] = "none"
      /\ Active(c) = {} =>
      \E d \in Coros \ {Outer} :
        /\ Parent[d] = c /\ frame[d] = "live"
        /\ continuation[d] = c /\ done[d]
        /\ result[d] # "none" => \E a \in Activations :
                             a.coro = d /\ a.at \in {"final", "wake"}

(* No exception is lost on the way up, over whichever threads: when the    *)
(* frame that holds it is destroyed, the code that awaited it has caught   *)
(* it, or has ended with it, up to the caller of sync_wait (task.hpp:97-99,*)
(* 131-136, 207-213, sync_wait.hpp:84-101).  Nobody asks for that of a     *)
(* started one.                                                            *)
ErrorHeard ==
  \A c \in Coros : result[c] = "error" /\ frame[c] = "gone" =>
    IF c = Outer THEN returned = "error"
    ELSE Parent[c] # Nobody => c \in caught \/ result[Parent[c]] = "error"

(* sync_wait returns in the end, and no task is left behind: no            *)
(* continuation is ever lost.                                              *)
Completes == <>(returned # "none" /\ \A c \in Coros : frame[c] \in {"none", "gone"})
=============================================================================
